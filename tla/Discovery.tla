------------------------------ MODULE Discovery ------------------------------
(***************************************************************************)
(* Business discovery: the dialogue in which an owner tells about the      *)
(* business (BusinessDiscoveryWorkflowHandler), the profile that keeps the *)
(* answers (BusinessDiscoveryService) and its reminders (the hourly cron   *)
(* and the endpoint).                                                      *)
(*                                                                         *)
(* The profile is one row.  Every operation reads it, changes the copy and *)
(* saves the attributes it changed, the answers being one JSON attribute:  *)
(* of two operations at once the second to save takes the answers of the   *)
(* first away.  WorkflowSession has the sessions themselves; here the      *)
(* person's messages are handled one after the other.                      *)
(***************************************************************************)
EXTENDS Integers, FiniteSets

CONSTANTS
    Topic,          \* the buckets of the menu
    Repeatable,     \* those that are filled once per person
    Fields,         \* questions per topic
    MaxEntities, MaxMessages, MaxOthers     \* bounds

DiscoveryAssumption ==
    /\ Repeatable \subseteq Topic
    /\ {Fields, MaxEntities} \subseteq Nat \ {0}
    /\ {MaxMessages, MaxOthers} \subseteq Nat

VARIABLES
    row,        \* the profile; due: a reminder is scheduled
    rows,       \* the factory's members, items and vendors are all there
    talk,       \* the session: step and data
    asked,      \* the question the person was asked last
    work,       \* work[c]: the operation c is in
    told,       \* questions whose answer was received
    overlapped, \* two operations were under way at once
    messages, others

discoveryVars == <<row, rows, talk, asked, work, told, overlapped, messages, others>>

NoTopic == "no topic"
Slot == {<<b, e, f>> : b \in Topic, e \in 0..MaxEntities-1, f \in 0..Fields-1}
NoSlot == <<NoTopic, 0, 0>>
Client == {"chat", "document", "reminder"}
AtMenu == [step |-> "MENU", topic |-> NoTopic, field |-> 0, entity |-> 0, more |-> FALSE]
NoTalk == [AtMenu EXCEPT !.step = "none"]
NewRow == [status |-> "ACTIVE", stage |-> 0, due |-> TRUE, data |-> [s \in Slot |-> NoSlot], scored |-> FALSE]
None == [op |-> "none", seen |-> [status |-> "none"], slot |-> NoSlot, talk |-> NoTalk, asked |-> NoSlot]
Menu == <<"menu", 0, 0>>
More == <<"more", 0, 0>>

Init ==
    /\ row = NewRow
    /\ rows \in BOOLEAN
    /\ talk = NoTalk
    /\ asked = NoSlot
    /\ work = [c \in Client |-> None]
    /\ told = {}
    /\ overlapped = FALSE
    /\ messages = 0 /\ others = 0

Busy(c) == work[c].op # "none"

-----------------------------------------------------------------------------
(* What each operation changes of the copy p it read. *)
Answered_Alone(p, slot, by) == [p EXCEPT !.data = [s \in Slot |-> IF s = slot THEN by ELSE NoSlot]]

Answered(p, slot, by) == [p EXCEPT !.data[slot] = by]

(* touchActivity: reminders start over, of a profile that is not paused. *)
Touched(p) == IF p.status = "ACTIVE" THEN [p EXCEPT !.stage = 0, !.due = TRUE] ELSE p

Resumed(p) == Touched([p EXCEPT !.status = "ACTIVE", !.stage = 0])
Paused(p) == [p EXCEPT !.status = "PAUSED", !.due = FALSE, !.stage = 3]

(* refreshScores: 100 takes every answer and what the factory's own rows say. *)
Complete(p) == rows /\ \A s \in Slot : s[1] \notin Repeatable /\ s[2] = 0 => p.data[s] # NoSlot
Completed(p) == [p EXCEPT !.status = "COMPLETED", !.due = FALSE]
Scored(p) ==
    LET q == [p EXCEPT !.scored = Complete(p)] IN
    IF q.scored /\ p.status = "ACTIVE" THEN Completed(q) ELSE q

(* processReminder: a second one a week after the first, then no more. *)
Reminded_Again(p) ==
    IF p.status # "ACTIVE" \/ p.stage >= 3 THEN p
    ELSE [p EXCEPT !.stage = 1, !.due = TRUE]

Reminded(p) ==
    CASE p.status # "ACTIVE" \/ p.stage >= 3 -> p
      [] p.status = "ACTIVE" /\ p.stage = 0   -> [p EXCEPT !.stage = 1, !.due = TRUE]
      [] p.status = "ACTIVE" /\ p.stage = 1   -> [p EXCEPT !.stage = 2, !.due = FALSE]
      [] p.status = "ACTIVE" /\ p.stage = 2   -> Paused(p)

Changed(w) ==
    CASE w.op = "record" -> Touched(Answered(w.seen, w.slot, asked))
      [] w.op = "bump"   -> Touched(w.seen)
      [] w.op = "resume" -> Resumed(w.seen)
      [] w.op = "pause"  -> Paused(w.seen)
      [] w.op = "remind" -> Reminded(w.seen)
      [] w.op = "score"  -> Scored(w.seen)

Rescheduled(op) == op \in {"record", "bump", "resume"}

(* repository.save: the attributes that differ from what was read.  A due date
   just computed always differs; the answers are written by those who touch them. *)
Save(w) ==
    LET p == Changed(w) IN
    [row EXCEPT !.status = IF p.status # w.seen.status THEN p.status ELSE @,
                !.stage  = IF p.stage # w.seen.stage THEN p.stage ELSE @,
                !.due    = IF p.due # w.seen.due \/ (Rescheduled(w.op) /\ p.status = "ACTIVE")
                           THEN p.due ELSE @,
                !.scored = IF p.scored # w.seen.scored THEN p.scored ELSE @,
                !.data   = IF w.op \in {"record", "bump"} THEN p.data ELSE @]

-----------------------------------------------------------------------------
(* c reads the profile and goes on to op; then's talk and question come after. *)
Starts(c, op, slot, next, question) ==
    /\ work' = [work EXCEPT ![c] = [op |-> op, seen |-> row, slot |-> slot,
                                    talk |-> next, asked |-> question]]
    /\ overlapped' = (overlapped \/ \E d \in Client \ {c} : Busy(d))

(* The save; answers and documents are scored with the copy just saved, and so
   is the menu shown after a topic. *)
Saves(c) ==
    LET w == work[c] IN
    /\ Busy(c) /\ w.op # "mark"
    /\ row' = Save(w)
    /\ IF w.op \in {"record", "bump"}
       THEN /\ work' = [work EXCEPT ![c].op = "score", ![c].seen = Changed(w)]
            /\ UNCHANGED <<talk, asked>>
       ELSE IF c = "document"
       THEN /\ work' = [work EXCEPT ![c].op = "mark"]
            /\ UNCHANGED <<talk, asked>>
       ELSE /\ work' = [work EXCEPT ![c] = None]
            /\ talk' = IF c = "chat" THEN w.talk ELSE talk
            /\ asked' = IF c = "chat" THEN w.asked ELSE asked
    /\ UNCHANGED <<rows, told, overlapped, messages, others>>

(* markCompletedIfReady, paused or not. *)
Mark ==
    /\ work["document"].op = "mark"
    /\ row' = IF row.scored THEN Completed(row) ELSE row
    /\ work' = [work EXCEPT !["document"] = None]
    /\ UNCHANGED <<rows, talk, asked, told, overlapped, messages, others>>

-----------------------------------------------------------------------------
Message == messages < MaxMessages /\ ~Busy("chat") /\ messages' = messages + 1

(* /business_discovery opens a session with no data. *)
Open ==
    /\ ~Busy("chat")
    /\ talk.step = "none"
    /\ talk' = AtMenu /\ asked' = Menu
    /\ UNCHANGED <<row, rows, work, told, overlapped, messages, others>>

Pause ==
    /\ Message
    /\ talk.step # "none"
    /\ Starts("chat", "pause", NoSlot, NoTalk, NoSlot)
    /\ UNCHANGED <<row, rows, talk, asked, told, others>>

Question(t) == <<t.topic, t.entity, t.field>>

(* A reply to the menu: a session that still has a topic goes on with it. *)
PickTopic(b) ==
    LET t == [talk EXCEPT !.step = "COLLECT", !.more = FALSE,
                          !.topic = IF talk.topic = NoTopic THEN b ELSE @] IN
    /\ Message
    /\ talk.step = "MENU"
    /\ Starts("chat", "resume", NoSlot, t, Question(t))
    /\ UNCHANGED <<row, rows, talk, asked, told, others>>

(* progress or a daily command; with a topic pending there is no such reply. *)
AskProgress ==
    /\ Message
    /\ talk.step = "MENU" /\ talk.topic = NoTopic
    /\ Starts("chat", "score", NoSlot, AtMenu, Menu)
    /\ UNCHANGED <<row, rows, talk, asked, told, others>>

(* The next question, or what follows the last one of a topic: another person,
   asked for before anything is known of one, or the menu. *)
After(t) ==
    LET n == [t EXCEPT !.field = @ + 1] IN
    IF n.field < Fields THEN n
    ELSE IF t.topic \in Repeatable THEN [t EXCEPT !.field = 0, !.more = TRUE]
    ELSE AtMenu

Ask(t) == IF t.step = "MENU" THEN Menu ELSE IF t.more THEN More ELSE Question(t)

(* An answer is stored under the topic, person and question of the session. *)
Answer ==
    LET t == After(talk) IN
    /\ Message
    /\ talk.step = "COLLECT" /\ ~talk.more
    /\ Starts("chat", "record", Question(talk), t, Ask(t))
    /\ told' = told \union {asked}
    /\ UNCHANGED <<row, rows, talk, asked, others>>

(* skip stores nothing; the menu after a topic shows the score. *)
Skip ==
    LET t == After(talk) IN
    /\ Message
    /\ talk.step = "COLLECT" /\ ~talk.more
    /\ IF t.step = "MENU"
       THEN Starts("chat", "score", NoSlot, t, Ask(t)) /\ UNCHANGED <<talk, asked>>
       ELSE talk' = t /\ asked' = Ask(t) /\ UNCHANGED <<work, overlapped>>
    /\ UNCHANGED <<row, rows, told, others>>

(* A daily command is not stored: the question is asked again. *)
Command ==
    /\ Message
    /\ talk.step = "COLLECT" /\ ~talk.more
    /\ asked' = Question(talk)
    /\ UNCHANGED <<row, rows, talk, work, told, overlapped, others>>

(* yes to another person: the next entity from its first question. *)
AnotherYes ==
    LET t == [talk EXCEPT !.entity = @ + 1, !.field = 0, !.more = FALSE] IN
    /\ Message
    /\ talk.step = "COLLECT" /\ talk.more /\ talk.entity + 1 < MaxEntities
    /\ talk' = t /\ asked' = Question(t)
    /\ UNCHANGED <<row, rows, work, told, overlapped, others>>

(* Anything else ends the topic, whose data stay in the session. *)
AnotherNo ==
    /\ Message
    /\ talk.step = "COLLECT" /\ talk.more
    /\ Starts("chat", "score", NoSlot, [talk EXCEPT !.step = "MENU"], Menu)
    /\ UNCHANGED <<row, rows, talk, asked, told, others>>

-----------------------------------------------------------------------------
(* A document of a kind that says something about a topic. *)
Contribute ==
    /\ others < MaxOthers /\ ~Busy("document")
    /\ others' = others + 1
    /\ Starts("document", "bump", NoSlot, NoTalk, NoSlot)
    /\ UNCHANGED <<row, rows, talk, asked, told, messages>>

(* POST reminder; before the time has come it changes nothing. *)
RemindNow ==
    /\ others < MaxOthers /\ ~Busy("reminder")
    /\ others' = others + 1
    /\ Starts("reminder", "remind", NoSlot, NoTalk, NoSlot)
    /\ UNCHANGED <<row, rows, talk, asked, told, messages>>

(* The hourly cron takes the active profiles whose reminder is due. *)
RemindDue ==
    /\ row.status = "ACTIVE" /\ row.due /\ row.stage < 3
    /\ ~Busy("reminder")
    /\ Starts("reminder", "remind", NoSlot, NoTalk, NoSlot)
    /\ UNCHANGED <<row, rows, talk, asked, told, messages, others>>

Next ==
    \/ Open \/ Pause \/ AskProgress \/ (\E b \in Topic : PickTopic(b))
    \/ Answer \/ Skip \/ Command \/ AnotherYes \/ AnotherNo
    \/ (\E c \in Client : Saves(c)) \/ Mark
    \/ Contribute \/ RemindNow \/ RemindDue

Spec == Init /\ [][Next]_discoveryVars

(* The cron and the operations under way go on. *)
FairSpec ==
    /\ Spec
    /\ WF_discoveryVars(RemindDue) /\ WF_discoveryVars(Mark)
    /\ \A c \in Client : WF_discoveryVars(Saves(c))

-----------------------------------------------------------------------------
TypeOK ==
    /\ row \in [status : {"ACTIVE", "PAUSED", "COMPLETED"}, stage : 0..3,
                due : BOOLEAN, data : [Slot -> Slot \union {NoSlot}], scored : BOOLEAN]
    /\ rows \in BOOLEAN
    /\ talk \in [step : {"none", "MENU", "COLLECT"}, topic : Topic \union {NoTopic},
                 field : 0..Fields-1, entity : 0..MaxEntities-1, more : BOOLEAN]
    /\ asked \in Slot \union {NoSlot, Menu, More}
    /\ \A c \in Client : work[c].op \in {"none", "record", "bump", "resume", "pause",
                                         "remind", "score", "mark"}
    /\ told \subseteq Slot /\ overlapped \in BOOLEAN
    /\ messages \in 0..MaxMessages /\ others \in 0..MaxOthers

(* Every answer stands where the question asked for it, and while no two
   operations overlapped no answer is lost. *)
AnswersStandWhereAsked ==
    /\ \A s \in Slot : row.data[s] \in {s, NoSlot}
    /\ ~overlapped /\ ~Busy("chat") => \A s \in told : row.data[s] = s

(* There is nobody to remind any more.  When nobody says anything more, it comes
   to that for good: the reminders stop. *)
RemindersStopped == row.status # "ACTIVE" \/ ~row.due \/ row.stage = 3
=============================================================================
