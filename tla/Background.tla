----------------------------- MODULE Background ------------------------------
(***************************************************************************)
(* Background: what runs on its own behind the chat.  The outbox of domain *)
(* events, the business interview with its reminders, what people are told *)
(* about tasks, and the migrations in front of it all.  They share no      *)
(* state, so each behaviour moves one of them and the others rest.         *)
(***************************************************************************)
EXTENDS DomainEvents

CONSTANTS
    Topic, Repeatable, Fields, MaxEntities, MaxMessages, MaxOthers,
    Task, Person, Nobody, Role, Name, Reachable, MaxCalls, MaxColumns, MaxChanges, MaxFaults,
    Server, Job, Image, MaxGateFaults, MaxByHand

VARIABLES
    part,   \* the component that moves in this behaviour
    row, interviewRows, talk, asked, work, told, overlapped, messages, others, noticesRow, pending,
    knows, breach, tick, todo, calls, changes, noticesFaults, missed, admin, handed, raced, noticesOverlapped,
    applied, recorded, proc, auto, dry, byHand, jobs, gateFaults

Interview ==
    INSTANCE Discovery WITH rows <- interviewRows
interviewState == <<row, interviewRows, talk, asked, work, told, overlapped, messages, others>>
ASSUME InterviewAssumption == Interview!DiscoveryAssumption

Notices ==
    INSTANCE TaskNotices WITH
        row <- noticesRow, faults <- noticesFaults, overlapped <- noticesOverlapped
noticesState == <<noticesRow, pending, knows, breach, tick, todo, calls, changes, noticesFaults,
    missed, admin, handed, raced, noticesOverlapped>>
ASSUME NoticesPartAssumption == Notices!NoticesAssumption

Gate ==
    INSTANCE Migrations WITH MaxFaults <- MaxGateFaults, faults <- gateFaults
gateState == <<applied, recorded, proc, auto, dry, byHand, jobs, gateFaults>>
ASSUME GateAssumption == Gate!MigrationsAssumption

parts == <<vars, part, interviewState, noticesState, gateState>>

PartsInit ==
    /\ part \in {"outbox", "interview", "notices", "gate"}
    /\ Init
    /\ Interview!Init /\ (part # "interview" => interviewRows = FALSE)
    /\ Notices!Init
    /\ Gate!Init /\ (part # "gate" => auto = [p \in Gate!Process |-> TRUE] /\ dry = [p \in Gate!Process |-> FALSE])

OutboxMoves(A) == part = "outbox" /\ A /\ UNCHANGED <<part, interviewState, noticesState, gateState>>
InterviewMoves(A) == part = "interview" /\ A /\ UNCHANGED <<part, vars, noticesState, gateState>>
NoticesMoves(A) == part = "notices" /\ A /\ UNCHANGED <<part, vars, interviewState, gateState>>
GateMoves(A) == part = "gate" /\ A /\ UNCHANGED <<part, vars, interviewState, noticesState>>

PartsNext ==
    \/ OutboxMoves(Next)
    \/ InterviewMoves(Interview!Next)
    \/ NoticesMoves(Notices!Next)
    \/ GateMoves(Gate!Next)

PartsSpec ==
    /\ PartsInit /\ [][PartsNext]_parts
    /\ \A w \in Worker : WF_vars(part = "outbox" /\ Step(w))
    /\ WF_vars(part = "outbox" /\ \E w \in Worker : BeginBatch(w))
    /\ WF_interviewState(part = "interview" /\ Interview!RemindDue)
    /\ WF_interviewState(part = "interview" /\ Interview!Mark)
    /\ \A c \in Interview!Client : WF_interviewState(part = "interview" /\ Interview!Saves(c))
    /\ WF_noticesState(part = "notices" /\ Notices!Tick)
    /\ WF_noticesState(part = "notices" /\ Notices!TickSteps)
    /\ \A p \in Gate!Process : WF_gateState(part = "gate" /\ Gate!Step(p))

(* The values of the part that moves; the others stay as they began. *)
PartsTypeOK ==
    /\ part = "outbox" => TypeOK
    /\ part = "interview" => Interview!TypeOK
    /\ part = "notices" => Notices!TypeOK
    /\ part = "gate" => Gate!TypeOK

(* An answer stands under the question it was given to, unless two messages or
   a reminder overlapped (Discovery). *)
AnswersStandWhereAsked == part = "interview" => Interview!AnswersStandWhereAsked

(* Whoever has a task was told so unless a message failed, the dashboard moved
   it, or two answers crossed; a missed deadline is told once, or once more for
   each failure, and a marked row stands for people who were told (TaskNotices). *)
PeopleAreTold ==
    part = "notices" =>
        /\ Notices!AssigneeKnows
        /\ Notices!ToldOnce
        /\ Notices!MarkedWasTold

(* A server that is up has its whole schema, and the files take effect in their
   order (Migrations). *)
ServesOnWholeSchema == part = "gate" => Gate!ServesOnWholeSchema

(* As long as nothing fails but handlers, every published event is settled for
   good (DomainEvents). *)
EventsSettle == SettledForGood

(* What is due happens in the end: reminders stop when nobody says anything more,
   a missed deadline of an open task is told unless somebody deals with it
   first, a server that may migrate comes up (Discovery, TaskNotices,
   Migrations). *)
WhatIsDueHappens ==
    /\ <>[](part = "interview" => Interview!RemindersStopped)
    /\ Notices!BreachesAreTold
    /\ <>[](part = "gate" => Gate!EveryServerUp)
==============================================================================
