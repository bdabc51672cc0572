-------------------------------- MODULE Tasks --------------------------------
(***************************************************************************)
(* Tasks: who gets a task, its routing through the departments; the people *)
(* who make them up; the dialogues of the chat that make members, items,   *)
(* requests and tasks; and the desk that hands a message to a session, a   *)
(* command or the ML service.  They share no rows that a property is       *)
(* about, so each behaviour moves one of them and the others rest.         *)
(***************************************************************************)
EXTENDS TaskRouting

CONSTANTS
    Account, Department, Job, Owner, Stranger, MaxTeamCalls,
    Colleague, MaxItems, MaxMessages, MaxChanges,
    Phrase, Signals, Text, MaxSteps

VARIABLES
    part,   \* the component that moves in this behaviour
    account, role, teamHead, place, taskOf, doing, outcome, asked, moved, stale, teamCalls, form,
    step, data, order, listed, dialogueAsked, shown, made, lists, team, request, messages, changes,
    deskRole, session, teamPrompt, stockPrompt, mark, issue, done, last, steps

Staff ==
    INSTANCE Team WITH
        Person <- Account, Task <- Job, Caller <- Call, NoOne <- Nobody, NoDepartment <- NoDept,
        MaxCalls <- MaxTeamCalls, head <- teamHead, calls <- teamCalls
teamState == <<account, role, teamHead, place, taskOf, doing, outcome, asked, moved, stale,
    teamCalls>>
ASSUME StaffAssumption == Staff!TeamAssumption

Dialogue ==
    INSTANCE Dialogues WITH
        Person <- Colleague, asked <- dialogueAsked
dialogueState == <<form, step, data, order, listed, dialogueAsked, shown, made, lists, team,
    request, messages, changes>>
ASSUME DialogueAssumption == Dialogue!DialoguesAssumption

Desk ==
    INSTANCE MessageDesk WITH role <- deskRole
deskState == <<deskRole, session, teamPrompt, stockPrompt, mark, issue, done, last, steps>>
ASSUME DeskAssumption == Desk!MessageDeskAssumption

parts == <<vars, part, teamState, dialogueState, deskState>>

PartsInit ==
    /\ part \in {"route", "team", "dialogue", "desk"}
    /\ Init
    /\ Staff!Init /\ (part # "team" => account = Stranger \union {Owner} /\ teamHead = [d \in Department |-> Nobody])
    /\ Dialogue!Init /\ (part # "dialogue" => lists = {} /\ team = <<>>)
    /\ Desk!Init /\ (part # "desk" => deskRole = "OWNER")

RouteMoves(A) == part = "route" /\ A /\ UNCHANGED <<part, teamState, dialogueState, deskState>>
TeamMoves(A) == part = "team" /\ A /\ UNCHANGED <<part, vars, dialogueState, deskState>>
DialogueMoves(A) == part = "dialogue" /\ A /\ UNCHANGED <<part, vars, teamState, deskState>>
DeskMoves(A) == part = "desk" /\ A /\ UNCHANGED <<part, vars, teamState, dialogueState>>

PartsNext ==
    \/ RouteMoves(Next)
    \/ TeamMoves(Staff!Next)
    \/ DialogueMoves(Dialogue!Next)
    \/ DeskMoves(Desk!Next)

PartsSpec ==
    /\ PartsInit /\ [][PartsNext]_parts

(* The values of the part that moves; the others stay as they began. *)
PartsTypeOK ==
    /\ part = "route" => TypeOK
    /\ part = "team" => Staff!TypeOK
    /\ part = "dialogue" => Dialogue!TypeOK
    /\ part = "desk" => Desk!TypeOK

(* A task that waits for routing is with the head who routes it, managers give
   tasks to workers of their own departments only, and who may do something
   about a task finds it on the list (TaskRouting). *)
RoutedByTheHead == part = "route" =>
    AwaitingIsWithTheHead /\ ManagersUseOwnWorkers /\ ListsTellWhatMayBeDone

(* A department that can be given a task has a head who may head it, nothing
   stays in one that was removed, and whoever was reported as added to a post
   has it (Team). *)
TeamHolds == part = "team" =>
    Staff!HeadsCanHead /\ Staff!NothingInRemovedDepartment /\ Staff!AddedHasAPost

(* What a dialogue makes is made of an answer to every question it needs, and
   a person chosen by number is the one the list showed (Dialogues). *)
MadeAsAnswered == part = "dialogue" => Dialogue!MadeWhole /\ Dialogue!PickedAsShown

(* A text a rule understands is acted on as the first of what it says
   (MessageDesk). *)
UnderstoodInOrder == Desk!UnderstoodInOrder
==============================================================================
