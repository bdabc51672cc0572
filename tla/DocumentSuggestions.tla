------------------------- MODULE DocumentSuggestions -------------------------
(***************************************************************************)
(* From a document to approved stock changes (DocumentProcessing-          *)
(* Orchestrator, SuggestionEngineService, SuggestionQueueService,          *)
(* SuggestionWorkflowTriggerService, SuggestionExecutionService).          *)
(*                                                                         *)
(* Processing a document derives suggestions from it, queues them and asks *)
(* the uploader about the first one in a WhatsApp session.  YES applies    *)
(* the suggestion, one transaction per write, NO rejects it; both advance  *)
(* the queue.  Suggestions can also be generated, sent to approval and     *)
(* rejected over REST.  Every step of a call is the code between two       *)
(* awaits; nothing locks a document, a suggestion or the queue.            *)
(*                                                                         *)
(* The module follows one document and the phone number of its uploader,   *)
(* whose workflow session is that of WorkflowSession, reduced to what it   *)
(* asks about.                                                             *)
(***************************************************************************)
EXTENDS Integers, Sequences, FiniteSets

CONSTANTS
    Call,       \* calls and messages that may be handled at once
    Writes,     \* transactions it takes to apply a suggestion
    PerRun,     \* bound on the suggestions one extraction gives
    MaxCalls, MaxSuggestions,
    MaxMishaps  \* bound on lapsed sessions, awaits that throw and crashes together

SuggestionAssumption ==
    /\ Writes \in Nat \ {0}
    /\ {PerRun, MaxCalls, MaxSuggestions, MaxMishaps} \subseteq Nat

VARIABLES
    document,   \* the status of the document
    extracted,  \* an extraction of it was stored
    status,     \* status[s]: the status of suggestion s, in the order of creation
    written,    \* written[s]: transactions committed for suggestion s
    queue,      \* metadata.suggestion_queue; index counts from 1
    session,    \* the active session of the phone number and its suggestion
    opened,     \* sessions opened so far
    pc, job,
    made,       \* made[c]: suggestions a processing created, writes of an execution
    seen,       \* seen[c]: what call c read last
    calls, lapses, faults, crashes,
    stranded,   \* calls ended by an error that nothing caught
    overlapped  \* some call began while another was under way

data == <<document, extracted, status, written, queue>>
sessions == <<session, opened>>
callVars == <<pc, job, made, seen>>
budget == <<calls, lapses, faults, crashes, stranded, overlapped>>
vars == <<data, sessions, callVars, budget>>

DocumentStatus == {"UPLOADED", "PROCESSING", "EXTRACTED", "SUGGESTED", "APPROVED", "REJECTED", "FAILED"}
SuggestionStatus == {"PENDING", "REJECTED", "EXECUTED", "FAILED"}
Terminal == {"EXECUTED", "REJECTED", "FAILED"}
Id == 1..MaxSuggestions
Queue == [ids : Seq(Id), index : Nat \ {0}, completed : BOOLEAN, exists : BOOLEAN]
NoQueue == [ids |-> <<>>, index |-> 1, completed |-> FALSE, exists |-> FALSE]
NoSession == [id |-> 0, about |-> 0]
Kind == {"process", "store", "generate", "approve", "reject", "yes", "no"}
NoJob == [kind |-> "none", about |-> 0, session |-> 0]
Nothing == [queue |-> NoQueue, verdict |-> "none"]

Init ==
    /\ document = "UPLOADED"
    /\ extracted = FALSE
    /\ status = <<>>
    /\ written = [s \in Id |-> 0]
    /\ queue = NoQueue
    /\ session = NoSession
    /\ opened = 0
    /\ pc = [c \in Call |-> "idle"]
    /\ job = [c \in Call |-> NoJob]
    /\ made = [c \in Call |-> <<>>]
    /\ seen = [c \in Call |-> Nothing]
    /\ calls = 0
    /\ lapses = 0
    /\ faults = 0
    /\ crashes = 0
    /\ stranded = 0
    /\ overlapped = FALSE

-----------------------------------------------------------------------------
Goto(c, state) == pc' = [pc EXCEPT ![c] = state]

Leave(C) ==
    /\ pc' = [c \in Call |-> IF c \in C THEN "idle" ELSE pc[c]]
    /\ job' = [c \in Call |-> IF c \in C THEN NoJob ELSE job[c]]
    /\ made' = [c \in Call |-> IF c \in C THEN <<>> ELSE made[c]]
    /\ seen' = [c \in Call |-> IF c \in C THEN Nothing ELSE seen[c]]

Begin(c, state, j) ==
    /\ pc[c] = "idle"
    /\ calls < MaxCalls
    /\ calls' = calls + 1
    /\ overlapped' = (overlapped \/ \E d \in Call \ {c} : pc[d] # "idle")
    /\ Goto(c, state)
    /\ job' = [job EXCEPT ![c] = j]
    /\ UNCHANGED <<extracted, status, written, queue, sessions, made, seen, lapses, faults, crashes, stranded>>

(* processDocument, which has created its job by now, and storeExtraction,
   which has not. *)
Process(c, kind) ==
    /\ Begin(c, IF kind = "store" THEN "registering" ELSE "parsing", [NoJob EXCEPT !.kind = kind])
    /\ document' = "PROCESSING"

(* generateSuggestions, for an extraction that was stored before. *)
GenerateAgain(c) ==
    /\ extracted
    /\ Begin(c, "generating", [NoJob EXCEPT !.kind = "generate"])
    /\ UNCHANGED document

(* startSuggestionApproval and rejectSuggestion over REST. *)
Request(c, kind, s) ==
    /\ s \in DOMAIN status
    /\ Begin(c, IF kind = "approve" THEN "asking" ELSE "rejecting", [kind |-> kind, about |-> s, session |-> 0])
    /\ UNCHANGED document

(* handleStep of the session: YES or NO. *)
Reply(c, kind) ==
    /\ session # NoSession
    /\ Begin(c, IF kind = "yes" THEN "reading" ELSE "rejecting",
             [kind |-> kind, about |-> session.about, session |-> session.id])
    /\ UNCHANGED document

-----------------------------------------------------------------------------
(* createJob of storeExtraction. *)
CreateJob(c) ==
    /\ pc[c] = "registering"
    /\ Goto(c, "parsing")
    /\ UNCHANGED <<data, sessions, job, made, seen, budget>>

(* The parser, the contract and the extraction; then one suggestion each for
   what was extracted. *)
CreateExtraction(c) ==
    /\ pc[c] = "parsing"
    /\ extracted' = TRUE
    /\ Goto(c, "extracted")
    /\ UNCHANGED <<document, status, written, queue, sessions, job, made, seen, budget>>

Extracted(c) ==
    /\ pc[c] = "extracted"
    /\ document' = "EXTRACTED"
    /\ IF job[c].kind = "process"
       THEN Goto(c, "generating") /\ UNCHANGED <<job, made, seen>>
       ELSE Leave({c})
    /\ UNCHANGED <<extracted, status, written, queue, sessions, budget>>

CreateSuggestion(c) ==
    /\ pc[c] = "generating"
    /\ Len(made[c]) < PerRun
    /\ Len(status) < MaxSuggestions
    /\ status' = Append(status, "PENDING")
    /\ made' = [made EXCEPT ![c] = Append(@, Len(status) + 1)]
    /\ UNCHANGED <<document, extracted, written, queue, sessions, pc, job, seen, budget>>

Suggested(c) ==
    /\ pc[c] = "generating"
    /\ document' = "SUGGESTED"
    /\ IF job[c].kind = "process"
       THEN Goto(c, "queueing") /\ UNCHANGED <<job, made, seen>>
       ELSE Leave({c})
    /\ UNCHANGED <<extracted, status, written, queue, sessions, budget>>

InitializeQueue(c) ==
    /\ pc[c] = "queueing"
    /\ queue' = [ids |-> made[c], index |-> 1, completed |-> made[c] = <<>>, exists |-> TRUE]
    /\ Goto(c, "starting")
    /\ UNCHANGED <<document, extracted, status, written, sessions, job, made, seen, budget>>

(* getCurrentSuggestionId. *)
StartQueue(c) ==
    /\ pc[c] = "starting"
    /\ IF ~queue.completed /\ queue.index \in DOMAIN queue.ids
       THEN /\ Goto(c, "asking")
            /\ job' = [job EXCEPT ![c].about = queue.ids[queue.index]]
            /\ UNCHANGED <<made, seen>>
       ELSE Goto(c, "contributing") /\ UNCHANGED <<job, made, seen>>
    /\ UNCHANGED <<data, sessions, budget>>

-----------------------------------------------------------------------------
(* startWorkflowForSuggestion and startSuggestionApproval: the suggestion is
   pending, the phone has no session, the session is created, the user told.
   The handler of a reply still has to end its own session, the processing to
   tell the discovery of the business. *)
Finished(c) ==
    /\ Goto(c, CASE job[c].kind \in {"yes", "no"} -> "ending"
                 [] job[c].kind = "process" -> "contributing"
                 [] OTHER -> "leaving")
    /\ UNCHANGED <<job, made, seen>>

NextAbout(c) ==
    IF job[c].kind \in {"yes", "no"} THEN seen[c].queue.ids[seen[c].queue.index] ELSE job[c].about

Ask(c) ==
    /\ pc[c] = "asking"
    /\ IF status[NextAbout(c)] = "PENDING"
       THEN Goto(c, "checking") /\ UNCHANGED <<job, made, seen>>
       ELSE Finished(c)
    /\ UNCHANGED <<data, sessions, budget>>

CheckSession(c) ==
    /\ pc[c] = "checking"
    /\ IF session = NoSession
       THEN Goto(c, "opening") /\ UNCHANGED <<job, made, seen>>
       ELSE Finished(c)
    /\ UNCHANGED <<data, sessions, budget>>

(* What the catch blocks do: processDocument and storeExtraction mark their job
   FAILED and then the document, executeApprovedSuggestion marks the suggestion,
   each with a write of its own; every other call just ends. *)
Execution == {"writing", "executing", "listing", "marking"}

Catch_Silent(c) ==
    IF job[c].kind = "yes" /\ pc[c] \in Execution
    THEN Goto(c, "failed") /\ UNCHANGED <<job, made, seen>>
    ELSE Leave({c})

Catch(c) ==
    IF job[c].kind \in {"process", "store"}
    THEN Goto(c, "failing") /\ UNCHANGED <<job, made, seen>>
    ELSE IF job[c].kind = "yes" /\ pc[c] \in Execution
    THEN Goto(c, "failed") /\ UNCHANGED <<job, made, seen>>
    ELSE Leave({c})

FailJob(c) ==
    /\ pc[c] = "failing"
    /\ Goto(c, "failed")
    /\ UNCHANGED <<data, sessions, job, made, seen, budget>>

MarkFailed(c) ==
    /\ pc[c] = "failed"
    /\ IF job[c].kind = "yes"
       THEN status' = [status EXCEPT ![job[c].about] = "FAILED"] /\ UNCHANGED document
       ELSE document' = "FAILED" /\ UNCHANGED status
    /\ Leave({c})
    /\ UNCHANGED <<extracted, written, queue, sessions, budget>>

(* createSession throws if another call opened one meanwhile. *)
OpenSession(c) ==
    /\ pc[c] = "opening"
    /\ IF session = NoSession
       THEN /\ session' = [id |-> opened + 1, about |-> NextAbout(c)]
            /\ opened' = opened + 1
            /\ Goto(c, "telling")
            /\ UNCHANGED <<job, made, seen>>
       ELSE Catch(c) /\ UNCHANGED sessions
    /\ UNCHANGED <<data, budget>>

Tell(c) ==
    /\ pc[c] = "telling"
    /\ Finished(c)
    /\ UNCHANGED <<data, sessions, budget>>

(* contributeFromDocument, or nothing, and the call returns. *)
Return(c) ==
    /\ pc[c] \in {"contributing", "leaving"}
    /\ Leave({c})
    /\ UNCHANGED <<data, sessions, budget>>

-----------------------------------------------------------------------------
(* executeApprovedSuggestion: only a pending suggestion is executed, ... *)
Executable_UnlessExecuted(s) == status[s] # "EXECUTED"

Executable(s) == status[s] = "PENDING"

ReadSuggestion(c) ==
    /\ pc[c] = "reading"
    /\ IF Executable(job[c].about)
       THEN Goto(c, "writing") /\ UNCHANGED <<job, made, seen>>
       ELSE Leave({c})
    /\ UNCHANGED <<data, sessions, budget>>

(* ... createItem and recordStockIn for each item, a transaction each ... *)
LastWrite(c) == Len(made[c]) + 1 = Writes

Write(c) ==
    /\ pc[c] = "writing"
    /\ written' = [written EXCEPT ![job[c].about] = @ + 1]
    /\ made' = [made EXCEPT ![c] = Append(@, job[c].about)]
    /\ Goto(c, IF LastWrite(c) THEN "executing" ELSE "writing")
    /\ UNCHANGED <<document, extracted, status, queue, sessions, job, seen, budget>>

MarkExecuted(c) ==
    /\ pc[c] = "executing"
    /\ status' = [status EXCEPT ![job[c].about] = "EXECUTED"]
    /\ Goto(c, "listing")
    /\ UNCHANGED <<document, extracted, written, queue, sessions, job, made, seen, budget>>

(* rejectSuggestion, whatever the status. *)
Reject(c) ==
    /\ pc[c] = "rejecting"
    /\ status' = [status EXCEPT ![job[c].about] = "REJECTED"]
    /\ Goto(c, "listing")
    /\ UNCHANGED <<document, extracted, written, queue, sessions, job, made, seen, budget>>

(* refreshDocumentStatus. *)
Verdict ==
    IF \A s \in DOMAIN status : status[s] = "REJECTED" THEN "REJECTED"
    ELSE IF /\ \A s \in DOMAIN status : status[s] \in Terminal
            /\ \E s \in DOMAIN status : status[s] = "EXECUTED" THEN "APPROVED"
    ELSE "none"

ListSuggestions(c) ==
    /\ pc[c] = "listing"
    /\ seen' = [seen EXCEPT ![c].verdict = Verdict]
    /\ Goto(c, "marking")
    /\ UNCHANGED <<data, sessions, job, made, budget>>

RefreshDocument(c) ==
    /\ pc[c] = "marking"
    /\ document' = IF seen[c].verdict = "none" THEN document ELSE seen[c].verdict
    /\ IF job[c].kind = "reject"
       THEN Leave({c})
       ELSE Goto(c, "advancing") /\ UNCHANGED <<job, made, seen>>
    /\ UNCHANGED <<extracted, status, written, queue, sessions, budget>>

-----------------------------------------------------------------------------
(* onSuggestionResolved: the queue is read, ... *)
ReadQueue(c) ==
    /\ pc[c] = "advancing"
    /\ IF queue.exists
       THEN /\ seen' = [seen EXCEPT ![c].queue = queue]
            /\ Goto(c, "persisting")
            /\ UNCHANGED <<job, made>>
       ELSE Leave({c})
    /\ UNCHANGED <<data, sessions, budget>>

(* ... advanced whichever suggestion was resolved, and written; ... *)
Advanced_OneShort(q) ==
    IF q.index + 1 >= Len(q.ids)
    THEN [q EXCEPT !.completed = TRUE] ELSE [q EXCEPT !.index = @ + 1]

Advanced(q) ==
    IF q.index >= Len(q.ids)
    THEN [q EXCEPT !.completed = TRUE] ELSE [q EXCEPT !.index = @ + 1]

AdvanceQueue(c) ==
    /\ pc[c] = "persisting"
    /\ LET next == Advanced(seen[c].queue) IN
        /\ queue' = next
        /\ seen' = [seen EXCEPT ![c].queue = next]
        /\ Goto(c, IF next.completed THEN "completing" ELSE "asking")
    /\ UNCHANGED <<document, extracted, status, written, sessions, job, made, budget>>

(* ... at its end the document is approved and the user told. *)
CompleteDocument(c) ==
    /\ pc[c] = "completing"
    /\ document' = "APPROVED"
    /\ Goto(c, "telling")
    /\ UNCHANGED <<extracted, status, written, queue, sessions, job, made, seen, budget>>

EndSession(c) ==
    /\ pc[c] = "ending"
    /\ session' = IF session.id = job[c].session THEN NoSession ELSE session
    /\ Leave({c})
    /\ UNCHANGED <<data, opened, budget>>

-----------------------------------------------------------------------------
MayMishap == lapses + faults + crashes + stranded < MaxMishaps

(* An await throws: the parser, the database, the message to the user. *)
Uncaught == {"registering", "failing", "failed"}

Throw(c) ==
    /\ pc[c] \notin Uncaught \union {"idle"}
    /\ MayMishap
    /\ faults' = faults + 1
    /\ Catch(c)
    /\ UNCHANGED <<data, sessions, calls, lapses, crashes, stranded, overlapped>>

(* Where storeExtraction creates its job, and in a catch block, nothing catches
   what is thrown: the call ends as it is, and what it was to mark stays. *)
Strand(c) ==
    /\ pc[c] \in Uncaught
    /\ MayMishap
    /\ stranded' = stranded + 1
    /\ Leave({c})
    /\ UNCHANGED <<data, sessions, calls, lapses, faults, crashes, overlapped>>

Crash ==
    /\ MayMishap
    /\ \E c \in Call : pc[c] # "idle"
    /\ crashes' = crashes + 1
    /\ Leave(Call)
    /\ UNCHANGED <<data, sessions, calls, lapses, faults, stranded, overlapped>>

(* The session is cancelled or expires. *)
Lapse ==
    /\ session # NoSession
    /\ MayMishap
    /\ lapses' = lapses + 1
    /\ session' = NoSession
    /\ UNCHANGED <<data, opened, callVars, calls, faults, crashes, stranded, overlapped>>

Step(c) ==
    \/ CreateJob(c) \/ CreateExtraction(c) \/ Extracted(c)
    \/ CreateSuggestion(c) \/ Suggested(c)
    \/ InitializeQueue(c) \/ StartQueue(c)
    \/ Ask(c) \/ CheckSession(c) \/ OpenSession(c) \/ Tell(c) \/ Return(c)
    \/ FailJob(c) \/ MarkFailed(c)
    \/ ReadSuggestion(c) \/ Write(c) \/ MarkExecuted(c) \/ Reject(c)
    \/ ListSuggestions(c) \/ RefreshDocument(c)
    \/ ReadQueue(c) \/ AdvanceQueue(c) \/ CompleteDocument(c) \/ EndSession(c)

Next ==
    \/ \E c \in Call :
        \/ \E kind \in {"process", "store"} : Process(c, kind)
        \/ GenerateAgain(c)
        \/ \E kind \in {"approve", "reject"}, s \in Id : Request(c, kind, s)
        \/ \E kind \in {"yes", "no"} : Reply(c, kind)
        \/ Step(c)
        \/ Throw(c)
        \/ Strand(c)
    \/ Crash
    \/ Lapse

Spec == Init /\ [][Next]_vars

(* What is under way goes on; nobody is forced to call or to reply. *)
FairSpec == Spec /\ \A c \in Call : WF_vars(Step(c))

-----------------------------------------------------------------------------
TypeOK ==
    /\ document \in DocumentStatus
    /\ extracted \in BOOLEAN
    /\ status \in Seq(SuggestionStatus) /\ Len(status) <= MaxSuggestions
    /\ written \in [Id -> Nat]
    /\ queue \in Queue
    /\ session \in [id : Nat, about : 0..MaxSuggestions]
    /\ opened \in Nat
    /\ \A c \in Call :
        /\ job[c] \in [kind : Kind, about : 0..MaxSuggestions, session : Nat] \union {NoJob}
        /\ made[c] \in Seq(Id)
        /\ seen[c] \in [queue : Queue, verdict : {"none", "APPROVED", "REJECTED"}]
        /\ pc[c] = "asking" => NextAbout(c) \in DOMAIN status
    /\ calls \in 0..MaxCalls
    /\ lapses \in 0..MaxMishaps
    /\ faults \in 0..MaxMishaps
    /\ crashes \in 0..MaxMishaps
    /\ stranded \in 0..MaxMishaps
    /\ overlapped \in BOOLEAN

(* "The suggested action has been applied by the backend": an executed
   suggestion was applied in full, whatever failed, overlapped or died. *)
ExecutedWasApplied ==
    \A s \in DOMAIN status : status[s] = "EXECUTED" => written[s] >= Writes

(* A suggestion that was decided changes the inventory no more, as long as
   calls do not overlap: neither a rejected nor a failed one is taken up again. *)
DecidedChangesNothing ==
    [][~overlapped' =>
        \A s \in DOMAIN status : status[s] \in Terminal => written'[s] = written[s]]_vars

(* "All suggestions for your document have been reviewed": a queue that is
   completed has no pending suggestion, as long as calls do not overlap, nothing
   fails and the document has no suggestions besides those of the queue. *)
ReviewedMeansDecided ==
    /\ ~overlapped
    /\ faults = 0
    /\ crashes = 0
    /\ queue.completed
    /\ DOMAIN status = {queue.ids[n] : n \in DOMAIN queue.ids}
    => \A s \in DOMAIN status : status[s] # "PENDING"

(* "No changes were made to your inventory" for a rejected suggestion. *)
RejectedChangedNothing ==
    \A s \in DOMAIN status : status[s] = "REJECTED" => written[s] = 0

(* A document does not stay PROCESSING whatever fails once, overlaps or lapses:
   a failure is caught and marks it FAILED.  It may stay if the process dies, and
   if the writes of a catch block fail too or the job of storeExtraction cannot be
   created, which nothing catches. *)
ProcessingEnds ==
    [](crashes + stranded = 0) => (document = "PROCESSING" ~> document # "PROCESSING")
=============================================================================
