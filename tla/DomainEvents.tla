---------------------------- MODULE DomainEvents ----------------------------
(***************************************************************************)
(* The domain-event outbox: rows of the table domain_events and the calls  *)
(* of DomainEventsService that process them.                               *)
(*                                                                         *)
(* A worker is one running call of the service: a cron tick, the drain at  *)
(* boot, or the immediate dispatch of a low-stock event.  Ticks are not    *)
(* excluded from one another, so several workers may run at once, and each *)
(* works on the rows it read when it started: a row object keeps the       *)
(* `attempts' of that moment, and its status guard is never looked up in   *)
(* the database again.  Every await is a step of its own.                  *)
(***************************************************************************)
EXTENDS Integers, FiniteSets

CONSTANTS
    MaxEvents,      \* bound on the number of rows published
    Worker,         \* calls that may be running at the same time
    Routed,         \* ids of the events whose type dispatch() has a handler for
    MaxAttempts,    \* MAX_ATTEMPTS of the service (5)
    BatchLimit,     \* the limit of processPendingBatch (50, 100 at boot)
    MaxCaught,      \* saturation of the history counter `caught'
    MaxCrashes,     \* bound on crashes of the process
    MaxDbErrors     \* bound on failed UPDATE statements

EventId == 1..MaxEvents

ASSUME OutboxAssumption ==
    /\ MaxEvents \in Nat
    /\ Routed \subseteq EventId
    /\ MaxAttempts \in Nat \ {0}
    /\ BatchLimit \in Nat \ {0}
    /\ MaxCaught \in Nat
    /\ MaxCaught >= MaxAttempts
    /\ MaxCrashes \in Nat
    /\ MaxDbErrors \in Nat

VARIABLES
    status,     \* status[e]: the column; "ABSENT" before the row exists
    attempts,   \* attempts[e]: the column
    pc,         \* pc[w]: where worker w is
    batch,      \* batch[w]: rows w read and has not finished with
    seen,       \* seen[w][e]: `attempts' of w's row object for e
    current,    \* current[w]: the row w is processing, 0 if none
    invoked,    \* history: events whose handler was called
    handled,    \* history: events whose dispatch returned normally
    caught,     \* history: times the catch block ran for e (saturates)
    crashes,
    dbErrors

rows == <<status, attempts>>
workers == <<pc, batch, seen, current>>
history == <<invoked, handled, caught>>
faults == <<crashes, dbErrors>>
vars == <<rows, workers, history, faults>>

RowStatus == {"ABSENT", "PENDING", "PROCESSING", "COMPLETED", "FAILED"}
WorkerState == {"idle", "loop", "claimed", "running", "handled", "threw"}

Init ==
    /\ status = [e \in EventId |-> "ABSENT"]
    /\ attempts = [e \in EventId |-> 0]
    /\ pc = [w \in Worker |-> "idle"]
    /\ batch = [w \in Worker |-> {}]
    /\ seen = [w \in Worker |-> [e \in EventId |-> 0]]
    /\ current = [w \in Worker |-> 0]
    /\ invoked = {}
    /\ handled = {}
    /\ caught = [e \in EventId |-> 0]
    /\ crashes = 0
    /\ dbErrors = 0

-----------------------------------------------------------------------------
(* publish() inserts a PENDING row; ids are serial. *)

Publish(e) ==
    /\ status[e] = "ABSENT"
    /\ \A f \in 1..(e - 1) : status[f] # "ABSENT"
    /\ status' = [status EXCEPT ![e] = "PENDING"]
    /\ attempts' = [attempts EXCEPT ![e] = 0]
    /\ UNCHANGED <<workers, history, faults>>

(* The WHERE clause and the ORDER BY id LIMIT of processPendingBatch. *)
PendingIds_Untried == {e \in EventId : status[e] = "PENDING" /\ attempts[e] = 0}
PendingIds == {e \in EventId : status[e] = "PENDING"}

BatchOf(ids) == {e \in ids : Cardinality({f \in ids : f < e}) < BatchLimit}

(* A worker reads the rows it will process; the read is a snapshot. *)
Read(w, ids) ==
    /\ pc[w] = "idle"
    /\ ids # {}
    /\ pc' = [pc EXCEPT ![w] = "loop"]
    /\ batch' = [batch EXCEPT ![w] = ids]
    /\ seen' = [seen EXCEPT ![w] = [e \in EventId |-> IF e \in ids THEN attempts[e] ELSE 0]]
    /\ UNCHANGED <<rows, current, history, faults>>

(* A cron tick, or the drain in onModuleInit. *)
BeginBatch(w) == Read(w, BatchOf(PendingIds))

(* processEventById: one row, read by primary key, left alone unless PENDING. *)
BeginById(w) == \E e \in PendingIds : Read(w, {e})

(* processEventRecord: the first await marks the row PROCESSING whatever its
   status in the database is by now. *)
IsNextRow(w, e) == e \in batch[w] /\ \A f \in batch[w] : e <= f

Claim_CountsAttempt(w) ==
    /\ pc[w] = "loop"
    /\ \E e \in EventId :
        /\ IsNextRow(w, e)
        /\ status' = [status EXCEPT ![e] = "PROCESSING"]
        /\ attempts' = [attempts EXCEPT ![e] = seen[w][e] + 1]
        /\ current' = [current EXCEPT ![w] = e]
    /\ pc' = [pc EXCEPT ![w] = "claimed"]
    /\ UNCHANGED <<batch, seen, history, faults>>

Claim(w) ==
    /\ pc[w] = "loop"
    /\ \E e \in EventId :
        /\ IsNextRow(w, e)
        /\ status' = [status EXCEPT ![e] = "PROCESSING"]
        /\ current' = [current EXCEPT ![w] = e]
    /\ pc' = [pc EXCEPT ![w] = "claimed"]
    /\ UNCHANGED <<attempts, batch, seen, history, faults>>

(* dispatch() calls the handler of the event's type, or only logs. *)
Invoke(w) ==
    /\ pc[w] = "claimed"
    /\ pc' = [pc EXCEPT ![w] = "running"]
    /\ invoked' = invoked \union ({current[w]} \intersect Routed)
    /\ UNCHANGED <<rows, batch, seen, current, handled, caught, faults>>

HandlerReturns(w) ==
    /\ pc[w] = "running"
    /\ pc' = [pc EXCEPT ![w] = "handled"]
    /\ handled' = handled \union {current[w]}
    /\ UNCHANGED <<rows, batch, seen, current, invoked, caught, faults>>

CountCaught(w) ==
    caught' = [caught EXCEPT ![current[w]] = IF @ < MaxCaught THEN @ + 1 ELSE @]

HandlerThrows_Swallowed(w) ==
    /\ pc[w] = "running"
    /\ current[w] \in Routed
    /\ pc' = [pc EXCEPT ![w] = "handled"]
    /\ CountCaught(w)
    /\ UNCHANGED <<rows, batch, seen, current, invoked, handled, faults>>

HandlerThrows(w) ==
    /\ pc[w] = "running"
    /\ current[w] \in Routed
    /\ pc' = [pc EXCEPT ![w] = "threw"]
    /\ CountCaught(w)
    /\ UNCHANGED <<rows, batch, seen, current, invoked, handled, faults>>

(* The worker is done with its row and goes on to the rest of its batch. *)
NextInBatch(w) ==
    LET e == current[w] IN
    /\ batch' = [batch EXCEPT ![w] = @ \ {e}]
    /\ seen' = [seen EXCEPT ![w][e] = 0]
    /\ pc' = [pc EXCEPT ![w] = IF batch[w] = {e} THEN "idle" ELSE "loop"]
    /\ current' = [current EXCEPT ![w] = 0]

Complete(w) ==
    /\ pc[w] = "handled"
    /\ status' = [status EXCEPT ![current[w]] = "COMPLETED"]
    /\ NextInBatch(w)
    /\ UNCHANGED <<attempts, history, faults>>

(* The catch block: `attempts' is counted up from the row object. *)
AttemptsAfterFailure(w) == seen[w][current[w]] + 1

StatusAfterFailure_OneLate(n) == IF n > MaxAttempts THEN "FAILED" ELSE "PENDING"
StatusAfterFailure(n) == IF n >= MaxAttempts THEN "FAILED" ELSE "PENDING"

RecordFailure(w) ==
    /\ pc[w] = "threw"
    /\ LET n == AttemptsAfterFailure(w) IN
        /\ status' = [status EXCEPT ![current[w]] = StatusAfterFailure(n)]
        /\ attempts' = [attempts EXCEPT ![current[w]] = n]
    /\ NextInBatch(w)
    /\ UNCHANGED <<history, faults>>

-----------------------------------------------------------------------------
(* Faults. *)

Stop(w) ==
    /\ pc' = [pc EXCEPT ![w] = "idle"]
    /\ batch' = [batch EXCEPT ![w] = {}]
    /\ seen' = [seen EXCEPT ![w] = [e \in EventId |-> 0]]
    /\ current' = [current EXCEPT ![w] = 0]

(* An UPDATE fails.  Inside the try block the error is caught; the first and
   the last UPDATE of processEventRecord are outside it, and end the batch. *)
UpdateFails(w) ==
    /\ dbErrors < MaxDbErrors
    /\ dbErrors' = dbErrors + 1
    /\ \/ /\ pc[w] \in {"loop", "threw"}
          /\ Stop(w)
          /\ UNCHANGED caught
       \/ /\ pc[w] = "handled"
          /\ pc' = [pc EXCEPT ![w] = "threw"]
          /\ CountCaught(w)
          /\ UNCHANGED <<batch, seen, current>>
    /\ UNCHANGED <<rows, invoked, handled, crashes>>

(* The process dies and comes back: row objects are gone, rows stay. *)
Crash ==
    /\ crashes < MaxCrashes
    /\ crashes' = crashes + 1
    /\ pc' = [w \in Worker |-> "idle"]
    /\ batch' = [w \in Worker |-> {}]
    /\ seen' = [w \in Worker |-> [e \in EventId |-> 0]]
    /\ current' = [w \in Worker |-> 0]
    /\ UNCHANGED <<rows, history, dbErrors>>

-----------------------------------------------------------------------------
Step(w) ==
    \/ Claim(w)
    \/ Invoke(w)
    \/ HandlerReturns(w)
    \/ HandlerThrows(w)
    \/ Complete(w)
    \/ RecordFailure(w)

Next ==
    \/ \E e \in EventId : Publish(e)
    \/ \E w \in Worker :
        \/ BeginBatch(w)
        \/ BeginById(w)
        \/ Step(w)
        \/ UpdateFails(w)
    \/ Crash

Spec == Init /\ [][Next]_vars

(* A call that started goes on (every handler call settles), and the cron
   ticks; publishing and faults are never forced. *)
Fairness ==
    /\ \A w \in Worker : WF_vars(Step(w))
    /\ WF_vars(\E w \in Worker : BeginBatch(w))

FairSpec == Spec /\ Fairness

-----------------------------------------------------------------------------
TypeOK ==
    /\ status \in [EventId -> RowStatus]
    /\ attempts \in [EventId -> 0..MaxAttempts]
    /\ pc \in [Worker -> WorkerState]
    /\ batch \in [Worker -> SUBSET EventId]
    /\ seen \in [Worker -> [EventId -> 0..MaxAttempts]]
    /\ current \in [Worker -> EventId \union {0}]
    /\ invoked \in SUBSET EventId
    /\ handled \in SUBSET EventId
    /\ caught \in [EventId -> 0..MaxCaught]
    /\ crashes \in 0..MaxCrashes
    /\ dbErrors \in 0..MaxDbErrors

(* A COMPLETED row had a dispatch that returned, and a routed one a handler
   that was called, whatever other workers, crashes and failed updates did to
   the row in between. *)
CompletedWasHandled ==
    \A e \in EventId : status[e] = "COMPLETED" =>
        e \in handled /\ (e \in Routed => e \in invoked)

(* The attempts column never counts a failure that did not happen, although
   it is written from stale row objects; so no row is given up (FAILED)
   before MAX_ATTEMPTS failures. *)
AttemptsNotOvercounted ==
    \A e \in EventId :
        /\ attempts[e] <= caught[e]
        /\ status[e] = "FAILED" => caught[e] >= MaxAttempts

(* Unless something but a handler fails, every published event is settled for
   good: overlapping workers may write a settled row back to PENDING from a
   stale row object, but not for ever. *)
SettledForGood ==
    <>[](crashes + dbErrors = 0 =>
            \A e \in EventId : status[e] \in {"ABSENT", "COMPLETED", "FAILED"})

(* What docs/.../40-domain-events-architecture.md promises of the outbox. *)

(* "At-least-once handler invocation": every published event whose type has a
   handler is eventually handed to it. *)
AtLeastOnceInvocation ==
    \A e \in Routed : (status[e] # "ABSENT") ~> (e \in invoked)
=============================================================================
