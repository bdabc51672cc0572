---------------------------- MODULE PushDelivery ----------------------------
(***************************************************************************)
(* Pushing booked stock movements to Zoho: the handler of a                *)
(* zoho.stock_push.requested event, the row of integration_push_deliveries *)
(* it registers, and the ticks of the retry cron.                          *)
(*                                                                         *)
(* A worker is one run of the handler (Consumer) or of the cron (Ticker).  *)
(* Each step is the code between two awaits: a worker keeps the row it     *)
(* read in snap and decides by it later, whatever the table holds then.    *)
(* The factory has one Zoho connection.  Times are abstracted to whether   *)
(* next_retry_at is unset, in the future or reached.                       *)
(***************************************************************************)
EXTENDS Integers, FiniteSets

CONSTANTS
    Movement,           \* inventory transactions with a push event
    Mapped,             \* those whose item is mapped to a Zoho item
    Consumer,           \* runs of the event handler that may overlap
    Ticker,             \* ticks of the retry cron that may overlap
    NoMovement,
    MaxAttempts,        \* MAX_PUSH_DELIVERY_ATTEMPTS
    MaxInvocations,     \* bound on handler runs
    MaxDisconnects,     \* bound on disconnections
    MaxRefreshFailures, \* bound on failed token refreshes
    MaxLostAnswers,     \* bound on adjustments made whose answer was lost
    MaxShared,          \* bound on reads of a row that another run still has
    MaxFaults           \* bound on runs that throw or whose process dies

ASSUME PushAssumption ==
    /\ Mapped \subseteq Movement
    /\ NoMovement \notin Movement
    /\ Consumer \cap Ticker = {} /\ IsFiniteSet(Consumer \union Ticker)
    /\ MaxAttempts \in Nat \ {0}
    /\ MaxInvocations \in Nat
    /\ MaxDisconnects \in Nat
    /\ MaxRefreshFailures \in Nat
    /\ MaxLostAnswers \in Nat
    /\ MaxShared \in Nat
    /\ MaxFaults \in Nat

VARIABLES
    connected,      \* the connection's status is ACTIVE
    delivery,       \* delivery[m]: the row, status "NONE" when there is none
    adjusted,       \* adjusted[m]: stock adjustments Zoho made for m
    escalated,      \* escalated[m]: integration.sync_failed events for m's row
    pc, work, snap, outcome,
    batch,          \* batch[w]: rows a tick read and has not tried yet
    shared,         \* shared[m]: how often a tick read m's row while another had it
    invocations, disconnects, refreshFailures, lostAnswers, faults

workerVars == <<pc, work, snap, outcome, batch>>
boundVars == <<shared, disconnects, refreshFailures, lostAnswers, faults>>
vars == <<connected, delivery, adjusted, escalated, workerVars, invocations, boundVars>>

Worker == Consumer \union Ticker
Status == {"NONE", "PENDING", "DELIVERED", "FAILED", "SKIPPED_UNMAPPED"}
Row == [status : Status, retry : 0..MaxAttempts, next : {"unset", "later", "reached"}]
NoRow == [status |-> "NONE", retry |-> 0, next |-> "unset"]
Outcome == {"none", "delivered", "skipped_unmapped", "retryable", "rejected", "preserve"}
WorkerState ==
    {"idle", "lookup", "create", "batch", "execute", "refresh", "post", "apply", "escalate", "publish"}

Init ==
    /\ connected = TRUE
    /\ delivery = [m \in Movement |-> NoRow]
    /\ adjusted = [m \in Movement |-> 0]
    /\ shared = [m \in Movement |-> 0]
    /\ escalated = [m \in Movement |-> 0]
    /\ pc = [w \in Worker |-> "idle"]
    /\ work = [w \in Worker |-> NoMovement]
    /\ snap = [w \in Worker |-> NoRow]
    /\ outcome = [w \in Worker |-> "none"]
    /\ batch = [w \in Worker |-> {}]
    /\ invocations = 0
    /\ disconnects = 0
    /\ refreshFailures = 0
    /\ lostAnswers = 0
    /\ faults = 0

Goto(w, state) == pc' = [pc EXCEPT ![w] = state]

(* The worker is through with its row; a tick goes on to its next one. *)
Done(w) ==
    /\ Goto(w, IF batch[w] = {} THEN "idle" ELSE "batch")
    /\ work' = [work EXCEPT ![w] = NoMovement]
    /\ snap' = [snap EXCEPT ![w] = NoRow]
    /\ outcome' = [outcome EXCEPT ![w] = "none"]
    /\ UNCHANGED batch

-----------------------------------------------------------------------------
(* The event handler. *)

(* Without an active connection the event is consumed and nothing is pushed. *)
Handle(w, m) ==
    /\ pc[w] = "idle"
    /\ invocations < MaxInvocations
    /\ invocations' = invocations + 1
    /\ IF connected
       THEN Goto(w, "lookup") /\ work' = [work EXCEPT ![w] = m]
       ELSE UNCHANGED <<pc, work>>
    /\ UNCHANGED <<connected, delivery, adjusted, escalated, snap, outcome, batch, boundVars>>

(* ensurePushDelivery: look the row up, *)
FindDelivery(w) ==
    /\ pc[w] = "lookup"
    /\ IF delivery[work[w]].status = "NONE"
       THEN Goto(w, "create") /\ UNCHANGED <<work, snap, outcome, batch>>
       ELSE Done(w)
    /\ UNCHANGED <<connected, delivery, adjusted, escalated, invocations, boundVars>>

(* then insert it; the unique index makes the loser of a race skip. *)
CreateDelivery_NoIndex(w) ==
    /\ pc[w] = "create"
    /\ LET row == [NoRow EXCEPT !.status = "PENDING"] IN
        /\ delivery' = [delivery EXCEPT ![work[w]] = row]
        /\ snap' = [snap EXCEPT ![w] = row]
    /\ Goto(w, "execute")
    /\ UNCHANGED <<connected, adjusted, escalated, work, outcome, batch, invocations, boundVars>>

CreateDelivery(w) ==
    /\ pc[w] = "create"
    /\ LET row == [NoRow EXCEPT !.status = "PENDING"] IN
        IF delivery[work[w]].status = "NONE"
        THEN /\ delivery' = [delivery EXCEPT ![work[w]] = row]
             /\ snap' = [snap EXCEPT ![w] = row]
             /\ Goto(w, "execute")
             /\ UNCHANGED <<work, outcome, batch>>
        ELSE Done(w) /\ UNCHANGED delivery
    /\ UNCHANGED <<connected, adjusted, escalated, invocations, boundVars>>

-----------------------------------------------------------------------------
(* A tick of the retry cron: read the rows that are due, try each.  The cron
   starts one every minute, whether or not the one before is through, so that
   several may have the same row. *)

DueRetry_OneShort(row) == row.status = "FAILED" /\ row.retry + 1 < MaxAttempts /\ row.next = "reached"

DueRetry(row) == row.status = "FAILED" /\ row.retry < MaxAttempts /\ row.next = "reached"

Pushing(m) == {w \in Worker : work[w] = m /\ pc[w] \notin {"lookup", "create"}}
Holding(m) == Pushing(m) \union {w \in Worker : \E due \in batch[w] : due.movement = m}

RunRetryBatch(w) ==
    /\ pc[w] = "idle"
    /\ LET due == {m \in Movement : DueRetry(delivery[m])}
           again == {m \in due : Holding(m) # {}}
       IN  /\ due # {}
           /\ \A m \in again : shared[m] < MaxShared
           /\ batch' = [batch EXCEPT ![w] = {[movement |-> m, row |-> delivery[m]] : m \in due}]
           /\ shared' = [m \in Movement |-> shared[m] + (IF m \in again THEN 1 ELSE 0)]
    /\ Goto(w, "batch")
    /\ UNCHANGED <<connected, delivery, adjusted, escalated, work, snap, outcome, invocations,
                   disconnects, refreshFailures, lostAnswers, faults>>

RetryDelivery(w) ==
    /\ pc[w] = "batch"
    /\ \E due \in batch[w] :
        /\ batch' = [batch EXCEPT ![w] = @ \ {due}]
        /\ work' = [work EXCEPT ![w] = due.movement]
        /\ snap' = [snap EXCEPT ![w] = due.row]
    /\ Goto(w, "execute")
    /\ UNCHANGED <<connected, delivery, adjusted, escalated, outcome, invocations, boundVars>>

-----------------------------------------------------------------------------
(* executeForDelivery. *)

CheckConnection(w) ==
    /\ pc[w] = "execute"
    /\ IF connected
       THEN Goto(w, "refresh") /\ UNCHANGED outcome
       ELSE Goto(w, "apply") /\ outcome' = [outcome EXCEPT ![w] = "preserve"]
    /\ UNCHANGED <<connected, delivery, adjusted, escalated, work, snap, batch, invocations, boundVars>>

(* The token is fresh or refreshed; then the item mapping is looked up. *)
RefreshConnection(w) ==
    /\ pc[w] = "refresh"
    /\ IF work[w] \in Mapped
       THEN Goto(w, "post") /\ UNCHANGED outcome
       ELSE Goto(w, "apply") /\ outcome' = [outcome EXCEPT ![w] = "skipped_unmapped"]
    /\ UNCHANGED <<connected, delivery, adjusted, escalated, work, snap, batch, invocations, boundVars>>

RefreshFails(w) ==
    /\ pc[w] = "refresh"
    /\ connected
    /\ refreshFailures < MaxRefreshFailures
    /\ refreshFailures' = refreshFailures + 1
    /\ Goto(w, "apply")
    /\ outcome' = [outcome EXCEPT ![w] = "preserve"]
    /\ UNCHANGED <<connected, delivery, adjusted, escalated, work, snap, batch, invocations,
                   shared, disconnects, lostAnswers, faults>>

(* adjustStock: the answer, and whether Zoho made the adjustment.  A time-out
   or a server error leaves the second open; a disconnected row has no token. *)
Answer == {[made |-> TRUE, outcome |-> "delivered"], [made |-> TRUE, outcome |-> "retryable"],
           [made |-> FALSE, outcome |-> "retryable"], [made |-> FALSE, outcome |-> "rejected"]}

Lost(a) == a.made /\ a.outcome # "delivered"

AdjustStock(w) ==
    /\ pc[w] = "post"
    /\ \E a \in Answer :
        /\ ~connected => a.outcome = "rejected"
        /\ Lost(a) => lostAnswers < MaxLostAnswers
        /\ lostAnswers' = lostAnswers + (IF Lost(a) THEN 1 ELSE 0)
        /\ adjusted' = [adjusted EXCEPT ![work[w]] = @ + (IF a.made THEN 1 ELSE 0)]
        /\ outcome' = [outcome EXCEPT ![w] = a.outcome]
    /\ Goto(w, "apply")
    /\ UNCHANGED <<connected, delivery, escalated, work, snap, batch, invocations,
                   shared, disconnects, refreshFailures, faults>>

-----------------------------------------------------------------------------
(* applyExecutionOutcome: the row is overwritten, from the snapshot's count. *)

(* As if selecting the row counted the attempt too. *)
Failures_CountedTwice(w) == snap[w].retry + 2

Failures(w) == snap[w].retry + 1

GivesUp(w) ==
    \/ outcome[w] = "rejected"
    \/ outcome[w] = "retryable" /\ Failures(w) >= MaxAttempts

Failed(retry, next) == [status |-> "FAILED", retry |-> retry, next |-> next]

AppliedRow(w) ==
    CASE outcome[w] = "delivered" -> [delivery[work[w]] EXCEPT !.status = "DELIVERED", !.next = "unset"]
      [] outcome[w] = "skipped_unmapped" ->
            [delivery[work[w]] EXCEPT !.status = "SKIPPED_UNMAPPED", !.next = "unset"]
      [] outcome[w] = "preserve" -> Failed(snap[w].retry, snap[w].next)
      [] GivesUp(w) -> Failed(Failures(w), "unset")
      [] OTHER -> Failed(Failures(w), "later")

ApplyOutcome(w) ==
    /\ pc[w] = "apply"
    /\ delivery' = [delivery EXCEPT ![work[w]] = AppliedRow(w)]
    /\ IF GivesUp(w)
       THEN Goto(w, "escalate") /\ UNCHANGED <<work, snap, outcome, batch>>
       ELSE Done(w)
    /\ UNCHANGED <<connected, adjusted, escalated, invocations, boundVars>>

(* publishIntegrationSyncFailedEvent: is there an event for the row already? *)
CheckEscalated(w) ==
    /\ pc[w] = "escalate"
    /\ IF escalated[work[w]] > 0
       THEN Done(w)
       ELSE Goto(w, "publish") /\ UNCHANGED <<work, snap, outcome, batch>>
    /\ UNCHANGED <<connected, delivery, adjusted, escalated, invocations, boundVars>>

PublishFailure(w) ==
    /\ pc[w] = "publish"
    /\ escalated' = [escalated EXCEPT ![work[w]] = @ + 1]
    /\ Done(w)
    /\ UNCHANGED <<connected, delivery, adjusted, invocations, boundVars>>

(* The run throws, or the process dies; a tick loses the rest of its batch. *)
WorkerDies(w) ==
    /\ pc[w] # "idle"
    /\ faults < MaxFaults
    /\ faults' = faults + 1
    /\ Goto(w, "idle")
    /\ work' = [work EXCEPT ![w] = NoMovement]
    /\ snap' = [snap EXCEPT ![w] = NoRow]
    /\ outcome' = [outcome EXCEPT ![w] = "none"]
    /\ batch' = [batch EXCEPT ![w] = {}]
    /\ UNCHANGED <<connected, delivery, adjusted, escalated, invocations,
                   shared, disconnects, refreshFailures, lostAnswers>>

-----------------------------------------------------------------------------
(* The environment: next_retry_at is reached, a user disconnects, reconnects. *)

TimePasses(m) ==
    /\ delivery[m].next = "later"
    /\ delivery' = [delivery EXCEPT ![m].next = "reached"]
    /\ UNCHANGED <<connected, adjusted, escalated, workerVars, invocations, boundVars>>

Disconnect ==
    /\ connected
    /\ disconnects < MaxDisconnects
    /\ disconnects' = disconnects + 1
    /\ connected' = FALSE
    /\ UNCHANGED <<delivery, adjusted, escalated, workerVars, invocations,
                   shared, refreshFailures, lostAnswers, faults>>

Reconnect ==
    /\ ~connected
    /\ connected' = TRUE
    /\ UNCHANGED <<delivery, adjusted, escalated, workerVars, invocations, boundVars>>

-----------------------------------------------------------------------------
Push(w) ==
    \/ CheckConnection(w)
    \/ RefreshConnection(w)
    \/ RefreshFails(w)
    \/ AdjustStock(w)
    \/ ApplyOutcome(w)
    \/ CheckEscalated(w)
    \/ PublishFailure(w)

Consume(w) == FindDelivery(w) \/ CreateDelivery(w) \/ Push(w)
Tick(w) == RunRetryBatch(w) \/ RetryDelivery(w) \/ Push(w)

Next ==
    \/ \E w \in Consumer : Consume(w) \/ \E m \in Movement : Handle(w, m)
    \/ \E w \in Ticker : Tick(w)
    \/ \E w \in Worker : WorkerDies(w)
    \/ \E m \in Movement : TimePasses(m)
    \/ Disconnect
    \/ Reconnect

Spec == Init /\ [][Next]_vars

(* A run goes on while its process lives, the cron ticks every minute, time
   passes.  Events are given by the outbox; users are not forced to act. *)
FairSpec ==
    /\ Spec
    /\ \A w \in Consumer : WF_vars(Consume(w))
    /\ \A w \in Ticker : WF_vars(Tick(w))
    /\ \A m \in Movement : WF_vars(TimePasses(m))

-----------------------------------------------------------------------------
TypeOK ==
    /\ connected \in BOOLEAN
    /\ delivery \in [Movement -> Row]
    /\ adjusted \in [Movement -> Nat]
    /\ shared \in [Movement -> Nat]
    /\ escalated \in [Movement -> Nat]
    /\ pc \in [Worker -> WorkerState]
    /\ work \in [Worker -> Movement \union {NoMovement}]
    /\ snap \in [Worker -> Row]
    /\ outcome \in [Worker -> Outcome]
    /\ \A w \in Worker : batch[w] \subseteq [movement : Movement, row : Row]
    /\ invocations \in 0..MaxInvocations

(* Zoho adjusts its stock once per movement; each further adjustment is owed to
   a lost answer, to a run that died between the adjustment and its record, or to
   a tick that took the row while another still had it. *)
ExtraAdjustmentsHaveACause ==
    \A m \in Movement : adjusted[m] <= 1 + lostAnswers + faults + shared[m]

(* A push that was given up is escalated: always, unless a run died on the way,
   and once, but for the ticks that had the row at the same time. *)
EscalatedWhenGivenUp ==
    \A m \in Movement :
        /\ escalated[m] <= 1 + shared[m]
        /\ (/\ delivery[m].status = "FAILED"
            /\ delivery[m].retry = MaxAttempts
            /\ Pushing(m) = {}
            /\ faults = 0) => escalated[m] > 0

(* Without faults and while the connection holds, a registered delivery ends:
   delivered, skipped, or given up and escalated. *)
Settled(m) ==
    \/ delivery[m].status \in {"DELIVERED", "SKIPPED_UNMAPPED"}
    \/ delivery[m].status = "FAILED" /\ delivery[m].next = "unset" /\ escalated[m] > 0

EveryDeliverySettles ==
    [](faults = 0 /\ disconnects = 0 /\ refreshFailures = 0) =>
        \A m \in Movement : delivery[m].status # "NONE" ~> Settled(m)
=============================================================================
