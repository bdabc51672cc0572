------------------------------ MODULE PullSync ------------------------------
(***************************************************************************)
(* Pulling the item catalogue of one Zoho connection (ZohoPullSyncService, *)
(* ZohoScheduledSyncService).                                              *)
(*                                                                         *)
(* A run is started by a user or by the cron tick.  It fetches all items,  *)
(* takes them one at a time, each in a transaction of its own, and closes  *)
(* its row in integration_sync_runs; a failed run is then reported with an *)
(* integration.sync_failed event.  A mapping is looked up outside the      *)
(* item's transaction: what protects against a concurrent run are the      *)
(* unique indexes on SKUs and on mappings.                                 *)
(***************************************************************************)
EXTENDS Integers, Sequences, FiniteSets

CONSTANTS
    Item, NoItem,   \* items of the Zoho organisation
    Sku, NoSku,
    FirstSku,       \* FirstSku[i]: the SKU item i has in Zoho at first
    LocalSkus,      \* SKUs of inventory items that do not come from Zoho
    Unusable,       \* items without a name, unit, known category or location
    InStock,        \* items with available stock
    Cron, Manual,   \* processes that run syncs: cron instances, users
    Interval,       \* ZOHO_SYNC_INTERVAL_MINUTES
    MaxRuns, MaxTime, MaxRenames,
    MaxMishaps  \* bound on failures and crashes together

PullAssumption ==
    /\ NoItem \notin Item
    /\ NoSku \notin Sku
    /\ IsFiniteSet(Item) /\ FirstSku \in [Item -> Sku]
    /\ LocalSkus \subseteq Sku
    /\ Unusable \subseteq Item
    /\ InStock \subseteq Item
    /\ Cron \intersect Manual = {}
    /\ Interval \in Nat \ {0}
    /\ {MaxRuns, MaxTime, MaxRenames, MaxMishaps} \subseteq Nat

VARIABLES
    zoho,       \* the SKU of each item at Zoho
    mapping,    \* mapping[i]: SKU of the inventory item that i is mapped to
    externalSku,\* integration_item_mappings.external_sku
    booked,     \* booked[i]: ZOHO_PULL stock-ins in the ledger for i
    runs,       \* integration_sync_runs, in the order of started_at
    reports,    \* reports[n]: sync_failed events for run n
    now,
    pc, run,    \* where a process is, and the run it works on
    fetched,    \* the SKUs it fetched
    todo, item, \* the items ahead of it, and the one in its hands
    sawMapping, \* whether it found a mapping for that item
    failed,     \* items that failed so far
    renames, failures, crashes,
    lostReports \* reports that failed

data == <<mapping, externalSku, booked>>
process == <<pc, run, fetched, todo, item, sawMapping, failed>>
budget == <<renames, failures, crashes, lostReports>>
vars == <<zoho, data, runs, reports, now, process, budget>>

Process == Cron \union Manual
Unknown == [i \in Item |-> NoSku]
Trigger(p) == IF p \in Cron THEN "cron" ELSE "manual"
NewRun(trigger) ==
    [trigger |-> trigger, status |-> "running", processed |-> 0, started |-> now, finished |-> now]

Init ==
    /\ zoho = FirstSku
    /\ mapping = Unknown
    /\ externalSku = Unknown
    /\ booked = [i \in Item |-> 0]
    /\ runs = <<>>
    /\ reports = [n \in 1..MaxRuns |-> 0]
    /\ now = 0
    /\ pc = [p \in Process |-> "idle"]
    /\ run = [p \in Process |-> 0]
    /\ fetched = [p \in Process |-> Unknown]
    /\ todo = [p \in Process |-> {}]
    /\ item = [p \in Process |-> NoItem]
    /\ sawMapping = [p \in Process |-> FALSE]
    /\ failed = [p \in Process |-> 0]
    /\ renames = 0
    /\ failures = 0
    /\ crashes = 0
    /\ lostReports = 0

-----------------------------------------------------------------------------
(* findRunningPullSyncRun. *)
SyncRunning == \E n \in DOMAIN runs : runs[n].status = "running"

(* isSyncDue: measured from the end of the latest run of the cron. *)
CronRuns == {n \in DOMAIN runs : runs[n].trigger = "cron"}
LatestCronRun == CHOOSE n \in CronRuns : \A m \in CronRuns : m <= n

SyncDue_NeverFirst ==
    /\ CronRuns # {}
    /\ runs[LatestCronRun].status # "running"
    /\ runs[LatestCronRun].finished + Interval <= now

SyncDue ==
    CronRuns # {} =>
        /\ runs[LatestCronRun].status # "running"
        /\ runs[LatestCronRun].finished + Interval <= now

(* processConnection, up to the call of runPullSync. *)
Tick(p) ==
    /\ p \in Cron
    /\ pc[p] = "idle"
    /\ ~SyncRunning
    /\ SyncDue
    /\ Len(runs) < MaxRuns
    /\ pc' = [pc EXCEPT ![p] = "starting"]
    /\ UNCHANGED <<zoho, data, runs, reports, now, run, fetched, todo, item, sawMapping, failed, budget>>

(* runPullSync: it does not look for a run that is under way. *)
Start(p) ==
    /\ pc[p] = IF p \in Cron THEN "starting" ELSE "idle"
    /\ Len(runs) < MaxRuns
    /\ runs' = Append(runs, NewRun(Trigger(p)))
    /\ run' = [run EXCEPT ![p] = Len(runs) + 1]
    /\ pc' = [pc EXCEPT ![p] = "fetching"]
    /\ UNCHANGED <<zoho, data, reports, now, fetched, todo, item, sawMapping, failed, budget>>

Fetch(p) ==
    /\ pc[p] = "fetching"
    /\ fetched' = [fetched EXCEPT ![p] = zoho]
    /\ todo' = [todo EXCEPT ![p] = Item]
    /\ pc' = [pc EXCEPT ![p] = "items"]
    /\ UNCHANGED <<zoho, data, runs, reports, now, run, item, sawMapping, failed, budget>>

(* updateSyncRun. *)
Finish(p, status, processed) ==
    /\ runs' = [runs EXCEPT ![run[p]].status = status,
                            ![run[p]].processed = processed,
                            ![run[p]].finished = now]
    /\ pc' = [pc EXCEPT ![p] = IF status = "failed" THEN "reporting" ELSE "done"]

(* The token refresh or the fetch throws. *)
FetchFails(p) ==
    /\ pc[p] = "fetching"
    /\ failures + crashes < MaxMishaps
    /\ failures' = failures + 1
    /\ Finish(p, "failed", 0)
    /\ UNCHANGED <<zoho, data, reports, now, run, fetched, todo, item, sawMapping, failed, renames, crashes, lostReports>>

-----------------------------------------------------------------------------
(* processItem: the checks and the look-up of the mapping... *)
LookUp(p, i) ==
    /\ pc[p] = "items"
    /\ i \in todo[p]
    /\ todo' = [todo EXCEPT ![p] = @ \ {i}]
    /\ IF i \in Unusable
       THEN /\ failed' = [failed EXCEPT ![p] = @ + 1]
            /\ UNCHANGED <<pc, item, sawMapping>>
       ELSE /\ pc' = [pc EXCEPT ![p] = "writing"]
            /\ item' = [item EXCEPT ![p] = i]
            /\ sawMapping' = [sawMapping EXCEPT ![p] = mapping[i] # NoSku]
            /\ UNCHANGED failed
    /\ UNCHANGED <<zoho, data, runs, reports, now, run, fetched, budget>>

ItemDone(p) ==
    /\ pc' = [pc EXCEPT ![p] = "items"]
    /\ item' = [item EXCEPT ![p] = NoItem]
    /\ sawMapping' = [sawMapping EXCEPT ![p] = FALSE]
    /\ UNCHANGED <<zoho, runs, reports, now, run, fetched, todo, renames, crashes, lostReports>>

(* ... of a mapped item the metadata are updated, never its quantity ... *)
UpdateItem(p) ==
    /\ pc[p] = "writing"
    /\ sawMapping[p]
    /\ externalSku' = [externalSku EXCEPT ![item[p]] = fetched[p][item[p]]]
    /\ ItemDone(p)
    /\ UNCHANGED <<mapping, booked, failed, failures>>

(* The unique indexes on (factory, sku) and on (connection, external id). *)
Insertable_SkuOnly(i, sku) ==
    sku \notin LocalSkus \union {mapping[j] : j \in Item}

Insertable(i, sku) ==
    /\ sku \notin LocalSkus \union {mapping[j] : j \in Item}
    /\ mapping[i] = NoSku

(* ... and of an unmapped one the item, its opening stock and its mapping are
   inserted. *)
AddItem(p) ==
    LET i == item[p]
        sku == fetched[p][i]
    IN  /\ pc[p] = "writing"
        /\ ~sawMapping[p]
        /\ Insertable(i, sku)
        /\ mapping' = [mapping EXCEPT ![i] = sku]
        /\ externalSku' = [externalSku EXCEPT ![i] = sku]
        /\ booked' = [booked EXCEPT ![i] = IF i \in InStock THEN @ + 1 ELSE @]
        /\ ItemDone(p)
        /\ UNCHANGED <<failed, failures>>

(* A unique index or the database refuses; the transaction is rolled back. *)
ItemFails(p) ==
    /\ pc[p] = "writing"
    /\ IF ~sawMapping[p] /\ ~Insertable(item[p], fetched[p][item[p]])
       THEN UNCHANGED failures
       ELSE failures + crashes < MaxMishaps /\ failures' = failures + 1
    /\ failed' = [failed EXCEPT ![p] = @ + 1]
    /\ ItemDone(p)
    /\ UNCHANGED data

RunStatus(total, bad) ==
    IF bad = 0 THEN "completed" ELSE IF bad = total THEN "failed" ELSE "partial"

Close(p) ==
    /\ pc[p] = "items"
    /\ todo[p] = {}
    /\ Finish(p, RunStatus(Cardinality(Item), failed[p]), Cardinality(Item))
    /\ UNCHANGED <<zoho, data, reports, now, run, fetched, todo, item, sawMapping, failed, budget>>

(* publishPullSyncFailure: at most one event per run; an error is logged. *)
Report(p) ==
    /\ pc[p] = "reporting"
    /\ \/ /\ reports' = [reports EXCEPT ![run[p]] = IF @ > 0 THEN @ ELSE @ + 1]
          /\ UNCHANGED <<failures, lostReports>>
       \/ /\ failures + crashes < MaxMishaps
          /\ failures' = failures + 1
          /\ lostReports' = lostReports + 1
          /\ UNCHANGED reports
    /\ pc' = [pc EXCEPT ![p] = "done"]
    /\ UNCHANGED <<zoho, data, runs, now, run, fetched, todo, item, sawMapping, failed, renames, crashes>>

(* The locals of the call are gone. *)
Forget(P) ==
    /\ pc' = [p \in Process |-> IF p \in P THEN "idle" ELSE pc[p]]
    /\ run' = [p \in Process |-> IF p \in P THEN 0 ELSE run[p]]
    /\ fetched' = [p \in Process |-> IF p \in P THEN Unknown ELSE fetched[p]]
    /\ todo' = [p \in Process |-> IF p \in P THEN {} ELSE todo[p]]
    /\ item' = [p \in Process |-> IF p \in P THEN NoItem ELSE item[p]]
    /\ sawMapping' = [p \in Process |-> IF p \in P THEN FALSE ELSE sawMapping[p]]
    /\ failed' = [p \in Process |-> IF p \in P THEN 0 ELSE failed[p]]
    /\ UNCHANGED <<zoho, data, runs, reports, now>>

Return(p) ==
    /\ pc[p] = "done"
    /\ Forget({p})
    /\ UNCHANGED budget

Crash ==
    /\ failures + crashes < MaxMishaps
    /\ \E p \in Process : pc[p] # "idle"
    /\ Forget(Process)
    /\ crashes' = crashes + 1
    /\ UNCHANGED <<renames, failures, lostReports>>

(* Somebody renames an item at Zoho; time passes. *)
Rename ==
    /\ renames < MaxRenames
    /\ \E i \in Item, sku \in Sku : zoho[i] # sku /\ zoho' = [zoho EXCEPT ![i] = sku]
    /\ renames' = renames + 1
    /\ UNCHANGED <<data, runs, reports, now, process, failures, crashes, lostReports>>

TimePasses ==
    /\ now < MaxTime
    /\ now' = now + 1
    /\ UNCHANGED <<zoho, data, runs, reports, process, budget>>

Step(p) ==
    \/ Start(p) \/ Fetch(p) \/ FetchFails(p)
    \/ \E i \in Item : LookUp(p, i)
    \/ UpdateItem(p) \/ AddItem(p) \/ ItemFails(p)
    \/ Close(p) \/ Report(p) \/ Return(p)

Next ==
    \/ \E p \in Process : Tick(p) \/ Step(p)
    \/ Crash
    \/ Rename
    \/ TimePasses

Spec == Init /\ [][Next]_vars

(* The clock runs, the cron ticks, and what is under way goes on; no user has
   to start a sync. *)
FairSpec ==
    /\ Spec
    /\ WF_vars(TimePasses)
    /\ \A p \in Cron : WF_vars(Tick(p)) /\ WF_vars(Step(p))
    /\ \A p \in Manual : WF_vars(pc[p] # "idle" /\ Step(p))

-----------------------------------------------------------------------------
TypeOK ==
    /\ zoho \in [Item -> Sku]
    /\ mapping \in [Item -> Sku \union {NoSku}]
    /\ externalSku \in [Item -> Sku \union {NoSku}]
    /\ booked \in [Item -> Nat]
    /\ Len(runs) <= MaxRuns
    /\ \A n \in DOMAIN runs :
        runs[n] \in [trigger : {"cron", "manual"}, status : {"running", "completed", "partial", "failed"},
                     processed : 0..Cardinality(Item), started : 0..MaxTime, finished : 0..MaxTime]
    /\ reports \in [1..MaxRuns -> 0..1]
    /\ now \in 0..MaxTime
    /\ pc \in [Process -> {"idle", "starting", "fetching", "items", "writing", "reporting", "done"}]
    /\ run \in [Process -> 0..MaxRuns]
    /\ fetched \in [Process -> [Item -> Sku \union {NoSku}]]
    /\ todo \in [Process -> SUBSET Item]
    /\ item \in [Process -> Item \union {NoItem}]
    /\ sawMapping \in [Process -> BOOLEAN]
    /\ failed \in [Process -> 0..Cardinality(Item)]
    /\ renames \in 0..MaxRenames
    /\ failures \in 0..MaxMishaps
    /\ crashes \in 0..MaxMishaps
    /\ lostReports \in 0..failures

(* The stock Zoho reports enters the ledger once, when the item is first
   mapped, however runs overlap, crash and are repeated, and whatever is
   renamed meanwhile ("stock via recordStockIn(ZOHO_PULL)" and never again). *)
OpeningStockOnce ==
    \A i \in Item : booked[i] = IF mapping[i] # NoSku /\ i \in InStock THEN 1 ELSE 0

(* A run is COMPLETED only if no item of the catalogue was left out. *)
CompletedMeansMapped ==
    (\E n \in DOMAIN runs : runs[n].status = "completed") => \A i \in Item : mapping[i] # NoSku

(* Between the end of a scheduled run and the start of the next one passes the
   interval, across restarts.  True of a single instance of the cron. *)
IntervalKept ==
    \A m, n \in CronRuns : m < n => runs[n].started >= runs[m].finished + Interval

(* "Nightly cron pull per active connection": every usable item whose SKU is
   free is eventually in the inventory, without crashes and as long as no fetch
   and no item fails. *)
SkuTaken(i) == zoho[i] \in LocalSkus \union {mapping[j] : j \in Item \ {i}}

ItemsArrive ==
    [](crashes = 0 /\ failures = 0) =>
        <>(\A i \in Item \ Unusable : mapping[i] # NoSku \/ SkuTaken(i))

=============================================================================
