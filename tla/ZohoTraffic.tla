----------------------------- MODULE ZohoTraffic -----------------------------
(***************************************************************************)
(* ZohoTraffic: the push of stock movements to Zoho with its retries, and  *)
(* the pull of the catalogue.  The two share the connection only, which    *)
(* each of them asks for on its own, so each behaviour moves one of the    *)
(* two and the other rests.                                                *)
(***************************************************************************)
EXTENDS PushDelivery

CONSTANTS
    Item, NoItem, Sku, NoSku, FirstSku, LocalSkus, Unusable, InStock, Cron, Manual, Interval,
    MaxRuns, MaxTime, MaxRenames, MaxMishaps

VARIABLES
    part,   \* the component that moves in this behaviour
    zoho, mapping, externalSku, booked, runs, reports, now, pullPc, run, fetched, todo, item,
    sawMapping, failed, renames, failures, crashes, lostReports

Pull == INSTANCE PullSync WITH pc <- pullPc
pullState == <<zoho, mapping, externalSku, booked, runs, reports, now, pullPc, run, fetched, todo,
    item, sawMapping, failed, renames, failures, crashes, lostReports>>
ASSUME PullAssumption == Pull!PullAssumption

parts == <<vars, part, pullState>>

PartsInit ==
    /\ part \in {"push", "pull"}
    /\ Init
    /\ Pull!Init

PushMoves(A) == part = "push" /\ A /\ UNCHANGED <<part, pullState>>
PullMoves(A) == part = "pull" /\ A /\ UNCHANGED <<part, vars>>

PartsNext ==
    \/ PushMoves(Next)
    \/ PullMoves(Pull!Next)

PartsSpec ==
    /\ PartsInit /\ [][PartsNext]_parts
    /\ \A w \in Consumer : WF_vars(part = "push" /\ Consume(w))
    /\ \A w \in Ticker : WF_vars(part = "push" /\ Tick(w))
    /\ \A m \in Movement : WF_vars(part = "push" /\ TimePasses(m))
    /\ WF_pullState(part = "pull" /\ Pull!TimePasses)
    /\ \A p \in Cron : WF_pullState(part = "pull" /\ Pull!Tick(p))
    /\ \A p \in Cron : WF_pullState(part = "pull" /\ Pull!Step(p))
    /\ \A p \in Manual : WF_pullState(part = "pull" /\ pullPc[p] # "idle" /\ Pull!Step(p))

(* The values of the part that moves; the others stay as they began. *)
PartsTypeOK ==
    /\ part = "push" => TypeOK
    /\ part = "pull" => Pull!TypeOK

(* A delivery given up is escalated, and a movement is adjusted or escalated more
   than once only where an answer was lost, a process died or ticks had the same
   row (PushDelivery). *)
AdjustedAsRecorded == part = "push" => ExtraAdjustmentsHaveACause /\ EscalatedWhenGivenUp

(* The opening stock of an item is taken once, a completed run mapped what it
   counts, and scheduled runs keep their distance (PullSync). *)
PulledOnce == part = "pull" =>
    Pull!OpeningStockOnce /\ Pull!CompletedMeansMapped /\ Pull!IntervalKept

(* Every usable item arrives (PullSync). *)
ItemsArrive == part = "pull" => Pull!ItemsArrive
==============================================================================
