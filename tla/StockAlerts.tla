------------------------------ MODULE StockAlerts -----------------------------
(***************************************************************************)
(* What the outbox's handlers tell about low stock and about failed        *)
(* synchronisations, and how an order is begun from an alert.              *)
(*                                                                         *)
(* Every alert a person got is kept for a day (low_stock_alert_contexts).  *)
(* WhatsApp may hand over a tapped button as its title only, which is the  *)
(* same for every alert: the item is then looked up among the alerts of    *)
(* the day, and asked for when there are several.                          *)
(***************************************************************************)
EXTENDS Naturals, Sequences, FiniteSets, SequencesExt

CONSTANTS
    AlertEvent,    \* events the handlers are called with
    ItemOf,        \* ItemOf[e]: the item that ran low, or Sync for integration.sync_failed
    Sync, Nothing,
    Owners,        \* phones of the factory's owners, in the order they joined
    Heads,         \* phones of its departments' heads
    Handler,       \* calls of the handlers, which may overlap
    MaxCalls,      \* bound on calls of the handlers
    MaxMessages,   \* bound on taps and numbers
    MaxFaults      \* bound on failed sends and inserts, and dying calls

VARIABLES
    alerts,    \* low_stock_alert_contexts: phone and item, oldest first
    expired,   \* how many of them are older than a day
    call,      \* call[h]: its event, the phones still to tell, whether the first was sent to
    told,      \* <<event, phone>>: messages that were sent
    logged,    \* <<event, phone>>: failures of the loop, logged and passed over
    ended,     \* events a handler returned from
    shown,     \* shown[p]: the list p was shown, as long as it is p's list
    order,     \* the order begun last: who, item, by what, the list it was picked from
    calls, messages, faults

alertVars == <<alerts, expired, call, told, logged, ended, shown, order, calls, messages,
               faults>>
talk == <<expired, order, messages>>   \* what the handlers leave alone

-----------------------------------------------------------------------------
(* The numbers in ns, the smallest first. *)
Ascending(ns) == [k \in 1..Cardinality(ns) |-> CHOOSE n \in ns : Cardinality({m \in ns : m <= n}) = k]

(* uniqueAlertPhones: what s holds, each once and where it comes first. *)
Firsts(s) == {n \in DOMAIN s : \A m \in DOMAIN s : m < n => s[m] # s[n]}
Distinct(s) == [k \in 1..Cardinality(Firsts(s)) |-> s[Ascending(Firsts(s))[k]]]

(* Owners first; the head of the task's department is one of the heads. *)
Recipients(e) == IF ItemOf[e] = Sync THEN <<Head(Owners)>> ELSE Distinct(Owners \o Heads)

Phones == ToSet(Owners \o Heads)
Item == {ItemOf[e] : e \in AlertEvent} \ {Sync}
Idle == [event |-> Nothing, todo |-> <<>>, sent |-> FALSE]

AlertsAssumption ==
    /\ Nothing \notin AlertEvent \union Item /\ IsFiniteSet(AlertEvent)
    /\ Owners \in Seq(Phones) /\ Heads \in Seq(Phones) /\ Len(Owners) > 0
    /\ MaxCalls \in Nat /\ MaxMessages \in Nat /\ MaxFaults \in Nat

Live(p) == {n \in (expired + 1)..Len(alerts) : alerts[n].phone = p}

(* listActiveDistinct: the newest first, an item where its newest alert is. *)
Newest(p) == {n \in Live(p) : \A m \in Live(p) : m > n => alerts[m].item # alerts[n].item}
ActiveDistinct(p) ==
    [k \in 1..Cardinality(Newest(p)) |-> alerts[Reverse(Ascending(Newest(p)))[k]].item]

Init ==
    /\ alerts = <<>> /\ expired = 0
    /\ call = [h \in Handler |-> Idle]
    /\ told = {} /\ logged = {} /\ ended = {}
    /\ shown = [p \in Phones |-> <<>>]
    /\ order = [phone |-> Nothing, item |-> Nothing, by |-> "nothing", from |-> <<>>, n |-> 0]
    /\ calls = 0 /\ messages = 0 /\ faults = 0

-----------------------------------------------------------------------------
(* The handlers                                                            *)

(* The outbox may call twice with one event, and with two at once. *)
Handle(h, e) ==
    /\ call[h] = Idle /\ calls < MaxCalls /\ calls' = calls + 1
    /\ call' = [call EXCEPT ![h] = [event |-> e, todo |-> Recipients(e), sent |-> FALSE]]
    /\ UNCHANGED <<alerts, told, logged, ended, shown, faults, talk>>

Working(h) == call[h] # Idle /\ call[h].todo # <<>>
Pair(h) == <<call[h].event, Head(call[h].todo)>>
NextPhone(h) == [call[h] EXCEPT !.todo = Tail(@), !.sent = FALSE]

Send(h) ==
    /\ Working(h) /\ ~call[h].sent
    /\ told' = told \union {Pair(h)}
    /\ call' = [call EXCEPT ![h] = IF ItemOf[call[h].event] = Sync THEN NextPhone(h)
                                   ELSE [@ EXCEPT !.sent = TRUE]]
    /\ UNCHANGED <<alerts, logged, ended, shown, calls, faults, talk>>

(* recordAlertContext *)
Record(h) ==
    LET p == Head(call[h].todo) IN
    /\ Working(h) /\ call[h].sent
    /\ alerts' = Append(alerts, [phone |-> p, item |-> ItemOf[call[h].event]])
    /\ shown' = [shown EXCEPT ![p] = <<>>]
    /\ call' = [call EXCEPT ![h] = NextPhone(h)]
    /\ UNCHANGED <<told, logged, ended, calls, faults, talk>>

(* sendAlertIndependently passes over a failed send or insert. *)
AfterFailure_Stops(h) == [call[h] EXCEPT !.todo = <<>>, !.sent = FALSE]
AfterFailure(h) == NextPhone(h)

(* The alert of a failed synchronisation throws: the outbox tries again. *)
Fail(h) ==
    /\ Working(h) /\ faults < MaxFaults /\ faults' = faults + 1
    /\ IF ItemOf[call[h].event] = Sync
       THEN call' = [call EXCEPT ![h] = Idle] /\ UNCHANGED logged
       ELSE call' = [call EXCEPT ![h] = AfterFailure(h)] /\ logged' = logged \union {Pair(h)}
    /\ UNCHANGED <<alerts, told, ended, shown, calls, talk>>

Return(h) ==
    /\ call[h] # Idle /\ call[h].todo = <<>>
    /\ ended' = ended \union {call[h].event}
    /\ call' = [call EXCEPT ![h] = Idle]
    /\ UNCHANGED <<alerts, told, logged, shown, calls, faults, talk>>

Die(h) ==
    /\ call[h] # Idle /\ faults < MaxFaults /\ faults' = faults + 1
    /\ call' = [call EXCEPT ![h] = Idle]
    /\ UNCHANGED <<alerts, told, logged, ended, shown, calls, talk>>

-----------------------------------------------------------------------------
(* Orders                                                                  *)

Says == messages < MaxMessages /\ messages' = messages + 1
Begin(p, item, by, from, n) ==
    order' = [phone |-> p, item |-> item, by |-> by, from |-> from, n |-> n]
AlertRest == <<alerts, expired, call, told, logged, ended, calls, faults>>

(* resolveCtaTitle: the title of the button and nothing else. *)
TapTitle(p) ==
    LET items == ActiveDistinct(p) IN
    /\ Says
    /\ IF Len(items) = 1
       THEN Begin(p, items[1], "title", <<>>, 1) /\ UNCHANGED shown
       ELSE /\ shown' = IF Len(items) > 1 THEN [shown EXCEPT ![p] = items] ELSE shown
            /\ UNCHANGED order
    /\ UNCHANGED AlertRest

(* The button with its id carries the command of its item. *)
TapButton(p, e) ==
    /\ Says /\ <<e, p>> \in told /\ ItemOf[e] # Sync
    /\ Begin(p, ItemOf[e], "button", <<>>, 1)
    /\ UNCHANGED <<shown, AlertRest>>

(* tryResolveDisambiguationSelection: the list is read again, whether one was
   shown or not. *)
Picked(p, n) == ActiveDistinct(p)[n]
Number(p, n) ==
    /\ Says /\ Len(ActiveDistinct(p)) > 1 /\ n \in DOMAIN ActiveDistinct(p)
    /\ Begin(p, Picked(p, n), "number", shown[p], n)
    /\ UNCHANGED <<shown, AlertRest>>

(* A day after it was sent an alert is history. *)
Expire ==
    /\ expired < Len(alerts)
    /\ expired' = expired + 1
    /\ shown' = [shown EXCEPT ![alerts[expired + 1].phone] = <<>>]
    /\ UNCHANGED <<alerts, call, told, logged, ended, order, calls, messages, faults>>

Next ==
    \/ \E h \in Handler :
        (\E e \in AlertEvent : Handle(h, e)) \/ Send(h) \/ Record(h) \/ Fail(h) \/ Return(h) \/ Die(h)
    \/ \E p \in Phones :
        \/ TapTitle(p) \/ \E e \in AlertEvent : TapButton(p, e)
        \/ \E n \in 1..Cardinality(Item) : Number(p, n)
    \/ Expire

Spec == Init /\ [][Next]_alertVars

-----------------------------------------------------------------------------
TypeOK ==
    /\ alerts \in Seq([phone : Phones, item : Item]) /\ expired \in 0..Len(alerts)
    /\ \A h \in Handler :
        /\ call[h].event \in AlertEvent \union {Nothing} /\ call[h].sent \in BOOLEAN
        /\ ToSet(call[h].todo) \subseteq Phones
    /\ told \union logged \subseteq AlertEvent \X Phones /\ ended \subseteq AlertEvent
    /\ \A p \in Phones : ToSet(shown[p]) \subseteq Item
    /\ order.phone \in Phones \union {Nothing} /\ order.item \in Item \union {Nothing}
    /\ calls \in 0..MaxCalls /\ messages \in 0..MaxMessages /\ faults \in 0..MaxFaults

(* When a handler has returned, everybody its alert is for was told or their
   failure is in the log, whatever failed for others; and the owner was told of
   a failed synchronisation. *)
AlertsReachAll ==
    \A e \in ended : \A p \in ToSet(Recipients(e)) :
        <<e, p>> \in told \/ (ItemOf[e] # Sync /\ <<e, p>> \in logged)

(* An order is begun for an item its person was told of, however it was picked;
   a number picks what the list shown says, as long as no alert came or lapsed
   since; and who is asked is asked between items, however often each was
   alerted. *)
OrderedAsAlerted ==
    /\ order.item # Nothing =>
        /\ \E e \in AlertEvent : ItemOf[e] = order.item /\ <<e, order.phone>> \in told
        /\ order.from # <<>> => order.item = order.from[order.n]
    /\ \A p \in Phones : shown[p] # <<>> => Len(shown[p]) = Cardinality(ToSet(shown[p])) /\ Len(shown[p]) > 1
=============================================================================
