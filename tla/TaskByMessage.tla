---------------------------- MODULE TaskByMessage ----------------------------
(***************************************************************************)
(* A task given in plain words ("vikram ko 5 cement bhejo"): the ML        *)
(* service takes the words apart, the item and the worker are looked up,   *)
(* and a dialogue of numbers and CONFIRM ends in a task.                   *)
(*                                                                         *)
(* One sender and one message at a time (WorkflowSession has the           *)
(* overlaps).  Between messages the stock, the team and the items change,  *)
(* and the database fails in the middle of making a task.  How well a      *)
(* hint fits a name is a constant: 1 the same, 2 a word of it or the name  *)
(* for an SKU, 3 a part of it, 4 and 5 similar, far enough apart for 4 to  *)
(* be taken alone, 0 not at all.                                           *)
(***************************************************************************)
EXTENDS Integers, Sequences, FiniteSets, SequencesExt

CONSTANTS
    Items, Members,         \* there are items 1..Items and members 1..Members
    Hint, ItemFit, MemberFit,   \* hint -> name -> 0..5
    NoHint,
    MaxStock,               \* the numbers a message may have, and the stock
    MaxMessages, MaxTasks, MaxChanges   \* bounds

Item == 1..Items
Member == 1..Members

TaskByMessageAssumption ==
    /\ {Items, Members, MaxStock, MaxMessages, MaxTasks, MaxChanges} \subseteq Nat
    /\ NoHint \notin Hint
    /\ ItemFit \in [Hint -> [Item -> 0..5]] /\ MemberFit \in [Hint -> [Member -> 0..5]]

VARIABLES
    step,           \* current_step of the sender's session, "none" without one
    data,           \* its session_data
    seen,           \* what the last prompt showed: a list, or what to confirm
    picked,         \* item and worker as the sender took them from the lists
    heard,          \* the last reply about a quantity: its word, the stock then, its effect
    tasks,          \* the tasks this dialogue made
    stock, active, team,    \* current_quantity, items not archived, members
    messages, changes

talk == <<step, data, seen, picked, heard>>
firm == <<stock, active, team>>
taskByMessageVars == <<talk, tasks, firm, messages, changes>>

Sender == 0         \* the owner or manager who writes
None == -1
Steps == {"none", "item", "worker", "quantity", "confirm"}
NoData == [kind |-> "none", item |-> None, worker |-> None, quantity |-> None,
           items |-> <<>>, workers |-> <<>>]
Unseen == [list |-> <<>>, item |-> None, worker |-> None, quantity |-> None]
Unpicked == [item |-> None, worker |-> None]
Unheard == [word |-> "none", free |-> 0, effect |-> "none"]

(* Replies: the numbers are also words, see IsConfirm and IsCancel. *)
Number == [w \in {"1", "2", "3"} |-> CASE w = "1" -> 1 [] w = "2" -> 2 [] w = "3" -> 3]
Word == DOMAIN Number \cup {"confirm", "cancel", "other"}
IsConfirm(w) == w \in {"confirm", "1"}
IsCancel(w) == w \in {"cancel", "2"}

Init ==
    /\ step = "none" /\ data = NoData /\ seen = Unseen /\ picked = Unpicked /\ heard = Unheard
    /\ tasks = <<>>
    /\ stock = [i \in Item |-> MaxStock] /\ active = Item /\ team = Member
    /\ messages = 0 /\ changes = 0

(* Stock on hand that no open delivery of the item has been promised. *)
Promised(i) == FoldLeft(LAMBDA n, t : n + IF t.item = i THEN t.quantity ELSE 0, 0, tasks)
Free(i) == LET f == stock[i] - Promised(i) IN IF f < 0 THEN 0 ELSE f

-----------------------------------------------------------------------------
(* A hint against a list: the best kind of fit decides; one that fits is
   taken, several are asked about, the similar ones all together, the best fit
   first.  An SKU is found for an archived item too. *)
Fits(fit, pool, t) == {n \in pool : fit[n] = t}

Listed(fit, ns) ==
    [k \in 1..Cardinality(ns) |->
        CHOOSE n \in ns : Cardinality({m \in ns : fit[m] < fit[n] \/ (fit[m] = fit[n] /\ m <= n)}) = k]

Found(fit, pool) ==
    LET best == {t \in 1..5 : Fits(fit, pool, t) # {}}
        t == CHOOSE b \in best : \A c \in best : b <= c
        near == IF t < 4 THEN Fits(fit, pool, t) ELSE {n \in pool : fit[n] >= 4}
    IN IF best = {} THEN <<>>
       ELSE Listed(fit, IF Cardinality(Fits(fit, pool, t)) = 1 THEN Fits(fit, pool, t) ELSE near)

FindItem(h) == IF h = NoHint THEN <<>>
               ELSE Found(ItemFit[h], {i \in Item : i \in active \/ ItemFit[h][i] = 1})
FindWorker(h) == IF h = NoHint THEN <<>> ELSE Found(MemberFit[h], team)

NeedsItem(k) == k = "delivery"

Hears == messages < MaxMessages /\ messages' = messages + 1 /\ UNCHANGED <<firm, changes>>

Over ==
    /\ step' = "none" /\ data' = NoData /\ seen' = Unseen /\ picked' = Unpicked

(* The next question, for session data d: a list, the quantity, or CONFIRM,
   which names worker w. *)
AsksFor(d, w) ==
    LET s == IF d.items # <<>> THEN "item"
             ELSE IF d.workers # <<>> THEN "worker"
             ELSE IF NeedsItem(d.kind) /\ d.quantity = None THEN "quantity"
             ELSE "confirm"
    IN /\ step' = s /\ data' = d
       /\ seen' = CASE s = "item" -> [Unseen EXCEPT !.list = d.items]
                    [] s = "worker" -> [Unseen EXCEPT !.list = d.workers]
                    [] s = "quantity" -> Unseen
                    [] OTHER -> [Unseen EXCEPT !.item = d.item, !.worker = w, !.quantity = d.quantity]

Asks(d) == AsksFor(d, d.worker)

(* The first message, when the extractor finds a task in it (otherwise, or
   when the ML service is away, other code answers).  A worker's message is
   never read this way.  A count whose worker was not found is the sender's;
   when it is confirmed at once, the message has a dash in place of a name. *)
Blocked(k, is, ws, q) ==
    \/ NeedsItem(k) /\ is = <<>>
    \/ k # "count" /\ ws = <<>>
    \/ NeedsItem(k) /\ Len(is) = 1 /\ q # None /\ q > Free(is[1])

FreeText(k, i, w, q) ==
    LET is == FindItem(i)
        ws == FindWorker(w)
    IN /\ step = "none" /\ Hears /\ heard' = Unheard /\ UNCHANGED tasks
       /\ IF Blocked(k, is, ws, q) THEN UNCHANGED <<step, data, seen, picked>>
          ELSE LET d == [kind |-> k, quantity |-> q,
                         item |-> IF Len(is) = 1 THEN is[1] ELSE None,
                         items |-> IF Len(is) > 1 THEN is ELSE <<>>,
                         worker |-> CASE Len(ws) = 1 -> ws[1] [] ws = <<>> -> Sender [] OTHER -> None,
                         workers |-> IF Len(ws) > 1 THEN ws ELSE <<>>]
                   named == IF Len(ws) = 1 THEN ws[1] ELSE None
               IN AsksFor(d, named) /\ picked' = [item |-> d.item, worker |-> named]

-----------------------------------------------------------------------------
(* Replies. *)
Hear(w, e) == heard' = [word |-> w, effect |-> e, free |-> Free(data.item)]

Stays == UNCHANGED <<step, data, seen, picked>>

Picks(w, list) == w \in DOMAIN Number /\ Number[w] <= Len(list)

(* A bug: the number is looked up in the items as they are now. *)
SelectItem_Again(w) ==
    /\ step = "item" /\ Hears /\ heard' = Unheard /\ UNCHANGED tasks
    /\ LET now == SelectSeq(data.items, LAMBDA i : i \in active) IN
       \/ /\ Picks(w, now)
          /\ Asks([data EXCEPT !.item = now[Number[w]], !.items = <<>>])
          /\ picked' = [picked EXCEPT !.item = seen.list[Number[w]]]
       \/ ~Picks(w, now) /\ IsCancel(w) /\ Over
       \/ ~Picks(w, now) /\ ~IsCancel(w) /\ Stays

SelectItem(w) ==
    /\ step = "item" /\ Hears /\ heard' = Unheard /\ UNCHANGED tasks
    /\ \/ /\ Picks(w, data.items)
          /\ Asks([data EXCEPT !.item = data.items[Number[w]], !.items = <<>>])
          /\ picked' = [picked EXCEPT !.item = seen.list[Number[w]]]
       \/ ~Picks(w, data.items) /\ IsCancel(w) /\ Over
       \/ ~Picks(w, data.items) /\ ~IsCancel(w) /\ Stays

SelectWorker(w) ==
    /\ step = "worker" /\ Hears /\ heard' = Unheard /\ UNCHANGED tasks
    /\ \/ /\ Picks(w, data.workers)
          /\ Asks([data EXCEPT !.worker = data.workers[Number[w]], !.workers = <<>>])
          /\ picked' = [picked EXCEPT !.worker = seen.list[Number[w]]]
       \/ ~Picks(w, data.workers) /\ IsCancel(w) /\ Over
       \/ ~Picks(w, data.workers) /\ ~IsCancel(w) /\ Stays

(* The word for CANCEL is looked for before the number. *)
Quantity(w) ==
    LET fits == w \in DOMAIN Number /\ Number[w] <= Free(data.item)
    IN /\ step = "quantity" /\ Hears /\ UNCHANGED tasks
       /\ \/ IsCancel(w) /\ Hear(w, "cancelled") /\ Over
          \/ /\ ~IsCancel(w) /\ fits /\ Hear(w, "taken")
             /\ Asks([data EXCEPT !.quantity = Number[w]]) /\ UNCHANGED picked
          \/ ~IsCancel(w) /\ ~fits /\ Hear(w, "again") /\ Stays

(* createFromSession. *)
Fulfillable ==
    /\ data.worker = Sender \/ data.worker \in team
    /\ NeedsItem(data.kind) => data.quantity > 0

Task(whole) ==
    [worker |-> data.worker, whole |-> whole, shown |-> seen, picked |-> picked, kind |-> data.kind,
     item |-> IF NeedsItem(data.kind) /\ whole THEN data.item ELSE None,
     quantity |-> IF NeedsItem(data.kind) /\ whole THEN data.quantity ELSE 0]

Confirm(w) ==
    /\ step = "confirm" /\ Hears /\ heard' = Unheard
    /\ \/ IsCancel(w) /\ Over /\ UNCHANGED tasks
       \/ ~IsCancel(w) /\ ~(IsConfirm(w) /\ Fulfillable) /\ Stays /\ UNCHANGED tasks
       \/ /\ IsConfirm(w) /\ Fulfillable /\ Len(tasks) < MaxTasks
          /\ tasks' = Append(tasks, Task(TRUE)) /\ Over

(* The database goes after the row of the task and before its lines: the
   error is told, the row stays, and the session still waits for CONFIRM. *)
ConfirmTorn(w) ==
    /\ step = "confirm" /\ IsConfirm(w) /\ Fulfillable /\ NeedsItem(data.kind)
    /\ messages < MaxMessages /\ messages' = messages + 1
    /\ changes < MaxChanges /\ changes' = changes + 1
    /\ Len(tasks) < MaxTasks
    /\ tasks' = Append(tasks, Task(FALSE)) /\ heard' = Unheard /\ Stays /\ UNCHANGED firm

(* During the dialogue stock is moved elsewhere, an item archived, a member
   removed. *)
Changes ==
    /\ step # "none" /\ changes < MaxChanges /\ changes' = changes + 1
    /\ \/ \E i \in Item, n \in 0..MaxStock : stock' = [stock EXCEPT ![i] = n] /\ UNCHANGED <<active, team>>
       \/ \E i \in active : active' = active \ {i} /\ UNCHANGED <<stock, team>>
       \/ \E m \in team : team' = team \ {m} /\ UNCHANGED <<stock, active>>
    /\ UNCHANGED <<talk, tasks, messages>>

Reply(w) == SelectItem(w) \/ SelectWorker(w) \/ Quantity(w) \/ Confirm(w) \/ ConfirmTorn(w)

Next ==
    \/ \E k \in {"delivery", "count"}, i, w \in Hint \cup {NoHint}, q \in {None} \cup 0..MaxStock : FreeText(k, i, w, q)
    \/ \E w \in Word : Reply(w)
    \/ Changes

Spec == Init /\ [][Next]_taskByMessageVars

-----------------------------------------------------------------------------
TypeOK ==
    /\ step \in Steps
    /\ data.kind \in {"none", "delivery", "count"} /\ data.item \in Item \cup {None}
    /\ data.worker \in Member \cup {None, Sender} /\ data.quantity \in {None} \cup 0..MaxStock + 3
    /\ \A n \in DOMAIN data.items : data.items[n] \in Item
    /\ \A n \in DOMAIN data.workers : data.workers[n] \in Member
    /\ heard.word \in Word \cup {"none"}
    /\ Len(tasks) <= MaxTasks
    /\ stock \in [Item -> 0..MaxStock] /\ active \subseteq Item /\ team \subseteq Member
    /\ messages \in 0..MaxMessages /\ changes \in 0..MaxChanges

(* A task is for the worker named in the first message or taken from the list
   as it stood when it was sent, and for the item and the quantity taken so;
   the message to confirm showed them.  Only a count may have nobody: it is the
   sender's, and the message showed the sender or a dash.  A delivery has an
   item and a quantity, and no question is asked about an item that the sender
   did not yet choose, whatever was ambiguous, missing or changed on the way. *)
MadeAsConfirmed ==
    /\ \A n \in DOMAIN tasks : LET t == tasks[n] IN
           /\ t.worker = IF t.picked.worker = None THEN Sender ELSE t.picked.worker
           /\ t.picked.worker = None => t.kind = "count"
           /\ t.shown.worker # t.worker => t.shown.worker = None /\ t.picked.worker = None
           /\ t.kind = "delivery" /\ t.whole =>
                 t.item = t.shown.item /\ t.item = t.picked.item /\ t.item # None
                 /\ t.quantity = t.shown.quantity /\ t.quantity > 0
    /\ step \in {"quantity", "confirm"} /\ data.kind = "delivery" => data.item # None
    /\ step = "confirm" => data.worker # None

(* A number that the question about the quantity allows is taken as the
   quantity ("Number likhein", "Maximum N tak bhej sakte hain"). *)
QuantityIsTaken ==
    heard.word \in DOMAIN Number /\ Number[heard.word] <= heard.free => heard.effect # "cancelled"
=============================================================================
