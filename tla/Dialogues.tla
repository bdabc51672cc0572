------------------------------ MODULE Dialogues ------------------------------
(***************************************************************************)
(* What the multi-step workflows ask and what they make of the answers:    *)
(* adding an employee, a vendor or an inventory item, ordering goods, and  *)
(* giving a task to somebody of a list.                                    *)
(*                                                                         *)
(* One session and one message at a time: WorkflowSession has overlapping  *)
(* messages, expiry and crashes.  What the handlers look up (lists to      *)
(* choose from, the team, the purchase request) changes between messages.  *)
(* An answer is kept as the question it was given to, which is all that    *)
(* tells a right record from a wrong one; an item of an order as the round *)
(* of the dialogue its parts were typed in.                                *)
(***************************************************************************)
EXTENDS Integers, Sequences, FiniteSets

CONSTANTS
    Person,
    MaxItems, MaxMessages, MaxChanges   \* bounds

DialoguesAssumption ==
    /\ IsFiniteSet(Person)
    /\ MaxItems \in Nat \ {0} /\ {MaxMessages, MaxChanges} \subseteq Nat

VARIABLES
    form, step,     \* workflow_type and current_step of the session
    data,           \* session_data of a form: field -> the question answered
    order,          \* session_data of an order
    listed,         \* session_data of an assignment: the people to choose from
    asked,          \* what the last message asked for
    shown,          \* the list of people the last list shown had
    made,           \* what was made last
    lists,          \* lists that have an active entry
    team,           \* who may be given a task now, in the order of the list
    request,        \* the status of the purchase request
    messages, changes

session == <<form, step, data, order, listed, asked, shown>>
world == <<lists, team, request>>
dialoguesVars == <<session, made, world, messages, changes>>

Fields ==
    [worker |-> <<"name", "phone", "department", "role", "doj">>,
     vendor |-> <<"name", "phone", "gst", "address">>,
     item   |-> <<"name", "sku", "category", "location", "unit", "threshold">>]
Forms == DOMAIN Fields
FieldsOf(f) == {Fields[f][i] : i \in DOMAIN Fields[f]}
Field == UNION {FieldsOf(f) : f \in Forms}
Last(f) == Fields[f][Len(Fields[f])]
After(f, q) == LET i == CHOOSE j \in DOMAIN Fields[f] : Fields[f][j] = q IN Fields[f][i + 1]

Blank == "blank"
NoData == [q \in Field |-> Blank]
NoOrder == [title |-> FALSE, item |-> 0, quantity |-> 0, link |-> 0, items |-> <<>>, confirm |-> FALSE]
Nothing == [kind |-> "nothing", data |-> NoData, items |-> <<>>, person |-> 0, shown |-> <<>>]
Listings == {t \in UNION {[1..n -> Person] : n \in 0..Cardinality(Person)} :
                \A i, j \in DOMAIN t : t[i] = t[j] => i = j}

Init ==
    /\ form = "none" /\ step = "none" /\ data = NoData /\ order = NoOrder /\ listed = <<>>
    /\ asked = "nothing" /\ shown = <<>> /\ made = Nothing
    /\ lists \in SUBSET {"category", "location", "vendor"}
    /\ team \in Listings
    /\ request = "none"
    /\ messages = 0 /\ changes = 0

-----------------------------------------------------------------------------
(* Messages: words, a phone number or a quantity, SKIP, yes, no, a contact
   without a number, and what fits none of the questions. *)
Message == {"word", "number", "skip", "yes", "no", "contact", "bad"}

Hears == messages < MaxMessages /\ messages' = messages + 1 /\ UNCHANGED <<world, changes>>

Starts(f, s, d, o, l, q) ==
    /\ form = "none" /\ Hears
    /\ form' = f /\ step' = s /\ data' = d /\ order' = o /\ listed' = l /\ asked' = q
    /\ UNCHANGED made

(* The result of a step: the session goes on, asking for q, ... *)
Asks(s, d, q) ==
    /\ step' = s /\ data' = d /\ asked' = q
    /\ UNCHANGED <<form, order, listed, shown>>

(* ... or it is over. *)
Over ==
    /\ form' = "none" /\ step' = "none" /\ data' = NoData /\ order' = NoOrder /\ listed' = <<>>
    /\ asked' = "nothing" /\ shown' = <<>>

Cancel == form # "none" /\ Hears /\ Over /\ UNCHANGED made

-----------------------------------------------------------------------------
(* The three forms. *)
StartForm(f) ==
    /\ Starts(f, Fields[f][1], NoData, NoOrder, <<>>, Fields[f][1])
    /\ UNCHANGED shown

(* What the validation of a question lets through. *)
Takes(q, m) ==
    CASE q \in {"name", "address"}      -> m # "bad"
      [] q = "phone"                    -> m = "number"
      [] q \in {"sku", "unit"}          -> m # "bad"
      [] q = "department"               -> m \notin {"number", "bad"}
      [] q \in {"category", "location", "role"} -> m = "word"
      [] q = "threshold"                -> m \in {"number", "skip"}
      [] q \in {"gst", "doj"}           -> m \in {"word", "skip"}

(* The question a message is for.  Of an employee it is the first one without
   an answer, and whatever looks like a number goes to a missing number. *)
Needed ==
    IF form # "worker" \/ \A q \in {"name", "phone", "department", "role"} : data[q] # Blank THEN step
    ELSE LET i == CHOOSE j \in 1..4 : data[Fields.worker[j]] = Blank
                    /\ \A k \in 1..j-1 : data[Fields.worker[k]] # Blank IN Fields.worker[i]

Question(m) ==
    IF form = "worker" /\ data["phone"] = Blank /\ m \in {"number", "contact"} THEN "phone" ELSE Needed

(* An item cannot be made where there is nothing to choose from. *)
NothingToChoose(q, m) ==
    /\ form = "item"
    /\ \/ q = "sku" /\ Takes(q, m) /\ "category" \notin lists
       \/ q \in {"category", "location"} /\ q \notin lists

Refuse(m) ==
    LET q == Question(m) IN
    /\ form \in Forms /\ Hears
    /\ ~NothingToChoose(q, m) /\ ~Takes(q, m)
    /\ Asks(Needed, data, q)
    /\ UNCHANGED made

GiveUp(m) == form \in Forms /\ Hears /\ NothingToChoose(Question(m), m) /\ Over /\ UNCHANGED made

Take(m) ==
    LET q == Question(m) IN
    /\ form \in Forms /\ Hears
    /\ q # Last(form) /\ Takes(q, m) /\ ~NothingToChoose(q, m)
    /\ Asks(After(form, q), [data EXCEPT ![q] = asked], After(form, q))
    /\ UNCHANGED made

(* The last answer makes it, or the reason it was not names a question to
   answer again, without the last answer where that is the name. *)
Make(m) ==
    LET q == Question(m) IN
    /\ form \in Forms /\ Hears
    /\ q = Last(form) /\ Takes(q, m)
    /\ made' = [Nothing EXCEPT !.kind = form, !.data = [data EXCEPT ![q] = asked]]
    /\ Over

Blamed == [worker |-> {"phone", "department", "name"}, vendor |-> {"name", "phone"},
           item |-> {"sku", "category"}]

MakeFails(m, b) ==
    LET q == Question(m)
        full == [data EXCEPT ![q] = asked]
        kept == IF b = "name" THEN data ELSE full IN
    /\ form \in Forms /\ Hears
    /\ q = Last(form) /\ Takes(q, m)
    /\ IF b \in Blamed[form] THEN Asks(b, [kept EXCEPT ![b] = Blank], b) ELSE b = "other" /\ Asks(Needed, full, asked)
    /\ UNCHANGED made

-----------------------------------------------------------------------------
(* The order.  It starts empty or with the suggestion for an item whose stock
   is low, to be confirmed. *)
StartOrder ==
    /\ UNCHANGED shown
    /\ \/ Starts("order", "creation", NoData, NoOrder, <<>>, "title")
       \/ Starts("order", "creation", NoData,
                 [NoOrder EXCEPT !.title = TRUE, !.item = 1, !.quantity = 1, !.link = 1, !.confirm = TRUE],
                 <<>>, "confirm")

Round == Len(order.items) + 1
CurrentItem == [item |-> order.item, quantity |-> order.quantity, link |-> order.link]

Orders(o, q) == order' = o /\ asked' = q /\ UNCHANGED <<form, step, data, listed, shown>>

(* createFromWorkflowSession, submitted; who may approve is asked to. *)
Submit ==
    /\ made' = [Nothing EXCEPT !.kind = "order", !.items = Append(order.items, CurrentItem)]
    /\ request' = "pending"
    /\ UNCHANGED <<lists, team, changes>>
    /\ \/ Over
       \/ /\ step' = "approval" /\ order' = NoOrder /\ asked' = "approval"
          /\ UNCHANGED <<form, data, listed, shown>>

OrderHears == form = "order" /\ messages < MaxMessages /\ messages' = messages + 1
Same == UNCHANGED <<world, changes, made>>

(* handlePrefillConfirmation. *)
Confirm(m) ==
    /\ OrderHears /\ step = "creation" /\ order.confirm
    /\ \/ m = "yes" /\ Submit
       \/ m = "no" /\ Orders(NoOrder, "title") /\ Same
       \/ m \notin {"yes", "no"} /\ Orders(order, "confirm") /\ Same

(* handleRequestCreation: title, item, quantity, and another item or not. *)
AnotherItem(o) == [NoOrder EXCEPT !.title = TRUE, !.items = Append(o.items, CurrentItem)]

Detail(m) ==
    /\ OrderHears /\ step = "creation" /\ ~order.confirm
    /\ CASE ~order.title        -> Orders([order EXCEPT !.title = (m # "bad")], IF m = "bad" THEN "title" ELSE "item") /\ Same
         [] order.title /\ order.item = 0 -> Orders([order EXCEPT !.item = Round], "quantity") /\ Same
         [] order.item # 0 /\ order.quantity = 0 ->
                /\ Orders([order EXCEPT !.quantity = IF m = "number" THEN Round ELSE 0],
                          IF m = "number" THEN "another" ELSE "quantity")
                /\ Same
         [] OTHER ->
                \/ m = "yes" /\ Round < MaxItems /\ Orders(AnotherItem(order), "item") /\ Same
                \/ m = "no" /\ Submit
                \/ m \notin {"yes", "no"} /\ Orders(order, "another") /\ Same

(* handleApproval, handleVendorAssignment and handleClose; a call the request
   does not allow any more fails, and the session stays where it is. *)
Decide(m) ==
    /\ OrderHears /\ step = "approval"
    /\ UNCHANGED <<lists, team, changes, made>>
    /\ IF m \in {"yes", "no"} /\ request = "pending"
       THEN /\ request' = (IF m = "yes" THEN "approved" ELSE "rejected")
            /\ IF m = "yes" /\ "vendor" \in lists
               THEN step' = "vendor" /\ asked' = "vendor" /\ UNCHANGED <<form, data, order, listed, shown>>
               ELSE Over
       ELSE UNCHANGED <<request, session>>

PickVendor(m) ==
    /\ OrderHears /\ step = "vendor"
    /\ UNCHANGED <<lists, team, changes, made>>
    /\ LET chosen == m = "word" /\ "vendor" \in lists /\ request \in {"approved", "assigned"} IN
       /\ request' = (IF chosen THEN "assigned" ELSE request)
       /\ IF chosen \/ m = "skip"
          THEN step' = "close" /\ asked' = "close" /\ UNCHANGED <<form, data, order, listed, shown>>
          ELSE UNCHANGED session

CloseOrder(m) ==
    /\ OrderHears /\ step = "close"
    /\ UNCHANGED <<lists, team, changes, made>>
    /\ request' = (IF m = "yes" /\ request \in {"approved", "assigned"} THEN "closed" ELSE request)
    /\ IF m = "yes" THEN Over ELSE UNCHANGED session

-----------------------------------------------------------------------------
(* A task for somebody: the people are listed once and kept in the session. *)
StartAssignment ==
    /\ team # <<>>
    /\ Starts("assign", "assignee", NoData, NoOrder, team, "assignee")
    /\ shown' = team

Options_Reloaded == team

Options == listed

(* The person is chosen by number or mentioned; handleAssign has the last
   word on whether they may be given the task now. *)
Assign(p) ==
    /\ form = "assign" /\ Hears
    /\ IF \E i \in DOMAIN team : team[i] = p
       THEN made' = [Nothing EXCEPT !.kind = "assign", !.person = p] /\ Over
       ELSE UNCHANGED <<session, made>>

PickNumber(i) ==
    /\ form = "assign" /\ Hears
    /\ IF i \in DOMAIN Options /\ \E j \in DOMAIN team : team[j] = Options[i]
       THEN made' = [Nothing EXCEPT !.kind = "picked", !.person = Options[i], !.shown = <<shown[i]>>] /\ Over
       ELSE shown' = Options /\ UNCHANGED <<form, step, data, order, listed, asked, made>>

-----------------------------------------------------------------------------
(* What others do meanwhile. *)
Change ==
    /\ changes < MaxChanges /\ changes' = changes + 1
    /\ \/ lists' \in SUBSET {"category", "location", "vendor"} /\ UNCHANGED <<team, request>>
       \/ team' \in Listings /\ UNCHANGED <<lists, request>>
       \/ /\ \E r \in {"approved", "rejected", "assigned", "closed"} :
             /\ <<request, r>> \in {<<"pending", "approved">>, <<"pending", "rejected">>,
                    <<"approved", "assigned">>, <<"approved", "closed">>, <<"assigned", "closed">>,
                    <<"assigned", "approved">>}
             /\ request' = r
          /\ UNCHANGED <<lists, team>>
    /\ UNCHANGED <<session, made, messages>>

Next ==
    \/ (\E f \in Forms : StartForm(f)) \/ StartOrder \/ StartAssignment \/ Cancel
    \/ \E m \in Message :
        \/ Refuse(m) \/ GiveUp(m) \/ Take(m) \/ Make(m) \/ (\E b \in Field \union {"other"} : MakeFails(m, b))
        \/ Confirm(m) \/ Detail(m) \/ Decide(m) \/ PickVendor(m) \/ CloseOrder(m)
    \/ (\E p \in Person : Assign(p)) \/ (\E i \in 1..Cardinality(Person) : PickNumber(i))
    \/ Change

Spec == Init /\ [][Next]_dialoguesVars

-----------------------------------------------------------------------------
TypeOK ==
    /\ form \in Forms \union {"order", "assign", "none"}
    /\ data \in [Field -> Field \union {Blank}]
    /\ form \in Forms => step \in FieldsOf(form) /\ asked \in FieldsOf(form)
    /\ form = "order" => step \in {"creation", "approval", "vendor", "close"}
    /\ order.item \in 0..MaxItems /\ order.quantity \in 0..MaxItems /\ Len(order.items) < MaxItems
    /\ {listed, shown, team} \subseteq Listings
    /\ lists \subseteq {"category", "location", "vendor"}
    /\ request \in {"none", "pending", "approved", "rejected", "assigned", "closed"}
    /\ messages \in 0..MaxMessages /\ changes \in 0..MaxChanges

(* What a dialogue makes has an answer to every question, whatever failed,
   was refused or was asked again on the way: vendors and items the answers
   given to those very questions, an order the quantity and the stock item
   that belong to each of its items. *)
MadeWhole ==
    /\ made.kind \in Forms => \A q \in FieldsOf(made.kind) : made.data[q] # Blank
    /\ made.kind \in {"vendor", "item"} => \A q \in FieldsOf(made.kind) : made.data[q] = q
    /\ made.kind = "order" => \A i \in DOMAIN made.items :
        made.items[i].item = i /\ made.items[i].quantity = i /\ made.items[i].link \in {0, i}

(* Whoever was chosen by number is who the list showed under it, whoever came
   to or left the team since. *)
PickedAsShown == made.kind = "picked" => made.shown = <<made.person>>
=============================================================================
