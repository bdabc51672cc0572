-------------------------- MODULE PurchaseRequest --------------------------
(***************************************************************************)
(* The life of a purchase request (PurchaseRequestService).                *)
(*                                                                         *)
(* A call reads the row and checks its status, then changes the row and    *)
(* appends the audit event in one transaction.  Nothing ties the two: the  *)
(* transaction neither locks nor re-reads the row, and Sequelize writes    *)
(* only the columns whose new value differs from the row that was read.    *)
(***************************************************************************)
EXTENDS Integers, Sequences, FiniteSets

CONSTANTS
    Call,       \* calls of the service that may overlap
    Vendor,
    NoVendor,
    MaxCalls    \* bound on the calls made for the request

ASSUME PurchaseAssumption ==
    /\ NoVendor \notin Vendor
    /\ MaxCalls \in Nat

VARIABLES
    exists,     \* the request was created
    row,        \* its status and its vendor
    contents,   \* version of its title and items
    audit,      \* the purchase_request_audit rows, in order
    pc, op, snap,
    calls,
    suggested,  \* a low-stock suggestion was accepted, and that is still to be logged
    overlapped  \* some call began while another was under way

callVars == <<pc, op, snap>>
vars == <<exists, row, contents, audit, callVars, calls, suggested, overlapped>>

Status == {"DRAFT", "PENDING_APPROVAL", "APPROVED", "REJECTED", "ASSIGNED_TO_VENDOR", "CLOSED"}
Row == [status : Status, vendor : Vendor \union {NoVendor}]
Draft == [status |-> "DRAFT", vendor |-> NoVendor]

Operation ==
    [kind : {"update", "approve", "reject", "remove", "close"}, vendor : {NoVendor}]
        \union [kind : {"assign"}, vendor : Vendor]
NoOperation == [kind |-> "none", vendor |-> NoVendor]

EventKind ==
    {"CREATED", "SUBMITTED", "UPDATED", "APPROVED", "REJECTED",
     "VENDOR_ASSIGNED", "VENDOR_CHANGED", "VENDOR_REMOVED", "CLOSED",
     "SUGGESTION_ACCEPTED"}
Event(kind, vendor) == [kind |-> kind, vendor |-> vendor]

Init ==
    /\ exists = FALSE
    /\ row = Draft
    /\ contents = 0
    /\ audit = <<>>
    /\ pc = [c \in Call |-> "idle"]
    /\ op = [c \in Call |-> NoOperation]
    /\ snap = [c \in Call |-> Draft]
    /\ calls = 0
    /\ suggested = FALSE
    /\ overlapped = FALSE

-----------------------------------------------------------------------------
(* createPurchaseRequest: row, items and audit in one transaction. *)
Store(submit) ==
    /\ ~exists
    /\ exists' = TRUE
    /\ row' = [Draft EXCEPT !.status = IF submit THEN "PENDING_APPROVAL" ELSE "DRAFT"]
    /\ audit' = <<Event("CREATED", NoVendor)>>
                   \o (IF submit THEN <<Event("SUBMITTED", NoVendor)>> ELSE <<>>)
    /\ UNCHANGED <<contents, callVars, calls, overlapped>>

Create == UNCHANGED suggested /\ \E submit \in BOOLEAN : Store(submit)

(* createFromSuggestion: the request is submitted, and after its transaction
   the acceptance is logged, unless the process died. *)
CreateFromSuggestion == Store(TRUE) /\ suggested' = TRUE

LogSuggestion ==
    /\ suggested
    /\ suggested' = FALSE
    /\ audit' = Append(audit, Event("SUGGESTION_ACCEPTED", NoVendor))
    /\ UNCHANGED <<exists, row, contents, callVars, calls, overlapped>>

LoseSuggestion ==
    /\ suggested
    /\ suggested' = FALSE
    /\ UNCHANGED <<exists, row, contents, audit, callVars, calls, overlapped>>

(* assertStatusTransition. *)
Allowed ==
    {<<"DRAFT", "PENDING_APPROVAL">>,
     <<"PENDING_APPROVAL", "APPROVED">>, <<"PENDING_APPROVAL", "REJECTED">>,
     <<"APPROVED", "ASSIGNED_TO_VENDOR">>, <<"APPROVED", "CLOSED">>,
     <<"ASSIGNED_TO_VENDOR", "CLOSED">>, <<"ASSIGNED_TO_VENDOR", "APPROVED">>}

(* What each operation asks of the row it read. *)
Permitted(o, r) ==
    CASE o.kind = "update"  -> r.status \in {"DRAFT", "PENDING_APPROVAL"}
      [] o.kind = "approve" -> <<r.status, "APPROVED">> \in Allowed
      [] o.kind = "reject"  -> <<r.status, "REJECTED">> \in Allowed
      [] o.kind = "assign"  -> r.status \in {"APPROVED", "ASSIGNED_TO_VENDOR"}
      [] o.kind = "remove"  -> r.vendor # NoVendor
      [] o.kind = "close"   -> <<r.status, "CLOSED">> \in Allowed

(* The row as the operation wants it, given the row it read. *)
Patched_KeepsVendor(o, r) ==
    CASE o.kind = "update"  -> r
      [] o.kind = "approve" -> [r EXCEPT !.status = "APPROVED"]
      [] o.kind = "reject"  -> [r EXCEPT !.status = "REJECTED"]
      [] o.kind = "assign"  -> [r EXCEPT !.status = "ASSIGNED_TO_VENDOR", !.vendor = o.vendor]
      [] o.kind = "remove"  -> [r EXCEPT !.status = "APPROVED"]
      [] o.kind = "close"   -> [r EXCEPT !.status = "CLOSED"]

Patched(o, r) ==
    CASE o.kind = "update"  -> r
      [] o.kind = "approve" -> [r EXCEPT !.status = "APPROVED"]
      [] o.kind = "reject"  -> [r EXCEPT !.status = "REJECTED"]
      [] o.kind = "assign"  -> [r EXCEPT !.status = "ASSIGNED_TO_VENDOR", !.vendor = o.vendor]
      [] o.kind = "remove"  -> [r EXCEPT !.status = "APPROVED", !.vendor = NoVendor]
      [] o.kind = "close"   -> [r EXCEPT !.status = "CLOSED"]

EventOf_OperationName(o, r) == Event(o.kind, o.vendor)

EventOf(o, r) ==
    CASE o.kind = "update"  -> Event("UPDATED", NoVendor)
      [] o.kind = "approve" -> Event("APPROVED", NoVendor)
      [] o.kind = "reject"  -> Event("REJECTED", NoVendor)
      [] o.kind = "assign"  ->
            Event(IF r.vendor # NoVendor THEN "VENDOR_CHANGED" ELSE "VENDOR_ASSIGNED", o.vendor)
      [] o.kind = "remove"  -> Event("VENDOR_REMOVED", NoVendor)
      [] o.kind = "close"   -> Event("CLOSED", NoVendor)

ReadAndCheck(c, o) ==
    /\ exists
    /\ pc[c] = "idle"
    /\ calls < MaxCalls
    /\ Permitted(o, row)
    /\ pc' = [pc EXCEPT ![c] = "checked"]
    /\ op' = [op EXCEPT ![c] = o]
    /\ snap' = [snap EXCEPT ![c] = row]
    /\ calls' = calls + 1
    /\ overlapped' = (overlapped \/ \E d \in Call \ {c} : pc[d] # "idle")
    /\ UNCHANGED <<exists, row, contents, audit, suggested>>

(* row.update(patch): only the columns that differ from the row read. *)
UpdateRow_WholeRow(read, patched) == patched

UpdateRow(read, patched) ==
    [f \in {"status", "vendor"} |-> IF patched[f] = read[f] THEN row[f] ELSE patched[f]]

End(c) ==
    /\ pc' = [pc EXCEPT ![c] = "idle"]
    /\ op' = [op EXCEPT ![c] = NoOperation]
    /\ snap' = [snap EXCEPT ![c] = Draft]

Commit(c) ==
    /\ pc[c] = "checked"
    /\ row' = UpdateRow(snap[c], Patched(op[c], snap[c]))
    /\ contents' = IF op[c].kind = "update" THEN contents + 1 ELSE contents
    /\ audit' = Append(audit, EventOf(op[c], snap[c]))
    /\ End(c)
    /\ UNCHANGED <<exists, calls, suggested, overlapped>>

(* The vendor is unknown, the transaction is rolled back, the process dies. *)
Fail(c) ==
    /\ pc[c] = "checked"
    /\ End(c)
    /\ UNCHANGED <<exists, row, contents, audit, calls, suggested, overlapped>>

Next ==
    \/ Create
    \/ CreateFromSuggestion
    \/ LogSuggestion
    \/ LoseSuggestion
    \/ \E c \in Call :
        \/ \E o \in Operation : ReadAndCheck(c, o)
        \/ Commit(c)
        \/ Fail(c)

Spec == Init /\ [][Next]_vars

-----------------------------------------------------------------------------
TypeOK ==
    /\ exists \in BOOLEAN
    /\ row \in Row
    /\ contents \in Nat
    /\ \A n \in DOMAIN audit : audit[n] \in [kind : EventKind, vendor : Vendor \union {NoVendor}]
    /\ pc \in [Call -> {"idle", "checked"}]
    /\ op \in [Call -> Operation \union {NoOperation}]
    /\ snap \in [Call -> Row]
    /\ calls \in 0..MaxCalls
    /\ suggested \in BOOLEAN
    /\ overlapped \in BOOLEAN

Logged(kinds) == {n \in DOMAIN audit : audit[n].kind \in kinds}

(* A vendor is only ever named on a request an approver approved, whatever
   calls overlap. *)
VendorNeedsApproval == row.vendor # NoVendor => Logged({"APPROVED"}) # {}

(* An approval or a rejection is never taken back to an undecided state: no
   stale write returns a decided request to DRAFT or PENDING_APPROVAL. *)
DecisionStands ==
    [][Logged({"APPROVED", "REJECTED"}) # {} => row'.status \notin {"DRAFT", "PENDING_APPROVAL"}]_vars

(* The audit trail alone tells the row: replaying its events gives the status
   and the vendor, as long as calls do not overlap. *)
Replay(r, e) ==
    CASE e.kind \in {"CREATED", "UPDATED", "SUGGESTION_ACCEPTED"} -> r
      [] e.kind = "SUBMITTED" -> [r EXCEPT !.status = "PENDING_APPROVAL"]
      [] e.kind \in {"APPROVED", "REJECTED", "CLOSED"} -> [r EXCEPT !.status = e.kind]
      [] e.kind = "VENDOR_REMOVED" -> [status |-> "APPROVED", vendor |-> NoVendor]
      [] OTHER -> [status |-> "ASSIGNED_TO_VENDOR", vendor |-> e.vendor]

(* The row after the first n events of the trail s. *)
RowAfter(s, n) ==
    LET after[k \in 0..Len(s)] == IF k = 0 THEN Draft ELSE Replay(after[k - 1], s[k])
    IN  after[n]

AuditTellsTheRow == ~overlapped => row = RowAfter(audit, Len(audit))

=============================================================================
