---------------------------- MODULE Office_proofs ----------------------------
(***************************************************************************)
(* Proofs about what an owner does, for every instance: a purchase request *)
(* under any number of overlapping calls -- what was decided stays         *)
(* decided, a vendor is named on an approved request only, and the audit   *)
(* trail alone tells the row --, the connection to Zoho, the inventory     *)
(* files imported in the chat, the set-up on the web, the registers, the   *)
(* day book, the alerts with the orders begun from them, and the task      *)
(* given in plain words.                                                   *)
(***************************************************************************)
EXTENDS Office, SequenceTheorems, FiniteSetTheorems, WellFoundedInduction, TLAPS

Events == [kind : EventKind, vendor : Vendor \union {NoVendor}]

(* The audit is a sequence, of which TypeOK only tells the elements. *)
AuditTypes == audit \in Seq(Events)

(* An event of one of these kinds is in the trail. *)
Has(kinds) == \E n \in DOMAIN audit : audit[n].kind \in kinds

(* What a row says when its request was approved at some time. *)
WasApproved(r) ==
    r.status \in {"APPROVED", "ASSIGNED_TO_VENDOR", "CLOSED"} \/ r.vendor # NoVendor

(* The row, and every copy a call still holds, was approved only if the trail
   says so; the trail only grows, so a stale copy does no harm. *)
ApprovalLogged ==
    /\ WasApproved(row) => Has({"APPROVED"})
    /\ \A c \in Call : WasApproved(snap[c]) => Has({"APPROVED"})

(* A call that goes on found the request and was permitted on the copy it read. *)
CheckedIsPermitted ==
    \A c \in Call :
        pc[c] = "checked" => exists /\ op[c] \in Operation /\ Permitted(op[c], snap[c])

(* A request that was decided does not say it is undecided. *)
DecidedRow == Has({"APPROVED", "REJECTED"}) => row.status \notin {"DRAFT", "PENDING_APPROVAL"}

(* Before it is created there is no row and no trail. *)
NothingYet == ~exists => audit = <<>> /\ row = Draft /\ suggested = FALSE

IInv ==
    /\ TypeOK
    /\ AuditTypes
    /\ ApprovalLogged
    /\ CheckedIsPermitted
    /\ DecidedRow
    /\ NothingYet

-----------------------------------------------------------------------------
LEMMA LoggedHas == \A kinds : Logged(kinds) # {} <=> Has(kinds)
  BY DEF Logged, Has

(* Appending an event adds its kind to the trail and takes none away. *)
LEMMA AppendHas ==
  ASSUME NEW e \in Events, AuditTypes, audit' = Append(audit, e)
  PROVE  /\ AuditTypes'
         /\ \A kinds : Has(kinds)' <=> Has(kinds) \/ e.kind \in kinds
<1>1. AuditTypes'
  BY DEF AuditTypes
<1>2. /\ DOMAIN audit = 1..Len(audit) /\ Len(audit) \in Nat
      /\ DOMAIN audit' = 1..(Len(audit) + 1)
      /\ \A n \in DOMAIN audit : audit'[n] = audit[n]
      /\ audit'[Len(audit) + 1] = e
  BY DEF AuditTypes
<1>3. ASSUME NEW kinds
      PROVE  Has(kinds)' <=> Has(kinds) \/ e.kind \in kinds
  BY <1>2 DEF Has
<1> QED
  BY <1>1, <1>3

(* No step takes an event from the trail. *)
LEMMA TrailGrows ==
  ASSUME AuditTypes, NothingYet, [Next]_vars, NEW n \in DOMAIN audit
  PROVE  n \in DOMAIN audit' /\ audit'[n] = audit[n]
<1>1. ASSUME NEW e, audit' = Append(audit, e)
      PROVE  n \in DOMAIN audit' /\ audit'[n] = audit[n]
  BY <1>1 DEF AuditTypes
<1>2. exists
  BY DEF NothingYet
<1>3. CASE LogSuggestion
  BY <1>1, <1>3 DEF LogSuggestion
<1>4. ASSUME NEW c \in Call, Commit(c)
      PROVE  n \in DOMAIN audit' /\ audit'[n] = audit[n]
  BY <1>1, <1>4 DEF Commit
<1> QED
  BY <1>2, <1>3, <1>4 DEF Next, Create, CreateFromSuggestion, Store, LoseSuggestion, ReadAndCheck, Fail, vars

(* What is permitted, seen from the status and the vendor that were read. *)
LEMMA PatchedRow ==
  ASSUME NEW o \in Operation, NEW r \in Row, Permitted(o, r)
  PROVE  /\ Patched(o, r) \in Row
         /\ EventOf(o, r) \in Events
         /\ o.kind = "update" => Patched(o, r) = r
         /\ o.kind # "update" => Patched(o, r).status \notin {"DRAFT", "PENDING_APPROVAL"}
         /\ EventOf(o, r).kind \in {"APPROVED", "REJECTED"} => Patched(o, r).status # r.status
         /\ WasApproved(Patched(o, r)) => WasApproved(r) \/ EventOf(o, r).kind = "APPROVED"
<1> USE PurchaseAssumption
<1>1. CASE o.kind = "update"
  BY <1>1 DEF Operation, Row, Status, Permitted, Patched, EventOf, Event, Events, EventKind, WasApproved
<1>2. CASE o.kind = "approve"
  BY <1>2 DEF Operation, Row, Status, Permitted, Allowed, Patched, EventOf, Event, Events, EventKind,
     WasApproved
<1>3. CASE o.kind = "reject"
  BY <1>3 DEF Operation, Row, Status, Permitted, Allowed, Patched, EventOf, Event, Events, EventKind,
     WasApproved
<1>4. CASE o.kind = "assign"
  BY <1>4 DEF Operation, Row, Status, Permitted, Patched, EventOf, Event, Events, EventKind, WasApproved
<1>5. CASE o.kind = "remove"
  BY <1>5 DEF Operation, Row, Status, Permitted, Patched, EventOf, Event, Events, EventKind, WasApproved
<1>6. CASE o.kind = "close"
  BY <1>6 DEF Operation, Row, Status, Permitted, Allowed, Patched, EventOf, Event, Events, EventKind,
     WasApproved
<1> QED
  BY <1>1, <1>2, <1>3, <1>4, <1>5, <1>6 DEF Operation

(* Only what the call changed is written, so the row stays a row, keeps what it
   says unless the call says otherwise, and says nothing third. *)
LEMMA WrittenRow ==
  ASSUME NEW before \in Row, NEW patched \in Row, row \in Row
  PROVE  LET new == UpdateRow(before, patched)
         IN  /\ new \in Row
             /\ new.status \in {row.status, patched.status}
             /\ new.vendor \in {row.vendor, patched.vendor}
             /\ patched.status # before.status => new.status = patched.status
             /\ patched = before => new = row
             /\ WasApproved(new) => WasApproved(row) \/ WasApproved(patched)
  BY DEF UpdateRow, Row, WasApproved

-----------------------------------------------------------------------------
LEMMA InitIInv == Init => IInv
<1> SUFFICES ASSUME Init PROVE IInv
  OBVIOUS
<1> USE PurchaseAssumption DEF Init
<1>1. Draft \in Row
  BY DEF Draft, Row, Status
<1>2. audit = <<>> /\ AuditTypes
  BY DEF AuditTypes
<1>5. TypeOK
  <2>1. exists \in BOOLEAN /\ suggested \in BOOLEAN /\ overlapped \in BOOLEAN
    OBVIOUS
  <2>2. row \in Row /\ snap \in [Call -> Row]
    BY <1>1
  <2>3. pc \in [Call -> {"idle", "checked"}] /\ op \in [Call -> Operation \union {NoOperation}]
    OBVIOUS
  <2>4. contents \in Nat /\ calls \in 0..MaxCalls
    OBVIOUS
  <2>5. \A n \in DOMAIN audit : audit[n] \in [kind : EventKind, vendor : Vendor \union {NoVendor}]
    BY <1>2
  <2> QED
    BY <2>1, <2>2, <2>3, <2>4, <2>5 DEF TypeOK
<1>3. ~WasApproved(Draft)
  BY DEF WasApproved, Draft
<1>4. \A kinds : ~Has(kinds)
  BY DEF Has
<1> QED
  BY <1>2, <1>3, <1>4, <1>5 DEF IInv, ApprovalLogged, CheckedIsPermitted, DecidedRow, NothingYet

(* Creation, plainly or from a suggestion. *)
LEMMA StoreIInv ==
  ASSUME IInv, NEW submit \in BOOLEAN, Store(submit), suggested' \in BOOLEAN
  PROVE  IInv'
<1> USE PurchaseAssumption DEF Store, IInv
<1>1. /\ row' \in Row /\ ~WasApproved(row')
      /\ row' = [Draft EXCEPT !.status = row'.status]
  BY DEF Draft, Row, Status, WasApproved
<1>2. AuditTypes' /\ \A n \in DOMAIN audit' : audit'[n] \in Events
      /\ audit'[n].kind \in {"CREATED", "SUBMITTED"}
  <2> DEFINE a == Event("CREATED", NoVendor)
             b == Event("SUBMITTED", NoVendor)
  <2>1. a \in Events /\ b \in Events /\ a.kind = "CREATED" /\ b.kind = "SUBMITTED"
    BY DEF Event, Events, EventKind
  <2> DEFINE rest == IF submit THEN <<b>> ELSE <<>>
  <2>2. audit' = <<a>> \o rest
    OBVIOUS
  <2> HIDE DEF a, b, Store, IInv
  <2>3. <<a>> \in Seq(Events) /\ rest \in Seq(Events)
    BY <2>1
  <2>4. /\ Len(<<a>>) = 1 /\ <<a>>[1] = a
        /\ Len(rest) \in 0..1 /\ \A i \in 1..Len(rest) : rest[i] = b
    OBVIOUS
  <2> HIDE DEF rest
  <2>5. /\ audit' \in Seq(Events) /\ Len(audit') = 1 + Len(rest)
        /\ \A i \in 1..(1 + Len(rest)) : audit'[i] = IF i <= 1 THEN <<a>>[i] ELSE rest[i - 1]
    BY <2>2, <2>3, <2>4, ConcatProperties
  <2>6. \A i \in DOMAIN audit' : audit'[i] \in {a, b}
    BY <2>4, <2>5
  <2> QED
    BY <2>1, <2>5, <2>6 DEF AuditTypes
<1>3. ~Has({"APPROVED", "REJECTED"})'
  BY <1>2 DEF Has
<1>4. TypeOK'
  BY <1>1, <1>2 DEF TypeOK, callVars, Events
<1>5. \A c \in Call : ~WasApproved(snap[c])
  <2>1. ~Has({"APPROVED"})
    BY DEF NothingYet, Has
  <2> QED
    BY <2>1 DEF ApprovalLogged
<1> QED
  BY <1>1, <1>2, <1>3, <1>4, <1>5 DEF ApprovalLogged, CheckedIsPermitted, DecidedRow, NothingYet, callVars

(* A call that ends leaves nothing of itself behind. *)
LEMMA EndedCall ==
  ASSUME TypeOK, NEW c \in Call, End(c)
  PROVE  /\ pc' \in [Call -> {"idle", "checked"}]
         /\ op' \in [Call -> Operation \union {NoOperation}]
         /\ snap' \in [Call -> Row]
         /\ pc'[c] = "idle" /\ snap'[c] = Draft
         /\ \A d \in Call \ {c} : pc'[d] = pc[d] /\ op'[d] = op[d] /\ snap'[d] = snap[d]
<1>1. Draft \in Row
  BY DEF Draft, Row, Status
<1> QED
  BY <1>1 DEF TypeOK, End

(* Every step keeps the inductive invariant. *)
LEMMA NextIInv == IInv /\ [Next]_vars => IInv'
<1> SUFFICES ASSUME IInv, [Next]_vars PROVE IInv'
  OBVIOUS
<1> USE PurchaseAssumption
<1>0. ~WasApproved(Draft)
  BY DEF WasApproved, Draft
<1>1. CASE Create
  BY <1>1, StoreIInv DEF Create, IInv, TypeOK
<1>2. CASE CreateFromSuggestion
  BY <1>2, StoreIInv DEF CreateFromSuggestion
<1>3. CASE LogSuggestion
  <2> DEFINE e == Event("SUGGESTION_ACCEPTED", NoVendor)
  <2>1. e \in Events /\ e.kind = "SUGGESTION_ACCEPTED"
    BY DEF Event, Events, EventKind
  <2>2. AuditTypes' /\ \A kinds : Has(kinds)' <=> Has(kinds) \/ e.kind \in kinds
    BY <1>3, <2>1, AppendHas DEF LogSuggestion, IInv
  <2>3. Has({"APPROVED"})' <=> Has({"APPROVED"})
    BY <2>1, <2>2
  <2>4. Has({"APPROVED", "REJECTED"})' <=> Has({"APPROVED", "REJECTED"})
    BY <2>1, <2>2
  <2>5. TypeOK'
    <3>1. \A n \in DOMAIN audit' : audit'[n] \in Events
      BY <2>2 DEF AuditTypes
    <3> QED
      BY <1>3, <3>1 DEF LogSuggestion, IInv, TypeOK, Events, callVars
  <2>6. exists
    BY <1>3 DEF LogSuggestion, IInv, NothingYet
  <2> QED
    BY <1>3, <2>2, <2>3, <2>4, <2>5, <2>6
    DEF LogSuggestion, IInv, ApprovalLogged, CheckedIsPermitted, DecidedRow, NothingYet, callVars
<1>4. CASE LoseSuggestion
  BY <1>4 DEF LoseSuggestion, IInv, TypeOK, AuditTypes, Has, ApprovalLogged, CheckedIsPermitted,
              DecidedRow, NothingYet, callVars
<1>5. ASSUME NEW c \in Call, NEW o \in Operation, ReadAndCheck(c, o)
      PROVE  IInv'
  <2>1. TypeOK'
    BY <1>5 DEF ReadAndCheck, IInv, TypeOK
  <2>2. AuditTypes' /\ DecidedRow' /\ NothingYet'
    BY <1>5 DEF ReadAndCheck, IInv, AuditTypes, DecidedRow, Has, NothingYet
  <2>3. ApprovalLogged'
    BY <1>5 DEF ReadAndCheck, IInv, ApprovalLogged, Has, TypeOK
  <2>4. CheckedIsPermitted'
    BY <1>5 DEF ReadAndCheck, IInv, CheckedIsPermitted, TypeOK
  <2> QED
    BY <2>1, <2>2, <2>3, <2>4 DEF IInv
<1>6. ASSUME NEW c \in Call, Commit(c)
      PROVE  IInv'
  <2> DEFINE patched == Patched(op[c], snap[c])
             e == EventOf(op[c], snap[c])
  <2>1. op[c] \in Operation /\ Permitted(op[c], snap[c]) /\ snap[c] \in Row /\ row \in Row
    BY <1>6 DEF Commit, IInv, CheckedIsPermitted, TypeOK
  <2>2. /\ patched \in Row /\ e \in Events
        /\ op[c].kind = "update" => patched = snap[c]
        /\ op[c].kind # "update" => patched.status \notin {"DRAFT", "PENDING_APPROVAL"}
        /\ e.kind \in {"APPROVED", "REJECTED"} => patched.status # snap[c].status
        /\ WasApproved(patched) => WasApproved(snap[c]) \/ e.kind = "APPROVED"
    BY <2>1, PatchedRow
  <2>3. AuditTypes' /\ \A kinds : Has(kinds)' <=> Has(kinds) \/ e.kind \in kinds
    BY <1>6, <2>2, AppendHas DEF Commit, IInv
  <2>4. /\ row' \in Row
        /\ row'.status \in {row.status, patched.status}
        /\ patched.status # snap[c].status => row'.status = patched.status
        /\ patched = snap[c] => row' = row
        /\ WasApproved(row') => WasApproved(row) \/ WasApproved(patched)
    BY <1>6, <2>1, <2>2, WrittenRow DEF Commit
  <2>5. /\ pc' \in [Call -> {"idle", "checked"}]
        /\ op' \in [Call -> Operation \union {NoOperation}]
        /\ snap' \in [Call -> Row]
        /\ pc'[c] = "idle" /\ snap'[c] = Draft
        /\ \A d \in Call \ {c} : pc'[d] = pc[d] /\ op'[d] = op[d] /\ snap'[d] = snap[d]
    BY <1>6, EndedCall DEF Commit, IInv
  <2>6. exists /\ exists'
    BY <1>6 DEF Commit, IInv, CheckedIsPermitted
  <2>7. TypeOK'
    BY <1>6, <2>3, <2>4, <2>5 DEF Commit, IInv, TypeOK, AuditTypes, Events
  <2>8. ApprovalLogged'
    BY <1>0, <2>2, <2>3, <2>4, <2>5 DEF IInv, ApprovalLogged
  <2>9. CheckedIsPermitted'
    BY <2>5, <2>6 DEF IInv, CheckedIsPermitted
  <2>10. DecidedRow'
    BY <2>2, <2>3, <2>4 DEF IInv, DecidedRow
  <2> QED
    BY <2>3, <2>6, <2>7, <2>8, <2>9, <2>10 DEF IInv, NothingYet
<1>7. ASSUME NEW c \in Call, Fail(c)
      PROVE  IInv'
  <2>1. /\ pc' \in [Call -> {"idle", "checked"}]
        /\ op' \in [Call -> Operation \union {NoOperation}]
        /\ snap' \in [Call -> Row]
        /\ pc'[c] = "idle" /\ snap'[c] = Draft
        /\ \A d \in Call \ {c} : pc'[d] = pc[d] /\ op'[d] = op[d] /\ snap'[d] = snap[d]
    BY <1>7, EndedCall DEF Fail, IInv
  <2>2. TypeOK'
    BY <1>7, <2>1 DEF Fail, IInv, TypeOK
  <2>3. AuditTypes' /\ DecidedRow' /\ NothingYet'
    BY <1>7 DEF Fail, IInv, AuditTypes, DecidedRow, Has, NothingYet
  <2>4. ApprovalLogged'
    BY <1>0, <1>7, <2>1 DEF Fail, IInv, ApprovalLogged, Has
  <2>5. CheckedIsPermitted'
    BY <1>7, <2>1 DEF Fail, IInv, CheckedIsPermitted
  <2> QED
    BY <2>2, <2>3, <2>4, <2>5 DEF IInv
<1>8. CASE UNCHANGED vars
  BY <1>8 DEF vars, callVars, IInv, TypeOK, AuditTypes, Has, ApprovalLogged, CheckedIsPermitted,
              DecidedRow, NothingYet
<1> QED
  BY <1>1, <1>2, <1>3, <1>4, <1>5, <1>6, <1>7, <1>8 DEF Next

-----------------------------------------------------------------------------
LEMMA SpecIInv == Spec => []IInv
  BY InitIInv, NextIInv, PTL DEF Spec

(* The status is one of the six, and every event of the trail one of the ten. *)
THEOREM RequestTypes == Spec => []TypeOK
  BY SpecIInv, PTL DEF IInv

(* A vendor is only ever named on a request that somebody approved, whatever
   calls overlap (assignVendor, removeVendor). *)
THEOREM RequestVendor == Spec => []VendorNeedsApproval
<1>1. IInv => VendorNeedsApproval
  BY LoggedHas DEF IInv, ApprovalLogged, WasApproved, VendorNeedsApproval
<1> QED
  BY <1>1, SpecIInv, PTL

(* No stale write returns a decided request to an undecided state
   (updatePurchaseRequest, approvePurchaseRequest, rejectPurchaseRequest). *)
THEOREM RequestDecision == Spec => DecisionStands
<1> DEFINE Stands == Logged({"APPROVED", "REJECTED"}) # {}
                        => row'.status \notin {"DRAFT", "PENDING_APPROVAL"}
<1>1. IInv /\ IInv' /\ [Next]_vars => [Stands]_vars
  <2> SUFFICES ASSUME IInv, IInv', [Next]_vars, Has({"APPROVED", "REJECTED"})
               PROVE  row'.status \notin {"DRAFT", "PENDING_APPROVAL"}
    BY LoggedHas
  <2>1. Has({"APPROVED", "REJECTED"})'
    BY TrailGrows DEF IInv, Has
  <2> QED
    BY <2>1 DEF IInv, DecidedRow
<1> QED
  BY <1>1, SpecIInv, PTL DEF Spec, DecisionStands

-----------------------------------------------------------------------------
(* A set that holds 0, and the successor of each number below n it holds, holds
   all of 0..n: induction over the naturals, from the well-founded order of the
   finite sets 1..k. *)
LEMMA CountUp ==
    ASSUME NEW n \in Nat, NEW S, 0 \in S, \A k \in 0..(n - 1) : k \in S => k + 1 \in S
    PROVE  0..n \subseteq S
<1> SUFFICES ASSUME NEW m \in 0..n, m \notin S PROVE FALSE
  OBVIOUS
<1> DEFINE Missing == {k \in 0..n : k \notin S}
          Intervals == {1..k : k \in Missing}
<1>1. IsWellFoundedOn(StrictSubsetOrdering(1..n), SUBSET (1..n))
  <2>1. IsFiniteSet(1..n)
    BY FS_Interval
  <2>2. FiniteSubsetsOf(1..n) = SUBSET (1..n)
    BY <2>1, FS_FiniteSubsetsOfFinite
  <2> QED
    BY <2>2, FS_StrictSubsetOrderingWellFounded
<1>2. Intervals \subseteq SUBSET (1..n)
  OBVIOUS
<1>3. 1..m \in Intervals
  OBVIOUS
<1>4. \E d \in Intervals : \A e \in Intervals : <<e, d>> \notin StrictSubsetOrdering(1..n)
  <2> HIDE DEF Intervals
  <2> QED
    BY <1>1, <1>2, <1>3, WFMin
<1>5. PICK k \in Missing : \A e \in Intervals : <<e, 1..k>> \notin StrictSubsetOrdering(1..n)
  BY <1>4
<1>6. k \in 1..n /\ k - 1 \in Missing
  OBVIOUS
<1>7. <<1..(k - 1), 1..k>> \in StrictSubsetOrdering(1..n)
  <2>1. 1..(k - 1) \subseteq 1..k /\ k \in 1..k /\ k \notin 1..(k - 1) /\ 1..k \subseteq 1..n
    BY <1>6
  <2> QED
    BY <2>1 DEF StrictSubsetOrdering
<1>8. 1..(k - 1) \in Intervals
  BY <1>6
<1> QED
  BY <1>5, <1>7, <1>8

(* RowAfter(s, n) replays one event more than RowAfter(s, n - 1). *)
Replays(s) ==
    /\ RowAfter(s, 0) = Draft
    /\ \A n \in 1..Len(s) : RowAfter(s, n) = Replay(RowAfter(s, n - 1), s[n])

(* It does: the recursion has a solution, and CHOOSE takes it. *)
LEMMA RowAfterSteps ==
    ASSUME NEW s \in Seq(Events)
    PROVE  Replays(s)
<1> DEFINE Solves(f, m) == f = [k \in 0..m |-> IF k = 0 THEN Draft ELSE Replay(f[k - 1], s[k])]
           Solvable == {m \in 0..Len(s) : \E f : Solves(f, m)}
<1>1. Len(s) \in Nat
  BY LenProperties
<1>2. 0 \in Solvable
  <2> DEFINE f == [k \in 0..0 |-> Draft]
  <2>1. Solves(f, 0)
    OBVIOUS
  <2> HIDE DEF f, Solves
  <2> QED
    BY <1>1, <2>1
<1>3. ASSUME NEW m \in 0..(Len(s) - 1), m \in Solvable PROVE m + 1 \in Solvable
  <2>1. PICK f : Solves(f, m)
    BY <1>3
  <2> DEFINE last == Replay(f[m], s[m + 1])
             g == [k \in 0..(m + 1) |-> IF k = m + 1 THEN last ELSE f[k]]
  <2>2. Solves(g, m + 1)
    <3>1. \A k \in 0..m : f[k] = IF k = 0 THEN Draft ELSE Replay(f[k - 1], s[k])
      BY <2>1
    <3>2. \A k \in 0..(m + 1) : g[k] = IF k = 0 THEN Draft ELSE Replay(g[k - 1], s[k])
      <4> SUFFICES ASSUME NEW k \in 0..(m + 1)
                   PROVE  g[k] = IF k = 0 THEN Draft ELSE Replay(g[k - 1], s[k])
        OBVIOUS
      <4>1. CASE k = 0
        <5>1. g[0] = f[0] /\ f[0] = Draft
          BY <1>1, <3>1
        <5> QED
          BY <4>1, <5>1
      <4>2. CASE k = m + 1
        <5>1. g[k - 1] = f[m] /\ g[k] = last /\ k # 0
          BY <1>1, <4>2
        <5> QED
          BY <4>2, <5>1
      <4>3. CASE k \in 1..m
        <5>1. g[k - 1] = f[k - 1] /\ g[k] = f[k] /\ k # 0 /\ k \in 0..m
          BY <1>1, <4>3
        <5> QED
          BY <3>1, <5>1
      <4> QED
        BY <1>1, <4>1, <4>2, <4>3
    <3> HIDE DEF last
    <3> QED
      BY <3>2
  <2> HIDE DEF g, Solves
  <2> QED
    BY <1>1, <2>2
<1>4. Len(s) \in Solvable
  <2> HIDE DEF Solvable
  <2>1. 0..Len(s) \subseteq Solvable
    BY <1>1, <1>2, <1>3, CountUp
  <2> QED
    BY <1>1, <2>1
<1> DEFINE after == CHOOSE f : Solves(f, Len(s))
<1>5. Solves(after, Len(s))
  <2>1. PICK f : Solves(f, Len(s))
    BY <1>4
  <2> HIDE DEF Solves
  <2> QED
    BY <2>1
<1>6. \A n : RowAfter(s, n) = after[n]
  BY DEF RowAfter
<1> HIDE DEF after
<1>7. \A n \in 0..Len(s) : after[n] = IF n = 0 THEN Draft ELSE Replay(after[n - 1], s[n])
  BY <1>5
<1>8. after[0] = Draft
  BY <1>1, <1>7
<1>9. \A n \in 1..Len(s) : after[n] = Replay(after[n - 1], s[n])
  <2> SUFFICES ASSUME NEW n \in 1..Len(s) PROVE after[n] = Replay(after[n - 1], s[n])
    OBVIOUS
  <2>1. n \in 0..Len(s) /\ n # 0
    BY <1>1
  <2> QED
    BY <1>7, <2>1
<1> QED
  BY <1>6, <1>8, <1>9 DEF Replays

(* One more event in the trail is one more event replayed. *)
LEMMA RowAfterAppend ==
    ASSUME NEW s \in Seq(Events), NEW e \in Events
    PROVE  RowAfter(Append(s, e), Len(Append(s, e))) = Replay(RowAfter(s, Len(s)), e)
<1> DEFINE t == Append(s, e)
<1>1. Len(s) \in Nat
  BY LenProperties
<1>2. t \in Seq(Events) /\ Len(t) = Len(s) + 1 /\ t[Len(s) + 1] = e /\ \A n \in 1..Len(s) : t[n] = s[n]
  BY <1>1, AppendProperties
<1> HIDE DEF t
<1>3. Replays(s) /\ Replays(t)
  BY <1>2, RowAfterSteps
<1>4. RowAfter(t, Len(s)) = RowAfter(s, Len(s))
  <2> DEFINE Same == {n \in 0..Len(s) : RowAfter(t, n) = RowAfter(s, n)}
  <2>1. 0 \in Same
    BY <1>1, <1>3 DEF Replays
  <2>2. ASSUME NEW k \in 0..(Len(s) - 1), k \in Same PROVE k + 1 \in Same
    <3>1. k + 1 \in 1..Len(s) /\ k + 1 \in 1..Len(t) /\ (k + 1) - 1 = k /\ k + 1 \in 0..Len(s)
      BY <1>1, <1>2
    <3>2. RowAfter(t, k + 1) = Replay(RowAfter(t, k), t[k + 1])
      BY <1>3, <3>1 DEF Replays
    <3>3. RowAfter(s, k + 1) = Replay(RowAfter(s, k), s[k + 1])
      BY <1>3, <3>1 DEF Replays
    <3>4. t[k + 1] = s[k + 1] /\ RowAfter(t, k) = RowAfter(s, k)
      BY <1>2, <2>2, <3>1
    <3>5. RowAfter(t, k + 1) = RowAfter(s, k + 1)
      BY ONLY <3>2, <3>3, <3>4, Zenon
    <3> QED
      BY <3>1, <3>5
  <2>3. 0..Len(s) \subseteq Same
    <3> HIDE DEF Same
    <3> QED
      BY <1>1, <2>1, <2>2, CountUp
  <2> QED
    BY <1>1, <2>3
<1>5. Len(t) \in 1..Len(t) /\ Len(t) - 1 = Len(s)
  BY <1>1, <1>2
<1>6. RowAfter(t, Len(t)) = Replay(RowAfter(t, Len(t) - 1), t[Len(t)])
  BY <1>3, <1>5 DEF Replays
<1>7. t[Len(t)] = e
  BY <1>2
<1>8. RowAfter(t, Len(t)) = Replay(RowAfter(s, Len(s)), e)
  BY ONLY <1>4, <1>5, <1>6, <1>7
<1> QED
  BY <1>8 DEF t

(* The trail of a new request. *)
LEMMA RowAfterCreation ==
    /\ RowAfter(<<>>, 0) = Draft
    /\ LET s == <<Event("CREATED", NoVendor)>> \o <<>>
       IN  RowAfter(s, Len(s)) = Draft
    /\ LET s == <<Event("CREATED", NoVendor)>> \o <<Event("SUBMITTED", NoVendor)>>
       IN  RowAfter(s, Len(s)) = [Draft EXCEPT !.status = "PENDING_APPROVAL"]
<1> DEFINE a == Event("CREATED", NoVendor)
           b == Event("SUBMITTED", NoVendor)
<1>1. a \in Events /\ b \in Events
  BY DEF Event, Events, EventKind
<1>2. Replay(Draft, a) = Draft /\ Replay(Draft, b) = [Draft EXCEPT !.status = "PENDING_APPROVAL"]
  BY DEF Event, Replay
<1> HIDE DEF a, b
<1>3. <<>> \in Seq(Events) /\ Len(<<>>) = 0 /\ Append(<<>>, a) = <<a>>
  OBVIOUS
<1>4. RowAfter(<<>>, 0) = Draft
  BY <1>3, RowAfterSteps DEF Replays
<1>5. <<a>> \in Seq(Events) /\ Len(<<a>>) = 1
  BY <1>1
<1>6. RowAfter(<<a>>, Len(<<a>>)) = Draft
  <2>1. RowAfter(Append(<<>>, a), Len(Append(<<>>, a))) = Replay(RowAfter(<<>>, Len(<<>>)), a)
    BY <1>1, <1>3, RowAfterAppend
  <2> QED
    BY <1>2, <1>3, <1>4, <2>1
<1>7. RowAfter(Append(<<a>>, b), Len(Append(<<a>>, b))) = [Draft EXCEPT !.status = "PENDING_APPROVAL"]
  <2>1. RowAfter(Append(<<a>>, b), Len(Append(<<a>>, b))) = Replay(RowAfter(<<a>>, Len(<<a>>)), b)
    BY <1>1, <1>5, RowAfterAppend
  <2> QED
    BY <1>2, <1>5, <1>6, <2>1
<1>8. <<a>> \o <<>> = <<a>> /\ <<a>> \o <<b>> = Append(<<a>>, b)
  BY <1>1, <1>5, ConcatEmptySeq, AppendIsConcat
<1> QED
  BY <1>4, <1>6, <1>7, <1>8 DEF a, b

(* What the event of a call says is what the call writes. *)
LEMMA ReplayedIsWritten ==
    ASSUME NEW o \in Operation, row \in Row, Permitted(o, row)
    PROVE  Replay(row, EventOf(o, row)) = UpdateRow(row, Patched(o, row))
<1> USE PurchaseAssumption
<1> DEFINE e == EventOf(o, row)
           p == Patched(o, row)
<1>0. \A p0 \in Row : UpdateRow(row, p0) = p0
  BY DEF UpdateRow, Row
<1>1. p \in Row
  BY PatchedRow
<1>2. UpdateRow(row, p) = p
  BY <1>0, <1>1
<1>3. Replay(row, e) = p
  <2>1. CASE o.kind = "update"
    BY <2>1 DEF Operation, Patched, EventOf, Event, Replay
  <2>2. CASE o.kind = "approve"
    BY <2>2 DEF Operation, Patched, EventOf, Event, Replay
  <2>3. CASE o.kind = "reject"
    BY <2>3 DEF Operation, Patched, EventOf, Event, Replay
  <2>4. CASE o.kind = "assign"
    BY <2>4 DEF Operation, Patched, EventOf, Event, Replay, Row
  <2>5. CASE o.kind = "remove"
    BY <2>5 DEF Operation, Patched, EventOf, Event, Replay, Row
  <2>6. CASE o.kind = "close"
    BY <2>6 DEF Operation, Patched, EventOf, Event, Replay
  <2> QED
    BY <2>1, <2>2, <2>3, <2>4, <2>5, <2>6 DEF Operation
<1> QED
  BY <1>2, <1>3

(* Without overlaps a call that checked is the only one under way, and the row
   is still the one it read; the trail tells it. *)
AuditIInv ==
    /\ \A c \in Call : ~overlapped /\ pc[c] = "checked" =>
          snap[c] = row /\ \A d \in Call \ {c} : pc[d] = "idle"
    /\ AuditTellsTheRow

LEMMA InitAudit == Init => AuditIInv
<1> SUFFICES ASSUME Init PROVE AuditIInv
  OBVIOUS
<1>1. audit = <<>> /\ Len(audit) = 0 /\ row = Draft
  BY DEF Init
<1>2. AuditTellsTheRow
  BY <1>1, RowAfterCreation DEF AuditTellsTheRow
<1> QED
  BY <1>2 DEF AuditIInv, Init

LEMMA StoreAudit ==
  ASSUME IInv, AuditIInv, NEW submit \in BOOLEAN, Store(submit)
  PROVE  AuditIInv'
<1>1. row' = RowAfter(audit', Len(audit'))
  <2>1. CASE submit
    BY <2>1, RowAfterCreation DEF Store
  <2>2. CASE ~submit
    <3>1. row' = Draft
      BY <2>2 DEF Store, Draft
    <3> QED
      BY <2>2, <3>1, RowAfterCreation DEF Store
  <2> QED
    BY <2>1, <2>2
<1>2. \A c \in Call : pc[c] # "checked"
  BY DEF Store, IInv, CheckedIsPermitted
<1>3. pc' = pc
  BY DEF Store, callVars
<1> QED
  BY <1>1, <1>2, <1>3 DEF AuditIInv, AuditTellsTheRow

(* Every step keeps the trail telling the row. *)
LEMMA NextAudit == IInv /\ AuditIInv /\ [Next]_vars => AuditIInv'
<1> SUFFICES ASSUME IInv, AuditIInv, [Next]_vars PROVE AuditIInv'
  OBVIOUS
<1>0. audit \in Seq(Events)
  BY DEF IInv, AuditTypes
<1>1. CASE Create
  BY <1>1, StoreAudit DEF Create
<1>2. CASE CreateFromSuggestion
  BY <1>2, StoreAudit DEF CreateFromSuggestion
<1>3. CASE LogSuggestion
  <2> DEFINE e == Event("SUGGESTION_ACCEPTED", NoVendor)
  <2>1. e \in Events /\ \A r : Replay(r, e) = r
    BY DEF Event, Events, EventKind, Replay
  <2>2. audit' = Append(audit, e)
    BY <1>3 DEF LogSuggestion
  <2> HIDE DEF e
  <2>3. RowAfter(audit', Len(audit')) = RowAfter(audit, Len(audit))
    BY <1>0, <2>1, <2>2, RowAfterAppend
  <2>4. UNCHANGED <<row, pc, snap, overlapped>>
    BY <1>3 DEF LogSuggestion, callVars
  <2> QED
    BY <2>3, <2>4 DEF AuditIInv, AuditTellsTheRow
<1>4. CASE LoseSuggestion
  BY <1>4 DEF LoseSuggestion, callVars, AuditIInv, AuditTellsTheRow
<1>5. ASSUME NEW c \in Call, NEW o \in Operation, ReadAndCheck(c, o)
      PROVE  AuditIInv'
  <2>1. AuditTellsTheRow'
    BY <1>5 DEF ReadAndCheck, AuditIInv, AuditTellsTheRow
  <2>2. ASSUME NEW d \in Call, ~overlapped', pc'[d] = "checked"
        PROVE  snap'[d] = row' /\ \A d0 \in Call \ {d} : pc'[d0] = "idle"
    <3>1. \A d0 \in Call \ {c} : pc[d0] = "idle" /\ pc'[d0] = pc[d0]
      BY <1>5, <2>2 DEF ReadAndCheck, IInv, TypeOK
    <3>2. d = c
      BY <2>2, <3>1
    <3>3. snap'[c] = row' 
      BY <1>5 DEF ReadAndCheck, IInv, TypeOK
    <3> QED
      BY <3>1, <3>2, <3>3
  <2> QED
    BY <2>1, <2>2 DEF AuditIInv
<1>6. ASSUME NEW c \in Call, Commit(c)
      PROVE  AuditIInv'
  <2>1. pc[c] = "checked" /\ overlapped' = overlapped
    BY <1>6 DEF Commit
  <2>2. op[c] \in Operation /\ Permitted(op[c], snap[c]) /\ snap[c] \in Row /\ row \in Row
    BY <2>1 DEF IInv, CheckedIsPermitted, TypeOK
  <2>3. EventOf(op[c], snap[c]) \in Events
    BY <2>2, PatchedRow
  <2>4. /\ pc' \in [Call -> {"idle", "checked"}]
        /\ pc'[c] = "idle"
        /\ \A d \in Call \ {c} : pc'[d] = pc[d]
    BY <1>6, EndedCall DEF Commit, IInv
  <2>5. ASSUME ~overlapped'
        PROVE  row' = RowAfter(audit', Len(audit')) /\ \A d \in Call : pc'[d] = "idle"
    <3>1. snap[c] = row /\ \A d \in Call \ {c} : pc[d] = "idle"
      BY <2>1, <2>5 DEF AuditIInv
    <3>2. row = RowAfter(audit, Len(audit))
      BY <2>1, <2>5 DEF AuditIInv, AuditTellsTheRow
    <3>3. row' = UpdateRow(row, Patched(op[c], row)) /\ audit' = Append(audit, EventOf(op[c], row))
      BY <1>6, <3>1 DEF Commit
    <3>4. Replay(row, EventOf(op[c], row)) = UpdateRow(row, Patched(op[c], row))
      BY <2>2, <3>1, ReplayedIsWritten
    <3>5. RowAfter(audit', Len(audit')) = Replay(RowAfter(audit, Len(audit)), EventOf(op[c], row))
      BY <1>0, <2>3, <3>1, <3>3, RowAfterAppend
    <3> QED
      BY <2>4, <3>1, <3>2, <3>3, <3>4, <3>5
  <2> QED
    BY <2>5 DEF AuditIInv, AuditTellsTheRow
<1>7. ASSUME NEW c \in Call, Fail(c)
      PROVE  AuditIInv'
  <2>1. /\ pc' \in [Call -> {"idle", "checked"}]
        /\ pc'[c] = "idle"
        /\ \A d \in Call \ {c} : pc'[d] = pc[d] /\ snap'[d] = snap[d]
    BY <1>7, EndedCall DEF Fail, IInv
  <2>2. UNCHANGED <<row, audit, overlapped>>
    BY <1>7 DEF Fail
  <2> QED
    BY <2>1, <2>2 DEF AuditIInv, AuditTellsTheRow
<1>8. CASE UNCHANGED vars
  BY <1>8 DEF vars, callVars, AuditIInv, AuditTellsTheRow
<1> QED
  BY <1>1, <1>2, <1>3, <1>4, <1>5, <1>6, <1>7, <1>8 DEF Next

LEMMA IInvVendor == IInv => VendorNeedsApproval
  BY LoggedHas DEF IInv, ApprovalLogged, WasApproved, VendorNeedsApproval

(* The audit trail alone tells the row, as long as calls do not overlap
   (purchase_request_audit, written in the transaction of the change). *)
THEOREM RequestAudit == Spec => []AuditTellsTheRow
<1>1. IInv /\ AuditIInv /\ [Next]_vars => IInv' /\ AuditIInv'
  BY NextIInv, NextAudit
<1>2. IInv /\ AuditIInv => AuditTellsTheRow
  BY DEF AuditIInv
<1> QED
  BY <1>1, <1>2, InitIInv, InitAudit, PTL DEF Spec

-----------------------------------------------------------------------------
(* CSV imports in the chat (ChatImport).  A batch is with one handler until a
   second CONFIRM overlaps the first, and a prompt whose batch has no rows under
   way has booked nothing. *)
ImportAt == {"idle", "download", "review", "provision", "rows", "webRows"}
ImportFlag == {"none", "upload", "confirm", "team"}
ImportLeft == Seq(Imports!Row)
ImportFile == File \union {"none"}
ImportDoing == [at : ImportAt, file : ImportFile, flag : ImportFlag, batch : Nat, left : ImportLeft]
BatchRow == [file : File, missing : SUBSET Place, reviewed : BOOLEAN]
ItemRow == [place : Place \union {"none"}, quantity : Nat]

ImportTypes ==
    /\ inventory \in [phase : {"none", "upload", "confirm"}, batch : Nat]
    /\ (inventory.phase = "confirm") = (inventory.batch # 0)
    /\ team \in BOOLEAN /\ session \in {"none", "open", "lapsed"}
    /\ batches \in Seq(BatchRow) /\ Len(batches) <= MaxBatches
    /\ places \in SUBSET Place
    /\ items \in [Sku -> ItemRow]
    /\ booked \in [Imports!Batch -> [Sku -> Nat]]
    /\ doing \in [Call -> ImportDoing]
    /\ importOverlapped \subseteq Imports!Batch

Distinct(t) == \A i, j \in DOMAIN t : t[i].sku = t[j].sku => i = j
Unbooked(b) == \A s \in Sku : booked[b][s] = 0
AloneWith(h, b) == \A g \in Call \ {h} : doing[g].batch # b

(* What is known of the batch a handler is at. *)
HandlerOK(h) ==
    /\ doing[h].at \in {"idle", "download"} <=> doing[h].batch = 0
    /\ doing[h].at = "download" => doing[h].file \in File
    /\ doing[h].batch <= Len(batches)
    /\ doing[h].batch \notin cancelled
    /\ doing[h].at = "review" => Unbooked(doing[h].batch) /\ AloneWith(h, doing[h].batch)
    /\ doing[h].at \in {"review", "webRows"} => inventory.batch # doing[h].batch
    /\ doing[h].at = "provision" /\ doing[h].batch \notin importOverlapped =>
        Unbooked(doing[h].batch) /\ AloneWith(h, doing[h].batch)
    /\ doing[h].at \in {"rows", "webRows"} /\ doing[h].batch \notin importOverlapped =>
        /\ AloneWith(h, doing[h].batch)
        /\ Distinct(doing[h].left)
        /\ \A i \in DOMAIN doing[h].left : booked[doing[h].batch][doing[h].left[i].sku] = 0

PromptOK ==
    inventory.batch # 0 =>
        /\ inventory.batch <= Len(batches)
        /\ inventory.batch \notin cancelled
        /\ (\A h \in Call : doing[h].at = "rows" => doing[h].batch # inventory.batch)
             => Unbooked(inventory.batch)

BatchOK(b) ==
    /\ b <= Len(batches) => Distinct(Contents[batches[b].file])
    /\ b > Len(batches) => Unbooked(b)
    /\ b \notin importOverlapped => \A s \in Sku : booked[b][s] <= 1
    /\ b \in cancelled => b <= Len(batches) /\ Unbooked(b)

ImportIInv ==
    /\ ImportTypes /\ messages \in Nat
    /\ cancelled \subseteq Imports!Batch
    /\ \A h \in Call : HandlerOK(h)
    /\ PromptOK
    /\ \A b \in Imports!Batch : BatchOK(b)

LEMMA ImportConstants ==
  /\ "none" \notin File /\ Contents \in [File -> Seq(Imports!Row)]
  /\ MaxImportRows \in Nat /\ MaxBatches \in Nat /\ MaxImportMessages \in Nat /\ MaxImportRestarts \in Nat
  BY ImportsAssumption DEF Imports!ChatImportAssumption, Imports!Row

LEMMA ImportIdle ==
  /\ Imports!Idle \in ImportDoing /\ Imports!Idle.at = "idle" /\ Imports!Idle.batch = 0
  /\ Imports!Nothing.batch = 0 /\ Imports!Nothing.phase = "none"
  /\ Imports!Nothing \in [phase : {"none", "upload", "confirm"}, batch : Nat]
<1>1. <<>> \in Seq(Imports!Row)
  OBVIOUS
<1> QED
  BY <1>1 DEF Imports!Idle, Imports!Nothing, ImportDoing, ImportAt, ImportFlag, ImportLeft, ImportFile

LEMMA ImportHolds == ImportIInv => Imports!TypeOK /\ Imports!ReviewedRowsBookOnce /\ Imports!CancelledStaysOut
<1> SUFFICES ASSUME ImportIInv
             PROVE  Imports!TypeOK /\ Imports!ReviewedRowsBookOnce /\ Imports!CancelledStaysOut
  OBVIOUS
<1>1. Len(batches) \in Nat /\ DOMAIN batches = 1..Len(batches)
  BY DEF ImportIInv, ImportTypes
<1>2. inventory \in [phase : {"none", "upload", "confirm"}, batch : 0..MaxBatches]
  <2>1. inventory.batch \in 0..MaxBatches
    BY <1>1, ImportConstants DEF ImportIInv, ImportTypes, PromptOK
  <2> QED
    BY <2>1 DEF ImportIInv, ImportTypes
<1>3. ASSUME NEW h \in Call
      PROVE  /\ doing[h].at \in ImportAt /\ doing[h].file \in File \union {"none"}
             /\ doing[h].batch \in 0..Len(batches) /\ doing[h].left \in Seq(Imports!Row)
  BY <1>1 DEF ImportIInv, ImportTypes, ImportDoing, ImportLeft, ImportFile, HandlerOK
<1>4. \A s \in Sku : items[s].place \in Place \union {"none"} /\ items[s].quantity \in Nat
  BY DEF ImportIInv, ImportTypes, ItemRow
<1>5. Imports!TypeOK
  BY <1>2, <1>3, <1>4 DEF ImportIInv, ImportTypes, Imports!TypeOK, BatchRow, ImportAt
<1>6. Imports!ReviewedRowsBookOnce
  BY <1>1, ImportConstants DEF ImportIInv, ImportTypes, BatchOK, Imports!ReviewedRowsBookOnce, Imports!Batch
<1>7. Imports!CancelledStaysOut
  BY DEF ImportIInv, BatchOK, Unbooked, Imports!CancelledStaysOut
<1> QED
  BY <1>5, <1>6, <1>7

LEMMA InitImport == Imports!Init => ImportIInv
<1> SUFFICES ASSUME Imports!Init PROVE ImportIInv
  OBVIOUS
<1>1. batches = <<>> /\ <<>> \in Seq(BatchRow) /\ Len(<<>>) = 0
  BY DEF Imports!Init
<1>2. \A h \in Call : doing[h] = Imports!Idle
  BY DEF Imports!Init
<1>3. \A b \in Imports!Batch, s \in Sku : booked[b][s] = 0
  BY DEF Imports!Init
<1>4. inventory = Imports!Nothing /\ cancelled = {} /\ importOverlapped = {}
  BY DEF Imports!Init
<1>5. ImportTypes
  <2>1. items \in [Sku -> ItemRow] /\ booked \in [Imports!Batch -> [Sku -> Nat]]
    BY DEF Imports!Init, Imports!NoItem, ItemRow
  <2>2. team \in BOOLEAN /\ session \in {"none", "open", "lapsed"} /\ places \in SUBSET Place
    BY DEF Imports!Init
  <2>3. doing \in [Call -> ImportDoing]
    BY ImportIdle DEF Imports!Init
  <2> QED
    BY <1>1, <1>4, <2>1, <2>2, <2>3, ImportIdle, ImportConstants DEF ImportTypes
<1>6. \A h \in Call : HandlerOK(h)
  BY <1>1, <1>2, <1>4, ImportIdle DEF HandlerOK
<1>7. PromptOK /\ \A b \in Imports!Batch : BatchOK(b)
  BY <1>1, <1>3, <1>4, ImportIdle, ImportConstants DEF PromptOK, BatchOK, Unbooked, Imports!Batch
<1> QED
  BY <1>1, <1>4, <1>5, <1>6, <1>7 DEF Imports!Init, ImportIInv

(* The others stay where they are, h goes to f. *)
LEMMA ImportStep ==
  ASSUME ImportIInv, NEW h \in Call, NEW f \in ImportDoing, Imports!Step(h, f)
  PROVE  /\ doing' \in [Call -> ImportDoing] /\ doing'[h] = f
         /\ \A g \in Call \ {h} : doing'[g] = doing[g]
  BY DEF Imports!Step, ImportIInv, ImportTypes

(* A handler is done, or waits for a file: it holds no batch any more. *)
LEMMA ReleasedIs ==
  ASSUME ImportIInv, NEW h \in Call, NEW f \in ImportDoing, f.at \in {"idle", "download"}, f.batch = 0,
         f.at = "download" => f.file \in File,
         Imports!Step(h, f),
         UNCHANGED <<batches, items, booked, importOverlapped, cancelled>>,
         team' \in BOOLEAN, session' \in {"none", "open", "lapsed"}, places' \in SUBSET Place,
           messages' \in Nat,
         \/ inventory' = inventory /\ doing[h].at # "rows"
         \/ inventory' = Imports!Nothing
  PROVE  ImportIInv'
<1>1. /\ doing' \in [Call -> ImportDoing] /\ doing'[h] = f /\ \A g \in Call \ {h} : doing'[g] = doing[g]
  BY ImportStep
<1>2. ImportTypes'
  BY <1>1, ImportIdle DEF ImportIInv, ImportTypes
<1>3. inventory'.batch = inventory.batch \/ inventory'.batch = 0
  BY ImportIdle
<1>4. ASSUME NEW g \in Call PROVE HandlerOK(g)'
  <2>1. CASE g = h
    <3>1. 0 \notin cancelled /\ Len(batches) \in Nat
      BY DEF ImportIInv, ImportTypes, Imports!Batch
    <3> QED
      BY <1>1, <2>1, <3>1 DEF HandlerOK
  <2>2. CASE g # h
    <3>1. HandlerOK(g) /\ doing'[g] = doing[g]
      BY <1>1, <2>2 DEF ImportIInv
    <3>2. \A b : AloneWith(g, b) /\ b # 0 => AloneWith(g, b)'
      BY <1>1 DEF AloneWith
    <3> QED
      BY <1>3, <3>1, <3>2 DEF HandlerOK, Unbooked
  <2> QED
    BY <2>1, <2>2
<1>5. PromptOK'
  <2>1. CASE inventory' = Imports!Nothing
    BY <2>1, ImportIdle DEF PromptOK
  <2>2. CASE inventory' = inventory /\ doing[h].at # "rows"
    BY <1>1, <2>2 DEF PromptOK, Unbooked, ImportIInv
  <2> QED
    BY <2>1, <2>2
<1>6. \A b \in Imports!Batch : BatchOK(b)'
  BY DEF ImportIInv, BatchOK, Unbooked
<1> QED
  BY <1>2, <1>4, <1>5, <1>6 DEF ImportIInv

(* A message or a lapse that leaves the handlers alone. *)
LEMMA PromptedIs ==
  ASSUME ImportIInv,
         inventory' \in {inventory, Imports!Nothing, [phase |-> "upload", batch |-> 0]},
         team' \in BOOLEAN, session' \in {"none", "open", "lapsed"}, messages' \in Nat,
         UNCHANGED <<batches, places, items, booked, doing, importOverlapped, cancelled>>
  PROVE  ImportIInv'
<1>1. inventory' \in [phase : {"none", "upload", "confirm"}, batch : Nat]
  BY ImportIdle DEF ImportIInv, ImportTypes
<1>2. ImportTypes'
  BY <1>1, ImportIdle DEF ImportIInv, ImportTypes
<1>3. inventory' = inventory \/ inventory'.batch = 0
  BY ImportIdle
<1>4. ASSUME NEW g \in Call PROVE HandlerOK(g)'
  <2>1. HandlerOK(g)
    BY DEF ImportIInv
  <2> QED
    BY <1>3, <2>1 DEF HandlerOK, Unbooked, AloneWith
<1>5. PromptOK'
  BY <1>3 DEF PromptOK, Unbooked, ImportIInv
<1>6. \A b \in Imports!Batch : BatchOK(b)'
  BY DEF ImportIInv, BatchOK, Unbooked
<1> QED
  BY <1>2, <1>4, <1>5, <1>6 DEF ImportIInv

(* A file that parses becomes a batch of its own. *)
LEMMA BegunIs ==
  ASSUME ImportIInv, NEW h \in Call, NEW fl \in File, NEW reviewed \in BOOLEAN,
         NEW f \in ImportDoing, Imports!Step(h, f), f.batch = Len(batches) + 1,
         \/ f.at = "review"
         \/ f.at \in {"rows", "webRows"} /\ f.left = Contents[fl],
         Imports!NewBatch(fl, reviewed), Imports!Parses(fl), Len(batches) < MaxBatches,
         team' \in BOOLEAN, messages' \in Nat,
         doing[h].at # "rows",
         UNCHANGED <<inventory, session, places, items, booked, importOverlapped, cancelled>>
  PROVE  ImportIInv'
<1>0. PICK n : n = Len(batches) + 1
  OBVIOUS
<1>1. /\ doing' \in [Call -> ImportDoing] /\ doing'[h] = f /\ \A g \in Call \ {h} : doing'[g] = doing[g]
  BY ImportStep
<1>2. Len(batches) \in Nat /\ n \in 1..MaxBatches /\ Contents[fl] \in Seq(Imports!Row)
  BY <1>0, ImportConstants DEF ImportIInv, ImportTypes
<1>3. PICK r \in BatchRow : batches' = Append(batches, r) /\ r.file = fl
  <2>1. \A i \in DOMAIN Contents[fl] : Contents[fl][i] \in Imports!Row
    BY <1>2
  <2>2. \A i \in DOMAIN Contents[fl] : Contents[fl][i].place \in Place
    BY <2>1 DEF Imports!Row
  <2>3. Imports!PlacesOf(fl) \ places \in SUBSET Place
    BY <2>2 DEF Imports!PlacesOf
  <2>4. [file |-> fl, missing |-> Imports!PlacesOf(fl) \ places, reviewed |-> reviewed] \in BatchRow
    BY <2>3 DEF BatchRow
  <2> QED
    BY <2>4 DEF Imports!NewBatch
<1>4. /\ batches' \in Seq(BatchRow) /\ Len(batches') = n
      /\ batches'[n].file = fl /\ \A b \in 1..Len(batches) : batches'[b] = batches[b]
  BY <1>0, <1>3 DEF ImportIInv, ImportTypes
<1>5. Distinct(Contents[fl])
  BY DEF Imports!Parses, Distinct
<1>6. ImportTypes'
  BY <1>0, <1>1, <1>2, <1>4 DEF ImportIInv, ImportTypes
<1>7. n \notin cancelled /\ Unbooked(n) /\ inventory.batch # n /\ \A g \in Call : doing[g].batch # n
  <2>1. BatchOK(n) /\ n \in Imports!Batch
    BY <1>0, <1>2 DEF ImportIInv, Imports!Batch
  <2>2. \A g \in Call : HandlerOK(g) /\ doing[g].batch \in Nat
    BY DEF ImportIInv, ImportTypes, ImportDoing
  <2>3. inventory.batch \in Nat /\ PromptOK
    BY DEF ImportIInv, ImportTypes
  <2>4. inventory.batch # n
    BY <1>0, <1>2, <2>3 DEF PromptOK
  <2> QED
    BY <1>0, <1>2, <2>1, <2>2, <2>4 DEF BatchOK, HandlerOK
<1>8. ASSUME NEW g \in Call PROVE HandlerOK(g)'
  <2>1. CASE g = h
    <3>1. AloneWith(h, n)'
      BY <1>1, <1>7 DEF AloneWith
    <3>2. \A i \in DOMAIN Contents[fl] : Contents[fl][i].sku \in Sku
      <4>1. \A i \in DOMAIN Contents[fl] : Contents[fl][i] \in Imports!Row
        BY <1>2
      <4> QED
        BY <4>1 DEF Imports!Row
    <3>3. f.at \in {"rows", "webRows"} =>
            Distinct(f.left) /\ \A i \in DOMAIN f.left : booked[n][f.left[i].sku] = 0
      BY <1>5, <1>7, <3>2 DEF Unbooked
    <3>4. f.batch = n /\ n # 0 /\ n <= Len(batches')
      BY <1>0, <1>2, <1>4
    <3> QED
      BY <1>1, <1>7, <2>1, <3>1, <3>3, <3>4 DEF HandlerOK, Unbooked
  <2>2. CASE g # h
    <3>1. HandlerOK(g) /\ doing'[g] = doing[g]
      BY <1>1, <2>2 DEF ImportIInv
    <3>2. \A b : AloneWith(g, b) /\ b # n => AloneWith(g, b)'
      BY <1>0, <1>1 DEF AloneWith
    <3>3. doing[g].batch # n /\ doing[g].batch \in Nat /\ Len(batches) <= Len(batches')
      BY <1>0, <1>2, <1>4, <1>7 DEF ImportIInv, ImportTypes, ImportDoing
    <3>4. doing[g].batch <= Len(batches')
      BY <1>2, <1>4, <3>1, <3>3 DEF HandlerOK
    <3> QED
      BY <3>1, <3>2, <3>3, <3>4 DEF HandlerOK, Unbooked
  <2> QED
    BY <2>1, <2>2
<1>9. PromptOK'
  <2>1. inventory.batch # 0 => inventory.batch <= Len(batches')
    BY <1>0, <1>2, <1>4 DEF ImportIInv, ImportTypes, PromptOK
  <2>2. (\A g \in Call : doing'[g].at = "rows" => doing'[g].batch # inventory.batch) =>
          \A g \in Call : doing[g].at = "rows" => doing[g].batch # inventory.batch
    BY <1>1
  <2> QED
    BY <2>1, <2>2 DEF ImportIInv, PromptOK, Unbooked
<1>10. ASSUME NEW b \in Imports!Batch PROVE BatchOK(b)'
  <2>1. BatchOK(b) /\ b \in 1..MaxBatches
    BY DEF ImportIInv, Imports!Batch
  <2>2. CASE b = n
    BY <1>0, <1>2, <1>4, <1>5, <1>7, <2>1, <2>2 DEF BatchOK, Unbooked
  <2>3. CASE b # n
    BY <1>0, <1>2, <1>4, <2>1, <2>3, ImportConstants DEF BatchOK, Unbooked
  <2> QED
    BY <2>2, <2>3
<1> QED
  BY <1>6, <1>8, <1>9, <1>10 DEF ImportIInv

LEMMA SetReviewStep ==
  ASSUME ImportIInv, NEW h \in Call, Imports!SetReview(h)
  PROVE  ImportIInv'
<1>1. PICK b \in Nat : /\ b = doing[h].batch /\ doing[h].at = "review"
                       /\ inventory' = [phase |-> "confirm", batch |-> b]
  BY DEF Imports!SetReview, ImportIInv, ImportTypes, ImportDoing
<1>2. /\ doing' \in [Call -> ImportDoing] /\ doing'[h] = Imports!Idle
           /\ \A g \in Call \ {h} : doing'[g] = doing[g]
      /\ UNCHANGED <<team, session, batches, places, items, booked, importOverlapped, cancelled, messages>>
  BY ImportStep, ImportIdle DEF Imports!SetReview, Imports!Done
<1>3. HandlerOK(h) /\ b # 0 /\ Unbooked(b) /\ AloneWith(h, b) /\ b <= Len(batches) /\ b \notin cancelled
  BY <1>1 DEF ImportIInv, HandlerOK
<1>4. ImportTypes'
  BY <1>1, <1>2, <1>3 DEF ImportIInv, ImportTypes
<1>5. ASSUME NEW g \in Call PROVE HandlerOK(g)'
  <2>1. CASE g = h
    <3>1. 0 \notin cancelled /\ Len(batches) \in Nat
      BY DEF ImportIInv, ImportTypes, Imports!Batch
    <3> QED
      BY <1>2, <2>1, <3>1, ImportIdle DEF HandlerOK
  <2>2. CASE g # h
    <3>1. HandlerOK(g) /\ doing'[g] = doing[g] /\ doing[g].batch # b
      BY <1>2, <1>3, <2>2 DEF ImportIInv, AloneWith
    <3>2. \A a : AloneWith(g, a) /\ a # 0 => AloneWith(g, a)'
      BY <1>2, ImportIdle DEF AloneWith
    <3> QED
      BY <1>1, <1>2, <3>1, <3>2 DEF HandlerOK, Unbooked
  <2> QED
    BY <2>1, <2>2
<1>6. PromptOK'
  BY <1>1, <1>2, <1>3 DEF PromptOK, Unbooked
<1>7. \A a \in Imports!Batch : BatchOK(a)'
  BY <1>2 DEF ImportIInv, BatchOK, Unbooked
<1> QED
  BY <1>2, <1>4, <1>5, <1>6, <1>7 DEF ImportIInv

LEMMA DownloadedStep ==
  ASSUME ImportIInv, NEW h \in Call, Imports!Downloaded(h)
  PROVE  ImportIInv'
<1>1. PICK f : f = doing[h].file /\ doing[h].at = "download"
  BY DEF Imports!Downloaded
<1>2. /\ UNCHANGED <<inventory, session, places, items, booked, importOverlapped, cancelled, messages>>
      /\ team' \in BOOLEAN
  BY DEF Imports!Downloaded, ImportIInv, ImportTypes
<1>3. /\ session \in {"none", "open", "lapsed"} /\ places \in SUBSET Place /\ messages \in Nat
      /\ doing[h] \in ImportDoing /\ Len(batches) \in Nat
  BY DEF ImportIInv, ImportTypes
<1>4. CASE Imports!Done(h) /\ UNCHANGED batches
  BY <1>1, <1>2, <1>3, <1>4, ReleasedIs, ImportIdle DEF Imports!Done
<1>5. CASE Imports!ImportFromBuffer(h, f) /\ ~(Imports!Done(h) /\ UNCHANGED batches)
  <2>1. Imports!Parses(f) /\ Len(batches) < MaxBatches
    BY <1>5 DEF Imports!ImportFromBuffer
  <2>2. f \in File
    <3>1. HandlerOK(h)
      BY DEF ImportIInv
    <3> QED
      BY <1>1, <3>1 DEF HandlerOK
  <2>3. Contents[f] \in Seq(Imports!Row)
    BY <2>2, ImportConstants
  <2>4. CASE /\ Imports!NewBatch(f, TRUE)
             /\ Imports!Step(h, [doing[h] EXCEPT !.at = "review", !.batch = Len(batches) + 1])
    <3>1. PICK r : r = [doing[h] EXCEPT !.at = "review", !.batch = Len(batches) + 1]
      OBVIOUS
    <3>2. doing[h] \in ImportDoing /\ "review" \in ImportAt /\ Len(batches) + 1 \in Nat
      BY <1>3 DEF ImportAt
    <3>3. r \in ImportDoing /\ r.at = "review" /\ r.batch = Len(batches) + 1
      BY <3>1, <3>2 DEF ImportDoing
    <3> QED
      BY <1>1, <1>2, <1>3, <2>1, <2>2, <2>4, <3>1, <3>3, BegunIs
  <2>5. CASE /\ Imports!NewBatch(f, FALSE)
             /\ Imports!Step(h, [doing[h] EXCEPT !.at = "rows", !.batch = Len(batches) + 1, !.left = Contents[f]])
    <3>1. PICK r : r = [doing[h] EXCEPT !.at = "rows", !.batch = Len(batches) + 1, !.left = Contents[f]]
      OBVIOUS
    <3>2. /\ doing[h] \in ImportDoing /\ "rows" \in ImportAt /\ Len(batches) + 1 \in Nat
          /\ Contents[f] \in ImportLeft
      BY <1>3, <2>3 DEF ImportAt, ImportLeft
    <3>3. r \in ImportDoing /\ r.at = "rows" /\ r.batch = Len(batches) + 1 /\ r.left = Contents[f]
      BY <3>1, <3>2 DEF ImportDoing
    <3> QED
      BY <1>1, <1>2, <1>3, <2>1, <2>2, <2>5, <3>1, <3>3, BegunIs
  <2> QED
    BY <1>5, <2>4, <2>5 DEF Imports!ImportFromBuffer
<1> QED
  BY <1>1, <1>4, <1>5 DEF Imports!Downloaded

LEMMA WebImportStep ==
  ASSUME ImportIInv, NEW h \in Call, NEW f \in File, Imports!WebImport(h, f)
  PROVE  ImportIInv'
<1>1. Contents[f] \in Seq(Imports!Row) /\ Len(batches) \in Nat /\ messages' \in Nat /\ doing[h].at # "rows"
  BY ImportConstants, ImportIdle DEF ImportIInv, ImportTypes, Imports!WebImport, Imports!Arrives
<1>2. PICK r : r = [Imports!Idle EXCEPT !.at = "webRows", !.batch = Len(batches) + 1, !.left = Contents[f]]
  OBVIOUS
<1>4. /\ Imports!Idle \in ImportDoing /\ "webRows" \in ImportAt /\ Len(batches) + 1 \in Nat
      /\ Contents[f] \in ImportLeft
  BY <1>1, ImportIdle DEF ImportAt, ImportLeft
<1>5. r \in ImportDoing /\ r.at = "webRows" /\ r.batch = Len(batches) + 1 /\ r.left = Contents[f]
  BY <1>2, <1>4 DEF ImportDoing
<1>3. team \in BOOLEAN
  BY DEF ImportIInv, ImportTypes
<1> QED
  BY <1>1, <1>2, <1>3, <1>5, BegunIs DEF Imports!WebImport

LEMMA DocumentStep ==
  ASSUME ImportIInv, NEW h \in Call, NEW f \in File, Imports!Document(h, f)
  PROVE  ImportIInv'
<1>1. PICK flag \in ImportFlag :
        Imports!Step(h, [Imports!Idle EXCEPT !.at = "download", !.file = f, !.flag = flag])
  <2>1. inventory.phase \in ImportFlag
    BY DEF ImportIInv, ImportTypes, ImportFlag
  <2> QED
    BY <2>1 DEF Imports!Document, ImportFlag
<1>2. PICK r : r = [Imports!Idle EXCEPT !.at = "download", !.file = f, !.flag = flag]
  OBVIOUS
<1>4. Imports!Idle \in ImportDoing /\ "download" \in ImportAt /\ f \in ImportFile /\ Imports!Idle.batch = 0
  BY ImportIdle DEF ImportAt, ImportFile
<1>5. r \in ImportDoing /\ r.at = "download" /\ r.batch = 0 /\ r.file = f
  BY <1>2, <1>4 DEF ImportDoing
<1>3. /\ team \in BOOLEAN /\ session \in {"none", "open", "lapsed"} /\ places \in SUBSET Place
      /\ messages' \in Nat /\ doing[h].at # "rows"
  BY ImportIdle DEF ImportIInv, ImportTypes, Imports!Document, Imports!Arrives
<1> QED
  BY <1>1, <1>2, <1>3, <1>5, ReleasedIs DEF Imports!Document

LEMMA ProvisionStep ==
  ASSUME ImportIInv, NEW h \in Call, Imports!Provision(h)
  PROVE  ImportIInv'
<1>1. PICK b \in Nat : b = doing[h].batch /\ doing[h].at = "provision"
  BY DEF Imports!Provision, ImportIInv, ImportTypes, ImportDoing
<1>2. UNCHANGED <<inventory, team, session, batches, items, booked, importOverlapped, cancelled, messages>>
  BY DEF Imports!Provision
<1>3. /\ team \in BOOLEAN /\ session \in {"none", "open", "lapsed"} /\ messages \in Nat
           /\ places \in SUBSET Place
      /\ doing[h] \in ImportDoing /\ Len(batches) \in Nat /\ DOMAIN batches = 1..Len(batches)
      /\ batches \in Seq(BatchRow)
  BY DEF ImportIInv, ImportTypes
<1>4. CASE Imports!Done(h) /\ UNCHANGED places
  BY <1>1, <1>2, <1>3, <1>4, ReleasedIs, ImportIdle DEF Imports!Done
<1>5. CASE /\ places' = places \union batches[b].missing
           /\ Imports!Step(h, [doing[h] EXCEPT !.at = "rows", !.left = Contents[batches[b].file]])
  <2>1. HandlerOK(h) /\ b # 0 /\ b <= Len(batches) /\ b \notin cancelled /\ b \in Imports!Batch
    <3>1. HandlerOK(h) /\ b # 0 /\ b <= Len(batches) /\ b \notin cancelled
      BY <1>1 DEF ImportIInv, HandlerOK
    <3> QED
      BY <1>1, <1>3, <3>1, ImportConstants DEF ImportIInv, ImportTypes, Imports!Batch
  <2>2. batches[b] \in BatchRow
    BY <1>1, <1>3, <2>1
  <2>3. PICK fl \in File : fl = batches[b].file
    BY <2>2 DEF BatchRow
  <2>4. Contents[fl] \in Seq(Imports!Row) /\ Distinct(Contents[fl])
    BY <2>1, <2>3, ImportConstants DEF ImportIInv, BatchOK
  <2>5. PICK r : r = [doing[h] EXCEPT !.at = "rows", !.left = Contents[fl]]
    OBVIOUS
  <2>6. doing[h] \in ImportDoing /\ "rows" \in ImportAt /\ Contents[fl] \in ImportLeft
    BY <1>3, <2>4 DEF ImportAt, ImportLeft
  <2>7. r \in ImportDoing /\ r.at = "rows" /\ r.left = Contents[fl] /\ r.batch = b
    BY <1>1, <2>5, <2>6 DEF ImportDoing
  <2>8. doing' \in [Call -> ImportDoing] /\ doing'[h] = r /\ \A g \in Call \ {h} : doing'[g] = doing[g]
    BY <1>5, <2>3, <2>5, <2>7, ImportStep
  <2>9. places' \in SUBSET Place
    BY <1>3, <1>5, <2>2 DEF BatchRow
  <2>10. ImportTypes'
    BY <1>2, <2>8, <2>9 DEF ImportIInv, ImportTypes
  <2>11. \A g \in Call : doing'[g].batch = doing[g].batch
    BY <1>1, <2>7, <2>8
  <2>12. \A g \in Call : \A a : AloneWith(g, a) => AloneWith(g, a)'
    BY <2>11 DEF AloneWith
  <2>13. ASSUME NEW g \in Call PROVE HandlerOK(g)'
    <3>1. CASE g = h
      <4>1. \A i \in DOMAIN Contents[fl] : Contents[fl][i].sku \in Sku
        <5>1. \A i \in DOMAIN Contents[fl] : Contents[fl][i] \in Imports!Row
          BY <2>4
        <5> QED
          BY <5>1 DEF Imports!Row
      <4>2. b \notin importOverlapped => Unbooked(b) /\ AloneWith(h, b)
        BY <1>1, <2>1 DEF HandlerOK
      <4>3. b \notin importOverlapped =>
              /\ AloneWith(h, b)'
              /\ Distinct(r.left) /\ \A i \in DOMAIN r.left : booked[b][r.left[i].sku] = 0
        BY <2>4, <2>7, <2>12, <4>1, <4>2 DEF Unbooked
      <4> QED
        BY <1>2, <2>1, <2>7, <2>8, <3>1, <4>3 DEF HandlerOK
    <3>2. CASE g # h
      <4>1. HandlerOK(g) /\ doing'[g] = doing[g]
        BY <2>8, <3>2 DEF ImportIInv
      <4> QED
        BY <1>2, <2>12, <4>1 DEF HandlerOK, Unbooked
    <3> QED
      BY <3>1, <3>2
  <2>14. PromptOK'
    <3>1. (\A g \in Call : doing'[g].at = "rows" => doing'[g].batch # inventory.batch) =>
            \A g \in Call : doing[g].at = "rows" => doing[g].batch # inventory.batch
      BY <1>1, <2>8
    <3> QED
      BY <1>2, <3>1 DEF PromptOK, Unbooked, ImportIInv
  <2>15. \A a \in Imports!Batch : BatchOK(a)'
    BY <1>2 DEF ImportIInv, BatchOK, Unbooked
  <2> QED
    BY <1>2, <2>10, <2>13, <2>14, <2>15 DEF ImportIInv
<1> QED
  BY <1>1, <1>4, <1>5 DEF Imports!Provision

LEMMA ProcessRowStep ==
  ASSUME ImportIInv, NEW h \in Call, Imports!ProcessRow(h)
  PROVE  ImportIInv'
<1>1. PICK b \in Nat : b = doing[h].batch
  BY DEF ImportIInv, ImportTypes, ImportDoing
<1>2. PICK line : line = Head(doing[h].left)
  OBVIOUS
<1>3. /\ doing[h].at \in {"rows", "webRows"} /\ doing[h].left # <<>>
      /\ UNCHANGED <<inventory, team, session, batches, places, importOverlapped, cancelled, messages>>
  BY DEF Imports!ProcessRow
<1>4. /\ doing[h] \in ImportDoing /\ doing[h].left \in Seq(Imports!Row) /\ doing[h].left \in ImportLeft
      /\ booked \in [Imports!Batch -> [Sku -> Nat]] /\ items \in [Sku -> ItemRow]
      /\ Len(batches) \in Nat
  BY DEF ImportIInv, ImportTypes, ImportDoing, ImportLeft
<1>5. line \in Imports!Row /\ Tail(doing[h].left) \in Seq(Imports!Row)
  BY <1>2, <1>3, <1>4
<1>6. line.sku \in Sku /\ line.place \in Place /\ line.quantity \in Nat
  BY <1>5 DEF Imports!Row
<1>7. HandlerOK(h) /\ b # 0 /\ b <= Len(batches) /\ b \notin cancelled /\ b \in Imports!Batch
  <2>1. HandlerOK(h) /\ b # 0 /\ b <= Len(batches) /\ b \notin cancelled
    BY <1>1, <1>3 DEF ImportIInv, HandlerOK
  <2> QED
    BY <1>1, <1>4, <2>1, ImportConstants DEF ImportIInv, ImportTypes, Imports!Batch
<1>8. /\ booked' \in [Imports!Batch -> [Sku -> Nat]] /\ items' \in [Sku -> ItemRow]
      /\ \A a \in Imports!Batch, s \in Sku : a # b \/ s # line.sku => booked'[a][s] = booked[a][s]
      /\ booked'[b][line.sku] <= booked[b][line.sku] + 1
  <2>1. CASE UNCHANGED <<items, booked>>
    BY <1>4, <1>6, <1>7, <2>1
  <2>2. CASE /\ items' = [items EXCEPT ![line.sku] = [place |-> line.place, quantity |-> items[line.sku].quantity + line.quantity]]
             /\ booked' = [booked EXCEPT ![b][line.sku] = IF line.quantity > 0 THEN @ + 1 ELSE @]
    <3>1. [place |-> line.place, quantity |-> items[line.sku].quantity + line.quantity] \in ItemRow
      BY <1>4, <1>6 DEF ItemRow
    <3>2. booked[b] \in [Sku -> Nat]
      BY <1>4, <1>7
    <3> QED
      BY <1>4, <1>6, <1>7, <2>2, <3>1, <3>2
  <2> QED
    BY <1>1, <1>2, <2>1, <2>2 DEF Imports!ProcessRow
<1>9. PICK r : r = [doing[h] EXCEPT !.left = Tail(@)]
  OBVIOUS
<1>10. Tail(doing[h].left) \in ImportLeft
  BY <1>5 DEF ImportLeft
<1>11. r \in ImportDoing /\ r.left = Tail(doing[h].left) /\ r.batch = b /\ r.at = doing[h].at
         /\ r.file = doing[h].file
  BY <1>1, <1>4, <1>9, <1>10 DEF ImportDoing
<1>12. doing' \in [Call -> ImportDoing] /\ doing'[h] = r /\ \A g \in Call \ {h} : doing'[g] = doing[g]
  BY <1>9, <1>11, ImportStep DEF Imports!ProcessRow
<1>13. \A g \in Call : doing'[g].batch = doing[g].batch /\ doing'[g].at = doing[g].at
  BY <1>1, <1>11, <1>12
<1>14. \A g \in Call : \A a : AloneWith(g, a) => AloneWith(g, a)'
  BY <1>13 DEF AloneWith
<1>15. ImportTypes'
  BY <1>3, <1>8, <1>12 DEF ImportIInv, ImportTypes
<1>16. \A a \in Imports!Batch : a # b /\ Unbooked(a) => Unbooked(a)'
  BY <1>8 DEF Unbooked
<1>17. b \notin importOverlapped =>
        /\ AloneWith(h, b) /\ Distinct(doing[h].left) /\ booked[b][line.sku] = 0
        /\ Distinct(r.left) /\ \A i \in DOMAIN r.left : booked'[b][r.left[i].sku] = 0
  <2> SUFFICES ASSUME b \notin importOverlapped
               PROVE  /\ AloneWith(h, b) /\ Distinct(doing[h].left) /\ booked[b][line.sku] = 0
                      /\ Distinct(r.left) /\ \A i \in DOMAIN r.left : booked'[b][r.left[i].sku] = 0
    OBVIOUS
  <2>1. /\ AloneWith(h, b) /\ Distinct(doing[h].left)
        /\ \A i \in DOMAIN doing[h].left : booked[b][doing[h].left[i].sku] = 0
    BY <1>1, <1>3, <1>7 DEF HandlerOK
  <2>2. PICK t \in Seq(Imports!Row) : t = doing[h].left /\ t # <<>>
    BY <1>3, <1>4
  <2>3. 1 \in DOMAIN t /\ line = t[1]
    BY <1>2, <2>2
  <2>4. \A i \in DOMAIN r.left : i \in Nat /\ i + 1 \in DOMAIN t /\ i + 1 # 1 /\ r.left[i] = t[i + 1]
          /\ t[i + 1] \in Imports!Row
    BY <1>11, <2>2
  <2>5. \A i \in DOMAIN r.left : r.left[i].sku # line.sku /\ r.left[i].sku \in Sku
    BY <2>1, <2>2, <2>3, <2>4 DEF Distinct, Imports!Row
  <2>6. Distinct(r.left)
    <3> SUFFICES ASSUME NEW i \in DOMAIN r.left, NEW j \in DOMAIN r.left, r.left[i].sku = r.left[j].sku
                 PROVE  i = j
      BY DEF Distinct
    <3>1. i + 1 = j + 1
      BY <2>1, <2>2, <2>4 DEF Distinct
    <3> QED
      BY <2>4, <3>1
  <2>7. \A i \in DOMAIN r.left : booked[b][r.left[i].sku] = 0
    BY <2>1, <2>2, <2>4
  <2> QED
    BY <1>7, <1>8, <2>1, <2>2, <2>3, <2>5, <2>6, <2>7
<1>18. ASSUME NEW g \in Call PROVE HandlerOK(g)'
  <2>1. CASE g = h
    BY <1>1, <1>3, <1>7, <1>11, <1>12, <1>14, <1>17, <2>1 DEF HandlerOK
  <2>2. CASE g # h
    <3>1. HandlerOK(g) /\ doing'[g] = doing[g] /\ doing[g] \in ImportDoing
      BY <1>12, <2>2 DEF ImportIInv, ImportTypes
    <3>2. doing[g].batch \in Nat /\ (doing[g].batch # 0 => doing[g].batch \in Imports!Batch)
      BY <1>4, <3>1, ImportConstants DEF HandlerOK, ImportIInv, ImportTypes, Imports!Batch, ImportDoing
    <3>3. doing[g].batch = b => b \in importOverlapped /\ doing[g].at # "review"
      <4>1. doing[g].batch = b => ~AloneWith(h, b) /\ ~AloneWith(g, b)
        BY <1>1, <2>2 DEF AloneWith
      <4> QED
        BY <1>17, <3>1, <4>1 DEF HandlerOK
    <3>4. doing[g].batch # 0 /\ doing[g].batch # b /\ Unbooked(doing[g].batch) => Unbooked(doing[g].batch)'
      BY <1>16, <3>2, <3>1 DEF Unbooked
    <3>5. doing[g].at \in {"rows", "webRows"} /\ doing[g].batch \notin importOverlapped =>
            \A i \in DOMAIN doing[g].left : booked'[doing[g].batch][doing[g].left[i].sku] = 0
      <4> SUFFICES ASSUME doing[g].at \in {"rows", "webRows"}, doing[g].batch \notin importOverlapped
                   PROVE  \A i \in DOMAIN doing[g].left : booked'[doing[g].batch][doing[g].left[i].sku] = 0
        OBVIOUS
      <4>1. doing[g].batch # b /\ doing[g].batch \in Imports!Batch
        BY <3>1, <3>2, <3>3 DEF HandlerOK
      <4>2. doing[g].left \in Seq(Imports!Row)
        BY <3>1 DEF ImportDoing, ImportLeft
      <4>3. \A i \in DOMAIN doing[g].left : doing[g].left[i] \in Imports!Row
        BY <4>2
      <4>4. \A i \in DOMAIN doing[g].left : doing[g].left[i].sku \in Sku
        BY <4>3 DEF Imports!Row
      <4>5. \A i \in DOMAIN doing[g].left : booked[doing[g].batch][doing[g].left[i].sku] = 0
        BY <3>1 DEF HandlerOK
      <4> QED
        BY <1>8, <4>1, <4>4, <4>5
    <3>6. doing[g].at \notin {"idle", "download"} => doing[g].batch # 0
      BY <3>1 DEF HandlerOK
    <3>7. PICK d : d = doing[g] /\ d = doing'[g]
      BY <3>1
    <3>8. d.at = "review" => Unbooked(d.batch)' /\ AloneWith(g, d.batch)'
      BY <1>14, <3>1, <3>3, <3>4, <3>6, <3>7 DEF HandlerOK, Unbooked
    <3>9. d.at = "provision" /\ d.batch \notin importOverlapped => Unbooked(d.batch)' /\ AloneWith(g, d.batch)'
      BY <1>14, <3>1, <3>3, <3>4, <3>6, <3>7 DEF HandlerOK, Unbooked
    <3>10. d.at \in {"rows", "webRows"} /\ d.batch \notin importOverlapped =>
            /\ AloneWith(g, d.batch)' /\ Distinct(d.left)
            /\ \A i \in DOMAIN d.left : booked'[d.batch][d.left[i].sku] = 0
      BY <1>14, <3>1, <3>5, <3>7 DEF HandlerOK
    <3> QED
      BY <1>3, <3>1, <3>7, <3>8, <3>9, <3>10 DEF HandlerOK, Unbooked
  <2> QED
    BY <2>1, <2>2
<1>19. PromptOK'
  <2>1. CASE inventory.batch = b
    <3>1. doing[h].at = "rows"
      BY <1>1, <1>3, <1>7, <2>1 DEF HandlerOK
    <3> QED
      BY <1>1, <1>3, <1>7, <1>13, <2>1, <3>1 DEF PromptOK
  <2>2. CASE inventory.batch # b
    <3>1. inventory.batch # 0 => inventory.batch \in Imports!Batch
      BY <1>4, ImportConstants DEF ImportIInv, ImportTypes, PromptOK, Imports!Batch
    <3>2. inventory.batch # 0 /\ Unbooked(inventory.batch) => Unbooked(inventory.batch)'
      BY <1>3, <1>16, <2>2, <3>1 DEF Unbooked
    <3> QED
      BY <1>3, <1>13, <3>2 DEF PromptOK, ImportIInv
  <2> QED
    BY <2>1, <2>2
<1>20. ASSUME NEW a \in Imports!Batch PROVE BatchOK(a)'
  <2>1. CASE a # b
    BY <1>3, <1>8, <1>16, <2>1 DEF BatchOK, ImportIInv
  <2>2. CASE a = b
    <3>1. b \notin importOverlapped => \A s \in Sku : booked'[b][s] <= 1
      <4> SUFFICES ASSUME b \notin importOverlapped, NEW s \in Sku PROVE booked'[b][s] <= 1
        OBVIOUS
      <4>1. booked[b][s] <= 1 /\ booked[b][line.sku] = 0
        BY <1>7, <1>17 DEF BatchOK, ImportIInv
      <4>2. s # line.sku => booked'[b][s] = booked[b][s]
        BY <1>7, <1>8
      <4>3. booked[b][line.sku] + 1 = 1
        BY <4>1
      <4>4. booked'[b][line.sku] <= 1
        BY <1>8, <4>3
      <4> QED
        BY <4>1, <4>2, <4>4
    <3> QED
      BY <1>3, <1>4, <1>7, <2>2, <3>1 DEF BatchOK, ImportIInv
  <2> QED
    BY <2>1, <2>2
<1> QED
  BY <1>3, <1>15, <1>18, <1>19, <1>20 DEF ImportIInv

(* The owner answers CONFIRM: the handler has the batch, alone unless another
   call already imports it. *)
LEMMA ConfirmStep ==
  ASSUME ImportIInv, NEW h \in Call, doing[h] = Imports!Idle, Imports!Confirm(h),
         inventory.phase = "confirm", messages' \in Nat,
         UNCHANGED <<team, session, batches, places, items, booked>>
  PROVE  ImportIInv'
<1>1. PICK b \in Nat : b = inventory.batch /\ b # 0
  BY DEF ImportIInv, ImportTypes
<1>2. PICK r : r = [Imports!Idle EXCEPT !.at = "provision", !.batch = inventory.batch]
  OBVIOUS
<1>3. Imports!Idle \in ImportDoing /\ "provision" \in ImportAt /\ inventory.batch \in Nat
  BY <1>1, ImportIdle DEF ImportAt
<1>4. r \in ImportDoing /\ r.at = "provision" /\ r.batch = b
  BY <1>1, <1>2, <1>3 DEF ImportDoing
<1>5. doing' \in [Call -> ImportDoing] /\ doing'[h] = r /\ \A g \in Call \ {h} : doing'[g] = doing[g]
  BY <1>2, <1>4, ImportStep DEF Imports!Confirm
<1>6. UNCHANGED <<inventory, cancelled, team, session, batches, places, items, booked>>
  BY DEF Imports!Confirm
<1>7. b <= Len(batches) /\ b \notin cancelled /\ b \in Imports!Batch
  <2>1. Len(batches) \in Nat /\ Len(batches) <= MaxBatches
    BY DEF ImportIInv, ImportTypes
  <2> QED
    BY <1>1, <2>1, ImportConstants DEF ImportIInv, PromptOK, Imports!Batch
<1>8. importOverlapped \subseteq importOverlapped' /\ importOverlapped' \subseteq importOverlapped \union {b}
  BY <1>1 DEF Imports!Confirm
<1>9. b \notin importOverlapped' => Unbooked(b) /\ \A g \in Call : doing[g].batch # b
  <2> SUFFICES ASSUME b \notin importOverlapped' PROVE Unbooked(b) /\ \A g \in Call : doing[g].batch # b
    OBVIOUS
  <2>1. Imports!Importing(b) = {}
    BY <1>1 DEF Imports!Confirm
  <2>2. \A g \in Call : doing[g].at \in {"provision", "rows"} => doing[g].batch # b
    BY <2>1 DEF Imports!Importing
  <2>3. \A g \in Call : HandlerOK(g) /\ doing[g].at \in ImportAt
    BY DEF ImportIInv, ImportTypes, ImportDoing
  <2> QED
    BY <1>1, <2>2, <2>3 DEF PromptOK, ImportIInv, HandlerOK, ImportAt
<1>10. ImportTypes'
  BY <1>5, <1>6, <1>7, <1>8 DEF ImportIInv, ImportTypes
<1>11. ASSUME NEW g \in Call PROVE HandlerOK(g)'
  <2>1. CASE g = h
    <3>1. b \notin importOverlapped' => AloneWith(h, b)'
      BY <1>5, <1>9 DEF AloneWith
    <3> QED
      BY <1>1, <1>4, <1>5, <1>6, <1>7, <1>9, <2>1, <3>1 DEF HandlerOK, Unbooked
  <2>2. CASE g # h
    <3>1. HandlerOK(g) /\ doing'[g] = doing[g] /\ doing[g].at \in ImportAt
      BY <1>5, <2>2 DEF ImportIInv, ImportTypes, ImportDoing
    <3>2. \A a : AloneWith(g, a) /\ a # b => AloneWith(g, a)'
      BY <1>4, <1>5 DEF AloneWith
    <3>3. doing[g].at = "review" => doing[g].batch # b
      BY <1>1, <3>1 DEF HandlerOK
    <3>4. doing[g].batch \notin importOverlapped' => doing[g].batch # b
      BY <1>9
    <3> QED
      BY <1>6, <1>8, <3>1, <3>2, <3>3, <3>4 DEF HandlerOK, Unbooked
  <2> QED
    BY <2>1, <2>2
<1>12. PromptOK'
  <2>1. (\A g \in Call : doing'[g].at = "rows" => doing'[g].batch # inventory.batch) =>
          \A g \in Call : doing[g].at = "rows" => doing[g].batch # inventory.batch
    BY <1>5, ImportIdle
  <2> QED
    BY <1>6, <2>1 DEF PromptOK, Unbooked, ImportIInv
<1>13. \A a \in Imports!Batch : BatchOK(a)'
  BY <1>6, <1>8 DEF ImportIInv, BatchOK, Unbooked
<1> QED
  BY <1>6, <1>10, <1>11, <1>12, <1>13 DEF ImportIInv

(* The owner answers CANCEL: nothing of an import that does not run is booked. *)
LEMMA CancelStep ==
  ASSUME ImportIInv, inventory.phase = "confirm", inventory' = Imports!Nothing, Imports!ToldCancelled,
         messages' \in Nat,
         UNCHANGED <<team, session, batches, places, items, booked, doing, importOverlapped>>
  PROVE  ImportIInv'
<1>1. PICK b \in Nat : b = inventory.batch /\ b # 0
  BY DEF ImportIInv, ImportTypes
<1>2. ImportTypes'
  BY ImportIdle DEF ImportIInv, ImportTypes
<1>3. b <= Len(batches) /\ b \in Imports!Batch
  <2>1. Len(batches) \in Nat /\ Len(batches) <= MaxBatches
    BY DEF ImportIInv, ImportTypes
  <2> QED
    BY <1>1, <2>1, ImportConstants DEF ImportIInv, PromptOK, Imports!Batch
<1>4. \/ cancelled' = cancelled
      \/ /\ cancelled' = cancelled \union {b} /\ Unbooked(b)
         /\ \A g \in Call : doing[g].batch # b
  <2>1. CASE Imports!Importing(b) = {}
    <3>1. \A g \in Call : doing[g].at \in {"provision", "rows"} => doing[g].batch # b
      BY <2>1 DEF Imports!Importing
    <3>2. \A g \in Call : HandlerOK(g) /\ doing[g].at \in ImportAt
      BY DEF ImportIInv, ImportTypes, ImportDoing
    <3> QED
      BY <1>1, <2>1, <3>1, <3>2 DEF PromptOK, ImportIInv, HandlerOK, ImportAt, Imports!ToldCancelled
  <2> QED
    BY <1>1, <2>1 DEF Imports!ToldCancelled
<1>5. cancelled' \subseteq Imports!Batch
  BY <1>3, <1>4 DEF ImportIInv
<1>6. ASSUME NEW g \in Call PROVE HandlerOK(g)'
  <2>1. HandlerOK(g) /\ doing[g].batch \notin cancelled'
    BY <1>4 DEF ImportIInv, HandlerOK
  <2> QED
    BY <2>1, ImportIdle DEF HandlerOK, Unbooked, AloneWith
<1>7. PromptOK'
  BY ImportIdle DEF PromptOK
<1>8. \A a \in Imports!Batch : BatchOK(a)'
  BY <1>3, <1>4 DEF ImportIInv, BatchOK, Unbooked
<1> QED
  BY <1>2, <1>5, <1>6, <1>7, <1>8 DEF ImportIInv

LEMMA ImportMessageStep ==
  ASSUME ImportIInv, NEW h \in Call, NEW text, Imports!Message(h, text)
  PROVE  ImportIInv'
<1>1. /\ doing[h] = Imports!Idle /\ messages' \in Nat
      /\ UNCHANGED <<batches, places, items, booked>>
  <2>1. Imports!Arrives(h)
    BY DEF Imports!Message
  <2>2. UNCHANGED <<batches, places, items, booked>>
    BY DEF Imports!Message
  <2> QED
    BY <2>1, <2>2 DEF Imports!Arrives, ImportIInv
<1>2. team \in BOOLEAN /\ session \in {"none", "open", "lapsed"}
  BY DEF ImportIInv, ImportTypes
<1>3. CASE /\ inventory' \in {inventory, Imports!Nothing, [phase |-> "upload", batch |-> 0]}
           /\ team' \in BOOLEAN /\ session' \in {"none", "open", "lapsed"}
           /\ UNCHANGED <<doing, importOverlapped, cancelled>>
  BY <1>1, <1>3, PromptedIs
<1>4. CASE inventory.phase = "confirm" /\ Imports!ReviewReply(h, text) /\ UNCHANGED <<team, session>>
  <2>1. CASE text = "confirm" /\ Imports!Confirm(h)
    BY <1>1, <1>4, <2>1, ConfirmStep
  <2>2. CASE inventory' = Imports!Nothing /\ Imports!ToldCancelled /\ UNCHANGED <<doing, importOverlapped>>
    BY <1>1, <1>4, <2>2, CancelStep
  <2>3. CASE UNCHANGED <<inventory, cancelled, doing, importOverlapped>>
    BY <1>1, <1>2, <1>4, <2>3, PromptedIs
  <2> QED
    BY <1>4, <2>1, <2>2, <2>3 DEF Imports!ReviewReply
<1> QED
  BY <1>2, <1>3, <1>4 DEF Imports!Message, Imports!FreeText, Imports!InventoryImportCsv

LEMMA ImportRestartStep ==
  ASSUME ImportIInv, Imports!Restart
  PROVE  ImportIInv'
<1>1. /\ inventory' = Imports!Nothing /\ team' = FALSE /\ doing' = [h \in Call |-> Imports!Idle]
      /\ UNCHANGED <<session, batches, places, items, booked, importOverlapped, cancelled, messages>>
  BY DEF Imports!Restart
<1>2. doing' \in [Call -> ImportDoing] /\ \A h \in Call : doing'[h] = Imports!Idle
  BY <1>1, ImportIdle
<1>3. ImportTypes'
  BY <1>1, <1>2, ImportIdle DEF ImportIInv, ImportTypes
<1>4. \A h \in Call : HandlerOK(h)'
  <2>1. 0 \notin cancelled /\ Len(batches) \in Nat
    BY DEF ImportIInv, ImportTypes, Imports!Batch
  <2> QED
    BY <1>1, <1>2, <2>1, ImportIdle DEF HandlerOK
<1>5. PromptOK'
  BY <1>1, ImportIdle DEF PromptOK
<1>6. \A b \in Imports!Batch : BatchOK(b)'
  BY <1>1 DEF ImportIInv, BatchOK, Unbooked
<1> QED
  BY <1>1, <1>3, <1>4, <1>5, <1>6 DEF ImportIInv

(* Every step of the chat keeps the invariant of its imports. *)
LEMMA NextImport == ImportIInv /\ [Imports!Next]_importState => ImportIInv'
<1> SUFFICES ASSUME ImportIInv, [Imports!Next]_importState PROVE ImportIInv'
  OBVIOUS
<1>1. ASSUME NEW h \in Call, Imports!ImportDone(h) PROVE ImportIInv'
  <2>1. /\ team \in BOOLEAN /\ session \in {"none", "open", "lapsed"} /\ places \in SUBSET Place
             /\ messages \in Nat
        /\ Imports!Nothing.batch = 0
    BY ImportIdle DEF ImportIInv, ImportTypes
  <2> QED
    BY <1>1, <2>1, ReleasedIs, ImportIdle DEF Imports!ImportDone, Imports!Done
<1>2. ASSUME NEW h \in Call, Imports!WebImportDone(h) PROVE ImportIInv'
  <2>1. /\ team \in BOOLEAN /\ session \in {"none", "open", "lapsed"} /\ places \in SUBSET Place
             /\ messages \in Nat
    BY DEF ImportIInv, ImportTypes
  <2> QED
    BY <1>2, <2>1, ReleasedIs, ImportIdle DEF Imports!WebImportDone, Imports!Done
<1>3. CASE Imports!Lapse
  <2>1. team \in BOOLEAN /\ session \in {"none", "open", "lapsed"} /\ messages \in Nat
    BY DEF ImportIInv, ImportTypes
  <2> QED
    BY <1>3, <2>1, PromptedIs DEF Imports!Lapse
<1>4. CASE UNCHANGED importState
  <2>1. team \in BOOLEAN /\ session \in {"none", "open", "lapsed"} /\ messages \in Nat
    BY DEF ImportIInv, ImportTypes
  <2> QED
    BY <1>4, <2>1, PromptedIs DEF importState
<1> QED
  BY <1>1, <1>2, <1>3, <1>4, DownloadedStep, SetReviewStep, ProvisionStep, ProcessRowStep, WebImportStep,
     DocumentStep, ImportMessageStep, ImportRestartStep
  DEF Imports!Next, Imports!HandlerStep

-----------------------------------------------------------------------------
(* The connection to Zoho, for any number of overlapping callbacks, refreshes
   and disconnections and any restarts. *)
(* What TypeOK does not tell. *)
LinkTypes ==
    /\ Connection!TypeOK
    /\ exchanges \in [State -> Nat]
    /\ wish \in 0..MaxGrants
    /\ revived \in BOOLEAN

(* A state that can still be used has been through no exchange and no callback
   has it; of the callbacks that go to Zoho each has its own, for the first
   time. *)
LinkStatesAreSpent ==
    /\ \A s \in State : nonce[s] \in {"unknown", "issued"} =>
        exchanges[s] = 0 /\ \A c \in Call : at[c] = "exchange" => task[c] # s
    /\ \A c \in Call : at[c] = "exchange" =>
        /\ task[c] \in State /\ exchanges[task[c]] = 0
        /\ \A d \in Call : at[d] = "exchange" /\ task[d] = task[c] => d = c

(* The tokens a call holds and the row it will write.  A refresh read an active
   row with a refresh token, and got tokens of the same consent. *)
LinkCallOK(c) ==
    /\ at[c] \in {"idle", "exchange", "findActive", "findReactivatable"} => target[c] = 0
    /\ at[c] = "persist" => target[c] = 0 \/ target[c] \in DOMAIN connection
    /\ at[c] \in {"disconnect", "refresh", "refreshed"} => target[c] \in DOMAIN connection
    /\ at[c] \in {"findActive", "findReactivatable", "persist"} =>
        got[c].access # 0 /\ got[c].refresh \in {0, got[c].access}
    /\ at[c] \in {"refresh", "refreshed"} =>
        read[c].status = "active" /\ ~read[c].fresh /\ read[c].refresh # 0
    /\ at[c] = "refreshed" => got[c] = [access |-> read[c].refresh, refresh |-> read[c].refresh]

(* OwnersWordStands, row by line. *)
LinkInForce(line, w) ==
    IF line.status = "active" THEN w # 0 /\ line.access = w /\ line.refresh \in {0, w}
                             ELSE line.access = 0 /\ line.refresh = 0

LinkWordKept ==
    ~revived =>
        /\ \A r \in DOMAIN connection : LinkInForce(connection[r], wish)
        /\ wish # 0 => \E r \in DOMAIN connection : connection[r].status = "active"

LinkIInv ==
    /\ LinkTypes
    /\ Connection!Admissible(connection)
    /\ LinkStatesAreSpent
    /\ \A s \in State : exchanges[s] <= 1
    /\ \A c \in Call : LinkCallOK(c)
    /\ LinkWordKept

-----------------------------------------------------------------------------
LEMMA LinkLimits ==
  Connection!ConnectionAssumption => /\ "none" \notin State
                          /\ MaxGrants \in Nat /\ MaxLinkRows \in Nat /\ MaxLinkCalls \in Nat
                          /\ MaxAging \in Nat /\ MaxLinkRestarts \in Nat
  BY DEF Connection!ConnectionAssumption

LEMMA LinkBlanks ==
  Connection!ConnectionAssumption => /\ Connection!NoRow \in Connection!Row
                          /\ Connection!NoTokens \in [access : 0..MaxGrants, refresh : 0..MaxGrants]
  BY LinkLimits DEF Connection!NoRow, Connection!Row, Connection!NoTokens

LEMMA LinkInitIInv == Connection!ConnectionAssumption /\ Connection!Init => LinkIInv
<1> SUFFICES ASSUME Connection!ConnectionAssumption, Connection!Init PROVE LinkIInv
  OBVIOUS
<1>1. connection = <<>> /\ DOMAIN connection = {} /\ connection \in Seq(Connection!Row) /\ Len(connection) = 0
  BY EmptySeq DEF Connection!Init
<1>2. LinkTypes
  <2>1. connection \in Seq(Connection!Row) /\ Len(connection) <= MaxLinkRows
    BY <1>1, LinkLimits
  <2>2. /\ nonce \in [State -> {"unknown", "issued", "used", "forgotten"}]
        /\ exchanges \in [State -> Nat]
        /\ lapsed \in SUBSET State
        /\ inventoryStep \in {"pending", "completed", "skipped"}
    BY DEF Connection!Init
  <2>3. /\ task \in [Call -> State \union {"none"}] /\ target \in [Call -> 0..MaxLinkRows]
        /\ read \in [Call -> Connection!Row]
        /\ got \in [Call -> [access : 0..MaxGrants, refresh : 0..MaxGrants]]
    BY LinkLimits, LinkBlanks DEF Connection!Init
  <2>4. grants \in 0..MaxGrants /\ wish \in 0..MaxGrants
    BY LinkLimits DEF Connection!Init
  <2>7. revived \in BOOLEAN
    BY DEF Connection!Init
  <2>6. linkCalls \in 0..MaxLinkCalls /\ aging \in 0..MaxAging /\ linkRestarts \in 0..MaxLinkRestarts
    BY LinkLimits DEF Connection!Init
  <2>5. at \in [Call -> {"idle", "exchange", "findActive", "findReactivatable", "persist", "setup",
                           "disconnect", "refresh", "refreshed"}]
    BY DEF Connection!Init
  <2> QED
    BY <2>1, <2>2, <2>3, <2>4, <2>5, <2>6, <2>7 DEF LinkTypes, Connection!TypeOK
<1> QED
  BY <1>1, <1>2 DEF Connection!Init, LinkIInv, Connection!Admissible, LinkStatesAreSpent, LinkCallOK,
     LinkWordKept, Connection!ConnectionAssumption

(* What a call that returns leaves to the others. *)
LEMMA LinkReturnCallOK ==
  ASSUME LinkTypes, NEW c \in Call, Connection!Return(c), \A d \in Call : LinkCallOK(d),
         DOMAIN connection \subseteq DOMAIN connection'
  PROVE  /\ \A d \in Call : LinkCallOK(d)'
         /\ at'[c] = "idle"
         /\ \A d \in Call \ {c} : at'[d] = at[d] /\ task'[d] = task[d]
  BY DEF LinkTypes, Connection!TypeOK, Connection!Return, Connection!Goto, LinkCallOK

LEMMA LinkReturnTypes ==
  ASSUME Connection!ConnectionAssumption, LinkTypes, NEW c \in Call, Connection!Return(c)
  PROVE  /\ at' \in [Call -> {"idle", "exchange", "findActive", "findReactivatable", "persist", "setup",
                                "disconnect", "refresh", "refreshed"}]
         /\ task' \in [Call -> State \union {"none"}]
         /\ target' \in [Call -> 0..MaxLinkRows]
         /\ read' \in [Call -> Connection!Row]
         /\ got' \in [Call -> [access : 0..MaxGrants, refresh : 0..MaxGrants]]
<1>1. at' = [at EXCEPT ![c] = "idle"] /\ task' = [task EXCEPT ![c] = "none"]
      /\ target' = [target EXCEPT ![c] = 0] /\ read' = [read EXCEPT ![c] = Connection!NoRow]
      /\ got' = [got EXCEPT ![c] = Connection!NoTokens]
  BY DEF Connection!Return, Connection!Goto
<1>2. 0 \in 0..MaxLinkRows
  BY LinkLimits
<1> QED
  BY <1>1, <1>2, LinkBlanks DEF LinkTypes, Connection!TypeOK

(* The states, in a step in which no call goes to Zoho. *)
LEMMA LinkSameStates ==
  ASSUME LinkTypes, LinkStatesAreSpent, nonce' = nonce, exchanges' = exchanges,
         \A d \in Call : at'[d] = "exchange" => at[d] = "exchange" /\ task'[d] = task[d]
  PROVE  LinkStatesAreSpent'
  BY DEF LinkStatesAreSpent

(* Overwriting one line, or adding one. *)
LEMMA LinkWrittenRows ==
  ASSUME NEW r \in {0} \union DOMAIN connection, NEW line \in Connection!Row, connection \in Seq(Connection!Row)
  PROVE  /\ Connection!Written(r, line) \in Seq(Connection!Row)
         /\ DOMAIN connection \subseteq DOMAIN Connection!Written(r, line)
         /\ \E k \in DOMAIN Connection!Written(r, line) :
              /\ Connection!Written(r, line)[k] = line
              /\ \A q \in DOMAIN Connection!Written(r, line) \ {k} :
                    q \in DOMAIN connection /\ Connection!Written(r, line)[q] = connection[q]
<1> DEFINE lines == Connection!Written(r, line)
<1>1. CASE r = 0
  <2>1. lines = Append(connection, line)
    BY <1>1 DEF Connection!Written
  <2> HIDE DEF lines
  <2>2. Len(connection) \in Nat /\ DOMAIN connection = 1..Len(connection)
    OBVIOUS
  <2>3. /\ lines \in Seq(Connection!Row) /\ Len(lines) = Len(connection) + 1
        /\ \A q \in 1..Len(connection) : lines[q] = connection[q]
        /\ lines[Len(connection) + 1] = line /\ DOMAIN lines = 1..(Len(connection) + 1)
    BY <2>1, <2>2, AppendProperties
  <2> QED
    BY <2>2, <2>3 DEF lines
<1>2. CASE r # 0
  <2>1. r \in DOMAIN connection /\ lines = [connection EXCEPT ![r] = line]
    BY <1>2 DEF Connection!Written
  <2> HIDE DEF lines
  <2>2. lines \in Seq(Connection!Row) /\ DOMAIN lines = DOMAIN connection /\ lines[r] = line
    BY <2>1
  <2>3. \A q \in DOMAIN connection \ {r} : lines[q] = connection[q]
    BY <2>1
  <2> QED
    BY <2>1, <2>2, <2>3 DEF lines
<1> QED
  BY <1>1, <1>2

LEMMA LinkBlankRow ==
  ASSUME Connection!ConnectionAssumption, NEW line \in Connection!Row
  PROVE  /\ Connection!Blank(line) \in Connection!Row /\ Connection!Blank(line).status = "disconnected"
         /\ Connection!Blank(line).access = 0 /\ Connection!Blank(line).refresh = 0
<1>1. line.organisation \in BOOLEAN
  BY DEF Connection!Row
<1>2. Connection!NoRow \in Connection!Row /\ Connection!NoRow.status = "disconnected"
      /\ Connection!NoRow.access = 0 /\ Connection!NoRow.refresh = 0
  BY LinkBlanks DEF Connection!NoRow
<1> QED
  BY <1>1, <1>2 DEF Connection!Blank, Connection!Row

LEMMA LinkSameConnection ==
  ASSUME LinkIInv, UNCHANGED <<connection, wish, revived>>
  PROVE  Connection!Admissible(connection)' /\ LinkWordKept'
  BY DEF LinkIInv, Connection!Admissible, LinkWordKept

-----------------------------------------------------------------------------
(* Where a state and its nonce stand. *)
LEMMA LinkStateSteps ==
  ASSUME Connection!ConnectionAssumption, LinkIInv, NEW s \in State,
         Connection!Authorize(s) \/ Connection!StateLapses(s)
  PROVE  LinkIInv'
<1> USE DEF LinkIInv, Connection!ConnectionAssumption, Connection!call, Connection!limits
<1>1. ASSUME Connection!Authorize(s) PROVE LinkIInv'
  <2>1. LinkTypes'
    BY <1>1 DEF Connection!Authorize, LinkTypes, Connection!TypeOK
  <2>2. LinkStatesAreSpent' /\ \A t \in State : exchanges'[t] <= 1
    BY <1>1 DEF Connection!Authorize, LinkStatesAreSpent, LinkTypes, Connection!TypeOK
  <2>3. \A c \in Call : LinkCallOK(c)'
    BY <1>1 DEF Connection!Authorize, LinkCallOK
  <2> QED
    BY <1>1, <2>1, <2>2, <2>3, LinkSameConnection DEF Connection!Authorize
<1>2. ASSUME Connection!StateLapses(s) PROVE LinkIInv'
  <2>1. LinkTypes'
    BY <1>2 DEF Connection!StateLapses, LinkTypes, Connection!TypeOK
  <2>2. LinkStatesAreSpent' /\ \A t \in State : exchanges'[t] <= 1
    BY <1>2 DEF Connection!StateLapses, LinkStatesAreSpent
  <2>3. \A c \in Call : LinkCallOK(c)'
    BY <1>2 DEF Connection!StateLapses, LinkCallOK
  <2> QED
    BY <1>2, <2>1, <2>2, <2>3, LinkSameConnection DEF Connection!StateLapses
<1> QED
  BY <1>1, <1>2

LEMMA LinkCallbackIInv ==
  ASSUME Connection!ConnectionAssumption, LinkIInv, NEW c \in Call, NEW s \in State, Connection!Callback(c, s)
  PROVE  LinkIInv'
<1> USE DEF LinkIInv, Connection!Callback, Connection!Arrives, Connection!StateAccepted, Connection!Goto
<1>1. LinkTypes'
  <2>1. /\ nonce' \in [State -> {"unknown", "issued", "used", "forgotten"}]
        /\ task' \in [Call -> State \union {"none"}]
    BY DEF LinkTypes, Connection!TypeOK
  <2>2. linkCalls' \in 0..MaxLinkCalls
    BY LinkLimits DEF LinkTypes, Connection!TypeOK
  <2> QED
    BY <2>1, <2>2 DEF LinkTypes, Connection!TypeOK
<1>2. LinkStatesAreSpent' /\ \A t \in State : exchanges'[t] <= 1
  <2>1. exchanges[s] = 0 /\ \A d \in Call : at[d] = "exchange" => task[d] # s
    BY DEF LinkStatesAreSpent
  <2>2. /\ nonce' = [nonce EXCEPT ![s] = "used"]
        /\ at' = [at EXCEPT ![c] = "exchange"] /\ task' = [task EXCEPT ![c] = s]
        /\ exchanges' = exchanges
    OBVIOUS
  <2>3. DOMAIN at = Call /\ task \in [Call -> State \union {"none"}]
        /\ nonce \in [State -> {"unknown", "issued", "used", "forgotten"}]
    BY DEF LinkTypes, Connection!TypeOK
  <2>4. \A t \in State : nonce'[t] \in {"unknown", "issued"} =>
          exchanges'[t] = 0 /\ \A d \in Call : at'[d] = "exchange" => task'[d] # t
    BY <2>2, <2>3 DEF LinkStatesAreSpent
  <2>5. \A d \in Call : at'[d] = "exchange" =>
          /\ task'[d] \in State /\ exchanges'[task'[d]] = 0
          /\ \A e \in Call : at'[e] = "exchange" /\ task'[e] = task'[d] => e = d
    BY <2>1, <2>2, <2>3 DEF LinkStatesAreSpent
  <2> QED
    BY <2>2, <2>4, <2>5 DEF LinkStatesAreSpent
<1>3. \A d \in Call : LinkCallOK(d)'
  BY DEF LinkCallOK, LinkTypes, Connection!TypeOK
<1> QED
  BY <1>1, <1>2, <1>3, LinkSameConnection

LEMMA LinkExchangeIInv ==
  ASSUME Connection!ConnectionAssumption, LinkIInv, NEW c \in Call, Connection!Exchange(c)
  PROVE  LinkIInv'
<1> USE DEF LinkIInv
<1>1. /\ at[c] = "exchange" /\ task[c] \in State /\ exchanges[task[c]] = 0
      /\ exchanges' = [exchanges EXCEPT ![task[c]] = @ + 1]
      /\ nonce[task[c]] \notin {"unknown", "issued"}
      /\ UNCHANGED <<connection, inventoryStep, nonce, lapsed, wish, revived, linkCalls, aging, linkRestarts>>
  BY DEF Connection!Exchange, LinkStatesAreSpent, Connection!limits
<1>2. \A d \in Call \ {c} : at'[d] = at[d] /\ task'[d] = task[d]
  BY DEF Connection!Exchange, Connection!Goto, Connection!Return, LinkTypes, Connection!TypeOK
<1>3. at'[c] # "exchange"
  BY DEF Connection!Exchange, Connection!Goto, Connection!Return, LinkTypes, Connection!TypeOK
<1>4. LinkStatesAreSpent' /\ \A t \in State : exchanges'[t] <= 1
  BY <1>1, <1>2, <1>3 DEF LinkStatesAreSpent, LinkTypes
<1>5. exchanges' \in [State -> Nat]
  BY <1>1 DEF LinkTypes
<1>6. CASE Connection!Return(c) /\ UNCHANGED grants
  <2>1. LinkTypes'
    BY <1>1, <1>5, <1>6, LinkReturnTypes DEF LinkTypes, Connection!TypeOK
  <2> QED
    BY <1>1, <1>4, <1>6, <2>1, LinkReturnCallOK, LinkSameConnection
<1>7. CASE /\ grants < MaxGrants
           /\ grants' = grants + 1
           /\ \E refresh \in {0, grants + 1} :
                 got' = [got EXCEPT ![c] = [access |-> grants + 1, refresh |-> refresh]]
           /\ Connection!Goto(c, "findActive")
           /\ UNCHANGED <<task, target, read>>
  <2>1. PICK refresh \in {0, grants + 1} :
          got' = [got EXCEPT ![c] = [access |-> grants + 1, refresh |-> refresh]]
    BY <1>7
  <2>2. grants + 1 \in 0..MaxGrants /\ refresh \in 0..MaxGrants /\ grants + 1 # 0
    <3>1. grants \in Nat /\ grants < MaxGrants
      BY <1>7 DEF LinkTypes, Connection!TypeOK
    <3> QED
      BY <2>1, <3>1, LinkLimits
  <2>3. LinkTypes'
    BY <1>1, <1>5, <1>7, <2>1, <2>2 DEF LinkTypes, Connection!TypeOK, Connection!Goto
  <2>4. \A d \in Call : LinkCallOK(d)'
    BY <1>1, <1>7, <2>1, <2>2 DEF LinkCallOK, LinkTypes, Connection!TypeOK, Connection!Goto
  <2> QED
    BY <1>1, <1>4, <2>3, <2>4, LinkSameConnection
<1> QED
  BY <1>6, <1>7 DEF Connection!Exchange

LEMMA LinkFindIInv ==
  ASSUME Connection!ConnectionAssumption, LinkIInv, NEW c \in Call, Connection!FindActive(c)
         \/ Connection!FindReactivatable(c)
  PROVE  LinkIInv'
<1> USE DEF LinkIInv, Connection!limits
<1>1. /\ at[c] \in {"findActive", "findReactivatable"} /\ target[c] = 0
      /\ at' \in {[at EXCEPT ![c] = "persist"], [at EXCEPT ![c] = "findReactivatable"]}
      /\ target' = target \/ \E r \in DOMAIN connection :
            target' = [target EXCEPT ![c] = r] /\ at' = [at EXCEPT ![c] = "persist"]
      /\ UNCHANGED <<connection, inventoryStep, nonce, lapsed, exchanges, grants, task, read, got, wish,
                      revived, linkCalls, aging, linkRestarts>>
  BY DEF Connection!FindActive, Connection!FindReactivatable, Connection!Active, Connection!Goto, LinkCallOK
<1>2. \A r \in DOMAIN connection : r \in 0..MaxLinkRows
  <2>1. connection \in Seq(Connection!Row) /\ Len(connection) <= MaxLinkRows /\ MaxLinkRows \in Nat
    BY LinkLimits DEF LinkTypes, Connection!TypeOK
  <2> QED
    BY <2>1
<1>3. LinkTypes'
  BY <1>1, <1>2 DEF LinkTypes, Connection!TypeOK
<1>4. LinkStatesAreSpent'
  BY <1>1, LinkSameStates DEF LinkTypes, Connection!TypeOK
<1>5. \A d \in Call : LinkCallOK(d)'
  BY <1>1 DEF LinkCallOK, LinkTypes, Connection!TypeOK
<1> QED
  BY <1>1, <1>3, <1>4, <1>5, LinkSameConnection

LEMMA LinkPersistIInv ==
  ASSUME Connection!ConnectionAssumption, LinkIInv, NEW c \in Call, Connection!Persist(c)
  PROVE  LinkIInv'
<1> USE DEF LinkIInv
<1> DEFINE new == Connection!Connected(got[c])
           lines == Connection!Written(target[c], new)
<1>1. /\ at[c] = "persist"
      /\ target[c] = 0 \/ target[c] \in DOMAIN connection
      /\ got[c].access # 0 /\ got[c].refresh \in {0, got[c].access}
      /\ got[c].access \in 0..MaxGrants /\ got[c].refresh \in 0..MaxGrants
      /\ UNCHANGED <<inventoryStep, nonce, lapsed, exchanges, grants, revived, linkCalls, aging, linkRestarts>>
  BY DEF Connection!Persist, LinkCallOK, LinkTypes, Connection!TypeOK, Connection!limits
<1>2. new \in Connection!Row /\ LinkInForce(new, got[c].access) /\ new.status = "active"
  BY <1>1 DEF Connection!Connected, Connection!Row, LinkInForce
<1>3. /\ lines \in Seq(Connection!Row)
      /\ DOMAIN connection \subseteq DOMAIN lines
      /\ \E k \in DOMAIN lines :
           /\ lines[k] = new
           /\ \A q \in DOMAIN lines \ {k} : q \in DOMAIN connection /\ lines[q] = connection[q]
  <2>1. connection \in Seq(Connection!Row) /\ target[c] \in {0} \union DOMAIN connection
    BY <1>1 DEF LinkTypes, Connection!TypeOK
  <2> HIDE DEF new
  <2> QED
    BY <1>2, <2>1, LinkWrittenRows
<1> HIDE DEF new, lines
<1>4. CASE Connection!Admissible(lines) /\ Len(lines) <= MaxLinkRows
  <2>1. /\ connection' = lines /\ wish' = got[c].access /\ at' = [at EXCEPT ![c] = "setup"]
        /\ UNCHANGED <<task, target, read, got>>
    BY <1>4 DEF Connection!Persist, Connection!Goto, new, lines
  <2>2. LinkTypes'
    BY <1>1, <1>3, <1>4, <2>1 DEF LinkTypes, Connection!TypeOK
  <2>3. LinkStatesAreSpent'
    BY <1>1, <2>1, LinkSameStates DEF LinkTypes, Connection!TypeOK
  <2>4. \A d \in Call : LinkCallOK(d)'
    BY <1>3, <2>1 DEF LinkCallOK, LinkTypes, Connection!TypeOK
  <2>5. Connection!Admissible(connection)'
    BY <1>4, <2>1
  <2>6. PICK k \in DOMAIN lines :
          /\ lines[k] = new
          /\ \A q \in DOMAIN lines \ {k} : q \in DOMAIN connection /\ lines[q] = connection[q]
    BY <1>3
  <2>7. ASSUME ~revived, NEW q \in DOMAIN lines
        PROVE  LinkInForce(lines[q], got[c].access)
    <3>1. CASE q = k
      BY <1>2, <2>6, <3>1
    <3>2. CASE q # k
      <4>1. lines[q].status # "active"
        BY <1>2, <1>4, <2>6, <3>2 DEF Connection!Admissible
      <4>2. LinkInForce(connection[q], wish)
        BY <2>6, <2>7, <3>2 DEF LinkWordKept
      <4> QED
        BY <2>6, <3>2, <4>1, <4>2 DEF LinkInForce
    <3> QED
      BY <3>1, <3>2
  <2>8. LinkWordKept'
    BY <1>1, <1>2, <2>1, <2>6, <2>7 DEF LinkWordKept
  <2> QED
    BY <1>1, <2>2, <2>3, <2>4, <2>5, <2>8
<1>5. CASE ~(Connection!Admissible(lines) /\ Len(lines) <= MaxLinkRows)
  <2>1. Connection!Return(c) /\ UNCHANGED <<connection, wish>>
    BY <1>5 DEF Connection!Persist, new, lines
  <2>2. LinkTypes'
    BY <1>1, <2>1, LinkReturnTypes DEF LinkTypes, Connection!TypeOK
  <2>3. \A d \in Call : LinkCallOK(d)'
    BY <2>1, LinkReturnCallOK
  <2>4. LinkStatesAreSpent'
    BY <1>1, <2>1, LinkReturnCallOK, LinkSameStates
  <2> QED
    BY <1>1, <2>1, <2>2, <2>3, <2>4, LinkSameConnection
<1> QED
  BY <1>4, <1>5

LEMMA LinkSetupIInv ==
  ASSUME Connection!ConnectionAssumption, LinkIInv, NEW c \in Call,
         Connection!CompleteOnboardingInventoryIfPending(c)
  PROVE  LinkIInv'
<1> USE DEF LinkIInv
<1>1. /\ Connection!Return(c) /\ inventoryStep' \in {"completed", inventoryStep}
      /\ at[c] = "setup"
      /\ UNCHANGED <<connection, nonce, lapsed, exchanges, grants, wish, revived, linkCalls, aging,
           linkRestarts>>
  BY DEF Connection!CompleteOnboardingInventoryIfPending, Connection!limits
<1>2. LinkTypes'
  BY <1>1, LinkReturnTypes DEF LinkTypes, Connection!TypeOK
<1>3. \A d \in Call : LinkCallOK(d)'
  BY <1>1, LinkReturnCallOK
<1>4. LinkStatesAreSpent'
  BY <1>1, LinkReturnCallOK, LinkSameStates
<1> QED
  BY <1>1, <1>2, <1>3, <1>4, LinkSameConnection

(* disconnect and refreshConnectionIfNeeded find their line. *)
LEMMA LinkArriveIInv ==
  ASSUME Connection!ConnectionAssumption, LinkIInv, NEW c \in Call, NEW r \in DOMAIN connection,
         Connection!Disconnect(c, r) \/ Connection!Refresh(c, r)
  PROVE  LinkIInv'
<1> USE DEF LinkIInv, Connection!Arrives, Connection!Goto
<1>1. r \in 0..MaxLinkRows /\ connection[r] \in Connection!Row
  BY DEF LinkTypes, Connection!TypeOK, Connection!ConnectionAssumption
<1>2. LinkTypes'
  <2>1. /\ target' = [target EXCEPT ![c] = r]
        /\ at' = [at EXCEPT ![c] = "disconnect"] \/ at' = [at EXCEPT ![c] = "refresh"]
        /\ read' = read \/ read' = [read EXCEPT ![c] = connection[r]]
        /\ linkCalls < MaxLinkCalls /\ linkCalls' = linkCalls + 1
        /\ UNCHANGED <<connection, inventoryStep, nonce, lapsed, exchanges, grants, task, got, wish, revived,
                        aging, linkRestarts>>
    BY DEF Connection!Disconnect, Connection!Refresh
  <2>2. linkCalls' \in 0..MaxLinkCalls
    BY <2>1, LinkLimits DEF LinkTypes, Connection!TypeOK
  <2> QED
    BY <1>1, <2>1, <2>2 DEF LinkTypes, Connection!TypeOK
<1>3. LinkStatesAreSpent'
  <2>1. \A d \in Call : at'[d] = "exchange" => at[d] = "exchange" /\ task'[d] = task[d]
    BY DEF Connection!Disconnect, Connection!Refresh, LinkTypes, Connection!TypeOK
  <2>2. nonce' = nonce /\ exchanges' = exchanges
    BY DEF Connection!Disconnect, Connection!Refresh
  <2> QED
    BY <2>1, <2>2, LinkSameStates
<1>4. \A d \in Call : LinkCallOK(d)'
  <2>1. ASSUME NEW d \in Call \ {c} PROVE LinkCallOK(d)'
    <3>1. /\ at'[d] = at[d] /\ target'[d] = target[d] /\ read'[d] = read[d] /\ got'[d] = got[d]
          /\ connection' = connection
      BY DEF Connection!Disconnect, Connection!Refresh, LinkTypes, Connection!TypeOK
    <3> QED
      BY <3>1 DEF LinkCallOK
  <2>2. CASE Connection!Disconnect(c, r)
    <3>1. at'[c] = "disconnect" /\ target'[c] = r /\ connection' = connection
      BY <2>2 DEF Connection!Disconnect, LinkTypes, Connection!TypeOK
    <3> QED
      BY <2>1, <3>1 DEF LinkCallOK
  <2>3. CASE Connection!Refresh(c, r)
    <3>1. /\ at'[c] = "refresh" /\ target'[c] = r /\ connection' = connection /\ read'[c] = connection[r]
          /\ connection[r].status = "active" /\ ~connection[r].fresh /\ connection[r].refresh # 0
      BY <2>3 DEF Connection!Refresh, Connection!NeedsRefresh, LinkTypes, Connection!TypeOK
    <3> QED
      BY <2>1, <3>1 DEF LinkCallOK
  <2> QED
    BY <2>2, <2>3
<1>5. UNCHANGED <<connection, wish, revived, exchanges>>
  BY DEF Connection!Disconnect, Connection!Refresh
<1> QED
  BY <1>2, <1>3, <1>4, <1>5, LinkSameConnection

LEMMA LinkRefreshedIInv ==
  ASSUME Connection!ConnectionAssumption, LinkIInv, NEW c \in Call, Connection!RefreshAccessToken(c)
  PROVE  LinkIInv'
<1> USE DEF LinkIInv
<1>1. /\ at[c] = "refresh"
      /\ UNCHANGED <<connection, inventoryStep, nonce, lapsed, exchanges, grants, wish, revived,
                      linkCalls, aging, linkRestarts>>
  BY DEF Connection!RefreshAccessToken, Connection!limits
<1>2. CASE Connection!Return(c)
  <2>1. LinkTypes'
    BY <1>1, <1>2, LinkReturnTypes DEF LinkTypes, Connection!TypeOK
  <2>2. \A d \in Call : LinkCallOK(d)'
    BY <1>1, <1>2, LinkReturnCallOK
  <2>3. LinkStatesAreSpent'
    BY <1>1, <1>2, LinkReturnCallOK, LinkSameStates
  <2> QED
    BY <1>1, <2>1, <2>2, <2>3, LinkSameConnection
<1>3. CASE /\ got' = [got EXCEPT ![c] = [access |-> read[c].refresh, refresh |-> read[c].refresh]]
           /\ Connection!Goto(c, "refreshed")
           /\ UNCHANGED <<task, target, read>>
  <2>1. read[c].refresh \in 0..MaxGrants
    BY DEF LinkTypes, Connection!TypeOK, Connection!Row
  <2>2. LinkTypes'
    BY <1>1, <1>3, <2>1 DEF LinkTypes, Connection!TypeOK, Connection!Goto
  <2>3. \A d \in Call : LinkCallOK(d)'
    BY <1>1, <1>3 DEF LinkCallOK, LinkTypes, Connection!TypeOK, Connection!Goto
  <2>4. LinkStatesAreSpent'
    BY <1>1, <1>3, LinkSameStates DEF LinkTypes, Connection!TypeOK, Connection!Goto
  <2> QED
    BY <1>1, <2>2, <2>3, <2>4, LinkSameConnection
<1> QED
  BY <1>2, <1>3 DEF Connection!RefreshAccessToken

LEMMA LinkDisconnectedIInv ==
  ASSUME Connection!ConnectionAssumption, LinkIInv, NEW c \in Call, Connection!SetDisconnected(c)
  PROVE  LinkIInv'
<1> USE DEF LinkIInv
<1> DEFINE r == target[c]
           line == Connection!Blank(connection[r])
<1>1. /\ r \in DOMAIN connection /\ connection[r] \in Connection!Row
      /\ connection' = [connection EXCEPT ![r] = line]
      /\ wish' = IF connection[r].status = "active" THEN 0 ELSE wish
      /\ Connection!Return(c) /\ at[c] = "disconnect"
      /\ UNCHANGED <<inventoryStep, nonce, lapsed, exchanges, grants, revived, linkCalls, aging, linkRestarts>>
  BY DEF Connection!SetDisconnected, LinkCallOK, Connection!Active, LinkTypes, Connection!TypeOK,
     Connection!limits
<1>2. line \in Connection!Row /\ line.status = "disconnected" /\ line.access = 0 /\ line.refresh = 0
  BY <1>1, LinkBlankRow
<1> HIDE DEF r, line
<1>3. /\ connection' \in Seq(Connection!Row) /\ Len(connection') = Len(connection)
      /\ DOMAIN connection' = DOMAIN connection /\ connection'[r] = line
      /\ \A q \in DOMAIN connection \ {r} : connection'[q] = connection[q]
  BY <1>1, <1>2 DEF LinkTypes, Connection!TypeOK
<1>4. LinkTypes'
  <2>1. wish' \in 0..MaxGrants
    BY <1>1, LinkLimits DEF LinkTypes
  <2> QED
    BY <1>1, <1>3, <2>1, LinkReturnTypes DEF LinkTypes, Connection!TypeOK
<1>5. \A d \in Call : LinkCallOK(d)'
  BY <1>1, <1>3, LinkReturnCallOK
<1>6. LinkStatesAreSpent'
  BY <1>1, LinkReturnCallOK, LinkSameStates
<1>7. Connection!Admissible(connection)'
  BY <1>2, <1>3 DEF Connection!Admissible
<1>8. LinkWordKept'
  <2> SUFFICES ASSUME ~revived
               PROVE  /\ \A q \in DOMAIN connection : LinkInForce(connection'[q], wish')
                      /\ wish' # 0 => \E q \in DOMAIN connection : connection'[q].status = "active"
    BY <1>1, <1>3 DEF LinkWordKept
  <2>1. /\ \A q \in DOMAIN connection : LinkInForce(connection[q], wish)
        /\ wish # 0 => \E q \in DOMAIN connection : connection[q].status = "active"
    BY DEF LinkWordKept
  <2>2. CASE connection[r].status = "active"
    <3>1. \A q \in DOMAIN connection \ {r} : connection[q].status # "active"
      BY <1>1, <2>2 DEF Connection!Admissible
    <3> QED
      BY <1>1, <1>2, <1>3, <2>1, <2>2, <3>1 DEF LinkInForce
  <2>3. CASE connection[r].status # "active"
    BY <1>1, <1>2, <1>3, <2>1, <2>3 DEF LinkInForce
  <2> QED
    BY <2>2, <2>3
<1> QED
  BY <1>1, <1>4, <1>5, <1>6, <1>7, <1>8

(* The write of a refresh revives nothing if the row is the one it read. *)
LEMMA LinkWriteRefreshedIInv ==
  ASSUME Connection!ConnectionAssumption, LinkIInv, NEW c \in Call, Connection!WriteRefreshed(c)
  PROVE  LinkIInv'
<1> USE DEF LinkIInv
<1> DEFINE r == target[c]
           line == [status |-> "active", access |-> got[c].access, refresh |-> got[c].refresh,
                   fresh |-> TRUE, organisation |-> read[c].organisation]
           lines == [connection EXCEPT ![r] = line]
<1>1. /\ at[c] = "refreshed" /\ r \in DOMAIN connection /\ connection[r] \in Connection!Row
      /\ read[c] \in Connection!Row /\ read[c].status = "active" /\ read[c].refresh # 0
      /\ got[c] = [access |-> read[c].refresh, refresh |-> read[c].refresh]
      /\ Connection!Return(c)
      /\ UNCHANGED <<inventoryStep, nonce, lapsed, exchanges, grants, wish, linkCalls, aging, linkRestarts>>
  BY DEF Connection!WriteRefreshed, LinkCallOK, LinkTypes, Connection!TypeOK, Connection!limits
<1>2. line \in Connection!Row /\ line.status = "active" /\ line.access = read[c].refresh
        /\ line.refresh = read[c].refresh
  BY <1>1 DEF Connection!Row
<1>3. /\ lines \in Seq(Connection!Row) /\ Len(lines) = Len(connection) /\ DOMAIN lines = DOMAIN connection
      /\ lines[r] = line
      /\ \A q \in DOMAIN connection \ {r} : lines[q] = connection[q]
  <2> HIDE DEF line
  <2> QED
    BY <1>1, <1>2 DEF LinkTypes, Connection!TypeOK
<1>4. IF Connection!Admissible(lines)
      THEN /\ connection' = lines
           /\ revived' = (revived \/ [connection[r] EXCEPT !.fresh = FALSE] # read[c])
      ELSE UNCHANGED <<connection, revived>>
  BY DEF Connection!WriteRefreshed
<1> HIDE DEF r, line, lines
<1>5. LinkTypes'
  BY <1>1, <1>3, <1>4, LinkReturnTypes DEF LinkTypes, Connection!TypeOK
<1>6. \A d \in Call : LinkCallOK(d)'
  BY <1>1, <1>3, <1>4, LinkReturnCallOK
<1>7. LinkStatesAreSpent'
  BY <1>1, <1>3, <1>4, LinkReturnCallOK, LinkSameStates
<1>8. Connection!Admissible(connection)'
  BY <1>4
<1>9. LinkWordKept'
  <2>1. CASE ~Connection!Admissible(lines)
    BY <1>1, <1>4, <2>1, LinkSameConnection
  <2>2. CASE Connection!Admissible(lines)
    <3> SUFFICES ASSUME ~revived, [connection[r] EXCEPT !.fresh = FALSE] = read[c]
                 PROVE  /\ \A q \in DOMAIN lines : LinkInForce(lines[q], wish)
                        /\ wish # 0 => \E q \in DOMAIN lines : lines[q].status = "active"
      BY <1>1, <1>4, <2>2 DEF LinkWordKept, LinkTypes, Connection!TypeOK
    <3>1. connection[r].status = "active" /\ connection[r].refresh = read[c].refresh
      BY <1>1 DEF Connection!Row
    <3>2. LinkInForce(connection[r], wish)
      BY <1>1 DEF LinkWordKept
    <3>3. read[c].refresh = wish /\ wish # 0
      BY <1>1, <3>1, <3>2 DEF LinkInForce
    <3>4. \A q \in DOMAIN lines \ {r} : LinkInForce(lines[q], wish)
      BY <1>3 DEF LinkWordKept
    <3>5. LinkInForce(lines[r], wish) /\ lines[r].status = "active" /\ r \in DOMAIN lines
      BY <1>1, <1>2, <1>3, <3>3 DEF LinkInForce
    <3> QED
      BY <3>4, <3>5
  <2> QED
    BY <2>1, <2>2
<1> QED
  BY <1>1, <1>5, <1>6, <1>7, <1>8, <1>9

-----------------------------------------------------------------------------
(* A token ages or an operator enters the organisation: nothing of the row that
   the rest depends on changes. *)
LEMMA LinkRowTouched ==
  ASSUME Connection!ConnectionAssumption, LinkIInv, NEW r \in DOMAIN connection, NEW line \in Connection!Row,
         connection' = [connection EXCEPT ![r] = line],
         line.status = connection[r].status, line.access = connection[r].access,
         line.refresh = connection[r].refresh,
         aging' \in 0..MaxAging,
         UNCHANGED <<inventoryStep, nonce, lapsed, exchanges, grants, at, task, target, read, got, wish,
                     revived, linkCalls, linkRestarts>>
  PROVE  LinkIInv'
<1> USE DEF LinkIInv
<1>1. /\ connection' \in Seq(Connection!Row) /\ Len(connection') = Len(connection)
      /\ DOMAIN connection' = DOMAIN connection
      /\ \A q \in DOMAIN connection :
            /\ connection'[q].status = connection[q].status
            /\ LinkInForce(connection'[q], wish) <=> LinkInForce(connection[q], wish)
  <2>1. /\ connection' \in Seq(Connection!Row) /\ Len(connection') = Len(connection)
        /\ DOMAIN connection' = DOMAIN connection /\ connection'[r] = line
        /\ \A q \in DOMAIN connection \ {r} : connection'[q] = connection[q]
    BY DEF LinkTypes, Connection!TypeOK
  <2> QED
    BY <2>1 DEF LinkInForce
<1>2. LinkTypes'
  BY <1>1 DEF LinkTypes, Connection!TypeOK
<1>3. \A d \in Call : LinkCallOK(d)'
  BY <1>1 DEF LinkCallOK
<1>4. LinkStatesAreSpent'
  BY LinkSameStates
<1>5. Connection!Admissible(connection)' /\ LinkWordKept'
  BY <1>1 DEF Connection!Admissible, LinkWordKept
<1> QED
  BY <1>2, <1>3, <1>4, <1>5

LEMMA LinkTouchIInv ==
  ASSUME Connection!ConnectionAssumption, LinkIInv,
         Connection!TokenAges \/ \E r \in DOMAIN connection : Connection!SetOrganisation(r)
  PROVE  LinkIInv'
<1>1. \A r \in DOMAIN connection : connection[r] \in Connection!Row
  BY DEF LinkIInv, LinkTypes, Connection!TypeOK
<1>2. CASE Connection!TokenAges
  <2>1. PICK r \in DOMAIN connection : connection' = [connection EXCEPT ![r].fresh = FALSE]
    BY <1>2 DEF Connection!TokenAges, Connection!Active
  <2> DEFINE line == [connection[r] EXCEPT !.fresh = FALSE]
  <2>2. /\ line \in Connection!Row /\ line.status = connection[r].status /\ line.access = connection[r].access
        /\ line.refresh = connection[r].refresh
    BY <1>1 DEF Connection!Row
  <2>3. connection' = [connection EXCEPT ![r] = line]
    BY <2>1
  <2>4. aging' \in 0..MaxAging
    BY <1>2 DEF Connection!TokenAges, LinkIInv, LinkTypes, Connection!TypeOK, Connection!ConnectionAssumption
  <2>5. UNCHANGED <<inventoryStep, nonce, lapsed, exchanges, grants, at, task, target, read, got, wish,
                    revived, linkCalls, linkRestarts>>
    BY <1>2 DEF Connection!TokenAges, Connection!call
  <2> HIDE DEF line
  <2> QED
    BY <2>2, <2>3, <2>4, <2>5, LinkRowTouched
<1>3. ASSUME NEW r \in DOMAIN connection, Connection!SetOrganisation(r) PROVE LinkIInv'
  <2> DEFINE line == [connection[r] EXCEPT !.organisation = TRUE]
  <2>1. /\ line \in Connection!Row /\ line.status = connection[r].status /\ line.access = connection[r].access
        /\ line.refresh = connection[r].refresh
    BY <1>1 DEF Connection!Row
  <2>2. connection' = [connection EXCEPT ![r] = line]
    BY <1>3 DEF Connection!SetOrganisation
  <2>3. aging' \in 0..MaxAging
    BY <1>3 DEF Connection!SetOrganisation, LinkIInv, LinkTypes, Connection!TypeOK, Connection!limits
  <2>4. UNCHANGED <<inventoryStep, nonce, lapsed, exchanges, grants, at, task, target, read, got, wish,
                    revived, linkCalls, linkRestarts>>
    BY <1>3 DEF Connection!SetOrganisation, Connection!call, Connection!limits
  <2> HIDE DEF line
  <2> QED
    BY <2>1, <2>2, <2>3, <2>4, LinkRowTouched
<1> QED
  BY <1>2, <1>3

(* A restart forgets the nonces that were issued, and never makes one new. *)
LEMMA LinkRestartIInv ==
  ASSUME Connection!ConnectionAssumption, LinkIInv, Connection!Restart
  PROVE  LinkIInv'
<1> USE DEF LinkIInv, Connection!Restart
<1>1. LinkTypes'
  BY LinkLimits, LinkBlanks DEF LinkTypes, Connection!TypeOK
<1>2. LinkStatesAreSpent'
  BY DEF LinkStatesAreSpent, LinkTypes, Connection!TypeOK
<1>3. \A d \in Call : LinkCallOK(d)'
  BY DEF LinkCallOK
<1> QED
  BY <1>1, <1>2, <1>3, LinkSameConnection

-----------------------------------------------------------------------------
LEMMA LinkNextIInv == Connection!ConnectionAssumption /\ LinkIInv /\ [Connection!Next]_(Connection!connectionVars) => LinkIInv'
<1> SUFFICES ASSUME Connection!ConnectionAssumption, LinkIInv, [Connection!Next]_(Connection!connectionVars)
                    PROVE LinkIInv'
  OBVIOUS
<1>1. ASSUME NEW c \in Call, Connection!ConnectionStep(c) PROVE LinkIInv'
  BY <1>1, LinkCallbackIInv, LinkExchangeIInv, LinkFindIInv, LinkPersistIInv, LinkSetupIInv, LinkArriveIInv,
     LinkDisconnectedIInv,
     LinkRefreshedIInv, LinkWriteRefreshedIInv DEF Connection!ConnectionStep
<1>2. ASSUME NEW s \in State, Connection!Authorize(s) \/ Connection!StateLapses(s) PROVE LinkIInv'
  BY <1>2, LinkStateSteps
<1>3. CASE Connection!TokenAges \/ \E r \in DOMAIN connection : Connection!SetOrganisation(r)
  BY <1>3, LinkTouchIInv
<1>4. CASE Connection!Restart
  BY <1>4, LinkRestartIInv
<1>5. CASE UNCHANGED Connection!connectionVars
  <2>1. UNCHANGED <<connection, inventoryStep, nonce, lapsed, exchanges, grants, at, task, target, read,
                    got, wish, revived, linkCalls, aging, linkRestarts>>
    BY <1>5 DEF Connection!connectionVars, Connection!call, Connection!limits
  <2>2. LinkTypes'
    BY <2>1 DEF LinkIInv, LinkTypes, Connection!TypeOK
  <2>3. LinkStatesAreSpent'
    BY <2>1, LinkSameStates DEF LinkIInv
  <2>4. \A d \in Call : LinkCallOK(d)'
    BY <2>1 DEF LinkIInv, LinkCallOK
  <2> QED
    BY <2>1, <2>2, <2>3, <2>4, LinkSameConnection DEF LinkIInv
<1> QED
  BY <1>1, <1>2, <1>3, <1>4, <1>5 DEF Connection!Next

LEMMA LinkIInvWord == LinkIInv => Connection!OwnersWordStands
<1> SUFFICES ASSUME LinkIInv, ~revived
             PROVE  /\ {connection[r].access : r \in Connection!Active} = IF wish = 0 THEN {} ELSE {wish}
                    /\ \A r \in DOMAIN connection \ Connection!Active :
                          connection[r].access = 0 /\ connection[r].refresh = 0
                    /\ \A r \in Connection!Active : connection[r].refresh \in {0, wish}
  BY DEF Connection!OwnersWordStands
<1>1. /\ \A r \in DOMAIN connection : LinkInForce(connection[r], wish)
      /\ wish # 0 => \E r \in DOMAIN connection : connection[r].status = "active"
  BY DEF LinkIInv, LinkWordKept
<1>2. \A r \in Connection!Active : wish # 0 /\ connection[r].access = wish
        /\ connection[r].refresh \in {0, wish}
  BY <1>1 DEF Connection!Active, LinkInForce
<1>3. wish # 0 => Connection!Active # {}
  BY <1>1 DEF Connection!Active
<1>4. {connection[r].access : r \in Connection!Active} = IF wish = 0 THEN {} ELSE {wish}
  BY <1>2, <1>3
<1> QED
  BY <1>1, <1>2, <1>4 DEF Connection!Active, LinkInForce

LEMMA LinkIInvHolds == LinkIInv => Connection!StateUsedOnce /\ Connection!OwnersWordStands
  BY LinkIInvWord DEF LinkIInv, Connection!StateUsedOnce

-----------------------------------------------------------------------------
(* The day of a factory (DayBook), for any number of people, issues and
   overlapping calls. *)

DayMark == Days!Mark
DayIssueState == {"open", "resolved", "deleted"}
DayIssue == [by : Person, state : DayIssueState]
DayEditing == {"resolveIssue", "update", "remove"}
DayOfPerson == {"createIssue", "markAttendance", "create", "removeUser"}
DayMarking == {"markAttendance", "create"}
DayOp == DayEditing \union DayOfPerson \union {"idle", "getReport"}
DaySets == DayIssueState \union Days!Mark \union {"none"}
DayAt == {"idle", "read", "write", "workers", "present", "open", "resolved"}
DayFlag == BOOLEAN
DayPersons == Person \union {"nobody"}

DayCall ==
    [op : DayOp, person : DayPersons, issue : Nat, set : DaySets, read : DaySets, at : DayAt,
     counts : Days!Counts, late : DayFlag]

DayTypes ==
    /\ users \subseteq Person
    /\ issues \in Seq(DayIssue) /\ Len(issues) <= MaxIssues
    /\ attendance \in [Person -> Days!Mark \union {"none"}]
    /\ said \in [Person -> Days!Mark \union {"none"}]
    /\ closings \in [Days!Id -> Nat] /\ announced \in [Days!Id -> Nat]
    /\ dayCall \in [Call -> DayCall]

(* A call that changes an issue is about one there is; any other is about a
   person or about nobody. *)
DayAbout(c) ==
    /\ dayCall[c].op \in DayEditing =>
        /\ dayCall[c].person = "nobody" /\ dayCall[c].issue \in DOMAIN issues
        /\ dayCall[c].set \in DayIssueState
    /\ dayCall[c].op \notin DayEditing => dayCall[c].issue = 0
    /\ dayCall[c].op \in DayOfPerson => dayCall[c].person \in Person
    /\ dayCall[c].op \in DayMarking => dayCall[c].set \in Days!Mark

(* What a call that was not overtaken read is still so. *)
DayFresh(c) ==
    /\ dayCall[c].op \in DayEditing /\ dayCall[c].at = "write" =>
        /\ issues[dayCall[c].issue].state = dayCall[c].read
        /\ dayCall[c].read # "deleted"
    /\ dayCall[c].op = "markAttendance" /\ dayCall[c].at = "write"
         => attendance[dayCall[c].person] = dayCall[c].read
    /\ dayCall[c].op \in DayOfPerson => dayCall[c].person \in users
    /\ dayCall[c].op = "getReport" =>
        /\ dayCall[c].at \in {"present", "open", "resolved"} => dayCall[c].counts.workers = Days!Now.workers
        /\ dayCall[c].at \in {"open", "resolved"} => dayCall[c].counts.present = Days!Now.present
        /\ dayCall[c].at = "resolved" => dayCall[c].counts.open = Days!Now.open

DayCallOK(c) ==
    /\ DayAbout(c)
    /\ dayCall[c].at \in {"workers", "present", "open", "resolved"} => dayCall[c].op = "getReport"
    /\ dayCall[c].late = FALSE => DayFresh(c)

DayTold == \A i \in Days!Id : announced[i] = closings[i] \/ <<"nobody", i>> \in contested
DayMarked(p) == attendance[p] = said[p] /\ (p \notin users => Days!NothingLeftOf(p))
DayReported == report.given = report.true \/ report.late = TRUE
DayBounds ==
    /\ contested \subseteq (Person \union {"nobody"}) \X (0..MaxIssues)
    /\ report.given \in Days!Counts /\ report.true \in Days!Counts
    /\ dayCalls \in 0..MaxDayCalls

DayIInv ==
    /\ DayTypes
    /\ \A c \in Call : DayCallOK(c)
    /\ DayTold
    /\ \A p \in Person : <<p, 0>> \notin contested => DayMarked(p)
    /\ DayReported
    /\ DayBounds

-----------------------------------------------------------------------------
LEMMA DayHolds == DayIInv => Days!TypeOK /\ Days!DayBookHolds
<1> SUFFICES ASSUME DayIInv PROVE Days!TypeOK /\ Days!DayBookHolds
  OBVIOUS
<1>1. \A c \in Call : dayCall[c].late \in BOOLEAN /\ dayCall[c].counts \in Days!Counts
  BY DEF DayIInv, DayTypes, DayCall, DayFlag
<1>2. Days!TypeOK
  BY <1>1 DEF DayIInv, DayTypes, DayBounds, Days!TypeOK, DayIssue, DayIssueState
<1> QED
  BY <1>2 DEF DayIInv, Days!DayBookHolds, DayTold, DayMarked, DayReported

LEMMA DayFiniteSets ==
  /\ \A S : Days!IsFiniteSet(S) <=> IsFiniteSet(S)
  /\ \A S : Days!Cardinality(S) = Cardinality(S)
<1>1. ASSUME NEW S PROVE Days!IsFiniteSet(S) <=> IsFiniteSet(S)
  BY DEF Days!IsFiniteSet, IsFiniteSet
<1>2. ASSUME NEW S PROVE Days!Cardinality(S) = Cardinality(S)
  BY DEF Days!Cardinality, Cardinality, Days!IsFiniteSet, IsFiniteSet
<1> QED
  BY <1>1, <1>2

LEMMA DayConstants ==
  ASSUME Days!DayBookAssumption
  PROVE  /\ Worker \subseteq Person /\ "nobody" \notin Person /\ IsFiniteSet(Person)
         /\ MaxIssues \in Nat /\ MaxDayCalls \in Nat
  BY DayFiniteSets DEF Days!DayBookAssumption

LEMMA DayIdle ==
  /\ Days!Idle.op = "idle" /\ Days!Idle.person = "nobody" /\ Days!Idle.issue = 0 /\ Days!Idle.at = "idle"
       /\ Days!Idle.late = FALSE
  BY DEF Days!Idle

LEMMA DayNoCounts ==
  ASSUME Days!DayBookAssumption
  PROVE  Days!NoCounts \in Days!Counts
<1>1. IsFiniteSet(Worker)
  BY DayConstants, FS_Subset
<1>2. Cardinality(Worker) \in Nat /\ Cardinality(Person) \in Nat
  BY <1>1, DayConstants, FS_CardinalityType
<1>3. 0 \in 0..Cardinality(Worker) /\ 0 \in 0..Cardinality(Person) /\ 0 \in 0..MaxIssues
  BY <1>2, DayConstants
<1> QED
  BY <1>3, DayFiniteSets DEF Days!NoCounts, Days!Counts

LEMMA DayIdleType ==
  ASSUME Days!DayBookAssumption
  PROVE  Days!Idle \in DayCall
<1>1. "idle" \in DayOp /\ "nobody" \in DayPersons /\ "none" \in DaySets /\ "idle" \in DayAt /\ FALSE \in DayFlag
  BY DEF DayOp, DayPersons, DaySets, DayAt, DayFlag
<1> QED
  BY <1>1, DayNoCounts DEF Days!Idle, DayCall

(* What is counted is a number of workers, of people or of issues. *)
LEMMA DayNow ==
  ASSUME Days!DayBookAssumption, issues \in Seq(DayIssue), Len(issues) <= MaxIssues
  PROVE  Days!Now \in Days!Counts
<1>1. IsFiniteSet(Worker)
  BY DayConstants, FS_Subset
<1>2. /\ Cardinality(Worker \intersect users) \in 0..Cardinality(Worker)
      /\ Cardinality(Days!Present(Person)) \in 0..Cardinality(Person)
  <2>1. Worker \intersect users \subseteq Worker /\ Days!Present(Person) \subseteq Person
    BY DEF Days!Present
  <2> QED
    BY <1>1, <2>1, DayConstants, FS_Subset, FS_CardinalityType
<1>3. \A s : Cardinality(Days!InState(s)) \in 0..MaxIssues
  <2> TAKE s
  <2>1. Days!InState(s) \subseteq 1..Len(issues) /\ Len(issues) \in Nat
    BY DEF Days!InState
  <2>2. IsFiniteSet(1..Len(issues)) /\ Cardinality(1..Len(issues)) = Len(issues)
    <3>1. IsFiniteSet(1..Len(issues))
      BY <2>1, FS_Interval
    <3>2. Cardinality(1..Len(issues)) = IF 1 > Len(issues) THEN 0 ELSE Len(issues) - 1 + 1
      BY <2>1, FS_Interval
    <3> QED
      BY <2>1, <3>1, <3>2
  <2>3. Cardinality(Days!InState(s)) <= Len(issues) /\ IsFiniteSet(Days!InState(s))
    BY <2>1, <2>2, FS_Subset
  <2> QED
    BY <2>1, <2>3, FS_CardinalityType, DayConstants
<1> QED
  BY <1>2, <1>3, DayFiniteSets DEF Days!Now, Days!Counts

-----------------------------------------------------------------------------
(* Steps that write nothing                                                *)

LEMMA DaySame ==
  ASSUME NEW d \in Call, DayCallOK(d), dayCall'[d] = dayCall[d], UNCHANGED <<users, issues, attendance>>
  PROVE  DayCallOK(d)'
<1>1. Days!Now' = Days!Now
  BY DEF Days!Now, Days!Present, Days!InState
<1>2. DayAbout(d)'
  BY DEF DayCallOK, DayAbout
<1>3. DayFresh(d)' <=> DayFresh(d)
  BY <1>1 DEF DayFresh
<1> QED
  BY <1>2, <1>3 DEF DayCallOK

LEMMA DayIdleOK ==
  ASSUME NEW d \in Call, dayCall'[d] = Days!Idle
  PROVE  DayCallOK(d)'
<1>1. /\ dayCall'[d].op = "idle" /\ dayCall'[d].issue = 0 /\ dayCall'[d].at = "idle"
  BY DayIdle
<1>2. DayAbout(d)'
  BY <1>1 DEF DayAbout, DayEditing, DayOfPerson, DayMarking
<1>3. DayFresh(d)'
  BY <1>1 DEF DayFresh, DayEditing, DayOfPerson
<1> QED
  BY <1>1, <1>2, <1>3 DEF DayCallOK

(* What calls wrote stays as it is. *)
LEMMA DayRests ==
  ASSUME Days!DayBookAssumption, DayIInv, dayCall' \in [Call -> DayCall], \A c \in Call : DayCallOK(c)',
         UNCHANGED <<users, issues, attendance, said, closings, announced, contested, report>>,
         dayCalls' \in 0..MaxDayCalls
  PROVE  DayIInv'
<1>1. DayTypes'
  BY DEF DayIInv, DayTypes
<1>2. DayTold'
  BY DEF DayIInv, DayTold
<1>3. \A p \in Person : DayMarked(p)' <=> DayMarked(p)
  BY DEF DayMarked, Days!NothingLeftOf
<1>4. DayReported'
  BY DEF DayIInv, DayReported
<1>5. DayBounds'
  BY DEF DayIInv, DayBounds
<1> QED
  BY <1>1, <1>2, <1>3, <1>4, <1>5 DEF DayIInv

LEMMA DayBegins ==
  ASSUME Days!DayBookAssumption, DayIInv, NEW c \in Call, NEW what \in DayOp, NEW p \in DayPersons,
         NEW i \in Nat, NEW set \in DaySets, NEW start \in DayAt,
         Days!Begin(c, what, p, i, set, start),
         what \in DayEditing => p = "nobody" /\ i \in DOMAIN issues /\ set \in DayIssueState /\ start = "read",
         what \notin DayEditing => i = 0,
         what \in DayOfPerson => p \in users,
         what \in DayMarking => set \in Days!Mark,
         what = "markAttendance" => start = "read",
         what = "getReport" => start = "workers",
         start \in {"workers", "present", "open", "resolved"} => what = "getReport"
  PROVE  DayIInv'
<1> DEFINE started == [Days!Idle EXCEPT !.op = what, !.person = p, !.issue = i, !.set = set, !.at = start]
<1>1. dayCall' = [dayCall EXCEPT ![c] = started] /\ dayCall \in [Call -> DayCall]
  BY DEF Days!Begin, DayIInv, DayTypes
<1>2. /\ started.op = what /\ started.person = p /\ started.issue = i /\ started.set = set
      /\ started.at = start /\ started \in DayCall
  <2>1. Days!Idle \in DayCall
    BY DayIdleType
  <2>2. PICK r : r = started
    OBVIOUS
  <2>3. r \in DayCall /\ r.op = what /\ r.person = p /\ r.issue = i /\ r.set = set /\ r.at = start
    BY <2>1, <2>2 DEF DayCall
  <2> QED
    BY <2>2, <2>3
<1> HIDE DEF started
<1>3. dayCall' \in [Call -> DayCall] /\ dayCall'[c] = started
  BY <1>1, <1>2
<1>4. DayCallOK(c)'
  <2>1. DayAbout(c)'
    <3>1. UNCHANGED issues /\ users \subseteq Person
      BY DEF Days!Begin, DayIInv, DayTypes
    <3> QED
      BY <1>2, <1>3, <3>1 DEF DayAbout
  <2>2. DayFresh(c)'
    <3>1. UNCHANGED users
      BY DEF Days!Begin
    <3> QED
      BY <1>2, <1>3, <3>1 DEF DayFresh, DayEditing, DayOfPerson
  <2> QED
    BY <1>2, <1>3, <2>1, <2>2 DEF DayCallOK
<1>5. ASSUME NEW d \in Call, d # c
      PROVE  DayCallOK(d)'
  <2>1. dayCall'[d] = dayCall[d] /\ DayCallOK(d)
    BY <1>1, <1>5 DEF DayIInv
  <2> QED
    BY <2>1, DaySame DEF Days!Begin
<1>6. \A d \in Call : DayCallOK(d)'
  BY <1>4, <1>5
<1>7. dayCalls' \in 0..MaxDayCalls
  BY DayConstants DEF Days!Begin, DayIInv, DayBounds
<1> QED
  BY <1>3, <1>6, <1>7, DayRests DEF Days!Begin

(* A call ends without a write. *)
LEMMA DayDrops ==
  ASSUME Days!DayBookAssumption, DayIInv, NEW c \in Call, Days!Dropped(c),
         UNCHANGED <<users, issues, attendance, said, closings, announced, contested, report, dayCalls>>
  PROVE  DayIInv'
<1>1. dayCall' = [dayCall EXCEPT ![c] = Days!Idle] /\ dayCall \in [Call -> DayCall]
  BY DEF Days!Dropped, DayIInv, DayTypes
<1>2. dayCall' \in [Call -> DayCall] /\ dayCall'[c] = Days!Idle
  BY <1>1, DayIdleType
<1>3. ASSUME NEW d \in Call, d # c
      PROVE  DayCallOK(d)'
  <2>1. dayCall'[d] = dayCall[d] /\ DayCallOK(d)
    BY <1>1, <1>3 DEF DayIInv
  <2> QED
    BY <2>1, DaySame
<1>4. \A d \in Call : DayCallOK(d)'
  BY <1>2, <1>3, DayIdleOK
<1> QED
  BY <1>2, <1>4, DayRests DEF DayIInv, DayBounds

(* A call reads; what it read is still there. *)
LEMMA DayReads ==
  ASSUME Days!DayBookAssumption, DayIInv, NEW c \in Call, NEW value \in DaySets, Days!Reads(c, value),
         UNCHANGED <<users, issues, attendance, said, closings, announced, contested, report, dayCalls>>,
         dayCall[c].at = "read",
         dayCall[c].op \in DayEditing => value = issues[dayCall[c].issue].state /\ value # "deleted",
         dayCall[c].op = "markAttendance" => value = attendance[dayCall[c].person]
  PROVE  DayIInv'
<1> DEFINE left == [dayCall[c] EXCEPT !.read = value, !.at = "write"]
<1>1. dayCall \in [Call -> DayCall] /\ dayCall[c] \in DayCall /\ DayCallOK(c)
  BY DEF DayIInv, DayTypes
<1>2. dayCall' = [dayCall EXCEPT ![c] = left]
  BY <1>1 DEF Days!Reads
<1>3. /\ left \in DayCall /\ left.op = dayCall[c].op /\ left.person = dayCall[c].person
      /\ left.issue = dayCall[c].issue /\ left.set = dayCall[c].set /\ left.read = value /\ left.at = "write"
      /\ left.late = dayCall[c].late /\ left.counts = dayCall[c].counts
  <2>1. PICK r : r = left
    OBVIOUS
  <2>2. "write" \in DayAt
    BY DEF DayAt
  <2>3. /\ r \in DayCall /\ r.op = dayCall[c].op /\ r.person = dayCall[c].person /\ r.issue = dayCall[c].issue
        /\ r.set = dayCall[c].set /\ r.read = value /\ r.at = "write" /\ r.late = dayCall[c].late
        /\ r.counts = dayCall[c].counts
    BY <1>1, <2>1, <2>2 DEF DayCall
  <2> QED
    BY <2>1, <2>3
<1> HIDE DEF left
<1>4. dayCall' \in [Call -> DayCall] /\ dayCall'[c] = left
  BY <1>1, <1>2, <1>3
<1>5. DayCallOK(c)'
  <2>1. DayAbout(c)'
    BY <1>1, <1>3, <1>4 DEF DayCallOK, DayAbout
  <2>2. dayCall[c].late = FALSE => DayFresh(c)'
    BY <1>1, <1>3, <1>4 DEF DayCallOK, DayFresh
  <2> QED
    BY <1>3, <1>4, <2>1, <2>2 DEF DayCallOK
<1>6. ASSUME NEW d \in Call, d # c
      PROVE  DayCallOK(d)'
  <2>1. dayCall'[d] = dayCall[d] /\ DayCallOK(d)
    BY <1>1, <1>2, <1>6 DEF DayIInv
  <2> QED
    BY <2>1, DaySame
<1>7. \A d \in Call : DayCallOK(d)'
  BY <1>5, <1>6
<1> QED
  BY <1>4, <1>7, DayRests DEF DayIInv, DayBounds

(* Another number of the report. *)
LEMMA DayCounts ==
  ASSUME Days!DayBookAssumption, DayIInv, NEW c \in Call,
         NEW what \in {"workers", "present", "open"}, NEW next \in DayAt,
         Days!Count(c, what, next),
         \/ what = "workers" /\ next = "present"
         \/ what = "present" /\ next = "open"
         \/ what = "open" /\ next = "resolved"
  PROVE  DayIInv'
<1> DEFINE left == [dayCall[c] EXCEPT !.counts = [@ EXCEPT ![what] = Days!Now[what]], !.at = next]
<1>1. dayCall \in [Call -> DayCall] /\ dayCall[c] \in DayCall /\ DayCallOK(c)
  BY DEF DayIInv, DayTypes
<1>2. dayCall' = [dayCall EXCEPT ![c] = left]
  BY <1>1 DEF Days!Count
<1>3. Days!Now \in Days!Counts
  BY DayNow DEF DayIInv, DayTypes
<1>4. dayCall[c].op = "getReport" /\ dayCall[c].at = what
  BY <1>1 DEF DayCallOK, Days!Count
<1>5. PICK n : n = [dayCall[c].counts EXCEPT ![what] = Days!Now[what]]
  OBVIOUS
<1>6. /\ n \in Days!Counts /\ n[what] = Days!Now[what]
      /\ \A other \in {"workers", "present", "open", "resolved"} : other # what
           => n[other] = dayCall[c].counts[other]
  <2>1. dayCall[c].counts \in Days!Counts
    BY <1>1 DEF DayCall
  <2>2. CASE what = "workers"
    BY <1>3, <1>5, <2>1, <2>2 DEF Days!Counts
  <2>3. CASE what = "present"
    BY <1>3, <1>5, <2>1, <2>3 DEF Days!Counts
  <2>4. CASE what = "open"
    BY <1>3, <1>5, <2>1, <2>4 DEF Days!Counts
  <2> QED
    BY <2>2, <2>3, <2>4
<1>7. /\ left \in DayCall /\ left.op = dayCall[c].op /\ left.person = dayCall[c].person
      /\ left.issue = dayCall[c].issue /\ left.set = dayCall[c].set /\ left.at = next
      /\ left.late = dayCall[c].late /\ left.counts = n
  <2>1. PICK r : r = [dayCall[c] EXCEPT !.counts = n, !.at = next]
    OBVIOUS
  <2>2. /\ r \in DayCall /\ r.op = dayCall[c].op /\ r.person = dayCall[c].person /\ r.issue = dayCall[c].issue
        /\ r.set = dayCall[c].set /\ r.at = next /\ r.late = dayCall[c].late /\ r.counts = n
    BY <1>1, <1>6, <2>1 DEF DayCall
  <2>3. left = r
    BY <1>5, <2>1
  <2> QED
    BY <2>2, <2>3
<1> HIDE DEF left
<1>8. dayCall' \in [Call -> DayCall] /\ dayCall'[c] = left
  BY <1>1, <1>2, <1>7
<1>9. Days!Now' = Days!Now
  BY DEF Days!Count, Days!Now, Days!Present, Days!InState
<1>10. DayCallOK(c)'
  <2>1. DayAbout(c)'
    BY <1>1, <1>4, <1>7, <1>8 DEF DayAbout, DayEditing, DayOfPerson, DayMarking, DayCallOK
  <2>2. dayCall[c].late = FALSE => DayFresh(c)'
    <3>1. ASSUME dayCall[c].late = FALSE PROVE DayFresh(c)
      BY <1>1, <3>1 DEF DayCallOK
    <3>2. CASE what = "workers" /\ next = "present"
      BY <1>4, <1>6, <1>7, <1>8, <1>9, <3>2 DEF DayFresh, DayEditing, DayOfPerson
    <3>3. CASE what = "present" /\ next = "open"
      BY <1>4, <1>6, <1>7, <1>8, <1>9, <3>1, <3>3 DEF DayFresh, DayEditing, DayOfPerson
    <3>4. CASE what = "open" /\ next = "resolved"
      BY <1>4, <1>6, <1>7, <1>8, <1>9, <3>1, <3>4 DEF DayFresh, DayEditing, DayOfPerson
    <3> QED
      BY <3>2, <3>3, <3>4
  <2> QED
    BY <1>4, <1>7, <1>8, <2>1, <2>2 DEF DayCallOK
<1>11. ASSUME NEW d \in Call, d # c
       PROVE  DayCallOK(d)'
  <2>1. dayCall'[d] = dayCall[d] /\ DayCallOK(d)
    BY <1>1, <1>2, <1>11 DEF DayIInv
  <2> QED
    BY <2>1, DaySame DEF Days!Count
<1>12. \A d \in Call : DayCallOK(d)'
  BY <1>10, <1>11
<1> QED
  BY <1>8, <1>12, DayRests DEF Days!Count, DayIInv, DayBounds

-----------------------------------------------------------------------------
(* Steps that write                                                        *)

(* A call that wrote is over, and those it reaches are overtaken. *)
LEMMA DayWrites ==
  ASSUME Days!DayBookAssumption, DayIInv, NEW c \in Call, Days!Written(c)
  PROVE  /\ dayCall' \in [Call -> DayCall] /\ dayCall'[c] = Days!Idle
         /\ \A d \in Call \ {c} :
                /\ \/ dayCall'[d] = dayCall[d]
                   \/ dayCall'[d] = [dayCall[d] EXCEPT !.late = TRUE]
                /\ dayCall[d].op # "idle" /\ Days!Touches(c, d) => dayCall'[d].late = TRUE
         /\ dayCall[c].late = TRUE => Days!About(c) \in contested'
         /\ contested \subseteq contested' /\ contested' \subseteq contested \union {Days!About(c)}
         /\ dayCall[c].late = FALSE => contested' = contested
<1>1. dayCall \in [Call -> DayCall]
  BY DEF DayIInv, DayTypes
<1>2. \A d \in Call : [dayCall[d] EXCEPT !.late = TRUE] \in DayCall
        /\ [dayCall[d] EXCEPT !.late = TRUE].late = TRUE
  <2> TAKE d \in Call
  <2>1. dayCall[d] \in DayCall /\ TRUE \in DayFlag
    BY <1>1 DEF DayFlag
  <2>2. PICK r : r = [dayCall[d] EXCEPT !.late = TRUE]
    OBVIOUS
  <2>3. r \in DayCall /\ r.late = TRUE
    BY <2>1, <2>2 DEF DayCall
  <2> QED
    BY <2>2, <2>3
<1>3. \A d \in Call : dayCall'[d] = IF d = c THEN Days!Idle
                                  ELSE IF dayCall[d] # Days!Idle
                                       /\ Days!Touches(c, d) THEN [dayCall[d] EXCEPT !.late = TRUE]
                                  ELSE dayCall[d]
  BY DEF Days!Written
<1>4. dayCall' \in [Call -> DayCall]
  <2>1. \A d \in Call : dayCall'[d] \in DayCall
    BY <1>1, <1>2, <1>3, DayIdleType
  <2>2. dayCall' = [d \in Call |-> dayCall'[d]]
    BY DEF Days!Written
  <2> QED
    BY <2>1, <2>2
<1>5. \A d \in Call \ {c} : dayCall[d].op # "idle" /\ Days!Touches(c, d) => dayCall'[d].late = TRUE
  <2> TAKE d \in Call \ {c}
  <2>1. dayCall[d].op # "idle" => dayCall[d] # Days!Idle
    BY DayIdle
  <2> QED
    BY <1>2, <1>3, <2>1
<1>6. /\ dayCall[c].late = TRUE => Days!About(c) \in contested'
      /\ contested \subseteq contested' /\ contested' \subseteq contested \union {Days!About(c)}
      /\ dayCall[c].late = FALSE => contested' = contested
  BY DEF Days!Written
<1> QED
  BY <1>3, <1>4, <1>5, <1>6

(* A call that is late anyway has to be about something still. *)
LEMMA DayOvertaken ==
  ASSUME NEW d \in Call, dayCall \in [Call -> DayCall], DayCallOK(d), DOMAIN issues \subseteq DOMAIN issues',
         \/ dayCall'[d] = dayCall[d]
         \/ dayCall'[d] = [dayCall[d] EXCEPT !.late = TRUE]
  PROVE  /\ DayAbout(d)' /\ dayCall'[d].op = dayCall[d].op /\ dayCall'[d].person = dayCall[d].person
         /\ dayCall'[d].issue = dayCall[d].issue /\ dayCall'[d].read = dayCall[d].read
              /\ dayCall'[d].at = dayCall[d].at
         /\ dayCall'[d].counts = dayCall[d].counts
         /\ dayCall'[d].late = FALSE => dayCall'[d] = dayCall[d]
<1>1. dayCall[d] \in DayCall
  OBVIOUS
<1>2. /\ dayCall'[d].op = dayCall[d].op /\ dayCall'[d].person = dayCall[d].person
      /\ dayCall'[d].issue = dayCall[d].issue /\ dayCall'[d].read = dayCall[d].read
           /\ dayCall'[d].at = dayCall[d].at
      /\ dayCall'[d].counts = dayCall[d].counts /\ dayCall'[d].set = dayCall[d].set
      /\ dayCall'[d].late = FALSE => dayCall'[d] = dayCall[d]
  BY <1>1 DEF DayCall
<1>3. DayAbout(d)'
  BY <1>2 DEF DayCallOK, DayAbout
<1> QED
  BY <1>2, <1>3

(* The others, after a write: a report is overtaken by any write, so only what a
   call about an issue or a person read has to be looked at. *)
LEMMA DayOthers ==
  ASSUME Days!DayBookAssumption, DayIInv, NEW c \in Call, Days!Written(c), NEW d \in Call, d # c,
         DOMAIN issues \subseteq DOMAIN issues',
         dayCall[d].op \in DayEditing /\ dayCall[d].issue \in DOMAIN issues /\ ~Days!Touches(c, d) =>
             issues'[dayCall[d].issue].state = issues[dayCall[d].issue].state,
         dayCall[d].op \in DayOfPerson /\ dayCall[d].person \in Person /\ ~Days!Touches(c, d) =>
             (dayCall[d].op = "markAttendance" => attendance'[dayCall[d].person] = attendance[dayCall[d].person])
             /\ (dayCall[d].person \in users => dayCall[d].person \in users')
  PROVE  DayCallOK(d)'
<1>1. /\ \/ dayCall'[d] = dayCall[d]
         \/ dayCall'[d] = [dayCall[d] EXCEPT !.late = TRUE]
      /\ dayCall[d].op # "idle" /\ Days!Touches(c, d) => dayCall'[d].late = TRUE
  BY DayWrites
<1>2. dayCall \in [Call -> DayCall] /\ DayCallOK(d)
  BY DEF DayIInv, DayTypes
<1>3. /\ DayAbout(d)' /\ dayCall'[d].op = dayCall[d].op /\ dayCall'[d].at = dayCall[d].at
      /\ dayCall'[d].late = FALSE => dayCall'[d] = dayCall[d]
  BY <1>1, <1>2, DayOvertaken
<1>4. ASSUME dayCall'[d].late = FALSE
      PROVE  DayFresh(d)'
  <2>1. dayCall'[d] = dayCall[d] /\ DayFresh(d) /\ DayAbout(d)
    BY <1>2, <1>3, <1>4 DEF DayCallOK
  <2>2. dayCall[d].op = "idle" \/ ~Days!Touches(c, d)
    BY <1>1, <1>4
  <2>3. dayCall[d].op # "getReport"
    BY <2>2 DEF Days!Touches
  <2>4. CASE dayCall[d].op = "idle"
    BY <2>1, <2>4 DEF DayFresh, DayEditing, DayOfPerson
  <2>5. CASE dayCall[d].op \in DayEditing
    <3>1. issues'[dayCall[d].issue].state = issues[dayCall[d].issue].state /\ dayCall[d].op \notin DayOfPerson
          /\ dayCall[d].op # "markAttendance"
      BY <2>1, <2>2, <2>5 DEF DayAbout, DayEditing, DayOfPerson
    <3> QED
      BY <2>1, <2>3, <2>5, <3>1 DEF DayFresh
  <2>6. CASE dayCall[d].op \in DayOfPerson
    <3>1. /\ dayCall[d].op \notin DayEditing /\ dayCall[d].op # "idle" /\ dayCall[d].person \in Person
          /\ dayCall[d].person \in users
      BY <2>1, <2>6 DEF DayAbout, DayFresh, DayEditing, DayOfPerson
    <3>2. /\ dayCall[d].op = "markAttendance" => attendance'[dayCall[d].person] = attendance[dayCall[d].person]
          /\ dayCall[d].person \in users'
      BY <2>2, <2>6, <3>1
    <3> QED
      BY <2>1, <2>3, <3>1, <3>2 DEF DayFresh
  <2>7. dayCall[d].op \in DayOp
    BY <1>2 DEF DayCall
  <2> QED
    BY <2>3, <2>4, <2>5, <2>6, <2>7 DEF DayOp
<1> QED
  BY <1>2, <1>3, <1>4 DEF DayCallOK

(* What is to be shown of a write. *)
LEMMA DayWritten ==
  ASSUME Days!DayBookAssumption, DayIInv, NEW c \in Call, Days!Written(c), UNCHANGED <<report, dayCalls>>,
         issues' \in Seq(DayIssue), Len(issues') <= MaxIssues, users' \subseteq Person,
         attendance' \in [Person -> Days!Mark \union {"none"}], said' \in [Person -> Days!Mark \union {"none"}],
         closings' \in [Days!Id -> Nat], announced' \in [Days!Id -> Nat],
         \A d \in Call \ {c} : DayCallOK(d)',
         DayTold',
         \A p \in Person : <<p, 0>> \notin contested' => DayMarked(p)'
  PROVE  DayIInv'
<1>1. dayCall' \in [Call -> DayCall] /\ dayCall'[c] = Days!Idle
  BY DayWrites
<1>2. \A d \in Call : DayCallOK(d)'
  BY <1>1, DayIdleOK
<1>3. DayTypes'
  BY <1>1 DEF DayTypes
<1>4. DayReported'
  BY DEF DayIInv, DayReported
<1>5. Days!About(c) \in (Person \union {"nobody"}) \X (0..MaxIssues)
  <2>1. DayCallOK(c) /\ dayCall[c] \in DayCall /\ issues \in Seq(DayIssue) /\ Len(issues) <= MaxIssues
        /\ MaxIssues \in Nat
    BY DayConstants DEF DayIInv, DayTypes
  <2>2. dayCall[c].person \in Person \union {"nobody"}
    BY <2>1 DEF DayCall, DayPersons
  <2>3. dayCall[c].issue \in 0..MaxIssues
    BY <2>1 DEF DayCallOK, DayAbout
  <2> QED
    BY <2>2, <2>3 DEF Days!About
<1>6. DayBounds'
  BY <1>5, DayWrites DEF DayIInv, DayBounds
<1> QED
  BY <1>2, <1>3, <1>4, <1>6 DEF DayIInv

LEMMA DayStores ==
  ASSUME Days!DayBookAssumption, DayIInv, NEW c \in Call, Days!StoreIssue(c)
  PROVE  DayIInv'
<1> DEFINE line == [by |-> dayCall[c].person, state |-> "open"]
<1>1. /\ dayCall[c].op = "createIssue" /\ dayCall[c].at = "write" /\ Len(issues) < MaxIssues
      /\ issues' = Append(issues, line) /\ Days!Written(c)
      /\ UNCHANGED <<users, attendance, said, closings, announced, report, dayCalls>>
  BY DEF Days!StoreIssue
<1>2. DayTypes /\ DayCallOK(c) /\ DayTold /\ MaxIssues \in Nat
  BY DayConstants DEF DayIInv
<1>3. dayCall[c].person \in Person /\ dayCall[c].issue = 0
      /\ (dayCall[c].late = FALSE => dayCall[c].person \in users)
  BY <1>1, <1>2 DEF DayCallOK, DayAbout, DayFresh, DayOfPerson, DayEditing
<1>4. line \in DayIssue
  BY <1>3 DEF DayIssue, DayIssueState
<1> HIDE DEF line
<1>5. /\ issues' \in Seq(DayIssue) /\ Len(issues') = Len(issues) + 1
      /\ Len(issues') <= MaxIssues /\ DOMAIN issues \subseteq DOMAIN issues'
      /\ DOMAIN issues' = DOMAIN issues \union {Len(issues) + 1}
      /\ \A i \in DOMAIN issues : issues'[i] = issues[i]
      /\ issues'[Len(issues) + 1] = line
  BY <1>1, <1>2, <1>4 DEF DayTypes
<1>6. \A d \in Call \ {c} : DayCallOK(d)'
  BY <1>1, <1>5, DayOthers
<1>7. contested \subseteq contested' /\ (dayCall[c].late = TRUE => <<dayCall[c].person, 0>> \in contested')
  BY <1>1, <1>3, DayWrites DEF Days!About
<1>8. DayTold'
  BY <1>1, <1>2, <1>7 DEF DayTold
<1>9. ASSUME NEW p \in Person, <<p, 0>> \notin contested'
      PROVE  DayMarked(p)'
  <2>1. DayMarked(p)
    BY <1>7, <1>9 DEF DayIInv
  <2>2. ASSUME p \notin users PROVE Days!NothingLeftOf(p)'
    <3>1. dayCall[c].late \in BOOLEAN
      BY <1>2 DEF DayTypes, DayCall, DayFlag
    <3>2. p # dayCall[c].person
      BY <1>3, <1>7, <1>9, <2>2, <3>1
    <3>3. line.by = dayCall[c].person
      BY DEF line
    <3> QED
      BY <1>1, <1>5, <2>1, <2>2, <3>2, <3>3 DEF DayMarked, Days!NothingLeftOf
  <2> QED
    BY <1>1, <2>1, <2>2 DEF DayMarked
<1> QED
  BY <1>1, <1>2, <1>5, <1>6, <1>8, <1>9, DayWritten DEF DayTypes

(* The row of an issue, as an update leaves it. *)
LEMMA DayPatched ==
  ASSUME issues \in Seq(DayIssue), NEW i \in DOMAIN issues, NEW s \in DayIssueState, NEW next,
         next = [issues EXCEPT ![i].state = s]
  PROVE  /\ next \in Seq(DayIssue) /\ Len(next) = Len(issues) /\ DOMAIN next = DOMAIN issues
         /\ \A j \in DOMAIN issues : next[j].by = issues[j].by
         /\ next[i].state = s /\ \A j \in DOMAIN issues \ {i} : next[j] = issues[j]
<1>1. PICK r : r = [issues[i] EXCEPT !.state = s]
  OBVIOUS
<1>2. issues[i] \in DayIssue
  OBVIOUS
<1>3. r \in DayIssue /\ r.by = issues[i].by /\ r.state = s
  BY <1>1, <1>2 DEF DayIssue
<1>4. next = [issues EXCEPT ![i] = r]
  BY <1>1
<1>5. next \in Seq(DayIssue) /\ Len(next) = Len(issues) /\ DOMAIN next = DOMAIN issues
  BY <1>3, <1>4
<1> QED
  BY <1>3, <1>4, <1>5

LEMMA DayEdits ==
  ASSUME Days!DayBookAssumption, DayIInv, NEW c \in Call, Days!WriteIssue(c)
  PROVE  DayIInv'
<1> DEFINE i == dayCall[c].issue
           writes == dayCall[c].set # dayCall[c].read /\ issues[i].state # "deleted"
<1>1. /\ dayCall[c].op \in DayEditing /\ dayCall[c].at = "write" /\ Days!Written(c)
      /\ issues' = IF writes THEN [issues EXCEPT ![i].state = dayCall[c].set] ELSE issues
      /\ closings' = IF writes /\ dayCall[c].set = "resolved" /\ issues[i].state = "open"
                     THEN [closings EXCEPT ![i] = @ + 1] ELSE closings
      /\ announced' = IF dayCall[c].set = "resolved" /\ dayCall[c].read = "open"
                      THEN [announced EXCEPT ![i] = @ + 1] ELSE announced
      /\ UNCHANGED <<users, attendance, said, report, dayCalls>>
  BY DEF Days!WriteIssue, Days!Changes, Days!Announces, DayEditing
<1>2. DayTypes /\ DayCallOK(c) /\ DayTold /\ MaxIssues \in Nat
  BY DayConstants DEF DayIInv
<1>3. /\ i \in DOMAIN issues /\ dayCall[c].person = "nobody" /\ dayCall[c].set \in DayIssueState
      /\ dayCall[c].late = FALSE => issues[i].state = dayCall[c].read /\ dayCall[c].read # "deleted"
  BY <1>1, <1>2 DEF DayCallOK, DayAbout, DayFresh
<1>4. i \in Days!Id
  BY <1>2, <1>3 DEF DayTypes, Days!Id
<1>5. /\ issues' \in Seq(DayIssue) /\ Len(issues') = Len(issues) /\ DOMAIN issues' = DOMAIN issues
      /\ \A j \in DOMAIN issues : issues'[j].by = issues[j].by
      /\ \A j \in DOMAIN issues \ {i} : issues'[j] = issues[j]
      /\ issues[i].state = "deleted" => issues' = issues
  <2>1. CASE writes
    <3>1. issues' = [issues EXCEPT ![i].state = dayCall[c].set]
      BY <1>1, <2>1
    <3>2. /\ issues' \in Seq(DayIssue) /\ Len(issues') = Len(issues) /\ DOMAIN issues' = DOMAIN issues
          /\ \A j \in DOMAIN issues : issues'[j].by = issues[j].by
          /\ \A j \in DOMAIN issues \ {i} : issues'[j] = issues[j]
      <4>1. issues \in Seq(DayIssue)
        BY <1>2 DEF DayTypes
      <4>2. PICK next : next = [issues EXCEPT ![i].state = dayCall[c].set]
        OBVIOUS
      <4> HIDE DEF i
      <4>3. /\ next \in Seq(DayIssue) /\ Len(next) = Len(issues) /\ DOMAIN next = DOMAIN issues
            /\ \A j \in DOMAIN issues : next[j].by = issues[j].by
            /\ \A j \in DOMAIN issues \ {i} : next[j] = issues[j]
        BY <1>3, <4>1, <4>2, DayPatched
      <4>4. issues' = next
        BY <3>1, <4>2
      <4> QED
        BY <4>3, <4>4
    <3> QED
      BY <2>1, <3>2
  <2>2. CASE ~writes
    BY <1>1, <1>2, <2>2 DEF DayTypes
  <2> QED
    BY <2>1, <2>2
<1> HIDE DEF writes
<1>6. ASSUME NEW d \in Call \ {c}
      PROVE  DayCallOK(d)'
  <2>1. ASSUME dayCall[d].op \in DayEditing, dayCall[d].issue \in DOMAIN issues, ~Days!Touches(c, d)
        PROVE  issues'[dayCall[d].issue].state = issues[dayCall[d].issue].state
    <3>1. dayCall[d].person = "nobody"
      BY <2>1 DEF DayIInv, DayCallOK, DayAbout
    <3>2. dayCall[d].issue # i
      BY <1>1, <1>3, <2>1, <3>1 DEF Days!Touches, Days!About, DayEditing
    <3> QED
      BY <1>5, <2>1, <3>2
  <2> QED
    BY <1>1, <1>5, <2>1, DayOthers
<1>7. contested \subseteq contested' /\ (dayCall[c].late = TRUE => <<"nobody", i>> \in contested')
  BY <1>1, <1>3, DayWrites DEF Days!About
<1>8. closings' \in [Days!Id -> Nat] /\ announced' \in [Days!Id -> Nat]
      /\ \A j \in Days!Id \ {i} : closings'[j] = closings[j] /\ announced'[j] = announced[j]
  <2>1. [closings EXCEPT ![i] = @ + 1] \in [Days!Id -> Nat]
        /\ [announced EXCEPT ![i] = @ + 1] \in [Days!Id -> Nat]
        /\ \A j \in Days!Id \ {i} : [closings EXCEPT ![i] = @ + 1][j] = closings[j]
             /\ [announced EXCEPT ![i] = @ + 1][j] = announced[j]
    BY <1>2, <1>4 DEF DayTypes
  <2>2. closings \in [Days!Id -> Nat] /\ announced \in [Days!Id -> Nat]
    BY <1>2 DEF DayTypes
  <2> QED
    BY <1>1, <2>1, <2>2
<1>9. DayTold'
  <2>1. ASSUME NEW j \in Days!Id, j # i
        PROVE  announced'[j] = closings'[j] \/ <<"nobody", j>> \in contested'
    BY <1>2, <1>7, <1>8, <2>1 DEF DayTold
  <2>2. announced'[i] = closings'[i] \/ <<"nobody", i>> \in contested'
    <3>1. dayCall[c].late \in BOOLEAN
      BY <1>2 DEF DayTypes, DayCall, DayFlag
    <3>2. ASSUME dayCall[c].late = FALSE, <<"nobody", i>> \notin contested
          PROVE  announced'[i] = closings'[i]
      <4>1. announced[i] = closings[i]
        BY <1>2, <1>4, <3>2 DEF DayTold
      <4>2. (writes /\ dayCall[c].set = "resolved" /\ issues[i].state = "open")
               <=> (dayCall[c].set = "resolved" /\ dayCall[c].read = "open")
        BY <1>3, <3>2 DEF writes
      <4> QED
        BY <1>1, <1>2, <1>4, <4>1, <4>2 DEF DayTypes
    <3> QED
      BY <1>7, <3>1, <3>2
  <2> QED
    BY <2>1, <2>2 DEF DayTold
<1>10. ASSUME NEW p \in Person, <<p, 0>> \notin contested'
       PROVE  DayMarked(p)'
  <2>1. DayMarked(p)
    BY <1>7, <1>10 DEF DayIInv
  <2>2. ASSUME p \notin users PROVE Days!NothingLeftOf(p)'
    <3>1. Days!NothingLeftOf(p) /\ attendance' = attendance
      BY <1>1, <2>1, <2>2 DEF DayMarked
    <3>2. ASSUME NEW j \in DOMAIN issues, issues[j].by = p
          PROVE  issues'[j] = issues[j]
      <4>1. issues[j].state = "deleted"
        BY <3>1, <3>2 DEF Days!NothingLeftOf
      <4> QED
        BY <1>5, <3>2, <4>1
    <3> QED
      BY <1>5, <3>1, <3>2 DEF Days!NothingLeftOf
  <2> QED
    BY <1>1, <2>1, <2>2 DEF DayMarked
<1> QED
  BY <1>1, <1>2, <1>5, <1>6, <1>8, <1>9, <1>10, DayWritten DEF DayTypes

(* A call that marked a person. *)
LEMMA DayMarks ==
  ASSUME Days!DayBookAssumption, DayIInv, NEW c \in Call, Days!Written(c), dayCall[c].op \in DayMarking,
         attendance' \in [Person -> Days!Mark \union {"none"}], said' \in [Person -> Days!Mark \union {"none"}],
         \A p \in Person \ {dayCall[c].person} : attendance'[p] = attendance[p] /\ said'[p] = said[p],
         dayCall[c].late = FALSE => attendance'[dayCall[c].person] = said'[dayCall[c].person],
         UNCHANGED <<users, issues, closings, announced, report, dayCalls>>
  PROVE  DayIInv'
<1>1. DayTypes /\ DayCallOK(c) /\ DayTold
  BY DEF DayIInv
<1>2. /\ dayCall[c].person \in Person /\ dayCall[c].issue = 0 /\ dayCall[c].op \in DayOfPerson
      /\ dayCall[c].late = FALSE => dayCall[c].person \in users
  BY <1>1 DEF DayCallOK, DayAbout, DayFresh, DayMarking, DayOfPerson, DayEditing
<1>3. ASSUME NEW d \in Call \ {c}
      PROVE  DayCallOK(d)'
  <2>1. ASSUME dayCall[d].op = "markAttendance", dayCall[d].person \in Person, ~Days!Touches(c, d)
        PROVE  attendance'[dayCall[d].person] = attendance[dayCall[d].person]
    <3>1. dayCall[d].issue = 0
      BY <2>1 DEF DayIInv, DayCallOK, DayAbout, DayEditing
    <3>2. dayCall[d].person # dayCall[c].person
      BY <1>2, <2>1, <3>1 DEF Days!Touches, Days!About, DayMarking
    <3> QED
      BY <2>1, <3>2
  <2> QED
    BY <2>1, DayOthers
<1>4. contested \subseteq contested' /\ (dayCall[c].late = TRUE => <<dayCall[c].person, 0>> \in contested')
  BY <1>2, DayWrites DEF Days!About
<1>5. DayTold'
  BY <1>1, <1>4 DEF DayTold
<1>6. ASSUME NEW p \in Person, <<p, 0>> \notin contested'
      PROVE  DayMarked(p)'
  <2>1. DayMarked(p)
    BY <1>4, <1>6 DEF DayIInv
  <2>2. CASE p # dayCall[c].person
    BY <2>1, <2>2 DEF DayMarked, Days!NothingLeftOf
  <2>3. CASE p = dayCall[c].person
    <3>1. dayCall[c].late \in BOOLEAN
      BY <1>1 DEF DayTypes, DayCall, DayFlag
    <3>2. dayCall[c].late = FALSE
      BY <1>4, <1>6, <2>3, <3>1
    <3> QED
      BY <1>2, <2>3, <3>2 DEF DayMarked
  <2> QED
    BY <2>2, <2>3
<1> QED
  BY <1>1, <1>3, <1>5, <1>6, DayWritten DEF DayTypes

LEMMA DayUpdates ==
  ASSUME Days!DayBookAssumption, DayIInv, NEW c \in Call, Days!UpdateAttendance(c)
  PROVE  DayIInv'
<1> DEFINE p == dayCall[c].person
<1>1. /\ dayCall[c].op = "markAttendance" /\ dayCall[c].at = "write" /\ dayCall[c].read # "none"
           /\ Days!Written(c)
      /\ attendance' = [attendance EXCEPT ![p] =
             IF dayCall[c].set # dayCall[c].read /\ attendance[p] # "none"
             THEN dayCall[c].set ELSE attendance[p]]
      /\ said' = [said EXCEPT ![p] = dayCall[c].set]
      /\ UNCHANGED <<users, issues, closings, announced, report, dayCalls>>
  BY DEF Days!UpdateAttendance
<1>2. DayTypes /\ DayCallOK(c)
  BY DEF DayIInv
<1>3. /\ p \in Person /\ dayCall[c].set \in Days!Mark
      /\ dayCall[c].late = FALSE => attendance[p] = dayCall[c].read
  BY <1>1, <1>2 DEF DayCallOK, DayAbout, DayFresh, DayMarking, DayOfPerson
<1>4. /\ attendance' \in [Person -> Days!Mark \union {"none"}]
           /\ said' \in [Person -> Days!Mark \union {"none"}]
      /\ \A q \in Person \ {p} : attendance'[q] = attendance[q] /\ said'[q] = said[q]
      /\ dayCall[c].late = FALSE => attendance'[p] = said'[p]
  BY <1>1, <1>2, <1>3 DEF DayTypes
<1> QED
  BY <1>1, <1>4, DayMarks DEF DayMarking

LEMMA DayInserts ==
  ASSUME Days!DayBookAssumption, DayIInv, NEW c \in Call, Days!InsertAttendance(c)
  PROVE  DayIInv'
<1> DEFINE p == dayCall[c].person
<1>1. dayCall[c].op \in DayMarking /\ UNCHANGED <<users, issues, closings, announced, report, dayCalls>>
  BY DEF Days!InsertAttendance, DayMarking
<1>2. CASE Days!Refused(c)
  <2>1. UNCHANGED <<attendance, said, contested>> /\ Days!Dropped(c)
    BY <1>2 DEF Days!InsertAttendance
  <2> QED
    BY <1>1, <2>1, DayDrops
<1>3. CASE ~Days!Refused(c)
  <2>1. /\ attendance' = [attendance EXCEPT ![p] = dayCall[c].set]
        /\ said' = [said EXCEPT ![p] = dayCall[c].set] /\ Days!Written(c)
    BY <1>3 DEF Days!InsertAttendance
  <2>2. DayTypes /\ DayCallOK(c)
    BY DEF DayIInv
  <2>3. p \in Person /\ dayCall[c].set \in Days!Mark
    BY <1>1, <2>2 DEF DayCallOK, DayAbout, DayMarking, DayOfPerson
  <2>4. /\ attendance' \in [Person -> Days!Mark \union {"none"}]
             /\ said' \in [Person -> Days!Mark \union {"none"}]
        /\ \A q \in Person \ {p} : attendance'[q] = attendance[q] /\ said'[q] = said[q]
        /\ attendance'[p] = said'[p]
    BY <2>1, <2>2, <2>3 DEF DayTypes
  <2> QED
    BY <1>1, <2>1, <2>4, DayMarks
<1> QED
  BY <1>2, <1>3

(* The removal of a person takes their issues and their attendance, and overtakes
   every call about them. *)
LEMMA DayRemoves ==
  ASSUME Days!DayBookAssumption, DayIInv, NEW c \in Call, Days!RemoveRows(c)
  PROVE  DayIInv'
<1> DEFINE p == dayCall[c].person
<1>1. /\ dayCall[c].op = "removeUser" /\ UNCHANGED <<closings, announced, report, dayCalls>>
  BY DEF Days!RemoveRows
<1>2. DayTypes /\ DayCallOK(c) /\ DayTold
  BY DEF DayIInv
<1>3. p \in Person
  BY <1>1, <1>2 DEF DayCallOK, DayAbout, DayOfPerson
<1>4. CASE p \notin users
  <2>1. UNCHANGED <<users, issues, attendance, said, contested>> /\ Days!Dropped(c)
    BY <1>4 DEF Days!RemoveRows
  <2> QED
    BY <1>1, <2>1, DayDrops
<1>5. CASE p \in users
  <2>1. /\ users' = users \ {p}
        /\ issues' = [i \in DOMAIN issues |->
               IF issues[i].by = p THEN [issues[i] EXCEPT !.state = "deleted"] ELSE issues[i]]
        /\ attendance' = [attendance EXCEPT ![p] = "none"]
        /\ said' = [said EXCEPT ![p] = "none"]
        /\ Days!Written(c)
    BY <1>5 DEF Days!RemoveRows
  <2>2. ASSUME NEW i \in DOMAIN issues
        PROVE  /\ issues'[i] \in DayIssue /\ issues'[i].by = issues[i].by
               /\ issues[i].by = p => issues'[i].state = "deleted"
               /\ issues[i].by # p => issues'[i] = issues[i]
    <3>1. issues[i] \in DayIssue
      BY <1>2 DEF DayTypes
    <3>2. PICK r : r = [issues[i] EXCEPT !.state = "deleted"]
      OBVIOUS
    <3>3. r \in DayIssue /\ r.by = issues[i].by /\ r.state = "deleted"
      BY <3>1, <3>2 DEF DayIssue, DayIssueState
    <3> QED
      BY <2>1, <3>1, <3>2, <3>3
  <2>3. issues' \in Seq(DayIssue) /\ Len(issues') = Len(issues) /\ DOMAIN issues' = DOMAIN issues
    <3>1. DOMAIN issues = 1..Len(issues) /\ Len(issues) \in Nat
      BY <1>2 DEF DayTypes
    <3>2. issues' \in [1..Len(issues) -> DayIssue]
      BY <2>1, <2>2, <3>1
    <3> QED
      BY <3>1, <3>2
  <2>4. ASSUME NEW d \in Call \ {c}
        PROVE  DayCallOK(d)'
    <3>1. ASSUME dayCall[d].op \in DayEditing, dayCall[d].issue \in DOMAIN issues, ~Days!Touches(c, d)
          PROVE  issues'[dayCall[d].issue].state = issues[dayCall[d].issue].state
      <4>1. dayCall[d].issue # 0
        BY <1>2, <3>1 DEF DayTypes
      <4>2. issues[dayCall[d].issue].by # p
        BY <1>1, <3>1, <4>1 DEF Days!Touches, Days!Reporter
      <4> QED
        BY <2>2, <3>1, <4>2
    <3>2. ASSUME dayCall[d].op \in DayOfPerson, dayCall[d].person \in Person, ~Days!Touches(c, d)
          PROVE  /\ attendance'[dayCall[d].person] = attendance[dayCall[d].person]
                 /\ dayCall[d].person \in users => dayCall[d].person \in users'
      <4>1. dayCall[d].person # p
        BY <1>1, <3>2 DEF Days!Touches
      <4> QED
        BY <1>2, <2>1, <3>2, <4>1 DEF DayTypes
    <3> QED
      BY <2>1, <2>3, <3>1, <3>2, DayOthers
  <2>5. contested \subseteq contested'
    BY <2>1, DayWrites
  <2>6. DayTold'
    BY <1>1, <1>2, <2>5 DEF DayTold
  <2>7. ASSUME NEW q \in Person, <<q, 0>> \notin contested'
        PROVE  DayMarked(q)'
    <3>1. DayMarked(q)
      BY <2>5, <2>7 DEF DayIInv
    <3>2. CASE q = p
      <4>1. attendance'[p] = "none" /\ said'[p] = "none"
        BY <1>2, <1>3, <2>1 DEF DayTypes
      <4> QED
        BY <2>2, <2>3, <3>2, <4>1 DEF DayMarked, Days!NothingLeftOf
    <3>3. CASE q # p
      <4>1. attendance'[q] = attendance[q] /\ said'[q] = said[q] /\ (q \in users' <=> q \in users)
        BY <1>2, <2>1, <3>3 DEF DayTypes
      <4> QED
        BY <2>2, <2>3, <3>1, <3>3, <4>1 DEF DayMarked, Days!NothingLeftOf
    <3> QED
      BY <3>2, <3>3
  <2>8. /\ users' \subseteq Person
        /\ attendance' \in [Person -> Days!Mark \union {"none"}]
             /\ said' \in [Person -> Days!Mark \union {"none"}]
    BY <1>2, <2>1 DEF DayTypes
  <2> QED
    BY <1>1, <1>2, <2>1, <2>3, <2>4, <2>6, <2>7, <2>8, DayWritten DEF DayTypes
<1> QED
  BY <1>4, <1>5

(* A report nothing was written under gives what is so when it is given. *)
LEMMA DayGives ==
  ASSUME Days!DayBookAssumption, DayIInv, NEW c \in Call, Days!GiveReport(c)
  PROVE  DayIInv'
<1>1. /\ dayCall[c].at = "resolved" /\ Days!Dropped(c)
      /\ report' = [given |-> [dayCall[c].counts EXCEPT !.resolved = Days!Now.resolved], true |-> Days!Now, late |-> dayCall[c].late]
      /\ UNCHANGED <<users, issues, attendance, said, closings, announced, contested, dayCalls>>
  BY DEF Days!GiveReport
<1>2. DayTypes /\ DayCallOK(c) /\ dayCall[c] \in DayCall
  BY DEF DayIInv, DayTypes
<1>3. DayReported'
  <2>1. dayCall[c].op = "getReport"
    BY <1>1, <1>2 DEF DayCallOK
  <2>2. dayCall[c].counts \in Days!Counts /\ Days!Now \in Days!Counts /\ dayCall[c].late \in BOOLEAN
    BY <1>2, DayNow DEF DayCall, DayTypes, DayFlag
  <2>3. ASSUME dayCall[c].late = FALSE
        PROVE  [dayCall[c].counts EXCEPT !.resolved = Days!Now.resolved] = Days!Now
    <3>1. /\ dayCall[c].counts.workers = Days!Now.workers /\ dayCall[c].counts.present = Days!Now.present
          /\ dayCall[c].counts.open = Days!Now.open
      BY <1>1, <1>2, <2>1, <2>3 DEF DayCallOK, DayFresh
    <3>2. PICK n : n = [dayCall[c].counts EXCEPT !.resolved = Days!Now.resolved]
      OBVIOUS
    <3>3. n \in Days!Counts /\ n.workers = Days!Now.workers /\ n.present = Days!Now.present
            /\ n.open = Days!Now.open
          /\ n.resolved = Days!Now.resolved
      BY <2>2, <3>1, <3>2 DEF Days!Counts
    <3>4. n = Days!Now
      BY <2>2, <3>3 DEF Days!Counts
    <3> QED
      BY <3>2, <3>4
  <2> QED
    BY <1>1, <2>2, <2>3 DEF DayReported
<1>4. dayCall' \in [Call -> DayCall] /\ dayCall'[c] = Days!Idle
  BY <1>1, <1>2, DayIdleType DEF Days!Dropped, DayTypes
<1>5. \A d \in Call : DayCallOK(d)'
  <2> TAKE d \in Call
  <2>1. CASE d = c
    BY <1>4, <2>1, DayIdleOK
  <2>2. CASE d # c
    <3>1. dayCall'[d] = dayCall[d] /\ DayCallOK(d)
      BY <1>1, <1>2, <2>2 DEF Days!Dropped, DayTypes, DayIInv
    <3> QED
      BY <1>1, <3>1, DaySame
  <2> QED
    BY <2>1, <2>2
<1>6. DayTypes'
  BY <1>1, <1>2, <1>4 DEF DayTypes
<1>7. DayTold'
  BY <1>1 DEF DayIInv, DayTold
<1>8. \A p \in Person : DayMarked(p)' <=> DayMarked(p)
  BY <1>1 DEF DayMarked, Days!NothingLeftOf
<1>9. DayBounds'
  <2>1. dayCall[c].counts \in Days!Counts /\ Days!Now \in Days!Counts
    BY <1>2, DayNow DEF DayCall, DayTypes
  <2>2. PICK n : n = [dayCall[c].counts EXCEPT !.resolved = Days!Now.resolved]
    OBVIOUS
  <2>3. n \in Days!Counts
    BY <2>1, <2>2 DEF Days!Counts
  <2>4. report'.given = n /\ report'.true = Days!Now
    BY <1>1, <2>2
  <2> QED
    BY <1>1, <2>1, <2>3, <2>4 DEF DayIInv, DayBounds
<1> QED
  BY <1>1, <1>3, <1>5, <1>6, <1>7, <1>8, <1>9 DEF DayIInv

-----------------------------------------------------------------------------
LEMMA DayInit ==
  ASSUME Days!DayBookAssumption, Days!Init
  PROVE  DayIInv
<1>1. dayCall = [c \in Call |-> Days!Idle] /\ Days!Idle \in DayCall
  BY DayIdleType DEF Days!Init
<1>2. DayTypes
  <2>1. issues = <<>> /\ <<>> \in Seq(DayIssue) /\ Len(<<>>) = 0 /\ MaxIssues \in Nat
    BY DayConstants DEF Days!Init
  <2>2. dayCall \in [Call -> DayCall]
    BY <1>1
  <2>3. /\ attendance \in [Person -> Days!Mark \union {"none"}]
             /\ said \in [Person -> Days!Mark \union {"none"}]
        /\ closings \in [Days!Id -> Nat] /\ announced \in [Days!Id -> Nat]
    BY DEF Days!Init
  <2> QED
    BY <2>1, <2>2, <2>3 DEF Days!Init, DayTypes
<1>3. \A c \in Call : DayCallOK(c)
  <2> TAKE c \in Call
  <2>1. dayCall[c].op = "idle" /\ dayCall[c].issue = 0 /\ dayCall[c].at = "idle"
    BY <1>1, DayIdle
  <2>2. DayAbout(c)
    BY <2>1 DEF DayAbout, DayEditing, DayOfPerson, DayMarking
  <2>3. DayFresh(c)
    BY <2>1 DEF DayFresh, DayEditing, DayOfPerson
  <2> QED
    BY <2>1, <2>2, <2>3 DEF DayCallOK
<1>4. DayTold
  BY DEF Days!Init, DayTold
<1>5. \A p \in Person : DayMarked(p)
  BY DEF Days!Init, DayMarked
<1>6. DayReported
  BY DEF Days!Init, DayReported
<1>7. DayBounds
  BY DayNoCounts, DayConstants DEF Days!Init, DayBounds
<1> QED
  BY <1>2, <1>3, <1>4, <1>5, <1>6, <1>7 DEF DayIInv

LEMMA DayCalls ==
  ASSUME Days!DayBookAssumption, DayIInv, NEW c \in Call,
         \/ Days!CreateIssue(c) \/ Days!ResolveIssue(c) \/ Days!UpdateIssue(c) \/ Days!RemoveIssue(c)
         \/ Days!MarkAttendance(c) \/ Days!CreateAttendance(c) \/ Days!RemoveUser(c) \/ Days!Report(c)
  PROVE  DayIInv'
<1>1. /\ users \subseteq Person /\ issues \in Seq(DayIssue) /\ "nobody" \in DayPersons
           /\ Person \subseteq DayPersons
      /\ "none" \in DaySets /\ DayIssueState \subseteq DaySets /\ Days!Mark \subseteq DaySets /\ 0 \in Nat
      /\ {"read", "write", "workers"} \subseteq DayAt
  BY DEF DayIInv, DayTypes, DayPersons, DaySets, DayAt
<1>2. \A i \in DOMAIN issues : i \in Nat
  BY <1>1
<1>3. ASSUME Days!CreateIssue(c) PROVE DayIInv'
  <2>1. PICK p \in users : Days!Begin(c, "createIssue", p, 0, "none", "write")
    BY <1>3 DEF Days!CreateIssue
  <2>2. "createIssue" \in DayOp /\ "createIssue" \notin DayEditing /\ "createIssue" \notin DayMarking
    BY DEF DayOp, DayOfPerson, DayEditing, DayMarking
  <2> QED
    BY <1>1, <2>1, <2>2, DayBegins
<1>4. ASSUME Days!ResolveIssue(c) PROVE DayIInv'
  <2>1. PICK i \in DOMAIN issues : Days!Begin(c, "resolveIssue", "nobody", i, "resolved", "read")
    BY <1>4 DEF Days!ResolveIssue
  <2>2. /\ "resolveIssue" \in DayOp /\ "resolveIssue" \in DayEditing /\ "resolveIssue" \notin DayMarking
        /\ "resolveIssue" \notin DayOfPerson /\ "resolved" \in DayIssueState
    BY DEF DayOp, DayOfPerson, DayEditing, DayMarking, DayIssueState
  <2> QED
    BY <1>1, <1>2, <2>1, <2>2, DayBegins
<1>5. ASSUME Days!UpdateIssue(c) PROVE DayIInv'
  <2>1. PICK i \in DOMAIN issues, s \in {"open", "resolved"} : Days!Begin(c, "update", "nobody", i, s, "read")
    BY <1>5 DEF Days!UpdateIssue
  <2>2. /\ "update" \in DayOp /\ "update" \in DayEditing /\ "update" \notin DayMarking
        /\ "update" \notin DayOfPerson /\ s \in DayIssueState
    BY DEF DayOp, DayOfPerson, DayEditing, DayMarking, DayIssueState
  <2> QED
    BY <1>1, <1>2, <2>1, <2>2, DayBegins
<1>6. ASSUME Days!RemoveIssue(c) PROVE DayIInv'
  <2>1. PICK i \in DOMAIN issues : Days!Begin(c, "remove", "nobody", i, "deleted", "read")
    BY <1>6 DEF Days!RemoveIssue
  <2>2. /\ "remove" \in DayOp /\ "remove" \in DayEditing /\ "remove" \notin DayMarking
        /\ "remove" \notin DayOfPerson /\ "deleted" \in DayIssueState
    BY DEF DayOp, DayOfPerson, DayEditing, DayMarking, DayIssueState
  <2> QED
    BY <1>1, <1>2, <2>1, <2>2, DayBegins
<1>7. ASSUME Days!MarkAttendance(c) PROVE DayIInv'
  <2>1. PICK p \in users, m \in Days!Mark : Days!Begin(c, "markAttendance", p, 0, m, "read")
    BY <1>7 DEF Days!MarkAttendance
  <2>2. "markAttendance" \in DayOp /\ "markAttendance" \notin DayEditing
    BY DEF DayOp, DayOfPerson, DayEditing
  <2> QED
    BY <1>1, <2>1, <2>2, DayBegins
<1>8. ASSUME Days!CreateAttendance(c) PROVE DayIInv'
  <2>1. PICK p \in users, m \in Days!Mark : Days!Begin(c, "create", p, 0, m, "write")
    BY <1>8 DEF Days!CreateAttendance
  <2>2. "create" \in DayOp /\ "create" \notin DayEditing
    BY DEF DayOp, DayOfPerson, DayEditing
  <2> QED
    BY <1>1, <2>1, <2>2, DayBegins
<1>9. ASSUME Days!RemoveUser(c) PROVE DayIInv'
  <2>1. PICK p \in users : Days!Begin(c, "removeUser", p, 0, "none", "write")
    BY <1>9 DEF Days!RemoveUser
  <2>2. "removeUser" \in DayOp /\ "removeUser" \notin DayEditing /\ "removeUser" \notin DayMarking
    BY DEF DayOp, DayOfPerson, DayEditing, DayMarking
  <2> QED
    BY <1>1, <2>1, <2>2, DayBegins
<1>10. ASSUME Days!Report(c) PROVE DayIInv'
  <2>1. Days!Begin(c, "getReport", "nobody", 0, "none", "workers")
    BY <1>10 DEF Days!Report
  <2>2. "getReport" \in DayOp /\ "getReport" \notin DayEditing /\ "getReport" \notin DayMarking
        /\ "getReport" \notin DayOfPerson
    BY DEF DayOp, DayOfPerson, DayEditing, DayMarking
  <2> QED
    BY <1>1, <2>1, <2>2, DayBegins
<1> QED
  BY <1>3, <1>4, <1>5, <1>6, <1>7, <1>8, <1>9, <1>10

LEMMA DayReadings ==
  ASSUME Days!DayBookAssumption, DayIInv, NEW c \in Call, Days!ReadIssue(c) \/ Days!ReadAttendance(c)
  PROVE  DayIInv'
<1>1. DayTypes /\ DayCallOK(c)
  BY DEF DayIInv
<1>2. CASE Days!ReadIssue(c)
  <2>1. /\ dayCall[c].op \in DayEditing /\ dayCall[c].at = "read"
        /\ UNCHANGED <<users, issues, attendance, said, closings, announced, contested, report, dayCalls>>
        /\ \/ Days!Dropped(c)
           \/ issues[dayCall[c].issue].state # "deleted" /\ Days!Reads(c, issues[dayCall[c].issue].state)
    BY <1>2 DEF Days!ReadIssue, Days!Changes, DayEditing
  <2>2. issues[dayCall[c].issue].state \in DaySets /\ dayCall[c].op # "markAttendance"
    <3>1. dayCall[c].issue \in DOMAIN issues /\ issues \in Seq(DayIssue)
      BY <1>1, <2>1 DEF DayCallOK, DayAbout, DayTypes
    <3>2. issues[dayCall[c].issue] \in DayIssue
      BY <3>1
    <3> QED
      BY <2>1, <3>2 DEF DayIssue, DaySets, DayEditing
  <2>3. CASE Days!Dropped(c)
    BY <2>1, <2>3, DayDrops
  <2>4. CASE issues[dayCall[c].issue].state # "deleted" /\ Days!Reads(c, issues[dayCall[c].issue].state)
    BY <2>1, <2>2, <2>4, DayReads
  <2> QED
    BY <2>1, <2>3, <2>4
<1>3. CASE Days!ReadAttendance(c)
  <2>1. /\ dayCall[c].op = "markAttendance" /\ dayCall[c].at = "read"
             /\ Days!Reads(c, attendance[dayCall[c].person])
        /\ UNCHANGED <<users, issues, attendance, said, closings, announced, contested, report, dayCalls>>
    BY <1>3 DEF Days!ReadAttendance
  <2>2. attendance[dayCall[c].person] \in DaySets /\ dayCall[c].op \notin DayEditing
    BY <1>1, <2>1 DEF DayCallOK, DayAbout, DayTypes, DaySets, DayOfPerson, DayEditing
  <2> QED
    BY <2>1, <2>2, DayReads
<1> QED
  BY <1>2, <1>3

LEMMA DayNext ==
  ASSUME Days!DayBookAssumption, DayIInv, [Days!Next]_(Days!dayVars)
  PROVE  DayIInv'
<1>1. CASE Days!Next
  <2>1. PICK c \in Call :
        \/ Days!CreateIssue(c) \/ Days!ResolveIssue(c) \/ Days!UpdateIssue(c) \/ Days!RemoveIssue(c)
        \/ Days!MarkAttendance(c) \/ Days!CreateAttendance(c) \/ Days!RemoveUser(c) \/ Days!Report(c)
        \/ Days!ReadIssue(c) \/ Days!StoreIssue(c) \/ Days!WriteIssue(c)
        \/ Days!ReadAttendance(c) \/ Days!UpdateAttendance(c) \/ Days!InsertAttendance(c) \/ Days!RemoveRows(c)
        \/ Days!Count(c, "workers", "present") \/ Days!Count(c, "present", "open")
             \/ Days!Count(c, "open", "resolved")
        \/ Days!GiveReport(c)
    BY <1>1 DEF Days!Next
  <2>2. CASE Days!Count(c, "workers", "present") \/ Days!Count(c, "present", "open")
             \/ Days!Count(c, "open", "resolved")
    <3>1. {"present", "open", "resolved"} \subseteq DayAt
      BY DEF DayAt
    <3> QED
      BY <2>2, <3>1, DayCounts
  <2> QED
    BY <2>1, <2>2, DayCalls, DayReadings, DayStores, DayEdits, DayUpdates, DayInserts, DayRemoves, DayGives
<1>2. CASE UNCHANGED Days!dayVars
  <2>1. UNCHANGED <<users, issues, attendance, said, closings, announced, dayCall, contested, report, dayCalls>>
    BY <1>2 DEF Days!dayVars
  <2>2. \A c \in Call : DayCallOK(c)'
    BY <2>1, DaySame DEF DayIInv
  <2>3. dayCall' \in [Call -> DayCall]
    BY <2>1 DEF DayIInv, DayTypes
  <2> QED
    BY <2>1, <2>2, <2>3, DayRests DEF DayIInv, DayBounds
<1> QED
  BY <1>1, <1>2

-----------------------------------------------------------------------------
(* The registers (Registers), for any first rows as calls leave them, any names
   and any overlapping calls. *)

BookQuestion == {"row", "name", "phone", "category", "location"}
BookField == {"name", "spelling", "phone", "active", "category", "location"}
BookCallField == {"kind", "factory", "id", "set", "todo", "read", "late"}

(* What a call may set. *)
BookSetOK(set) ==
    /\ "name" \in DOMAIN set => set.name \in Name \union {""}
    /\ "spelling" \in DOMAIN set => set.spelling \in Books!Spelling
    /\ "phone" \in DOMAIN set => set.phone \in Phone \union {""}
    /\ "active" \in DOMAIN set => set.active \in BOOLEAN
    /\ "category" \in DOMAIN set => set.category \in 0..MaxRegisterRows
    /\ "location" \in DOMAIN set => set.location \in 0..MaxRegisterRows

(* The questions a call has still to ask. *)
BookUnasked(c) == {registersCall[c].todo[n] : n \in DOMAIN registersCall[c].todo}

BookSets(c) ==
    /\ BookSetOK(registersCall[c].set)
    /\ registersCall[c].kind # "item" => "category" \notin DOMAIN registersCall[c].set
         /\ "location" \notin DOMAIN registersCall[c].set
    /\ registersCall[c].kind = "item" /\ "spelling" \in DOMAIN registersCall[c].set
         => registersCall[c].set.spelling \in Books!SkuSpelling
    /\ registersCall[c].id = 0 /\ registersCall[c].kind = "item" =>
        "category" \in DOMAIN registersCall[c].set /\ "location" \in DOMAIN registersCall[c].set
    /\ registersCall[c].id = 0 => "name" \in DOMAIN registersCall[c].set

(* What was asked: that the row is there, and the place, stays so; that nobody
   has the name, and that the place is open, until another call writes. *)
BookAsked(c) ==
    /\ registersCall[c].id # 0 /\ "row" \notin BookUnasked(c)
         => registersCall[c].id \in Books!Of(registersCall[c].kind, registersCall[c].factory)
    /\ "category" \in DOMAIN registersCall[c].set /\ "category" \notin BookUnasked(c) =>
        registersCall[c].set.category \in Books!Of("category", registersCall[c].factory)
    /\ "location" \in DOMAIN registersCall[c].set /\ "location" \notin BookUnasked(c) =>
        registersCall[c].set.location \in Books!Of("location", registersCall[c].factory)

BookFresh(c) ==
    /\ "category" \in DOMAIN registersCall[c].set /\ "category" \notin BookUnasked(c) =>
        rows[registersCall[c].set.category].active = TRUE
    /\ "location" \in DOMAIN registersCall[c].set /\ "location" \notin BookUnasked(c) =>
        rows[registersCall[c].set.location].active = TRUE
    /\ registersCall[c].kind = "category" \/ (registersCall[c].kind = "location" /\ registersCall[c].id = 0) =>
        ("name" \in DOMAIN registersCall[c].set /\ "name" \notin BookUnasked(c) =>
            \A i \in Books!Of(registersCall[c].kind, registersCall[c].factory) \ {registersCall[c].id} : rows[i].name # registersCall[c].set.name)

BookCallOK(c) ==
    /\ DOMAIN registersCall[c] = BookCallField
    /\ registersCall[c].kind \in Books!Kind /\ registersCall[c].factory \in Factory
         /\ registersCall[c].id \in 0..MaxRegisterRows
    /\ registersCall[c].todo \in Seq(BookQuestion)
         /\ (registersCall[c].late = TRUE \/ registersCall[c].late = FALSE)
    /\ BookSets(c) /\ BookAsked(c)
    /\ registersCall[c].late = FALSE => BookFresh(c)

BookTypes ==
    /\ rows \in Seq(Books!Row) /\ Len(rows) <= MaxRegisterRows
    /\ registersOverlapped \subseteq Books!Id /\ renamed \subseteq Books!Id /\ misplaced \subseteq Books!Id
    /\ DOMAIN registersCall = Call

BookRows ==
    /\ \A i \in DOMAIN rows : rows[i].kind = "item" => rows[i].spelling \in Books!SkuSpelling
    /\ Books!RegistersHold

BookIInv ==
    /\ BookTypes /\ BookRows
    /\ \A c \in Call : registersCall[c] = Books!Idle \/ BookCallOK(c)
    /\ registersCalls \in 0..MaxRegisterCalls

-----------------------------------------------------------------------------
LEMMA BookHolds == BookIInv => Books!TypeOK /\ Books!RegistersHold
  BY DEF BookIInv, BookTypes, BookRows, Books!TypeOK

LEMMA BookConstants ==
  ASSUME Books!RegistersAssumption
  PROVE  /\ MaxRegisterRows \in Nat /\ MaxRegisterCalls \in Nat
         /\ FirstRows \in Seq(Books!Row) /\ Len(FirstRows) <= MaxRegisterRows
  BY DEF Books!RegistersAssumption

LEMMA BookFields == Books!Field = BookField
  BY DEF Books!Field, Books!Blank, BookField

LEMMA BookInit ==
  ASSUME Books!RegistersAssumption, Books!Init
  PROVE  BookIInv
<1>1. BookTypes
  BY BookConstants DEF Books!Init, BookTypes
<1>2. BookRows
  <2>1. rows = FirstRows /\ registersOverlapped = {} /\ renamed = {} /\ misplaced = {}
    BY DEF Books!Init
  <2>2. Books!ToldApart(FirstRows, {}, {}) /\ Books!ItemsPlaced(FirstRows)
        /\ \A i \in DOMAIN FirstRows : FirstRows[i].kind = "item" => FirstRows[i].spelling \in Books!SkuSpelling
    BY DEF Books!RegistersAssumption
  <2>3. Books!ToldApart(rows, registersOverlapped, registersOverlapped \union renamed)
    <3>1. registersOverlapped \union renamed = {}
      BY <2>1
    <3> QED
      BY <2>1, <2>2, <3>1
  <2> QED
    BY <2>1, <2>2, <2>3 DEF BookRows, Books!RegistersHold
<1>3. \A c \in Call : registersCall[c] = Books!Idle
  BY DEF Books!Init
<1>4. registersCalls \in 0..MaxRegisterCalls
  BY BookConstants DEF Books!Init
<1> QED
  BY <1>1, <1>2, <1>3, <1>4 DEF BookIInv

-----------------------------------------------------------------------------
(* Steps that write nothing                                                *)

LEMMA BookSame ==
  ASSUME NEW d \in Call, BookCallOK(d), registersCall'[d] = registersCall[d], UNCHANGED rows
  PROVE  BookCallOK(d)'
<1>1. BookUnasked(d)' = BookUnasked(d)
  BY DEF BookUnasked
<1>2. BookSets(d)' <=> BookSets(d)
  BY DEF BookSets, BookSetOK
<1>3. \A kind, f : Books!Of(kind, f)' = Books!Of(kind, f)
  BY DEF Books!Of, Books!OfKind
<1>4. BookAsked(d)' <=> BookAsked(d)
  BY <1>1, <1>3 DEF BookAsked
<1>5. BookFresh(d)' <=> BookFresh(d)
  BY <1>1, <1>3 DEF BookFresh
<1> QED
  BY <1>2, <1>4, <1>5 DEF BookCallOK

LEMMA BookRests ==
  ASSUME Books!RegistersAssumption, BookIInv, NEW c \in Call, NEW left,
         registersCall' = [registersCall EXCEPT ![c] = left],
         registersCall'[c] = left => left = Books!Idle \/ BookCallOK(c)',
         registersCalls' \in 0..MaxRegisterCalls,
         UNCHANGED <<rows, registersOverlapped, renamed, misplaced>>
  PROVE  BookIInv'
<1>1. BookTypes'
  BY DEF BookIInv, BookTypes
<1>2. BookRows'
  BY DEF BookIInv, BookRows, Books!RegistersHold
<1>3. registersCall'[c] = left /\ \A d \in Call \ {c} : registersCall'[d] = registersCall[d]
  BY DEF BookIInv, BookTypes
<1>4. \A d \in Call : registersCall'[d] = Books!Idle \/ BookCallOK(d)'
  <2> TAKE d \in Call
  <2>1. CASE d = c
    BY <1>3, <2>1
  <2>2. CASE d # c
    BY <1>3, <2>2, BookSame DEF BookIInv
  <2> QED
    BY <2>1, <2>2
<1> QED
  BY <1>1, <1>2, <1>4 DEF BookIInv

(* A call begins: all it relies on is asked first. *)
LEMMA BookBegins ==
  ASSUME Books!RegistersAssumption, BookIInv, NEW c \in Call, NEW kind \in Books!Kind, NEW f \in Factory,
         NEW id \in 0..MaxRegisterRows, NEW set, NEW todo \in Seq(BookQuestion),
           Books!Begin(c, kind, f, id, set, todo),
         BookSetOK(set),
         kind # "item" => "category" \notin DOMAIN set /\ "location" \notin DOMAIN set,
         kind = "item" /\ "spelling" \in DOMAIN set => set.spelling \in Books!SkuSpelling,
         id = 0 => "name" \in DOMAIN set,
         id = 0 /\ kind = "item" => "category" \in DOMAIN set /\ "location" \in DOMAIN set,
         id # 0 => \E n \in DOMAIN todo : todo[n] = "row",
         "category" \in DOMAIN set => \E n \in DOMAIN todo : todo[n] = "category",
         "location" \in DOMAIN set => \E n \in DOMAIN todo : todo[n] = "location",
         "name" \in DOMAIN set /\ (kind = "category" \/ (kind = "location" /\ id = 0)) =>
             \E n \in DOMAIN todo : todo[n] = "name"
  PROVE  BookIInv'
<1> DEFINE started == [kind |-> kind, factory |-> f, id |-> id, set |-> set, todo |-> todo, read |-> Books!Blank, late |-> FALSE]
<1>1. /\ registersCall' = [registersCall EXCEPT ![c] = started] /\ registersCalls < MaxRegisterCalls
           /\ registersCalls' = registersCalls + 1
      /\ UNCHANGED <<rows, registersOverlapped, renamed, misplaced>>
  BY DEF Books!Begin
<1>2. /\ DOMAIN started = BookCallField /\ started.kind = kind /\ started.factory = f /\ started.id = id
      /\ started.set = set /\ started.todo = todo /\ started.late = FALSE
  BY DEF BookCallField
<1> HIDE DEF started
<1>3. ASSUME registersCall'[c] = started
      PROVE  BookCallOK(c)'
  <2>1. BookUnasked(c)' = {todo[n] : n \in DOMAIN todo}
    BY <1>2, <1>3 DEF BookUnasked
  <2>2. BookSets(c)'
    <3>1. /\ registersCall'[c].set = set /\ registersCall'[c].kind = kind /\ registersCall'[c].id = id
      BY <1>2, <1>3
    <3>2. BookSetOK(registersCall'[c].set)
      BY <3>1
    <3> QED
      BY <3>1, <3>2 DEF BookSets
  <2>3. /\ id # 0 => "row" \in BookUnasked(c)'
        /\ "category" \in DOMAIN set => "category" \in BookUnasked(c)'
        /\ "location" \in DOMAIN set => "location" \in BookUnasked(c)'
        /\ "name" \in DOMAIN set /\ (kind = "category" \/ (kind = "location" /\ id = 0))
             => "name" \in BookUnasked(c)'
    BY <2>1
  <2>4. BookAsked(c)'
    BY <1>2, <1>3, <2>3 DEF BookAsked
  <2>5. BookFresh(c)'
    BY <1>2, <1>3, <2>3 DEF BookFresh
  <2> QED
    BY <1>2, <1>3, <2>2, <2>4, <2>5 DEF BookCallOK
<1>4. registersCalls' \in 0..MaxRegisterCalls
  BY <1>1, BookConstants DEF BookIInv
<1> QED
  BY <1>1, <1>3, <1>4, BookRests

LEMMA BookHoldsAsked ==
  ASSUME NEW c \in Call, NEW q \in BookQuestion, Books!Holds(c, q)
  PROVE  /\ q = "row" => Books!RowExists(c)
         /\ q = "name" => ~Books!NameTaken(c)
         /\ q = "category" => Books!OpenCategory(c)
         /\ q = "location" => Books!OpenLocation(c)
  BY DEF Books!Holds, BookQuestion

(* A question is answered; the rest is still to be asked. *)
LEMMA BookAsks ==
  ASSUME Books!RegistersAssumption, BookIInv, NEW c \in Call, Books!Ask(c)
  PROVE  BookIInv'
<1> DEFINE q == Head(registersCall[c].todo)
           left == Books!Answered(c)
<1>1. /\ registersCall[c] # Books!Idle /\ registersCall[c].todo # <<>>
           /\ UNCHANGED <<rows, registersOverlapped, renamed, misplaced, registersCalls>>
      /\ registersCall' = [registersCall EXCEPT ![c] = IF Books!Holds(c, q) THEN left ELSE Books!Idle]
  BY DEF Books!Ask
<1>2. BookCallOK(c) /\ registersCalls \in 0..MaxRegisterCalls
  BY <1>1 DEF BookIInv
<1>3. CASE ~Books!Holds(c, q)
  <2>1. registersCall' = [registersCall EXCEPT ![c] = Books!Idle]
    BY <1>1, <1>3
  <2> QED
    BY <1>1, <1>2, <2>1, BookRests
<1>4. CASE Books!Holds(c, q)
  <2>1. registersCall' = [registersCall EXCEPT ![c] = left]
    BY <1>1, <1>4
  <2>2. /\ DOMAIN left = BookCallField /\ left.kind = registersCall[c].kind
             /\ left.factory = registersCall[c].factory
        /\ left.id = registersCall[c].id /\ left.set = registersCall[c].set
             /\ left.todo = Tail(registersCall[c].todo)
        /\ left.late = registersCall[c].late
    BY <1>2 DEF BookCallOK, BookCallField, Books!Answered
  <2>3. /\ q \in BookQuestion /\ Tail(registersCall[c].todo) \in Seq(BookQuestion)
        /\ DOMAIN registersCall[c].todo = 1..Len(registersCall[c].todo)
             /\ Len(registersCall[c].todo) \in Nat \ {0}
        /\ DOMAIN Tail(registersCall[c].todo) = 1..(Len(registersCall[c].todo) - 1)
        /\ \A n \in 1..(Len(registersCall[c].todo) - 1) : Tail(registersCall[c].todo)[n] = registersCall[c].todo[n + 1]
        /\ q = registersCall[c].todo[1]
    BY <1>1, <1>2 DEF BookCallOK
  <2>4. /\ q = "row" => Books!RowExists(c)
        /\ q = "name" => ~Books!NameTaken(c)
        /\ q = "category" => Books!OpenCategory(c)
        /\ q = "location" => Books!OpenLocation(c)
    BY <1>4, <2>3, BookHoldsAsked
  <2> HIDE DEF left, q
  <2>5. ASSUME registersCall'[c] = left
        PROVE  BookCallOK(c)'
    <3>1. \A r \in BookQuestion : r \notin BookUnasked(c)' => r = q \/ r \notin BookUnasked(c)
      <4> SUFFICES ASSUME NEW n \in DOMAIN registersCall[c].todo, registersCall[c].todo[n] # q
                   PROVE  registersCall[c].todo[n] \in BookUnasked(c)'
        BY DEF BookUnasked
      <4>1. n # 1 /\ n - 1 \in 1..(Len(registersCall[c].todo) - 1) /\ (n - 1) + 1 = n
        BY <2>3
      <4>2. Tail(registersCall[c].todo)[n - 1] = registersCall[c].todo[n]
        BY <2>3, <4>1
      <4> QED
        BY <2>2, <2>3, <2>5, <4>1, <4>2 DEF BookUnasked
    <3>2. /\ registersCall'[c].kind = registersCall[c].kind
               /\ registersCall'[c].factory = registersCall[c].factory
          /\ registersCall'[c].id = registersCall[c].id /\ registersCall'[c].set = registersCall[c].set
               /\ registersCall'[c].late = registersCall[c].late
          /\ DOMAIN registersCall'[c] = BookCallField /\ registersCall'[c].todo \in Seq(BookQuestion)
      BY <2>2, <2>3, <2>5
    <3>3. BookSets(c)'
      BY <1>2, <3>2 DEF BookCallOK, BookSets, BookSetOK
    <3>4. /\ \A kind, f : Books!Of(kind, f)' = Books!Of(kind, f)
          /\ "row" \in BookQuestion /\ "name" \in BookQuestion /\ "category" \in BookQuestion
               /\ "location" \in BookQuestion
      BY <1>1 DEF Books!Of, Books!OfKind, BookQuestion
    <3>5. BookAsked(c)'
      <4>1. BookAsked(c)
        BY <1>2 DEF BookCallOK
      <4>2. q = "row" => registersCall[c].id \in Books!Of(registersCall[c].kind, registersCall[c].factory)
        BY <2>4 DEF Books!RowExists
      <4>3. q = "category" => registersCall[c].set.category \in Books!Of("category", registersCall[c].factory)
        BY <2>4 DEF Books!OpenCategory
      <4>4. q = "location" => registersCall[c].set.location \in Books!Of("location", registersCall[c].factory)
        BY <2>4 DEF Books!OpenLocation
      <4> QED
        BY <3>1, <3>2, <3>4, <4>1, <4>2, <4>3, <4>4 DEF BookAsked
    <3>6. ASSUME registersCall[c].late = FALSE
          PROVE  BookFresh(c)'
      <4>1. BookFresh(c)
        BY <1>2, <3>6 DEF BookCallOK
      <4>2. q = "category" /\ "category" \in DOMAIN registersCall[c].set
            => rows[registersCall[c].set.category].active = TRUE
        <5>1. ASSUME q = "category"
              PROVE  registersCall[c].set.category \in DOMAIN rows /\ rows[registersCall[c].set.category].active
          BY <2>4, <5>1 DEF Books!OpenCategory, Books!Of, Books!OfKind
        <5>2. rows \in Seq(Books!Row)
          BY DEF BookIInv, BookTypes
        <5> QED
          BY <5>1, <5>2 DEF Books!Row
      <4>3. q = "location" /\ "location" \in DOMAIN registersCall[c].set
            => rows[registersCall[c].set.location].active = TRUE
        <5>1. ASSUME q = "location"
              PROVE  registersCall[c].set.location \in DOMAIN rows /\ rows[registersCall[c].set.location].active
          BY <2>4, <5>1 DEF Books!OpenLocation, Books!Of, Books!OfKind
        <5>2. rows \in Seq(Books!Row)
          BY DEF BookIInv, BookTypes
        <5> QED
          BY <5>1, <5>2 DEF Books!Row
      <4>4. q = "name" /\ "name" \in DOMAIN registersCall[c].set =>
                \A i \in Books!Of(registersCall[c].kind, registersCall[c].factory) \ {registersCall[c].id} : rows[i].name # registersCall[c].set.name
        <5>1. "name" \in Books!Field
          BY BookFields DEF BookField
        <5>2. "name" \in DOMAIN registersCall[c].set => Books!Wanted(c).name = registersCall[c].set.name
          BY <5>1 DEF Books!Wanted, Books!Over
        <5> QED
          BY <2>4, <5>2 DEF Books!NameTaken
      <4>5. UNCHANGED rows
        BY <1>1
      <4>6. "category" \in DOMAIN registersCall'[c].set /\ "category" \notin BookUnasked(c)'
            => rows'[registersCall'[c].set.category].active = TRUE
        BY <3>1, <3>2, <3>4, <4>1, <4>2, <4>5 DEF BookFresh
      <4>7. "location" \in DOMAIN registersCall'[c].set /\ "location" \notin BookUnasked(c)'
            => rows'[registersCall'[c].set.location].active = TRUE
        BY <3>1, <3>2, <3>4, <4>1, <4>3, <4>5 DEF BookFresh
      <4>8. registersCall[c].kind = "category"
            \/ (registersCall[c].kind = "location" /\ registersCall[c].id = 0) =>
              ("name" \in DOMAIN registersCall[c].set /\ "name" \notin BookUnasked(c)' =>
                \A i \in Books!Of(registersCall[c].kind, registersCall[c].factory) \ {registersCall[c].id} : rows[i].name # registersCall[c].set.name)
        BY <3>1, <3>4, <4>1, <4>4 DEF BookFresh
      <4> QED
        BY <3>2, <3>4, <4>5, <4>6, <4>7, <4>8 DEF BookFresh
    <3> QED
      BY <1>2, <3>2, <3>3, <3>5, <3>6 DEF BookCallOK
  <2> QED
    BY <1>1, <1>2, <2>1, <2>5, BookRests
<1> QED
  BY <1>3, <1>4

-----------------------------------------------------------------------------
(* The write                                                               *)

BookOldOK(old) ==
    /\ old.name \in Name \union {""} /\ old.spelling \in Books!Spelling /\ old.phone \in Phone \union {""}
    /\ old.active \in BOOLEAN /\ old.category \in 0..MaxRegisterRows /\ old.location \in 0..MaxRegisterRows

LEMMA BookLine ==
  ASSUME NEW c \in Call, BookCallOK(c), NEW old, BookOldOK(old), NEW line,
           line = Books!RowOf(c, Books!Over(registersCall[c].set, old))
  PROVE  /\ line \in Books!Row /\ line.kind = registersCall[c].kind /\ line.factory = registersCall[c].factory
         /\ line.name = IF "name" \in DOMAIN registersCall[c].set THEN registersCall[c].set.name ELSE old.name
         /\ line.spelling = IF "spelling" \in DOMAIN registersCall[c].set THEN registersCall[c].set.spelling
              ELSE old.spelling
         /\ line.category = IF "category" \in DOMAIN registersCall[c].set THEN registersCall[c].set.category
              ELSE old.category
         /\ line.location = IF "location" \in DOMAIN registersCall[c].set THEN registersCall[c].set.location
              ELSE old.location
<1> DEFINE set == registersCall[c].set
<1>1. PICK o : o = Books!Over(set, old)
  OBVIOUS
<1>2. /\ o.name = IF "name" \in DOMAIN set THEN set.name ELSE old.name
      /\ o.spelling = IF "spelling" \in DOMAIN set THEN set.spelling ELSE old.spelling
      /\ o.phone = IF "phone" \in DOMAIN set THEN set.phone ELSE old.phone
      /\ o.active = IF "active" \in DOMAIN set THEN set.active ELSE old.active
      /\ o.category = IF "category" \in DOMAIN set THEN set.category ELSE old.category
      /\ o.location = IF "location" \in DOMAIN set THEN set.location ELSE old.location
  BY <1>1, BookFields DEF Books!Over, BookField
<1>3. BookSetOK(set) /\ registersCall[c].kind \in Books!Kind /\ registersCall[c].factory \in Factory
  BY DEF BookCallOK, BookSets
<1> HIDE DEF set
<1>4. /\ o.name \in Name \union {""} /\ o.spelling \in Books!Spelling /\ o.phone \in Phone \union {""}
      /\ o.category \in 0..MaxRegisterRows /\ o.location \in 0..MaxRegisterRows
  BY <1>2, <1>3 DEF BookSetOK, BookOldOK
<1>5. o.active \in BOOLEAN
  <2>1. CASE "active" \in DOMAIN set
    BY <1>2, <1>3, <2>1, Zenon DEF BookSetOK
  <2>2. CASE "active" \notin DOMAIN set
    BY <1>2, <2>2, Zenon DEF BookOldOK
  <2> QED
    BY <2>1, <2>2
<1>6. line = [kind |-> registersCall[c].kind, factory |-> registersCall[c].factory, name |-> o.name, spelling |-> o.spelling,
              phone |-> o.phone, active |-> o.active, category |-> o.category, location |-> o.location]
  BY <1>1 DEF Books!RowOf, set
<1>7. line \in Books!Row
  <2> DEFINE Names == Name \union {""}
             Phones == Phone \union {""}
             Flags == BOOLEAN
             Places == 0..MaxRegisterRows
  <2>1. Books!Row = [kind : Books!Kind, factory : Factory, name : Names, spelling : Books!Spelling,
        phone : Phones, active : Flags,
               category : Places, location : Places]
    BY DEF Books!Row
  <2>2. /\ o.name \in Names /\ o.phone \in Phones /\ o.active \in Flags
        /\ o.category \in Places /\ o.location \in Places /\ o.spelling \in Books!Spelling
    BY <1>4, <1>5
  <2> HIDE DEF Names, Phones, Flags, Places
  <2> QED
    BY <1>3, <1>6, <2>1, <2>2
<1> QED
  BY <1>2, <1>6, <1>7 DEF set

(* What is there when the row is written. *)
BookLands(c, id, line) ==
    /\ line \in Books!Row /\ line.kind = registersCall[c].kind /\ line.factory = registersCall[c].factory
    /\ id \in 1..MaxRegisterRows
    /\ id \in DOMAIN rows => rows[id].kind = line.kind /\ rows[id].factory = line.factory
         /\ registersCall[c].id = id
    /\ id \notin DOMAIN rows => id = Len(rows) + 1 /\ registersCall[c].id = 0
    /\ \A i \in Books!Of(line.kind, line.factory) \ {id} : ~Books!Collide(line, rows[i])
    /\ line.kind = "item" =>
        /\ line.spelling \in Books!SkuSpelling
        /\ line.category \in Books!Of("category", line.factory)
             /\ line.location \in Books!Of("location", line.factory)
    /\ registersCall[c].late = FALSE => ~Books!Closed(c)
    /\ registersCall[c].late = FALSE /\ line.kind \in {"category", "location"} =>
        \/ \A i \in Books!Of(line.kind, line.factory) \ {id} : rows[i].name # line.name
        \/ id \in DOMAIN rows /\ line.name = rows[id].name
        \/ id \in DOMAIN rows /\ line.kind = "location" /\ "name" \in DOMAIN registersCall[c].set

LEMMA BookStores ==
  ASSUME Books!RegistersAssumption, BookIInv, NEW c \in Call, registersCall[c] # Books!Idle,
         registersCall[c].todo = <<>>, UNCHANGED registersCalls,
         NEW id, NEW line, BookLands(c, id, line), Books!Stored(c, id, line)
  PROVE  BookIInv'
<1>1. /\ rows' = IF id \in DOMAIN rows THEN [rows EXCEPT ![id] = line] ELSE Append(rows, line)
      /\ registersOverlapped' = IF registersCall[c].late THEN registersOverlapped \union {id}
           ELSE registersOverlapped
      /\ renamed' = IF line.kind = "location" /\ id \in DOMAIN rows /\ "name" \in DOMAIN registersCall[c].set
                    THEN renamed \union {id} ELSE renamed
      /\ misplaced' = IF Books!Closed(c) THEN misplaced \union {id} ELSE misplaced
      /\ registersCall' = [d \in Call |-> IF d = c \/ registersCall[d] = Books!Idle THEN Books!Idle ELSE [registersCall[d] EXCEPT !.late = TRUE]]
  BY DEF Books!Stored
<1>2. BookTypes /\ BookRows /\ BookCallOK(c) /\ MaxRegisterRows \in Nat
  BY BookConstants DEF BookIInv
<1>3. line \in Books!Row /\ id \in 1..MaxRegisterRows
  BY DEF BookLands
<1>4. /\ rows' \in Seq(Books!Row) /\ Len(rows') <= MaxRegisterRows /\ DOMAIN rows \subseteq DOMAIN rows'
      /\ id \in DOMAIN rows' /\ rows'[id] = line
      /\ \A i \in DOMAIN rows' : i # id => i \in DOMAIN rows /\ rows'[i] = rows[i]
  <2>1. CASE id \in DOMAIN rows
    BY <1>1, <1>2, <1>3, <2>1 DEF BookTypes
  <2>2. CASE id \notin DOMAIN rows
    <3>1. id = Len(rows) + 1 /\ rows' = Append(rows, line)
      BY <1>1, <2>2 DEF BookLands
    <3>2. DOMAIN rows = 1..Len(rows) /\ Len(rows) \in Nat /\ DOMAIN rows' = 1..(Len(rows) + 1)
      BY <1>2, <3>1 DEF BookTypes
    <3> QED
      BY <1>2, <1>3, <3>1, <3>2 DEF BookTypes
  <2> QED
    BY <2>1, <2>2
<1>5. \A i \in DOMAIN rows : rows'[i].kind = rows[i].kind /\ rows'[i].factory = rows[i].factory
  BY <1>4 DEF BookLands
<1>6. \A kind, f :
        /\ Books!OfKind(rows, kind, f) \subseteq Books!OfKind(rows', kind, f)
        /\ \A i \in Books!OfKind(rows', kind, f) : i # id => i \in Books!OfKind(rows, kind, f)
             /\ rows'[i] = rows[i]
        /\ id \in Books!OfKind(rows', kind, f) => kind = line.kind /\ f = line.factory
        /\ id \in Books!OfKind(rows, kind, f) => kind = line.kind /\ f = line.factory
  BY <1>4, <1>5 DEF Books!OfKind, BookLands
<1>7. BookTypes'
  <2>1. id \in Books!Id
    BY <1>3 DEF Books!Id
  <2>2. registersOverlapped' \subseteq Books!Id /\ renamed' \subseteq Books!Id /\ misplaced' \subseteq Books!Id
    BY <1>1, <1>2, <2>1 DEF BookTypes
  <2>3. DOMAIN registersCall' = Call
    BY <1>1
  <2> QED
    BY <1>4, <2>2, <2>3 DEF BookTypes
<1>8. registersOverlapped \subseteq registersOverlapped' /\ renamed \subseteq renamed'
      /\ (registersCall[c].late = TRUE => id \in registersOverlapped')
      /\ (registersCall[c].late = FALSE \/ registersCall[c].late = TRUE)
  BY <1>1, <1>2 DEF BookCallOK
<1>9. ASSUME NEW j \in Books!OfKind(rows, line.kind, line.factory), j # id
      PROVE  /\ line.kind = "vendor" => line.name # rows[j].name /\ line.phone # rows[j].phone
             /\ line.kind = "item" => line.name # rows[j].name
             /\ line.kind = "category" => line.name # rows[j].name
                  \/ {id, j} \intersect registersOverlapped' # {}
             /\ line.kind = "location" => line.name # rows[j].name
                  \/ {id, j} \intersect (registersOverlapped' \union renamed') # {}
  <2>1. ~Books!Collide(line, rows[j])
    BY <1>9 DEF BookLands, Books!Of
  <2>2. j \in DOMAIN rows /\ rows[j].kind = line.kind /\ rows[j].factory = line.factory
    BY <1>9 DEF Books!OfKind
  <2>3. ASSUME line.kind = "item" PROVE line.name # rows[j].name
    <3>1. line.spelling = "OIL" /\ rows[j].spelling = "OIL"
      BY <1>2, <2>2, <2>3 DEF BookLands, BookRows, Books!SkuSpelling
    <3> QED
      BY <2>1, <2>3, <3>1 DEF Books!Collide
  <2>4. ASSUME line.kind \in {"category", "location"}, line.name = rows[j].name, registersCall[c].late = FALSE
        PROVE  IF line.kind = "category" THEN {id, j} \intersect registersOverlapped' # {}
               ELSE {id, j} \intersect (registersOverlapped' \union renamed') # {}
    <3>1. \/ id \in DOMAIN rows /\ line.name = rows[id].name
          \/ id \in DOMAIN rows /\ line.kind = "location" /\ "name" \in DOMAIN registersCall[c].set
      BY <1>9, <2>4 DEF BookLands, Books!Of
    <3>2. CASE id \in DOMAIN rows /\ line.kind = "location" /\ "name" \in DOMAIN registersCall[c].set
      BY <1>1, <3>2
    <3>3. CASE id \in DOMAIN rows /\ line.name = rows[id].name
      <4>1. /\ id \in Books!OfKind(rows, line.kind, line.factory) /\ rows[id].name = rows[j].name
            /\ line.kind \in Books!Kind /\ line.factory \in Factory
        BY <1>3, <2>4, <3>3 DEF BookLands, Books!OfKind, Books!Row
      <4>2. Books!ToldApart(rows, registersOverlapped, registersOverlapped \union renamed)
        BY <1>2 DEF BookRows, Books!RegistersHold
      <4>3. /\ line.kind = "category" => {id, j} \intersect registersOverlapped # {}
            /\ line.kind = "location" => {id, j} \intersect (registersOverlapped \union renamed) # {}
        BY <1>9, <4>1, <4>2 DEF Books!ToldApart
      <4> QED
        BY <1>8, <2>4, <4>3
    <3> QED
      BY <3>1, <3>2, <3>3
  <2>5. line.kind = "vendor" => line.name # rows[j].name /\ line.phone # rows[j].phone
    BY <2>1 DEF Books!Collide
  <2>6. registersCall[c].late = TRUE => {id, j} \intersect registersOverlapped' # {}
        /\ {id, j} \intersect (registersOverlapped' \union renamed') # {}
    BY <1>8
  <2> QED
    BY <1>8, <2>3, <2>4, <2>5, <2>6
<1>10. Books!ToldApart(rows', registersOverlapped', registersOverlapped' \union renamed')
  <2> SUFFICES ASSUME NEW f \in Factory, NEW kind \in Books!Kind,
                      NEW i \in Books!OfKind(rows', kind, f), NEW j \in Books!OfKind(rows', kind, f), i # j
               PROVE  CASE kind = "vendor" -> rows'[i].name # rows'[j].name /\ rows'[i].phone # rows'[j].phone
                        [] kind = "item" -> rows'[i].name # rows'[j].name
                        [] kind = "category" -> rows'[i].name # rows'[j].name
                        \/ {i, j} \intersect registersOverlapped' # {}
                        [] kind = "location" ->
                              rows'[i].name # rows'[j].name
                              \/ {i, j} \intersect (registersOverlapped' \union renamed') # {}
    BY Zenon DEF Books!ToldApart
  <2> SUFFICES /\ kind = "vendor" => rows'[i].name # rows'[j].name /\ rows'[i].phone # rows'[j].phone
               /\ kind = "item" => rows'[i].name # rows'[j].name
               /\ kind = "category" => rows'[i].name # rows'[j].name
                    \/ {i, j} \intersect registersOverlapped' # {}
               /\ kind = "location" => rows'[i].name # rows'[j].name
                    \/ {i, j} \intersect (registersOverlapped' \union renamed') # {}
    BY DEF Books!Kind
  <2>1. CASE i # id /\ j # id
    <3>1. i \in Books!OfKind(rows, kind, f) /\ j \in Books!OfKind(rows, kind, f) /\ rows'[i] = rows[i]
            /\ rows'[j] = rows[j]
      BY <1>6, <2>1
    <3>2. Books!ToldApart(rows, registersOverlapped, registersOverlapped \union renamed)
      BY <1>2 DEF BookRows, Books!RegistersHold
    <3>3. /\ kind = "vendor" => rows[i].name # rows[j].name /\ rows[i].phone # rows[j].phone
          /\ kind = "item" => rows[i].name # rows[j].name
          /\ kind = "category" => rows[i].name # rows[j].name \/ {i, j} \intersect registersOverlapped # {}
          /\ kind = "location" => rows[i].name # rows[j].name
               \/ {i, j} \intersect (registersOverlapped \union renamed) # {}
      BY <3>1, <3>2 DEF Books!ToldApart
    <3> QED
      BY <1>8, <3>1, <3>3
  <2>2. CASE i = id
    <3>1. kind = line.kind /\ f = line.factory /\ j \in Books!OfKind(rows, line.kind, line.factory)
          /\ rows'[j] = rows[j]
      BY <1>6, <2>2
    <3> QED
      BY <1>4, <1>9, <2>2, <3>1
  <2>3. CASE j = id
    <3>1. kind = line.kind /\ f = line.factory /\ i \in Books!OfKind(rows, line.kind, line.factory)
          /\ rows'[i] = rows[i]
      BY <1>6, <2>3
    <3>2. {i, j} = {j, i}
      OBVIOUS
    <3> QED
      BY <1>4, <1>9, <2>3, <3>1, <3>2
  <2> QED
    BY <2>1, <2>2, <2>3
<1>11. Books!ItemsPlaced(rows')
  <2> SUFFICES ASSUME NEW f \in Factory, NEW i \in Books!OfKind(rows', "item", f)
               PROVE  /\ rows'[i].category \in Books!OfKind(rows', "category", f)
                      /\ rows'[i].location \in Books!OfKind(rows', "location", f)
    BY DEF Books!ItemsPlaced
  <2>1. CASE i # id
    <3>1. i \in Books!OfKind(rows, "item", f) /\ rows'[i] = rows[i]
      BY <1>6, <2>1
    <3>2. rows[i].category \in Books!OfKind(rows, "category", f)
          /\ rows[i].location \in Books!OfKind(rows, "location", f)
      BY <1>2, <3>1 DEF BookRows, Books!RegistersHold, Books!ItemsPlaced
    <3> QED
      BY <1>6, <3>1, <3>2
  <2>2. CASE i = id
    <3>1. line.kind = "item" /\ f = line.factory
      BY <1>6, <2>2
    <3>2. line.category \in Books!OfKind(rows, "category", f)
          /\ line.location \in Books!OfKind(rows, "location", f)
      BY <3>1 DEF BookLands, Books!Of
    <3> QED
      BY <1>4, <1>6, <2>2, <3>2
  <2> QED
    BY <2>1, <2>2
<1>12. misplaced' \subseteq registersOverlapped'
  <2>1. misplaced \subseteq registersOverlapped
    BY <1>2 DEF BookRows, Books!RegistersHold
  <2>2. CASE registersCall[c].late = FALSE
    BY <1>1, <1>8, <2>1, <2>2 DEF BookLands
  <2>3. CASE registersCall[c].late = TRUE
    BY <1>1, <1>8, <2>1, <2>3
  <2> QED
    BY <1>8, <2>2, <2>3
<1>13. BookRows'
  <2>1. \A i \in DOMAIN rows' : rows'[i].kind = "item" => rows'[i].spelling \in Books!SkuSpelling
    BY <1>2, <1>4 DEF BookLands, BookRows
  <2> QED
    BY <1>10, <1>11, <1>12, <2>1 DEF BookRows, Books!RegistersHold
<1>14. ASSUME NEW d \in Call
       PROVE  registersCall'[d] = Books!Idle \/ BookCallOK(d)'
  <2>1. CASE d = c \/ registersCall[d] = Books!Idle
    BY <1>1, <2>1
  <2>2. CASE ~(d = c \/ registersCall[d] = Books!Idle)
    <3>1. BookCallOK(d) /\ registersCall'[d] = [registersCall[d] EXCEPT !.late = TRUE]
      BY <1>1, <2>2 DEF BookIInv
    <3>2. /\ registersCall'[d].kind = registersCall[d].kind
               /\ registersCall'[d].factory = registersCall[d].factory
          /\ registersCall'[d].id = registersCall[d].id /\ registersCall'[d].set = registersCall[d].set
               /\ registersCall'[d].todo = registersCall[d].todo
          /\ registersCall'[d].late = TRUE /\ DOMAIN registersCall'[d] = BookCallField
      BY <3>1 DEF BookCallOK, BookCallField
    <3>3. BookUnasked(d)' = BookUnasked(d)
      BY <3>2 DEF BookUnasked
    <3>4. BookSets(d)'
      BY <3>1, <3>2 DEF BookCallOK, BookSets, BookSetOK
    <3>5. \A kind, f : Books!Of(kind, f) \subseteq Books!Of(kind, f)'
      BY <1>6 DEF Books!Of
    <3>6. BookAsked(d)'
      BY <3>1, <3>2, <3>3, <3>5 DEF BookCallOK, BookAsked
    <3> QED
      BY <3>1, <3>2, <3>4, <3>6 DEF BookCallOK
  <2> QED
    BY <2>1, <2>2
<1> QED
  BY <1>7, <1>13, <1>14 DEF BookIInv

(* A call that asked everything, and was not overtaken, puts no item into a closed
   place and writes a name nobody has. *)
LEMMA BookReady ==
  ASSUME NEW c \in Call, BookCallOK(c), registersCall[c].todo = <<>>
  PROVE  /\ registersCall[c].id # 0
              => registersCall[c].id \in Books!Of(registersCall[c].kind, registersCall[c].factory)
         /\ "category" \in DOMAIN registersCall[c].set
              => registersCall[c].set.category \in Books!Of("category", registersCall[c].factory)
         /\ "location" \in DOMAIN registersCall[c].set
              => registersCall[c].set.location \in Books!Of("location", registersCall[c].factory)
         /\ registersCall[c].late = FALSE => ~Books!Closed(c)
         /\ registersCall[c].late = FALSE /\ "name" \in DOMAIN registersCall[c].set
               /\ (registersCall[c].kind = "category" \/ (registersCall[c].kind = "location" /\ registersCall[c].id = 0)) =>
               \A i \in Books!Of(registersCall[c].kind, registersCall[c].factory) \ {registersCall[c].id} : rows[i].name # registersCall[c].set.name
<1>1. BookUnasked(c) = {}
  BY DEF BookUnasked
<1>2. BookAsked(c) /\ (registersCall[c].late = FALSE => BookFresh(c))
  BY DEF BookCallOK
<1>3. /\ registersCall[c].id # 0
           => registersCall[c].id \in Books!Of(registersCall[c].kind, registersCall[c].factory)
      /\ "category" \in DOMAIN registersCall[c].set
           => registersCall[c].set.category \in Books!Of("category", registersCall[c].factory)
      /\ "location" \in DOMAIN registersCall[c].set
           => registersCall[c].set.location \in Books!Of("location", registersCall[c].factory)
  BY <1>1, <1>2 DEF BookAsked
<1>4. ASSUME registersCall[c].late = FALSE
      PROVE  ~Books!Closed(c)
  <2>1. /\ "category" \in DOMAIN registersCall[c].set => rows[registersCall[c].set.category].active = TRUE
        /\ "location" \in DOMAIN registersCall[c].set => rows[registersCall[c].set.location].active = TRUE
    BY <1>1, <1>2, <1>4 DEF BookFresh
  <2> QED
    BY <1>3, <2>1 DEF Books!Closed, Books!OpenCategory, Books!OpenLocation
<1> QED
  BY <1>1, <1>2, <1>3, <1>4 DEF BookFresh

LEMMA BookWrites ==
  ASSUME Books!RegistersAssumption, BookIInv, NEW c \in Call, Books!Write(c)
  PROVE  BookIInv'
<1> DEFINE id == IF registersCall[c].id = 0 THEN Len(rows) + 1 ELSE registersCall[c].id
           line == IF registersCall[c].id = 0 THEN Books!NewRow(c) ELSE Books!PatchedRow(c)
<1>1. /\ registersCall[c] # Books!Idle /\ registersCall[c].todo = <<>> /\ id <= MaxRegisterRows
           /\ UNCHANGED registersCalls
      /\ IF \E i \in Books!Of(line.kind, line.factory) \ {id} : Books!Collide(line, rows[i])
         THEN UNCHANGED <<rows, registersOverlapped, renamed, misplaced>>
              /\ registersCall' = [registersCall EXCEPT ![c] = Books!Idle]
         ELSE Books!Stored(c, id, line)
  BY DEF Books!Write
<1>2. BookTypes /\ BookRows /\ BookCallOK(c) /\ MaxRegisterRows \in Nat
      /\ registersCalls \in 0..MaxRegisterCalls
  BY <1>1, BookConstants DEF BookIInv
<1> DEFINE old == IF registersCall[c].id = 0 THEN Books!Blank ELSE Books!Fields(registersCall[c].id)
<1>3. line = Books!RowOf(c, Books!Over(registersCall[c].set, old))
  BY DEF Books!NewRow, Books!PatchedRow
<1>4. /\ DOMAIN rows = 1..Len(rows) /\ Len(rows) \in Nat /\ registersCall[c].id \in 0..MaxRegisterRows
      /\ BookSets(c) /\ \A i \in DOMAIN rows : rows[i] \in Books!Row
  BY <1>2 DEF BookTypes, BookCallOK
<1>5. registersCall[c].id # 0 =>
        /\ registersCall[c].id \in DOMAIN rows /\ rows[registersCall[c].id] \in Books!Row
        /\ rows[registersCall[c].id].kind = registersCall[c].kind
             /\ rows[registersCall[c].id].factory = registersCall[c].factory
        /\ Books!Fields(registersCall[c].id).name = rows[registersCall[c].id].name
        /\ Books!Fields(registersCall[c].id).spelling = rows[registersCall[c].id].spelling
        /\ Books!Fields(registersCall[c].id).phone = rows[registersCall[c].id].phone
        /\ Books!Fields(registersCall[c].id).active = rows[registersCall[c].id].active
        /\ Books!Fields(registersCall[c].id).category = rows[registersCall[c].id].category
        /\ Books!Fields(registersCall[c].id).location = rows[registersCall[c].id].location
  <2>1. registersCall[c].id # 0 => registersCall[c].id \in DOMAIN rows
          /\ rows[registersCall[c].id].kind = registersCall[c].kind
               /\ rows[registersCall[c].id].factory = registersCall[c].factory
    BY <1>1, <1>2, BookReady DEF Books!Of, Books!OfKind
  <2>2. \A r : /\ Books!Fields(r).name = rows[r].name /\ Books!Fields(r).spelling = rows[r].spelling
               /\ Books!Fields(r).phone = rows[r].phone /\ Books!Fields(r).active = rows[r].active
               /\ Books!Fields(r).category = rows[r].category /\ Books!Fields(r).location = rows[r].location
    BY BookFields DEF Books!Fields, BookField
  <2> QED
    BY <1>4, <2>1, <2>2
<1>6. BookOldOK(old)
  <2>1. CASE registersCall[c].id = 0
    <3>1. BookOldOK(Books!Blank)
      BY <1>2 DEF BookOldOK, Books!Blank, Books!Spelling
    <3> QED
      BY <2>1, <3>1
  <2>2. CASE registersCall[c].id # 0
    <3>1. PICK r : r = rows[registersCall[c].id]
      OBVIOUS
    <3>2. r \in Books!Row
      BY <1>5, <2>2, <3>1
    <3>3. BookOldOK(r)
      BY <3>2, Zenon DEF BookOldOK, Books!Row
    <3> QED
      BY <1>5, <2>2, <3>1, <3>3 DEF BookOldOK
  <2> QED
    BY <2>1, <2>2
<1> HIDE DEF old, line
<1>7. /\ line \in Books!Row /\ line.kind = registersCall[c].kind /\ line.factory = registersCall[c].factory
      /\ line.name = IF "name" \in DOMAIN registersCall[c].set THEN registersCall[c].set.name ELSE old.name
      /\ line.spelling = IF "spelling" \in DOMAIN registersCall[c].set THEN registersCall[c].set.spelling
           ELSE old.spelling
      /\ line.category = IF "category" \in DOMAIN registersCall[c].set THEN registersCall[c].set.category
           ELSE old.category
      /\ line.location = IF "location" \in DOMAIN registersCall[c].set THEN registersCall[c].set.location
           ELSE old.location
  BY <1>2, <1>3, <1>6, BookLine
<1>8. CASE \E i \in Books!Of(line.kind, line.factory) \ {id} : Books!Collide(line, rows[i])
  <2>1. UNCHANGED <<rows, registersOverlapped, renamed, misplaced, registersCalls>>
        /\ registersCall' = [registersCall EXCEPT ![c] = Books!Idle]
    BY <1>1, <1>8
  <2> QED
    BY <1>2, <2>1, BookRests
<1>9. CASE ~\E i \in Books!Of(line.kind, line.factory) \ {id} : Books!Collide(line, rows[i])
  <2>1. Books!Stored(c, id, line)
    BY <1>1, <1>9
  <2>2. /\ registersCall[c].id # 0
             => registersCall[c].id \in Books!Of(registersCall[c].kind, registersCall[c].factory)
        /\ "category" \in DOMAIN registersCall[c].set
             => registersCall[c].set.category \in Books!Of("category", registersCall[c].factory)
        /\ "location" \in DOMAIN registersCall[c].set
             => registersCall[c].set.location \in Books!Of("location", registersCall[c].factory)
        /\ registersCall[c].late = FALSE => ~Books!Closed(c)
        /\ registersCall[c].late = FALSE /\ "name" \in DOMAIN registersCall[c].set
              /\ (registersCall[c].kind = "category" \/ (registersCall[c].kind = "location" /\ registersCall[c].id = 0)) =>
              \A i \in Books!Of(registersCall[c].kind, registersCall[c].factory) \ {registersCall[c].id} : rows[i].name # registersCall[c].set.name
    BY <1>1, <1>2, BookReady
  <2>3. id \in 1..MaxRegisterRows /\ (id \in DOMAIN rows <=> registersCall[c].id # 0)
          /\ (registersCall[c].id # 0 => id = registersCall[c].id)
        /\ (registersCall[c].id = 0 => id = Len(rows) + 1)
    BY <1>1, <1>2, <1>4, <1>5
  <2>4. ASSUME line.kind = "item"
        PROVE  /\ line.spelling \in Books!SkuSpelling
               /\ line.category \in Books!Of("category", line.factory)
                    /\ line.location \in Books!Of("location", line.factory)
    <3>1. CASE registersCall[c].id = 0
      BY <1>4, <1>7, <2>2, <2>4, <3>1 DEF BookSets, old, Books!Blank, Books!SkuSpelling
    <3>2. CASE registersCall[c].id # 0
      <4>1. /\ rows[registersCall[c].id].spelling \in Books!SkuSpelling
            /\ rows[registersCall[c].id].category \in Books!Of("category", line.factory)
            /\ rows[registersCall[c].id].location \in Books!Of("location", line.factory)
        <5>1. registersCall[c].id \in Books!OfKind(rows, "item", line.factory) /\ line.factory \in Factory
          BY <1>2, <1>5, <1>7, <2>4, <3>2 DEF Books!OfKind, BookCallOK
        <5> QED
          BY <1>2, <5>1 DEF BookRows, Books!RegistersHold, Books!ItemsPlaced, Books!OfKind, Books!Of
      <4>2. old.spelling = rows[registersCall[c].id].spelling
            /\ old.category = rows[registersCall[c].id].category
            /\ old.location = rows[registersCall[c].id].location
        BY <1>5, <3>2 DEF old
      <4> QED
        BY <1>4, <1>7, <2>2, <2>4, <4>1, <4>2 DEF BookSets
    <3> QED
      BY <3>1, <3>2
  <2>5. ASSUME registersCall[c].late = FALSE, line.kind \in {"category", "location"}
        PROVE  \/ \A i \in Books!Of(line.kind, line.factory) \ {id} : rows[i].name # line.name
               \/ id \in DOMAIN rows /\ line.name = rows[id].name
               \/ id \in DOMAIN rows /\ line.kind = "location" /\ "name" \in DOMAIN registersCall[c].set
    <3>1. CASE registersCall[c].id = 0
      <4>1. "name" \in DOMAIN registersCall[c].set
        BY <1>4, <3>1 DEF BookSets
      <4>2. \A i \in Books!Of(line.kind, line.factory) : i # 0
        BY <1>4 DEF Books!Of, Books!OfKind
      <4> QED
        BY <1>7, <2>2, <2>5, <3>1, <4>1, <4>2
    <3>2. CASE registersCall[c].id # 0 /\ "name" \in DOMAIN registersCall[c].set
      BY <1>7, <2>2, <2>3, <2>5, <3>2
    <3>3. CASE registersCall[c].id # 0 /\ "name" \notin DOMAIN registersCall[c].set
      BY <1>5, <1>7, <2>3, <3>3 DEF old
    <3> QED
      BY <3>1, <3>2, <3>3
  <2>6. BookLands(c, id, line)
    <3>1. \A i \in Books!Of(line.kind, line.factory) \ {id} : ~Books!Collide(line, rows[i])
      BY <1>9
    <3>2. id \in DOMAIN rows => rows[id].kind = line.kind /\ rows[id].factory = line.factory
            /\ registersCall[c].id = id
      BY <1>5, <1>7, <2>3
    <3>3. id \notin DOMAIN rows => id = Len(rows) + 1 /\ registersCall[c].id = 0
      BY <2>3
    <3> HIDE DEF id
    <3> QED
      BY <1>7, <2>2, <2>3, <2>4, <2>5, <3>1, <3>2, <3>3 DEF BookLands
  <2> HIDE DEF id
  <2> QED
    BY <1>1, <2>1, <2>6, BookStores
<1> QED
  BY <1>8, <1>9

-----------------------------------------------------------------------------
(* The requests                                                            *)

LEMMA BookQuestions ==
  /\ <<>> \in Seq(BookQuestion) /\ <<"name">> \in Seq(BookQuestion) /\ <<"name", "phone">> \in Seq(BookQuestion)
  /\ <<"category", "location", "name">> \in Seq(BookQuestion)
  /\ <<"category">> \in Seq(BookQuestion) /\ <<"location">> \in Seq(BookQuestion)
<1>1. \A q \in {"row", "name", "phone", "category", "location"} : q \in BookQuestion
  BY DEF BookQuestion
<1> QED
  BY <1>1

LEMMA BookCreates ==
  ASSUME Books!RegistersAssumption, BookIInv, NEW c \in Call,
         Books!CreateCategory(c) \/ Books!CreateLocation(c) \/ Books!CreateItem(c) \/ Books!CreateVendor(c)
  PROVE  BookIInv'
<1>1. /\ 0 \in 0..MaxRegisterRows /\ Books!Spelling = {"Oil", "OIL"} /\ Books!SkuSpelling = {"OIL"}
      /\ \A kind : \A i \in Books!All(kind) : i \in 0..MaxRegisterRows
  BY BookConstants DEF Books!Spelling, Books!SkuSpelling, Books!All, BookIInv, BookTypes
<1>2. /\ "category" \in Books!Kind /\ "location" \in Books!Kind /\ "item" \in Books!Kind
           /\ "vendor" \in Books!Kind
  BY DEF Books!Kind
<1>3. ASSUME NEW kind \in {"category", "location"}, NEW f \in Factory, NEW n \in Name,
             NEW set \in Books!Named(n, Books!Spelling),
             Books!Begin(c, kind, f, 0, set, <<"name">>)
      PROVE  BookIInv'
  <2>1. DOMAIN set = {"name", "spelling"} /\ set.name = n /\ set.spelling \in Books!Spelling
    BY <1>3 DEF Books!Named
  <2>2. BookSetOK(set)
    BY <2>1 DEF BookSetOK
  <2>3. \E m \in DOMAIN <<"name">> : <<"name">>[m] = "name"
    OBVIOUS
  <2>4. /\ kind \in Books!Kind /\ kind # "item" /\ "category" \notin DOMAIN set /\ "location" \notin DOMAIN set
        /\ "name" \in DOMAIN set
    BY <1>2, <1>3, <2>1
  <2> QED
    BY <1>1, <1>3, <2>2, <2>3, <2>4, BookQuestions, BookBegins
<1>4. CASE Books!CreateCategory(c)
  <2>1. PICK f \in Factory, n \in Name : \E set \in Books!Named(n, Books!Spelling) : Books!Begin(c, "category", f, 0, set, <<"name">>)
    BY <1>4 DEF Books!CreateCategory
  <2> QED
    BY <1>3, <2>1
<1>5. CASE Books!CreateLocation(c)
  <2>1. PICK f \in Factory, n \in Name : \E set \in Books!Named(n, Books!Spelling) : Books!Begin(c, "location", f, 0, set, <<"name">>)
    BY <1>5 DEF Books!CreateLocation
  <2> QED
    BY <1>3, <2>1
<1>6. CASE Books!CreateItem(c)
  <2>1. PICK f \in Factory, n \in Name, s \in Books!SkuSpelling, k \in Books!All("category"),
               l \in Books!All("location") :
            Books!Begin(c, "item", f, 0, [name |-> n, spelling |-> s, category |-> k, location |-> l],
                  <<"category", "location", "name">>)
    BY <1>6 DEF Books!CreateItem
  <2>2. PICK set : set = [name |-> n, spelling |-> s, category |-> k, location |-> l]
    OBVIOUS
  <2>3. /\ DOMAIN set = {"name", "spelling", "category", "location"} /\ set.name = n /\ set.spelling = s
        /\ set.category = k /\ set.location = l
    BY <2>2
  <2>4. BookSetOK(set)
    BY <1>1, <2>3 DEF BookSetOK
  <2>5. PICK todo : todo = <<"category", "location", "name">>
    OBVIOUS
  <2>6. todo[1] = "category" /\ todo[2] = "location" /\ DOMAIN todo = 1..3 /\ todo \in Seq(BookQuestion)
    BY <2>5, BookQuestions
  <2>7. Books!Begin(c, "item", f, 0, set, todo)
    BY <2>1, <2>2, <2>5
  <2>8. /\ \E m \in DOMAIN todo : todo[m] = "category"
        /\ \E m \in DOMAIN todo : todo[m] = "location"
    BY <2>6
  <2>9. /\ "name" \in DOMAIN set /\ "category" \in DOMAIN set /\ "location" \in DOMAIN set
             /\ set.spelling \in Books!SkuSpelling
    BY <2>3
  <2> QED
    BY <1>1, <1>2, <2>4, <2>6, <2>7, <2>8, <2>9, BookBegins
<1>7. CASE Books!CreateVendor(c)
  <2>1. PICK f \in Factory, n \in Name, s \in Books!Spelling, p \in Phone :
            Books!Begin(c, "vendor", f, 0, [name |-> n, spelling |-> s, phone |-> p], <<"name", "phone">>)
    BY <1>7 DEF Books!CreateVendor
  <2>2. PICK set : set = [name |-> n, spelling |-> s, phone |-> p]
    OBVIOUS
  <2>3. /\ DOMAIN set = {"name", "spelling", "phone"} /\ set.name = n /\ set.spelling = s /\ set.phone = p
    BY <2>2
  <2>4. BookSetOK(set)
    BY <1>1, <2>3 DEF BookSetOK
  <2>5. Books!Begin(c, "vendor", f, 0, set, <<"name", "phone">>)
    BY <2>1, <2>2
  <2>6. /\ "category" \notin DOMAIN set /\ "location" \notin DOMAIN set /\ "name" \in DOMAIN set
    BY <2>3
  <2> QED
    BY <1>1, <1>2, <2>4, <2>5, <2>6, BookQuestions, BookBegins
<1> QED
  BY <1>4, <1>5, <1>6, <1>7

(* An update asks for its row first. *)
LEMMA BookUpdates ==
  ASSUME Books!RegistersAssumption, BookIInv, NEW c \in Call, NEW kind \in Books!Kind, NEW todo,
         Books!Updates(c, kind, todo),
         \A set \in DOMAIN todo :
            /\ todo[set] \in Seq(BookQuestion) /\ BookSetOK(set)
            /\ kind # "item" => "category" \notin DOMAIN set /\ "location" \notin DOMAIN set
            /\ kind = "item" => "spelling" \notin DOMAIN set
            /\ "category" \in DOMAIN set => todo[set] = <<"category">>
            /\ "location" \in DOMAIN set => todo[set] = <<"location">>
            /\ "name" \in DOMAIN set /\ kind = "category" => todo[set] = <<"name">>
  PROVE  BookIInv'
<1>1. PICK id \in Books!All(kind), f \in Factory,
             set \in DOMAIN todo : Books!Begin(c, kind, f, id, set, <<"row">> \o todo[set])
  BY DEF Books!Updates
<1>2. id \in 0..MaxRegisterRows /\ id # 0
  BY BookConstants DEF Books!All, BookIInv, BookTypes
<1>3. /\ todo[set] \in Seq(BookQuestion) /\ BookSetOK(set)
      /\ kind # "item" => "category" \notin DOMAIN set /\ "location" \notin DOMAIN set
      /\ kind = "item" => "spelling" \notin DOMAIN set
      /\ "category" \in DOMAIN set => todo[set] = <<"category">>
      /\ "location" \in DOMAIN set => todo[set] = <<"location">>
      /\ "name" \in DOMAIN set /\ kind = "category" => todo[set] = <<"name">>
  OBVIOUS
<1>4. PICK rest : rest = todo[set]
  OBVIOUS
<1>5. PICK asked : asked = <<"row">> \o rest
  OBVIOUS
<1>6. /\ rest \in Seq(BookQuestion) /\ <<"row">> \in Seq(BookQuestion)
  BY <1>3, <1>4 DEF BookQuestion
<1>7. asked \in Seq(BookQuestion) /\ asked[1] = "row" /\ DOMAIN asked = 1..(Len(rest) + 1) /\ Len(rest) \in Nat
      /\ (Len(rest) >= 1 => asked[2] = rest[1])
  BY <1>5, <1>6
<1>8. \A q : rest = <<q>> => \E m \in DOMAIN asked : asked[m] = q
  BY <1>7
<1>9. \E m \in DOMAIN asked : asked[m] = "row"
  BY <1>7
<1>10. Books!Begin(c, kind, f, id, set, asked)
  BY <1>1, <1>4, <1>5
<1>11. /\ "category" \in DOMAIN set => \E m \in DOMAIN asked : asked[m] = "category"
       /\ "location" \in DOMAIN set => \E m \in DOMAIN asked : asked[m] = "location"
       /\ "name" \in DOMAIN set /\ kind = "category" => \E m \in DOMAIN asked : asked[m] = "name"
  BY <1>3, <1>4, <1>8
<1> QED
  BY <1>2, <1>3, <1>7, <1>9, <1>10, <1>11, BookBegins

LEMMA BookPatches ==
  ASSUME Books!RegistersAssumption, BookIInv, NEW c \in Call,
         Books!UpdateCategory(c) \/ Books!UpdateLocation(c) \/ Books!UpdateItem(c) \/ Books!UpdateVendor(c)
         \/ Books!DeactivateVendor(c)
  PROVE  BookIInv'
<1>1. /\ Books!Spelling = {"Oil", "OIL"} /\ \A kind : \A i \in Books!All(kind) : i \in 0..MaxRegisterRows
  BY BookConstants DEF Books!Spelling, Books!All, BookIInv, BookTypes
<1>2. /\ "category" \in Books!Kind /\ "location" \in Books!Kind /\ "item" \in Books!Kind
           /\ "vendor" \in Books!Kind
  BY DEF Books!Kind
<1>3. \A set \in Books!Opened : DOMAIN set = {"active"} /\ BookSetOK(set)
  <2> TAKE set \in Books!Opened
  <2>1. PICK a \in BOOLEAN : set = [active |-> a]
    BY DEF Books!Opened
  <2>2. DOMAIN set = {"active"} /\ set.active = a
    BY <2>1
  <2> QED
    BY <2>2 DEF BookSetOK
<1>4. \A set \in Books!NewNames : DOMAIN set = {"name", "spelling"} /\ BookSetOK(set)
  <2> TAKE set \in Books!NewNames
  <2>1. PICK n \in Name : set \in Books!Named(n, Books!Spelling)
    BY DEF Books!NewNames
  <2>2. DOMAIN set = {"name", "spelling"} /\ set.name = n /\ set.spelling \in Books!Spelling
    BY <2>1 DEF Books!Named
  <2> QED
    BY <2>2 DEF BookSetOK
<1>5. \A set \in {[category |-> k] : k \in Books!All("category")} : DOMAIN set = {"category"} /\ BookSetOK(set)
  <2> TAKE set \in {[category |-> k] : k \in Books!All("category")}
  <2>1. PICK k \in Books!All("category") : set = [category |-> k]
    OBVIOUS
  <2>2. DOMAIN set = {"category"} /\ set.category = k
    BY <2>1
  <2> QED
    BY <1>1, <2>2 DEF BookSetOK
<1>6. \A set \in {[location |-> l] : l \in Books!All("location")} : DOMAIN set = {"location"} /\ BookSetOK(set)
  <2> TAKE set \in {[location |-> l] : l \in Books!All("location")}
  <2>1. PICK l \in Books!All("location") : set = [location |-> l]
    OBVIOUS
  <2>2. DOMAIN set = {"location"} /\ set.location = l
    BY <2>1
  <2> QED
    BY <1>1, <2>2 DEF BookSetOK
<1>7. \A set \in {[phone |-> p] : p \in Phone} : DOMAIN set = {"phone"} /\ BookSetOK(set)
  <2> TAKE set \in {[phone |-> p] : p \in Phone}
  <2>1. PICK p \in Phone : set = [phone |-> p]
    OBVIOUS
  <2>2. DOMAIN set = {"phone"} /\ set.phone = p
    BY <2>1
  <2> QED
    BY <2>2 DEF BookSetOK
<1>8. CASE Books!UpdateCategory(c)
  <2>1. PICK todo : todo = [set \in Books!Opened \union Books!NewNames |-> IF set \in Books!NewNames THEN <<"name">> ELSE <<>>]
    OBVIOUS
  <2>2. Books!Updates(c, "category", todo)
    BY <1>8, <2>1 DEF Books!UpdateCategory
  <2>3. \A set \in DOMAIN todo :
            /\ todo[set] \in Seq(BookQuestion) /\ BookSetOK(set)
            /\ "category" \notin DOMAIN set /\ "location" \notin DOMAIN set
            /\ "name" \in DOMAIN set => todo[set] = <<"name">>
    BY <1>3, <1>4, <2>1, BookQuestions
  <2> QED
    BY <1>2, <2>2, <2>3, BookUpdates
<1>9. CASE Books!UpdateLocation(c)
  <2>1. PICK todo : todo = [set \in Books!Opened \union Books!NewNames |-> <<>>]
    OBVIOUS
  <2>2. Books!Updates(c, "location", todo)
    BY <1>9, <2>1 DEF Books!UpdateLocation
  <2>3. \A set \in DOMAIN todo :
            /\ todo[set] \in Seq(BookQuestion) /\ BookSetOK(set)
            /\ "category" \notin DOMAIN set /\ "location" \notin DOMAIN set
    BY <1>3, <1>4, <2>1, BookQuestions
  <2> QED
    BY <1>2, <2>2, <2>3, BookUpdates
<1>10. CASE Books!UpdateItem(c)
  <2> DEFINE Moves == {[category |-> k] : k \in Books!All("category")}
             Spots == {[location |-> l] : l \in Books!All("location")}
  <2>1. PICK todo : todo = [set \in (Books!Opened \union Moves) \union Spots |->
                                IF "category" \in DOMAIN set THEN <<"category">>
                                ELSE IF "location" \in DOMAIN set THEN <<"location">> ELSE <<>>]
    OBVIOUS
  <2>2. Books!Updates(c, "item", todo)
    BY <1>10, <2>1 DEF Books!UpdateItem
  <2>3. /\ \A set \in Moves : DOMAIN set = {"category"} /\ BookSetOK(set)
        /\ \A set \in Spots : DOMAIN set = {"location"} /\ BookSetOK(set)
    BY <1>5, <1>6
  <2> HIDE DEF Moves, Spots
  <2>4. \A set \in DOMAIN todo :
            /\ todo[set] \in Seq(BookQuestion) /\ BookSetOK(set)
            /\ "spelling" \notin DOMAIN set
            /\ "category" \in DOMAIN set => todo[set] = <<"category">>
            /\ "location" \in DOMAIN set => todo[set] = <<"location">>
    BY <1>3, <2>1, <2>3, BookQuestions
  <2> QED
    BY <1>2, <2>2, <2>4, BookUpdates
<1>11. CASE Books!UpdateVendor(c)
  <2> DEFINE Phones == {[phone |-> p] : p \in Phone}
  <2>1. PICK todo : todo = [set \in (Books!Opened \union Books!NewNames) \union Phones |-> <<"name", "phone">>]
    OBVIOUS
  <2>2. Books!Updates(c, "vendor", todo)
    BY <1>11, <2>1 DEF Books!UpdateVendor
  <2>3. \A set \in Phones : DOMAIN set = {"phone"} /\ BookSetOK(set)
    BY <1>7
  <2> HIDE DEF Phones
  <2>4. \A set \in DOMAIN todo :
            /\ todo[set] \in Seq(BookQuestion) /\ BookSetOK(set)
            /\ "category" \notin DOMAIN set /\ "location" \notin DOMAIN set
    BY <1>3, <1>4, <2>1, <2>3, BookQuestions
  <2> QED
    BY <1>2, <2>2, <2>4, BookUpdates
<1>12. CASE Books!DeactivateVendor(c)
  <2>1. PICK todo : todo = [set \in {[active |-> FALSE]} |-> <<>>]
    OBVIOUS
  <2>2. Books!Updates(c, "vendor", todo)
    BY <1>12, <2>1 DEF Books!DeactivateVendor
  <2>3. [active |-> FALSE] \in Books!Opened
    BY DEF Books!Opened
  <2>4. \A set \in DOMAIN todo :
            /\ todo[set] \in Seq(BookQuestion) /\ BookSetOK(set)
            /\ "category" \notin DOMAIN set /\ "location" \notin DOMAIN set
    BY <1>3, <2>1, <2>3, BookQuestions
  <2> QED
    BY <1>2, <2>2, <2>4, BookUpdates
<1> QED
  BY <1>8, <1>9, <1>10, <1>11, <1>12

LEMMA BookNext ==
  ASSUME Books!RegistersAssumption, BookIInv, [Books!Next]_(Books!registerVars)
  PROVE  BookIInv'
<1>1. CASE Books!Next
  BY <1>1, BookCreates, BookPatches, BookAsks, BookWrites DEF Books!Next
<1>2. CASE UNCHANGED Books!registerVars
  <2>1. UNCHANGED <<rows, registersCall, registersOverlapped, renamed, misplaced, registersCalls>>
    BY <1>2 DEF Books!registerVars
  <2>2. BookTypes'
    BY <2>1 DEF BookIInv, BookTypes
  <2>3. BookRows'
    BY <2>1 DEF BookIInv, BookRows, Books!RegistersHold
  <2>4. \A d \in Call : registersCall'[d] = Books!Idle \/ BookCallOK(d)'
    BY <2>1, BookSame DEF BookIInv
  <2> QED
    BY <2>1, <2>2, <2>3, <2>4 DEF BookIInv
<1> QED
  BY <1>1, <1>2

-----------------------------------------------------------------------------
(* Ranks                                                                   *)

LEMMA RankCount ==
  ASSUME NEW n \in Nat
  PROVE  IsFiniteSet(1..n) /\ Cardinality(1..n) = n
<1>1. IsFiniteSet(1..n)
  BY FS_Interval
<1>2. Cardinality(1..n) = IF 1 > n THEN 0 ELSE n - 1 + 1
  BY FS_Interval
<1> QED
  BY <1>1, <1>2

(* A finite set in a total order, in which down[n] are the members up to n: there
   is one member for every rank, and one only. *)
LEMMA Ranks ==
  ASSUME NEW S, IsFiniteSet(S), NEW down \in [S -> SUBSET S],
         \A n \in S : n \in down[n],
         \A m, n \in S : m \in down[n] => down[m] \subseteq down[n],
         \A m, n \in S : m \in down[n] \/ n \in down[m],
         \A m, n \in S : m \in down[n] /\ n \in down[m] => m = n
  PROVE  /\ Cardinality(S) \in Nat
         /\ \A k \in 1..Cardinality(S) : \E n \in S : Cardinality(down[n]) = k
         /\ \A n \in S : Cardinality(down[n]) \in 1..Cardinality(S)
         /\ \A m, n \in S : Cardinality(down[m]) = Cardinality(down[n]) => m = n
<1>1. Cardinality(S) \in Nat
  BY FS_CardinalityType
<1>2. \A n \in S : IsFiniteSet(down[n]) /\ Cardinality(down[n]) \in Nat
        /\ Cardinality(down[n]) <= Cardinality(S)
  <2> SUFFICES ASSUME NEW n \in S
               PROVE  IsFiniteSet(down[n]) /\ Cardinality(down[n]) \in Nat
                      /\ Cardinality(down[n]) <= Cardinality(S)
    OBVIOUS
  <2>1. down[n] \subseteq S
    OBVIOUS
  <2>2. IsFiniteSet(down[n]) /\ Cardinality(down[n]) <= Cardinality(S)
    BY <2>1, FS_Subset
  <2> QED
    BY <2>2, FS_CardinalityType
<1>3. \A n \in S : Cardinality(down[n]) # 0
  BY <1>2, FS_EmptySet
<1>4. \A n \in S : Cardinality(down[n]) \in 1..Cardinality(S)
  BY <1>1, <1>2, <1>3
<1>5. ASSUME NEW m \in S, NEW n \in S, m \in down[n], m # n
      PROVE  Cardinality(down[m]) # Cardinality(down[n])
  <2>1. down[m] \subseteq down[n] /\ down[m] # down[n]
    BY <1>5
  <2> QED
    BY <1>2, <2>1, FS_Subset
<1>6. \A m, n \in S : Cardinality(down[m]) = Cardinality(down[n]) => m = n
  BY <1>5
<1> DEFINE rank == [n \in S |-> Cardinality(down[n])]
<1>7. rank \in Injection(S, 1..Cardinality(S))
  BY <1>4, <1>6 DEF Injection, IsInjective
<1>8. IsFiniteSet(1..Cardinality(S)) /\ Cardinality(1..Cardinality(S)) = Cardinality(S)
  BY <1>1, RankCount
<1>9. rank \in Surjection(S, 1..Cardinality(S))
  <2> HIDE DEF rank
  <2> QED
    BY <1>7, <1>8, FS_Injection
<1>10. \A k \in 1..Cardinality(S) : \E n \in S : rank[n] = k
  <2> HIDE DEF rank
  <2> QED
    BY <1>9 DEF Surjection
<1> QED
  BY <1>1, <1>4, <1>6, <1>10

-----------------------------------------------------------------------------
(* What the alerts tell and the orders begun from them (StockAlerts), for any
   people, events and overlapping calls. *)

LEMMA AlertFiniteSets ==
  /\ \A S : Alerts!IsFiniteSet(S) <=> IsFiniteSet(S)
  /\ \A S : Alerts!Cardinality(S) = Cardinality(S)
<1>1. ASSUME NEW S PROVE Alerts!IsFiniteSet(S) <=> IsFiniteSet(S)
  BY DEF Alerts!IsFiniteSet, IsFiniteSet
<1>2. ASSUME NEW S PROVE Alerts!Cardinality(S) = Cardinality(S)
  BY DEF Alerts!Cardinality, Cardinality, Alerts!IsFiniteSet, IsFiniteSet
<1> QED
  BY <1>1, <1>2

(* Every number of a finite set, once. *)
AlertLists(list, S) ==
    /\ list \in [1..Alerts!Cardinality(S) -> S]
    /\ \A n \in S : \E k \in 1..Alerts!Cardinality(S) : list[k] = n
    /\ \A j, k \in 1..Alerts!Cardinality(S) : list[j] = list[k] => j = k

LEMMA AlertAscending ==
  ASSUME NEW S, IsFiniteSet(S), S \subseteq Nat
  PROVE  AlertLists(Alerts!Ascending(S), S) /\ Alerts!Cardinality(S) \in Nat
<1> DEFINE down == [n \in S |-> {m \in S : m <= n}]
<1>0. \A n \in S : n \in Nat /\ down[n] = {m \in S : m <= n}
  OBVIOUS
<1>1. /\ down \in [S -> SUBSET S]
      /\ \A n \in S : n \in down[n]
      /\ \A m, n \in S : m \in down[n] <=> m <= n
  BY <1>0
<1> HIDE DEF down
<1>2. /\ \A m, n \in S : m \in down[n] => down[m] \subseteq down[n]
      /\ \A m, n \in S : m \in down[n] \/ n \in down[m]
      /\ \A m, n \in S : m \in down[n] /\ n \in down[m] => m = n
  <2>1. ASSUME NEW m \in S, NEW n \in S, m \in down[n]
        PROVE  down[m] \subseteq down[n]
    <3>1. m \in Nat /\ n \in Nat /\ m <= n
      BY <1>0, <1>1, <2>1
    <3> SUFFICES ASSUME NEW l \in S, l \in down[m] PROVE l \in down[n]
      BY <1>1
    <3>2. l \in Nat /\ l <= m
      BY <1>0, <1>1
    <3> QED
      BY <1>1, <3>1, <3>2
  <2>2. ASSUME NEW m \in S, NEW n \in S
        PROVE  /\ m \in down[n] \/ n \in down[m]
               /\ m \in down[n] /\ n \in down[m] => m = n
    <3>1. m \in Nat /\ n \in Nat
      BY <1>0
    <3>2. (m \in down[n] <=> m <= n) /\ (n \in down[m] <=> n <= m)
      BY <1>1
    <3> QED
      BY <3>1, <3>2
  <2> QED
    BY <2>1, <2>2
<1>3. /\ Alerts!Cardinality(S) \in Nat
      /\ \A k \in 1..Alerts!Cardinality(S) : \E n \in S : Alerts!Cardinality(down[n]) = k
      /\ \A n \in S : Alerts!Cardinality(down[n]) \in 1..Alerts!Cardinality(S)
      /\ \A m, n \in S : Alerts!Cardinality(down[m]) = Alerts!Cardinality(down[n]) => m = n
  <2>1. /\ Cardinality(S) \in Nat
        /\ \A k \in 1..Cardinality(S) : \E n \in S : Cardinality(down[n]) = k
        /\ \A n \in S : Cardinality(down[n]) \in 1..Cardinality(S)
        /\ \A m, n \in S : Cardinality(down[m]) = Cardinality(down[n]) => m = n
    BY <1>1, <1>2, Ranks
  <2> QED
    BY <2>1, AlertFiniteSets
<1>4. ASSUME NEW k \in 1..Alerts!Cardinality(S)
      PROVE  Alerts!Ascending(S)[k] \in S /\ Alerts!Cardinality(down[Alerts!Ascending(S)[k]]) = k
  <2>1. \E n \in S : Alerts!Cardinality({m \in S : m <= n}) = k
    BY <1>0, <1>3
  <2>2. Alerts!Ascending(S)[k] = CHOOSE n \in S : Alerts!Cardinality({m \in S : m <= n}) = k
    BY DEF Alerts!Ascending
  <2>3. Alerts!Ascending(S)[k] \in S /\ Alerts!Cardinality({m \in S : m <= Alerts!Ascending(S)[k]}) = k
    BY <2>1, <2>2
  <2> QED
    BY <1>0, <2>3
<1>5. \A n \in S : Alerts!Ascending(S)[Alerts!Cardinality(down[n])] = n
  BY <1>3, <1>4
<1>6. Alerts!Ascending(S) \in [1..Alerts!Cardinality(S) -> S]
  <2>1. Alerts!Ascending(S) = [k \in 1..Alerts!Cardinality(S) |-> Alerts!Ascending(S)[k]]
    BY DEF Alerts!Ascending
  <2> QED
    BY <1>4, <2>1
<1> QED
  BY <1>3, <1>4, <1>5, <1>6 DEF AlertLists

-----------------------------------------------------------------------------
(* The lists of an alert's recipients and of somebody's alerts             *)

LEMMA AlertConstants ==
  ASSUME Alerts!AlertsAssumption
  PROVE  /\ "none" \notin AlertEvent /\ "none" \notin Alerts!Item
         /\ Owners \in Seq(Alerts!Phones) /\ Heads \in Seq(Alerts!Phones) /\ Len(Owners) > 0
         /\ MaxAlertCalls \in Nat /\ MaxAlertMessages \in Nat /\ MaxAlertFaults \in Nat
  BY DEF Alerts!AlertsAssumption

LEMMA AlertRecipients ==
  ASSUME Alerts!AlertsAssumption, NEW e \in AlertEvent
  PROVE  Alerts!Recipients(e) \in Seq(Alerts!Phones)
<1> DEFINE s == Owners \o Heads
           F == Alerts!Firsts(s)
<1>1. s \in Seq(Alerts!Phones) /\ Len(s) \in Nat /\ DOMAIN s = 1..Len(s) /\ Head(Owners) \in Alerts!Phones
  BY AlertConstants
<1>2. CASE ItemOf[e] = "sync"
  BY <1>1, <1>2 DEF Alerts!Recipients
<1>3. CASE ItemOf[e] # "sync"
  <2>1. F \subseteq 1..Len(s)
    BY <1>1 DEF Alerts!Firsts
  <2>2. IsFiniteSet(F) /\ F \subseteq Nat
    <3>1. IsFiniteSet(1..Len(s)) /\ 1..Len(s) \subseteq Nat
      BY <1>1, FS_Interval
    <3> QED
      BY <2>1, <3>1, FS_Subset
  <2> HIDE DEF F
  <2>3. Alerts!Ascending(F) \in [1..Alerts!Cardinality(F) -> F] /\ Alerts!Cardinality(F) \in Nat
    BY <2>2, AlertAscending DEF AlertLists
  <2>4. Alerts!Recipients(e) = [k \in 1..Alerts!Cardinality(F) |-> s[Alerts!Ascending(F)[k]]]
    <3>1. Alerts!Recipients(e) = Alerts!Distinct(s)
      BY <1>3 DEF Alerts!Recipients
    <3>2. Alerts!Distinct(s) = [k \in 1..Alerts!Cardinality(F) |-> s[Alerts!Ascending(F)[k]]]
      BY DEF Alerts!Distinct, F
    <3> QED
      BY <3>1, <3>2
  <2> HIDE DEF s
  <2>5. \A k \in 1..Alerts!Cardinality(F) : s[Alerts!Ascending(F)[k]] \in Alerts!Phones
    <3> TAKE k \in 1..Alerts!Cardinality(F)
    <3>1. Alerts!Ascending(F)[k] \in 1..Len(s)
      BY <2>1, <2>3
    <3> QED
      BY <1>1, <3>1
  <2> QED
    BY <2>3, <2>4, <2>5
<1> QED
  BY <1>2, <1>3

Alert == [phone : Alerts!Phones, item : Alerts!Item]

(* What is open for p: a sequence of items, each once, that alerts said. *)
AlertListed(p, list) ==
    /\ list \in Seq(Alerts!Item)
    /\ \A k \in DOMAIN list : \E n \in DOMAIN alerts : alerts[n].phone = p /\ alerts[n].item = list[k]
    /\ Len(list) = Alerts!Cardinality(Alerts!ToSet(list))

LEMMA AlertActive ==
  ASSUME alerts \in Seq(Alert), expired \in Nat, NEW p
  PROVE  AlertListed(p, Alerts!ActiveDistinct(p))
<1> DEFINE N == Alerts!Newest(p)
           order1 == Alerts!Ascending(N)
           back == Alerts!Reverse(order1)
           list == Alerts!ActiveDistinct(p)
<1>1. /\ N \subseteq 1..Len(alerts) /\ Len(alerts) \in Nat
      /\ \A n \in N : n \in Alerts!Live(p)
      /\ \A m, n \in N : m > n => alerts[m].item # alerts[n].item
  BY DEF Alerts!Newest, Alerts!Live
<1>2. IsFiniteSet(N) /\ N \subseteq Nat
  <2>1. IsFiniteSet(1..Len(alerts)) /\ 1..Len(alerts) \subseteq Nat
    BY <1>1, FS_Interval
  <2> HIDE DEF N
  <2> QED
    BY <1>1, <2>1, FS_Subset
<1>3. AlertLists(order1, N) /\ Alerts!Cardinality(N) \in Nat
  <2> HIDE DEF N
  <2> QED
    BY <1>2, AlertAscending
<1>4. \A n \in N : alerts[n] \in Alert /\ alerts[n].phone = p /\ n \in DOMAIN alerts
  BY <1>1 DEF Alerts!Live
<1>5. \A m, n \in N : alerts[m].item = alerts[n].item => m = n
  <2> HIDE DEF N
  <2> QED
    BY <1>1, <1>2
<1>6. list = [k \in 1..Alerts!Cardinality(N) |-> alerts[back[k]].item]
  BY DEF Alerts!ActiveDistinct
<1> HIDE DEF N, list
<1>7. /\ back \in [1..Alerts!Cardinality(N) -> N]
      /\ \A j, k \in 1..Alerts!Cardinality(N) : back[j] = back[k] => j = k
  <2>1. order1 \in [1..Alerts!Cardinality(N) -> N] /\ Len(order1) = Alerts!Cardinality(N)
        /\ \A j, k \in 1..Alerts!Cardinality(N) : order1[j] = order1[k] => j = k
    BY <1>3 DEF AlertLists
  <2> HIDE DEF order1
  <2>2. \A k \in 1..Alerts!Cardinality(N) : (Alerts!Cardinality(N) - k) + 1 \in 1..Alerts!Cardinality(N)
    BY <1>3
  <2>3. back = [k \in 1..Alerts!Cardinality(N) |-> order1[(Alerts!Cardinality(N) - k) + 1]]
    BY <2>1 DEF Alerts!Reverse
  <2> HIDE DEF back
  <2>4. \A k \in 1..Alerts!Cardinality(N) : back[k] = order1[(Alerts!Cardinality(N) - k) + 1]
    BY <2>3
  <2>5. ASSUME NEW j \in 1..Alerts!Cardinality(N), NEW k \in 1..Alerts!Cardinality(N), back[j] = back[k]
        PROVE  j = k
    <3>1. (Alerts!Cardinality(N) - j) + 1 = (Alerts!Cardinality(N) - k) + 1
      BY <2>1, <2>2, <2>4, <2>5
    <3> QED
      BY <1>3, <3>1
  <2> QED
    BY <2>1, <2>2, <2>3, <2>4, <2>5
<1> HIDE DEF order1, back
<1>8. list \in Seq(Alerts!Item) /\ Len(list) = Alerts!Cardinality(N) /\ DOMAIN list = 1..Alerts!Cardinality(N)
  <2>1. \A k \in 1..Alerts!Cardinality(N) : alerts[back[k]].item \in Alerts!Item
    BY <1>4, <1>7 DEF Alert
  <2> QED
    BY <1>3, <1>6, <2>1
<1>9. \A k \in DOMAIN list : \E n \in DOMAIN alerts : alerts[n].phone = p /\ alerts[n].item = list[k]
  BY <1>4, <1>6, <1>7, <1>8
<1>10. ASSUME NEW j \in DOMAIN list, NEW k \in DOMAIN list, list[j] = list[k]
       PROVE  j = k
  <2>1. back[j] \in N /\ back[k] \in N
    BY <1>7, <1>8
  <2>2. list[j] = alerts[back[j]].item /\ list[k] = alerts[back[k]].item
    BY <1>6, <1>8
  <2>3. back[j] = back[k]
    BY <1>5, <1>10, <2>1, <2>2
  <2> QED
    BY <1>7, <1>8, <2>3
<1>11. Alerts!Cardinality(Alerts!ToSet(list)) = Alerts!Cardinality(N)
  <2>1. Alerts!ToSet(list) = {list[k] : k \in 1..Alerts!Cardinality(N)}
    BY <1>8 DEF Alerts!ToSet
  <2>2. list \in Surjection(1..Alerts!Cardinality(N), Alerts!ToSet(list))
          /\ list \in Injection(1..Alerts!Cardinality(N), Alerts!ToSet(list))
    BY <1>3, <1>6, <1>8, <1>10, <2>1 DEF Surjection, Injection, IsInjective
  <2>3. IsFiniteSet(1..Alerts!Cardinality(N))
        /\ Alerts!Cardinality(1..Alerts!Cardinality(N)) = Alerts!Cardinality(N)
    BY <1>3, RankCount, AlertFiniteSets
  <2>4. Alerts!Cardinality(Alerts!ToSet(list)) = Alerts!Cardinality(1..Alerts!Cardinality(N))
    BY <2>2, <2>3, FS_Surjection, AlertFiniteSets
  <2> QED
    BY <2>3, <2>4
<1> QED
  BY <1>8, <1>9, <1>11 DEF AlertListed, list

(* Only the list of the person changes whose alert came or lapsed. *)
LEMMA AlertSameList ==
  ASSUME NEW p, Alerts!Newest(p)' = Alerts!Newest(p), \A n \in Alerts!Newest(p) : alerts'[n] = alerts[n],
         IsFiniteSet(Alerts!Newest(p)), Alerts!Newest(p) \subseteq Nat
  PROVE  Alerts!ActiveDistinct(p)' = Alerts!ActiveDistinct(p)
<1> DEFINE N == Alerts!Newest(p)
           order1 == Alerts!Ascending(N)
           back == Alerts!Reverse(order1)
<1>1. AlertLists(order1, N) /\ Alerts!Cardinality(N) \in Nat
  <2>1. IsFiniteSet(N) /\ N \subseteq Nat
    OBVIOUS
  <2> HIDE DEF N
  <2> QED
    BY <2>1, AlertAscending
<1>2. Alerts!ActiveDistinct(p) = [k \in 1..Alerts!Cardinality(N) |-> alerts[back[k]].item]
  BY DEF Alerts!ActiveDistinct
<1>3. Alerts!ActiveDistinct(p)' = [k \in 1..Alerts!Cardinality(N) |-> alerts'[back[k]].item]
  BY DEF Alerts!ActiveDistinct
<1>4. \A n \in N : alerts'[n] = alerts[n]
  OBVIOUS
<1> HIDE DEF N
<1>5. \A k \in 1..Alerts!Cardinality(N) : back[k] \in N
  <2>1. order1 \in [1..Alerts!Cardinality(N) -> N] /\ Len(order1) = Alerts!Cardinality(N)
    BY <1>1 DEF AlertLists
  <2> HIDE DEF order1
  <2>2. \A k \in 1..Alerts!Cardinality(N) : (Alerts!Cardinality(N) - k) + 1 \in 1..Alerts!Cardinality(N)
    BY <1>1
  <2>3. \A k \in 1..Alerts!Cardinality(N) : back[k] = order1[(Alerts!Cardinality(N) - k) + 1]
    BY <2>1 DEF Alerts!Reverse
  <2> QED
    BY <2>1, <2>2, <2>3
<1> HIDE DEF back
<1> QED
  BY <1>2, <1>3, <1>4, <1>5

LEMMA AlertNewestNumbers ==
  ASSUME alerts \in Seq(Alert), expired \in Nat, NEW p
  PROVE  IsFiniteSet(Alerts!Newest(p)) /\ Alerts!Newest(p) \subseteq Nat
         /\ Alerts!Newest(p) \subseteq DOMAIN alerts
<1> DEFINE N == Alerts!Newest(p)
<1>1. N \subseteq 1..Len(alerts) /\ Len(alerts) \in Nat
  BY DEF Alerts!Newest, Alerts!Live
<1>2. IsFiniteSet(1..Len(alerts)) /\ 1..Len(alerts) \subseteq Nat
  BY <1>1, FS_Interval
<1> HIDE DEF N
<1>3. IsFiniteSet(N) /\ N \subseteq Nat /\ N \subseteq DOMAIN alerts
  <2>1. N \subseteq DOMAIN alerts /\ N \subseteq Nat
    BY <1>1, <1>2
  <2> QED
    BY <1>1, <1>2, <2>1, FS_Subset
<1> QED
  BY <1>3 DEF N

LEMMA AlertOfAnother ==
  ASSUME alerts \in Seq(Alert), expired \in Nat, NEW p, NEW a \in Alert, a.phone # p,
         alerts' = Append(alerts, a), expired' = expired
  PROVE  Alerts!ActiveDistinct(p)' = Alerts!ActiveDistinct(p)
<1>1. /\ Len(alerts') = Len(alerts) + 1 /\ Len(alerts) \in Nat /\ alerts'[Len(alerts) + 1] = a
      /\ \A n \in 1..Len(alerts) : alerts'[n] = alerts[n]
  OBVIOUS
<1>2. Alerts!Live(p)' = Alerts!Live(p)
  BY <1>1 DEF Alerts!Live
<1>3. \A n \in Alerts!Live(p) : alerts'[n] = alerts[n]
  BY <1>1 DEF Alerts!Live
<1>4. Alerts!Newest(p)' = Alerts!Newest(p)
  BY <1>2, <1>3 DEF Alerts!Newest
<1>5. \A n \in Alerts!Newest(p) : alerts'[n] = alerts[n]
  BY <1>3 DEF Alerts!Newest
<1> QED
  BY <1>4, <1>5, AlertNewestNumbers, AlertSameList

LEMMA AlertOfAnotherLapses ==
  ASSUME alerts \in Seq(Alert), expired \in Nat, NEW p, expired < Len(alerts),
         alerts[expired + 1].phone # p, alerts' = alerts, expired' = expired + 1
  PROVE  Alerts!ActiveDistinct(p)' = Alerts!ActiveDistinct(p)
<1>1. Alerts!Live(p)' = Alerts!Live(p)
  <2>1. (expired + 1)..Len(alerts) = {expired + 1} \union ((expired + 1 + 1)..Len(alerts))
    OBVIOUS
  <2> QED
    BY <2>1 DEF Alerts!Live
<1>2. Alerts!Newest(p)' = Alerts!Newest(p)
  BY <1>1 DEF Alerts!Newest
<1> QED
  BY <1>2, AlertNewestNumbers, AlertSameList

-----------------------------------------------------------------------------
AlertFlag == BOOLEAN
AlertTodo == Seq(Alerts!Phones)
AlertDoing == [event : AlertEvent \union {"none"}, todo : AlertTodo, sent : AlertFlag]

(* e was told to p, or that it could not be is logged. *)
AlertReached(e, p) == <<e, p>> \in told \/ (ItemOf[e] # "sync" /\ <<e, p>> \in logged)

(* Who is no more to be told by a call was reached; an alert that is to be
   recorded was sent. *)
AlertCallOK(h) ==
    /\ alertsCall[h].event \in AlertEvent
    /\ \A p \in Alerts!ToSet(Alerts!Recipients(alertsCall[h].event)) :
          p \in Alerts!ToSet(alertsCall[h].todo) \/ AlertReached(alertsCall[h].event, p)
    /\ alertsCall[h].sent = TRUE =>
        /\ alertsCall[h].todo # <<>> /\ ItemOf[alertsCall[h].event] # "sync"
        /\ <<alertsCall[h].event, Head(alertsCall[h].todo)>> \in told

AlertToldOf(item, p) == \E e \in AlertEvent : ItemOf[e] = item /\ <<e, p>> \in told

AlertTypes ==
    /\ alerts \in Seq(Alert) /\ expired \in 0..Len(alerts)
    /\ alertsCall \in [Call -> AlertDoing]
    /\ shown \in [Alerts!Phones -> Seq(Alerts!Item)]
AlertBounds ==
    /\ told \subseteq AlertEvent \X Alerts!Phones /\ logged \subseteq AlertEvent \X Alerts!Phones
         /\ ended \subseteq AlertEvent
    /\ alertsCalls \in 0..MaxAlertCalls /\ alertsMessages \in 0..MaxAlertMessages
         /\ alertsFaults \in 0..MaxAlertFaults
AlertRecorded == \A n \in DOMAIN alerts : AlertToldOf(alerts[n].item, alerts[n].phone)
AlertShown == \A p \in Alerts!Phones : shown[p] # <<>> => shown[p] = Alerts!ActiveDistinct(p)
    /\ Len(shown[p]) > 1
AlertOrdered ==
    /\ order.phone \in Alerts!Phones \union {"none"} /\ order.item \in Alerts!Item \union {"none"}
    /\ order.item # "none" =>
        /\ AlertToldOf(order.item, order.phone)
        /\ order.from # <<>> => order.item = order.from[order.n]

AlertIInv ==
    /\ AlertTypes /\ AlertBounds
    /\ \A h \in Call : alertsCall[h] = Alerts!Idle \/ AlertCallOK(h)
    /\ Alerts!AlertsReachAll
    /\ AlertRecorded /\ AlertShown /\ AlertOrdered

LEMMA AlertHolds == AlertIInv => Alerts!TypeOK /\ Alerts!AlertsReachAll /\ Alerts!OrderedAsAlerted
<1> SUFFICES ASSUME AlertIInv PROVE Alerts!TypeOK /\ Alerts!AlertsReachAll /\ Alerts!OrderedAsAlerted
  OBVIOUS
<1> USE DEF AlertIInv
<1>1. Alerts!TypeOK
  <2>1. ASSUME NEW h \in Call
        PROVE  /\ alertsCall[h].event \in AlertEvent \union {"none"} /\ alertsCall[h].sent \in BOOLEAN
               /\ Alerts!ToSet(alertsCall[h].todo) \subseteq Alerts!Phones
    <3>1. alertsCall[h].event \in AlertEvent \union {"none"} /\ alertsCall[h].sent \in BOOLEAN
          /\ alertsCall[h].todo \in Seq(Alerts!Phones)
      BY DEF AlertTypes, AlertDoing, AlertTodo, AlertFlag
    <3> QED
      BY <3>1 DEF Alerts!ToSet
  <2>2. \A p \in Alerts!Phones : Alerts!ToSet(shown[p]) \subseteq Alerts!Item
    BY DEF AlertTypes, Alerts!ToSet
  <2> QED
    BY <2>1, <2>2 DEF Alerts!TypeOK, AlertTypes, AlertBounds, AlertOrdered, Alert
<1>2. ASSUME NEW p \in Alerts!Phones, shown[p] # <<>>
      PROVE  Len(shown[p]) = Alerts!Cardinality(Alerts!ToSet(shown[p])) /\ Len(shown[p]) > 1
  <2>1. expired \in Nat /\ alerts \in Seq(Alert)
    BY DEF AlertTypes
  <2>2. AlertListed(p, Alerts!ActiveDistinct(p))
    BY <2>1, AlertActive
  <2> QED
    BY <1>2, <2>2 DEF AlertShown, AlertListed
<1> QED
  BY <1>1, <1>2 DEF Alerts!OrderedAsAlerted, AlertOrdered, AlertToldOf

LEMMA AlertInit == Alerts!AlertsAssumption /\ Alerts!Init => AlertIInv
<1> SUFFICES ASSUME Alerts!AlertsAssumption, Alerts!Init PROVE AlertIInv
  OBVIOUS
<1> USE DEF Alerts!Init
<1>1. AlertTypes
  <2>1. Alerts!Idle \in AlertDoing
    BY DEF Alerts!Idle, AlertDoing, AlertTodo, AlertFlag
  <2>2. alerts = <<>> /\ Len(<<>>) = 0 /\ alerts \in Seq(Alert)
        /\ \A p \in Alerts!Phones : <<>> \in Seq(Alerts!Item)
    OBVIOUS
  <2> HIDE DEF AlertDoing
  <2> QED
    BY <2>1, <2>2 DEF AlertTypes
<1>2. AlertBounds
  BY AlertConstants DEF AlertBounds
<1>3. AlertRecorded /\ AlertShown /\ AlertOrdered /\ Alerts!AlertsReachAll
  BY DEF AlertRecorded, AlertShown, AlertOrdered, Alerts!AlertsReachAll
<1> QED
  BY <1>1, <1>2, <1>3 DEF AlertIInv

-----------------------------------------------------------------------------
(* The handlers                                                            *)

LEMMA AlertReachedStays ==
  ASSUME told \subseteq told', logged \subseteq logged'
  PROVE  /\ \A e, p : AlertReached(e, p) => AlertReached(e, p)'
         /\ \A item, p : AlertToldOf(item, p) => AlertToldOf(item, p)'
  BY DEF AlertReached, AlertToldOf

(* A call moves on, and nobody's alert comes or lapses. *)
LEMMA AlertMoves ==
  ASSUME AlertIInv, NEW h \in Call, NEW next \in AlertDoing, alertsCall' = [alertsCall EXCEPT ![h] = next],
         told \subseteq told', logged \subseteq logged', AlertBounds',
         UNCHANGED <<alerts, expired, shown, order>>,
         next = Alerts!Idle \/ AlertCallOK(h)',
         \A e \in ended' \ ended : \A p \in Alerts!ToSet(Alerts!Recipients(e)) : AlertReached(e, p)
  PROVE  AlertIInv'
<1> USE DEF AlertIInv
<1>1. AlertTypes'
  BY DEF AlertTypes
<1>2. ASSUME NEW g \in Call
      PROVE  alertsCall'[g] = Alerts!Idle \/ AlertCallOK(g)'
  <2>1. CASE g = h
    BY <2>1 DEF AlertTypes
  <2>2. CASE g # h
    <3>1. alertsCall'[g] = alertsCall[g]
      BY <2>2 DEF AlertTypes
    <3> QED
      BY <3>1, AlertReachedStays DEF AlertCallOK
  <2> QED
    BY <2>1, <2>2
<1>3. Alerts!AlertsReachAll'
  <2> SUFFICES ASSUME NEW e \in ended', NEW p \in Alerts!ToSet(Alerts!Recipients(e)) PROVE AlertReached(e, p)'
    BY DEF Alerts!AlertsReachAll, AlertReached
  <2>1. AlertReached(e, p)
    BY DEF Alerts!AlertsReachAll, AlertReached
  <2> QED
    BY <2>1, AlertReachedStays
<1>4. AlertRecorded' /\ AlertOrdered'
  BY AlertReachedStays DEF AlertRecorded, AlertOrdered
<1>5. AlertShown'
  <2>1. \A p : Alerts!ActiveDistinct(p)' = Alerts!ActiveDistinct(p)
    BY DEF Alerts!ActiveDistinct, Alerts!Newest, Alerts!Live
  <2> QED
    BY <2>1 DEF AlertShown
<1> QED
  BY <1>1, <1>2, <1>3, <1>4, <1>5

LEMMA AlertIdle ==
  /\ Alerts!Idle \in AlertDoing /\ Alerts!Idle.event = "none" /\ Alerts!Idle.todo = <<>>
       /\ Alerts!Idle.sent = FALSE
  BY DEF Alerts!Idle, AlertDoing, AlertTodo, AlertFlag

LEMMA AlertHandles ==
  ASSUME Alerts!AlertsAssumption, AlertIInv, NEW h \in Call, NEW e \in AlertEvent, Alerts!Handle(h, e)
  PROVE  AlertIInv'
<1> DEFINE next == [event |-> e, todo |-> Alerts!Recipients(e), sent |-> FALSE]
<1>1. /\ alertsCall' = [alertsCall EXCEPT ![h] = next] /\ alertsCalls < MaxAlertCalls
           /\ alertsCalls' = alertsCalls + 1
      /\ UNCHANGED <<alerts, told, logged, ended, shown, alertsFaults, expired, order, alertsMessages>>
  BY DEF Alerts!Handle, Alerts!talk
<1>2. next \in AlertDoing /\ next.event = e /\ next.todo = Alerts!Recipients(e) /\ next.sent = FALSE
  BY AlertRecipients DEF AlertDoing, AlertTodo, AlertFlag
<1> HIDE DEF next
<1>3. alertsCall'[h] = next
  BY <1>1 DEF AlertIInv, AlertTypes
<1>4. AlertCallOK(h)'
  BY <1>2, <1>3 DEF AlertCallOK
<1>5. AlertBounds'
  BY <1>1, AlertConstants DEF AlertIInv, AlertBounds
<1> QED
  BY <1>1, <1>2, <1>4, <1>5, AlertMoves

(* The call at work, the phone it has come to and where it is when that is done. *)
LEMMA AlertNext ==
  ASSUME Alerts!AlertsAssumption, AlertIInv, NEW h \in Call, Alerts!Working(h)
  PROVE  /\ AlertCallOK(h) /\ alertsCall[h].event \in AlertEvent /\ alertsCall[h] \in AlertDoing
         /\ Head(alertsCall[h].todo) \in Alerts!Phones
         /\ Alerts!NextPhone(h) \in AlertDoing /\ Alerts!NextPhone(h).event = alertsCall[h].event
         /\ Alerts!NextPhone(h).sent = FALSE /\ Alerts!NextPhone(h).todo = Tail(alertsCall[h].todo)
         /\ Alerts!ToSet(alertsCall[h].todo) \subseteq {Head(alertsCall[h].todo)} \union Alerts!ToSet(Alerts!NextPhone(h).todo)
<1>1. AlertCallOK(h) /\ alertsCall[h] \in AlertDoing
  BY DEF Alerts!Working, AlertIInv, AlertTypes
<1>2. alertsCall[h].event \in AlertEvent
  BY <1>1 DEF AlertCallOK
<1>3. PICK todo \in Seq(Alerts!Phones) : todo = alertsCall[h].todo /\ todo # <<>>
  BY <1>1 DEF AlertDoing, AlertTodo, Alerts!Working
<1>4. /\ Head(todo) \in Alerts!Phones /\ Tail(todo) \in Seq(Alerts!Phones)
      /\ \A n \in DOMAIN todo : n = 1 \/ (n - 1 \in DOMAIN Tail(todo) /\ todo[n] = Tail(todo)[n - 1])
  BY <1>3
<1>5. Alerts!ToSet(todo) \subseteq {Head(todo)} \union Alerts!ToSet(Tail(todo))
  <2> DEFINE rest == Tail(todo)
  <2>1. \A n \in DOMAIN todo : n = 1 \/ (n - 1 \in DOMAIN rest /\ todo[n] = rest[n - 1])
    BY <1>4
  <2>2. todo[1] = Head(todo)
    BY <1>3
  <2> HIDE DEF rest
  <2>3. Alerts!ToSet(todo) \subseteq {Head(todo)} \union Alerts!ToSet(rest)
    BY <2>1, <2>2 DEF Alerts!ToSet
  <2> QED
    BY <2>3 DEF rest
<1>6. PICK next : next = [alertsCall[h] EXCEPT !.todo = Tail(alertsCall[h].todo), !.sent = FALSE]
  OBVIOUS
<1>7. Alerts!NextPhone(h) = next
  BY <1>6 DEF Alerts!NextPhone
<1>8. /\ next \in AlertDoing /\ next.event = alertsCall[h].event /\ next.sent = FALSE
           /\ next.todo = Tail(alertsCall[h].todo)
  BY <1>1, <1>3, <1>4, <1>6 DEF AlertDoing, AlertTodo, AlertFlag
<1> QED
  BY <1>1, <1>2, <1>3, <1>4, <1>5, <1>7, <1>8

(* Who is passed was told, or that they were not is logged. *)
LEMMA AlertPasses ==
  ASSUME Alerts!AlertsAssumption, AlertIInv, NEW h \in Call, Alerts!Working(h),
         alertsCall'[h] = Alerts!NextPhone(h),
         told \subseteq told', logged \subseteq logged',
         NEW e, e = alertsCall[h].event, NEW q, q = Head(alertsCall[h].todo), AlertReached(e, q)'
  PROVE  AlertCallOK(h)'
<1>1. \A p \in Alerts!ToSet(Alerts!Recipients(e)) : p \in Alerts!ToSet(alertsCall[h].todo) \/ AlertReached(e, p)
  BY AlertNext DEF AlertCallOK
<1>2. ASSUME NEW p \in Alerts!ToSet(Alerts!Recipients(e))
      PROVE  p \in Alerts!ToSet(Alerts!NextPhone(h).todo) \/ AlertReached(e, p)'
  <2>1. CASE p = q
    BY <2>1
  <2>2. CASE p # q
    BY <1>1, <2>2, AlertNext, AlertReachedStays
  <2> QED
    BY <2>1, <2>2
<1>3. alertsCall'[h].event = e /\ alertsCall'[h].todo = Alerts!NextPhone(h).todo
      /\ alertsCall'[h].sent = FALSE /\ e \in AlertEvent
  BY AlertNext
<1> QED
  BY <1>2, <1>3 DEF AlertCallOK

LEMMA AlertSends ==
  ASSUME Alerts!AlertsAssumption, AlertIInv, NEW h \in Call, Alerts!Send(h)
  PROVE  AlertIInv'
<1>0. PICK e, p : e = alertsCall[h].event /\ p = Head(alertsCall[h].todo)
  OBVIOUS
<1>1. /\ Alerts!Working(h) /\ alertsCall[h].sent # TRUE /\ told' = told \union {<<e, p>>}
      /\ UNCHANGED <<alerts, logged, ended, shown, alertsCalls, alertsFaults, expired, order, alertsMessages>>
  BY <1>0 DEF Alerts!Send, Alerts!talk, Alerts!Pair
<1>2. e \in AlertEvent /\ p \in Alerts!Phones /\ alertsCall[h] \in AlertDoing
  BY <1>0, <1>1, AlertNext
<1>3. AlertBounds'
  BY <1>1, <1>2 DEF AlertIInv, AlertBounds
<1>4. AlertReached(e, p)'
  <2>1. <<e, p>> \in told'
    BY <1>1
  <2> QED
    BY <2>1 DEF AlertReached
<1>5. CASE ItemOf[e] = "sync"
  <2>1. alertsCall' = [alertsCall EXCEPT ![h] = Alerts!NextPhone(h)]
    BY <1>0, <1>5 DEF Alerts!Send
  <2>2. alertsCall'[h] = Alerts!NextPhone(h)
    BY <2>1 DEF AlertIInv, AlertTypes
  <2>3. AlertCallOK(h)'
    BY <1>0, <1>1, <1>4, <2>2, AlertPasses
  <2> QED
    BY <1>1, <1>3, <2>1, <2>3, AlertMoves, AlertNext
<1>6. CASE ItemOf[e] # "sync"
  <2>1. PICK next : next = [alertsCall[h] EXCEPT !.sent = TRUE]
    OBVIOUS
  <2>2. alertsCall' = [alertsCall EXCEPT ![h] = next]
    BY <1>0, <1>6, <2>1 DEF Alerts!Send
  <2>3. next \in AlertDoing /\ next.event = e /\ next.todo = alertsCall[h].todo /\ next.sent = TRUE
    BY <1>0, <1>2, <2>1 DEF AlertDoing, AlertFlag
  <2>4. alertsCall'[h] = next
    BY <2>2 DEF AlertIInv, AlertTypes
  <2>5. AlertCallOK(h)'
    <3>1. AlertCallOK(h) /\ alertsCall[h].todo # <<>> /\ <<e, p>> \in told'
      BY <1>0, <1>1, AlertNext DEF Alerts!Working
    <3>2. \A q \in Alerts!ToSet(Alerts!Recipients(e)) : q \in Alerts!ToSet(alertsCall[h].todo)
            \/ AlertReached(e, q)'
      BY <1>0, <1>1, <3>1, AlertReachedStays DEF AlertCallOK
    <3> QED
      BY <1>0, <1>2, <1>6, <2>3, <2>4, <3>1, <3>2 DEF AlertCallOK
  <2> QED
    BY <1>1, <1>3, <2>2, <2>3, <2>5, AlertMoves
<1> QED
  BY <1>5, <1>6

(* Nobody is asked: the list of a person is taken away. *)
LEMMA AlertNoList ==
  ASSUME NEW lists \in [Alerts!Phones -> Seq(Alerts!Item)], NEW p
  PROVE  [lists EXCEPT ![p] = <<>>] \in [Alerts!Phones -> Seq(Alerts!Item)]
<1>1. <<>> \in Seq(Alerts!Item)
  OBVIOUS
<1> QED
  BY <1>1

LEMMA AlertRecords ==
  ASSUME Alerts!AlertsAssumption, AlertIInv, NEW h \in Call, Alerts!Record(h)
  PROVE  AlertIInv'
<1>0. PICK e, p, a : e = alertsCall[h].event /\ p = Head(alertsCall[h].todo)
             /\ a = [phone |-> p, item |-> ItemOf[e]]
  OBVIOUS
<1>1. /\ Alerts!Working(h) /\ alertsCall[h].sent = TRUE
      /\ alerts' = Append(alerts, a) /\ shown' = [shown EXCEPT ![p] = <<>>]
      /\ alertsCall' = [alertsCall EXCEPT ![h] = Alerts!NextPhone(h)]
      /\ UNCHANGED <<told, logged, ended, alertsCalls, alertsFaults, expired, order, alertsMessages>>
  <2>1. alertsCall[h].sent \in BOOLEAN
    BY DEF AlertIInv, AlertTypes, AlertDoing, AlertFlag
  <2> QED
    BY <1>0, <2>1 DEF Alerts!Record, Alerts!talk
<1>2. /\ e \in AlertEvent /\ p \in Alerts!Phones /\ Alerts!NextPhone(h) \in AlertDoing
      /\ ItemOf[e] # "sync" /\ <<e, p>> \in told
  BY <1>0, <1>1, AlertNext DEF AlertCallOK
<1>3. a \in Alert /\ a.phone = p /\ a.item = ItemOf[e]
  BY <1>0, <1>2 DEF Alert, Alerts!Item
<1>4. /\ alerts \in Seq(Alert) /\ expired \in 0..Len(alerts) /\ alertsCall \in [Call -> AlertDoing]
      /\ shown \in [Alerts!Phones -> Seq(Alerts!Item)] /\ Len(alerts) \in Nat
  BY DEF AlertIInv, AlertTypes
<1>5. /\ alerts' \in Seq(Alert) /\ Len(alerts') = Len(alerts) + 1 /\ alerts'[Len(alerts) + 1] = a
      /\ \A n \in 1..Len(alerts) : alerts'[n] = alerts[n]
      /\ DOMAIN alerts' = 1..(Len(alerts) + 1) /\ DOMAIN alerts = 1..Len(alerts)
  BY <1>1, <1>3, <1>4
<1>6. AlertTypes'
  <2>1. expired' \in 0..Len(alerts')
    BY <1>1, <1>4, <1>5
  <2>2. alertsCall' \in [Call -> AlertDoing]
    BY <1>1, <1>2, <1>4
  <2>3. shown' \in [Alerts!Phones -> Seq(Alerts!Item)]
    BY <1>1, <1>4, AlertNoList
  <2> QED
    BY <1>5, <2>1, <2>2, <2>3 DEF AlertTypes
<1>7. AlertBounds'
  BY <1>1 DEF AlertIInv, AlertBounds
<1>8. ASSUME NEW g \in Call
      PROVE  alertsCall'[g] = Alerts!Idle \/ AlertCallOK(g)'
  <2>1. CASE g = h
    <3>1. alertsCall'[h] = Alerts!NextPhone(h)
      BY <1>1, <1>4
    <3>2. AlertReached(e, p)'
      <4>1. <<e, p>> \in told'
        BY <1>1, <1>2
      <4> QED
        BY <4>1 DEF AlertReached
    <3>3. Alerts!Working(h) /\ told \subseteq told' /\ logged \subseteq logged'
      BY <1>1
    <3>4. AlertCallOK(h)'
      BY <1>0, <3>1, <3>2, <3>3, AlertPasses
    <3> QED
      BY <2>1, <3>4
  <2>2. CASE g # h
    <3>1. alertsCall'[g] = alertsCall[g]
      BY <1>1, <1>4, <2>2
    <3>2. alertsCall[g] = Alerts!Idle \/ AlertCallOK(g)
      BY DEF AlertIInv
    <3>3. told' = told /\ logged' = logged
      BY <1>1
    <3> QED
      BY <3>1, <3>2, <3>3 DEF AlertCallOK, AlertReached
  <2> QED
    BY <2>1, <2>2
<1>9. Alerts!AlertsReachAll' /\ AlertOrdered'
  BY <1>1 DEF AlertIInv, Alerts!AlertsReachAll, AlertOrdered, AlertToldOf
<1>10. AlertRecorded'
  <2> SUFFICES ASSUME NEW n \in DOMAIN alerts' PROVE AlertToldOf(alerts'[n].item, alerts'[n].phone)
    BY <1>1 DEF AlertRecorded, AlertToldOf
  <2>1. CASE n = Len(alerts) + 1
    BY <1>2, <1>3, <1>5, <2>1 DEF AlertToldOf
  <2>2. CASE n # Len(alerts) + 1
    <3>1. n \in DOMAIN alerts /\ alerts'[n] = alerts[n]
      BY <1>4, <1>5, <2>2
    <3> QED
      BY <3>1 DEF AlertIInv, AlertRecorded
  <2> QED
    BY <2>1, <2>2
<1>11. AlertShown'
  <2> SUFFICES ASSUME NEW q \in Alerts!Phones, shown'[q] # <<>>
               PROVE  shown'[q] = Alerts!ActiveDistinct(q)' /\ Len(shown'[q]) > 1
    BY DEF AlertShown
  <2>1. q # p
    BY <1>1, <1>2, <1>4
  <2>2. shown'[q] = shown[q]
    BY <1>1, <1>4, <2>1
  <2>3. Alerts!ActiveDistinct(q)' = Alerts!ActiveDistinct(q)
    <3>1. expired \in Nat
      BY <1>4
    <3> QED
      BY <1>1, <1>3, <1>4, <2>1, <3>1, AlertOfAnother
  <2> QED
    BY <2>2, <2>3 DEF AlertIInv, AlertShown
<1> QED
  BY <1>6, <1>7, <1>8, <1>9, <1>10, <1>11 DEF AlertIInv

LEMMA AlertFails ==
  ASSUME Alerts!AlertsAssumption, AlertIInv, NEW h \in Call, Alerts!Fail(h)
  PROVE  AlertIInv'
<1>0. PICK e, p : e = alertsCall[h].event /\ p = Head(alertsCall[h].todo)
  OBVIOUS
<1>1. /\ Alerts!Working(h) /\ alertsFaults < MaxAlertFaults /\ alertsFaults' = alertsFaults + 1
      /\ UNCHANGED <<alerts, told, ended, shown, alertsCalls, expired, order, alertsMessages>>
  BY DEF Alerts!Fail, Alerts!talk
<1>2. e \in AlertEvent /\ p \in Alerts!Phones
  BY <1>0, <1>1, AlertNext
<1>3. CASE ItemOf[e] = "sync"
  <2>1. alertsCall' = [alertsCall EXCEPT ![h] = Alerts!Idle] /\ logged' = logged
    BY <1>0, <1>3 DEF Alerts!Fail
  <2>2. AlertBounds'
    BY <1>1, <2>1, AlertConstants DEF AlertIInv, AlertBounds
  <2> QED
    BY <1>1, <2>1, <2>2, AlertIdle, AlertMoves
<1>4. CASE ItemOf[e] # "sync"
  <2>1. alertsCall' = [alertsCall EXCEPT ![h] = Alerts!NextPhone(h)] /\ logged' = logged \union {<<e, p>>}
    BY <1>0, <1>4 DEF Alerts!Fail, Alerts!AfterFailure, Alerts!Pair
  <2>2. AlertBounds'
    BY <1>1, <1>2, <2>1, AlertConstants DEF AlertIInv, AlertBounds
  <2>3. alertsCall'[h] = Alerts!NextPhone(h)
    BY <2>1 DEF AlertIInv, AlertTypes
  <2>4. AlertReached(e, p)'
    <3>1. <<e, p>> \in logged'
      BY <2>1
    <3> QED
      BY <1>4, <3>1 DEF AlertReached
  <2>5. AlertCallOK(h)'
    BY <1>0, <1>1, <2>1, <2>3, <2>4, AlertPasses
  <2> QED
    BY <1>1, <2>1, <2>2, <2>5, AlertMoves, AlertNext
<1> QED
  BY <1>3, <1>4

LEMMA AlertReturns ==
  ASSUME Alerts!AlertsAssumption, AlertIInv, NEW h \in Call, Alerts!Return(h)
  PROVE  AlertIInv'
<1>0. PICK e : e = alertsCall[h].event
  OBVIOUS
<1>1. /\ alertsCall[h] # Alerts!Idle /\ alertsCall[h].todo = <<>> /\ ended' = ended \union {e}
      /\ alertsCall' = [alertsCall EXCEPT ![h] = Alerts!Idle]
      /\ UNCHANGED <<alerts, told, logged, shown, alertsCalls, alertsFaults, expired, order, alertsMessages>>
  BY <1>0 DEF Alerts!Return, Alerts!talk
<1>2. AlertCallOK(h)
  BY <1>1 DEF AlertIInv
<1>3. e \in AlertEvent /\ \A p \in Alerts!ToSet(Alerts!Recipients(e)) : AlertReached(e, p)
  <2>1. Alerts!ToSet(<<>>) = {}
    BY DEF Alerts!ToSet
  <2> QED
    BY <1>0, <1>1, <1>2, <2>1 DEF AlertCallOK
<1>4. AlertBounds'
  BY <1>1, <1>3 DEF AlertIInv, AlertBounds
<1> QED
  BY <1>1, <1>3, <1>4, AlertIdle, AlertMoves

LEMMA AlertDies ==
  ASSUME Alerts!AlertsAssumption, AlertIInv, NEW h \in Call, Alerts!Die(h)
  PROVE  AlertIInv'
<1>1. /\ alertsCall' = [alertsCall EXCEPT ![h] = Alerts!Idle] /\ alertsFaults < MaxAlertFaults
           /\ alertsFaults' = alertsFaults + 1
      /\ UNCHANGED <<alerts, told, logged, ended, shown, alertsCalls, expired, order, alertsMessages>>
  BY DEF Alerts!Die, Alerts!talk
<1>2. AlertBounds'
  BY <1>1, AlertConstants DEF AlertIInv, AlertBounds
<1> QED
  BY <1>1, <1>2, AlertIdle, AlertMoves

-----------------------------------------------------------------------------
(* Orders                                                                  *)

(* Somebody taps or writes: the alerts and the calls stay. *)
LEMMA AlertTalks ==
  ASSUME Alerts!AlertsAssumption, AlertIInv, Alerts!Says, Alerts!AlertRest' = Alerts!AlertRest,
         shown' \in [Alerts!Phones -> Seq(Alerts!Item)],
         \A p \in Alerts!Phones : shown'[p] # <<>> => shown'[p] = Alerts!ActiveDistinct(p)
           /\ Len(shown'[p]) > 1,
         AlertOrdered'
  PROVE  AlertIInv'
<1>1. UNCHANGED <<alerts, expired, alertsCall, told, logged, ended, alertsCalls, alertsFaults>>
  BY DEF Alerts!AlertRest
<1>2. AlertTypes'
  BY <1>1 DEF AlertIInv, AlertTypes
<1>3. AlertBounds'
  BY <1>1, AlertConstants DEF AlertIInv, AlertBounds, Alerts!Says
<1>4. \A h \in Call : alertsCall'[h] = Alerts!Idle \/ AlertCallOK(h)'
  BY <1>1 DEF AlertIInv, AlertCallOK, AlertReached
<1>5. Alerts!AlertsReachAll' /\ AlertRecorded'
  BY <1>1 DEF AlertIInv, Alerts!AlertsReachAll, AlertRecorded, AlertToldOf
<1>6. AlertShown'
  <2>1. \A p : Alerts!ActiveDistinct(p)' = Alerts!ActiveDistinct(p)
    BY <1>1 DEF Alerts!ActiveDistinct, Alerts!Newest, Alerts!Live
  <2> QED
    BY <2>1 DEF AlertShown
<1> QED
  BY <1>2, <1>3, <1>4, <1>5, <1>6 DEF AlertIInv

(* What a person is offered they were told of. *)
LEMMA AlertOffers ==
  ASSUME AlertIInv, NEW p, NEW k \in DOMAIN Alerts!ActiveDistinct(p)
  PROVE  Alerts!ActiveDistinct(p)[k] \in Alerts!Item /\ AlertToldOf(Alerts!ActiveDistinct(p)[k], p)
<1>1. expired \in Nat /\ alerts \in Seq(Alert)
  BY DEF AlertIInv, AlertTypes
<1>2. AlertListed(p, Alerts!ActiveDistinct(p))
  BY <1>1, AlertActive
<1>3. PICK n \in DOMAIN alerts : alerts[n].phone = p /\ alerts[n].item = Alerts!ActiveDistinct(p)[k]
  BY <1>2 DEF AlertListed
<1> QED
  BY <1>2, <1>3 DEF AlertListed, AlertIInv, AlertRecorded

(* An order of an item its person was told of, the one of the list it was picked
   from. *)
LEMMA AlertOrders ==
  ASSUME AlertIInv, Alerts!AlertRest' = Alerts!AlertRest, NEW p \in Alerts!Phones, NEW item \in Alerts!Item,
         NEW by, NEW from, NEW n,
         Alerts!Begin(p, item, by, from, n), AlertToldOf(item, p), from # <<>> => item = from[n]
  PROVE  AlertOrdered'
<1>1. order' = [phone |-> p, item |-> item, by |-> by, from |-> from, n |-> n] /\ told' = told
  BY DEF Alerts!Begin, Alerts!AlertRest
<1> QED
  BY <1>1 DEF AlertOrdered, AlertToldOf

LEMMA AlertTitle ==
  ASSUME Alerts!AlertsAssumption, AlertIInv, NEW p \in Alerts!Phones, Alerts!TapTitle(p)
  PROVE  AlertIInv'
<1>1. PICK offer : offer = Alerts!ActiveDistinct(p)
  OBVIOUS
<1>2. Alerts!Says /\ Alerts!AlertRest' = Alerts!AlertRest
  BY DEF Alerts!TapTitle
<1>3. offer \in Seq(Alerts!Item) /\ shown \in [Alerts!Phones -> Seq(Alerts!Item)]
  <2>1. expired \in Nat /\ alerts \in Seq(Alert)
    BY DEF AlertIInv, AlertTypes
  <2> QED
    BY <1>1, <2>1, AlertActive DEF AlertListed, AlertIInv, AlertTypes
<1>4. CASE Len(offer) = 1
  <2>1. Alerts!Begin(p, offer[1], "title", <<>>, 1) /\ shown' = shown
    BY <1>1, <1>4 DEF Alerts!TapTitle
  <2>2. 1 \in DOMAIN offer
    BY <1>3, <1>4
  <2>3. offer[1] \in Alerts!Item /\ AlertToldOf(offer[1], p)
    BY <1>1, <2>2, AlertOffers
  <2>4. AlertOrdered'
    BY <1>2, <2>1, <2>3, AlertOrders
  <2> QED
    BY <1>2, <1>3, <2>1, <2>4, AlertTalks DEF AlertIInv, AlertShown
<1>5. CASE Len(offer) # 1
  <2>1. order' = order /\ shown' = IF Len(offer) > 1 THEN [shown EXCEPT ![p] = offer] ELSE shown
    BY <1>1, <1>5 DEF Alerts!TapTitle
  <2>2. shown' \in [Alerts!Phones -> Seq(Alerts!Item)]
    BY <1>3, <2>1
  <2>3. ASSUME NEW q \in Alerts!Phones, shown'[q] # <<>>
        PROVE  shown'[q] = Alerts!ActiveDistinct(q) /\ Len(shown'[q]) > 1
    <3>1. CASE q = p /\ Len(offer) > 1
      BY <1>1, <1>3, <2>1, <3>1
    <3>2. CASE ~(q = p /\ Len(offer) > 1)
      <4>1. shown'[q] = shown[q]
        BY <1>3, <2>1, <3>2
      <4> QED
        BY <2>3, <4>1 DEF AlertIInv, AlertShown
    <3> QED
      BY <3>1, <3>2
  <2>4. AlertOrdered'
    BY <1>2, <2>1 DEF Alerts!AlertRest, AlertIInv, AlertOrdered, AlertToldOf
  <2> QED
    BY <1>2, <2>2, <2>3, <2>4, AlertTalks
<1> QED
  BY <1>4, <1>5

LEMMA AlertButton ==
  ASSUME Alerts!AlertsAssumption, AlertIInv, NEW p \in Alerts!Phones, NEW e \in AlertEvent,
         Alerts!TapButton(p, e)
  PROVE  AlertIInv'
<1>1. /\ Alerts!Says /\ <<e, p>> \in told /\ ItemOf[e] # "sync" /\ shown' = shown
           /\ Alerts!AlertRest' = Alerts!AlertRest
      /\ Alerts!Begin(p, ItemOf[e], "button", <<>>, 1)
  BY DEF Alerts!TapButton
<1>2. ItemOf[e] \in Alerts!Item /\ AlertToldOf(ItemOf[e], p)
  BY <1>1 DEF Alerts!Item, AlertToldOf
<1>3. AlertOrdered'
  BY <1>1, <1>2, AlertOrders
<1> QED
  BY <1>1, <1>3, AlertTalks DEF AlertIInv, AlertTypes, AlertShown

LEMMA AlertNumber ==
  ASSUME Alerts!AlertsAssumption, AlertIInv, NEW p \in Alerts!Phones, NEW n, Alerts!Number(p, n)
  PROVE  AlertIInv'
<1>1. PICK from, item : from = shown[p] /\ item = Alerts!ActiveDistinct(p)[n]
  OBVIOUS
<1>2. /\ Alerts!Says /\ n \in DOMAIN Alerts!ActiveDistinct(p) /\ shown' = shown
           /\ Alerts!AlertRest' = Alerts!AlertRest
      /\ Alerts!Begin(p, item, "number", from, n)
  BY <1>1 DEF Alerts!Number, Alerts!Picked
<1>3. item \in Alerts!Item /\ AlertToldOf(item, p)
  BY <1>1, <1>2, AlertOffers
<1>4. from # <<>> => item = from[n]
  BY <1>1 DEF AlertIInv, AlertShown
<1>5. AlertOrdered'
  BY <1>2, <1>3, <1>4, AlertOrders
<1> QED
  BY <1>2, <1>5, AlertTalks DEF AlertIInv, AlertTypes, AlertShown

LEMMA AlertLapses ==
  ASSUME Alerts!AlertsAssumption, AlertIInv, Alerts!Expire
  PROVE  AlertIInv'
<1>0. PICK p : p = alerts[expired + 1].phone
  OBVIOUS
<1>1. /\ expired < Len(alerts) /\ expired' = expired + 1 /\ shown' = [shown EXCEPT ![p] = <<>>]
      /\ UNCHANGED <<alerts, alertsCall, told, logged, ended, order, alertsCalls, alertsMessages, alertsFaults>>
  BY <1>0 DEF Alerts!Expire
<1>2. /\ alerts \in Seq(Alert) /\ expired \in 0..Len(alerts) /\ Len(alerts) \in Nat /\ expired \in Nat
      /\ shown \in [Alerts!Phones -> Seq(Alerts!Item)]
  BY DEF AlertIInv, AlertTypes
<1>3. p \in Alerts!Phones
  <2>1. alerts[expired + 1] \in Alert
    BY <1>1, <1>2
  <2> QED
    BY <1>0, <2>1 DEF Alert
<1>4. AlertTypes'
  <2>1. shown' \in [Alerts!Phones -> Seq(Alerts!Item)]
    BY <1>1, <1>2, AlertNoList
  <2>2. expired' \in 0..Len(alerts)
    BY <1>1, <1>2
  <2> QED
    BY <1>1, <2>1, <2>2 DEF AlertIInv, AlertTypes
<1>5. AlertBounds'
  BY <1>1 DEF AlertIInv, AlertBounds
<1>6. \A h \in Call : alertsCall'[h] = Alerts!Idle \/ AlertCallOK(h)'
  BY <1>1 DEF AlertIInv, AlertCallOK, AlertReached
<1>7. Alerts!AlertsReachAll' /\ AlertRecorded' /\ AlertOrdered'
  BY <1>1 DEF AlertIInv, Alerts!AlertsReachAll, AlertRecorded, AlertToldOf, AlertOrdered
<1>8. AlertShown'
  <2> SUFFICES ASSUME NEW q \in Alerts!Phones, shown'[q] # <<>>
               PROVE  shown'[q] = Alerts!ActiveDistinct(q)' /\ Len(shown'[q]) > 1
    BY DEF AlertShown
  <2>1. q # p /\ shown'[q] = shown[q]
    BY <1>1, <1>2, <1>3
  <2>2. Alerts!ActiveDistinct(q)' = Alerts!ActiveDistinct(q)
    BY <1>0, <1>1, <1>2, <2>1, AlertOfAnotherLapses
  <2> QED
    BY <2>1, <2>2 DEF AlertIInv, AlertShown
<1> QED
  BY <1>4, <1>5, <1>6, <1>7, <1>8 DEF AlertIInv

LEMMA AlertNextStep ==
  ASSUME Alerts!AlertsAssumption, AlertIInv, [Alerts!Next]_(Alerts!alertVars)
  PROVE  AlertIInv'
<1>1. ASSUME NEW h \in Call,
             (\E e \in AlertEvent : Alerts!Handle(h, e)) \/ Alerts!Send(h) \/ Alerts!Record(h)
               \/ Alerts!Fail(h) \/ Alerts!Return(h) \/ Alerts!Die(h)
      PROVE  AlertIInv'
  BY <1>1, AlertHandles, AlertSends, AlertRecords, AlertFails, AlertReturns, AlertDies
<1>2. ASSUME NEW p \in Alerts!Phones,
             Alerts!TapTitle(p) \/ (\E e \in AlertEvent : Alerts!TapButton(p, e))
             \/ (\E n \in 1..Alerts!Cardinality(Alerts!Item) : Alerts!Number(p, n))
      PROVE  AlertIInv'
  BY <1>2, AlertTitle, AlertButton, AlertNumber
<1>3. CASE UNCHANGED Alerts!alertVars
  <2>1. UNCHANGED <<alerts, expired, alertsCall, told, logged, ended, shown, order, alertsCalls,
        alertsMessages, alertsFaults>>
    BY <1>3 DEF Alerts!alertVars
  <2>2. AlertTypes' /\ AlertBounds' /\ Alerts!AlertsReachAll' /\ AlertRecorded' /\ AlertOrdered'
    BY <2>1 DEF AlertIInv, AlertTypes, AlertBounds, Alerts!AlertsReachAll, AlertRecorded, AlertOrdered,
       AlertToldOf
  <2>3. \A h \in Call : alertsCall'[h] = Alerts!Idle \/ AlertCallOK(h)'
    BY <2>1 DEF AlertIInv, AlertCallOK, AlertReached
  <2>4. AlertShown'
    <3>1. \A p : Alerts!ActiveDistinct(p)' = Alerts!ActiveDistinct(p)
      BY <2>1 DEF Alerts!ActiveDistinct, Alerts!Newest, Alerts!Live
    <3> QED
      BY <2>1, <3>1 DEF AlertIInv, AlertShown
  <2> QED
    BY <2>2, <2>3, <2>4 DEF AlertIInv
<1> QED
  BY <1>1, <1>2, <1>3, AlertLapses DEF Alerts!Next

-----------------------------------------------------------------------------
(* A task given in plain words (TaskByMessage), for any number of items and
   members and any fit of the hints. *)

LEMMA OrderFiniteSets ==
  /\ \A S : Ordered!IsFiniteSet(S) <=> IsFiniteSet(S)
  /\ \A S : Ordered!Cardinality(S) = Cardinality(S)
<1>1. ASSUME NEW S PROVE Ordered!IsFiniteSet(S) <=> IsFiniteSet(S)
  BY DEF Ordered!IsFiniteSet, IsFiniteSet
<1>2. ASSUME NEW S PROVE Ordered!Cardinality(S) = Cardinality(S)
  BY DEF Ordered!Cardinality, Cardinality, Ordered!IsFiniteSet, IsFiniteSet
<1> QED
  BY <1>1, <1>2

(* What a hint finds                                                       *)

LEMMA OrderConstants ==
  ASSUME Ordered!TaskByMessageAssumption
  PROVE  /\ Items \in Nat /\ Members \in Nat /\ MaxStock \in Nat /\ MaxOrderMessages \in Nat
         /\ MaxTasks \in Nat /\ MaxOrderChanges \in Nat
         /\ \A i \in Ordered!Item : i \in Nat /\ i # Ordered!None /\ i > 0
         /\ \A m \in Ordered!Member : m \in Nat /\ m # Ordered!None /\ m > 0
         /\ Ordered!Sender # Ordered!None
  BY DEF Ordered!TaskByMessageAssumption, Ordered!Item, Ordered!Member, Ordered!None, Ordered!Sender

(* The fitting names stand in the list of a hint, the best first. *)
LEMMA OrderListed ==
  ASSUME NEW S, IsFiniteSet(S), S \subseteq Nat, NEW fit, \A n \in S : fit[n] \in 0..5
  PROVE  Ordered!Listed(fit, S) \in [1..Ordered!Cardinality(S) -> S] /\ Ordered!Cardinality(S) \in Nat
<1> DEFINE down == [n \in S |-> {m \in S : fit[m] < fit[n] \/ (fit[m] = fit[n] /\ m <= n)}]
<1>0. \A n \in S : /\ n \in Nat /\ fit[n] \in Nat
                   /\ down[n] = {m \in S : fit[m] < fit[n] \/ (fit[m] = fit[n] /\ m <= n)}
  OBVIOUS
<1>1. /\ down \in [S -> SUBSET S]
      /\ \A n \in S : n \in down[n]
      /\ \A m, n \in S : m \in down[n] <=> fit[m] < fit[n] \/ (fit[m] = fit[n] /\ m <= n)
  BY <1>0
<1> HIDE DEF down
<1>2. /\ \A m, n \in S : m \in down[n] => down[m] \subseteq down[n]
      /\ \A m, n \in S : m \in down[n] \/ n \in down[m]
      /\ \A m, n \in S : m \in down[n] /\ n \in down[m] => m = n
  <2>1. ASSUME NEW m \in S, NEW n \in S, m \in down[n]
        PROVE  down[m] \subseteq down[n]
    <3>1. m \in Nat /\ n \in Nat /\ fit[m] \in Nat /\ fit[n] \in Nat
          /\ (fit[m] < fit[n] \/ (fit[m] = fit[n] /\ m <= n))
      BY <1>0, <1>1, <2>1
    <3> SUFFICES ASSUME NEW l \in S, l \in down[m] PROVE l \in down[n]
      BY <1>1
    <3>2. l \in Nat /\ fit[l] \in Nat /\ (fit[l] < fit[m] \/ (fit[l] = fit[m] /\ l <= m))
      BY <1>0, <1>1
    <3> QED
      BY <1>1, <3>1, <3>2
  <2>2. ASSUME NEW m \in S, NEW n \in S
        PROVE  /\ m \in down[n] \/ n \in down[m]
               /\ m \in down[n] /\ n \in down[m] => m = n
    <3>1. m \in Nat /\ n \in Nat /\ fit[m] \in Nat /\ fit[n] \in Nat
      BY <1>0
    <3>2. /\ m \in down[n] <=> fit[m] < fit[n] \/ (fit[m] = fit[n] /\ m <= n)
          /\ n \in down[m] <=> fit[n] < fit[m] \/ (fit[n] = fit[m] /\ n <= m)
      BY <1>1
    <3> QED
      BY <3>1, <3>2
  <2> QED
    BY <2>1, <2>2
<1>3. /\ Ordered!Cardinality(S) \in Nat
      /\ \A k \in 1..Ordered!Cardinality(S) : \E n \in S : Ordered!Cardinality(down[n]) = k
  <2>0. IsFiniteSet(S)
    OBVIOUS
  <2>1. /\ down \in [S -> SUBSET S]
        /\ \A n \in S : n \in down[n]
    BY <1>1
  <2>2. /\ \A m, n \in S : m \in down[n] => down[m] \subseteq down[n]
        /\ \A m, n \in S : m \in down[n] \/ n \in down[m]
        /\ \A m, n \in S : m \in down[n] /\ n \in down[m] => m = n
    BY <1>2
  <2>3. /\ Cardinality(S) \in Nat
        /\ \A k \in 1..Cardinality(S) : \E n \in S : Cardinality(down[n]) = k
        /\ \A n \in S : Cardinality(down[n]) \in 1..Cardinality(S)
        /\ \A m, n \in S : Cardinality(down[m]) = Cardinality(down[n]) => m = n
    BY <2>0, <2>1, <2>2, Ranks
  <2> QED
    BY <2>3, OrderFiniteSets
<1> DEFINE ranked(n, k) == Ordered!Cardinality({m \in S : fit[m] < fit[n] \/ (fit[m] = fit[n] /\ m <= n)}) = k
           list == [k \in 1..Ordered!Cardinality(S) |-> CHOOSE n \in S : ranked(n, k)]
<1>4. ASSUME NEW k \in 1..Ordered!Cardinality(S)
      PROVE  list[k] \in S
  <2>1. \E n \in S : ranked(n, k)
    BY <1>0, <1>3
  <2>2. list[k] = CHOOSE n \in S : ranked(n, k)
    OBVIOUS
  <2> HIDE DEF ranked
  <2> QED
    BY <2>1, <2>2
<1>5. Ordered!Listed(fit, S) = list
  BY DEF Ordered!Listed
<1>6. list \in [1..Ordered!Cardinality(S) -> S]
  <2> HIDE DEF ranked
  <2>1. list = [k \in 1..Ordered!Cardinality(S) |-> list[k]]
    OBVIOUS
  <2> HIDE DEF list
  <2> QED
    BY <1>4, <2>1
<1> HIDE DEF list
<1> QED
  BY <1>3, <1>5, <1>6

LEMMA OrderFound ==
  ASSUME NEW T, IsFiniteSet(T), T \subseteq Nat, NEW pool, pool \subseteq T, NEW fit \in [T -> 0..5]
  PROVE  Ordered!Found(fit, pool) \in Seq(T)
<1>1. ASSUME NEW S, S \subseteq pool
      PROVE  Ordered!Listed(fit, S) \in Seq(T)
  <2>1. IsFiniteSet(S) /\ S \subseteq Nat /\ \A n \in S : fit[n] \in 0..5
    BY <1>1, FS_Subset
  <2>2. Ordered!Listed(fit, S) \in [1..Ordered!Cardinality(S) -> S] /\ Ordered!Cardinality(S) \in Nat
    BY <2>1, OrderListed
  <2>3. Ordered!Listed(fit, S) \in [1..Ordered!Cardinality(S) -> T]
    BY <1>1, <2>2
  <2> QED
    BY <2>2, <2>3
<1>2. \A t : Ordered!Fits(fit, pool, t) \subseteq pool
  BY DEF Ordered!Fits
<1>3. {n \in pool : fit[n] >= 4} \subseteq pool
  OBVIOUS
<1>4. <<>> \in Seq(T)
  OBVIOUS
<1> QED
  BY <1>1, <1>2, <1>3, <1>4 DEF Ordered!Found

LEMMA OrderFinds ==
  ASSUME Ordered!TaskByMessageAssumption, NEW h \in Hint \cup {"none"}, active \subseteq Ordered!Item,
         orderTeam \subseteq Ordered!Member
  PROVE  Ordered!FindItem(h) \in Seq(Ordered!Item) /\ Ordered!FindWorker(h) \in Seq(Ordered!Member)
<1>1. IsFiniteSet(Ordered!Item) /\ Ordered!Item \subseteq Nat /\ IsFiniteSet(Ordered!Member)
      /\ Ordered!Member \subseteq Nat
  <2>1. /\ Items \in Nat /\ Members \in Nat /\ 1 \in Int
        /\ \A i \in Ordered!Item : i \in Nat
        /\ \A m \in Ordered!Member : m \in Nat
    BY OrderConstants
  <2>2. IsFiniteSet(Ordered!Item)
    BY <2>1, FS_Interval DEF Ordered!Item
  <2>3. IsFiniteSet(Ordered!Member)
    BY <2>1, FS_Interval DEF Ordered!Member
  <2> QED
    BY <2>1, <2>2, <2>3
<1>2. <<>> \in Seq(Ordered!Item) /\ <<>> \in Seq(Ordered!Member)
  OBVIOUS
<1>3. ASSUME h # "none"
      PROVE  Ordered!FindItem(h) \in Seq(Ordered!Item) /\ Ordered!FindWorker(h) \in Seq(Ordered!Member)
  <2> DEFINE pool == {i \in Ordered!Item : i \in active \/ ItemFit[h][i] = 1}
  <2>1. ItemFit[h] \in [Ordered!Item -> 0..5] /\ MemberFit[h] \in [Ordered!Member -> 0..5]
        /\ pool \subseteq Ordered!Item
    BY <1>3 DEF Ordered!TaskByMessageAssumption
  <2>2. Ordered!FindItem(h) = Ordered!Found(ItemFit[h], pool)
        /\ Ordered!FindWorker(h) = Ordered!Found(MemberFit[h], orderTeam)
    BY <1>3 DEF Ordered!FindItem, Ordered!FindWorker
  <2> HIDE DEF pool
  <2>3. Ordered!Found(ItemFit[h], pool) \in Seq(Ordered!Item)
    BY <1>1, <2>1, OrderFound
  <2>4. Ordered!Found(MemberFit[h], orderTeam) \in Seq(Ordered!Member)
    BY <1>1, <2>1, OrderFound
  <2> QED
    BY <2>2, <2>3, <2>4
<1> QED
  BY <1>2, <1>3 DEF Ordered!FindItem, Ordered!FindWorker

-----------------------------------------------------------------------------
(* The dialogue                                                            *)

OrderItem == Ordered!Item \cup {Ordered!None}
OrderWorker == Ordered!Member \cup {Ordered!None, Ordered!Sender}
OrderQuantity == {Ordered!None} \cup 0..MaxStock + 3
OrderKind == {"none", "delivery", "count"}
OrderList == Seq(Nat)
OrderItemList == Seq(Ordered!Item)
OrderWorkerList == Seq(Ordered!Member)
OrderFlag == BOOLEAN
OrderData == [kind : OrderKind, item : OrderItem, worker : OrderWorker, quantity : OrderQuantity,
              items : OrderItemList, workers : OrderWorkerList]
OrderSeen == [list : OrderList, item : OrderItem, worker : OrderWorker, quantity : OrderQuantity]
OrderNames == Ordered!Member \cup {Ordered!None}
OrderPicked == [item : OrderItem, worker : OrderNames]
OrderTask == [worker : OrderWorker, whole : OrderFlag, shown : OrderSeen, picked : OrderPicked,
              kind : OrderKind, item : OrderItem, quantity : OrderQuantity]

(* What is not in doubt any more is known: a delivery's item, and the worker. *)
OrderKnown(d) ==
    /\ d.kind \in {"delivery", "count"}
    /\ d.kind = "delivery" /\ d.items = <<>> => d.item # Ordered!None
    /\ d.workers = <<>> => d.worker # Ordered!None

(* Nobody's name, a dash, stands for the sender; only a count may have no name. *)
OrderShows(w, d) == w # d.worker => w = Ordered!None /\ d.worker = Ordered!Sender
OrderNamed(p, d) ==
    /\ p.item = d.item /\ OrderShows(p.worker, d)
    /\ p.worker # d.worker => d.kind = "count"

(* What the prompt of a step shows of the session. *)
OrderPrompt(s, d, n) ==
    /\ s = "item" => n.list = d.items
    /\ s = "worker" => n.list = d.workers /\ d.items = <<>>
    /\ s \in {"quantity", "confirm"} => d.items = <<>> /\ d.workers = <<>>
    /\ s = "confirm" => n.item = d.item /\ OrderShows(n.worker, d) /\ n.quantity = d.quantity

OrderTalk ==
    /\ step \in Ordered!Steps /\ data \in OrderData /\ seen \in OrderSeen /\ picked \in OrderPicked
    /\ step # "none" => OrderKnown(data) /\ OrderPrompt(step, data, seen)
    /\ step # "none" => OrderNamed(picked, data)
OrderHeard == heard.word \in Ordered!Word \cup {"none"}

OrderTaskOK(t) ==
    /\ t.worker = IF t.picked.worker = Ordered!None THEN Ordered!Sender ELSE t.picked.worker
    /\ t.picked.worker = Ordered!None => t.kind = "count"
    /\ t.shown.worker # t.worker => t.shown.worker = Ordered!None /\ t.picked.worker = Ordered!None
    /\ t.kind = "delivery" /\ t.whole = TRUE =>
          /\ t.item = t.shown.item /\ t.item = t.picked.item /\ t.item # Ordered!None
          /\ t.quantity = t.shown.quantity /\ t.quantity > 0
OrderTasks ==
    /\ tasks \in Seq(OrderTask) /\ Len(tasks) <= MaxTasks
    /\ \A n \in DOMAIN tasks : OrderTaskOK(tasks[n])

OrderFirm == stock \in [Ordered!Item -> 0..MaxStock] /\ active \subseteq Ordered!Item
    /\ orderTeam \subseteq Ordered!Member
OrderLimits == orderMessages \in 0..MaxOrderMessages /\ changes \in 0..MaxOrderChanges

OrderIInv == OrderTalk /\ OrderHeard /\ OrderTasks /\ OrderFirm /\ OrderLimits

LEMMA OrderHolds == OrderIInv => Ordered!TypeOK /\ Ordered!MadeAsConfirmed
<1> SUFFICES ASSUME OrderIInv PROVE Ordered!TypeOK /\ Ordered!MadeAsConfirmed
  OBVIOUS
<1> USE DEF OrderIInv
<1>1. /\ data.kind \in OrderKind /\ data.item \in OrderItem /\ data.worker \in OrderWorker
      /\ data.quantity \in OrderQuantity /\ data.items \in OrderItemList /\ data.workers \in OrderWorkerList
  BY DEF OrderTalk, OrderData
<1>2. Ordered!TypeOK
  <2>1. \A n \in DOMAIN data.items : data.items[n] \in Ordered!Item
    BY <1>1 DEF OrderItemList
  <2>2. \A n \in DOMAIN data.workers : data.workers[n] \in Ordered!Member
    BY <1>1 DEF OrderWorkerList
  <2> QED
    BY <1>1, <2>1, <2>2 DEF Ordered!TypeOK, OrderTalk, OrderHeard, OrderTasks, OrderFirm, OrderLimits,
       OrderKind, OrderItem, OrderWorker, OrderQuantity
<1>3. \A n \in DOMAIN tasks : OrderTaskOK(tasks[n])
  BY DEF OrderTasks
<1>4. /\ step \in {"quantity", "confirm"} /\ data.kind = "delivery" => data.item # Ordered!None
      /\ step = "confirm" => data.worker # Ordered!None
  BY DEF OrderTalk, OrderKnown, OrderPrompt
<1> QED
  BY <1>2, <1>3, <1>4 DEF Ordered!MadeAsConfirmed, OrderTaskOK

LEMMA OrderBlank ==
  ASSUME Ordered!TaskByMessageAssumption
  PROVE  /\ Ordered!NoData \in OrderData /\ Ordered!Unseen \in OrderSeen /\ Ordered!Unpicked \in OrderPicked
         /\ Ordered!Unheard.word = "none"
<1>1. <<>> \in OrderItemList /\ <<>> \in OrderWorkerList /\ <<>> \in OrderList
  BY DEF OrderItemList, OrderWorkerList, OrderList
<1>2. Ordered!None \in OrderItem /\ Ordered!None \in OrderWorker /\ Ordered!None \in OrderQuantity
      /\ Ordered!None \in OrderNames
      /\ "none" \in OrderKind
  BY DEF OrderItem, OrderWorker, OrderQuantity, OrderKind, OrderNames
<1> QED
  BY <1>1, <1>2 DEF Ordered!NoData, Ordered!Unseen, Ordered!Unpicked, Ordered!Unheard, OrderData, OrderSeen,
     OrderPicked

LEMMA OrderInit == Ordered!TaskByMessageAssumption /\ Ordered!Init => OrderIInv
<1> SUFFICES ASSUME Ordered!TaskByMessageAssumption, Ordered!Init PROVE OrderIInv
  OBVIOUS
<1>1. OrderTalk /\ OrderHeard
  <2>1. step = "none" /\ data \in OrderData /\ seen \in OrderSeen /\ picked \in OrderPicked
        /\ heard.word = "none"
    BY OrderBlank DEF Ordered!Init
  <2> QED
    BY <2>1 DEF OrderTalk, OrderHeard, Ordered!Steps
<1>2. OrderTasks
  <2>1. tasks = <<>> /\ tasks \in Seq(OrderTask) /\ Len(tasks) = 0 /\ DOMAIN tasks = {}
    BY DEF Ordered!Init
  <2> QED
    BY <2>1, OrderConstants DEF OrderTasks
<1>3. OrderFirm
  BY OrderConstants DEF Ordered!Init, OrderFirm
<1>4. OrderLimits
  BY OrderConstants DEF Ordered!Init, OrderLimits
<1> QED
  BY <1>1, <1>2, <1>3, <1>4 DEF OrderIInv

(* The next question shows what it is about. *)
LEMMA OrderAsks ==
  ASSUME Ordered!TaskByMessageAssumption, NEW d \in OrderData, OrderKnown(d), NEW w \in OrderWorker,
         Ordered!AsksFor(d, w), OrderShows(w, d), NEW p \in OrderPicked, picked' = p, OrderNamed(p, d)
  PROVE  OrderTalk'
<1> DEFINE listed == [Ordered!Unseen EXCEPT !.list = d.items]
           named == [Ordered!Unseen EXCEPT !.list = d.workers]
           whole == [Ordered!Unseen EXCEPT !.item = d.item, !.worker = w, !.quantity = d.quantity]
<1>1. /\ d.items \in OrderItemList /\ d.workers \in OrderWorkerList /\ d.item \in OrderItem
      /\ d.worker \in OrderWorker /\ d.quantity \in OrderQuantity
  BY DEF OrderData
<1>2. d.items \in OrderList /\ d.workers \in OrderList
  BY <1>1, OrderConstants DEF OrderItemList, OrderWorkerList, OrderList
<1>3. /\ listed \in OrderSeen /\ listed.list = d.items
      /\ named \in OrderSeen /\ named.list = d.workers
      /\ whole \in OrderSeen /\ whole.item = d.item /\ whole.worker = w /\ whole.quantity = d.quantity
      /\ Ordered!Unseen \in OrderSeen
  BY <1>1, <1>2, OrderBlank DEF OrderSeen, Ordered!Unseen
<1> HIDE DEF listed, named, whole
<1>4. data' = d
  BY DEF Ordered!AsksFor
<1>5. CASE d.items # <<>>
  <2>1. step' = "item" /\ seen' = listed
    BY <1>5 DEF Ordered!AsksFor, listed
  <2> QED
    BY <1>3, <1>4, <2>1 DEF OrderTalk, OrderPrompt, Ordered!Steps
<1>6. CASE d.items = <<>> /\ d.workers # <<>>
  <2>1. step' = "worker" /\ seen' = named
    BY <1>6 DEF Ordered!AsksFor, named
  <2> QED
    BY <1>3, <1>4, <1>6, <2>1 DEF OrderTalk, OrderPrompt, Ordered!Steps
<1>7. CASE d.items = <<>> /\ d.workers = <<>> /\ Ordered!NeedsItem(d.kind) /\ d.quantity = Ordered!None
  <2>1. step' = "quantity" /\ seen' = Ordered!Unseen
    BY <1>7 DEF Ordered!AsksFor
  <2> QED
    BY <1>3, <1>4, <1>7, <2>1 DEF OrderTalk, OrderPrompt, Ordered!Steps
<1>8. CASE d.items = <<>> /\ d.workers = <<>> /\ ~(Ordered!NeedsItem(d.kind) /\ d.quantity = Ordered!None)
  <2>1. step' = "confirm" /\ seen' = whole
    BY <1>8 DEF Ordered!AsksFor, whole
  <2> QED
    BY <1>3, <1>4, <1>8, <2>1 DEF OrderTalk, OrderPrompt, Ordered!Steps
<1> QED
  BY <1>5, <1>6, <1>7, <1>8

LEMMA OrderOver ==
  ASSUME Ordered!TaskByMessageAssumption, Ordered!Over
  PROVE  OrderTalk'
<1>1. step' = "none" /\ data' \in OrderData /\ seen' \in OrderSeen /\ picked' \in OrderPicked
  BY OrderBlank DEF Ordered!Over
<1> QED
  BY <1>1 DEF OrderTalk, Ordered!Steps

LEMMA OrderStays == OrderTalk /\ Ordered!Stays => OrderTalk'
  BY DEF Ordered!Stays, OrderTalk

(* A message is heard: stock, items and team stay. *)
LEMMA OrderHears ==
  ASSUME Ordered!TaskByMessageAssumption, OrderIInv, Ordered!Hears, OrderTalk', OrderTasks', OrderHeard'
  PROVE  OrderIInv'
<1>1. UNCHANGED <<stock, active, orderTeam, changes>> /\ orderMessages < MaxOrderMessages
      /\ orderMessages' = orderMessages + 1
  BY DEF Ordered!Hears, Ordered!firm
<1> QED
  BY <1>1, OrderConstants DEF OrderIInv, OrderFirm, OrderLimits

LEMMA OrderTasksStay == OrderTasks /\ tasks' = tasks => OrderTasks'
  BY DEF OrderTasks

LEMMA OrderLengths ==
  ASSUME NEW S, NEW list \in Seq(S)
  PROVE  /\ list = <<>> \/ Len(list) = 1 \/ Len(list) > 1
         /\ list = <<>> => Len(list) = 0
         /\ Len(list) = 1 => list[1] \in S
<1>1. Len(list) \in Nat /\ (Len(list) = 0 => list = <<>>)
  OBVIOUS
<1>2. Len(list) = 0 \/ Len(list) = 1 \/ Len(list) > 1
  BY <1>1
<1>3. (list = <<>> => Len(list) = 0) /\ (Len(list) = 1 => list[1] \in S)
  OBVIOUS
<1> QED
  BY <1>1, <1>2, <1>3

LEMMA OrderFreeText ==
  ASSUME Ordered!TaskByMessageAssumption, OrderIInv, NEW k \in {"delivery", "count"},
         NEW i \in Hint \cup {"none"}, NEW w \in Hint \cup {"none"}, NEW q \in {Ordered!None} \cup 0..MaxStock,
         Ordered!FreeText(k, i, w, q)
  PROVE  OrderIInv'
<1>1. Ordered!Hears /\ heard' = Ordered!Unheard /\ tasks' = tasks
  BY DEF Ordered!FreeText
<1>2. OrderHeard' /\ OrderTasks'
  BY <1>1, OrderBlank, OrderTasksStay DEF OrderIInv, OrderHeard
<1>3. PICK is, ws : is = Ordered!FindItem(i) /\ ws = Ordered!FindWorker(w)
  OBVIOUS
<1>4. is \in Seq(Ordered!Item) /\ ws \in Seq(Ordered!Member)
  BY <1>3, OrderFinds DEF OrderIInv, OrderFirm
<1>5. CASE Ordered!Blocked(k, is, ws, q)
  <2>1. Ordered!Stays
    BY <1>3, <1>5 DEF Ordered!FreeText, Ordered!Stays
  <2> QED
    BY <1>1, <1>2, <2>1, OrderStays, OrderHears DEF OrderIInv
<1>6. CASE ~Ordered!Blocked(k, is, ws, q)
  <2> DEFINE d == [kind |-> k, quantity |-> q,
                   item |-> IF Len(is) = 1 THEN is[1] ELSE Ordered!None,
                   items |-> IF Len(is) > 1 THEN is ELSE <<>>,
                   worker |-> CASE Len(ws) = 1 -> ws[1] [] ws = <<>> -> Ordered!Sender [] OTHER -> Ordered!None,
                   workers |-> IF Len(ws) > 1 THEN ws ELSE <<>>]
  <2>0. PICK named : named = IF Len(ws) = 1 THEN ws[1] ELSE Ordered!None
    OBVIOUS
  <2>1. Ordered!AsksFor(d, named) /\ picked' = [item |-> d.item, worker |-> named]
    BY <1>3, <1>6, <2>0 DEF Ordered!FreeText
  <2>2. /\ d.kind = k /\ d.quantity = q
        /\ d.item = (IF Len(is) = 1 THEN is[1] ELSE Ordered!None)
        /\ d.items = (IF Len(is) > 1 THEN is ELSE <<>>)
        /\ d.worker = (CASE Len(ws) = 1 -> ws[1] [] ws = <<>> -> Ordered!Sender [] OTHER -> Ordered!None)
        /\ d.workers = (IF Len(ws) > 1 THEN ws ELSE <<>>)
    OBVIOUS
  <2>3. d.items \in OrderItemList /\ d.workers \in OrderWorkerList
    <3>1. <<>> \in Seq(Ordered!Item) /\ <<>> \in Seq(Ordered!Member)
      OBVIOUS
    <3> HIDE DEF d
    <3> QED
      BY <1>4, <2>2, <3>1 DEF OrderItemList, OrderWorkerList
  <2> HIDE DEF d
  <2>4. d.item \in OrderItem /\ (k = "delivery" /\ d.items = <<>> => d.item # Ordered!None)
    <3>1. k = "delivery" => is # <<>>
      BY <1>6 DEF Ordered!Blocked, Ordered!NeedsItem
    <3>2. (Len(is) = 1 => is[1] \in Ordered!Item) /\ (is = <<>> \/ Len(is) = 1 \/ Len(is) > 1)
      BY <1>4, OrderLengths
    <3>3. Ordered!None \in OrderItem /\ \A n \in Ordered!Item : n \in OrderItem /\ n # Ordered!None
      BY OrderConstants DEF OrderItem
    <3>4. d.item \in OrderItem
      BY <2>2, <3>2, <3>3
    <3>5. ASSUME k = "delivery", d.items = <<>> PROVE d.item # Ordered!None
      <4>0. Len(is) > 1 => d.items = is
        BY <2>2
      <4>1. Len(is) = 1
        BY <3>1, <3>2, <3>5, <4>0
      <4> QED
        BY <2>2, <3>2, <3>3, <4>1
    <3> QED
      BY <3>4, <3>5
  <2>5. d.worker \in OrderWorker /\ (d.workers = <<>> => d.worker # Ordered!None)
    <3>1. /\ ws = <<>> \/ Len(ws) = 1 \/ Len(ws) > 1
          /\ ws = <<>> => Len(ws) = 0
          /\ Len(ws) = 1 => ws[1] \in Ordered!Member
      BY <1>4, OrderLengths
    <3>2. /\ Ordered!None \in OrderWorker /\ Ordered!Sender \in OrderWorker /\ Ordered!Sender # Ordered!None
          /\ \A n \in Ordered!Member : n \in OrderWorker /\ n # Ordered!None
      BY OrderConstants DEF OrderWorker
    <3>3. CASE Len(ws) = 1
      BY <2>2, <3>1, <3>2, <3>3
    <3>4. CASE ws = <<>>
      BY <2>2, <3>1, <3>2, <3>4
    <3>5. CASE Len(ws) # 1 /\ ws # <<>>
      <4>1. d.worker = Ordered!None
        BY <2>2, <3>5
      <4>2. Len(ws) > 1
        BY <3>1, <3>5
      <4>3. d.workers = ws
        BY <2>2, <4>2
      <4> QED
        BY <3>2, <3>5, <4>1, <4>3
    <3> QED
      BY <3>3, <3>4, <3>5
  <2>6. d.quantity \in OrderQuantity /\ d.kind \in OrderKind
    <3>1. q \in {Ordered!None} \cup 0..MaxStock + 3
      BY OrderConstants
    <3> QED
      BY <2>2, <3>1 DEF OrderQuantity, OrderKind
  <2>7. d \in OrderData
    BY <2>3, <2>4, <2>5, <2>6 DEF OrderData, d
  <2>8. OrderKnown(d)
    BY <2>2, <2>4, <2>5 DEF OrderKnown
  <2>9. PICK p : p = [item |-> d.item, worker |-> named]
    OBVIOUS
  <2>10. named \in OrderNames /\ named \in OrderWorker /\ OrderShows(named, d)
         /\ (named # d.worker => d.kind = "count")
    <3>1. Len(ws) = 1 => ws[1] \in Ordered!Member
      BY <1>4, OrderLengths
    <3>2. named \in OrderNames /\ named \in OrderWorker
      BY <2>0, <3>1 DEF OrderNames, OrderWorker
    <3>3. k # "count" => ws # <<>>
      BY <1>6 DEF Ordered!Blocked
    <3>4. named # d.worker => named = Ordered!None /\ ws = <<>> /\ d.worker = Ordered!Sender
      <4>1. Len(ws) = 1 => named = ws[1] /\ d.worker = ws[1]
        <5>1. ws = <<>> => Len(ws) = 0
          BY <1>4, OrderLengths
        <5> QED
          BY <2>0, <2>2, <5>1
      <4>2. Len(ws) # 1 /\ ws # <<>> => named = Ordered!None /\ d.worker = Ordered!None
        BY <2>0, <2>2
      <4>3. Len(ws) # 1 /\ ws = <<>> => named = Ordered!None /\ d.worker = Ordered!Sender
        BY <2>0, <2>2
      <4> QED
        BY <4>1, <4>2, <4>3
    <3> QED
      <4>1. OrderShows(named, d)
        BY <3>4 DEF OrderShows
      <4>2. named # d.worker => d.kind = "count"
        BY <2>2, <3>3, <3>4
      <4> QED
        BY <3>2, <4>1, <4>2
  <2>12. p \in OrderPicked /\ OrderNamed(p, d)
    BY <2>4, <2>9, <2>10 DEF OrderPicked, OrderNamed
  <2>11. OrderTalk'
    BY <2>1, <2>7, <2>8, <2>9, <2>10, <2>12, OrderAsks
  <2> QED
    BY <1>1, <1>2, <2>11, OrderHears
<1> QED
  BY <1>5, <1>6

LEMMA OrderPicks ==
  ASSUME NEW w, NEW list \in Seq(Nat), Ordered!Picks(w, list)
  PROVE  Ordered!Number[w] \in DOMAIN list
<1>1. Ordered!Number[w] \in 1..3 /\ Ordered!Number[w] <= Len(list)
  BY DEF Ordered!Picks, Ordered!Number
<1> QED
  BY <1>1

LEMMA OrderSelectsItem ==
  ASSUME Ordered!TaskByMessageAssumption, OrderIInv, NEW w \in Ordered!Word, Ordered!SelectItem(w)
  PROVE  OrderIInv'
<1>1. step = "item" /\ Ordered!Hears /\ heard' = Ordered!Unheard /\ tasks' = tasks
  BY DEF Ordered!SelectItem
<1>2. OrderHeard' /\ OrderTasks'
  BY <1>1, OrderBlank, OrderTasksStay DEF OrderIInv, OrderHeard
<1>3. /\ data \in OrderData /\ picked \in OrderPicked /\ OrderKnown(data)
      /\ seen.list = data.items /\ OrderNamed(picked, data)
  BY <1>1 DEF OrderIInv, OrderTalk, OrderPrompt
<1>4. ASSUME Ordered!Picks(w, data.items),
             Ordered!Asks([data EXCEPT !.item = data.items[Ordered!Number[w]], !.items = <<>>]),
             picked' = [picked EXCEPT !.item = seen.list[Ordered!Number[w]]]
      PROVE  OrderTalk'
  <2>1. PICK d, p : /\ d = [data EXCEPT !.item = data.items[Ordered!Number[w]], !.items = <<>>]
                    /\ p = [picked EXCEPT !.item = seen.list[Ordered!Number[w]]]
    OBVIOUS
  <2>2. data.items \in Seq(Ordered!Item) /\ data.items \in Seq(Nat) /\ <<>> \in OrderItemList
    BY <1>3, OrderConstants DEF OrderData, OrderItemList
  <2>3. data.items[Ordered!Number[w]] \in Ordered!Item
    BY <1>4, <2>2, OrderPicks
  <2>4. data.items[Ordered!Number[w]] \in OrderItem /\ data.items[Ordered!Number[w]] # Ordered!None
    BY <2>3, OrderConstants DEF OrderItem
  <2>5. /\ d \in OrderData /\ d.item = data.items[Ordered!Number[w]] /\ d.items = <<>> /\ d.kind = data.kind
        /\ d.worker = data.worker /\ d.workers = data.workers
    BY <1>3, <2>1, <2>2, <2>4 DEF OrderData
  <2>6. p \in OrderPicked /\ p.item = d.item /\ p.worker = picked.worker
    BY <1>3, <2>1, <2>4, <2>5 DEF OrderPicked
  <2>8. OrderNamed(p, d)
    BY <1>3, <2>5, <2>6 DEF OrderNamed, OrderShows
  <2>7. OrderKnown(d)
    BY <1>3, <2>4, <2>5 DEF OrderKnown
  <2>9. Ordered!AsksFor(d, d.worker) /\ d.worker \in OrderWorker /\ OrderShows(d.worker, d)
    BY <1>4, <2>1, <2>5 DEF Ordered!Asks, OrderData, OrderShows
  <2> QED
    BY <1>4, <2>1, <2>5, <2>6, <2>7, <2>8, <2>9, OrderAsks
<1>5. OrderTalk'
  BY <1>4, OrderOver, OrderStays DEF Ordered!SelectItem, OrderIInv
<1> QED
  BY <1>1, <1>2, <1>5, OrderHears

LEMMA OrderSelectsWorker ==
  ASSUME Ordered!TaskByMessageAssumption, OrderIInv, NEW w \in Ordered!Word, Ordered!SelectWorker(w)
  PROVE  OrderIInv'
<1>1. step = "worker" /\ Ordered!Hears /\ heard' = Ordered!Unheard /\ tasks' = tasks
  BY DEF Ordered!SelectWorker
<1>2. OrderHeard' /\ OrderTasks'
  BY <1>1, OrderBlank, OrderTasksStay DEF OrderIInv, OrderHeard
<1>3. /\ data \in OrderData /\ picked \in OrderPicked /\ OrderKnown(data)
      /\ seen.list = data.workers /\ OrderNamed(picked, data)
  BY <1>1 DEF OrderIInv, OrderTalk, OrderPrompt
<1>4. ASSUME Ordered!Picks(w, data.workers),
             Ordered!Asks([data EXCEPT !.worker = data.workers[Ordered!Number[w]], !.workers = <<>>]),
             picked' = [picked EXCEPT !.worker = seen.list[Ordered!Number[w]]]
      PROVE  OrderTalk'
  <2>1. PICK d, p : /\ d = [data EXCEPT !.worker = data.workers[Ordered!Number[w]], !.workers = <<>>]
                    /\ p = [picked EXCEPT !.worker = seen.list[Ordered!Number[w]]]
    OBVIOUS
  <2>2. data.workers \in Seq(Ordered!Member) /\ data.workers \in Seq(Nat) /\ <<>> \in OrderWorkerList
    BY <1>3, OrderConstants DEF OrderData, OrderWorkerList
  <2>3. data.workers[Ordered!Number[w]] \in Ordered!Member
    BY <1>4, <2>2, OrderPicks
  <2>4. data.workers[Ordered!Number[w]] \in OrderWorker /\ data.workers[Ordered!Number[w]] # Ordered!None
    BY <2>3, OrderConstants DEF OrderWorker
  <2>5. /\ d \in OrderData /\ d.worker = data.workers[Ordered!Number[w]] /\ d.workers = <<>>
             /\ d.kind = data.kind
        /\ d.item = data.item /\ d.items = data.items
    BY <1>3, <2>1, <2>2, <2>4 DEF OrderData
  <2>6. p \in OrderPicked /\ p.item = d.item /\ p.worker = d.worker
    <3>1. data.workers[Ordered!Number[w]] \in OrderNames
      BY <2>3 DEF OrderNames
    <3>2. p \in OrderPicked /\ p.item = picked.item /\ p.worker = data.workers[Ordered!Number[w]]
      BY <1>3, <2>1, <3>1 DEF OrderPicked
    <3> QED
      BY <1>3, <2>5, <3>2 DEF OrderNamed
  <2>8. OrderNamed(p, d)
    BY <2>6 DEF OrderNamed, OrderShows
  <2>7. OrderKnown(d)
    BY <1>3, <2>4, <2>5 DEF OrderKnown
  <2>9. Ordered!AsksFor(d, d.worker) /\ d.worker \in OrderWorker /\ OrderShows(d.worker, d)
    BY <1>4, <2>1, <2>5 DEF Ordered!Asks, OrderData, OrderShows
  <2> QED
    BY <1>4, <2>1, <2>5, <2>6, <2>7, <2>8, <2>9, OrderAsks
<1>5. OrderTalk'
  BY <1>4, OrderOver, OrderStays DEF Ordered!SelectWorker, OrderIInv
<1> QED
  BY <1>1, <1>2, <1>5, OrderHears

LEMMA OrderQuantities ==
  ASSUME Ordered!TaskByMessageAssumption, OrderIInv, NEW w \in Ordered!Word, Ordered!Quantity(w)
  PROVE  OrderIInv'
<1>1. step = "quantity" /\ Ordered!Hears /\ tasks' = tasks
  BY DEF Ordered!Quantity
<1>2. OrderTasks'
  BY <1>1, OrderTasksStay DEF OrderIInv
<1>3. OrderHeard'
  <2>1. heard'.word = w
    BY DEF Ordered!Quantity, Ordered!Hear
  <2> QED
    BY <2>1 DEF OrderHeard
<1>4. /\ data \in OrderData /\ picked \in OrderPicked /\ OrderKnown(data)
      /\ OrderNamed(picked, data)
  BY <1>1 DEF OrderIInv, OrderTalk
<1>5. ASSUME w \in DOMAIN Ordered!Number, Ordered!Asks([data EXCEPT !.quantity = Ordered!Number[w]]),
               picked' = picked
      PROVE  OrderTalk'
  <2>1. PICK d, p : d = [data EXCEPT !.quantity = Ordered!Number[w]] /\ p = picked
    OBVIOUS
  <2>2. Ordered!Number[w] \in OrderQuantity
    <3>1. Ordered!Number[w] \in 1..3
      BY <1>5 DEF Ordered!Number
    <3> QED
      BY <3>1, OrderConstants DEF OrderQuantity
  <2>3. /\ d \in OrderData /\ d.kind = data.kind /\ d.worker = data.worker /\ d.workers = data.workers
        /\ d.item = data.item /\ d.items = data.items
    BY <1>4, <2>1, <2>2 DEF OrderData
  <2>4. OrderKnown(d)
    BY <1>4, <2>3 DEF OrderKnown
  <2>5. OrderNamed(p, d)
    BY <1>4, <2>1, <2>3 DEF OrderNamed, OrderShows
  <2>6. Ordered!AsksFor(d, d.worker) /\ d.worker \in OrderWorker /\ OrderShows(d.worker, d)
    BY <1>5, <2>1, <2>3 DEF Ordered!Asks, OrderData, OrderShows
  <2> QED
    BY <1>4, <1>5, <2>1, <2>3, <2>4, <2>5, <2>6, OrderAsks
<1>6. OrderTalk'
  BY <1>5, OrderOver, OrderStays DEF Ordered!Quantity, OrderIInv
<1> QED
  BY <1>1, <1>2, <1>3, <1>6, OrderHears

(* The task that CONFIRM makes is the one the message to confirm showed. *)
LEMMA OrderMakes ==
  ASSUME Ordered!TaskByMessageAssumption, OrderIInv, step = "confirm", Ordered!Fulfillable,
         Len(tasks) < MaxTasks,
         NEW whole \in BOOLEAN, tasks' = Append(tasks, Ordered!Task(whole))
  PROVE  OrderTasks'
<1>1. /\ data \in OrderData /\ seen \in OrderSeen /\ picked \in OrderPicked
      /\ OrderNamed(picked, data) /\ data.worker # Ordered!None
      /\ seen.item = data.item /\ OrderShows(seen.worker, data) /\ seen.quantity = data.quantity
      /\ data.kind = "delivery" => data.item # Ordered!None
  BY DEF OrderIInv, OrderTalk, OrderPrompt, OrderKnown
<1>2. /\ data.kind \in OrderKind /\ data.item \in OrderItem /\ data.worker \in OrderWorker
      /\ data.quantity \in OrderQuantity
  BY <1>1 DEF OrderData
<1>3. PICK t : t = Ordered!Task(whole)
  OBVIOUS
<1>4. PICK item, quantity :
         /\ item = (IF Ordered!NeedsItem(data.kind) /\ whole THEN data.item ELSE Ordered!None)
         /\ quantity = (IF Ordered!NeedsItem(data.kind) /\ whole THEN data.quantity ELSE 0)
  OBVIOUS
<1>5. t = [worker |-> data.worker, whole |-> whole, shown |-> seen, picked |-> picked, kind |-> data.kind,
           item |-> item, quantity |-> quantity]
  BY <1>3, <1>4 DEF Ordered!Task
<1>6. item \in OrderItem /\ quantity \in OrderQuantity /\ whole \in OrderFlag
  <2>1. Ordered!None \in OrderItem /\ 0 \in OrderQuantity /\ whole \in OrderFlag
    BY OrderConstants DEF OrderItem, OrderQuantity, OrderFlag
  <2> QED
    BY <1>2, <1>4, <2>1
<1>7. t \in OrderTask
  BY <1>1, <1>2, <1>5, <1>6 DEF OrderTask
<1>8. /\ t.worker = data.worker /\ t.shown = seen /\ t.picked = picked /\ t.kind = data.kind
      /\ t.item = item /\ t.quantity = quantity /\ t.whole = whole
  BY <1>5
<1>9. OrderTaskOK(t)
  <2>1. data.kind = "delivery" => data.quantity > 0
    BY DEF Ordered!Fulfillable, Ordered!NeedsItem
  <2>2. data.kind = "delivery" /\ whole = TRUE => item = data.item /\ quantity = data.quantity
    BY <1>4 DEF Ordered!NeedsItem
  <2>3. picked.worker \in OrderNames /\ picked.worker # Ordered!Sender
    BY <1>1, OrderConstants DEF OrderPicked, OrderNames, Ordered!Sender, Ordered!None
  <2>4. /\ data.worker = IF picked.worker = Ordered!None THEN Ordered!Sender ELSE picked.worker
        /\ picked.worker = Ordered!None => data.kind = "count"
        /\ seen.worker # data.worker => seen.worker = Ordered!None /\ picked.worker = Ordered!None
    BY <1>1, <2>3 DEF OrderNamed, OrderShows
  <2>5. picked.item = data.item
    BY <1>1 DEF OrderNamed
  <2> QED
    BY <1>1, <1>8, <2>1, <2>2, <2>4, <2>5 DEF OrderTaskOK
<1>10. /\ tasks \in Seq(OrderTask) /\ \A n \in DOMAIN tasks : OrderTaskOK(tasks[n])
       /\ tasks' = Append(tasks, t)
  BY <1>3 DEF OrderIInv, OrderTasks
<1>11. /\ tasks' \in Seq(OrderTask) /\ Len(tasks') <= MaxTasks
       /\ DOMAIN tasks' = 1..(Len(tasks) + 1) /\ DOMAIN tasks = 1..Len(tasks) /\ Len(tasks) \in Nat
       /\ tasks'[Len(tasks) + 1] = t /\ \A n \in 1..Len(tasks) : tasks'[n] = tasks[n]
  BY <1>7, <1>10, OrderConstants
<1>12. ASSUME NEW n \in DOMAIN tasks'
       PROVE  OrderTaskOK(tasks'[n])
  <2>1. n \in 1..Len(tasks) \/ n = Len(tasks) + 1
    BY <1>11
  <2> QED
    BY <1>9, <1>10, <1>11, <2>1
<1> QED
  BY <1>11, <1>12 DEF OrderTasks, OrderTaskOK

LEMMA OrderConfirms ==
  ASSUME Ordered!TaskByMessageAssumption, OrderIInv, NEW w \in Ordered!Word, Ordered!Confirm(w)
  PROVE  OrderIInv'
<1>1. step = "confirm" /\ Ordered!Hears /\ heard' = Ordered!Unheard
  BY DEF Ordered!Confirm
<1>2. OrderHeard'
  BY <1>1, OrderBlank DEF OrderHeard
<1>3. OrderTalk'
  BY OrderOver, OrderStays DEF Ordered!Confirm, OrderIInv
<1>4. OrderTasks'
  BY <1>1, OrderMakes, OrderTasksStay DEF Ordered!Confirm, OrderIInv
<1> QED
  BY <1>1, <1>2, <1>3, <1>4, OrderHears

LEMMA OrderConfirmsTorn ==
  ASSUME Ordered!TaskByMessageAssumption, OrderIInv, NEW w \in Ordered!Word, Ordered!ConfirmTorn(w)
  PROVE  OrderIInv'
<1>1. /\ step = "confirm" /\ Ordered!Fulfillable /\ Len(tasks) < MaxTasks
           /\ tasks' = Append(tasks, Ordered!Task(FALSE))
      /\ heard' = Ordered!Unheard /\ Ordered!Stays /\ UNCHANGED <<stock, active, orderTeam>>
      /\ orderMessages < MaxOrderMessages /\ orderMessages' = orderMessages + 1
      /\ changes < MaxOrderChanges /\ changes' = changes + 1
  BY DEF Ordered!ConfirmTorn, Ordered!firm
<1>2. OrderHeard' /\ OrderTalk'
  BY <1>1, OrderBlank, OrderStays DEF OrderHeard, OrderIInv
<1>3. OrderTasks'
  BY <1>1, OrderMakes
<1>4. OrderFirm' /\ OrderLimits'
  BY <1>1, OrderConstants DEF OrderIInv, OrderFirm, OrderLimits
<1> QED
  BY <1>2, <1>3, <1>4 DEF OrderIInv

LEMMA OrderChanges ==
  ASSUME Ordered!TaskByMessageAssumption, OrderIInv, Ordered!Changes
  PROVE  OrderIInv'
<1>1. /\ UNCHANGED <<step, data, seen, picked, heard, tasks, orderMessages>>
      /\ changes < MaxOrderChanges /\ changes' = changes + 1
  BY DEF Ordered!Changes, Ordered!talk
<1>2. OrderTalk' /\ OrderHeard' /\ OrderTasks'
  BY <1>1 DEF OrderIInv, OrderTalk, OrderHeard, OrderTasks
<1>3. OrderLimits'
  BY <1>1, OrderConstants DEF OrderIInv, OrderLimits
<1>4. OrderFirm'
  BY DEF Ordered!Changes, OrderIInv, OrderFirm
<1> QED
  BY <1>2, <1>3, <1>4 DEF OrderIInv

LEMMA OrderNextStep ==
  ASSUME Ordered!TaskByMessageAssumption, OrderIInv, [Ordered!Next]_(Ordered!taskByMessageVars)
  PROVE  OrderIInv'
<1>1. ASSUME NEW k \in {"delivery", "count"}, NEW i \in Hint \cup {"none"}, NEW w \in Hint \cup {"none"},
             NEW q \in {Ordered!None} \cup 0..MaxStock, Ordered!FreeText(k, i, w, q)
      PROVE  OrderIInv'
  BY <1>1, OrderFreeText
<1>2. ASSUME NEW w \in Ordered!Word, Ordered!Reply(w)
      PROVE  OrderIInv'
  BY <1>2, OrderSelectsItem, OrderSelectsWorker, OrderQuantities, OrderConfirms,
     OrderConfirmsTorn DEF Ordered!Reply
<1>3. CASE UNCHANGED Ordered!taskByMessageVars
  BY <1>3 DEF Ordered!taskByMessageVars, Ordered!talk, Ordered!firm, OrderIInv, OrderTalk, OrderHeard,
     OrderTasks, OrderFirm, OrderLimits
<1> QED
  BY <1>1, <1>2, <1>3, OrderChanges DEF Ordered!Next

-----------------------------------------------------------------------------
(* The office as a whole: the part that moves keeps its invariant, the others
   rest. *)
PartsIInv ==
    /\ part = "request" => IInv /\ AuditIInv
    /\ part = "link" => LinkIInv
    /\ part = "import" => ImportIInv
    /\ part = "start" => Start!IInv
    /\ part = "day" => DayIInv
    /\ part = "registers" => BookIInv
    /\ part = "alerts" => AlertIInv
    /\ part = "order" => OrderIInv

LEMMA InitPartsIInv == PartsInit => PartsIInv
  BY LinkAssumption, InitIInv, InitAudit, InitImport, StartAssumption, Start!InitIInv, LinkInitIInv,
     DaysAssumption, DayInit, BooksAssumption, BookInit, AlertsPartAssumption, AlertInit,
     OrderedAssumption, OrderInit DEF PartsInit, PartsIInv

LEMMA PartsStep ==
  ASSUME [PartsNext]_parts
  PROVE  /\ part' = part
         /\ part = "request" => [Next]_vars
         /\ part = "link" => [Connection!Next]_(Connection!connectionVars)
         /\ part = "import" => [Imports!Next]_importState
         /\ part = "start" => [Start!Next]_(Start!onboardingVars)
         /\ part = "day" => [Days!Next]_(Days!dayVars)
         /\ part = "registers" => [Books!Next]_(Books!registerVars)
         /\ part = "alerts" => [Alerts!Next]_(Alerts!alertVars)
         /\ part = "order" => [Ordered!Next]_(Ordered!taskByMessageVars)
<1>1. CASE RequestMoves(Next)
  BY <1>1 DEF RequestMoves
<1>2. CASE LinkMoves(Connection!Next)
  BY <1>2 DEF LinkMoves
<1>3. CASE StartMoves(Start!Next)
  BY <1>3 DEF StartMoves
<1>7. CASE OrderMoves(Ordered!Next)
  BY <1>7 DEF OrderMoves
<1>6. CASE ImportMoves(Imports!Next)
  BY <1>6 DEF ImportMoves
<1>4. CASE AlertsMoves(Alerts!Next)
  BY <1>4 DEF AlertsMoves
<1>8. CASE DayMoves(Days!Next)
  BY <1>8 DEF DayMoves
<1>9. CASE RegistersMoves(Books!Next)
  BY <1>9 DEF RegistersMoves
<1>5. CASE UNCHANGED parts
  BY <1>5 DEF parts, startState, Start!onboardingVars, linkState, Connection!connectionVars, Connection!call,
              Connection!limits, dayState, Days!dayVars, registersState, Books!registerVars,
              alertsState, Alerts!alertVars, orderState, Ordered!taskByMessageVars, Ordered!talk, Ordered!firm
<1> QED
  BY <1>1, <1>2, <1>3, <1>4, <1>5, <1>6, <1>7, <1>8, <1>9 DEF PartsNext

LEMMA NextPartsIInv == PartsIInv /\ [PartsNext]_parts => PartsIInv'
<1> SUFFICES ASSUME PartsIInv, [PartsNext]_parts PROVE PartsIInv'
  OBVIOUS
<1>1. ASSUME part = "request" PROVE IInv' /\ AuditIInv'
  BY <1>1, PartsStep, NextIInv, NextAudit DEF PartsIInv
<1>2. ASSUME part = "link" PROVE LinkIInv'
  BY <1>2, PartsStep, LinkAssumption, LinkNextIInv DEF PartsIInv
<1>3. ASSUME part = "import" PROVE ImportIInv'
  BY <1>3, PartsStep, NextImport DEF PartsIInv
<1>4. ASSUME part = "start" PROVE Start!IInv'
  BY <1>4, PartsStep, StartAssumption, Start!NextIInv DEF PartsIInv
<1>5. ASSUME part = "day" PROVE DayIInv'
  BY <1>5, PartsStep, DaysAssumption, DayNext DEF PartsIInv
<1>6. ASSUME part = "registers" PROVE BookIInv'
  BY <1>6, PartsStep, BooksAssumption, BookNext DEF PartsIInv
<1>7. ASSUME part = "alerts" PROVE AlertIInv'
  BY <1>7, PartsStep, AlertsPartAssumption, AlertNextStep DEF PartsIInv
<1>8. ASSUME part = "order" PROVE OrderIInv'
  BY <1>8, PartsStep, OrderedAssumption, OrderNextStep DEF PartsIInv
<1> QED
  BY <1>1, <1>2, <1>3, <1>4, <1>5, <1>6, <1>7, <1>8, PartsStep DEF PartsIInv

LEMMA PartsSpecIInv == PartsSpec => []PartsIInv
  BY InitPartsIInv, NextPartsIInv, PTL DEF PartsSpec

(* RequestIsAudited, for every instance: a vendor is assigned only after the
   approval, whatever overlaps; without overlaps the audit trail tells the row
   (PurchaseRequestService). *)
THEOREM OfficeRequests == PartsSpec => []RequestIsAudited
<1>1. PartsIInv => RequestIsAudited
  BY IInvVendor DEF PartsIInv, RequestIsAudited, AuditIInv
<1> QED
  BY <1>1, PartsSpecIInv, PTL

(* ConnectedAsAsked, for every instance: a signed state pays for one exchange of
   a code, and what the owner did last to the connection stands unless a refresh
   was under way (ZohoOAuthStateService, ZohoConnectionService). *)
THEOREM OfficeConnection == PartsSpec => []ConnectedAsAsked
<1>1. PartsIInv => ConnectedAsAsked
  BY LinkIInvHolds DEF PartsIInv, ConnectedAsAsked
<1> QED
  BY <1>1, PartsSpecIInv, PTL

(* ImportedAsReviewed, for every instance: a row of a reviewed file enters the
   stock once, unless two CONFIRMs import the batch at the same time, and no row
   of an import that was cancelled before it ran ever does
   (InventoryBulkImportService, InventoryImportService). *)
THEOREM OfficeImports == PartsSpec => []ImportedAsReviewed
<1>1. PartsIInv => ImportedAsReviewed
  BY ImportHolds DEF PartsIInv, ImportedAsReviewed
<1> QED
  BY <1>1, PartsSpecIInv, PTL

(* SetupHolds, for every instance: a wizard past the registration has its owner's
   one company, complete; what its pages say is done stays done; and unless calls
   overlapped or were cut short, everybody the imports reported as added is
   welcomed once, due a welcome, or waived by the owner (OnboardingService, OnboardingSetupService). *)
THEOREM OfficeSetup == PartsSpec => []SetupHolds
<1>1. PartsIInv => SetupHolds
  BY StartAssumption, Start!IInvHolds DEF PartsIInv, SetupHolds
<1> QED
  BY <1>1, PartsSpecIInv, PTL

(* RegistersHold, for every instance: vendors and SKUs are told apart, whatever
   overlaps; other names may differ in case only, and an item may lie in a closed
   place, only where two calls overlapped (InventoryService, VendorService); and
   the day is told as it was as far as calls do not overlap (IssueService,
   AttendanceService, ReportService, UserService.remove). *)
THEOREM OfficeRegisters == PartsSpec => []RegistersHold
<1>1. PartsIInv => RegistersHold
  BY DayHolds, BookHolds DEF PartsIInv, RegistersHold
<1> QED
  BY <1>1, PartsSpecIInv, PTL

(* AlertsHold, for every instance: whom an alert is for was told or the failure is
   in the log once a handler returned, an order is begun for what its person was
   told of, and a number picks what the list shown says as long as it is the list
   of the day (InventoryLowStockHandler, InventoryLowStockAlertContextService). *)
THEOREM OfficeAlerts == PartsSpec => []AlertsHold
<1>1. PartsIInv => AlertsHold
  BY AlertHolds DEF PartsIInv, AlertsHold
<1> QED
  BY <1>1, PartsSpecIInv, PTL

(* MadeAsConfirmed, for every instance: a task given in plain words is for the
   worker, the item and the quantity that its sender named or took from the lists
   and saw before CONFIRM, whatever changed on the way; only a count may have named
   nobody, whose dash stands for the sender (TaskInventoryResolutionService). *)
THEOREM OfficeOrders == PartsSpec => []MadeAsConfirmed
<1>1. PartsIInv => MadeAsConfirmed
  BY OrderHolds DEF PartsIInv, MadeAsConfirmed
<1> QED
  BY <1>1, PartsSpecIInv, PTL

(* PartsTypeOK, for every instance: what the eight parts keep has the values their
   type invariants name. *)
THEOREM OfficeTypes == PartsSpec => []PartsTypeOK
<1>1. PartsIInv => PartsTypeOK
  BY AlertHolds, OrderHolds, DayHolds, BookHolds, ImportHolds,
     StartAssumption, Start!TypesHold DEF PartsIInv, PartsTypeOK, IInv, LinkIInv, LinkTypes
<1> QED
  BY <1>1, PartsSpecIInv, PTL
==============================================================================
