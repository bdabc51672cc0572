----------------------------- MODULE Tasks_proofs ----------------------------
(***************************************************************************)
(* Proofs about tasks, the team, the dialogues and the desk, for any       *)
(* people, departments and overlapping calls: a routed task remembers the  *)
(* owner it came from and waits with the head of its department; whoever   *)
(* heads, works or was added has their place; what a dialogue makes is     *)
(* made of the answers; plain words a rule understands are acted on as the *)
(* first of what they say; and every variable keeps its type.              *)
(***************************************************************************)
EXTENDS Tasks, Sequences, FiniteSetTheorems, WellFoundedInduction, TLAPS

(* A task that was ever routed names an owner of the factory. *)
Owned(r) == r.routing # "DIRECT" => r.owner # Nobody /\ Role[r.owner] = "OWNER"

RowOwned == IF exists THEN row \in Row /\ Owned(row) ELSE row = NoRow

(* Every copy a call holds has the owner the row has: no call changes it, so it
   cannot be stale, whatever else of the copy is. *)
CopiesOwned ==
    \A c \in Call : pc[c] # "idle" =>
        /\ exists /\ op[c] \in Operation /\ Permitted(op[c], snap[c])
        /\ snap[c] \in Row /\ Owned(snap[c]) /\ snap[c].owner = row.owner

PatchesOwned ==
    \A c \in Call : pc[c] = "decided" =>
        patch[c] \in Row /\ Owned(patch[c]) /\ patch[c].owner = row.owner

IInv == TypeOK /\ RowOwned /\ CopiesOwned /\ PatchesOwned

-----------------------------------------------------------------------------
LEMMA DepartmentType == \A p : DepartmentOf(p) \in Dept \union {NoDept}
<1> SUFFICES ASSUME NEW p, \E d \in Dept : head[d] = p
             PROVE  (CHOOSE d \in Dept : head[d] = p) \in Dept
  BY DEF DepartmentOf
<1> QED
  OBVIOUS

LEMMA ResolveType == \A by, to : ResolveDepartment(by, to) \in Dept \union {NoDept}
  BY DepartmentType DEF ResolveDepartment

LEMMA NewRowOwned ==
  ASSUME NEW by \in Person, NEW to \in Person, NEW dept \in Dept \union {NoDept}
  PROVE  NewRow(by, to, dept) \in Row /\ Owned(NewRow(by, to, dept))
<1>1. CASE IsRouted(by, to)
  BY <1>1, RoutingAssumption DEF NewRow, NoRow, Row, Routing, Owned, IsRouted
<1>2. CASE ~IsRouted(by, to)
  BY <1>2, RoutingAssumption DEF NewRow, NoRow, Row, Routing, Owned
<1> QED
  BY <1>1, <1>2

(* No operation makes a task forget its owner, or gives it another. *)
LEMMA PatchedOwned ==
  ASSUME NEW o \in Operation, NEW r \in Row, Owned(r), Permitted(o, r),
         head \in [Dept -> Person \ Workers]
  PROVE  Patched(o, r) \in Row /\ Owned(Patched(o, r)) /\ Patched(o, r).owner = r.owner
<1> USE RoutingAssumption
<1>1. CASE o.kind = "self"
  BY <1>1 DEF Operation, Managers, Row, Routing, Owned, Permitted, MayAnswer, Patched
<1>2. CASE o.kind = "delegate"
  <2>1. o.to \in Person /\ o.by \in Person
    BY <1>2 DEF Operation, Managers
  <2>2. DepartmentOf(o.by) \in Dept \union {NoDept}
    BY DepartmentType
  <2>3. r.routing = "AWAITING"
    BY <1>2 DEF Permitted, MayAnswer
  <2> QED
    BY <1>2, <2>1, <2>2, <2>3 DEF Row, Routing, Owned, Patched
<1>3. CASE o.kind = "transfer"
  <2>1. o.to \in Dept /\ head[o.to] \in Person
    BY <1>3 DEF Operation
  <2>2. r.routing # "DIRECT"
    BY <1>3 DEF Permitted, MayReroute
  <2>3. OwnerOf(r) = r.owner /\ r.owner \in Person
    BY <2>2 DEF Owned, OwnerOf, Row
  <2>4. Patched(o, r) = Transferred(r, o.to)
    BY <1>3 DEF Patched
  <2> QED
    BY <2>1, <2>2, <2>3, <2>4 DEF Row, Routing, Owned, Transferred
<1>4. CASE o.kind = "reject"
  <2>1. o.by \in Person
    BY <1>4 DEF Operation, Managers
  <2>2. r.routing # "DIRECT"
    BY <1>4 DEF Permitted, MayReroute
  <2> QED
    BY <1>4, <2>1, <2>2 DEF Row, Routing, Owned, Patched
<1>5. CASE o.kind = "complete"
  BY <1>5 DEF Row, Owned, Patched
<1>6. CASE o.kind = "admin"
  <2>1. o.to \in Person \union {Nobody} /\ Completed(o, r) \in BOOLEAN
    BY <1>6 DEF Operation, Completed, Row
  <2>2. ResolveDepartment(r.assigner, o.to) \in Dept \union {NoDept}
    BY ResolveType
  <2>3. Reassigns(o, r) => o.to \in Person
    BY <2>1 DEF Reassigns
  <2> QED
    BY <1>6, <2>1, <2>2, <2>3 DEF Row, Owned, Patched
<1> QED
  BY <1>1, <1>2, <1>3, <1>4, <1>5, <1>6 DEF Operation

(* A row put together from two rows of one owner is a row of that owner. *)
LEMMA WrittenOwned ==
  ASSUME NEW c \in Call, row \in Row, Owned(row),
         snap[c] \in Row, snap[c].owner = row.owner,
         patch[c] \in Row, Owned(patch[c]), patch[c].owner = row.owner,
         row' = [f \in DOMAIN row |-> IF patch[c][f] = snap[c][f] THEN row[f] ELSE patch[c][f]]
  PROVE  row' \in Row /\ Owned(row)' /\ row'.owner = row.owner
<1>1. DOMAIN row = {"assignee", "assigner", "owner", "routing", "dept", "completed", "rejectedBy"}
  BY DEF Row
<1>2. row' \in Row
  BY <1>1 DEF Row
<1>3. row'.owner = row.owner /\ row'.routing \in {row.routing, patch[c].routing}
  BY <1>1
<1> QED
  BY <1>2, <1>3 DEF Owned

-----------------------------------------------------------------------------
LEMMA InitIInv == Init => IInv
<1> SUFFICES ASSUME Init PROVE IInv
  OBVIOUS
<1>1. FirstHead \in [Dept -> Person \ Workers]
  BY RoutingAssumption DEF Workers
<1>2. TypeOK
  <2>1. exists \in BOOLEAN /\ overlapped \in BOOLEAN /\ row \in Row \union {NoRow}
    BY DEF Init
  <2>2. head \in [Dept -> Person \ Workers]
    BY <1>1 DEF Init
  <2>3. pc \in [Call -> {"idle", "read", "decided"}]
    BY DEF Init
  <2>4. op \in [Call -> Operation \union {NoOperation}]
    BY DEF Init
  <2>5. snap \in [Call -> Row \union {NoRow}] /\ patch \in [Call -> Row \union {NoRow}]
    BY DEF Init
  <2>6. calls \in 0..MaxCalls /\ handovers \in 0..MaxHandovers
    BY RoutingAssumption DEF Init
  <2> QED
    BY <2>1, <2>2, <2>3, <2>4, <2>5, <2>6 DEF TypeOK
<1>3. RowOwned /\ CopiesOwned /\ PatchesOwned
  BY DEF Init, RowOwned, CopiesOwned, PatchesOwned
<1> QED
  BY <1>2, <1>3 DEF IInv

(* A task comes into being, when no call can be under way for it. *)
LEMMA CreatedIInv ==
  ASSUME IInv, NEW r \in Row, Owned(r), Created(r)
  PROVE  IInv'
<1>1. TypeOK' /\ RowOwned'
  BY DEF IInv, Created, TypeOK, RowOwned, Owned, callVars
<1>2. \A c \in Call : pc'[c] = "idle"
  BY DEF IInv, Created, CopiesOwned, TypeOK, callVars
<1> QED
  BY <1>1, <1>2 DEF IInv, CopiesOwned, PatchesOwned

(* A call that ends keeps nothing; the others keep what they had. *)
LEMMA EndedCall ==
  ASSUME IInv, NEW c \in Call, End(c), row' \in Row, row'.owner = row.owner
  PROVE  /\ CopiesOwned' /\ PatchesOwned'
         /\ pc' \in [Call -> {"idle", "read", "decided"}]
         /\ op' \in [Call -> Operation \union {NoOperation}]
         /\ snap' \in [Call -> Row \union {NoRow}] /\ patch' \in [Call -> Row \union {NoRow}]
<1>1. /\ pc' \in [Call -> {"idle", "read", "decided"}]
      /\ op' \in [Call -> Operation \union {NoOperation}]
      /\ snap' \in [Call -> Row \union {NoRow}] /\ patch' \in [Call -> Row \union {NoRow}]
  BY DEF IInv, TypeOK, End
<1>2. /\ pc'[c] = "idle" /\ exists' = exists
      /\ \A d \in Call \ {c} :
            pc'[d] = pc[d] /\ op'[d] = op[d] /\ snap'[d] = snap[d] /\ patch'[d] = patch[d]
  BY DEF IInv, TypeOK, End
<1>3. CopiesOwned'
  BY <1>2 DEF IInv, CopiesOwned
<1>4. PatchesOwned'
  BY <1>2 DEF IInv, PatchesOwned, Owned
<1> QED
  BY <1>1, <1>3, <1>4

(* Every step keeps the inductive invariant, and the owner of the task. *)
LEMMA NextIInv == IInv /\ [Next]_vars => IInv' /\ (exists => row'.owner = row.owner)
<1> SUFFICES ASSUME IInv, [Next]_vars PROVE IInv' /\ (exists => row'.owner = row.owner)
  OBVIOUS
<1> USE RoutingAssumption
<1>1. CASE Create
  <2>1. PICK by \in Person, to \in Person : Created(NewRow(by, to, ResolveDepartment(by, to)))
    BY <1>1 DEF Create
  <2>2. ~exists
    BY <2>1 DEF Created
  <2> QED
    BY <2>1, <2>2, ResolveType, NewRowOwned, CreatedIInv
<1>2. CASE CreateForDepartment
  <2>1. PICK by \in Person \ Workers, d \in Dept : Created(NewRow(by, head[d], d))
    BY <1>2 DEF CreateForDepartment
  <2>2. ~exists /\ head[d] \in Person
    BY <2>1 DEF Created, IInv, TypeOK
  <2> QED
    BY <2>1, <2>2, NewRowOwned, CreatedIInv
<1>3. CASE CreateForAll
  <2>1. PICK by \in Person \ Workers, w \in Person :
            Created(NewRow(by, w, IF Role[by] = "MANAGER" THEN DepartmentOf(by) ELSE NoDept))
    BY <1>3 DEF CreateForAll, AssignableWorkers, Workers
  <2>2. ~exists /\ (IF Role[by] = "MANAGER" THEN DepartmentOf(by) ELSE NoDept) \in Dept \union {NoDept}
    BY <2>1, DepartmentType DEF Created
  <2> QED
    BY <2>1, <2>2, NewRowOwned, CreatedIInv
<1>4. ASSUME NEW c \in Call, NEW o \in Operation, Read(c, o)
      PROVE  IInv' /\ (exists => row'.owner = row.owner)
  <2>1. row \in Row /\ Owned(row) /\ row' = row /\ exists /\ exists'
    BY <1>4 DEF Read, IInv, RowOwned
  <2>2. TypeOK' /\ RowOwned'
    BY <1>4, <2>1 DEF Read, IInv, TypeOK, RowOwned, Owned
  <2>3. /\ pc'[c] = "read" /\ op'[c] = o /\ snap'[c] = row /\ Permitted(o, row)
        /\ \A d \in Call \ {c} : pc'[d] = pc[d] /\ op'[d] = op[d] /\ snap'[d] = snap[d]
        /\ patch' = patch
    BY <1>4 DEF Read, IInv, TypeOK
  <2>4. CopiesOwned'
    BY <2>1, <2>3 DEF IInv, CopiesOwned
  <2>5. PatchesOwned'
    BY <2>1, <2>3 DEF IInv, PatchesOwned, Owned
  <2> QED
    BY <2>1, <2>2, <2>4, <2>5 DEF IInv
<1>5. ASSUME NEW c \in Call, Decide(c)
      PROVE  IInv' /\ (exists => row'.owner = row.owner)
  <2>1. /\ op[c] \in Operation /\ Permitted(op[c], snap[c]) /\ exists
        /\ snap[c] \in Row /\ Owned(snap[c]) /\ snap[c].owner = row.owner
    BY <1>5 DEF Decide, IInv, CopiesOwned
  <2>2. /\ Patched(op[c], snap[c]) \in Row /\ Owned(Patched(op[c], snap[c]))
        /\ Patched(op[c], snap[c]).owner = row.owner
    BY <2>1, PatchedOwned DEF IInv, TypeOK
  <2>3. TypeOK' /\ RowOwned'
    BY <1>5, <2>2 DEF Decide, IInv, TypeOK, RowOwned, Owned
  <2>4. /\ pc'[c] = "decided" /\ patch'[c] = Patched(op[c], snap[c])
        /\ \A d \in Call \ {c} : pc'[d] = pc[d] /\ patch'[d] = patch[d]
        /\ op' = op /\ snap' = snap /\ row' = row /\ exists' = exists
    BY <1>5 DEF Decide, IInv, TypeOK
  <2>5. CopiesOwned'
    BY <2>1, <2>4 DEF IInv, CopiesOwned
  <2>6. PatchesOwned'
    BY <2>2, <2>4 DEF IInv, PatchesOwned, Owned
  <2> QED
    BY <2>3, <2>4, <2>5, <2>6 DEF IInv
<1>6. ASSUME NEW c \in Call, Update(c)
      PROVE  IInv' /\ (exists => row'.owner = row.owner)
  <2>1. /\ exists /\ row \in Row /\ Owned(row) /\ snap[c] \in Row /\ snap[c].owner = row.owner
        /\ patch[c] \in Row /\ Owned(patch[c]) /\ patch[c].owner = row.owner
    BY <1>6 DEF Update, IInv, CopiesOwned, PatchesOwned, RowOwned
  <2>2. row' \in Row /\ Owned(row)' /\ row'.owner = row.owner
    BY <1>6, <2>1, WrittenOwned DEF Update
  <2>3. End(c)
    BY <1>6 DEF Update
  <2>4. RowOwned'
    BY <2>1, <2>2, <2>3 DEF RowOwned, End
  <2>5. TypeOK'
    BY <2>2, <2>3, EndedCall DEF IInv, TypeOK, End
  <2> QED
    BY <2>2, <2>3, <2>4, <2>5, EndedCall DEF IInv
<1>7. ASSUME NEW c \in Call, Fail(c)
      PROVE  IInv' /\ (exists => row'.owner = row.owner)
  <2>1. exists /\ row \in Row /\ row' = row /\ End(c)
    BY <1>7 DEF Fail, IInv, CopiesOwned, RowOwned
  <2>2. RowOwned'
    BY <2>1 DEF IInv, RowOwned, Owned, End
  <2>3. TypeOK'
    BY <2>1, EndedCall DEF IInv, TypeOK, End
  <2> QED
    BY <2>1, <2>2, <2>3, EndedCall DEF IInv
<1>8. ASSUME NEW d \in Dept, ChangeHead(d)
      PROVE  IInv' /\ (exists => row'.owner = row.owner)
  <2>1. TypeOK'
    BY <1>8 DEF ChangeHead, IInv, TypeOK, callVars
  <2>2. RowOwned' /\ CopiesOwned' /\ PatchesOwned' /\ row' = row
    BY <1>8 DEF ChangeHead, IInv, RowOwned, CopiesOwned, PatchesOwned, Owned, callVars,
                Permitted, MayAnswer, MayReroute, Reassigns
  <2> QED
    BY <2>1, <2>2 DEF IInv
<1>9. CASE UNCHANGED vars
  <2>1. UNCHANGED <<exists, row, head, pc, op, snap, patch, calls, handovers, overlapped>>
    BY <1>9 DEF vars, callVars
  <2>2. TypeOK'
    BY <2>1 DEF IInv, TypeOK
  <2>3. RowOwned' /\ CopiesOwned'
    BY <2>1 DEF IInv, RowOwned, CopiesOwned, Owned, Permitted, MayAnswer, MayReroute, Reassigns
  <2>4. PatchesOwned'
    BY <2>1 DEF IInv, PatchesOwned, Owned
  <2> QED
    BY <2>1, <2>2, <2>3, <2>4 DEF IInv
<1>10. \/ Create \/ CreateForDepartment \/ CreateForAll
       \/ \E c \in Call, o \in Operation : Read(c, o)
       \/ \E c \in Call : Decide(c) \/ Update(c) \/ Fail(c)
       \/ \E d \in Dept : ChangeHead(d)
       \/ UNCHANGED vars
  BY DEF Next
<1> QED
  BY <1>1, <1>2, <1>3, <1>4, <1>5, <1>6, <1>7, <1>8, <1>9, <1>10

-----------------------------------------------------------------------------
(* Calls that do not overlap and departments that keep their heads: then every
   row is as its departments want it.  The heads are a parameter, so that a
   step that leaves them alone visibly leaves this alone. *)
HeadOf(h, p) ==
    IF \E d \in Dept : h[d] = p THEN CHOOSE d \in Dept : h[d] = p ELSE NoDept

InOrder(h, r) ==
    /\ r.routing = "AWAITING" /\ r.dept # NoDept => r.assignee = h[r.dept]
    /\ Role[r.assigner] = "MANAGER" /\ Role[r.assignee] = "WORKER" =>
          HeadOf(h, r.assigner) = NoDept \/ WorksIn[r.assignee] \in {HeadOf(h, r.assigner), NoDept}

(* What waits for an answer is not with a worker, who cannot give one. *)
Waits(r) == r.routing = "AWAITING" => Role[r.assignee] # "WORKER"

(* A call that is alone still has the row that it read. *)
OneAtATime ==
    ~overlapped =>
        \A c \in Call : pc[c] # "idle" =>
            /\ snap[c] = row
            /\ \A d \in Call : pc[d] # "idle" => c = d

RowInOrder == exists /\ ~overlapped => Waits(row) /\ (handovers = 0 => InOrder(head, row))

PatchesInOrder ==
    ~overlapped =>
        \A c \in Call : pc[c] = "decided" =>
            Waits(patch[c]) /\ (handovers = 0 => InOrder(head, patch[c]))

Orderly == OneAtATime /\ RowInOrder /\ PatchesInOrder

LEMMA DepartmentOfHead == \A p : DepartmentOf(p) = HeadOf(head, p)
  BY DEF DepartmentOf, HeadOf

(* Whom a manager may give a task, in terms of the heads. *)
LEMMA AssignedInOrder ==
  ASSUME NEW by \in Person, NEW to \in Person
  PROVE  MayAssign(by, to) <=>
           (Role[by] = "MANAGER" /\ Role[to] = "WORKER" =>
              HeadOf(head, by) = NoDept \/ WorksIn[to] \in {HeadOf(head, by), NoDept})
  BY DepartmentOfHead DEF MayAssign, AssignableWorkers, Workers

LEMMA NewInOrder ==
  ASSUME NEW by \in Person, NEW to \in Person, NEW dept \in Dept \union {NoDept},
         MayAssign(by, to), IsRouted(by, to) /\ dept # NoDept => to = head[dept]
  PROVE  InOrder(head, NewRow(by, to, dept)) /\ Waits(NewRow(by, to, dept))
<1> DEFINE r == NewRow(by, to, dept)
<1>1. /\ r.assigner = by /\ r.assignee = to /\ r.dept = dept
      /\ r.routing = "AWAITING" => IsRouted(by, to)
  BY DEF NewRow, NoRow
<1> QED
  BY <1>1, AssignedInOrder DEF InOrder, Waits, IsRouted

(* The department of a manager is one the manager heads. *)
LEMMA HeadHeads == \A p : DepartmentOf(p) # NoDept => head[DepartmentOf(p)] = p
<1> SUFFICES ASSUME NEW p, \E d \in Dept : head[d] = p
             PROVE  head[CHOOSE d \in Dept : head[d] = p] = p
  BY DEF DepartmentOf
<1> QED
  OBVIOUS

LEMMA PatchedInOrder ==
  ASSUME NEW o \in Operation, NEW r \in Row, Owned(r), InOrder(head, r),
         Permitted(o, r), Granted(o, r), head \in [Dept -> Person \ Workers]
  PROVE  InOrder(head, Patched(o, r))
<1> USE RoutingAssumption
<1>1. CASE o.kind \in {"self", "reject", "complete"}
  <2>1. \/ Patched(o, r) = [r EXCEPT !.routing = "MANAGER_SELF"]
        \/ Patched(o, r) = [r EXCEPT !.completed = TRUE]
        \/ Patched(o, r) = [r EXCEPT !.routing = "REJECTED", !.rejectedBy = o.by]
    BY <1>1 DEF Patched
  <2>2. /\ Patched(o, r).assignee = r.assignee /\ Patched(o, r).assigner = r.assigner
        /\ Patched(o, r).dept = r.dept
        /\ Patched(o, r).routing \in {r.routing, "MANAGER_SELF", "REJECTED"}
    <3> DEFINE p == Patched(o, r)
    <3>1. CASE p = [r EXCEPT !.routing = "MANAGER_SELF"]
      BY <3>1 DEF Row
    <3>2. CASE p = [r EXCEPT !.completed = TRUE]
      BY <3>2 DEF Row
    <3>3. CASE p = [r EXCEPT !.routing = "REJECTED", !.rejectedBy = o.by]
      BY <3>3 DEF Row
    <3> QED
      BY <2>1, <3>1, <3>2, <3>3
  <2> QED
    BY <2>2 DEF InOrder
<1>2. CASE o.kind = "delegate"
  <2>1. o.to \in Person /\ o.by \in Person
    BY <1>2 DEF Operation, Managers
  <2>2. MayAssign(o.by, o.to)
    BY <1>2 DEF Granted
  <2>3. /\ Patched(o, r).assigner = o.by /\ Patched(o, r).assignee = o.to
        /\ Patched(o, r).routing = "DELEGATED"
    BY <1>2 DEF Patched, Row
  <2> QED
    BY <2>1, <2>2, <2>3, AssignedInOrder DEF InOrder
<1>3. CASE o.kind = "transfer"
  <2>1. o.to \in Dept /\ head[o.to] \in Person
    BY <1>3 DEF Operation
  <2>2. r.routing # "DIRECT"
    BY <1>3 DEF Permitted, MayReroute
  <2>3. OwnerOf(r) = r.owner /\ Role[r.owner] = "OWNER"
    BY <2>2 DEF Owned, OwnerOf, Row
  <2>4. /\ Patched(o, r).assigner = r.owner /\ Patched(o, r).assignee = head[o.to]
        /\ Patched(o, r).dept = o.to
    BY <1>3, <2>3 DEF Patched, Transferred, Row
  <2> QED
    BY <2>3, <2>4 DEF InOrder
<1>4. CASE o.kind = "admin"
  <2> DEFINE q == Patched(o, r)
  <2>1. q.assigner = r.assigner /\ q.routing = r.routing /\ r.assigner \in Person
    BY <1>4 DEF Patched, Row
  <2>2. CASE Reassigns(o, r)
    <3>1. o.to \in Person
      BY <1>4, <2>2 DEF Operation, Reassigns
    <3>2. r.routing # "AWAITING" /\ MayAssign(r.assigner, o.to)
      BY <1>4, <2>2 DEF Permitted, Granted
    <3>3. q.assignee = o.to
      BY <1>4, <2>2 DEF Patched, Row
    <3> QED
      BY <2>1, <3>1, <3>2, <3>3, AssignedInOrder DEF InOrder
  <2>3. CASE ~Reassigns(o, r)
    <3>1. q.assignee = r.assignee /\ q.dept = r.dept
      BY <1>4, <2>3 DEF Patched, Row
    <3> QED
      BY <2>1, <3>1 DEF InOrder
  <2> QED
    BY <2>2, <2>3
<1> QED
  BY <1>1, <1>2, <1>3, <1>4 DEF Operation

(* What waits after an operation waited before, or goes to the head of a
   department. *)
LEMMA PatchedWaits ==
  ASSUME NEW o \in Operation, NEW r \in Row, Waits(r), Permitted(o, r),
         head \in [Dept -> Person \ Workers]
  PROVE  Waits(Patched(o, r))
<1> DEFINE q == Patched(o, r)
<1>1. CASE o.kind \in {"self", "delegate", "reject"}
  BY <1>1 DEF Patched, Row, Waits
<1>2. CASE o.kind = "complete"
  BY <1>2 DEF Patched, Row, Waits
<1>3. CASE o.kind = "transfer"
  <2>1. o.to \in Dept /\ q.assignee = head[o.to]
    BY <1>3 DEF Operation, Patched, Transferred, Row
  <2> QED
    BY <2>1 DEF Waits, Workers
<1>4. CASE o.kind = "admin"
  <2>1. q.routing = r.routing /\ (~Reassigns(o, r) => q.assignee = r.assignee)
    BY <1>4 DEF Patched, Row
  <2>2. Reassigns(o, r) => r.routing # "AWAITING"
    BY <1>4 DEF Permitted
  <2> QED
    BY <2>1, <2>2 DEF Waits
<1> QED
  BY <1>1, <1>2, <1>3, <1>4 DEF Operation

(* A row that was read and not written since becomes what the call wants. *)
LEMMA WrittenWhole ==
  ASSUME NEW c \in Call, row \in Row, snap[c] = row, patch[c] \in Row,
         row' = [f \in DOMAIN row |-> IF patch[c][f] = snap[c][f] THEN row[f] ELSE patch[c][f]]
  PROVE  row' = patch[c]
  BY DEF Row

(* A task that comes into being is in order, if it began in order. *)
LEMMA CreatedOrderly ==
  ASSUME IInv, Orderly, NEW r, Created(r), InOrder(head, r), Waits(r)
  PROVE  Orderly'
<1>1. \A c \in Call : pc'[c] = "idle"
  BY DEF IInv, Created, CopiesOwned, TypeOK, callVars
<1>2. row' = r /\ head' = head
  BY DEF Created
<1> QED
  BY <1>1, <1>2 DEF Orderly, OneAtATime, RowInOrder, PatchesInOrder

LEMMA NextOrderly == IInv /\ Orderly /\ [Next]_vars => Orderly'
<1> SUFFICES ASSUME IInv, Orderly, [Next]_vars PROVE Orderly'
  OBVIOUS
<1> USE RoutingAssumption
<1>1. CASE Create
  <2>1. PICK by \in Person, to \in Person :
            MayAssign(by, to) /\ Created(NewRow(by, to, ResolveDepartment(by, to)))
    BY <1>1 DEF Create
  <2>2. IsRouted(by, to) /\ ResolveDepartment(by, to) # NoDept => to = head[ResolveDepartment(by, to)]
    BY HeadHeads DEF IsRouted, ResolveDepartment
  <2>3. /\ InOrder(head, NewRow(by, to, ResolveDepartment(by, to)))
        /\ Waits(NewRow(by, to, ResolveDepartment(by, to)))
    BY <2>1, <2>2, NewInOrder, ResolveType
  <2> QED
    BY <2>1, <2>3, CreatedOrderly
<1>2. CASE CreateForDepartment
  <2>1. PICK by \in Person \ Workers, d \in Dept : Created(NewRow(by, head[d], d))
    BY <1>2 DEF CreateForDepartment
  <2>2. head[d] \in Person /\ Role[head[d]] # "WORKER"
    BY <2>1 DEF IInv, TypeOK, Workers
  <2>3. MayAssign(by, head[d])
    BY <2>2 DEF MayAssign
  <2>4. InOrder(head, NewRow(by, head[d], d)) /\ Waits(NewRow(by, head[d], d))
    BY <2>1, <2>2, <2>3, NewInOrder
  <2> QED
    BY <2>1, <2>4, CreatedOrderly
<1>3. CASE CreateForAll
  <2> DEFINE dept(by) == IF Role[by] = "MANAGER" THEN DepartmentOf(by) ELSE NoDept
  <2>1. PICK by \in Person \ Workers :
            \E w \in IF Role[by] = "MANAGER" THEN AssignableWorkers(by) ELSE Workers :
                Created(NewRow(by, w, dept(by)))
    BY <1>3 DEF CreateForAll
  <2>2. PICK w \in IF Role[by] = "MANAGER" THEN AssignableWorkers(by) ELSE Workers :
            Created(NewRow(by, w, dept(by)))
    BY <2>1
  <2>3. w \in Workers /\ MayAssign(by, w)
    BY <2>2 DEF AssignableWorkers, MayAssign
  <2>4. ~IsRouted(by, w) /\ dept(by) \in Dept \union {NoDept}
    BY <2>3, DepartmentType DEF IsRouted, Workers
  <2>5. InOrder(head, NewRow(by, w, dept(by))) /\ Waits(NewRow(by, w, dept(by)))
    BY <2>1, <2>3, <2>4, NewInOrder DEF Workers
  <2> QED
    BY <2>2, <2>5, CreatedOrderly
<1>4. ASSUME NEW c \in Call, NEW o \in Operation, Read(c, o)
      PROVE  Orderly'
  <2>1. /\ pc'[c] = "read" /\ snap'[c] = row
        /\ \A d \in Call \ {c} : pc'[d] = pc[d] /\ snap'[d] = snap[d]
        /\ patch' = patch /\ row' = row /\ head' = head /\ exists' = exists /\ handovers' = handovers
        /\ overlapped' = (overlapped \/ \E d \in Call \ {c} : pc[d] # "idle")
    BY <1>4 DEF Read, IInv, TypeOK
  <2>2. OneAtATime'
    BY <2>1 DEF Orderly, OneAtATime
  <2>3. RowInOrder' /\ PatchesInOrder'
    BY <2>1 DEF Orderly, RowInOrder, PatchesInOrder
  <2> QED
    BY <2>2, <2>3 DEF Orderly
<1>5. ASSUME NEW c \in Call, Decide(c)
      PROVE  Orderly'
  <2>1. /\ op[c] \in Operation /\ Permitted(op[c], snap[c]) /\ Granted(op[c], snap[c])
        /\ snap[c] \in Row /\ Owned(snap[c]) /\ exists
        /\ head \in [Dept -> Person \ Workers]
        /\ pc[c] = "read"
    BY <1>5 DEF Decide, IInv, CopiesOwned, TypeOK
  <2>2. /\ pc'[c] = "decided" /\ patch'[c] = Patched(op[c], snap[c])
        /\ \A d \in Call \ {c} : pc'[d] = pc[d] /\ patch'[d] = patch[d]
        /\ snap' = snap /\ row' = row /\ head' = head /\ exists' = exists /\ handovers' = handovers
        /\ overlapped' = overlapped
    BY <1>5 DEF Decide, IInv, TypeOK
  <2>3. ~overlapped => /\ Waits(Patched(op[c], snap[c]))
                       /\ handovers = 0 => InOrder(head, Patched(op[c], snap[c]))
    <3>1. ~overlapped => Waits(snap[c]) /\ (handovers = 0 => InOrder(head, snap[c]))
      BY <2>1 DEF Orderly, OneAtATime, RowInOrder
    <3> QED
      BY <2>1, <3>1, PatchedInOrder, PatchedWaits
  <2>4. OneAtATime'
    BY <2>1, <2>2 DEF Orderly, OneAtATime
  <2>5. RowInOrder' /\ PatchesInOrder'
    BY <2>2, <2>3 DEF Orderly, RowInOrder, PatchesInOrder
  <2> QED
    BY <2>4, <2>5 DEF Orderly
<1>6. ASSUME NEW c \in Call, Update(c)
      PROVE  Orderly'
  <2>1. /\ exists /\ row \in Row /\ patch[c] \in Row /\ pc[c] = "decided"
    BY <1>6 DEF Update, IInv, CopiesOwned, PatchesOwned, RowOwned
  <2>2. /\ pc'[c] = "idle" /\ head' = head /\ handovers' = handovers /\ overlapped' = overlapped
        /\ \A d \in Call \ {c} : pc'[d] = pc[d]
    BY <1>6 DEF Update, End, IInv, TypeOK
  <2>3. ~overlapped => row' = patch[c] /\ \A d \in Call : pc'[d] = "idle"
    <3>1. ~overlapped => snap[c] = row /\ \A d \in Call \ {c} : pc[d] = "idle"
      BY <2>1 DEF Orderly, OneAtATime
    <3> QED
      BY <1>6, <2>1, <2>2, <3>1, WrittenWhole DEF Update
  <2>4. ~overlapped => Waits(patch[c]) /\ (handovers = 0 => InOrder(head, patch[c]))
    BY <2>1 DEF Orderly, PatchesInOrder
  <2> QED
    BY <2>2, <2>3, <2>4 DEF Orderly, OneAtATime, RowInOrder, PatchesInOrder
<1>7. ASSUME NEW c \in Call, Fail(c)
      PROVE  Orderly'
  <2>1. /\ pc'[c] = "idle" /\ row' = row /\ head' = head /\ exists' = exists
        /\ handovers' = handovers /\ overlapped' = overlapped
        /\ \A d \in Call \ {c} : pc'[d] = pc[d] /\ snap'[d] = snap[d] /\ patch'[d] = patch[d]
    BY <1>7 DEF Fail, End, IInv, TypeOK
  <2>2. OneAtATime'
    BY <2>1 DEF Orderly, OneAtATime
  <2>3. RowInOrder' /\ PatchesInOrder'
    BY <2>1 DEF Orderly, RowInOrder, PatchesInOrder
  <2> QED
    BY <2>2, <2>3 DEF Orderly
<1>8. ASSUME NEW d \in Dept, ChangeHead(d)
      PROVE  Orderly'
  <2>1. /\ handovers' # 0 /\ pc' = pc /\ snap' = snap /\ patch' = patch /\ row' = row
        /\ exists' = exists /\ overlapped' = overlapped
    BY <1>8 DEF ChangeHead, callVars, IInv, TypeOK
  <2> QED
    BY <2>1 DEF Orderly, OneAtATime, RowInOrder, PatchesInOrder
<1>9. CASE UNCHANGED vars
  BY <1>9 DEF vars, callVars, Orderly, OneAtATime, RowInOrder, PatchesInOrder
<1>10. \/ Create \/ CreateForDepartment \/ CreateForAll
       \/ \E c \in Call, o \in Operation : Read(c, o)
       \/ \E c \in Call : Decide(c) \/ Update(c) \/ Fail(c)
       \/ \E d \in Dept : ChangeHead(d)
       \/ UNCHANGED vars
  BY DEF Next
<1> QED
  BY <1>1, <1>2, <1>3, <1>4, <1>5, <1>6, <1>7, <1>8, <1>9, <1>10

LEMMA InitOrderly == Init => Orderly
  BY DEF Init, Orderly, OneAtATime, RowInOrder, PatchesInOrder

-----------------------------------------------------------------------------
LEMMA SpecIInv == Spec => []IInv
  BY InitIInv, NextIInv, PTL DEF Spec

LEMMA SpecOrderly == Spec => []Orderly
  BY SpecIInv, InitOrderly, NextOrderly, PTL DEF Spec

(* The task, the heads of departments and every copy a call holds have their
   types; in particular a department is never headed by a worker. *)
THEOREM RoutingTypes == Spec => []TypeOK
  BY SpecIInv, PTL DEF IInv

(* A routed task names an owner of the factory and never changes owner,
   whatever calls overlap and whoever heads the departments. *)
THEOREM RoutingOwner == Spec => RoutedTaskHasItsOwner
<1> DEFINE Kept ==
      exists' =>
        /\ row'.routing # "DIRECT" => row'.owner # Nobody /\ Role[row'.owner] = "OWNER"
        /\ exists => row'.owner = row.owner
<1>1. IInv /\ [Next]_vars => [Kept]_vars
  BY NextIInv DEF IInv, RowOwned, Owned
<1> QED
  BY <1>1, SpecIInv, PTL DEF Spec, RoutedTaskHasItsOwner

(* A waiting task is with the head of its department. *)
LEMMA WaitsWithHead == IInv /\ Orderly => AwaitingIsWithTheHead
<1> SUFFICES ASSUME IInv, Orderly, ~overlapped, handovers = 0, row.routing = "AWAITING", row.dept # NoDept
             PROVE  row.assignee = head[row.dept]
  BY DEF AwaitingIsWithTheHead
<1>1. exists
  BY DEF IInv, RowOwned, NoRow
<1> QED
  BY <1>1 DEF Orderly, RowInOrder, InOrder

(* A manager's task is done by a worker the manager may give it to. *)
LEMMA UsesOwnWorkers == IInv /\ Orderly => ManagersUseOwnWorkers
<1> SUFFICES ASSUME IInv, Orderly, exists, ~overlapped, handovers = 0
             PROVE  MayAssign(row.assigner, row.assignee)
  BY DEF ManagersUseOwnWorkers
<1>1. row.assigner \in Person /\ row.assignee \in Person
  BY DEF IInv, RowOwned, Row
<1> QED
  BY <1>1, AssignedInOrder DEF Orderly, RowInOrder, InOrder

(* The lists: what a worker is shown waits for nobody's answer. *)
LEMMA ListsTell == IInv /\ Orderly => ListsTellWhatMayBeDone
<1> SUFFICES ASSUME IInv, Orderly, exists, NEW p \in Person
             PROVE  /\ MayAnswer(p, row) => Listed(p, row)
                    /\ ~row.completed /\ row.routing # "REJECTED" /\ MayComplete(p, row) => Listed(p, row)
                    /\ ~overlapped /\ Role[p] = "WORKER" /\ Listed(p, row) => MayComplete(p, row)
  BY DEF ListsTellWhatMayBeDone
<1>1. Role[p] \in {"OWNER", "MANAGER", "WORKER"}
  BY RoutingAssumption
<1>2. ~overlapped => Waits(row)
  BY DEF Orderly, RowInOrder
<1>3. MayAnswer(p, row) => Listed(p, row)
  BY <1>1 DEF MayAnswer, Listed
<1>4. ~row.completed /\ row.routing # "REJECTED" /\ MayComplete(p, row) => Listed(p, row)
  BY <1>1 DEF MayComplete, ManagerMayComplete, Listed
<1>5. ~overlapped /\ Role[p] = "WORKER" /\ Listed(p, row) => MayComplete(p, row)
  BY <1>2 DEF Listed, Waits, MayComplete
<1> QED
  BY <1>3, <1>4, <1>5

(* A waiting task is with the head of its department, as long as calls do not
   overlap and departments keep their heads (buildRoutingForNewTask,
   transferTaskToDepartment, adminUpdate). *)
THEOREM RoutingHead == Spec => []AwaitingIsWithTheHead
  BY WaitsWithHead, SpecIInv, SpecOrderly, PTL

(* A manager's task is done by a worker the manager may give it to, under the
   same conditions (assertManagerMayAssignToUser on every path that assigns). *)
THEOREM RoutingWorkers == Spec => []ManagersUseOwnWorkers
  BY UsesOwnWorkers, SpecIInv, SpecOrderly, PTL

-----------------------------------------------------------------------------
(* The people of the factory (Team). *)
LEMMA TeamSizes == \A S : Staff!Cardinality(S) = Cardinality(S)
<1>1. ASSUME NEW S PROVE Staff!Cardinality(S) = Cardinality(S)
  BY DEF Staff!Cardinality, Cardinality
<1> QED
  BY <1>1

AnyRole == {"OWNER", "MANAGER", "WORKER", "none"}
StaffStep ==
    {"idle", "create", "head", "worker", "dropWorkers", "dropRow", "newDepartment", "join", "toHead", "toWorker"}
RowOrCall == BOOLEAN
Doing ==
    [at : StaffStep, row : RowOrCall, who : Account \union {Nobody},
     dept : Department \union {NoDept}, role : AnyRole]

StaffTypes ==
    /\ account \in SUBSET Account
    /\ role \in [Account -> AnyRole]
    /\ teamHead \in [Department -> Account \union {Nobody}]
    /\ place \in [Account -> Department \union {NoDept}]
    /\ taskOf \in [Job -> Department \union {NoDept}]
    /\ doing \in [Call -> Doing]
    /\ outcome \in [Account -> {"none", "added", "skipped", "failed"}]
    /\ asked \in [Account -> {"none", "MANAGER", "WORKER"}]
    /\ moved \in SUBSET Account
    /\ stale \in BOOLEAN /\ teamCalls \in 0..MaxTeamCalls

(* A call names what its step is about. *)
StaffCallOK(c) ==
    /\ doing[c].at \in {"create", "head", "worker", "newDepartment", "join", "toHead", "toWorker"} =>
        doing[c].who \in Account
    /\ doing[c].at # "idle" => doing[c].dept \in Department
    /\ doing[c].at \in {"newDepartment", "join"} => doing[c].role \in {"MANAGER", "WORKER"}

(* Who heads departments, unless somebody edited the membership. *)
HeadOK(p) ==
    /\ \A d \in Department : teamHead[d] = p => role[p] \in {"OWNER", "MANAGER"}
    /\ role[p] = "MANAGER" => \A d, e \in Department : teamHead[d] = p /\ teamHead[e] = p => d = e

PlacesOK ==
    /\ \A p \in Account : place[p] # NoDept => teamHead[place[p]] # Nobody
    /\ \A t \in Job : taskOf[t] # NoDept => teamHead[taskOf[t]] # Nobody

(* What was removed already of the department a call removes. *)
EmptiedBy(c) ==
    /\ doing[c].at \in {"dropWorkers", "dropRow"} => \A t \in Job : taskOf[t] # doing[c].dept
    /\ doing[c].at = "dropRow" => \A p \in Account : place[p] # doing[c].dept

AddedOK(p) ==
    outcome[p] = "added" =>
        /\ role[p] # "none"
        /\ role[p] = "WORKER" => place[p] # NoDept
        /\ role[p] = "MANAGER" => \E d \in Department : teamHead[d] = p

StaffSettled ==
    /\ \A p \in Account \ moved : HeadOK(p)
    /\ PlacesOK
    /\ \A c \in Call : EmptiedBy(c)
    /\ \A p \in Account : AddedOK(p)

StaffIInv ==
    /\ StaffTypes
    /\ \A p \in Account : role[p] # "none" => p \in account
    /\ \A c \in Call : StaffCallOK(c)
    /\ ~stale => StaffSettled

LEMMA StaffConstants ==
  /\ Owner \in Account /\ Nobody \notin Account /\ NoDept \notin Department /\ MaxTeamCalls \in Nat
  /\ Stranger \subseteq Account
  BY StaffAssumption DEF Staff!TeamAssumption

LEMMA StaffHolds ==
  ASSUME StaffIInv
  PROVE  Staff!TypeOK /\ Staff!HeadsCanHead /\ Staff!NothingInRemovedDepartment /\ Staff!AddedHasAPost
<1>1. Staff!TypeOK
  BY DEF StaffIInv, StaffTypes, Doing, AnyRole, StaffStep, RowOrCall, Staff!TypeOK, Staff!MemberRole
<1>2. Staff!HeadsCanHead
  <2> SUFFICES ASSUME ~stale, NEW p \in Account \ moved
               PROVE  /\ Staff!Headed(p) # {} => role[p] \in Staff!MayHead
                      /\ role[p] = "MANAGER" => Cardinality(Staff!Headed(p)) <= 1
    BY TeamSizes DEF Staff!HeadsCanHead
  <2>1. HeadOK(p)
    BY DEF StaffIInv, StaffSettled
  <2>2. Staff!Headed(p) # {} => role[p] \in Staff!MayHead
    BY <2>1 DEF HeadOK, Staff!Headed, Staff!MayHead
  <2>3. ASSUME role[p] = "MANAGER" PROVE Cardinality(Staff!Headed(p)) <= 1
    <3>1. CASE Staff!Headed(p) = {}
      BY <3>1, FS_EmptySet
    <3>2. ASSUME NEW d \in Staff!Headed(p) PROVE Cardinality(Staff!Headed(p)) <= 1
      <4>1. Staff!Headed(p) = {d}
        BY <2>1, <2>3, <3>2 DEF HeadOK, Staff!Headed
      <4> QED
        BY <4>1, FS_Singleton
    <3> QED
      BY <3>1, <3>2
  <2> QED
    BY <2>2, <2>3
<1>3. Staff!NothingInRemovedDepartment
  BY DEF StaffIInv, StaffSettled, PlacesOK, Staff!NothingInRemovedDepartment, Staff!Exists
<1>4. Staff!AddedHasAPost
  <2> SUFFICES ASSUME ~stale, NEW p \in Account, outcome[p] = "added"
               PROVE  /\ p \in account /\ role[p] # "none"
                      /\ role[p] = "WORKER" => place[p] # NoDept
                      /\ role[p] = "MANAGER" => Staff!Headed(p) # {}
    BY DEF Staff!AddedHasAPost
  <2>1. AddedOK(p)
    BY DEF StaffIInv, StaffSettled
  <2> QED
    BY <2>1 DEF StaffIInv, AddedOK, Staff!Headed
<1> QED
  BY <1>1, <1>2, <1>3, <1>4

LEMMA InitStaff == Staff!Init => StaffIInv
<1> SUFFICES ASSUME Staff!Init PROVE StaffIInv
  OBVIOUS
<1>1. StaffTypes
  <2>1. doing \in [Call -> Doing]
    BY DEF Staff!Init, Staff!Idle, Doing, AnyRole, StaffStep, RowOrCall
  <2>2. teamHead \in [Department -> Account \union {Nobody}]
    BY StaffConstants DEF Staff!Init
  <2>3. role \in [Account -> AnyRole] /\ account \in SUBSET Account
    BY DEF Staff!Init, AnyRole
  <2>4. /\ place \in [Account -> Department \union {NoDept}] /\ taskOf \in [Job -> Department \union {NoDept}]
        /\ outcome \in [Account -> {"none", "added", "skipped", "failed"}]
        /\ asked \in [Account -> {"none", "MANAGER", "WORKER"}]
    BY DEF Staff!Init
  <2>5. moved = {} /\ stale = FALSE /\ teamCalls = 0
    BY DEF Staff!Init
  <2>6. stale \in BOOLEAN
    BY <2>5, Zenon
  <2>7. moved \in SUBSET Account
    BY <2>5
  <2>8. teamCalls \in 0..MaxTeamCalls
    BY <2>5, StaffConstants
  <2> QED
    BY <2>1, <2>2, <2>3, <2>4, <2>6, <2>7, <2>8 DEF StaffTypes
<1>2. \A c \in Call : doing[c].at = "idle"
  BY DEF Staff!Init, Staff!Idle
<1>3. \A p \in Account : (role[p] # "none" => p = Owner) /\ (p = Owner => role[p] = "OWNER")
        /\ outcome[p] = "none"
  BY DEF Staff!Init
<1>4. (\A p \in Account : role[p] # "none" => p \in account) /\ \A c \in Call : StaffCallOK(c)
  BY <1>2, <1>3 DEF Staff!Init, StaffCallOK
<1>5. ASSUME NEW p \in Account PROVE HeadOK(p)
  <2>1. \A d \in Department : teamHead[d] = p => p = Owner
    BY StaffConstants DEF Staff!Init
  <2> QED
    BY <1>3, <2>1 DEF HeadOK
<1>6. PlacesOK
  BY DEF Staff!Init, PlacesOK
<1>7. StaffSettled
  BY <1>2, <1>3, <1>5, <1>6 DEF StaffSettled, EmptiedBy, AddedOK
<1> QED
  BY <1>1, <1>4, <1>7 DEF StaffIInv

-----------------------------------------------------------------------------
(* The other calls stay where they are. *)
OthersStay(c) == \A d \in Call \ {c} : doing'[d] = doing[d]

LEMMA IdleDoing == Staff!Idle \in Doing /\ Staff!Idle.at = "idle" /\ Staff!Idle.row = FALSE
  BY DEF Staff!Idle, Doing, StaffStep, AnyRole, RowOrCall

(* A call begins. *)
LEMMA BeginsIs ==
  ASSUME StaffIInv, NEW c \in Call, NEW f \in Doing, Staff!Begin(c, f)
  PROVE  /\ doing' \in [Call -> Doing] /\ doing'[c] = f /\ OthersStay(c)
         /\ doing[c] = Staff!Idle /\ teamCalls' \in 0..MaxTeamCalls
  BY StaffConstants DEF Staff!Begin, Staff!Arrives, StaffIInv, StaffTypes, OthersStay

LEMMA ArrivesIs ==
  ASSUME StaffIInv, Staff!Arrives
  PROVE  teamCalls' \in 0..MaxTeamCalls
  BY StaffConstants DEF Staff!Arrives, StaffIInv, StaffTypes

(* A call ends and reports its row. *)
LEMMA EndsIs ==
  ASSUME StaffIInv, NEW c \in Call, NEW result \in {"none", "added", "skipped", "failed"}, NEW touched,
         Staff!EndsFor(c, result, touched)
  PROVE  /\ doing' \in [Call -> Doing] /\ doing'[c] = Staff!Idle /\ OthersStay(c)
         /\ outcome' \in [Account -> {"none", "added", "skipped", "failed"}]
         /\ \A p \in Account :
              outcome'[p] = "added" =>
                \/ doing[c].row /\ p = doing[c].who /\ result = "added"
                \/ p \notin touched /\ outcome[p] = "added" /\ ~(doing[c].row /\ p = doing[c].who)
<1> USE DEF Staff!EndsFor, StaffIInv, StaffTypes
<1>1. doing' \in [Call -> Doing] /\ doing'[c] = Staff!Idle /\ OthersStay(c)
  BY IdleDoing DEF OthersStay
<1>2. outcome' = [p \in Account |->
                    IF doing[c].row /\ p = doing[c].who THEN result
                    ELSE IF p \in touched THEN "none" ELSE outcome[p]]
  OBVIOUS
<1>3. outcome' \in [Account -> {"none", "added", "skipped", "failed"}]
  BY <1>2
<1>4. ASSUME NEW p \in Account, outcome'[p] = "added"
      PROVE  \/ doing[c].row /\ p = doing[c].who /\ result = "added"
             \/ p \notin touched /\ outcome[p] = "added" /\ ~(doing[c].row /\ p = doing[c].who)
  BY <1>2, <1>4
<1> QED
  BY <1>1, <1>3, <1>4

LEMMA GotoIs ==
  ASSUME StaffIInv, NEW c \in Call, NEW at \in StaffStep, Staff!Goto(c, at)
  PROVE  /\ doing' \in [Call -> Doing] /\ OthersStay(c)
         /\ doing'[c] = [doing[c] EXCEPT !.at = at]
  BY DEF Staff!Goto, StaffIInv, StaffTypes, OthersStay, Doing

(* A step that changes no row of the tables. *)
LEMMA TablesRest ==
  ASSUME StaffIInv, NEW c \in Call, doing' \in [Call -> Doing], OthersStay(c),
         StaffCallOK(c)', ~stale' => EmptiedBy(c)',
         UNCHANGED <<account, role, teamHead, place, taskOf, moved>>,
         stale' \in BOOLEAN, stale => stale',
         asked' \in [Account -> {"none", "MANAGER", "WORKER"}], teamCalls' \in 0..MaxTeamCalls,
         outcome' \in [Account -> {"none", "added", "skipped", "failed"}],
         \A p \in Account : outcome'[p] = "added" => outcome[p] = "added"
  PROVE  StaffIInv'
<1>1. StaffTypes'
  BY DEF StaffIInv, StaffTypes
<1>2. \A p \in Account : role'[p] # "none" => p \in account'
  BY DEF StaffIInv
<1>3. \A d \in Call : StaffCallOK(d)'
  BY DEF StaffIInv, StaffCallOK, OthersStay
<1>4. ASSUME ~stale' PROVE StaffSettled'
  <2>1. StaffSettled
    BY <1>4 DEF StaffIInv
  <2>2. \A d \in Call : EmptiedBy(d)'
    BY <1>4, <2>1 DEF StaffSettled, EmptiedBy, OthersStay
  <2> QED
    BY <2>1, <2>2 DEF StaffSettled, HeadOK, PlacesOK, AddedOK
<1> QED
  BY <1>1, <1>2, <1>3, <1>4 DEF StaffIInv

(* The members: assignMember, updateFactoryUser and removeFactoryUser, remove. *)
LEMMA AssignMemberStaff ==
  ASSUME StaffIInv, NEW p \in Account, NEW r \in {"OWNER", "MANAGER", "WORKER"}, Staff!AssignMember(p, r)
  PROVE  StaffIInv'
<1>1. /\ role[p] = "none" /\ account' = account \union {p} /\ role' = [role EXCEPT ![p] = r]
      /\ outcome' = [outcome EXCEPT ![p] = "none"] /\ teamCalls' \in 0..MaxTeamCalls
      /\ UNCHANGED <<teamHead, place, taskOf, doing, asked, moved, stale>>
  BY ArrivesIs DEF Staff!AssignMember, Staff!CanJoin, Staff!Forget
<1>2. StaffTypes'
  BY <1>1 DEF StaffIInv, StaffTypes, AnyRole
<1>3. \A q \in Account : role'[q] # "none" => q \in account'
  BY <1>1 DEF StaffIInv, StaffTypes
<1>4. \A d \in Call : StaffCallOK(d)'
  BY <1>1 DEF StaffIInv, StaffCallOK
<1>5. ASSUME ~stale' PROVE StaffSettled'
  <2>1. StaffSettled
    BY <1>1, <1>5 DEF StaffIInv
  <2>2. ASSUME NEW q \in Account \ moved' PROVE HeadOK(q)'
    <3>1. HeadOK(q)
      BY <1>1, <2>1 DEF StaffSettled
    <3> QED
      BY <1>1, <3>1 DEF HeadOK, StaffIInv, StaffTypes
  <2>3. ASSUME NEW q \in Account PROVE AddedOK(q)'
    BY <1>1, <2>1 DEF StaffSettled, AddedOK, StaffIInv, StaffTypes
  <2> QED
    BY <1>1, <2>1, <2>2, <2>3 DEF StaffSettled, PlacesOK, EmptiedBy
<1> QED
  BY <1>2, <1>3, <1>4, <1>5 DEF StaffIInv

LEMMA SetMembershipStaff ==
  ASSUME StaffIInv, NEW p \in Account, NEW r \in AnyRole, Staff!SetMembership(p, r)
  PROVE  StaffIInv'
<1>1. /\ role[p] # "none" /\ role' = [role EXCEPT ![p] = r] /\ moved' = moved \union {p}
      /\ outcome' = [outcome EXCEPT ![p] = "none"] /\ teamCalls' \in 0..MaxTeamCalls
      /\ UNCHANGED <<account, teamHead, place, taskOf, doing, asked, stale>>
  BY ArrivesIs DEF Staff!SetMembership, Staff!Forget
<1>2. StaffTypes'
  BY <1>1 DEF StaffIInv, StaffTypes
<1>3. \A q \in Account : role'[q] # "none" => q \in account'
  BY <1>1 DEF StaffIInv, StaffTypes
<1>4. \A d \in Call : StaffCallOK(d)'
  BY <1>1 DEF StaffIInv, StaffCallOK
<1>5. ASSUME ~stale' PROVE StaffSettled'
  <2>1. StaffSettled
    BY <1>1, <1>5 DEF StaffIInv
  <2>2. ASSUME NEW q \in Account \ moved' PROVE HeadOK(q)'
    BY <1>1, <2>1 DEF StaffSettled, HeadOK, StaffIInv, StaffTypes
  <2>3. ASSUME NEW q \in Account PROVE AddedOK(q)'
    BY <1>1, <2>1 DEF StaffSettled, AddedOK, StaffIInv, StaffTypes
  <2> QED
    BY <1>1, <2>1, <2>2, <2>3 DEF StaffSettled, PlacesOK, EmptiedBy
<1> QED
  BY <1>2, <1>3, <1>4, <1>5 DEF StaffIInv

LEMMA RemoveUserStaff ==
  ASSUME StaffIInv, NEW p \in Account, Staff!RemoveUser(p)
  PROVE  StaffIInv'
<1>1. /\ account' = account \ {p} /\ role' = [role EXCEPT ![p] = "none"]
      /\ teamHead' = [d \in Department |-> IF teamHead[d] = p THEN Nobody ELSE teamHead[d]]
      /\ place' = [q \in Account |-> IF q = p \/ place[q] \in Staff!Headed(p) THEN NoDept ELSE place[q]]
      /\ taskOf' = [t \in Job |-> IF taskOf[t] \in Staff!Headed(p) THEN NoDept ELSE taskOf[t]]
      /\ outcome' = [q \in Account |->
                      IF q = p \/ place[q] \in Staff!Headed(p) THEN "none" ELSE outcome[q]]
      /\ teamCalls' \in 0..MaxTeamCalls
      /\ UNCHANGED <<doing, asked, moved, stale>>
  BY ArrivesIs DEF Staff!RemoveUser
<1>0. \A d \in Department : d \in Staff!Headed(p) <=> teamHead[d] = p
  BY DEF Staff!Headed
<1>2. StaffTypes'
  BY <1>1 DEF StaffIInv, StaffTypes, AnyRole
<1>3. \A q \in Account : role'[q] # "none" => q \in account'
  BY <1>1 DEF StaffIInv, StaffTypes
<1>4. \A d \in Call : StaffCallOK(d)'
  BY <1>1 DEF StaffIInv, StaffCallOK
<1>5. ASSUME ~stale' PROVE StaffSettled'
  <2>1. StaffSettled
    BY <1>1, <1>5 DEF StaffIInv
  <2>2. ASSUME NEW q \in Account \ moved' PROVE HeadOK(q)'
    BY <1>1, <2>1, StaffConstants DEF StaffSettled, HeadOK, StaffIInv, StaffTypes
  <2>3. ASSUME NEW q \in Account PROVE AddedOK(q)'
    <3>1. AddedOK(q)
      BY <2>1 DEF StaffSettled
    <3> QED
      BY <1>1, <3>1 DEF AddedOK, StaffIInv, StaffTypes
  <2>4. PlacesOK'
    BY <1>0, <1>1, <2>1, StaffConstants DEF StaffSettled, PlacesOK, StaffIInv, StaffTypes
  <2>5. \A c \in Call : EmptiedBy(c)'
    <3> SUFFICES ASSUME NEW c \in Call PROVE EmptiedBy(c)'
      OBVIOUS
    <3>1. EmptiedBy(c) /\ StaffCallOK(c)
      BY <2>1 DEF StaffSettled, StaffIInv
    <3> QED
      BY <1>1, <3>1, StaffConstants DEF EmptiedBy, StaffCallOK
  <2> QED
    BY <2>2, <2>3, <2>4, <2>5 DEF StaffSettled
<1> QED
  BY <1>2, <1>3, <1>4, <1>5 DEF StaffIInv

(* The departments: create, assignDepartmentHead, remove. *)
LEMMA BeginsHeadStaff ==
  ASSUME StaffIInv, NEW c \in Call, NEW d \in Department, NEW p \in Account,
         \/ Staff!CreateDepartment(c, d, p) \/ Staff!AssignHead(c, d, p) \/ Staff!AddWorker(c, d, p)
  PROVE  StaffIInv'
<1>1. PICK at \in {"create", "head", "worker"} :
         Staff!Begin(c, [Staff!Idle EXCEPT !.at = at, !.who = p, !.dept = d])
  BY DEF Staff!CreateDepartment, Staff!AssignHead, Staff!AddWorker
<1> DEFINE f == [Staff!Idle EXCEPT !.at = at, !.who = p, !.dept = d]
<1>2. f \in Doing /\ f.at = at /\ f.who = p /\ f.dept = d
  BY DEF Staff!Idle, Doing, StaffStep, AnyRole, RowOrCall
<1>3. UNCHANGED <<account, role, teamHead, place, taskOf, outcome, asked, moved, stale>>
  BY DEF Staff!CreateDepartment, Staff!AssignHead, Staff!AddWorker
<1>4. Staff!Begin(c, f)
  BY <1>1
<1> HIDE DEF f
<1>5. /\ doing' \in [Call -> Doing] /\ doing'[c] = f /\ OthersStay(c) /\ teamCalls' \in 0..MaxTeamCalls
  BY <1>2, <1>4, BeginsIs
<1>6. StaffCallOK(c)' /\ EmptiedBy(c)'
  BY <1>2, <1>5 DEF StaffCallOK, EmptiedBy
<1>7. /\ stale \in BOOLEAN /\ asked \in [Account -> {"none", "MANAGER", "WORKER"}]
      /\ outcome \in [Account -> {"none", "added", "skipped", "failed"}]
  BY DEF StaffIInv, StaffTypes
<1> QED
  BY <1>3, <1>5, <1>6, <1>7, TablesRest

LEMMA WriteHeadStaff ==
  ASSUME StaffIInv, NEW c \in Call, Staff!WriteHead(c)
  PROVE  StaffIInv'
<1>1. PICK p \in Account, d \in Department : p = doing[c].who /\ d = doing[c].dept
  BY DEF Staff!WriteHead, StaffIInv, StaffCallOK
<1>2. /\ doing[c].at \in {"create", "head"}
      /\ UNCHANGED <<account, role, place, taskOf, asked, moved, teamCalls>>
  BY DEF Staff!WriteHead
<1>3. CASE Staff!Exists(d) = (doing[c].at = "head")
  <2>1. /\ teamHead' = [teamHead EXCEPT ![d] = p]
        /\ stale' = (stale \/ ~Staff!HeadAllowed(p, d))
        /\ Staff!EndsFor(c, "added", {teamHead[d]})
    BY <1>1, <1>3 DEF Staff!WriteHead
  <2>2. /\ doing' \in [Call -> Doing] /\ doing'[c] = Staff!Idle /\ OthersStay(c)
        /\ outcome' \in [Account -> {"none", "added", "skipped", "failed"}]
        /\ \A q \in Account :
              outcome'[q] = "added" =>
                \/ doing[c].row /\ q = doing[c].who /\ "added" = "added"
                \/ q \notin {teamHead[d]} /\ outcome[q] = "added" /\ ~(doing[c].row /\ q = doing[c].who)
    BY <2>1, EndsIs
  <2>3. StaffTypes'
    BY <1>2, <2>1, <2>2 DEF StaffIInv, StaffTypes
  <2>4. \A q \in Account : role'[q] # "none" => q \in account'
    BY <1>2 DEF StaffIInv
  <2>5. \A e \in Call : StaffCallOK(e)'
    BY <2>2, IdleDoing DEF StaffIInv, StaffCallOK, OthersStay
  <2>6. ASSUME ~stale' PROVE StaffSettled'
    <3>1. StaffSettled /\ ~stale /\ Staff!HeadAllowed(p, d)
      BY <2>1, <2>6 DEF StaffIInv, StaffTypes
    <3>2. /\ role[p] \in {"OWNER", "MANAGER"}
          /\ role[p] = "OWNER" \/ \A e \in Department : teamHead[e] = p => e = d
      BY <3>1 DEF Staff!HeadAllowed, Staff!MayHead, Staff!Headed
    <3>3. /\ teamHead'[d] = p /\ \A e \in Department \ {d} : teamHead'[e] = teamHead[e]
      BY <2>1 DEF StaffIInv, StaffTypes
    <3>4. ASSUME NEW q \in Account \ moved' PROVE HeadOK(q)'
      <4>1. HeadOK(q) /\ role' = role
        BY <1>2, <3>1, <3>4 DEF StaffSettled
      <4> QED
        BY <3>2, <3>3, <4>1 DEF HeadOK
    <3>5. PlacesOK'
      BY <1>2, <3>1, <3>3, StaffConstants DEF StaffSettled, PlacesOK, StaffIInv, StaffTypes
    <3>6. \A e \in Call : EmptiedBy(e)'
      BY <1>2, <2>2, <3>1, IdleDoing DEF StaffSettled, EmptiedBy, OthersStay
    <3>7. ASSUME NEW q \in Account PROVE AddedOK(q)'
      <4>1. CASE q = p
        BY <1>2, <3>2, <3>3, <4>1 DEF AddedOK
      <4>2. CASE q # p
        <5>1. outcome'[q] = "added" => outcome[q] = "added" /\ teamHead[d] # q
          BY <1>1, <2>2, <4>2
        <5>2. AddedOK(q)
          BY <3>1 DEF StaffSettled
        <5> QED
          BY <1>2, <3>3, <5>1, <5>2 DEF AddedOK
      <4> QED
        BY <4>1, <4>2
    <3> QED
      BY <3>4, <3>5, <3>6, <3>7 DEF StaffSettled
  <2> QED
    BY <2>3, <2>4, <2>5, <2>6 DEF StaffIInv
<1>4. CASE Staff!Exists(d) # (doing[c].at = "head")
  <2>1. /\ Staff!Ends(c, IF doing[c].at = "head" THEN "added" ELSE "failed")
        /\ stale' = (stale \/ doing[c].at = "head") /\ teamHead' = teamHead
    BY <1>1, <1>4 DEF Staff!WriteHead
  <2> DEFINE result == IF doing[c].at = "head" THEN "added" ELSE "failed"
  <2>2. result \in {"none", "added", "skipped", "failed"} /\ Staff!EndsFor(c, result, {})
    BY <2>1 DEF Staff!Ends
  <2>a. (doing[c].at = "head" /\ result = "added") \/ (doing[c].at # "head" /\ result = "failed")
    OBVIOUS
  <2> HIDE DEF result
  <2>3. /\ doing' \in [Call -> Doing] /\ doing'[c] = Staff!Idle /\ OthersStay(c)
        /\ outcome' \in [Account -> {"none", "added", "skipped", "failed"}]
        /\ \A q \in Account :
              outcome'[q] = "added" =>
                \/ doing[c].row /\ q = doing[c].who /\ result = "added"
                \/ q \notin {} /\ outcome[q] = "added" /\ ~(doing[c].row /\ q = doing[c].who)
    BY <2>2, EndsIs
  <2>4. StaffTypes'
    BY <1>2, <2>1, <2>3 DEF StaffIInv, StaffTypes
  <2>5. \A q \in Account : role'[q] # "none" => q \in account'
    BY <1>2 DEF StaffIInv
  <2>6. \A e \in Call : StaffCallOK(e)'
    BY <2>3, IdleDoing DEF StaffIInv, StaffCallOK, OthersStay
  <2>7. ASSUME ~stale' PROVE StaffSettled'
    <3>1. StaffSettled /\ doing[c].at # "head"
      BY <2>1, <2>7 DEF StaffIInv, StaffTypes
    <3>2. \A q \in Account : outcome'[q] = "added" => outcome[q] = "added"
      BY <2>a, <2>3, <3>1
    <3>3. \A e \in Call : EmptiedBy(e)'
      BY <1>2, <2>3, <3>1, IdleDoing DEF StaffSettled, EmptiedBy, OthersStay
    <3> QED
      BY <1>2, <2>1, <3>1, <3>2, <3>3 DEF StaffSettled, HeadOK, PlacesOK, AddedOK
  <2> QED
    BY <2>4, <2>5, <2>6, <2>7 DEF StaffIInv
<1> QED
  BY <1>3, <1>4

LEMMA RemoveDepartmentStaff ==
  ASSUME StaffIInv, NEW c \in Call, NEW d \in Department, Staff!RemoveDepartment(c, d)
  PROVE  StaffIInv'
<1> DEFINE f == [Staff!Idle EXCEPT !.at = "dropWorkers", !.dept = d]
<1>1. /\ Staff!Begin(c, f)
      /\ taskOf' = [t \in Job |-> IF taskOf[t] = d THEN NoDept ELSE taskOf[t]]
      /\ UNCHANGED <<account, role, teamHead, place, outcome, asked, moved, stale>>
  BY DEF Staff!RemoveDepartment
<1>2. f \in Doing /\ f.at = "dropWorkers" /\ f.dept = d
  BY DEF Staff!Idle, Doing, StaffStep, AnyRole, RowOrCall
<1> HIDE DEF f
<1>3. /\ doing' \in [Call -> Doing] /\ doing'[c] = f /\ OthersStay(c) /\ teamCalls' \in 0..MaxTeamCalls
  BY <1>1, <1>2, BeginsIs
<1>4. StaffTypes'
  BY <1>1, <1>3 DEF StaffIInv, StaffTypes
<1>5. \A q \in Account : role'[q] # "none" => q \in account'
  BY <1>1 DEF StaffIInv
<1>6. \A e \in Call : StaffCallOK(e)'
  BY <1>2, <1>3 DEF StaffIInv, StaffCallOK, OthersStay
<1>7. ASSUME ~stale' PROVE StaffSettled'
  <2>1. StaffSettled
    BY <1>1, <1>7 DEF StaffIInv
  <2>2. PlacesOK'
    BY <1>1, <2>1 DEF StaffSettled, PlacesOK, StaffIInv, StaffTypes
  <2>3. EmptiedBy(c)'
    BY <1>1, <1>2, <1>3, StaffConstants DEF EmptiedBy
  <2>4. ASSUME NEW e \in Call \ {c} PROVE EmptiedBy(e)'
    <3>1. EmptiedBy(e) /\ StaffCallOK(e)
      BY <2>1 DEF StaffSettled, StaffIInv
    <3> QED
      BY <1>1, <1>3, <3>1, StaffConstants DEF EmptiedBy, StaffCallOK, OthersStay
  <2> QED
    BY <1>1, <2>1, <2>2, <2>3, <2>4 DEF StaffSettled, HeadOK, AddedOK
<1> QED
  BY <1>4, <1>5, <1>6, <1>7 DEF StaffIInv

LEMMA DropWorkersStaff ==
  ASSUME StaffIInv, NEW c \in Call, Staff!DropWorkers(c)
  PROVE  StaffIInv'
<1>1. PICK d \in Department : d = doing[c].dept
  BY DEF Staff!DropWorkers, StaffIInv, StaffCallOK
<1>2. /\ doing[c].at = "dropWorkers" /\ Staff!Goto(c, "dropRow")
      /\ place' = [p \in Account |-> IF place[p] = d THEN NoDept ELSE place[p]]
      /\ outcome' = [p \in Account |-> IF place[p] = d THEN "none" ELSE outcome[p]]
      /\ UNCHANGED <<account, role, teamHead, taskOf, asked, moved, stale, teamCalls>>
  BY <1>1 DEF Staff!DropWorkers
<1>3. /\ doing' \in [Call -> Doing] /\ OthersStay(c)
      /\ doing'[c].at = "dropRow" /\ doing'[c].dept = d
  <2>1. doing' \in [Call -> Doing] /\ OthersStay(c) /\ doing'[c] = [doing[c] EXCEPT !.at = "dropRow"]
    BY <1>2, GotoIs DEF StaffStep
  <2>2. doing[c] \in Doing
    BY DEF StaffIInv, StaffTypes
  <2> QED
    BY <1>1, <2>1, <2>2 DEF Doing
<1>4. StaffTypes'
  BY <1>2, <1>3 DEF StaffIInv, StaffTypes
<1>5. \A q \in Account : role'[q] # "none" => q \in account'
  BY <1>2 DEF StaffIInv
<1>6. \A e \in Call : StaffCallOK(e)'
  BY <1>3 DEF StaffIInv, StaffCallOK, OthersStay
<1>7. ASSUME ~stale' PROVE StaffSettled'
  <2>1. StaffSettled
    BY <1>2, <1>7 DEF StaffIInv
  <2>2. PlacesOK'
    BY <1>2, <2>1 DEF StaffSettled, PlacesOK, StaffIInv, StaffTypes
  <2>3. EmptiedBy(c)'
    <3>1. EmptiedBy(c)
      BY <2>1 DEF StaffSettled
    <3> QED
      BY <1>1, <1>2, <1>3, <3>1, StaffConstants DEF EmptiedBy
  <2>4. ASSUME NEW e \in Call \ {c} PROVE EmptiedBy(e)'
    <3>1. EmptiedBy(e) /\ StaffCallOK(e)
      BY <2>1 DEF StaffSettled, StaffIInv
    <3> QED
      BY <1>2, <1>3, <3>1, StaffConstants DEF EmptiedBy, StaffCallOK, OthersStay
  <2>5. ASSUME NEW p \in Account PROVE AddedOK(p)'
    <3>1. AddedOK(p)
      BY <2>1 DEF StaffSettled
    <3> QED
      BY <1>2, <3>1 DEF AddedOK, StaffIInv, StaffTypes
  <2> QED
    BY <1>2, <2>1, <2>2, <2>3, <2>4, <2>5 DEF StaffSettled, HeadOK
<1> QED
  BY <1>4, <1>5, <1>6, <1>7 DEF StaffIInv

LEMMA DropRowStaff ==
  ASSUME StaffIInv, NEW c \in Call, Staff!DropRow(c)
  PROVE  StaffIInv'
<1>1. PICK d \in Department : d = doing[c].dept
  BY DEF Staff!DropRow, StaffIInv, StaffCallOK
<1>2. /\ doing[c].at = "dropRow" /\ Staff!EndsFor(c, "none", {teamHead[d]})
      /\ teamHead' = [teamHead EXCEPT ![d] = Nobody]
      /\ UNCHANGED <<account, role, place, taskOf, asked, moved, stale, teamCalls>>
  BY <1>1 DEF Staff!DropRow
<1>3. /\ doing' \in [Call -> Doing] /\ doing'[c] = Staff!Idle /\ OthersStay(c)
      /\ outcome' \in [Account -> {"none", "added", "skipped", "failed"}]
      /\ \A p \in Account :
           outcome'[p] = "added" =>
             \/ doing[c].row /\ p = doing[c].who /\ "none" = "added"
             \/ p \notin {teamHead[d]} /\ outcome[p] = "added" /\ ~(doing[c].row /\ p = doing[c].who)
  BY <1>2, EndsIs
<1>4. StaffTypes'
  BY <1>2, <1>3 DEF StaffIInv, StaffTypes
<1>5. \A q \in Account : role'[q] # "none" => q \in account'
  BY <1>2 DEF StaffIInv
<1>6. \A e \in Call : StaffCallOK(e)'
  BY <1>3, IdleDoing DEF StaffIInv, StaffCallOK, OthersStay
<1>7. ASSUME ~stale' PROVE StaffSettled'
  <2>1. StaffSettled /\ EmptiedBy(c)
    BY <1>2, <1>7 DEF StaffIInv, StaffSettled
  <2>2. \A e \in Department \ {d} : teamHead'[e] = teamHead[e]
    BY <1>2 DEF StaffIInv, StaffTypes
  <2>3. teamHead'[d] = Nobody
    BY <1>2 DEF StaffIInv, StaffTypes
  <2>4. PlacesOK'
    BY <1>1, <1>2, <2>1, <2>2 DEF StaffSettled, PlacesOK, EmptiedBy, StaffIInv, StaffTypes
  <2>5. \A e \in Call : EmptiedBy(e)'
    BY <1>2, <1>3, <2>1, IdleDoing DEF StaffSettled, EmptiedBy, OthersStay
  <2>6. ASSUME NEW p \in Account \ moved' PROVE HeadOK(p)'
    BY <1>2, <2>1, <2>2, <2>3, StaffConstants DEF StaffSettled, HeadOK
  <2>7. ASSUME NEW p \in Account PROVE AddedOK(p)'
    <3>1. AddedOK(p)
      BY <2>1 DEF StaffSettled
    <3>2. outcome'[p] = "added" => outcome[p] = "added" /\ teamHead[d] # p
      BY <1>3
    <3> QED
      BY <1>2, <2>2, <3>1, <3>2 DEF AddedOK
  <2> QED
    BY <2>4, <2>5, <2>6, <2>7 DEF StaffSettled
<1> QED
  BY <1>4, <1>5, <1>6, <1>7 DEF StaffIInv

(* The workers: addWorker, removeWorker; tasks. *)
LEMMA WriteWorkerStaff ==
  ASSUME StaffIInv, NEW c \in Call, Staff!WriteWorker(c)
  PROVE  StaffIInv'
<1>1. PICK p \in Account, d \in Department : p = doing[c].who /\ d = doing[c].dept
  BY DEF Staff!WriteWorker, StaffIInv, StaffCallOK
<1>2. /\ doing[c].at = "worker"
      /\ UNCHANGED <<account, role, teamHead, taskOf, asked, moved, teamCalls>>
  BY DEF Staff!WriteWorker
<1>3. CASE place[p] \in {d, NoDept}
  <2>1. /\ place' = [place EXCEPT ![p] = d]
        /\ stale' = (stale \/ ~Staff!WorkerAllowed(p, d) \/ Staff!Dropping(d, {"dropRow"}))
        /\ Staff!EndsFor(c, "added", {})
    BY <1>1, <1>3 DEF Staff!WriteWorker, Staff!Ends
  <2>2. /\ doing' \in [Call -> Doing] /\ doing'[c] = Staff!Idle /\ OthersStay(c)
        /\ outcome' \in [Account -> {"none", "added", "skipped", "failed"}]
        /\ \A q \in Account :
              outcome'[q] = "added" =>
                \/ doing[c].row /\ q = doing[c].who /\ "added" = "added"
                \/ q \notin {} /\ outcome[q] = "added" /\ ~(doing[c].row /\ q = doing[c].who)
    BY <2>1, EndsIs
  <2>3. StaffTypes'
    BY <1>2, <2>1, <2>2 DEF StaffIInv, StaffTypes
  <2>4. \A q \in Account : role'[q] # "none" => q \in account'
    BY <1>2 DEF StaffIInv
  <2>5. \A e \in Call : StaffCallOK(e)'
    BY <2>2, IdleDoing DEF StaffIInv, StaffCallOK, OthersStay
  <2>6. ASSUME ~stale' PROVE StaffSettled'
    <3>1. /\ StaffSettled /\ teamHead[d] # Nobody /\ role[p] = "WORKER"
          /\ \A e \in Call : doing[e].at = "dropRow" => doing[e].dept # d
      BY <2>1, <2>6 DEF StaffIInv, StaffTypes, Staff!WorkerAllowed, Staff!Exists, Staff!Dropping
    <3>2. /\ place'[p] = d /\ \A q \in Account \ {p} : place'[q] = place[q]
      BY <2>1 DEF StaffIInv, StaffTypes
    <3>3. PlacesOK'
      BY <1>2, <3>1, <3>2 DEF StaffSettled, PlacesOK
    <3>4. \A e \in Call : EmptiedBy(e)'
      <4> SUFFICES ASSUME NEW e \in Call PROVE EmptiedBy(e)'
        OBVIOUS
      <4>1. EmptiedBy(e)
        BY <3>1 DEF StaffSettled
      <4> QED
        BY <1>2, <2>2, <3>1, <3>2, <4>1, IdleDoing DEF EmptiedBy, OthersStay
    <3>5. ASSUME NEW q \in Account PROVE AddedOK(q)'
      <4>1. CASE q = p
        BY <1>2, <3>1, <3>2, <4>1, StaffConstants DEF AddedOK
      <4>2. CASE q # p
        <5>1. outcome'[q] = "added" => outcome[q] = "added"
          BY <1>1, <2>2, <4>2
        <5>2. AddedOK(q)
          BY <3>1 DEF StaffSettled
        <5> QED
          BY <1>2, <3>2, <4>2, <5>1, <5>2 DEF AddedOK
      <4> QED
        BY <4>1, <4>2
    <3> QED
      BY <1>2, <3>1, <3>3, <3>4, <3>5 DEF StaffSettled, HeadOK
  <2> QED
    BY <2>3, <2>4, <2>5, <2>6 DEF StaffIInv
<1>4. CASE place[p] \notin {d, NoDept}
  <2>1. Staff!EndsFor(c, "failed", {}) /\ UNCHANGED <<place, stale>>
    BY <1>1, <1>4 DEF Staff!WriteWorker, Staff!Ends
  <2>2. /\ doing' \in [Call -> Doing] /\ doing'[c] = Staff!Idle /\ OthersStay(c)
        /\ outcome' \in [Account -> {"none", "added", "skipped", "failed"}]
        /\ \A q \in Account :
              outcome'[q] = "added" =>
                \/ doing[c].row /\ q = doing[c].who /\ "failed" = "added"
                \/ q \notin {} /\ outcome[q] = "added" /\ ~(doing[c].row /\ q = doing[c].who)
    BY <2>1, EndsIs
  <2>3. StaffCallOK(c)' /\ EmptiedBy(c)'
    BY <2>2, IdleDoing DEF StaffCallOK, EmptiedBy
  <2>4. /\ stale \in BOOLEAN /\ asked \in [Account -> {"none", "MANAGER", "WORKER"}]
        /\ teamCalls \in 0..MaxTeamCalls
    BY DEF StaffIInv, StaffTypes
  <2>5. \A q \in Account : outcome'[q] = "added" => outcome[q] = "added"
    BY <2>2
  <2> QED
    BY <1>2, <2>1, <2>2, <2>3, <2>4, <2>5, TablesRest
<1> QED
  BY <1>3, <1>4

LEMMA RemoveWorkerStaff ==
  ASSUME StaffIInv, NEW d \in Department, NEW p \in Account, Staff!RemoveWorker(d, p)
  PROVE  StaffIInv'
<1>1. /\ place' = [place EXCEPT ![p] = NoDept] /\ outcome' = [outcome EXCEPT ![p] = "none"]
      /\ teamCalls' \in 0..MaxTeamCalls
      /\ UNCHANGED <<account, role, teamHead, taskOf, doing, asked, moved, stale>>
  BY ArrivesIs DEF Staff!RemoveWorker, Staff!Forget
<1>2. StaffTypes'
  BY <1>1 DEF StaffIInv, StaffTypes
<1>3. \A q \in Account : role'[q] # "none" => q \in account'
  BY <1>1 DEF StaffIInv
<1>4. \A e \in Call : StaffCallOK(e)'
  BY <1>1 DEF StaffIInv, StaffCallOK
<1>5. ASSUME ~stale' PROVE StaffSettled'
  <2>1. StaffSettled
    BY <1>1, <1>5 DEF StaffIInv
  <2>2. \A q \in Account : AddedOK(q)' /\ (q \notin moved' => HeadOK(q)')
    BY <1>1, <2>1 DEF StaffSettled, AddedOK, HeadOK, StaffIInv, StaffTypes
  <2>3. PlacesOK'
    BY <1>1, <2>1 DEF StaffSettled, PlacesOK, StaffIInv, StaffTypes
  <2>4. ASSUME NEW e \in Call PROVE EmptiedBy(e)'
    <3>1. EmptiedBy(e) /\ StaffCallOK(e)
      BY <2>1 DEF StaffSettled, StaffIInv
    <3> QED
      BY <1>1, <3>1, StaffConstants DEF EmptiedBy, StaffCallOK, StaffIInv, StaffTypes
  <2> QED
    BY <2>2, <2>3, <2>4 DEF StaffSettled
<1> QED
  BY <1>2, <1>3, <1>4, <1>5 DEF StaffIInv

LEMMA RouteTaskStaff ==
  ASSUME StaffIInv, NEW t \in Job, NEW d \in Department, Staff!RouteTask(t, d)
  PROVE  StaffIInv'
<1>1. /\ teamHead[d] # Nobody /\ taskOf' = [taskOf EXCEPT ![t] = d]
      /\ stale' = (stale \/ Staff!Dropping(d, {"dropWorkers", "dropRow"}))
      /\ teamCalls' \in 0..MaxTeamCalls
      /\ UNCHANGED <<account, role, teamHead, place, doing, outcome, asked, moved>>
  BY ArrivesIs DEF Staff!RouteTask, Staff!Exists
<1>2. StaffTypes'
  BY <1>1 DEF StaffIInv, StaffTypes
<1>3. \A q \in Account : role'[q] # "none" => q \in account'
  BY <1>1 DEF StaffIInv
<1>4. \A e \in Call : StaffCallOK(e)'
  BY <1>1 DEF StaffIInv, StaffCallOK
<1>5. ASSUME ~stale' PROVE StaffSettled'
  <2>1. StaffSettled /\ \A e \in Call : doing[e].at \in {"dropWorkers", "dropRow"} => doing[e].dept # d
    BY <1>1, <1>5 DEF StaffIInv, StaffTypes, Staff!Dropping
  <2>2. \A q \in Account : AddedOK(q)' /\ (q \notin moved' => HeadOK(q)')
    BY <1>1, <2>1 DEF StaffSettled, AddedOK, HeadOK
  <2>3. PlacesOK'
    BY <1>1, <2>1 DEF StaffSettled, PlacesOK, StaffIInv, StaffTypes
  <2>4. ASSUME NEW e \in Call PROVE EmptiedBy(e)'
    BY <1>1, <2>1 DEF StaffSettled, EmptiedBy, StaffIInv, StaffTypes
  <2> QED
    BY <2>2, <2>3, <2>4 DEF StaffSettled
<1> QED
  BY <1>2, <1>3, <1>4, <1>5 DEF StaffIInv

(* The rows of an import. *)
LEMMA RowStaff ==
  ASSUME StaffIInv, NEW c \in Call, NEW via \in {"chat", "web"}, NEW p \in Account, NEW d \in Department,
         NEW r \in {"MANAGER", "WORKER"}, Staff!Row(c, via, p, d, r)
  PROVE  StaffIInv'
<1> DEFINE f == [at |-> IF Staff!Exists(d) THEN "join" ELSE "newDepartment", row |-> TRUE,
                 who |-> p, dept |-> d, role |-> Staff!RoleTaken(via, p, r)]
<1>1. /\ Staff!Begin(c, f) /\ asked' = [asked EXCEPT ![p] = r] /\ outcome' = [outcome EXCEPT ![p] = "none"]
      /\ UNCHANGED <<account, role, teamHead, place, taskOf, moved, stale>>
  BY DEF Staff!Row, Staff!Forget
<1>2. /\ f \in Doing /\ f.at \in {"join", "newDepartment"} /\ f.who = p /\ f.dept = d
      /\ f.role \in {"MANAGER", "WORKER"}
  BY DEF Doing, StaffStep, AnyRole, RowOrCall, Staff!RoleTaken
<1> HIDE DEF f
<1>3. /\ doing' \in [Call -> Doing] /\ doing'[c] = f /\ OthersStay(c) /\ teamCalls' \in 0..MaxTeamCalls
  BY <1>1, <1>2, BeginsIs
<1>4. StaffCallOK(c)' /\ EmptiedBy(c)'
  BY <1>2, <1>3 DEF StaffCallOK, EmptiedBy
<1>5. /\ stale \in BOOLEAN /\ asked' \in [Account -> {"none", "MANAGER", "WORKER"}]
      /\ outcome' \in [Account -> {"none", "added", "skipped", "failed"}]
      /\ \A q \in Account : outcome'[q] = "added" => outcome[q] = "added"
  BY <1>1 DEF StaffIInv, StaffTypes
<1> QED
  BY <1>1, <1>3, <1>4, <1>5, TablesRest

(* A row that is refused or skipped. *)
LEMMA RowEndsStaff ==
  ASSUME StaffIInv, NEW c \in Call, NEW result \in {"skipped", "failed"}, Staff!Ends(c, result),
         UNCHANGED <<account, role, teamHead, place, taskOf, asked, moved, stale, teamCalls>>
  PROVE  StaffIInv'
<1>1. /\ doing' \in [Call -> Doing] /\ doing'[c] = Staff!Idle /\ OthersStay(c)
      /\ outcome' \in [Account -> {"none", "added", "skipped", "failed"}]
      /\ \A q \in Account :
            outcome'[q] = "added" =>
              \/ doing[c].row /\ q = doing[c].who /\ result = "added"
              \/ q \notin {} /\ outcome[q] = "added" /\ ~(doing[c].row /\ q = doing[c].who)
  BY EndsIs DEF Staff!Ends
<1>2. StaffCallOK(c)' /\ EmptiedBy(c)'
  BY <1>1, IdleDoing DEF StaffCallOK, EmptiedBy
<1>3. /\ stale \in BOOLEAN /\ asked \in [Account -> {"none", "MANAGER", "WORKER"}]
      /\ teamCalls \in 0..MaxTeamCalls
  BY DEF StaffIInv, StaffTypes
<1>4. \A q \in Account : outcome'[q] = "added" => outcome[q] = "added"
  BY <1>1
<1> QED
  BY <1>1, <1>2, <1>3, <1>4, TablesRest

(* A row that goes on to its next statement. *)
LEMMA RowGoesStaff ==
  ASSUME StaffIInv, NEW c \in Call, NEW at \in {"join", "head", "worker"}, Staff!Goto(c, at),
         doing[c].at \in {"newDepartment", "toHead", "toWorker"}, at = "join" => doing[c].at = "newDepartment",
         UNCHANGED <<account, role, teamHead, place, taskOf, outcome, asked, moved, stale, teamCalls>>
  PROVE  StaffIInv'
<1>1. /\ doing' \in [Call -> Doing] /\ OthersStay(c) /\ doing'[c] = [doing[c] EXCEPT !.at = at]
  BY GotoIs DEF StaffStep
<1>2. doing[c] \in Doing /\ StaffCallOK(c)
  BY DEF StaffIInv, StaffTypes
<1>3. doing'[c].at = at /\ doing'[c].who = doing[c].who /\ doing'[c].dept = doing[c].dept
      /\ doing'[c].role = doing[c].role
  BY <1>1, <1>2 DEF Doing
<1>4. StaffCallOK(c)' /\ EmptiedBy(c)'
  BY <1>2, <1>3 DEF StaffCallOK, EmptiedBy
<1>5. /\ stale \in BOOLEAN /\ asked \in [Account -> {"none", "MANAGER", "WORKER"}]
      /\ teamCalls \in 0..MaxTeamCalls /\ outcome \in [Account -> {"none", "added", "skipped", "failed"}]
  BY DEF StaffIInv, StaffTypes
<1> QED
  BY <1>1, <1>4, <1>5, TablesRest

LEMMA FindOrCreateStaff ==
  ASSUME StaffIInv, NEW c \in Call, Staff!FindOrCreateByName(c)
  PROVE  StaffIInv'
<1>1. PICK d \in Department : d = doing[c].dept
  BY DEF Staff!FindOrCreateByName, StaffIInv, StaffCallOK
<1>2. /\ doing[c].at = "newDepartment"
      /\ UNCHANGED <<account, role, place, taskOf, asked, moved, stale, teamCalls>>
  BY DEF Staff!FindOrCreateByName
<1>3. CASE Staff!Goto(c, "join") /\ UNCHANGED <<teamHead, outcome>>
  BY <1>2, <1>3, RowGoesStaff
<1>4. CASE Staff!Ends(c, "failed") /\ UNCHANGED teamHead
  BY <1>2, <1>4, RowEndsStaff
<1>5. CASE /\ teamHead[d] = Nobody /\ role[Owner] = "OWNER"
           /\ teamHead' = [teamHead EXCEPT ![d] = Owner]
           /\ Staff!Goto(c, "join") /\ UNCHANGED outcome
  <2>1. /\ doing' \in [Call -> Doing] /\ OthersStay(c) /\ doing'[c] = [doing[c] EXCEPT !.at = "join"]
    BY <1>5, GotoIs DEF StaffStep
  <2>2. doing[c] \in Doing /\ StaffCallOK(c)
    BY DEF StaffIInv, StaffTypes
  <2>3. doing'[c].at = "join" /\ doing'[c].who = doing[c].who /\ doing'[c].dept = doing[c].dept
        /\ doing'[c].role = doing[c].role
    BY <2>1, <2>2 DEF Doing
  <2>4. StaffTypes'
    BY <1>2, <1>5, <2>1, StaffConstants DEF StaffIInv, StaffTypes
  <2>5. \A q \in Account : role'[q] # "none" => q \in account'
    BY <1>2 DEF StaffIInv
  <2>6. \A e \in Call : StaffCallOK(e)'
    BY <1>2, <2>1, <2>2, <2>3 DEF StaffIInv, StaffCallOK, OthersStay
  <2>7. teamHead'[d] = Owner /\ \A e \in Department \ {d} : teamHead'[e] = teamHead[e]
    BY <1>5 DEF StaffIInv, StaffTypes
  <2>8. ASSUME ~stale' PROVE StaffSettled'
    <3>1. StaffSettled
      BY <1>2, <2>8 DEF StaffIInv
    <3>2. ASSUME NEW q \in Account \ moved' PROVE HeadOK(q)'
      <4>1. HeadOK(q)
        BY <1>2, <3>1 DEF StaffSettled
      <4> QED
        BY <1>2, <1>5, <2>7, <4>1 DEF HeadOK
    <3>3. PlacesOK'
      <4>1. place \in [Account -> Department \union {NoDept}] /\ taskOf \in [Job -> Department \union {NoDept}]
        BY DEF StaffIInv, StaffTypes
      <4> QED
        BY <1>2, <2>7, <3>1, <4>1, StaffConstants DEF StaffSettled, PlacesOK
    <3>4. ASSUME NEW e \in Call PROVE EmptiedBy(e)'
      <4>1. CASE e = c
        BY <1>2, <2>1, <2>3, <3>1, <4>1 DEF EmptiedBy
      <4>2. CASE e # c
        BY <1>2, <2>1, <2>3, <3>1, <4>2 DEF StaffSettled, EmptiedBy, OthersStay
      <4> QED
        BY <4>1, <4>2
    <3>5. ASSUME NEW q \in Account PROVE AddedOK(q)'
      <4>1. AddedOK(q)
        BY <3>1 DEF StaffSettled
      <4> QED
        BY <1>2, <1>5, <2>7, <4>1, StaffConstants DEF AddedOK
    <3> QED
      BY <3>2, <3>3, <3>4, <3>5 DEF StaffSettled
  <2> QED
    BY <2>4, <2>5, <2>6, <2>8 DEF StaffIInv
<1> QED
  BY <1>1, <1>3, <1>4, <1>5 DEF Staff!FindOrCreateByName, Staff!Exists

LEMMA JoinStaff ==
  ASSUME StaffIInv, NEW c \in Call, Staff!Join(c)
  PROVE  StaffIInv'
<1>1. PICK p \in Account : p = doing[c].who
  BY DEF Staff!Join, StaffIInv, StaffCallOK
<1>2. /\ doing[c].at = "join"
      /\ UNCHANGED <<teamHead, place, taskOf, asked, moved, stale, teamCalls>>
  BY DEF Staff!Join
<1>3. CASE (\E result \in {"skipped", "failed"} : Staff!Ends(c, result)) /\ UNCHANGED <<account, role>>
  BY <1>2, <1>3, RowEndsStaff
<1>4. CASE /\ role[p] = "none" /\ account' = account \union {p}
           /\ role' = [role EXCEPT ![p] = doing[c].role]
           /\ \E at \in {"toHead", "toWorker"} : Staff!Goto(c, at)
           /\ UNCHANGED outcome
  <2>1. PICK at \in {"toHead", "toWorker"} : Staff!Goto(c, at)
    BY <1>4
  <2>2. /\ doing' \in [Call -> Doing] /\ OthersStay(c) /\ doing'[c] = [doing[c] EXCEPT !.at = at]
    BY <2>1, GotoIs DEF StaffStep
  <2>3. doing[c] \in Doing /\ StaffCallOK(c) /\ doing[c].role \in {"MANAGER", "WORKER"}
    BY <1>2 DEF StaffIInv, StaffTypes, StaffCallOK
  <2>4. doing'[c].at = at /\ doing'[c].who = doing[c].who /\ doing'[c].dept = doing[c].dept
    BY <2>2, <2>3 DEF Doing
  <2>5. StaffTypes'
    BY <1>2, <1>4, <2>2, <2>3 DEF StaffIInv, StaffTypes, AnyRole
  <2>6. \A q \in Account : role'[q] # "none" => q \in account'
    BY <1>4 DEF StaffIInv, StaffTypes
  <2>7. \A e \in Call : StaffCallOK(e)'
    BY <1>2, <2>2, <2>3, <2>4 DEF StaffIInv, StaffCallOK, OthersStay
  <2>8. ASSUME ~stale' PROVE StaffSettled'
    <3>1. StaffSettled
      BY <1>2, <2>8 DEF StaffIInv
    <3>2. role'[p] \in {"MANAGER", "WORKER"} /\ \A q \in Account \ {p} : role'[q] = role[q]
      BY <1>4, <2>3 DEF StaffIInv, StaffTypes
    <3>3. ASSUME NEW q \in Account \ moved' PROVE HeadOK(q)'
      <4>1. HeadOK(q)
        BY <1>2, <3>1 DEF StaffSettled
      <4> QED
        BY <1>2, <1>4, <3>2, <4>1 DEF HeadOK
    <3>4. PlacesOK'
      BY <1>2, <3>1 DEF StaffSettled, PlacesOK
    <3>5. ASSUME NEW e \in Call PROVE EmptiedBy(e)'
      <4>1. CASE e = c
        BY <1>2, <2>2, <2>4, <3>1, <4>1 DEF EmptiedBy
      <4>2. CASE e # c
        BY <1>2, <2>2, <2>4, <3>1, <4>2 DEF StaffSettled, EmptiedBy, OthersStay
      <4> QED
        BY <4>1, <4>2
    <3>6. ASSUME NEW q \in Account PROVE AddedOK(q)'
      <4>1. AddedOK(q)
        BY <3>1 DEF StaffSettled
      <4> QED
        BY <1>2, <1>4, <3>2, <4>1 DEF AddedOK
    <3> QED
      BY <3>3, <3>4, <3>5, <3>6 DEF StaffSettled
  <2> QED
    BY <2>5, <2>6, <2>7, <2>8 DEF StaffIInv
<1> QED
  BY <1>1, <1>3, <1>4 DEF Staff!Join, Staff!CanJoin

LEMMA CheckPostStaff ==
  ASSUME StaffIInv, NEW c \in Call, Staff!CheckPost(c)
  PROVE  StaffIInv'
<1>1. UNCHANGED <<account, role, teamHead, place, taskOf, asked, moved, stale, teamCalls>>
  BY DEF Staff!CheckPost
<1>2. CASE /\ doing[c].at \in {"toHead", "toWorker"}
           /\ \E at \in {"head", "worker"} : Staff!Goto(c, at)
           /\ UNCHANGED outcome
  BY <1>1, <1>2, RowGoesStaff
<1>3. CASE Staff!Ends(c, "failed")
  BY <1>1, <1>3, RowEndsStaff
<1> QED
  BY <1>2, <1>3 DEF Staff!CheckPost

LEMMA NextStaff == StaffIInv /\ [Staff!Next]_teamState => StaffIInv'
<1> SUFFICES ASSUME StaffIInv, [Staff!Next]_teamState PROVE StaffIInv'
  OBVIOUS
<1>1. CASE \E c \in Call : Staff!CallStep(c)
  BY <1>1, WriteHeadStaff, WriteWorkerStaff, DropWorkersStaff, DropRowStaff, FindOrCreateStaff, JoinStaff,
     CheckPostStaff DEF Staff!CallStep
<1>2. CASE \E c \in Call, d \in Department :
             \/ Staff!RemoveDepartment(c, d)
             \/ \E p \in Account :
                  \/ Staff!CreateDepartment(c, d, p) \/ Staff!AssignHead(c, d, p) \/ Staff!AddWorker(c, d, p)
                  \/ \E via \in {"chat", "web"}, r \in {"MANAGER", "WORKER"} : Staff!Row(c, via, p, d, r)
  BY <1>2, RemoveDepartmentStaff, BeginsHeadStaff, RowStaff
<1>3. CASE \E p \in Account :
             \/ Staff!RemoveUser(p)
             \/ \E r \in Staff!MemberRole : Staff!AssignMember(p, r)
             \/ \E r \in Staff!MemberRole \union {"none"} : Staff!SetMembership(p, r)
             \/ \E d \in Department : Staff!RemoveWorker(d, p)
  <2>1. Staff!MemberRole = {"OWNER", "MANAGER", "WORKER"} /\ Staff!MemberRole \union {"none"} = AnyRole
    BY DEF Staff!MemberRole, AnyRole
  <2> QED
    BY <1>3, <2>1, RemoveUserStaff, AssignMemberStaff, SetMembershipStaff, RemoveWorkerStaff
<1>4. CASE \E t \in Job, d \in Department : Staff!RouteTask(t, d)
  BY <1>4, RouteTaskStaff
<1>5. CASE UNCHANGED teamState
  BY <1>5 DEF teamState, StaffIInv, StaffTypes, StaffCallOK, StaffSettled, HeadOK, PlacesOK, EmptiedBy, AddedOK
<1> QED
  BY <1>1, <1>2, <1>3, <1>4, <1>5 DEF Staff!Next

-----------------------------------------------------------------------------
(* The dialogues (Dialogues).  The questions of the three forms, written out. *)
WorkerField == {"name", "phone", "department", "role", "doj"}
VendorField == {"name", "phone", "gst", "address"}
ItemField == {"name", "sku", "category", "location", "unit", "threshold"}

LEMMA FormsAre ==
  /\ Dialogue!Forms = {"worker", "vendor", "item"}
  /\ Dialogue!FieldsOf("worker") = WorkerField
  /\ Dialogue!FieldsOf("vendor") = VendorField
  /\ Dialogue!FieldsOf("item") = ItemField
  /\ Dialogue!Last("worker") = "doj" /\ Dialogue!Last("vendor") = "address"
       /\ Dialogue!Last("item") = "threshold"
  /\ \A f \in Dialogue!Forms : Dialogue!Fields[f][1] = "name"
<1> USE DEF Dialogue!Fields
<1>1. Dialogue!Forms = {"worker", "vendor", "item"}
  BY DEF Dialogue!Forms
<1>2. Dialogue!FieldsOf("worker") = WorkerField
  BY DEF Dialogue!FieldsOf, WorkerField
<1>3. Dialogue!FieldsOf("vendor") = VendorField
  BY DEF Dialogue!FieldsOf, VendorField
<1>4. Dialogue!FieldsOf("item") = ItemField
  BY DEF Dialogue!FieldsOf, ItemField
<1>5. Dialogue!Last("worker") = "doj" /\ Dialogue!Last("vendor") = "address"
      /\ Dialogue!Last("item") = "threshold"
  BY DEF Dialogue!Last
<1>6. \A f \in Dialogue!Forms : Dialogue!Fields[f][1] = "name"
  BY <1>1
<1> QED
  BY <1>1, <1>2, <1>3, <1>4, <1>5, <1>6

LEMMA FieldsAre ==
  /\ \A f \in Dialogue!Forms : Dialogue!FieldsOf(f) \subseteq Dialogue!Field
  /\ Dialogue!Blank \notin Dialogue!Field
<1>1. \A f \in Dialogue!Forms : Dialogue!FieldsOf(f) \subseteq Dialogue!Field
  BY DEF Dialogue!Field
<1>2. Dialogue!Blank \notin WorkerField \union VendorField \union ItemField
  BY DEF WorkerField, VendorField, ItemField, Dialogue!Blank
<1>3. \A q \in Dialogue!Field : \E f \in Dialogue!Forms : q \in Dialogue!FieldsOf(f)
  BY DEF Dialogue!Field
<1> QED
  BY <1>1, <1>2, <1>3, FormsAre

(* The questions a form asks before q. *)
Before(q) ==
    CASE q = "name"      -> {}
      [] q = "phone"     -> {"name"}
      [] q = "gst"       -> {"name", "phone"}
      [] q = "address"   -> {"name", "phone", "gst"}
      [] q = "sku"       -> {"name"}
      [] q = "category"  -> {"name", "sku"}
      [] q = "location"  -> {"name", "sku", "category"}
      [] q = "unit"      -> {"name", "sku", "category", "location"}
      [] q = "threshold" -> {"name", "sku", "category", "location", "unit"}

LEMMA AfterWorker ==
  ASSUME NEW q \in WorkerField, q # "doj"
  PROVE  Dialogue!After("worker", q) \in WorkerField
<1>1. \E j \in 1..5 : Dialogue!Fields["worker"][j] = q
  BY DEF Dialogue!Fields, WorkerField
<1>2. DOMAIN Dialogue!Fields["worker"] = 1..5
  BY DEF Dialogue!Fields
<1>3. PICK i \in 1..5 : /\ i = CHOOSE j \in DOMAIN Dialogue!Fields["worker"] : Dialogue!Fields["worker"][j] = q
                        /\ Dialogue!Fields["worker"][i] = q
  BY <1>1, <1>2
<1>4. i # 5
  <2>1. Dialogue!Fields["worker"][5] = "doj"
    BY DEF Dialogue!Fields
  <2> QED
    BY <1>3, <2>1
<1>5. Dialogue!After("worker", q) = Dialogue!Fields["worker"][i + 1]
  BY <1>3 DEF Dialogue!After
<1>6. i + 1 \in 2..5
  BY <1>4
<1> QED
  BY <1>5, <1>6 DEF Dialogue!Fields, WorkerField

LEMMA AfterVendor ==
  /\ Dialogue!After("vendor", "name") = "phone"
  /\ Dialogue!After("vendor", "phone") = "gst"
  /\ Dialogue!After("vendor", "gst") = "address"
<1> DEFINE F == Dialogue!Fields["vendor"]
<1>1. DOMAIN F = 1..4 /\ F[1] = "name" /\ F[2] = "phone" /\ F[3] = "gst" /\ F[4] = "address"
  BY DEF Dialogue!Fields
<1>2. \A q : Dialogue!After("vendor", q) = F[(CHOOSE j \in DOMAIN F : F[j] = q) + 1]
  BY DEF Dialogue!After
<1> HIDE DEF F
<1>3. \A q \in {"name", "phone", "gst"}, j \in DOMAIN F :
         F[j] = q => (CHOOSE k \in DOMAIN F : F[k] = q) = j
  <2> SUFFICES ASSUME NEW q \in {"name", "phone", "gst"}, NEW j \in DOMAIN F, F[j] = q
               PROVE  (CHOOSE k \in DOMAIN F : F[k] = q) = j
    OBVIOUS
  <2>1. PICK i \in DOMAIN F : i = (CHOOSE k \in DOMAIN F : F[k] = q) /\ F[i] = q
    OBVIOUS
  <2>2. i = j
    BY <1>1, <2>1
  <2> QED
    BY <2>1, <2>2
<1> QED
  BY <1>1, <1>2, <1>3

LEMMA AfterItem ==
  /\ Dialogue!After("item", "name") = "sku"
  /\ Dialogue!After("item", "sku") = "category"
  /\ Dialogue!After("item", "category") = "location"
  /\ Dialogue!After("item", "location") = "unit"
  /\ Dialogue!After("item", "unit") = "threshold"
<1> DEFINE F == Dialogue!Fields["item"]
<1>1. /\ DOMAIN F = 1..6 /\ F[1] = "name" /\ F[2] = "sku" /\ F[3] = "category" /\ F[4] = "location"
      /\ F[5] = "unit" /\ F[6] = "threshold"
  BY DEF Dialogue!Fields
<1>2. \A q : Dialogue!After("item", q) = F[(CHOOSE j \in DOMAIN F : F[j] = q) + 1]
  BY DEF Dialogue!After
<1> HIDE DEF F
<1>3. \A q \in ItemField, j \in DOMAIN F : F[j] = q => (CHOOSE k \in DOMAIN F : F[k] = q) = j
  <2> SUFFICES ASSUME NEW q \in ItemField, NEW j \in DOMAIN F, F[j] = q
               PROVE  (CHOOSE k \in DOMAIN F : F[k] = q) = j
    OBVIOUS
  <2>1. PICK i \in DOMAIN F : i = (CHOOSE k \in DOMAIN F : F[k] = q) /\ F[i] = q
    OBVIOUS
  <2>2. i = j
    BY <1>1, <2>1
  <2> QED
    BY <2>1, <2>2
<1> QED
  BY <1>1, <1>2, <1>3 DEF ItemField

(* The order of the questions of vendors and items. *)
LEMMA QuestionsInOrder ==
  ASSUME NEW f \in {"vendor", "item"}
  PROVE  /\ \A q \in Dialogue!FieldsOf(f) \ {Dialogue!Last(f)} :
              /\ Dialogue!After(f, q) \in Dialogue!FieldsOf(f)
              /\ Before(Dialogue!After(f, q)) \subseteq Before(q) \union {q}
         /\ Dialogue!FieldsOf(f) \subseteq Before(Dialogue!Last(f)) \union {Dialogue!Last(f)}
         /\ Dialogue!FieldsOf(f) # {} /\ Dialogue!Last(f) \in Dialogue!FieldsOf(f)
         /\ \A b \in Dialogue!Blamed[f] :
              b \in Dialogue!FieldsOf(f) /\ Before(b) \subseteq Before(Dialogue!Last(f)) \ {b}
<1>1. CASE f = "vendor"
  <2>1. Dialogue!Blamed["vendor"] = {"name", "phone"}
    BY DEF Dialogue!Blamed
  <2> QED
    BY <1>1, <2>1, FormsAre, AfterVendor DEF VendorField, Before
<1>2. CASE f = "item"
  <2>1. Dialogue!Blamed["item"] = {"sku", "category"}
    BY DEF Dialogue!Blamed
  <2> QED
    BY <1>2, <2>1, FormsAre, AfterItem DEF ItemField, Before
<1> QED
  BY <1>1, <1>2

-----------------------------------------------------------------------------
(* Answers stand at the questions before the one that is asked; an order that
   is confirmed or goes on has both parts of its item; the list shown is the
   one kept. *)
OrderItem == [item : Nat, quantity : Nat, link : Nat]
OrderType ==
    [title : BOOLEAN, item : Nat, quantity : Nat, link : Nat, items : Seq(OrderItem), confirm : BOOLEAN]
GoodItem(x, i) == x.item = i /\ x.quantity = i /\ x.link \in {0, i}

OrderOK(o) ==
    /\ o \in OrderType
    /\ Len(o.items) < MaxItems
    /\ \A i \in 1..Len(o.items) : GoodItem(o.items[i], i)
    /\ {o.item, o.quantity, o.link} \subseteq {0, Len(o.items) + 1}
    /\ o.quantity # 0 => o.item # 0
    /\ o.item # 0 => o.title
    /\ o.confirm => o.quantity # 0

AnswersOK ==
    form \in {"vendor", "item"} =>
        /\ dialogueAsked = step
        /\ \A q \in Dialogue!FieldsOf(form) : data[q] \in {Dialogue!Blank, q}
        /\ \A q \in Before(step) : data[q] = q

SessionOK ==
    /\ form \in Dialogue!Forms \union {"order", "assign", "none"}
    /\ data \in [Dialogue!Field -> Dialogue!Field \union {Dialogue!Blank}]
    /\ form \in Dialogue!Forms => step \in Dialogue!FieldsOf(form) /\ dialogueAsked \in Dialogue!FieldsOf(form)
    /\ form = "order" => step \in {"creation", "approval", "vendor", "close"}
    /\ OrderOK(order)
    /\ {listed, shown} \subseteq Dialogue!Listings
    /\ form = "assign" => shown = listed
    /\ AnswersOK

WorldOK ==
    /\ team \in Dialogue!Listings
    /\ lists \subseteq {"category", "location", "vendor"}
    /\ request \in {"none", "pending", "approved", "rejected", "assigned", "closed"}
    /\ messages \in 0..MaxMessages /\ changes \in 0..MaxChanges

MadeOK == Dialogue!MadeWhole /\ Dialogue!PickedAsShown

DialogueIInv == SessionOK /\ WorldOK /\ MadeOK

LEMMA DialogueConstants ==
  /\ MaxItems \in Nat \ {0} /\ MaxMessages \in Nat /\ MaxChanges \in Nat
  /\ <<>> \in Dialogue!Listings
<1>1. MaxItems \in Nat \ {0} /\ MaxMessages \in Nat /\ MaxChanges \in Nat /\ Dialogue!IsFiniteSet(Colleague)
  BY DialogueAssumption DEF Dialogue!DialoguesAssumption
<1>2. IsFiniteSet(Colleague)
  BY <1>1 DEF Dialogue!IsFiniteSet, IsFiniteSet
<1>3. Dialogue!Cardinality(Colleague) = Cardinality(Colleague)
  BY DEF Dialogue!Cardinality, Cardinality
<1>4. Dialogue!Cardinality(Colleague) \in Nat
  BY <1>2, <1>3, FS_CardinalityType
<1>5. <<>> \in [1..0 -> Colleague]
  OBVIOUS
<1>6. 0 \in 0..Dialogue!Cardinality(Colleague)
  BY <1>4
<1> QED
  BY <1>1, <1>5, <1>6 DEF Dialogue!Listings

LEMMA NoOrderOK == OrderOK(Dialogue!NoOrder)
<1>1. <<>> \in Seq(OrderItem) /\ Len(<<>>) = 0
  OBVIOUS
<1> QED
  BY <1>1, DialogueConstants DEF OrderOK, OrderType, Dialogue!NoOrder

LEMMA NoDataOK == Dialogue!NoData \in [Dialogue!Field -> Dialogue!Field \union {Dialogue!Blank}]
  BY DEF Dialogue!NoData

LEMMA NothingMade ==
  /\ Dialogue!Nothing.kind = "nothing"
  /\ \A k : [Dialogue!Nothing EXCEPT !.kind = k].kind = k
  BY DEF Dialogue!Nothing

LEMMA DialogueHolds ==
  ASSUME DialogueIInv
  PROVE  Dialogue!TypeOK /\ Dialogue!MadeWhole /\ Dialogue!PickedAsShown
<1>1. order.item \in 0..MaxItems /\ order.quantity \in 0..MaxItems /\ Len(order.items) < MaxItems
  <2>1. OrderOK(order) /\ Len(order.items) \in Nat
    BY DEF DialogueIInv, SessionOK, OrderOK, OrderType
  <2> QED
    BY <2>1, DialogueConstants DEF OrderOK, OrderType
<1> QED
  BY <1>1 DEF DialogueIInv, SessionOK, WorldOK, MadeOK, Dialogue!TypeOK

LEMMA InitDialogue == Dialogue!Init => DialogueIInv
<1> SUFFICES ASSUME Dialogue!Init PROVE DialogueIInv
  OBVIOUS
<1>1. SessionOK
  BY NoOrderOK, NoDataOK, DialogueConstants, FormsAre DEF Dialogue!Init, SessionOK, AnswersOK
<1>2. WorldOK
  BY DialogueConstants DEF Dialogue!Init, WorldOK
<1>3. MadeOK
  BY NothingMade, FormsAre DEF Dialogue!Init, MadeOK, Dialogue!MadeWhole, Dialogue!PickedAsShown
<1> QED
  BY <1>1, <1>2, <1>3 DEF DialogueIInv

(* The parts a message leaves as they are. *)
LEMMA HearsIs == ASSUME WorldOK, Dialogue!Hears PROVE WorldOK'
  BY DialogueConstants DEF WorldOK, Dialogue!Hears, Dialogue!world

LEMMA MadeStays == ASSUME MadeOK, UNCHANGED made PROVE MadeOK'
  BY DEF MadeOK, Dialogue!MadeWhole, Dialogue!PickedAsShown

LEMMA OverIs == ASSUME Dialogue!Over PROVE SessionOK'
  BY NoOrderOK, NoDataOK, DialogueConstants, FormsAre DEF Dialogue!Over, SessionOK, AnswersOK, OrderOK,
     OrderType

(* The question a message is for. *)
LEMMA NeededIs ==
  ASSUME SessionOK, form \in Dialogue!Forms
  PROVE  /\ Dialogue!Needed \in Dialogue!FieldsOf(form)
         /\ form # "worker" => Dialogue!Needed = step
         /\ form = "worker" /\ Dialogue!Needed = "doj" =>
              \A q \in {"name", "phone", "department", "role"} : data[q] # Dialogue!Blank
<1>1. CASE form # "worker" \/ \A q \in {"name", "phone", "department", "role"} : data[q] # Dialogue!Blank
  BY <1>1 DEF Dialogue!Needed, SessionOK
<1>2. CASE form = "worker" /\ ~(\A q \in {"name", "phone", "department", "role"} : data[q] # Dialogue!Blank)
  <2> DEFINE F == Dialogue!Fields.worker
             B(j) == data[F[j]] = Dialogue!Blank
             i == CHOOSE j \in 1..4 : data[F[j]] = Dialogue!Blank
                                  /\ \A k \in 1..j-1 : data[F[k]] # Dialogue!Blank
  <2>1. F[1] = "name" /\ F[2] = "phone" /\ F[3] = "department" /\ F[4] = "role"
    BY DEF Dialogue!Fields
  <2>2. Dialogue!Needed = F[i]
    BY <1>2 DEF Dialogue!Needed
  <2> HIDE DEF F
  <2>3. \E j \in 1..4 : B(j) /\ \A k \in 1..j-1 : ~B(k)
    <3>1. B(1) \/ B(2) \/ B(3) \/ B(4)
      BY <1>2, <2>1
    <3>2. CASE B(1)
      BY <3>2
    <3>3. CASE ~B(1) /\ B(2)
      <4>1. \A k \in 1..2-1 : k = 1
        OBVIOUS
      <4> QED
        BY <3>3, <4>1
    <3>4. CASE ~B(1) /\ ~B(2) /\ B(3)
      <4>1. \A k \in 1..3-1 : k = 1 \/ k = 2
        OBVIOUS
      <4> QED
        BY <3>4, <4>1
    <3>5. CASE ~B(1) /\ ~B(2) /\ ~B(3) /\ B(4)
      <4>1. \A k \in 1..4-1 : k = 1 \/ k = 2 \/ k = 3
        OBVIOUS
      <4> QED
        BY <3>5, <4>1
    <3> QED
      BY <3>1, <3>2, <3>3, <3>4, <3>5
  <2>4. i \in 1..4
    BY <2>3
  <2> HIDE DEF i
  <2>5. Dialogue!Needed \in {"name", "phone", "department", "role"}
    BY <2>1, <2>2, <2>4
  <2> QED
    BY <1>2, <2>5, FormsAre DEF WorkerField
<1> QED
  BY <1>1, <1>2

LEMMA QuestionIs ==
  ASSUME SessionOK, form \in Dialogue!Forms, NEW m
  PROVE  /\ Dialogue!Question(m) \in Dialogue!FieldsOf(form)
         /\ form # "worker" => Dialogue!Question(m) = step
         /\ form = "worker" /\ Dialogue!Question(m) = "doj" =>
              \A q \in {"name", "phone", "department", "role"} : data[q] # Dialogue!Blank
  BY NeededIs, FormsAre DEF Dialogue!Question, WorkerField

(* The forms: a session that goes on asking. *)
LEMMA AskedIs ==
  ASSUME SessionOK, form \in Dialogue!Forms, NEW s \in Dialogue!FieldsOf(form),
         NEW q \in Dialogue!FieldsOf(form),
         NEW d \in [Dialogue!Field -> Dialogue!Field \union {Dialogue!Blank}], Dialogue!Asks(s, d, q),
         form \in {"vendor", "item"} =>
            /\ q = s
            /\ \A x \in Dialogue!FieldsOf(form) : d[x] \in {Dialogue!Blank, x}
            /\ \A x \in Before(s) : d[x] = x
  PROVE  SessionOK'
<1>1. form' = form /\ step' = s /\ data' = d /\ dialogueAsked' = q /\ UNCHANGED <<order, listed, shown>>
  BY DEF Dialogue!Asks
<1>2. AnswersOK'
  BY <1>1 DEF AnswersOK
<1> QED
  BY <1>1, <1>2, FormsAre DEF SessionOK

LEMMA StartFormStep ==
  ASSUME DialogueIInv, NEW f \in Dialogue!Forms, Dialogue!StartForm(f)
  PROVE  DialogueIInv'
<1>1. WorldOK' /\ MadeOK'
  BY HearsIs, MadeStays DEF DialogueIInv, Dialogue!StartForm, Dialogue!Starts
<1>2. /\ form' = f /\ step' = "name" /\ data' = Dialogue!NoData /\ order' = Dialogue!NoOrder
      /\ listed' = <<>> /\ dialogueAsked' = "name" /\ shown' = shown
  BY FormsAre DEF Dialogue!StartForm, Dialogue!Starts
<1>3. "name" \in Dialogue!FieldsOf(f)
  BY FormsAre DEF WorkerField, VendorField, ItemField
<1>4. AnswersOK'
  <2>1. \A q \in Dialogue!FieldsOf(f) : data'[q] = Dialogue!Blank
    BY <1>2, FieldsAre DEF Dialogue!NoData
  <2> QED
    BY <1>2, <2>1 DEF AnswersOK, Before
<1>5. SessionOK'
  BY <1>2, <1>3, <1>4, FormsAre, NoDataOK, NoOrderOK, DialogueConstants DEF DialogueIInv, SessionOK
<1> QED
  BY <1>1, <1>5 DEF DialogueIInv

(* An answer at its question. *)
LEMMA AnsweredIs ==
  ASSUME SessionOK, form \in Dialogue!Forms, NEW q \in Dialogue!FieldsOf(form), form # "worker" => q = step
  PROVE  /\ [data EXCEPT ![q] = dialogueAsked] \in [Dialogue!Field -> Dialogue!Field \union {Dialogue!Blank}]
         /\ [data EXCEPT ![q] = dialogueAsked][q] = dialogueAsked
         /\ dialogueAsked # Dialogue!Blank
         /\ \A x \in Dialogue!Field \ {q} : [data EXCEPT ![q] = dialogueAsked][x] = data[x]
         /\ form \in {"vendor", "item"} =>
              /\ \A x \in Dialogue!FieldsOf(form) : [data EXCEPT ![q] = dialogueAsked][x] \in {Dialogue!Blank, x}
              /\ \A x \in Before(q) \union {q} : [data EXCEPT ![q] = dialogueAsked][x] = x
<1>1. q \in Dialogue!Field /\ dialogueAsked \in Dialogue!Field /\ dialogueAsked # Dialogue!Blank
  BY FieldsAre DEF SessionOK
<1>2. data \in [Dialogue!Field -> Dialogue!Field \union {Dialogue!Blank}]
  BY DEF SessionOK
<1>3. ASSUME form \in {"vendor", "item"}
      PROVE  /\ \A x \in Dialogue!FieldsOf(form) : [data EXCEPT ![q] = dialogueAsked][x] \in {Dialogue!Blank, x}
             /\ \A x \in Before(q) \union {q} : [data EXCEPT ![q] = dialogueAsked][x] = x
  <2>1. q = step /\ dialogueAsked = q /\ \A x \in Before(q) : data[x] = x
    BY <1>3 DEF SessionOK, AnswersOK
  <2>2. \A x \in Dialogue!FieldsOf(form) : x \in Dialogue!Field /\ data[x] \in {Dialogue!Blank, x}
    BY <1>3, FieldsAre DEF SessionOK, AnswersOK
  <2>3. \A x : x \notin Dialogue!Field \/ x = q \/ [data EXCEPT ![q] = dialogueAsked][x] = data[x]
    BY <1>2
  <2>4. Before(q) \subseteq Dialogue!FieldsOf(form)
    BY <1>3, FormsAre DEF Before, VendorField, ItemField
  <2> QED
    BY <1>1, <1>2, <2>1, <2>2, <2>3, <2>4
<1> QED
  BY <1>1, <1>2, <1>3

LEMMA RefuseStep ==
  ASSUME DialogueIInv, NEW m, Dialogue!Refuse(m) \/ Dialogue!GiveUp(m)
  PROVE  DialogueIInv'
<1>1. WorldOK' /\ MadeOK'
  BY HearsIs, MadeStays DEF DialogueIInv, Dialogue!Refuse, Dialogue!GiveUp
<1>2. CASE Dialogue!Refuse(m)
  <2>1. form \in Dialogue!Forms /\ SessionOK /\ Dialogue!Asks(Dialogue!Needed, data, Dialogue!Question(m))
    BY <1>2 DEF Dialogue!Refuse, DialogueIInv
  <2>2. SessionOK'
    BY <2>1, AskedIs, NeededIs, QuestionIs, FormsAre DEF SessionOK, AnswersOK
  <2> QED
    BY <1>1, <2>2 DEF DialogueIInv
<1>3. CASE Dialogue!GiveUp(m)
  BY <1>1, <1>3, OverIs DEF DialogueIInv, Dialogue!GiveUp
<1> QED
  BY <1>2, <1>3

LEMMA TakeStep ==
  ASSUME DialogueIInv, NEW m, Dialogue!Take(m)
  PROVE  DialogueIInv'
<1>1. WorldOK' /\ MadeOK'
  BY HearsIs, MadeStays DEF DialogueIInv, Dialogue!Take
<1>2. PICK q : /\ q = Dialogue!Question(m) /\ form \in Dialogue!Forms /\ q # Dialogue!Last(form)
               /\ Dialogue!Asks(Dialogue!After(form, q), [data EXCEPT ![q] = dialogueAsked], Dialogue!After(form, q))
  BY DEF Dialogue!Take
<1>3. SessionOK /\ q \in Dialogue!FieldsOf(form) /\ (form # "worker" => q = step)
  BY <1>2, QuestionIs DEF DialogueIInv
<1>4. PICK d : d = [data EXCEPT ![q] = dialogueAsked]
  OBVIOUS
<1>5. /\ d \in [Dialogue!Field -> Dialogue!Field \union {Dialogue!Blank}]
      /\ form \in {"vendor", "item"} =>
           /\ \A x \in Dialogue!FieldsOf(form) : d[x] \in {Dialogue!Blank, x}
           /\ \A x \in Before(q) \union {q} : d[x] = x
  BY <1>2, <1>3, <1>4, AnsweredIs
<1>6. PICK s : s = Dialogue!After(form, q)
  OBVIOUS
<1>7. s \in Dialogue!FieldsOf(form) /\ (form \in {"vendor", "item"} => Before(s) \subseteq Before(q) \union {q})
  BY <1>2, <1>3, <1>6, FormsAre, AfterWorker, QuestionsInOrder
<1>8. Dialogue!Asks(s, d, s)
  BY <1>2, <1>4, <1>6
<1>9. SessionOK'
  BY <1>2, <1>3, <1>5, <1>7, <1>8, AskedIs
<1> QED
  BY <1>1, <1>9 DEF DialogueIInv

LEMMA MakeStep ==
  ASSUME DialogueIInv, NEW m, Dialogue!Make(m)
  PROVE  DialogueIInv'
<1>1. WorldOK' /\ SessionOK'
  BY HearsIs, OverIs DEF DialogueIInv, Dialogue!Make
<1>2. PICK q : /\ q = Dialogue!Question(m) /\ form \in Dialogue!Forms /\ q = Dialogue!Last(form)
               /\ made' = [Dialogue!Nothing EXCEPT !.kind = form, !.data = [data EXCEPT ![q] = dialogueAsked]]
  BY DEF Dialogue!Make
<1>3. SessionOK /\ q \in Dialogue!FieldsOf(form) /\ (form # "worker" => q = step)
  BY <1>2, QuestionIs DEF DialogueIInv
<1>4. PICK d : d = [data EXCEPT ![q] = dialogueAsked]
  OBVIOUS
<1>5. /\ d[q] # Dialogue!Blank /\ \A x \in Dialogue!Field \ {q} : d[x] = data[x]
      /\ form \in {"vendor", "item"} => \A x \in Before(q) \union {q} : d[x] = x
  BY <1>2, <1>3, <1>4, AnsweredIs
<1>6. made'.kind = form /\ made'.data = d
  BY <1>2, <1>4 DEF Dialogue!Nothing
<1>7. form \in {"vendor", "item"} => \A x \in Dialogue!FieldsOf(form) : d[x] = x
  BY <1>2, <1>5, QuestionsInOrder
<1>8. ASSUME NEW x \in Dialogue!FieldsOf(form) PROVE d[x] # Dialogue!Blank
  <2>1. x \in Dialogue!Field
    BY <1>2, FieldsAre
  <2>2. CASE form = "worker"
    <3>1. q = "doj" /\ x \in WorkerField
      BY <1>2, <2>2, FormsAre
    <3>2. x # q => data[x] # Dialogue!Blank
      BY <1>2, <1>3, <2>2, <3>1, QuestionIs DEF WorkerField
    <3> QED
      BY <1>5, <2>1, <3>2
  <2>3. CASE form # "worker"
    BY <1>2, <1>7, <2>1, <2>3, FormsAre, FieldsAre
  <2> QED
    BY <2>2, <2>3
<1>9. MadeOK'
  BY <1>2, <1>6, <1>7, <1>8, FormsAre DEF MadeOK, Dialogue!MadeWhole, Dialogue!PickedAsShown
<1> QED
  BY <1>1, <1>9 DEF DialogueIInv

LEMMA MakeFailsStep ==
  ASSUME DialogueIInv, NEW m, NEW b, Dialogue!MakeFails(m, b)
  PROVE  DialogueIInv'
<1>1. WorldOK' /\ MadeOK'
  BY HearsIs, MadeStays DEF DialogueIInv, Dialogue!MakeFails
<1>2. PICK q : q = Dialogue!Question(m)
  OBVIOUS
<1>3. PICK d : d = [data EXCEPT ![q] = dialogueAsked]
  OBVIOUS
<1>4. PICK k : k = IF b = "name" THEN data ELSE d
  OBVIOUS
<1>5. /\ form \in Dialogue!Forms /\ q = Dialogue!Last(form)
      /\ IF b \in Dialogue!Blamed[form] THEN Dialogue!Asks(b, [k EXCEPT ![b] = Dialogue!Blank], b)
         ELSE Dialogue!Asks(Dialogue!Needed, d, dialogueAsked)
  BY <1>2, <1>3, <1>4 DEF Dialogue!MakeFails
<1>6. SessionOK /\ q \in Dialogue!FieldsOf(form) /\ (form # "worker" => q = step)
  BY <1>2, <1>5, QuestionIs DEF DialogueIInv
<1>7. /\ d \in [Dialogue!Field -> Dialogue!Field \union {Dialogue!Blank}]
      /\ form \in {"vendor", "item"} =>
           /\ \A x \in Dialogue!FieldsOf(form) : d[x] \in {Dialogue!Blank, x}
           /\ \A x \in Before(q) \union {q} : d[x] = x
  BY <1>3, <1>5, <1>6, AnsweredIs
<1>8. CASE b \in Dialogue!Blamed[form]
  <2>1. b \in Dialogue!FieldsOf(form)
    <3>1. form = "worker" => b \in WorkerField
      BY <1>8 DEF Dialogue!Blamed, WorkerField
    <3> QED
      BY <1>5, <1>8, <3>1, FormsAre, QuestionsInOrder
  <2>2. PICK e : e = [k EXCEPT ![b] = Dialogue!Blank]
    OBVIOUS
  <2>3. /\ k \in [Dialogue!Field -> Dialogue!Field \union {Dialogue!Blank}]
        /\ form \in {"vendor", "item"} =>
             /\ \A x \in Dialogue!FieldsOf(form) : k[x] \in {Dialogue!Blank, x}
             /\ \A x \in Before(q) : k[x] = x
    BY <1>4, <1>6, <1>7 DEF SessionOK, AnswersOK
  <2>4. /\ e \in [Dialogue!Field -> Dialogue!Field \union {Dialogue!Blank}]
        /\ e[b] = Dialogue!Blank /\ \A x \in Dialogue!Field \ {b} : e[x] = k[x]
    BY <1>5, <2>1, <2>2, <2>3, FieldsAre
  <2>5. ASSUME form \in {"vendor", "item"}
        PROVE  /\ \A x \in Dialogue!FieldsOf(form) : e[x] \in {Dialogue!Blank, x}
               /\ \A x \in Before(b) : e[x] = x
    <3>1. Before(b) \subseteq Before(q) \ {b}
      BY <1>5, <1>8, <2>5, QuestionsInOrder
    <3>2. Before(b) \subseteq Dialogue!FieldsOf(form)
      BY <2>1, <2>5, FormsAre DEF Before, VendorField, ItemField
    <3> QED
      BY <1>5, <2>3, <2>4, <2>5, <3>1, <3>2, FieldsAre
  <2>6. Dialogue!Asks(b, e, b)
    BY <1>5, <1>8, <2>2
  <2>7. SessionOK'
    BY <1>5, <1>6, <2>1, <2>4, <2>5, <2>6, AskedIs
  <2> QED
    BY <1>1, <2>7 DEF DialogueIInv
<1>9. CASE b \notin Dialogue!Blamed[form]
  <2>1. Dialogue!Needed \in Dialogue!FieldsOf(form) /\ (form # "worker" => Dialogue!Needed = step)
    BY <1>5, <1>6, NeededIs
  <2>2. Dialogue!Asks(Dialogue!Needed, d, dialogueAsked)
    BY <1>5, <1>9
  <2>3. dialogueAsked \in Dialogue!FieldsOf(form) /\ (form \in {"vendor", "item"} => dialogueAsked = step)
    BY <1>5, <1>6 DEF SessionOK, AnswersOK
  <2>4. SessionOK'
    BY <1>5, <1>6, <1>7, <2>1, <2>2, <2>3, AskedIs
  <2> QED
    BY <1>1, <2>4 DEF DialogueIInv
<1> QED
  BY <1>8, <1>9

(* The order. *)
LEMMA OrderPatched ==
  ASSUME NEW o, OrderOK(o), NEW p \in OrderType, p.items = o.items,
         {p.item, p.quantity, p.link} \subseteq {0, Len(o.items) + 1},
         p.quantity # 0 => p.item # 0, p.item # 0 => p.title, p.confirm => p.quantity # 0
  PROVE  OrderOK(p)
  BY DEF OrderOK, OrderType

LEMMA OrderOf ==
  ASSUME SessionOK
  PROVE  /\ OrderOK(order) /\ order.items \in Seq(OrderItem) /\ Len(order.items) \in Nat
         /\ Dialogue!Round = Len(order.items) + 1 /\ Dialogue!CurrentItem \in OrderItem /\ order \in OrderType
         /\ order.item # 0 /\ order.quantity # 0 => GoodItem(Dialogue!CurrentItem, Dialogue!Round)
<1>1. OrderOK(order)
  BY DEF SessionOK
<1>2. order.items \in Seq(OrderItem) /\ Len(order.items) \in Nat
  BY <1>1 DEF OrderOK, OrderType
<1> QED
  BY <1>1, <1>2 DEF OrderOK, OrderType, Dialogue!Round, Dialogue!CurrentItem, OrderItem, GoodItem

LEMMA OrdersIs ==
  ASSUME SessionOK, form = "order", NEW o, OrderOK(o), NEW q, Dialogue!Orders(o, q)
  PROVE  SessionOK'
<1>1. /\ order' = o /\ dialogueAsked' = q
      /\ form' = form /\ step' = step /\ data' = data /\ listed' = listed /\ shown' = shown
  BY DEF Dialogue!Orders
<1> QED
  BY <1>1, FormsAre DEF SessionOK, AnswersOK

LEMMA StaysIs == ASSUME SessionOK, UNCHANGED Dialogue!session PROVE SessionOK'
  BY DEF SessionOK, AnswersOK, Dialogue!session

(* A dialogue of an order that goes on to its next part. *)
LEMMA PartIs ==
  ASSUME SessionOK, form = "order", step' \in {"creation", "approval", "vendor", "close"},
         order' \in {order, Dialogue!NoOrder}, UNCHANGED <<form, data, listed, shown>>
  PROVE  SessionOK'
<1>1. OrderOK(order')
  BY NoOrderOK DEF SessionOK
<1> QED
  BY <1>1, FormsAre DEF SessionOK, AnswersOK

LEMMA OrderedIs ==
  ASSUME WorldOK, messages < MaxMessages, messages' = messages + 1, UNCHANGED <<lists, team, changes>>,
         request' \in {"none", "pending", "approved", "rejected", "assigned", "closed"}
  PROVE  WorldOK'
  BY DialogueConstants DEF WorldOK

LEMMA SubmitIs ==
  ASSUME DialogueIInv, form = "order", messages < MaxMessages, messages' = messages + 1,
         order.item # 0, order.quantity # 0, Dialogue!Submit
  PROVE  DialogueIInv'
<1>1. WorldOK'
  BY OrderedIs DEF DialogueIInv, Dialogue!Submit
<1>2. SessionOK'
  BY OverIs, PartIs DEF DialogueIInv, Dialogue!Submit
<1>3. made'.kind = "order" /\ made'.items = Append(order.items, Dialogue!CurrentItem)
  BY DEF Dialogue!Submit, Dialogue!Nothing
<1>4. ASSUME NEW i \in DOMAIN made'.items PROVE GoodItem(made'.items[i], i)
  <2>1. /\ OrderOK(order) /\ order.items \in Seq(OrderItem) /\ Len(order.items) \in Nat
        /\ Dialogue!CurrentItem \in OrderItem /\ GoodItem(Dialogue!CurrentItem, Len(order.items) + 1)
    BY OrderOf DEF DialogueIInv
  <2>2. i \in 1..Len(order.items) + 1
    BY <1>3, <2>1
  <2>3. CASE i = Len(order.items) + 1
    BY <1>3, <2>1, <2>3
  <2>4. CASE i \in 1..Len(order.items)
    BY <1>3, <2>1, <2>4 DEF OrderOK, OrderType
  <2> QED
    BY <2>1, <2>2, <2>3, <2>4
<1>5. MadeOK'
  BY <1>3, <1>4, FormsAre DEF MadeOK, Dialogue!MadeWhole, Dialogue!PickedAsShown, GoodItem
<1> QED
  BY <1>1, <1>2, <1>5 DEF DialogueIInv

LEMMA SameIs ==
  ASSUME DialogueIInv, Dialogue!OrderHears, Dialogue!Same
  PROVE  WorldOK' /\ MadeOK'
  BY OrderedIs, MadeStays DEF DialogueIInv, WorldOK, Dialogue!OrderHears, Dialogue!Same, Dialogue!world

LEMMA StartOrderStep ==
  ASSUME DialogueIInv, Dialogue!StartOrder
  PROVE  DialogueIInv'
<1>1. WorldOK' /\ MadeOK'
  BY HearsIs, MadeStays DEF DialogueIInv, Dialogue!StartOrder, Dialogue!Starts
<1> DEFINE suggestion == [Dialogue!NoOrder EXCEPT !.title = TRUE, !.item = 1, !.quantity = 1, !.link = 1,
           !.confirm = TRUE]
<1>2. OrderOK(suggestion)
  <2>1. OrderOK(Dialogue!NoOrder) /\ Dialogue!NoOrder.items = <<>> /\ Len(<<>>) = 0
    BY NoOrderOK DEF Dialogue!NoOrder
  <2>2. suggestion \in OrderType /\ Dialogue!NoOrder \in OrderType
    BY <2>1 DEF OrderOK, OrderType
  <2>3. /\ suggestion.items = <<>> /\ suggestion.item = 1 /\ suggestion.quantity = 1 /\ suggestion.link = 1
        /\ suggestion.title
    BY DEF Dialogue!NoOrder
  <2> HIDE DEF suggestion
  <2> QED
    BY <2>1, <2>2, <2>3, OrderPatched
<1> HIDE DEF suggestion
<1>3. /\ form' = "order" /\ step' = "creation" /\ data' = Dialogue!NoData /\ listed' = <<>> /\ shown' = shown
      /\ order' \in {Dialogue!NoOrder, suggestion}
  BY DEF Dialogue!StartOrder, Dialogue!Starts, suggestion
<1>4. OrderOK(order')
  BY <1>2, <1>3, NoOrderOK
<1>5. SessionOK'
  BY <1>3, <1>4, FormsAre, NoDataOK, DialogueConstants DEF DialogueIInv, SessionOK, AnswersOK
<1> QED
  BY <1>1, <1>5 DEF DialogueIInv

LEMMA ConfirmStep ==
  ASSUME DialogueIInv, NEW m, Dialogue!Confirm(m)
  PROVE  DialogueIInv'
<1>1. form = "order" /\ SessionOK /\ OrderOK(order) /\ order.item # 0 /\ order.quantity # 0
  BY DEF DialogueIInv, SessionOK, OrderOK, OrderType, Dialogue!Confirm, Dialogue!OrderHears
<1>2. CASE Dialogue!Submit
  BY <1>1, <1>2, SubmitIs DEF Dialogue!Confirm, Dialogue!OrderHears
<1>3. CASE (\E o \in {order, Dialogue!NoOrder} : \E q : Dialogue!Orders(o, q)) /\ Dialogue!Same
  <2>1. SessionOK'
    BY <1>1, <1>3, OrdersIs, NoOrderOK
  <2> QED
    BY <1>3, <2>1, SameIs DEF DialogueIInv, Dialogue!Confirm
<1> QED
  BY <1>2, <1>3 DEF Dialogue!Confirm

LEMMA DetailStep ==
  ASSUME DialogueIInv, NEW m, Dialogue!Detail(m)
  PROVE  DialogueIInv'
<1>1. /\ form = "order" /\ SessionOK /\ OrderOK(order) /\ Len(order.items) \in Nat
      /\ Dialogue!Round = Len(order.items) + 1 /\ Dialogue!OrderHears /\ ~order.confirm
  BY OrderOf DEF DialogueIInv, Dialogue!Detail, Dialogue!OrderHears
<1>2. CASE Dialogue!Submit /\ order.item # 0 /\ order.quantity # 0
  BY <1>1, <1>2, SubmitIs DEF Dialogue!OrderHears
<1>3. CASE (\E o, q : OrderOK(o) /\ Dialogue!Orders(o, q)) /\ Dialogue!Same
  <2>1. SessionOK'
    BY <1>1, <1>3, OrdersIs
  <2> QED
    BY <1>1, <1>3, <2>1, SameIs DEF DialogueIInv
<1>0. order \in OrderType /\ Dialogue!Round \in Nat
  BY <1>1, OrderOf
<1>4. ASSUME order.item = 0 PROVE OrderOK([order EXCEPT !.title = (m # "bad")])
  <2>1. PICK p \in OrderType : p = [order EXCEPT !.title = (m # "bad")]
    BY <1>0 DEF OrderType
  <2>3. /\ p.items = order.items /\ p.item = order.item /\ p.quantity = order.quantity /\ p.link = order.link
        /\ p.confirm = order.confirm
    BY <1>0, <2>1 DEF OrderType
  <2> QED
    BY <1>1, <1>4, <1>0, <2>1, <2>3, OrderPatched DEF OrderOK, OrderType
<1>5. ASSUME order.title, order.item = 0 PROVE OrderOK([order EXCEPT !.item = Dialogue!Round])
  <2>1. PICK p \in OrderType : p = [order EXCEPT !.item = Dialogue!Round]
    BY <1>0 DEF OrderType
  <2>2. /\ p.items = order.items /\ p.item = Dialogue!Round /\ p.quantity = order.quantity
             /\ p.link = order.link
        /\ p.confirm = order.confirm /\ p.title = order.title
    BY <1>0, <2>1 DEF OrderType
  <2> QED
    BY <1>1, <1>5, <1>0, <2>1, <2>2, OrderPatched DEF OrderOK, OrderType
<1>6. ASSUME order.item # 0
      PROVE  OrderOK([order EXCEPT !.quantity = IF m = "number" THEN Dialogue!Round ELSE 0])
  <2>1. PICK r \in {0, Dialogue!Round} : r = IF m = "number" THEN Dialogue!Round ELSE 0
    OBVIOUS
  <2>2. PICK p \in OrderType : p = [order EXCEPT !.quantity = r]
    BY <1>0, <2>1 DEF OrderType
  <2>3. /\ p.items = order.items /\ p.item = order.item /\ p.quantity = r /\ p.link = order.link
        /\ p.confirm = order.confirm /\ p.title = order.title
    BY <1>0, <2>2 DEF OrderType
  <2>4. OrderOK(p)
    BY <1>1, <1>6, <1>0, <2>1, <2>3, OrderPatched DEF OrderOK, OrderType
  <2> QED
    BY <2>1, <2>2, <2>4
<1>7. ASSUME order.item # 0, order.quantity # 0, Dialogue!Round < MaxItems
             PROVE OrderOK(Dialogue!AnotherItem(order))
  <2>1. PICK t : t = Append(order.items, Dialogue!CurrentItem)
    OBVIOUS
  <2>2. /\ order.items \in Seq(OrderItem) /\ Dialogue!CurrentItem \in OrderItem
        /\ GoodItem(Dialogue!CurrentItem, Len(order.items) + 1)
    BY <1>1, <1>7, OrderOf
  <2>3. t \in Seq(OrderItem) /\ Len(t) = Len(order.items) + 1
    BY <2>1, <2>2
  <2>4. ASSUME NEW i \in 1..Len(t) PROVE GoodItem(t[i], i)
    <3>1. CASE i = Len(order.items) + 1
      BY <1>1, <2>1, <2>2, <3>1
    <3>2. CASE i \in 1..Len(order.items)
      BY <1>1, <2>1, <2>2, <3>2 DEF OrderOK, OrderType
    <3> QED
      BY <1>1, <2>3, <3>1, <3>2
  <2>5. PICK o : o = Dialogue!AnotherItem(order)
    OBVIOUS
  <2>6. o = [title |-> TRUE, item |-> 0, quantity |-> 0, link |-> 0, items |-> t, confirm |-> FALSE]
    BY <2>1, <2>5 DEF Dialogue!AnotherItem, Dialogue!NoOrder
  <2>7. OrderOK(o)
    BY <1>1, <1>7, <2>3, <2>4, <2>6 DEF OrderOK, OrderType
  <2> QED
    BY <2>5, <2>7
<1>8. CASE ~order.title
  <2>1. order.item = 0 /\ order.quantity = 0
    BY <1>1, <1>8 DEF OrderOK, OrderType
  <2> QED
    BY <1>3, <1>4, <1>8, <2>1 DEF Dialogue!Detail
<1>9. CASE order.title /\ order.item = 0
  BY <1>3, <1>5, <1>9 DEF Dialogue!Detail
<1>10. CASE order.title /\ order.item # 0 /\ order.quantity = 0
  BY <1>3, <1>6, <1>10 DEF Dialogue!Detail
<1>11. CASE order.title /\ order.item # 0 /\ order.quantity # 0
  BY <1>1, <1>2, <1>3, <1>7, <1>11 DEF Dialogue!Detail
<1> QED
  BY <1>8, <1>9, <1>10, <1>11

LEMMA AfterOrderStep ==
  ASSUME DialogueIInv, NEW m, Dialogue!Decide(m) \/ Dialogue!PickVendor(m) \/ Dialogue!CloseOrder(m)
  PROVE  DialogueIInv'
<1>1. /\ form = "order" /\ SessionOK /\ messages < MaxMessages /\ messages' = messages + 1
      /\ UNCHANGED <<lists, team, changes, made>>
  BY DEF DialogueIInv, Dialogue!Decide, Dialogue!PickVendor, Dialogue!CloseOrder, Dialogue!OrderHears
<1>2. request \in {"none", "pending", "approved", "rejected", "assigned", "closed"}
  BY DEF DialogueIInv, WorldOK
<1>3. request' \in {"none", "pending", "approved", "rejected", "assigned", "closed"}
  BY <1>2 DEF Dialogue!Decide, Dialogue!PickVendor, Dialogue!CloseOrder
<1>4. \/ Dialogue!Over \/ UNCHANGED Dialogue!session
      \/ step' \in {"vendor", "close"} /\ UNCHANGED <<form, data, order, listed, shown>>
  BY DEF Dialogue!Decide, Dialogue!PickVendor, Dialogue!CloseOrder
<1>5. SessionOK'
  BY <1>1, <1>4, OverIs, StaysIs, PartIs
<1>6. WorldOK' /\ MadeOK'
  BY <1>1, <1>3, OrderedIs, MadeStays DEF DialogueIInv
<1> QED
  BY <1>5, <1>6 DEF DialogueIInv

(* A task for somebody of the list. *)
LEMMA StartAssignmentStep ==
  ASSUME DialogueIInv, Dialogue!StartAssignment
  PROVE  DialogueIInv'
<1>1. WorldOK' /\ MadeOK'
  BY HearsIs, MadeStays DEF DialogueIInv, Dialogue!StartAssignment, Dialogue!Starts
<1>2. /\ form' = "assign" /\ data' = Dialogue!NoData /\ order' = Dialogue!NoOrder /\ listed' = team
           /\ shown' = team
  BY DEF Dialogue!StartAssignment, Dialogue!Starts
<1>3. SessionOK'
  BY <1>2, FormsAre, NoDataOK, NoOrderOK DEF DialogueIInv, WorldOK, SessionOK, AnswersOK
<1> QED
  BY <1>1, <1>3 DEF DialogueIInv

LEMMA AssignStep ==
  ASSUME DialogueIInv, NEW p, Dialogue!Assign(p)
  PROVE  DialogueIInv'
<1>1. WorldOK'
  BY HearsIs DEF DialogueIInv, Dialogue!Assign
<1>2. CASE Dialogue!Over /\ made' = [Dialogue!Nothing EXCEPT !.kind = "assign", !.person = p]
  <2>1. made'.kind = "assign"
    BY <1>2 DEF Dialogue!Nothing
  <2>2. MadeOK'
    BY <2>1, FormsAre DEF MadeOK, Dialogue!MadeWhole, Dialogue!PickedAsShown
  <2> QED
    BY <1>1, <1>2, <2>2, OverIs DEF DialogueIInv
<1>3. CASE UNCHANGED <<Dialogue!session, made>>
  BY <1>1, <1>3, StaysIs, MadeStays DEF DialogueIInv
<1> QED
  BY <1>2, <1>3 DEF Dialogue!Assign

LEMMA PickNumberStep ==
  ASSUME DialogueIInv, NEW i, Dialogue!PickNumber(i)
  PROVE  DialogueIInv'
<1>1. WorldOK'
  BY HearsIs DEF DialogueIInv, Dialogue!PickNumber
<1>2. form = "assign" /\ SessionOK /\ shown = listed
  BY DEF DialogueIInv, SessionOK, Dialogue!PickNumber
<1>3. CASE /\ Dialogue!Over
           /\ made' = [Dialogue!Nothing EXCEPT !.kind = "picked", !.person = listed[i], !.shown = <<shown[i]>>]
  <2>1. made'.kind = "picked" /\ made'.person = listed[i] /\ made'.shown = <<shown[i]>>
    BY <1>3 DEF Dialogue!Nothing
  <2>2. MadeOK'
    BY <1>2, <2>1, FormsAre DEF MadeOK, Dialogue!MadeWhole, Dialogue!PickedAsShown
  <2> QED
    BY <1>1, <1>3, <2>2, OverIs DEF DialogueIInv
<1>4. CASE shown' = listed /\ UNCHANGED <<form, step, data, order, listed, dialogueAsked, made>>
  <2>1. SessionOK'
    BY <1>2, <1>4 DEF SessionOK, AnswersOK
  <2> QED
    BY <1>1, <1>4, <2>1, MadeStays DEF DialogueIInv
<1> QED
  BY <1>3, <1>4 DEF Dialogue!PickNumber, Dialogue!Options

LEMMA ChangeStep ==
  ASSUME DialogueIInv, Dialogue!Change
  PROVE  DialogueIInv'
<1>1. /\ UNCHANGED Dialogue!session /\ UNCHANGED made /\ UNCHANGED messages
      /\ changes < MaxChanges /\ changes' = changes + 1
  BY DEF Dialogue!Change
<1>2. /\ lists' \in SUBSET {"category", "location", "vendor"} \/ lists' = lists
      /\ team' \in Dialogue!Listings \/ team' = team
      /\ request' \in {"approved", "rejected", "assigned", "closed"} \/ request' = request
  BY DEF Dialogue!Change
<1>3. WorldOK
  BY DEF DialogueIInv
<1>4. lists' \subseteq {"category", "location", "vendor"}
  BY <1>2, <1>3 DEF WorldOK
<1>5. team' \in Dialogue!Listings
  BY <1>2, <1>3 DEF WorldOK
<1>6. request' \in {"none", "pending", "approved", "rejected", "assigned", "closed"}
  BY <1>2, <1>3 DEF WorldOK
<1>7. messages' \in 0..MaxMessages /\ changes' \in 0..MaxChanges
  BY <1>1, <1>3, DialogueConstants DEF WorldOK
<1>8. WorldOK'
  BY <1>4, <1>5, <1>6, <1>7 DEF WorldOK
<1> QED
  BY <1>1, <1>8, StaysIs, MadeStays DEF DialogueIInv

LEMMA NextDialogue == DialogueIInv /\ [Dialogue!Next]_dialogueState => DialogueIInv'
<1> SUFFICES ASSUME DialogueIInv, [Dialogue!Next]_dialogueState PROVE DialogueIInv'
  OBVIOUS
<1>1. CASE UNCHANGED dialogueState
  BY <1>1, StaysIs, MadeStays DEF dialogueState, DialogueIInv, WorldOK, Dialogue!session
<1>2. CASE \E f \in Dialogue!Forms : Dialogue!StartForm(f)
  BY <1>2, StartFormStep
<1>3. CASE Dialogue!StartOrder
  BY <1>3, StartOrderStep
<1>4. CASE Dialogue!StartAssignment
  BY <1>4, StartAssignmentStep
<1>5. CASE Dialogue!Cancel
  BY <1>5, HearsIs, OverIs, MadeStays DEF Dialogue!Cancel, DialogueIInv
<1>6. CASE \E m \in Dialogue!Message :
             \/ Dialogue!Refuse(m) \/ Dialogue!GiveUp(m) \/ Dialogue!Take(m) \/ Dialogue!Make(m)
             \/ \E b \in Dialogue!Field \union {"other"} : Dialogue!MakeFails(m, b)
  BY <1>6, RefuseStep, TakeStep, MakeStep, MakeFailsStep
<1>7. CASE \E m \in Dialogue!Message :
             \/ Dialogue!Confirm(m) \/ Dialogue!Detail(m)
             \/ Dialogue!Decide(m) \/ Dialogue!PickVendor(m) \/ Dialogue!CloseOrder(m)
  BY <1>7, ConfirmStep, DetailStep, AfterOrderStep
<1>8. CASE (\E p : Dialogue!Assign(p)) \/ \E i : Dialogue!PickNumber(i)
  BY <1>8, AssignStep, PickNumberStep
<1>9. CASE Dialogue!Change
  BY <1>9, ChangeStep
<1> QED
  BY <1>1, <1>2, <1>3, <1>4, <1>5, <1>6, <1>7, <1>8, <1>9 DEF Dialogue!Next

-----------------------------------------------------------------------------
(* The desk (MessageDesk): its types are inductive, for workers have neither a
   dialogue nor a prompt. *)
SessionAllowed == session' \in {"none", "open", "lapsed"} /\ (deskRole = "WORKER" => session' = "none")

LEMMA DeskTold ==
  ASSUME Desk!TypeOK, UNCHANGED deskRole, SessionAllowed, NEW S, NEW by, NEW cmd, NEW got,
         Desk!Tell(S, by, cmd, got)
  PROVE  Desk!TypeOK'
  BY DEF Desk!TypeOK, Desk!Tell, Desk!kept, SessionAllowed

LEMMA DeskSessions ==
  ASSUME Desk!TypeOK
  PROVE  /\ session' = session => SessionAllowed
         /\ session' = Desk!NoSession => SessionAllowed
         /\ session' = "none" => SessionAllowed
         /\ deskRole # "WORKER" /\ session' \in {"open", "none"} => SessionAllowed
  BY DEF Desk!TypeOK, Desk!NoSession, SessionAllowed

LEMMA DeskProcess ==
  ASSUME Desk!TypeOK, UNCHANGED deskRole, SessionAllowed, NEW S, NEW by, NEW call,
         Desk!ProcessCommand(S, by, call)
  PROVE  Desk!TypeOK'
<1>1. CASE \E got : Desk!Tell(S, by, call.cmd, got)
  BY <1>1, DeskTold
<1>2. CASE /\ deskRole # "WORKER"
           /\ teamPrompt' = FALSE /\ stockPrompt' = "file" /\ UNCHANGED <<mark, issue, done>>
  BY <1>2 DEF Desk!TypeOK, SessionAllowed
<1>3. CASE Desk!Effect(call.cmd) /\ UNCHANGED <<teamPrompt, stockPrompt>>
  BY <1>3 DEF Desk!TypeOK, SessionAllowed, Desk!Effect
<1>4. call.cmd = "/inventory_import_csv" /\ deskRole = "WORKER" => Desk!Forbidden(call)
  BY DEF Desk!Forbidden, Desk!ManagersOnly
<1> QED
  BY <1>1, <1>2, <1>3, <1>4 DEF Desk!ProcessCommand, Desk!kept

LEMMA DeskStarts ==
  ASSUME Desk!TypeOK, UNCHANGED deskRole, NEW S, NEW by, NEW cmd, Desk!StartWorkflow(S, by, cmd)
  PROVE  Desk!TypeOK'
<1>1. SessionAllowed
  BY DeskSessions DEF Desk!StartWorkflow
<1> QED
  BY <1>1, DeskTold DEF Desk!StartWorkflow

LEMMA DeskActs ==
  ASSUME Desk!TypeOK, UNCHANGED deskRole, NEW S, NEW by, NEW call, Desk!ActOn(S, by, call)
  PROVE  Desk!TypeOK'
<1>1. CASE session' = Desk!NoSession /\ Desk!Tell(S, by, call.cmd, "chat")
  BY <1>1, DeskTold, DeskSessions
<1>2. CASE Desk!StartWorkflow(S, by, call.cmd)
  BY <1>2, DeskStarts
<1>3. CASE session' = Desk!NoSession /\ Desk!ProcessCommand(S, by, call)
  BY <1>3, DeskProcess, DeskSessions
<1> QED
  BY <1>1, <1>2, <1>3 DEF Desk!ActOn

LEMMA DeskButton ==
  ASSUME Desk!TypeOK, UNCHANGED deskRole, NEW b, Desk!PressButton(b)
  PROVE  Desk!TypeOK'
<1>1. CASE UNCHANGED session /\ \E S, by, cmd, got : Desk!Tell(S, by, cmd, got)
  BY <1>1, DeskTold, DeskSessions
<1>2. CASE \E S, by, cmd : Desk!StartWorkflow(S, by, cmd)
  BY <1>2, DeskStarts
<1>3. CASE UNCHANGED session /\ \E S, by, call : Desk!ProcessCommand(S, by, call)
  BY <1>3, DeskProcess, DeskSessions
<1>4. CASE deskRole # "WORKER" /\ stockPrompt' = "none" /\ teamPrompt' = TRUE
           /\ UNCHANGED <<session, mark, issue, done>>
  BY <1>4 DEF Desk!TypeOK
<1>5. b = "bulk csv" => b \in Desk!HomeButton
  BY DEF Desk!HomeButton
<1> QED
  BY <1>1, <1>2, <1>3, <1>4, <1>5 DEF Desk!PressButton, Desk!kept

LEMMA DeskHears ==
  ASSUME Desk!TypeOK, UNCHANGED deskRole, Desk!Message
  PROVE  Desk!TypeOK'
<1>1. CASE \E b \in Desk!Button : Desk!PressButton(b)
  BY <1>1, DeskButton
<1>2. CASE Desk!Greet \/ Desk!AskHelp \/ Desk!FindExpired
  BY <1>2, DeskTold, DeskSessions DEF Desk!Greet, Desk!AskHelp, Desk!FindExpired
<1>3. CASE Desk!Cancel
  BY <1>3 DEF Desk!Cancel, Desk!kept, Desk!TypeOK
<1>10. CASE Desk!AnswerPrompt
  <2>1. deskRole # "WORKER" /\ UNCHANGED <<session, teamPrompt, mark, issue, done>>
    BY <1>10 DEF Desk!AnswerPrompt, Desk!Prompted, Desk!kept, Desk!TypeOK
  <2>2. stockPrompt' \in {stockPrompt, "none"}
    BY <1>10 DEF Desk!AnswerPrompt
  <2> QED
    BY <2>1, <2>2 DEF Desk!TypeOK
<1>4. CASE Desk!Answer
  <2>1. deskRole # "WORKER"
    BY <1>4 DEF Desk!Answer, Desk!AtDialogue, Desk!TypeOK
  <2> QED
    BY <1>4, <2>1, DeskTold, DeskSessions DEF Desk!Answer
<1>5. CASE \E cmd \in Desk!KnownCommand : Desk!TypeCommand(cmd)
  BY <1>5, DeskProcess, DeskSessions DEF Desk!TypeCommand
<1>6. CASE \E cmd \in Desk!WorkflowCommand : Desk!TypeWorkflow(cmd)
  BY <1>6, DeskStarts, DeskTold, DeskSessions DEF Desk!TypeWorkflow
<1>7. CASE Desk!BuyLowStock
  BY <1>7, DeskStarts, DeskTold, DeskSessions DEF Desk!BuyLowStock
<1>8. CASE \E said \in Text : Desk!Say(said)
  BY <1>8, DeskActs, DeskTold, DeskSessions DEF Desk!Say
<1>9. CASE \E cmd : Desk!Misspell(cmd)
  BY <1>9, DeskActs DEF Desk!Misspell
<1> QED
  BY <1>1, <1>2, <1>3, <1>4, <1>5, <1>6, <1>7, <1>8, <1>9, <1>10 DEF Desk!Message

LEMMA InitDesk == Desk!Init => Desk!TypeOK
  BY DEF Desk!Init, Desk!TypeOK

LEMMA NextDesk == Desk!TypeOK /\ [Desk!Next]_deskState => Desk!TypeOK'
<1> SUFFICES ASSUME Desk!TypeOK, [Desk!Next]_deskState PROVE Desk!TypeOK'
  OBVIOUS
<1>1. CASE UNCHANGED deskState
  BY <1>1 DEF deskState, Desk!TypeOK
<1>2. CASE Desk!Next
  <2>1. UNCHANGED deskRole
    BY <1>2 DEF Desk!Next
  <2>2. CASE Desk!Message
    BY <2>1, <2>2, DeskHears
  <2>3. CASE Desk!Lapse
    <3>1. UNCHANGED <<mark, issue, done>>
      BY <2>3 DEF Desk!Lapse, Desk!kept
    <3>2. CASE session = "open" /\ session' = "lapsed" /\ UNCHANGED <<teamPrompt, stockPrompt>>
      BY <2>1, <3>1, <3>2 DEF Desk!TypeOK
    <3>3. CASE teamPrompt /\ teamPrompt' = FALSE /\ UNCHANGED <<session, stockPrompt>>
      BY <2>1, <3>1, <3>3 DEF Desk!TypeOK
    <3>4. CASE stockPrompt' = "none" /\ UNCHANGED <<session, teamPrompt>>
      BY <2>1, <3>1, <3>4 DEF Desk!TypeOK
    <3> QED
      BY <2>3, <3>2, <3>3, <3>4 DEF Desk!Lapse
  <2>5. CASE Desk!ReadUpload \/ Desk!NextDay
    BY <2>1, <2>5 DEF Desk!ReadUpload, Desk!NextDay, Desk!kept, Desk!TypeOK
  <2>4. CASE Desk!SendReminder
    BY <2>1, <2>4, DeskTold, DeskSessions DEF Desk!SendReminder
  <2> QED
    BY <1>2, <2>2, <2>3, <2>4, <2>5 DEF Desk!Next
<1> QED
  BY <1>1, <1>2

-----------------------------------------------------------------------------
(* What the desk makes of plain words (Understanding): the first rule that holds
   decides, whatever expressions the phrases match. *)
LEMMA LeastHit ==
  ASSUME NEW hits, hits \subseteq Nat, hits # {}
  PROVE  \E i \in hits : \A j \in hits : i <= j
<1>1. PICK i \in hits : \A j \in hits : ~(<<j, i>> \in OpToRel(<, Nat))
  BY WFMin, NatLessThanWellFounded
<1>2. ASSUME NEW j \in hits PROVE i <= j
  <2>1. i \in Nat /\ j \in Nat
    OBVIOUS
  <2>2. ~(j < i)
    BY <1>1, <2>1 DEF OpToRel
  <2> QED
    BY <2>1, <2>2
<1> QED
  BY <1>2

(* The first rule that holds. *)
LEMMA FirstHit ==
  ASSUME NEW n \in Nat, NEW rules, DOMAIN rules = 1..n, Desk!FirstOf(rules) # Desk!None
  PROVE  \E i \in 1..n : /\ rules[i][1] /\ Desk!FirstOf(rules) = rules[i][2]
                         /\ \A j \in 1..n : j < i => ~rules[j][1]
<1> DEFINE hits == {i \in DOMAIN rules : rules[i][1]}
<1>1. hits # {}
  BY Zenon DEF Desk!FirstOf
<1>2. hits \subseteq Nat
  OBVIOUS
<1>3. \E i \in hits : \A j \in hits : i <= j
  BY <1>1, <1>2, LeastHit, Zenon
<1> DEFINE i == CHOOSE i \in hits : \A j \in hits : i <= j
<1>4. i \in hits /\ \A j \in hits : i <= j
  BY <1>3, Zenon
<1>5. Desk!FirstOf(rules) = rules[i][2]
  BY <1>1, Zenon DEF Desk!FirstOf
<1> HIDE DEF i
<1>6. i \in 1..n /\ rules[i][1]
  BY <1>4
<1>7. ASSUME NEW j \in 1..n, j < i PROVE ~rules[j][1]
  <2>1. ~(i <= j)
    BY <1>6, <1>7
  <2>2. j \notin hits
    BY <1>4, <2>1, Zenon
  <2> QED
    BY <2>2
<1> QED
  BY <1>5, <1>6, <1>7

(* The value of a condition. *)
LEMMA ConditionValue == \A S, s : \E c : c = (s \in S)
  BY Zenon

LEMMA DeskOperationalHit ==
  ASSUME NEW S, Desk!FirstOf(Desk!OperationalRules(S)) # Desk!None
  PROVE  /\ Desk!FirstOf(Desk!OperationalRules(S)) = "/complete" => Desk!IsDone(S) /\ "progress" \notin S
              /\ "vendor note" \notin S
         /\ Desk!FirstOf(Desk!OperationalRules(S)) = "/issue" => "resolve" \notin S
         /\ Desk!FirstOf(Desk!OperationalRules(S)) = "/present" => "absent" \notin S
         /\ Desk!FirstOf(Desk!OperationalRules(S)) = "/assign" => "any task id" \notin S
<1>1. PICK c1 : c1 = ("resolve" \in S)
  BY Zenon
<1>2. PICK c2 : c2 = ("report" \in S)
  BY Zenon
<1>3. PICK c3 : c3 = ("issues" \in S)
  BY Zenon
<1>4. PICK c4 : c4 = ("issue" \in S)
  BY Zenon
<1>5. PICK c5 : c5 = ("vendor note" \in S)
  BY Zenon
<1>6. PICK c6 : c6 = ("progress" \in S)
  BY Zenon
<1>7. PICK c7 : c7 = ("absent" \in S)
  BY Zenon
<1>8. PICK c8 : c8 = ("present" \in S)
  BY Zenon
<1>9. PICK c9 : c9 = (Desk!IsDone(S))
  BY Zenon
<1>10. PICK c10 : c10 = ("tasks" \in S)
  BY Zenon
<1>11. PICK c11 : c11 = ("members" \in S)
  BY Zenon
<1>12. PICK c12 : c12 = ("help" \in S)
  BY Zenon
<1>13. PICK c13 : c13 = ("any task id" \notin S /\ Desk!NamesPerson(S))
  BY Zenon
<1>14. PICK c14 : c14 = (~Desk!NamesPerson(S) /\ {"department", "action"} \subseteq S)
  BY Zenon
<1> DEFINE r == <<<<c1, "/resolve">>, <<c2, "/report">>, <<c3, "/issues">>, <<c4, "/issue">>,
                  <<c5, Desk!None>>, <<c6, "/update">>, <<c7, "/absent">>, <<c8, "/present">>,
                  <<c9, "/complete">>, <<c10, "/tasks">>, <<c11, "/members">>, <<c12, "/help">>,
                  <<c13, "/assign">>, <<c14, "/depart_assign">>>>
<1>15. Desk!OperationalRules(S) = r
  BY <1>1, <1>2, <1>3, <1>4, <1>5, <1>6, <1>7, <1>8, <1>9, <1>10, <1>11, <1>12, <1>13, <1>14,
     Zenon DEF Desk!OperationalRules
<1>16. DOMAIN r = 1..14
  OBVIOUS
<1>17. /\ r[1][1] = c1 /\ r[1][2] = "/resolve"
       /\ r[2][1] = c2 /\ r[2][2] = "/report"
       /\ r[3][1] = c3 /\ r[3][2] = "/issues"
       /\ r[4][1] = c4 /\ r[4][2] = "/issue"
       /\ r[5][1] = c5 /\ r[5][2] = Desk!None
       /\ r[6][1] = c6 /\ r[6][2] = "/update"
       /\ r[7][1] = c7 /\ r[7][2] = "/absent"
       /\ r[8][1] = c8 /\ r[8][2] = "/present"
       /\ r[9][1] = c9 /\ r[9][2] = "/complete"
       /\ r[10][1] = c10 /\ r[10][2] = "/tasks"
       /\ r[11][1] = c11 /\ r[11][2] = "/members"
       /\ r[12][1] = c12 /\ r[12][2] = "/help"
       /\ r[13][1] = c13 /\ r[13][2] = "/assign"
       /\ r[14][1] = c14 /\ r[14][2] = "/depart_assign"
  OBVIOUS
<1> HIDE DEF r
<1>18. PICK i \in 1..14 : r[i][1] /\ Desk!FirstOf(r) = r[i][2] /\ \A j \in 1..14 : j < i => ~r[j][1]
  BY <1>15, <1>16, FirstHit
<1>19. Desk!FirstOf(r) = r[i][2]
       /\ i \in {1, 2, 3, 4, 5, 6, 7, 8, 9, 10, 11, 12, 13, 14}
  BY <1>18
<1>20. Desk!FirstOf(r) = "/complete" => i = 9
  BY <1>17, <1>19 DEF Desk!None
<1>21. Desk!FirstOf(r) = "/issue" => i = 4
  BY <1>17, <1>19 DEF Desk!None
<1>22. Desk!FirstOf(r) = "/present" => i = 8
  BY <1>17, <1>19 DEF Desk!None
<1>23. Desk!FirstOf(r) = "/assign" => i = 13
  BY <1>17, <1>19 DEF Desk!None
<1>24. i = 9 => c9 /\ ~c5 /\ ~c6
  BY <1>17, <1>18
<1>25. (i = 4 => ~c1) /\ (i = 8 => ~c7) /\ (i = 13 => c13)
  BY <1>17, <1>18
<1> QED
  BY <1>1, <1>5, <1>6, <1>7, <1>9, <1>13, <1>15, <1>19, <1>20, <1>21, <1>22, <1>23, <1>24, <1>25, Zenon

(* The intents that change something the property tells apart. *)
DeskActing == {"/complete", "/issue", "/present", "/assign"}

LEMMA DeskWorkflowHit == \A S : Desk!WorkflowIntent(S) \notin DeskActing
<1> TAKE S
<1>1. PICK c1 : c1 = ("continue" \in S)
  BY Zenon
<1>2. PICK c2 : c2 = ("discovery" \in S)
  BY Zenon
<1>3. PICK c3 : c3 = ("vendor" \in S /\ "buying" \notin S)
  BY Zenon
<1>4. PICK c4 : c4 = ("worker" \in S)
  BY Zenon
<1>5. PICK c5 : c5 = ("status" \in S)
  BY Zenon
<1>6. PICK c6 : c6 = ("create" \in S)
  BY Zenon
<1>7. PICK c7 : c7 = ("trouble" \in S \/ Desk!IsDepartmentOrder(S))
  BY Zenon
<1>8. PICK c8 : c8 = ("procurement" \in S)
  BY Zenon
<1> DEFINE r == <<<<c1, "/continue_discovery">>, <<c2, "/business_discovery">>, <<c3, "/onboard_vendor">>,
                  <<c4, "/onboard_worker">>, <<c5, "/inventory_status">>, <<c6, "/inventory_create">>,
                  <<c7, Desk!None>>, <<c8, "/purchase_request_create">>>>
<1>9. Desk!WorkflowIntent(S) = Desk!FirstOf(r)
  BY <1>1, <1>2, <1>3, <1>4, <1>5, <1>6, <1>7, <1>8, Zenon DEF Desk!WorkflowIntent
<1>10. DOMAIN r = 1..8 /\ \A i \in 1..8 : r[i][2] \notin DeskActing
  BY DEF DeskActing, Desk!None
<1>11. Desk!None \notin DeskActing
  BY DEF DeskActing, Desk!None
<1> HIDE DEF r
<1>12. CASE Desk!FirstOf(r) = Desk!None
  BY <1>9, <1>11, <1>12
<1>13. CASE Desk!FirstOf(r) # Desk!None
  <2>1. PICK i \in 1..8 : Desk!FirstOf(r) = r[i][2]
    BY <1>10, <1>13, FirstHit
  <2> QED
    BY <1>9, <1>10, <2>1
<1> QED
  BY <1>12, <1>13

LEMMA DeskManagerHit == \A S : Desk!ManagerIntent(Desk!None, S) \notin DeskActing
<1> TAKE S
<1>1. PICK c1 : c1 = (Desk!None # Desk!None)
  BY Zenon
<1>2. PICK c2 : c2 = ("reject" \in S /\ "galat dept" \notin S)
  BY Zenon
<1>3. PICK c3 : c3 = ({"worker name", "task id"} \subseteq S /\ "self" \notin S)
  BY Zenon
<1>4. PICK c4 : c4 = ({"task id", "transfer", "slug"} \subseteq S /\ "worker name" \notin S)
  BY Zenon
<1>5. PICK c5 : c5 = ("transfer phrase" \in S)
  BY Zenon
<1>6. PICK c6 : c6 = ((S \intersect {"self", "self phrase", "bare self"} # {})
                     /\ S \intersect {"task id", "task", "bare self"} # {})
  BY Zenon
<1>7. PICK c7 : c7 = ("worker name" \in S /\ S \intersect {"task id", "task number", "assign phrase"} # {}
                     /\ "self" \notin S)
  BY Zenon
<1>8. PICK c8 : c8 = ("assign phrase" \in S)
  BY Zenon
<1>9. PICK c9 : c9 = ("reject phrase" \in S)
  BY Zenon
<1> DEFINE r == <<<<c1, Desk!None>>, <<c2, "/mgrreject">>, <<c3, "/mgrassign">>, <<c4, "/mgrtransfer">>,
                  <<c5, "/mgrtransfer">>, <<c6, "/mgrself">>, <<c7, "/mgrassign">>, <<c8, "/mgrassign">>,
                  <<c9, "/mgrreject">>>>
<1>10. Desk!ManagerIntent(Desk!None, S) = Desk!FirstOf(r)
  BY <1>1, <1>2, <1>3, <1>4, <1>5, <1>6, <1>7, <1>8, <1>9, Zenon DEF Desk!ManagerIntent
<1>11. DOMAIN r = 1..9 /\ \A i \in 1..9 : r[i][2] \notin DeskActing
  BY DEF DeskActing, Desk!None
<1>12. Desk!None \notin DeskActing
  BY DEF DeskActing, Desk!None
<1> HIDE DEF r
<1>13. CASE Desk!FirstOf(r) = Desk!None
  BY <1>10, <1>12, <1>13
<1>14. CASE Desk!FirstOf(r) # Desk!None
  <2>1. PICK i \in 1..9 : Desk!FirstOf(r) = r[i][2]
    BY <1>11, <1>14, FirstHit
  <2> QED
    BY <1>10, <1>11, <2>1
<1> QED
  BY <1>13, <1>14

LEMMA DeskDeterministicHit ==
  ASSUME NEW S, Desk!DeterministicIntent(S) # Desk!None
  PROVE  /\ Desk!DeterministicIntent(S) = "/complete" => Desk!IsDone(S) /\ "progress" \notin S
              /\ "vendor note" \notin S
         /\ Desk!DeterministicIntent(S) = "/assign" => ~({"mention", "number"} \subseteq S) /\ "mention" \in S
         /\ Desk!DeterministicIntent(S) \notin {"/issue", "/present"}
<1>1. PICK c1 : c1 = (Desk!IsDone(S) /\ S \intersect {"vendor note", "progress"} = {})
  BY Zenon
<1>2. PICK c2 : c2 = ({"mention", "number"} \subseteq S)
  BY Zenon
<1>3. PICK c3 : c3 = ("mention" \in S)
  BY Zenon
<1> DEFINE r == <<<<c1, "/complete">>, <<c2, "/mgrassign">>, <<c3, "/assign">>>>
<1>4. Desk!DeterministicIntent(S) = Desk!FirstOf(r)
  BY <1>1, <1>2, <1>3, Zenon DEF Desk!DeterministicIntent
<1>5. /\ DOMAIN r = 1..3 /\ r[1][1] = c1 /\ r[2][1] = c2 /\ r[3][1] = c3
      /\ r[1][2] = "/complete" /\ r[2][2] = "/mgrassign" /\ r[3][2] = "/assign"
  OBVIOUS
<1> HIDE DEF r
<1>6. PICK i \in 1..3 : r[i][1] /\ Desk!FirstOf(r) = r[i][2] /\ \A j \in 1..3 : j < i => ~r[j][1]
  BY <1>4, <1>5, FirstHit
<1>7. /\ Desk!FirstOf(r) = "/complete" => c1
      /\ Desk!FirstOf(r) = "/assign" => ~c2 /\ c3
      /\ Desk!FirstOf(r) \notin {"/issue", "/present"}
  BY <1>5, <1>6
<1>8. Desk!IsDone(S) /\ S \intersect {"vendor note", "progress"} = {}
        => Desk!IsDone(S) /\ "progress" \notin S /\ "vendor note" \notin S
  OBVIOUS
<1> QED
  BY <1>1, <1>2, <1>3, <1>4, <1>7, <1>8, Zenon

LEMMA DeskRuleHit ==
  ASSUME NEW opening, NEW S, Desk!RuleIntent(opening, S) # Desk!None
  PROVE  Desk!RuleIntent(opening, S) \in {Desk!WorkflowIntent(S), Desk!OperationalIntent(opening, S),
                                     Desk!ClarifyIntent(opening, S), Desk!DeterministicIntent(S)}
<1>1. PICK w, o, c, d : /\ w = Desk!WorkflowIntent(S) /\ o = Desk!OperationalIntent(opening, S)
                        /\ c = Desk!ClarifyIntent(opening, S) /\ d = Desk!DeterministicIntent(S)
  OBVIOUS
<1> DEFINE intents == <<w, o, c, d>>
           r == [i \in 1..4 |-> <<intents[i] # Desk!None, intents[i]>>]
<1>2. Desk!RuleIntent(opening, S) = Desk!FirstOf(r)
  BY <1>1, Zenon DEF Desk!RuleIntent
<1>3. DOMAIN r = 1..4 /\ \A i \in 1..4 : r[i][2] = intents[i]
  OBVIOUS
<1>4. \A i \in 1..4 : intents[i] \in {w, o, c, d}
  OBVIOUS
<1> HIDE DEF r, intents
<1>5. PICK i \in 1..4 : Desk!FirstOf(r) = r[i][2]
  BY <1>2, <1>3, FirstHit
<1> QED
  BY <1>1, <1>2, <1>3, <1>4, <1>5

(* What the rules understand of a text with these expressions, whatever they are. *)
LEMMA DeskRuleUnderstood ==
  ASSUME NEW S, "any task id" \in S => "number" \in S, Desk!RuleIntent(Desk!None, S) # Desk!None
  PROVE  /\ Desk!RuleIntent(Desk!None, S) = "/complete"
              => S \intersect {"progress", "instruction", "vendor note"} = {}
         /\ Desk!RuleIntent(Desk!None, S) = "/issue" => "resolve" \notin S
         /\ Desk!RuleIntent(Desk!None, S) = "/present" => "absent" \notin S
         /\ Desk!RuleIntent(Desk!None, S) = "/assign" => "any task id" \notin S
<1>1. CASE Desk!RuleIntent(Desk!None, S) = Desk!WorkflowIntent(S)
  BY <1>1, DeskWorkflowHit DEF DeskActing
<1>2. CASE Desk!RuleIntent(Desk!None, S) = Desk!OperationalIntent(Desk!None, S)
  <2>1. CASE Desk!ManagerIntent(Desk!None, S) # Desk!None
    BY <1>2, <2>1, DeskManagerHit DEF DeskActing, Desk!OperationalIntent
  <2>2. CASE Desk!ManagerIntent(Desk!None, S) = Desk!None
    <3>1. Desk!RuleIntent(Desk!None, S) = Desk!FirstOf(Desk!OperationalRules(S))
      BY <1>2, <2>2 DEF Desk!OperationalIntent
    <3> QED
      BY <3>1, DeskOperationalHit DEF Desk!IsDone
  <2> QED
    BY <2>1, <2>2
<1>3. CASE Desk!RuleIntent(Desk!None, S) = Desk!ClarifyIntent(Desk!None, S)
  <2>1. Desk!ClarifyIntent(Desk!None, S) \in {"/assign_clarify", Desk!None}
    BY DEF Desk!ClarifyIntent
  <2> QED
    BY <1>3, <2>1 DEF Desk!None
<1>4. CASE Desk!RuleIntent(Desk!None, S) = Desk!DeterministicIntent(S)
  BY <1>4, DeskDeterministicHit DEF Desk!IsDone
<1> QED
  BY <1>1, <1>2, <1>3, <1>4, DeskRuleHit
-----------------------------------------------------------------------------
(* Who acted, and what a step of theirs may have changed. *)
DeskEffects(cmd) ==
    /\ cmd # "/complete" => done' = done
    /\ cmd # "/issue" => issue' # "open" \/ issue = "open"
    /\ cmd # "/present" => mark' # "/present" \/ mark = "/present"

LEMMA DeskToldEffects ==
  ASSUME NEW S, NEW by, NEW cmd, NEW got, Desk!Heard(S, by, cmd, got), UNCHANGED Desk!kept
  PROVE  last'.heard = S /\ last'.by = by /\ last'.cmd = cmd /\ DeskEffects(cmd)
BY DEF Desk!Heard, DeskEffects, Desk!kept

LEMMA DeskProcessEffects ==
  ASSUME NEW S, NEW by, NEW call, Desk!ProcessCommand(S, by, call)
  PROVE  last'.heard = S /\ last'.by = by /\ last'.cmd = call.cmd /\ DeskEffects(call.cmd)
<1>1. ASSUME NEW got, Desk!Tell(S, by, call.cmd, got)
      PROVE  last'.heard = S /\ last'.by = by /\ last'.cmd = call.cmd /\ DeskEffects(call.cmd)
  BY <1>1, DeskToldEffects DEF Desk!Tell
<1>2. CASE Desk!Heard(S, by, call.cmd, "file awaited") /\ UNCHANGED Desk!kept
  BY <1>2, DeskToldEffects
<1>3. CASE Desk!Effect(call.cmd) /\ Desk!Heard(S, by, call.cmd, "done")
  <2>1. DeskEffects(call.cmd)
    BY <1>3 DEF Desk!Effect, DeskEffects
  <2> QED
    BY <1>3, <2>1 DEF Desk!Heard
<1> QED
  BY <1>1, <1>2, <1>3 DEF Desk!ProcessCommand

LEMMA DeskWorkflowEffects ==
  ASSUME NEW S, NEW by, NEW cmd, Desk!StartWorkflow(S, by, cmd)
  PROVE  last'.heard = S /\ last'.by = by /\ last'.cmd = cmd /\ DeskEffects(cmd)
BY DeskToldEffects DEF Desk!StartWorkflow, Desk!Tell

LEMMA DeskActEffects ==
  ASSUME NEW S, NEW by, NEW call, Desk!ActOn(S, by, call)
  PROVE  last'.heard = S /\ last'.by = by /\ last'.cmd = call.cmd /\ DeskEffects(call.cmd)
<1>1. CASE call.cmd = "general_chat"
  BY <1>1, DeskToldEffects DEF Desk!ActOn, Desk!Tell
<1>2. CASE call.cmd # "general_chat" /\ call.cmd \in Desk!WorkflowCommand
  BY <1>2, DeskWorkflowEffects DEF Desk!ActOn
<1>3. CASE call.cmd # "general_chat" /\ call.cmd \notin Desk!WorkflowCommand
  BY <1>3, DeskProcessEffects DEF Desk!ActOn
<1> QED
  BY <1>1, <1>2, <1>3

(* What the rules understood was acted on as the first of what it says. *)
DeskInOrder ==
    /\ last'.heard \intersect {"progress", "instruction", "vendor note"} # {} => done' = done
    /\ "resolve" \in last'.heard => issue' # "open" \/ issue = "open"
    /\ "absent" \in last'.heard => mark' # "/present" \/ mark = "/present"
    /\ "any task id" \in last'.heard => last'.cmd # "/assign"

LEMMA DeskClassifiedByRule ==
  ASSUME NEW opening, NEW S, NEW c \in Desk!Classified(opening, S), c.rule
  PROVE  Desk!RuleIntent(opening, S) # Desk!None /\ c.intent = Desk!RuleIntent(opening, S)
<1>1. PICK intent, id, named, dept :
          /\ intent = Desk!RuleIntent(opening, S)
          /\ id = ("id" \in S)
          /\ named = ("mention" \in S \/ "worker name" \in S \/ Desk!NamesPerson(S))
          /\ dept = ({"department", "slug"} \intersect S # {})
  BY Zenon
<1>2. CASE intent # Desk!None
  <2>1. c \in {[intent |-> intent, id |-> id, person |-> named, dept |-> dept, rule |-> TRUE]}
    BY <1>1, <1>2, Zenon DEF Desk!Classified
  <2>2. c.intent = intent
    BY <2>1
  <2> QED
    BY <1>1, <1>2, <2>2
<1>3. CASE intent = Desk!None
  <2>1. c \in {[intent |-> Desk!Corrected(a, S), id |-> id, person |-> a.person, dept |-> a.dept, rule |-> FALSE] :
                  a \in [intent : Desk!ValidIntent, person : BOOLEAN, dept : BOOLEAN]}
    BY <1>1, <1>3, Zenon DEF Desk!Classified
  <2>2. c.rule = FALSE
    BY <2>1
  <2> QED
    BY <2>2
<1> QED
  BY <1>2, <1>3

LEMMA DeskSayInOrder ==
  ASSUME Desk!MessageDeskAssumption, NEW said \in Text, Desk!Say(said), last'.by = "rules"
  PROVE  DeskInOrder
<1> DEFINE S == Desk!Matched(said)
<1>1. "any task id" \in S => "number" \in S
  <2>1. said \subseteq Phrase
    BY DEF Desk!MessageDeskAssumption
  <2>2. ASSUME "any task id" \in S PROVE "number" \in S
    <3>1. PICK p \in said : "any task id" \in Signals[p]
      BY <2>2 DEF Desk!Matched
    <3>2. "number" \in Signals[p]
      BY <2>1, <3>1 DEF Desk!MessageDeskAssumption
    <3> QED
      BY <3>1, <3>2 DEF Desk!Matched
  <2> QED
    BY <2>2
<1>2. PICK c \in Desk!Classified(Desk!None, S), text \in BOOLEAN :
          IF c.rule THEN Desk!ActOn(S, "rules", Desk!AsCall(c, text))
          ELSE Desk!ActOn(Desk!Unheard, "model", Desk!AsCall(c, text))
  <2>1. ~Desk!Tell(Desk!Unheard, "extractor", "none", "dialogue")
        /\ ~Desk!Tell(Desk!Unheard, "nobody", "none", "error")
    BY DeskToldEffects DEF Desk!Tell, Desk!Heard
  <2> QED
    BY <2>1 DEF Desk!Say, Desk!Meanings
<1> HIDE DEF S
<1>3. c.rule /\ Desk!ActOn(S, "rules", Desk!AsCall(c, text))
  BY <1>2, DeskActEffects
<1>4. Desk!RuleIntent(Desk!None, S) # Desk!None /\ c.intent = Desk!RuleIntent(Desk!None, S)
  BY <1>3, DeskClassifiedByRule
<1>5. last'.heard = S /\ last'.cmd = Desk!RuleIntent(Desk!None, S) /\ DeskEffects(Desk!RuleIntent(Desk!None, S))
  BY <1>3, <1>4, DeskActEffects DEF Desk!AsCall
<1> QED
  BY <1>1, <1>4, <1>5, DeskRuleUnderstood DEF DeskEffects, DeskInOrder

LEMMA DeskOthersMessage ==
  ASSUME Desk!Message, \A said \in Text : ~Desk!Say(said)
  PROVE  last'.by # "rules"
<1>0. ASSUME NEW S, NEW by, NEW cmd, NEW got, by # "rules", Desk!Heard(S, by, cmd, got) PROVE last'.by # "rules"
  BY <1>0 DEF Desk!Heard
<1>1. ASSUME NEW b \in Desk!Button, Desk!PressButton(b) PROVE last'.by # "rules"
  <2>1. CASE \E cmd, got : Desk!Heard(Desk!Unheard, "button", cmd, got)
    BY <1>0, <2>1
  <2>2. CASE \E cmd : Desk!StartWorkflow(Desk!Unheard, "button", cmd)
    BY <2>2, DeskWorkflowEffects
  <2>3. CASE \E call : Desk!ProcessCommand(Desk!Unheard, "button", call)
    BY <2>3, DeskProcessEffects
  <2> QED
    BY <1>1, <2>1, <2>2, <2>3 DEF Desk!PressButton, Desk!Tell
<1>2. CASE Desk!Greet \/ Desk!AskHelp \/ Desk!FindExpired \/ Desk!Answer \/ Desk!Cancel \/ Desk!AnswerPrompt
  BY <1>0, <1>2 DEF Desk!Greet, Desk!AskHelp, Desk!FindExpired, Desk!Answer, Desk!Cancel, Desk!AnswerPrompt,
     Desk!Tell
<1>3. ASSUME NEW cmd \in Desk!KnownCommand, Desk!TypeCommand(cmd) PROVE last'.by # "rules"
  BY <1>3, DeskProcessEffects DEF Desk!TypeCommand
<1>4. ASSUME NEW cmd \in Desk!WorkflowCommand, Desk!TypeWorkflow(cmd) PROVE last'.by # "rules"
  <2>1. CASE Desk!StartWorkflow(Desk!Unheard, "typed", cmd)
    BY <2>1, DeskWorkflowEffects
  <2>2. CASE Desk!Heard(Desk!Unheard, "typed", cmd, "not understood")
    BY <1>0, <2>2
  <2> QED
    BY <1>4, <2>1, <2>2 DEF Desk!TypeWorkflow, Desk!Tell
<1>5. CASE Desk!BuyLowStock
  BY <1>0, <1>5, DeskWorkflowEffects DEF Desk!BuyLowStock, Desk!Tell
<1>6. ASSUME NEW cmd, Desk!Misspell(cmd) PROVE last'.by # "rules"
  BY <1>6, DeskActEffects DEF Desk!Misspell
<1> QED
  BY <1>1, <1>2, <1>3, <1>4, <1>5, <1>6 DEF Desk!Message

(* A text with a task's number, and nothing the model made of one, was not the
   last to make a new task. *)
DeskLastInOrder == last.by = "rules" /\ "any task id" \in last.heard => last.cmd # "/assign"

LEMMA DeskStepInOrder ==
  ASSUME Desk!MessageDeskAssumption, DeskLastInOrder, [Desk!Next]_deskState
  PROVE  DeskLastInOrder' /\ (last'.by = "rules" => DeskInOrder)
<1>1. ASSUME NEW said \in Text, Desk!Say(said) PROVE last'.by = "rules" => DeskInOrder
  BY <1>1, DeskSayInOrder
<1>2. CASE Desk!Message /\ \A said \in Text : ~Desk!Say(said)
  BY <1>2, DeskOthersMessage DEF DeskLastInOrder
<1>3. CASE UNCHANGED last /\ UNCHANGED <<issue, done>> /\ mark' \in {mark, "none"}
  BY <1>3 DEF DeskLastInOrder, DeskInOrder
<1>4. CASE Desk!Lapse \/ Desk!ReadUpload \/ Desk!NextDay
  BY <1>3, <1>4 DEF Desk!Lapse, Desk!ReadUpload, Desk!NextDay, Desk!kept
<1>5. CASE Desk!SendReminder
  BY <1>5 DEF Desk!SendReminder, Desk!Tell, Desk!Heard, DeskLastInOrder
<1>6. CASE UNCHANGED deskState
  BY <1>3, <1>6 DEF deskState
<1>7. (last'.by = "rules" => DeskInOrder) => DeskLastInOrder'
  BY DEF DeskLastInOrder, DeskInOrder
<1> QED
  BY <1>1, <1>2, <1>4, <1>5, <1>6, <1>7 DEF Desk!Next

LEMMA DeskInitInOrder == Desk!Init => DeskLastInOrder
<1> SUFFICES ASSUME Desk!Init PROVE DeskLastInOrder
  OBVIOUS
<1>1. last.by = "nobody"
  BY DEF Desk!Init
<1> QED
  BY <1>1 DEF DeskLastInOrder

-----------------------------------------------------------------------------
(* Tasks as a whole: the part that moves keeps its invariant, the others rest. *)
PartsIInv ==
    /\ part = "route" => IInv /\ Orderly
    /\ part = "team" => StaffIInv
    /\ part = "dialogue" => DialogueIInv
    /\ part = "desk" => Desk!TypeOK
    /\ DeskLastInOrder

LEMMA InitPartsIInv == PartsInit => PartsIInv
  BY InitIInv, InitOrderly, InitStaff, InitDialogue, InitDesk, DeskInitInOrder DEF PartsInit, PartsIInv

LEMMA PartsStep ==
  ASSUME [PartsNext]_parts
  PROVE  /\ part' = part
         /\ part = "route" => [Next]_vars
         /\ part = "team" => [Staff!Next]_teamState
         /\ part = "dialogue" => [Dialogue!Next]_dialogueState
         /\ part = "desk" => [Desk!Next]_deskState
<1>1. CASE RouteMoves(Next)
  BY <1>1 DEF RouteMoves
<1>2. CASE TeamMoves(Staff!Next)
  BY <1>2 DEF TeamMoves
<1>3. CASE DialogueMoves(Dialogue!Next)
  BY <1>3 DEF DialogueMoves
<1>4. CASE DeskMoves(Desk!Next)
  BY <1>4 DEF DeskMoves
<1>5. CASE UNCHANGED parts
  BY <1>5 DEF parts
<1> QED
  BY <1>1, <1>2, <1>3, <1>4, <1>5 DEF PartsNext

LEMMA DeskMovesOrRests == [PartsNext]_parts => [Desk!Next]_deskState
  BY DEF PartsNext, RouteMoves, TeamMoves, DialogueMoves, DeskMoves, parts, deskState

LEMMA NextPartsIInv == PartsIInv /\ [PartsNext]_parts => PartsIInv'
<1> SUFFICES ASSUME PartsIInv, [PartsNext]_parts PROVE PartsIInv'
  OBVIOUS
<1>1. ASSUME part = "route" PROVE IInv' /\ Orderly'
  BY <1>1, PartsStep, NextIInv, NextOrderly DEF PartsIInv
<1>2. ASSUME part = "team" PROVE StaffIInv'
  BY <1>2, PartsStep, NextStaff DEF PartsIInv
<1>3. ASSUME part = "dialogue" PROVE DialogueIInv'
  BY <1>3, PartsStep, NextDialogue DEF PartsIInv
<1>4. ASSUME part = "desk" PROVE Desk!TypeOK'
  BY <1>4, PartsStep, NextDesk DEF PartsIInv
<1>5. DeskLastInOrder'
  BY DeskMovesOrRests, DeskAssumption, DeskStepInOrder DEF PartsIInv
<1> QED
  BY <1>1, <1>2, <1>3, <1>4, <1>5, PartsStep DEF PartsIInv

LEMMA PartsSpecIInv == PartsSpec => []PartsIInv
  BY InitPartsIInv, NextPartsIInv, PTL DEF PartsSpec

(* The types of all four parts. *)
THEOREM TasksTypes == PartsSpec => []PartsTypeOK
<1>1. PartsIInv => PartsTypeOK
  BY StaffHolds, DialogueHolds DEF PartsIInv, PartsTypeOK, IInv
<1> QED
  BY <1>1, PartsSpecIInv, PTL

(* RoutedByTheHead, for every instance: a task that waits for routing is with
   the head who routes it, and managers give tasks to workers of their own
   departments only, as long as calls do not overlap and departments keep their
   heads; who may do something about a task is shown it, and as long as calls do
   not overlap a worker may do what is shown (getTasks, buildRoutingForNewTask, transferTaskToDepartment, adminUpdate,
   assertManagerMayAssignToUser). *)
THEOREM TasksRouted == PartsSpec => []RoutedByTheHead
<1>1. PartsIInv => RoutedByTheHead
  BY WaitsWithHead, UsesOwnWorkers, ListsTell DEF PartsIInv, RoutedByTheHead
<1> QED
  BY <1>1, PartsSpecIInv, PTL

(* TeamHolds, for every team, however calls, imports and forms overlap: as long as
   a write comes while the check it rests on still holds and into no department that
   is being removed, only owners and managers head departments (but for members
   whose role was edited), a manager one at most; nobody works and no task is in a
   department that is gone; and who was reported as added has a post (assignMember,
   assignDepartmentHead, remove, executeBulkImport). *)
THEOREM TasksTeam == PartsSpec => []TeamHolds
<1>1. PartsIInv => TeamHolds
  BY StaffHolds DEF PartsIInv, TeamHolds
<1> QED
  BY <1>1, PartsSpecIInv, PTL

(* MadeAsAnswered, for any people, number of items and messages: members, vendors
   and items are made with an answer to every question, of vendors and items each
   at its own, whatever failed or was asked again; the lines of an order have
   their own item and quantity; and a person picked by number is the one shown
   under it (the handlers of the workflows). *)
THEOREM TasksMade == PartsSpec => []MadeAsAnswered
<1>1. PartsIInv => MadeAsAnswered
  BY DialogueHolds DEF PartsIInv, MadeAsAnswered
<1> QED
  BY <1>1, PartsSpecIInv, PTL

(* UnderstoodInOrder, for any phrases and whatever expressions they match, as long
   as a task's number is matched as a number too: a text a rule understands is
   acted on as the first of what it says (the order of the pre-classifiers of
   bot_engine.py, acted on by processCommand). *)
THEOREM TasksUnderstood == PartsSpec => UnderstoodInOrder
<1>1. PartsIInv /\ [PartsNext]_parts => [last'.by = "rules" => DeskInOrder]_deskState
  BY DeskMovesOrRests, DeskAssumption, DeskStepInOrder DEF PartsIInv
<1>2. PartsSpec => [][last'.by = "rules" => DeskInOrder]_deskState
  BY <1>1, PartsSpecIInv, PTL DEF PartsSpec
<1> QED
  BY <1>2 DEF UnderstoodInOrder, Desk!UnderstoodInOrder, DeskInOrder, deskState, Desk!vars, Desk!kept
=============================================================================
