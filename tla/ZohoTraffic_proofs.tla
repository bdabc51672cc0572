------------------------- MODULE ZohoTraffic_proofs --------------------------
(***************************************************************************)
(* Proofs about the traffic with Zoho.  The pushes, for any movements, any *)
(* numbers of runs of the event handler and of ticks of the cron at once,  *)
(* and any failures: Zoho adjusts once per movement unless an answer was   *)
(* lost, a run died or ticks had the same row, and what is given up is     *)
(* escalated.  The pulls, for any catalogue, renames, crashes and runs at  *)
(* once: an item's opening stock is booked once, and a run that says       *)
(* COMPLETED left nothing out; that scheduled runs keep their distance     *)
(* needs a single instance of the cron.                                    *)
(***************************************************************************)
EXTENDS ZohoTraffic, SequenceTheorems, FiniteSetTheorems, TLAPS

Executing == {"execute", "refresh", "post", "apply"}
GivingUp == {"escalate", "publish"}
Pending == [NoRow EXCEPT !.status = "PENDING"]

Types ==
    /\ TypeOK
    /\ batch \in [Worker -> SUBSET [movement : Movement, row : Row]]
    /\ lostAnswers \in Nat /\ faults \in Nat

(* What a worker knows.  The copy it works from has an attempt left, whatever the
   row says by now; so have those a tick has not come to yet, each of another
   movement. *)
WorkerOK(w) ==
    /\ work[w] \in Movement <=> pc[w] \notin {"idle", "batch"}
    /\ pc[w] = "idle" => batch[w] = {}
    /\ pc[w] \in Executing => snap[w].retry < MaxAttempts
    /\ pc[w] = "apply" => outcome[w] # "none"
    /\ \A due \in batch[w] : due.row.retry < MaxAttempts /\ due.movement # work[w]
    /\ \A due, other \in batch[w] : due.movement = other.movement => due = other
    /\ pc[w] \in {"lookup", "create"} => batch[w] = {}
    /\ w \in Consumer => batch[w] = {} /\ pc[w] # "batch"

(* Who has a movement's row, in hand or in its batch; who of them may still have
   Zoho adjust for it, now or with a later attempt; who is about to escalate it. *)
Holds(w, m) ==
    \/ work[w] = m /\ pc[w] \notin {"lookup", "create"}
    \/ \E due \in batch[w] : due.movement = m
Settles(w, m) == work[w] = m /\ pc[w] = "apply" /\ outcome[w] = "delivered"
Owing(m) == {w \in Worker : Holds(w, m) /\ ~Settles(w, m)}
Tells(w, m) == pc[w] = "publish" /\ work[w] = m
Telling(m) == {w \in Worker : Tells(w, m)}

(* A row nobody has may be taken up as long as it is not registered or failed. *)
Open(m) == IF Holding(m) = {} /\ delivery[m].status \in {"NONE", "FAILED"} THEN 1 ELSE 0

HeldOK(m) ==
    /\ delivery[m].status = "NONE" => Holding(m) = {}
    /\ Cardinality(Holding(m)) <= 1 + shared[m]

AdjustedOK(m) ==
    adjusted[m] + Cardinality(Owing(m)) + Open(m) <= 1 + lostAnswers + faults + shared[m]

EscalatedOK(m) ==
    /\ escalated[m] = 0 \/ escalated[m] + Cardinality(Telling(m)) <= 1 + shared[m]
    /\ (faults = 0 /\ delivery[m].status = "FAILED" /\ delivery[m].retry = MaxAttempts) =>
        escalated[m] > 0 \/ \E w \in Worker : pc[w] \in GivingUp /\ work[w] = m

MovementOK(m) == HeldOK(m) /\ AdjustedOK(m) /\ EscalatedOK(m)

IInv ==
    /\ Types
    /\ \A w \in Worker : WorkerOK(w)
    /\ \A m \in Movement : MovementOK(m)

-----------------------------------------------------------------------------
LEMMA InitIInv == Init => IInv
<1> SUFFICES ASSUME Init PROVE IInv
  OBVIOUS
<1> USE PushAssumption DEF Init
<1>1. Types
  BY DEF Types, TypeOK, NoRow, Row, Status, WorkerState, Outcome, Worker
<1>2. \A w \in Worker : WorkerOK(w)
  BY DEF WorkerOK, Executing, Worker
<1>3. ASSUME NEW m \in Movement PROVE MovementOK(m)
  <2>1. \A w \in Worker : ~Holds(w, m) /\ ~Tells(w, m)
    BY DEF Holds, Tells, Worker
  <2>2. Holding(m) = {} /\ Owing(m) = {} /\ Telling(m) = {}
    BY <2>1 DEF Holding, Pushing, Owing, Telling, Holds
  <2>3. Open(m) \in {0, 1}
    BY DEF Open
  <2> QED
    BY <2>2, <2>3, FS_EmptySet DEF MovementOK, HeldOK, AdjustedOK, EscalatedOK, NoRow
<1> QED
  BY <1>1, <1>2, <1>3 DEF IInv

LEMMA RowTypes ==
  ASSUME NEW row \in Row, NEW s \in Status, NEW r \in 0..MaxAttempts, NEW n \in {"unset", "later", "reached"}
  PROVE  /\ [row EXCEPT !.status = s, !.next = n] \in Row
         /\ [row EXCEPT !.next = n] \in Row
         /\ [status |-> s, retry |-> r, next |-> n] \in Row
  BY DEF Row

LEMMA PendingRow == Pending \in Row /\ Pending = [status |-> "PENDING", retry |-> 0, next |-> "unset"]
                    /\ NoRow \in Row
  BY PushAssumption DEF Pending, NoRow, Row, Status

(* Done: the worker lets go of its row, and keeps the rest of its batch. *)
LEMMA DoneTypes ==
  ASSUME Types, NEW w \in Worker, Done(w)
  PROVE  /\ pc' \in [Worker -> WorkerState]
         /\ pc'[w] = IF batch[w] = {} THEN "idle" ELSE "batch"
         /\ work' \in [Worker -> Movement \union {NoMovement}] /\ work'[w] = NoMovement
         /\ snap' \in [Worker -> Row]
         /\ outcome' \in [Worker -> Outcome]
         /\ batch' = batch
         /\ \A v \in Worker \ {w} : /\ pc'[v] = pc[v] /\ work'[v] = work[v] /\ snap'[v] = snap[v]
                                    /\ outcome'[v] = outcome[v]
  BY PendingRow DEF Types, TypeOK, Done, Goto, WorkerState, Outcome

-----------------------------------------------------------------------------
(* Sizes of sets that differ in one member at most. *)
LEMMA OneMember ==
  ASSUME NEW S, NEW T, NEW w, IsFiniteSet(S), S \ {w} = T \ {w}
  PROVE  /\ IsFiniteSet(T) /\ Cardinality(S) \in Nat /\ Cardinality(T) \in Nat
         /\ (w \in S <=> w \in T) => T = S
         /\ w \in S /\ w \notin T => Cardinality(T) = Cardinality(S) - 1
         /\ w \notin S /\ w \in T => Cardinality(T) = Cardinality(S) + 1
<1>1. (w \in S <=> w \in T) => T = S
  OBVIOUS
<1>2. w \in S /\ w \notin T => T = S \ {w}
  OBVIOUS
<1>3. w \notin S /\ w \in T => T = S \cup {w}
  OBVIOUS
<1>4. IsFiniteSet(S \ {w}) /\ (w \in S => Cardinality(S \ {w}) = Cardinality(S) - 1)
  BY FS_RemoveElement
<1>5. IsFiniteSet(S \cup {w}) /\ (w \notin S => Cardinality(S \cup {w}) = Cardinality(S) + 1)
  BY FS_AddElement
<1>6. IsFiniteSet(T)
  BY <1>1, <1>2, <1>3, <1>4, <1>5
<1>7. Cardinality(S) \in Nat /\ Cardinality(T) \in Nat
  BY <1>6, FS_CardinalityType
<1> QED
  BY <1>1, <1>2, <1>3, <1>4, <1>5, <1>6, <1>7

(* Only w moves. *)
OnlyMoves(w) ==
    \A v \in Worker \ {w} : /\ pc'[v] = pc[v] /\ work'[v] = work[v] /\ snap'[v] = snap[v]
                            /\ outcome'[v] = outcome[v] /\ batch'[v] = batch[v]

LEMMA HoldersOf ==
  /\ \A m \in Movement, w \in Worker : w \in Holding(m) <=> Holds(w, m)
  /\ \A m \in Movement : IsFiniteSet(Holding(m)) /\ IsFiniteSet(Owing(m)) /\ IsFiniteSet(Telling(m))
<1>1. IsFiniteSet(Worker)
  BY PushAssumption DEF Worker
<1>2. \A m \in Movement : /\ Holding(m) \in SUBSET Worker /\ Owing(m) \in SUBSET Worker
                          /\ Telling(m) \in SUBSET Worker
  BY DEF Holding, Pushing, Owing, Telling
<1>3. \A m \in Movement : IsFiniteSet(Holding(m)) /\ IsFiniteSet(Owing(m)) /\ IsFiniteSet(Telling(m))
  BY <1>1, <1>2, FS_Subset
<1>4. \A m \in Movement, w \in Worker : w \in Holding(m) <=> Holds(w, m)
  BY DEF Holding, Pushing, Holds
<1> QED
  BY <1>3, <1>4

(* How the sizes go on when only w moves. *)
LEMMA Sizes ==
  ASSUME NEW w \in Worker, OnlyMoves(w), NEW m \in Movement
  PROVE  /\ Cardinality(Holding(m)) \in Nat /\ Cardinality(Holding(m)') \in Nat
         /\ Cardinality(Owing(m)) \in Nat /\ Cardinality(Owing(m)') \in Nat
         /\ Cardinality(Telling(m)) \in Nat /\ Cardinality(Telling(m)') \in Nat
         /\ (w \in Holding(m) <=> w \in Holding(m)') => Holding(m)' = Holding(m)
         /\ w \in Holding(m) /\ w \notin Holding(m)' =>
                Cardinality(Holding(m)') = Cardinality(Holding(m)) - 1
         /\ w \notin Holding(m) /\ w \in Holding(m)' =>
                Cardinality(Holding(m)') = Cardinality(Holding(m)) + 1
         /\ (w \in Owing(m) <=> w \in Owing(m)') => Owing(m)' = Owing(m)
         /\ w \in Owing(m) /\ w \notin Owing(m)' =>
                Cardinality(Owing(m)') = Cardinality(Owing(m)) - 1
         /\ w \notin Owing(m) /\ w \in Owing(m)' =>
                Cardinality(Owing(m)') = Cardinality(Owing(m)) + 1
         /\ (w \in Telling(m) <=> w \in Telling(m)') => Telling(m)' = Telling(m)
         /\ w \in Telling(m) /\ w \notin Telling(m)' =>
                Cardinality(Telling(m)') = Cardinality(Telling(m)) - 1
         /\ w \notin Telling(m) /\ w \in Telling(m)' =>
                Cardinality(Telling(m)') = Cardinality(Telling(m)) + 1
<1>1. IsFiniteSet(Holding(m)) /\ IsFiniteSet(Owing(m)) /\ IsFiniteSet(Telling(m))
  BY HoldersOf
<1>2. Holding(m) \ {w} = Holding(m)' \ {w}
  BY DEF OnlyMoves, Holding, Pushing
<1>3. Owing(m) \ {w} = Owing(m)' \ {w}
  BY DEF OnlyMoves, Owing, Holds, Settles
<1>4. Telling(m) \ {w} = Telling(m)' \ {w}
  BY DEF OnlyMoves, Telling, Tells
<1>5. PICK H : H = Holding(m)'
  OBVIOUS
<1>6. PICK O : O = Owing(m)'
  OBVIOUS
<1>7. PICK T : T = Telling(m)'
  OBVIOUS
<1>8. /\ Cardinality(Holding(m)) \in Nat /\ Cardinality(H) \in Nat
      /\ (w \in Holding(m) <=> w \in H) => H = Holding(m)
      /\ w \in Holding(m) /\ w \notin H => Cardinality(H) = Cardinality(Holding(m)) - 1
      /\ w \notin Holding(m) /\ w \in H => Cardinality(H) = Cardinality(Holding(m)) + 1
  BY <1>1, <1>2, <1>5, OneMember
<1>9. /\ Cardinality(Owing(m)) \in Nat /\ Cardinality(O) \in Nat
      /\ (w \in Owing(m) <=> w \in O) => O = Owing(m)
      /\ w \in Owing(m) /\ w \notin O => Cardinality(O) = Cardinality(Owing(m)) - 1
      /\ w \notin Owing(m) /\ w \in O => Cardinality(O) = Cardinality(Owing(m)) + 1
  BY <1>1, <1>3, <1>6, OneMember
<1>10. /\ Cardinality(Telling(m)) \in Nat /\ Cardinality(T) \in Nat
       /\ (w \in Telling(m) <=> w \in T) => T = Telling(m)
       /\ w \in Telling(m) /\ w \notin T => Cardinality(T) = Cardinality(Telling(m)) - 1
       /\ w \notin Telling(m) /\ w \in T => Cardinality(T) = Cardinality(Telling(m)) + 1
  BY <1>1, <1>4, <1>7, OneMember
<1> QED
  BY <1>5, <1>6, <1>7, <1>8, <1>9, <1>10

(* What the sets say of w. *)
LEMMA Membership ==
  ASSUME NEW w \in Worker, NEW m \in Movement
  PROVE  /\ w \in Holding(m) <=> Holds(w, m)
         /\ w \in Owing(m) <=> Holds(w, m) /\ ~Settles(w, m)
         /\ w \in Telling(m) <=> Tells(w, m)
         /\ (w \in Holding(m))' <=> Holds(w, m)'
         /\ (w \in Owing(m))' <=> Holds(w, m)' /\ ~Settles(w, m)'
         /\ (w \in Telling(m))' <=> Tells(w, m)'
  BY DEF Holding, Pushing, Owing, Telling, Holds

-----------------------------------------------------------------------------
(* A movement the step of w leaves alone, though w may go on with it. *)
LEMMA MovementStays ==
  ASSUME Types, Types', NEW w \in Worker, OnlyMoves(w), NEW m \in Movement, MovementOK(m),
         delivery'[m].status = delivery[m].status, delivery'[m].retry = delivery[m].retry,
         adjusted'[m] = adjusted[m], escalated'[m] = escalated[m], shared'[m] = shared[m],
         Holds(w, m)' <=> Holds(w, m), Settles(w, m)' <=> Settles(w, m), Tells(w, m)' <=> Tells(w, m),
         lostAnswers + faults <= lostAnswers' + faults', faults' = 0 => faults = 0,
         pc[w] \in GivingUp /\ work[w] = m =>
            escalated[m] > 0 \/ (pc'[w] \in GivingUp /\ work'[w] = m)
  PROVE  MovementOK(m)'
<1>1. Holding(m)' = Holding(m) /\ Owing(m)' = Owing(m) /\ Telling(m)' = Telling(m)
  BY Sizes, Membership
<1>2. /\ lostAnswers \in Nat /\ faults \in Nat /\ lostAnswers' \in Nat /\ faults' \in Nat
      /\ adjusted[m] \in Nat /\ shared[m] \in Nat /\ escalated[m] \in Nat
  BY DEF Types, TypeOK
<1>3. Cardinality(Holding(m)) \in Nat /\ Cardinality(Owing(m)) \in Nat /\ Cardinality(Telling(m)) \in Nat
  BY Sizes
<1>4. HeldOK(m)'
  BY <1>1 DEF MovementOK, HeldOK
<1>5. Open(m)' = Open(m) /\ Open(m) \in {0, 1}
  BY <1>1 DEF Open
<1>6. AdjustedOK(m)'
  <2>1. adjusted[m] + Cardinality(Owing(m)) + Open(m) <= 1 + lostAnswers + faults + shared[m]
    BY DEF MovementOK, AdjustedOK
  <2>2. adjusted'[m] + Cardinality(Owing(m)') + Open(m)' <= 1 + lostAnswers' + faults' + shared'[m]
    BY <1>1, <1>2, <1>3, <1>5, <2>1
  <2> QED
    BY <2>2 DEF AdjustedOK
<1>7. EscalatedOK(m)'
  <2>1. ASSUME NEW v \in Worker, pc[v] \in GivingUp, work[v] = m
        PROVE  escalated[m] > 0 \/ \E u \in Worker : pc'[u] \in GivingUp /\ work'[u] = m
    BY <2>1 DEF OnlyMoves
  <2> QED
    BY <1>1, <2>1 DEF MovementOK, EscalatedOK
<1> QED
  BY <1>4, <1>6, <1>7 DEF MovementOK

LEMMA WorkerStays ==
  ASSUME NEW w \in Worker, OnlyMoves(w), \A v \in Worker : WorkerOK(v), WorkerOK(w)'
  PROVE  \A v \in Worker : WorkerOK(v)'
<1> SUFFICES ASSUME NEW v \in Worker, v # w PROVE WorkerOK(v)'
  OBVIOUS
<1> QED
  BY DEF OnlyMoves, WorkerOK

(* A step of one worker that changes neither rows nor what Zoho and the outbox
   were asked, nor what it has in hand. *)
LEMMA LocalStep ==
  ASSUME IInv, Types', NEW w \in Worker, WorkerOK(w)', OnlyMoves(w),
         UNCHANGED <<delivery, adjusted, escalated, shared>>,
         lostAnswers + faults <= lostAnswers' + faults', faults' = faults,
         \A m \in Movement : Holds(w, m)' <=> Holds(w, m),
         pc[w] # "apply", pc[w] \notin GivingUp, pc'[w] \notin GivingUp,
         outcome'[w] # "delivered" \/ pc'[w] # "apply"
  PROVE  IInv'
<1> USE DEF IInv
<1>1. \A v \in Worker : WorkerOK(v)'
  BY WorkerStays
<1>2. ASSUME NEW m \in Movement PROVE MovementOK(m)'
  <2>1. (Settles(w, m)' <=> Settles(w, m)) /\ (Tells(w, m)' <=> Tells(w, m))
    BY DEF Settles, Tells, GivingUp
  <2> QED
    BY <2>1, MovementStays
<1> QED
  BY <1>1, <1>2

(* Nothing in hand before and after. *)
LEMMA IdleHolds ==
  ASSUME Types, NEW w \in Worker, WorkerOK(w), NEW m \in Movement
  PROVE  /\ pc[w] \in {"idle", "lookup", "create"} => ~Holds(w, m)
         /\ pc[w] \in Executing \union GivingUp /\ work[w] = m => Holds(w, m)
  BY PushAssumption DEF Holds, WorkerOK, Executing, GivingUp

(* The event handler up to the row. *)
LEMMA HandleIInv ==
  ASSUME IInv, NEW w \in Consumer, (\E m \in Movement : Handle(w, m)) \/ FindDelivery(w)
  PROVE  IInv'
<1> USE PushAssumption DEF IInv, boundVars
<1>1. w \in Worker
  BY DEF Worker
<1>2. ASSUME NEW m \in Movement, Handle(w, m) PROVE IInv'
  <2>1. Types'
    BY <1>1, <1>2 DEF Handle, Types, TypeOK, Goto, WorkerState
  <2>2. /\ pc[w] = "idle" /\ pc'[w] \in {"idle", "lookup"} /\ (pc'[w] = "lookup" => work'[w] = m)
        /\ (pc'[w] = "idle" => work'[w] = work[w])
        /\ \A v \in Worker \ {w} : pc'[v] = pc[v] /\ work'[v] = work[v]
    BY <1>1, <1>2 DEF Handle, Goto, Types, TypeOK
  <2>3. UNCHANGED <<delivery, adjusted, escalated, shared, snap, outcome, batch, lostAnswers, faults>>
    BY <1>2 DEF Handle
  <2>4. WorkerOK(w)'
    BY <1>1, <2>2, <2>3 DEF WorkerOK, Executing
  <2>5. \A x \in Movement : ~Holds(w, x)' /\ ~Holds(w, x)
    <3>1. batch[w] = {} /\ work[w] \notin Movement
      BY <1>1, <2>2 DEF WorkerOK
    <3> QED
      BY <2>2, <2>3, <3>1 DEF Holds
  <2>6. pc[w] # "apply" /\ pc[w] \notin GivingUp /\ pc'[w] \notin GivingUp /\ pc'[w] # "apply"
    BY <2>2 DEF GivingUp
  <2>7. OnlyMoves(w)
    BY <2>2, <2>3 DEF OnlyMoves
  <2>8. lostAnswers + faults <= lostAnswers' + faults'
    BY <2>3 DEF Types
  <2> QED
    BY <1>1, <2>1, <2>3, <2>4, <2>5, <2>6, <2>7, <2>8, LocalStep
<1>3. CASE FindDelivery(w)
  <2>1. /\ pc[w] = "lookup" /\ work[w] \in Movement /\ batch[w] = {}
        /\ UNCHANGED <<connected, delivery, adjusted, escalated, shared, invocations, lostAnswers, faults>>
    BY <1>1, <1>3 DEF FindDelivery, WorkerOK
  <2>2. pc[w] # "apply" /\ pc[w] \notin GivingUp
    BY <2>1 DEF GivingUp
  <2>3. \A x \in Movement : ~Holds(w, x)
    BY <2>1 DEF Holds
  <2>4. lostAnswers + faults <= lostAnswers' + faults'
    BY <2>1 DEF Types
  <2>5. CASE Goto(w, "create") /\ UNCHANGED <<work, snap, outcome, batch>>
    <3>1. Types'
      BY <1>1, <2>1, <2>5 DEF Types, TypeOK, Goto, WorkerState
    <3>2. pc'[w] = "create" /\ \A v \in Worker \ {w} : pc'[v] = pc[v]
      BY <1>1, <2>5 DEF Goto, Types, TypeOK
    <3>3. WorkerOK(w)'
      BY <1>1, <2>1, <2>5, <3>2 DEF WorkerOK, Executing
    <3>4. (\A x \in Movement : ~Holds(w, x)') /\ pc'[w] \notin GivingUp /\ OnlyMoves(w)
      BY <2>1, <2>5, <3>2 DEF Holds, GivingUp, OnlyMoves
    <3> QED
      BY <1>1, <2>1, <2>2, <2>3, <2>4, <3>1, <3>2, <3>3, <3>4, LocalStep
  <2>6. CASE Done(w)
    <3>1. Types'
      BY <1>1, <2>1, <2>6, DoneTypes DEF Types, TypeOK
    <3>2. pc'[w] = "idle" /\ work'[w] = NoMovement /\ batch' = batch
      BY <1>1, <2>1, <2>6, DoneTypes
    <3>3. WorkerOK(w)'
      BY <2>1, <3>2 DEF WorkerOK, Executing
    <3>4. (\A x \in Movement : ~Holds(w, x)') /\ pc'[w] \notin GivingUp
      BY <2>1, <3>2 DEF Holds, GivingUp
    <3>5. OnlyMoves(w)
      BY <1>1, <2>6, DoneTypes DEF OnlyMoves
    <3> QED
      BY <1>1, <2>1, <2>2, <2>3, <2>4, <3>1, <3>2, <3>3, <3>4, <3>5, LocalStep
  <2> QED
    BY <1>3, <2>5, <2>6 DEF FindDelivery
<1> QED
  BY <1>2, <1>3

(* The row is inserted, unless the unique index says it is there. *)
LEMMA CreateIInv ==
  ASSUME IInv, NEW w \in Consumer, CreateDelivery(w)
  PROVE  IInv'
<1> USE PushAssumption DEF IInv, boundVars
<1>0. /\ w \in Worker /\ pc[w] = "create" /\ work[w] \in Movement /\ batch[w] = {}
      /\ UNCHANGED <<connected, adjusted, escalated, shared, invocations, lostAnswers, faults>>
  BY DEF Worker, CreateDelivery, WorkerOK
<1> PICK m \in Movement : m = work[w]
  BY <1>0
<1>1. /\ w \in Worker /\ pc[w] = "create" /\ m \in Movement /\ m = work[w] /\ batch[w] = {}
      /\ UNCHANGED <<connected, adjusted, escalated, shared, invocations, lostAnswers, faults>>
  BY <1>0
<1>2. pc[w] # "apply" /\ pc[w] \notin GivingUp
  BY <1>1 DEF GivingUp
<1>3. \A x \in Movement : ~Holds(w, x)
  BY <1>1 DEF Holds
<1>4. lostAnswers + faults <= lostAnswers' + faults'
  BY <1>1 DEF Types
<1>5. CASE delivery[m].status # "NONE"
  <2>1. Done(w) /\ UNCHANGED delivery
    BY <1>1, <1>5 DEF CreateDelivery
  <2>2. Types'
    BY <1>1, <2>1, DoneTypes DEF Types, TypeOK
  <2>3. pc'[w] = "idle" /\ work'[w] = NoMovement /\ batch' = batch
    BY <1>1, <2>1, DoneTypes
  <2>4. WorkerOK(w)'
    BY <1>1, <2>3 DEF WorkerOK, Executing
  <2>5. (\A x \in Movement : ~Holds(w, x)') /\ pc'[w] \notin GivingUp
    BY <1>1, <2>3 DEF Holds, GivingUp
  <2>6. OnlyMoves(w)
    BY <1>1, <2>1, DoneTypes DEF OnlyMoves
  <2> QED
    BY <1>1, <1>2, <1>3, <1>4, <2>1, <2>2, <2>3, <2>4, <2>5, <2>6, LocalStep
<1>6. CASE delivery[m].status = "NONE"
  <2>1. /\ delivery' = [delivery EXCEPT ![m] = Pending]
        /\ snap' = [snap EXCEPT ![w] = Pending]
        /\ pc' = [pc EXCEPT ![w] = "execute"]
        /\ UNCHANGED <<work, outcome, batch>>
    BY <1>1, <1>6 DEF CreateDelivery, Goto, Pending
  <2>2. Types'
    BY <1>1, <2>1, PendingRow DEF Types, TypeOK, WorkerState
  <2>3. pc'[w] = "execute" /\ snap'[w] = Pending /\ delivery'[m] = Pending /\ OnlyMoves(w)
        /\ \A x \in Movement \ {m} : delivery'[x] = delivery[x]
    BY <1>1, <2>1 DEF OnlyMoves, Types, TypeOK
  <2>4. WorkerOK(w)'
    BY <1>1, <2>1, <2>3, PendingRow DEF WorkerOK, Executing
  <2>5. \A v \in Worker : WorkerOK(v)'
    BY <1>1, <2>3, <2>4, WorkerStays
  <2>6. ASSUME NEW x \in Movement, x # m PROVE MovementOK(x)'
    <3>1. ~Holds(w, x)' /\ ~Settles(w, x) /\ ~Settles(w, x)' /\ ~Tells(w, x) /\ ~Tells(w, x)'
      BY <1>1, <2>1, <2>3, <2>6 DEF Holds, Settles, Tells
    <3> QED
      BY <1>1, <1>2, <1>3, <1>4, <2>2, <2>3, <2>6, <3>1, MovementStays
  <2>7. MovementOK(m)'
    <3>1. Holds(w, m)' /\ ~Settles(w, m)' /\ ~Tells(w, m)' /\ ~Tells(w, m)
      BY <1>1, <2>1, <2>3 DEF Holds, Settles, Tells
    <3>2. Holding(m) = {} /\ Owing(m) = {}
      BY <1>1, <1>6, HoldersOf DEF MovementOK, HeldOK, Owing
    <3>3. Cardinality(Holding(m)') = 1 /\ Cardinality(Owing(m)') = 1 /\ Telling(m)' = Telling(m)
      <4>1. Cardinality(Holding(m)) = 0 /\ Cardinality(Owing(m)) = 0
        BY <3>2, FS_EmptySet
      <4>2. w \in Holding(m)' /\ w \in Owing(m)' /\ (w \in Telling(m) <=> w \in Telling(m)')
        BY <1>1, <3>1, Membership
      <4>3. w \notin Holding(m) /\ w \notin Owing(m)
        BY <3>2
      <4> QED
        BY <1>1, <2>3, <4>1, <4>2, <4>3, Sizes
    <3>4. delivery'[m].status = "PENDING"
      BY <2>3, PendingRow
    <3>5. Open(m) = 1 /\ Open(m)' = 0
      BY <1>6, <3>2, <3>4 DEF Open
    <3>6. adjusted[m] \in Nat /\ shared[m] \in Nat /\ lostAnswers \in Nat /\ faults \in Nat
      BY <1>1 DEF Types, TypeOK
    <3>7. adjusted[m] + 0 + 1 <= 1 + lostAnswers + faults + shared[m]
      BY <1>1, <3>2, <3>5, FS_EmptySet DEF MovementOK, AdjustedOK
    <3>8. AdjustedOK(m)'
      BY <1>1, <3>3, <3>5, <3>6, <3>7 DEF AdjustedOK
    <3>9. HeldOK(m)'
      BY <1>1, <3>3, <3>4, <3>6 DEF HeldOK
    <3>10. EscalatedOK(m)'
      BY <1>1, <3>3, <3>4 DEF MovementOK, EscalatedOK
    <3> QED
      BY <3>8, <3>9, <3>10 DEF MovementOK
  <2> QED
    BY <2>2, <2>5, <2>6, <2>7
<1> QED
  BY <1>5, <1>6

-----------------------------------------------------------------------------
(* The tick reads the rows that are due, and has them from now on, whoever else
   does. *)
LEMMA RunRetryBatchIInv ==
  ASSUME IInv, NEW w \in Ticker, RunRetryBatch(w)
  PROVE  IInv'
<1> USE PushAssumption DEF IInv
<1> DEFINE due == {m \in Movement : DueRetry(delivery[m])}
<1> DEFINE rows == {[movement |-> m, row |-> delivery[m]] : m \in due}
<1>1. /\ w \in Worker /\ w \notin Consumer /\ pc[w] = "idle"
      /\ batch[w] = {} /\ work[w] \notin Movement
  BY DEF Worker, RunRetryBatch, WorkerOK
<1>2. /\ pc' = [pc EXCEPT ![w] = "batch"] /\ batch' = [batch EXCEPT ![w] = rows]
      /\ shared' = [m \in Movement |->
                        shared[m] + (IF m \in due /\ Holding(m) # {} THEN 1 ELSE 0)]
      /\ UNCHANGED <<connected, delivery, adjusted, escalated, work, snap, outcome, invocations,
                     lostAnswers, faults>>
  BY DEF RunRetryBatch, Goto
<1>3. /\ pc'[w] = "batch" /\ batch'[w] = rows /\ OnlyMoves(w)
  BY <1>1, <1>2 DEF OnlyMoves, Types, TypeOK
<1>4. \A m \in Movement : delivery[m] \in Row
  BY DEF Types, TypeOK
<1>5. Types'
  <2>1. rows \in SUBSET [movement : Movement, row : Row]
    BY <1>4
  <2>2. \A v \in Worker : batch'[v] \in SUBSET [movement : Movement, row : Row]
    BY <1>1, <1>2, <2>1 DEF Types
  <2>3. batch' \in [Worker -> SUBSET [movement : Movement, row : Row]]
    BY <1>1, <1>2, <2>1 DEF Types
  <2>4. shared' \in [Movement -> Nat]
    BY <1>2 DEF Types, TypeOK
  <2>5. pc' \in [Worker -> WorkerState]
    BY <1>1, <1>2 DEF Types, TypeOK, WorkerState
  <2> QED
    BY <1>2, <2>2, <2>3, <2>4, <2>5 DEF Types, TypeOK
<1>6. WorkerOK(w)'
  <2>1. \A d \in rows : d.row.retry < MaxAttempts /\ d.movement \in Movement
    BY DEF DueRetry
  <2>2. \A d, e \in rows : d.movement = e.movement => d = e
    OBVIOUS
  <2>3. work'[w] \notin Movement
    BY <1>1, <1>2
  <2> QED
    BY <1>1, <1>3, <2>1, <2>2, <2>3 DEF WorkerOK, Executing
<1>7. \A v \in Worker : WorkerOK(v)'
  BY <1>1, <1>3, <1>6, WorkerStays
<1>8. ASSUME NEW m \in Movement PROVE MovementOK(m)'
  <2>1. ~Holds(w, m) /\ (Holds(w, m)' <=> m \in due)
    <3>1. ASSUME m \in due PROVE \E d \in rows : d.movement = m
      <4>1. [movement |-> m, row |-> delivery[m]] \in rows
        BY <3>1
      <4>2. [movement |-> m, row |-> delivery[m]].movement = m
        OBVIOUS
      <4> QED
        BY <4>1, <4>2
    <3>2. ASSUME NEW d \in rows, d.movement = m PROVE m \in due
      BY <3>2
    <3> QED
      BY <1>1, <1>2, <1>3, <3>1, <3>2 DEF Holds
  <2>2. ~Settles(w, m) /\ ~Settles(w, m)' /\ ~Tells(w, m) /\ ~Tells(w, m)' /\ pc[w] \notin GivingUp
    BY <1>1, <1>3 DEF Settles, Tells, GivingUp
  <2>3. lostAnswers \in Nat /\ faults \in Nat /\ adjusted[m] \in Nat /\ shared[m] \in Nat
        /\ escalated[m] \in Nat
    BY DEF Types, TypeOK
  <2>4. CASE m \notin due
    <3>1. shared'[m] = shared[m]
      BY <1>2, <2>3, <2>4
    <3> QED
      BY <1>1, <1>2, <1>3, <1>5, <2>1, <2>2, <2>3, <2>4, <3>1, MovementStays
  <2>5. CASE m \in due
    <3>1. delivery[m].status = "FAILED" /\ delivery'[m] = delivery[m]
      BY <1>2, <2>5 DEF DueRetry
    <3>2. /\ Cardinality(Holding(m)') = Cardinality(Holding(m)) + 1
          /\ Cardinality(Owing(m)') = Cardinality(Owing(m)) + 1
          /\ Telling(m)' = Telling(m) /\ Holding(m)' # {}
      BY <1>1, <1>3, <2>1, <2>2, <2>5, Sizes, Membership
    <3>3. Cardinality(Holding(m)) \in Nat /\ Cardinality(Owing(m)) \in Nat
          /\ Cardinality(Telling(m)) \in Nat
      BY <1>1, <1>3, Sizes
    <3>4. shared'[m] = shared[m] + (IF Holding(m) # {} THEN 1 ELSE 0)
      BY <1>2, <2>5
    <3>5. Open(m)' = 0 /\ Open(m) = IF Holding(m) # {} THEN 0 ELSE 1
      BY <3>1, <3>2 DEF Open
    <3>6. Holding(m) = {} => Cardinality(Holding(m)) = 0
      BY FS_EmptySet
    <3>7. HeldOK(m)'
      BY <2>3, <3>1, <3>2, <3>3, <3>4, <3>6 DEF MovementOK, HeldOK
    <3>8. AdjustedOK(m)'
      <4>1. adjusted[m] + Cardinality(Owing(m)) + Open(m) <= 1 + lostAnswers + faults + shared[m]
        BY DEF MovementOK, AdjustedOK
      <4>2. adjusted[m] + Cardinality(Owing(m)') + Open(m)' <= 1 + lostAnswers + faults + shared'[m]
        BY <2>3, <3>2, <3>3, <3>4, <3>5, <4>1
      <4> QED
        BY <1>2, <4>2 DEF AdjustedOK
    <3>9. EscalatedOK(m)'
      <4>1. shared[m] <= shared'[m] /\ shared'[m] \in Nat
        BY <2>3, <3>4
      <4>2. escalated'[m] = 0 \/ escalated'[m] + Cardinality(Telling(m)') <= 1 + shared'[m]
        BY <1>2, <2>3, <3>2, <3>3, <4>1 DEF MovementOK, EscalatedOK
      <4>3. ASSUME NEW v \in Worker, pc[v] \in GivingUp, work[v] = m
            PROVE  pc'[v] \in GivingUp /\ work'[v] = m
        BY <1>3, <2>2, <4>3 DEF OnlyMoves
      <4> QED
        BY <1>2, <3>1, <4>2, <4>3 DEF MovementOK, EscalatedOK
    <3> QED
      BY <3>7, <3>8, <3>9 DEF MovementOK
  <2> QED
    BY <2>4, <2>5
<1> QED
  BY <1>5, <1>7, <1>8

(* It goes on to one of them. *)
LEMMA RetryDeliveryIInv ==
  ASSUME IInv, NEW w \in Ticker, RetryDelivery(w)
  PROVE  IInv'
<1> USE PushAssumption DEF IInv, boundVars
<1>1. /\ w \in Worker /\ w \notin Consumer /\ pc[w] = "batch" /\ work[w] \notin Movement
  BY DEF Worker, RetryDelivery, WorkerOK
<1>2. PICK d \in batch[w] : /\ batch' = [batch EXCEPT ![w] = @ \ {d}]
                            /\ work' = [work EXCEPT ![w] = d.movement]
                            /\ snap' = [snap EXCEPT ![w] = d.row]
  BY DEF RetryDelivery
<1>3. /\ pc' = [pc EXCEPT ![w] = "execute"]
      /\ UNCHANGED <<connected, delivery, adjusted, escalated, shared, outcome, invocations,
                     lostAnswers, faults>>
  BY DEF RetryDelivery, Goto
<1>4. d.movement \in Movement /\ d.row \in Row /\ d.row.retry < MaxAttempts
  BY <1>1, <1>2 DEF Types, WorkerOK
<1>5. /\ pc'[w] = "execute" /\ batch'[w] = batch[w] \ {d} /\ work'[w] = d.movement
      /\ snap'[w] = d.row /\ OnlyMoves(w)
  BY <1>1, <1>2, <1>3 DEF OnlyMoves, Types, TypeOK
<1>6. Types'
  BY <1>1, <1>2, <1>3, <1>4 DEF Types, TypeOK, WorkerState
<1>7. WorkerOK(w)'
  BY <1>1, <1>2, <1>4, <1>5 DEF WorkerOK, Executing
<1>8. ASSUME NEW m \in Movement PROVE Holds(w, m)' <=> Holds(w, m)
  BY <1>1, <1>2, <1>5 DEF Holds, WorkerOK
<1>9. /\ pc[w] # "apply" /\ pc[w] \notin GivingUp /\ pc'[w] \notin GivingUp /\ pc'[w] # "apply"
      /\ lostAnswers + faults <= lostAnswers' + faults'
  BY <1>1, <1>3, <1>5 DEF GivingUp, Types
<1> QED
  BY <1>1, <1>3, <1>5, <1>6, <1>7, <1>8, <1>9, LocalStep

-----------------------------------------------------------------------------
(* executeForDelivery, up to its answer. *)
LEMMA ExecuteIInv ==
  ASSUME IInv, NEW w \in Worker, CheckConnection(w) \/ RefreshConnection(w) \/ RefreshFails(w)
  PROVE  IInv'
<1> USE PushAssumption DEF IInv, boundVars
<1>1. /\ pc[w] \in {"execute", "refresh"} /\ work[w] \in Movement
      /\ UNCHANGED <<connected, delivery, adjusted, escalated, shared, work, snap, batch, invocations,
                     lostAnswers, faults>>
  BY DEF CheckConnection, RefreshConnection, RefreshFails, WorkerOK
<1>2. /\ pc' \in [Worker -> WorkerState] /\ outcome' \in [Worker -> Outcome]
      /\ pc'[w] \in {"refresh", "post", "apply"}
      /\ pc'[w] = "apply" => outcome'[w] \in {"preserve", "skipped_unmapped"}
      /\ \A v \in Worker \ {w} : pc'[v] = pc[v] /\ outcome'[v] = outcome[v]
  BY DEF CheckConnection, RefreshConnection, RefreshFails, Goto, Types, TypeOK, WorkerState, Outcome
<1>3. Types'
  BY <1>1, <1>2 DEF Types, TypeOK
<1>4. WorkerOK(w)'
  BY <1>1, <1>2 DEF WorkerOK, Executing
<1>5. OnlyMoves(w)
  BY <1>1, <1>2 DEF OnlyMoves
<1>6. \A m \in Movement : Holds(w, m)' <=> Holds(w, m)
  BY <1>1, <1>2 DEF Holds
<1>7. /\ pc[w] # "apply" /\ pc[w] \notin GivingUp /\ pc'[w] \notin GivingUp
      /\ outcome'[w] # "delivered" \/ pc'[w] # "apply"
      /\ lostAnswers + faults <= lostAnswers' + faults' /\ faults' = faults
  BY <1>1, <1>2 DEF GivingUp, Types
<1> QED
  BY <1>1, <1>3, <1>4, <1>5, <1>6, <1>7, LocalStep

(* A worker that is through with a movement has nothing more of it. *)
LEMMA Released ==
  ASSUME IInv, NEW w \in Worker, Done(w), pc[w] \in Executing \union GivingUp
  PROVE  /\ OnlyMoves(w) /\ WorkerOK(w)'
         /\ work[w] \in Movement /\ Holds(w, work[w])
         /\ \A m \in Movement :
                /\ ~Settles(w, m)' /\ ~Tells(w, m)'
                /\ m = work[w] => ~Holds(w, m)'
                /\ m # work[w] => /\ Holds(w, m)' <=> Holds(w, m)
                                  /\ ~Settles(w, m) /\ ~Tells(w, m)
<1> USE PushAssumption
<1>1. /\ Types /\ WorkerOK(w) /\ work[w] \in Movement
      /\ pc[w] \notin {"idle", "batch", "lookup", "create"}
  BY DEF IInv, WorkerOK, Executing, GivingUp
<1>2. OnlyMoves(w)
  BY <1>1, DoneTypes DEF OnlyMoves
<1>3. /\ pc'[w] = (IF batch[w] = {} THEN "idle" ELSE "batch") /\ work'[w] = NoMovement
      /\ batch'[w] = batch[w]
  BY <1>1, DoneTypes
<1>4. w \in Consumer => pc'[w] = "idle"
  BY <1>1, <1>3 DEF WorkerOK
<1>5. \A due \in batch[w] : due.movement \in Movement
  BY <1>1 DEF Types
<1>6. WorkerOK(w)'
  BY <1>1, <1>3, <1>4, <1>5 DEF WorkerOK, Executing
<1>7. Holds(w, work[w])
  BY <1>1 DEF Holds
<1>8. ASSUME NEW m \in Movement
      PROVE  /\ ~Settles(w, m)' /\ ~Tells(w, m)'
             /\ m = work[w] => ~Holds(w, m)'
             /\ m # work[w] => /\ Holds(w, m)' <=> Holds(w, m)
                               /\ ~Settles(w, m) /\ ~Tells(w, m)
  BY <1>1, <1>3 DEF Settles, Tells, Holds, WorkerOK
<1> QED
  BY <1>1, <1>2, <1>6, <1>7, <1>8

(* Zoho is asked. *)
LEMMA AdjustStockIInv ==
  ASSUME IInv, NEW w \in Worker, AdjustStock(w)
  PROVE  IInv'
<1> USE PushAssumption DEF IInv
<1>0. pc[w] = "post" /\ work[w] \in Movement /\ WorkerOK(w)
  BY DEF AdjustStock, WorkerOK
<1> PICK m \in Movement : m = work[w]
  BY <1>0
<1>1. PICK a \in Answer :
        /\ lostAnswers' = lostAnswers + (IF Lost(a) THEN 1 ELSE 0)
        /\ adjusted' = [adjusted EXCEPT ![m] = @ + (IF a.made THEN 1 ELSE 0)]
        /\ outcome' = [outcome EXCEPT ![w] = a.outcome]
  BY DEF AdjustStock
<1>2. /\ pc' = [pc EXCEPT ![w] = "apply"]
      /\ UNCHANGED <<connected, delivery, escalated, shared, work, snap, batch, invocations, faults>>
  BY DEF AdjustStock, Goto
<1>3. /\ a.outcome \in Outcome \ {"none"}
      /\ a.outcome = "delivered" => a.made
      /\ a.made /\ a.outcome # "delivered" => lostAnswers' = lostAnswers + 1
      /\ ~a.made \/ a.outcome = "delivered" => lostAnswers' = lostAnswers
  <2>1. a.outcome \in {"delivered", "retryable", "rejected"} /\ (a.outcome = "delivered" => a.made)
    BY <1>1 DEF Answer
  <2>2. /\ a.made /\ a.outcome # "delivered" => lostAnswers' = lostAnswers + 1
        /\ ~a.made \/ a.outcome = "delivered" => lostAnswers' = lostAnswers
    BY <1>1 DEF Lost, Types
  <2> QED
    BY <2>1, <2>2 DEF Outcome
<1>4. /\ lostAnswers \in Nat /\ faults \in Nat /\ lostAnswers' \in Nat
      /\ lostAnswers <= lostAnswers' /\ adjusted' \in [Movement -> Nat]
  BY <1>1 DEF Types, TypeOK
<1>5. pc'[w] = "apply" /\ outcome'[w] = a.outcome /\ OnlyMoves(w)
  BY <1>1, <1>2 DEF OnlyMoves, Types, TypeOK
<1>6. Types'
  BY <1>1, <1>2, <1>3, <1>4 DEF Types, TypeOK, WorkerState
<1>7. WorkerOK(w)'
  BY <1>0, <1>2, <1>3, <1>5 DEF WorkerOK, Executing
<1>8. \A v \in Worker : WorkerOK(v)'
  BY <1>5, <1>7, WorkerStays
<1>9. \A x \in Movement : /\ Holds(w, x)' <=> Holds(w, x)
                          /\ ~Settles(w, x) /\ ~Tells(w, x) /\ ~Tells(w, x)'
                          /\ Settles(w, x)' <=> x = m /\ a.outcome = "delivered"
  <2>1. work' = work /\ batch' = batch /\ pc[w] = "post" /\ pc'[w] = "apply"
        /\ outcome'[w] = a.outcome /\ work[w] = m
    BY <1>0, <1>2, <1>5
  <2> TAKE x \in Movement
  <2>2. Holds(w, x)' <=> Holds(w, x)
    BY <2>1 DEF Holds
  <2>3. ~Settles(w, x) /\ ~Tells(w, x) /\ ~Tells(w, x)'
    BY <2>1 DEF Settles, Tells
  <2>4. Settles(w, x)' <=> x = m /\ a.outcome = "delivered"
    BY <2>1 DEF Settles
  <2> QED
    BY <2>2, <2>3, <2>4, Zenon
<1>10. Holds(w, m) /\ pc[w] \notin GivingUp
  BY <1>0 DEF Holds, GivingUp
<1>11. lostAnswers + faults <= lostAnswers' + faults' /\ faults' = faults
  <2>1. faults' = faults
    BY <1>2
  <2>2. \A k, l, f \in Nat : k <= l => k + f <= l + f
    OBVIOUS
  <2>3. lostAnswers + faults <= lostAnswers' + faults
    BY <1>4, <2>2
  <2> QED
    BY <2>1, <2>3
<1>12. ASSUME NEW x \in Movement, x # m PROVE MovementOK(x)'
  <2>1. adjusted'[x] = adjusted[x]
    BY <1>1, <1>12 DEF Types, TypeOK
  <2> QED
    BY <1>2, <1>5, <1>6, <1>9, <1>10, <1>11, <1>12, <2>1, MovementStays
<1>13. MovementOK(m)'
  <2>1. /\ Cardinality(Owing(m)) \in Nat /\ Cardinality(Owing(m)') \in Nat
        /\ Holding(m)' = Holding(m) /\ Telling(m)' = Telling(m)
        /\ Cardinality(Owing(m)') = Cardinality(Owing(m)) - (IF a.outcome = "delivered" THEN 1 ELSE 0)
    BY <1>5, <1>9, <1>10, Sizes, Membership
  <2>2. adjusted[m] \in Nat /\ shared[m] \in Nat /\ Open(m) \in {0, 1}
        /\ adjusted'[m] = adjusted[m] + (IF a.made THEN 1 ELSE 0)
    BY <1>1 DEF Types, TypeOK, Open
  <2>3. Open(m)' = Open(m)
    BY <1>2, <2>1 DEF Open
  <2>4. adjusted[m] + Cardinality(Owing(m)) + Open(m) <= 1 + lostAnswers + faults + shared[m]
    BY DEF MovementOK, AdjustedOK
  <2>5. adjusted'[m] + Cardinality(Owing(m)') + Open(m) <= 1 + lostAnswers' + faults + shared[m]
    BY <1>1, <1>3, <1>4, <2>1, <2>2, <2>4
  <2>6. AdjustedOK(m)'
    BY <1>2, <2>3, <2>5 DEF AdjustedOK
  <2>7. HeldOK(m)'
    BY <1>2, <2>1 DEF MovementOK, HeldOK
  <2>8. ASSUME NEW v \in Worker, pc[v] \in GivingUp, work[v] = m
        PROVE  pc'[v] \in GivingUp /\ work'[v] = m
    BY <1>5, <1>10, <2>8 DEF OnlyMoves
  <2>9. EscalatedOK(m)'
    BY <1>2, <2>1, <2>8 DEF MovementOK, EscalatedOK
  <2> QED
    BY <2>6, <2>7, <2>9 DEF MovementOK
<1> QED
  BY <1>6, <1>8, <1>12, <1>13

-----------------------------------------------------------------------------
(* applyExecutionOutcome, whatever the row says by now. *)
LEMMA AppliedTypes ==
  ASSUME IInv, NEW w \in Worker, pc[w] = "apply"
  PROVE  /\ work[w] \in Movement /\ AppliedRow(w) \in Row
         /\ outcome[w] \in Outcome \ {"none"}
         /\ AppliedRow(w).status # "NONE"
         /\ outcome[w] = "delivered" => AppliedRow(w).status = "DELIVERED"
         /\ ~GivesUp(w) => ~(AppliedRow(w).status = "FAILED" /\ AppliedRow(w).retry = MaxAttempts)
<1> DEFINE m == work[w]
<1> USE PushAssumption
<1>1. /\ WorkerOK(w) /\ m \in Movement /\ delivery[m] \in Row /\ snap[w] \in Row
      /\ outcome[w] \in Outcome /\ outcome[w] # "none" /\ snap[w].retry < MaxAttempts
  BY DEF IInv, Types, TypeOK, WorkerOK, Executing
<1>2. snap[w].retry \in Nat /\ Failures(w) \in 1..MaxAttempts
  BY <1>1 DEF Row, Failures
<1>3. CASE outcome[w] = "delivered"
  <2>1. AppliedRow(w) = [delivery[m] EXCEPT !.status = "DELIVERED", !.next = "unset"] /\ ~GivesUp(w)
    BY <1>3 DEF AppliedRow, GivesUp
  <2>2. AppliedRow(w) \in Row /\ AppliedRow(w).status = "DELIVERED"
    BY <1>1, <2>1 DEF Row, Status
  <2> QED
    BY <1>1, <1>3, <2>1, <2>2
<1>4. CASE outcome[w] = "skipped_unmapped"
  <2>1. AppliedRow(w) = [delivery[m] EXCEPT !.status = "SKIPPED_UNMAPPED", !.next = "unset"] /\ ~GivesUp(w)
    BY <1>4 DEF AppliedRow, GivesUp
  <2>2. AppliedRow(w) \in Row /\ AppliedRow(w).status = "SKIPPED_UNMAPPED"
    BY <1>1, <2>1 DEF Row, Status
  <2> QED
    BY <1>1, <1>4, <2>1, <2>2
<1>5. CASE outcome[w] = "preserve"
  <2>1. AppliedRow(w) = Failed(snap[w].retry, snap[w].next) /\ ~GivesUp(w)
    BY <1>5 DEF AppliedRow, GivesUp
  <2>2. AppliedRow(w) \in Row /\ AppliedRow(w).retry = snap[w].retry /\ AppliedRow(w).status = "FAILED"
    BY <1>1, <2>1 DEF Row, Status, Failed
  <2> QED
    BY <1>1, <1>2, <1>5, <2>1, <2>2
<1>6. CASE GivesUp(w)
  <2>1. AppliedRow(w) = Failed(Failures(w), "unset") /\ outcome[w] # "delivered"
    BY <1>6 DEF AppliedRow, GivesUp
  <2>2. AppliedRow(w) \in Row /\ AppliedRow(w).status = "FAILED"
    BY <1>2, <2>1 DEF Row, Status, Failed
  <2> QED
    BY <1>1, <1>6, <2>1, <2>2
<1>7. CASE outcome[w] = "retryable" /\ ~GivesUp(w)
  <2>1. AppliedRow(w) = Failed(Failures(w), "later") /\ Failures(w) < MaxAttempts
    BY <1>2, <1>7 DEF AppliedRow, GivesUp
  <2>2. AppliedRow(w) \in Row /\ AppliedRow(w).retry < MaxAttempts /\ AppliedRow(w).status = "FAILED"
    BY <1>2, <2>1 DEF Row, Status, Failed
  <2> QED
    BY <1>1, <1>2, <1>7, <2>1, <2>2
<1> QED
  BY <1>1, <1>3, <1>4, <1>5, <1>6, <1>7 DEF Outcome, GivesUp

(* Who is through with a movement it had in hand: one fewer has it, owes it. *)
LEMMA ReleasedSizes ==
  ASSUME IInv, NEW w \in Worker, Done(w), pc[w] \in Executing \union GivingUp,
         NEW m \in Movement, m = work[w]
  PROVE  /\ Cardinality(Holding(m)) \in Nat /\ Cardinality(Holding(m)') = Cardinality(Holding(m)) - 1
         /\ Cardinality(Owing(m)) \in Nat /\ Cardinality(Owing(m)') \in Nat
         /\ Cardinality(Owing(m)') = Cardinality(Owing(m)) - (IF Settles(w, m) THEN 0 ELSE 1)
         /\ Cardinality(Telling(m)) \in Nat /\ Cardinality(Telling(m)') \in Nat
         /\ Cardinality(Telling(m)') = Cardinality(Telling(m)) - (IF Tells(w, m) THEN 1 ELSE 0)
         /\ Holding(m) # {}
<1>1. OnlyMoves(w) /\ Holds(w, m) /\ ~Holds(w, m)' /\ ~Settles(w, m)' /\ ~Tells(w, m)'
  BY Released
<1> QED
  BY <1>1, Sizes, Membership

LEMMA ApplyOutcomeIInv ==
  ASSUME IInv, NEW w \in Worker, ApplyOutcome(w)
  PROVE  IInv'
<1> USE PushAssumption DEF IInv
<1>0. /\ pc[w] = "apply" /\ work[w] \in Movement /\ WorkerOK(w)
      /\ pc[w] \in Executing \union GivingUp /\ pc[w] \notin GivingUp
  BY DEF ApplyOutcome, WorkerOK, Executing, GivingUp
<1> PICK m \in Movement : m = work[w]
  BY <1>0
<1>1. /\ delivery' = [delivery EXCEPT ![m] = AppliedRow(w)]
      /\ UNCHANGED <<connected, adjusted, escalated, shared, invocations, lostAnswers, faults>>
  BY DEF ApplyOutcome, boundVars
<1>2. PICK row \in Row : /\ row = AppliedRow(w)
                         /\ row.status # "NONE"
                         /\ outcome[w] = "delivered" => row.status = "DELIVERED"
                         /\ ~GivesUp(w) => ~(row.status = "FAILED" /\ row.retry = MaxAttempts)
  BY <1>0, AppliedTypes
<1>3. /\ delivery' = [delivery EXCEPT ![m] = row] /\ delivery' \in [Movement -> Row]
      /\ delivery'[m] = row /\ \A x \in Movement \ {m} : delivery'[x] = delivery[x]
  BY <1>1, <1>2 DEF Types, TypeOK
<1>4. /\ adjusted[m] \in Nat /\ shared[m] \in Nat /\ lostAnswers \in Nat /\ faults \in Nat
      /\ escalated[m] \in Nat /\ lostAnswers + faults <= lostAnswers' + faults'
  BY <1>1 DEF Types, TypeOK
<1>5. Open(m) \in {0, 1}
  BY DEF Open
<1>6. CASE GivesUp(w) /\ Goto(w, "escalate") /\ UNCHANGED <<work, snap, outcome, batch>>
  <2>1. pc'[w] = "escalate" /\ OnlyMoves(w)
    BY <1>6 DEF Goto, OnlyMoves, Types, TypeOK
  <2>2. Types'
    BY <1>1, <1>3, <1>6 DEF Types, TypeOK, Goto, WorkerState
  <2>3. WorkerOK(w)'
    BY <1>0, <1>6, <2>1 DEF WorkerOK, Executing
  <2>4. \A v \in Worker : WorkerOK(v)'
    BY <2>1, <2>3, WorkerStays
  <2>5. \A x \in Movement : /\ Holds(w, x)' <=> Holds(w, x)
                            /\ ~Settles(w, x)' /\ ~Tells(w, x)' /\ ~Tells(w, x) /\ ~Settles(w, x)
    BY <1>0, <1>6, <2>1 DEF Holds, Settles, Tells, GivesUp
  <2>6. ASSUME NEW x \in Movement, x # m PROVE MovementOK(x)'
    BY <1>0, <1>1, <1>3, <1>4, <2>1, <2>2, <2>5, <2>6, MovementStays
  <2>7. Holding(m)' = Holding(m) /\ Owing(m)' = Owing(m) /\ Telling(m)' = Telling(m)
    BY <2>1, <2>5, Sizes, Membership
  <2>8. Holding(m) # {}
    BY <1>0, Membership DEF Holds
  <2>9. Open(m) = 0 /\ Open(m)' = 0
    BY <2>7, <2>8 DEF Open
  <2>10. HeldOK(m)' /\ AdjustedOK(m)'
    BY <1>1, <1>2, <1>3, <2>7, <2>9 DEF MovementOK, HeldOK, AdjustedOK
  <2>11. pc'[w] \in GivingUp /\ work'[w] = m
    BY <1>6, <2>1 DEF GivingUp
  <2>12. EscalatedOK(m)'
    BY <1>1, <2>7, <2>11 DEF MovementOK, EscalatedOK
  <2> QED
    BY <2>2, <2>4, <2>6, <2>10, <2>12 DEF MovementOK
<1>7. CASE ~GivesUp(w) /\ Done(w)
  <2>1. /\ OnlyMoves(w) /\ WorkerOK(w)'
        /\ \A x \in Movement : x # m => /\ Holds(w, x)' <=> Holds(w, x)
                                        /\ ~Settles(w, x)' /\ ~Tells(w, x)' /\ ~Settles(w, x) /\ ~Tells(w, x)
    BY <1>0, <1>7, Released
  <2>2. Types'
    BY <1>1, <1>3, <1>7, DoneTypes DEF Types, TypeOK
  <2>3. \A v \in Worker : WorkerOK(v)'
    BY <2>1, WorkerStays
  <2>4. ASSUME NEW x \in Movement, x # m PROVE MovementOK(x)'
    BY <1>0, <1>1, <1>3, <1>4, <2>1, <2>2, <2>4, MovementStays
  <2>5. /\ Cardinality(Holding(m)) \in Nat /\ Cardinality(Holding(m)') = Cardinality(Holding(m)) - 1
        /\ Cardinality(Owing(m)) \in Nat /\ Cardinality(Owing(m)') \in Nat
        /\ Cardinality(Owing(m)') = Cardinality(Owing(m)) - (IF Settles(w, m) THEN 0 ELSE 1)
        /\ Cardinality(Telling(m)') = Cardinality(Telling(m)) - (IF Tells(w, m) THEN 1 ELSE 0)
        /\ Cardinality(Telling(m)) \in Nat
        /\ Holding(m) # {}
    BY <1>0, <1>7, ReleasedSizes
  <2>6. HeldOK(m)'
    BY <1>1, <1>2, <1>3, <1>4, <2>5 DEF MovementOK, HeldOK
  <2>7. Open(m) = 0 /\ Open(m)' \in {0, 1} /\ (Settles(w, m) => Open(m)' = 0)
    BY <1>2, <1>3, <2>5 DEF Open, Settles
  <2>8. AdjustedOK(m)'
    <3>1. adjusted[m] + Cardinality(Owing(m)) + Open(m) <= 1 + lostAnswers + faults + shared[m]
      BY DEF MovementOK, AdjustedOK
    <3>2. adjusted[m] + Cardinality(Owing(m)') + Open(m)' <= 1 + lostAnswers + faults + shared[m]
      BY <1>4, <2>5, <2>7, <3>1
    <3> QED
      BY <1>1, <3>2 DEF AdjustedOK
  <2>9. ~Tells(w, m)
    BY <1>0 DEF Tells
  <2>10. EscalatedOK(m)'
    BY <1>1, <1>2, <1>3, <1>7, <2>5, <2>9 DEF MovementOK, EscalatedOK
  <2> QED
    BY <2>2, <2>3, <2>4, <2>6, <2>8, <2>10 DEF MovementOK
<1> QED
  BY <1>6, <1>7 DEF ApplyOutcome

-----------------------------------------------------------------------------
(* publishIntegrationSyncFailedEvent. *)
LEMMA CheckEscalatedIInv ==
  ASSUME IInv, NEW w \in Worker, CheckEscalated(w)
  PROVE  IInv'
<1> USE PushAssumption DEF IInv
<1>0. /\ pc[w] = "escalate" /\ work[w] \in Movement /\ WorkerOK(w)
      /\ pc[w] \in Executing \union GivingUp
      /\ UNCHANGED <<connected, delivery, adjusted, escalated, shared, invocations, lostAnswers, faults>>
  BY DEF CheckEscalated, WorkerOK, GivingUp, boundVars
<1> PICK m \in Movement : m = work[w]
  BY <1>0
<1>1. /\ adjusted[m] \in Nat /\ shared[m] \in Nat /\ lostAnswers \in Nat /\ faults \in Nat
      /\ escalated[m] \in Nat /\ lostAnswers + faults <= lostAnswers' + faults'
  BY <1>0 DEF Types, TypeOK
<1>2. CASE escalated[m] > 0 /\ Done(w)
  <2>1. /\ OnlyMoves(w) /\ WorkerOK(w)'
        /\ \A x \in Movement : x # m => /\ Holds(w, x)' <=> Holds(w, x)
                                        /\ ~Settles(w, x)' /\ ~Tells(w, x)' /\ ~Settles(w, x) /\ ~Tells(w, x)
    BY <1>0, <1>2, Released
  <2>2. Types'
    BY <1>0, <1>2, DoneTypes DEF Types, TypeOK
  <2>3. \A v \in Worker : WorkerOK(v)'
    BY <2>1, WorkerStays
  <2>4. ASSUME NEW x \in Movement, x # m PROVE MovementOK(x)'
    BY <1>0, <1>1, <2>1, <2>2, <2>4, MovementStays
  <2>5. ~Settles(w, m) /\ ~Tells(w, m)
    BY <1>0 DEF Settles, Tells
  <2>6. /\ Cardinality(Holding(m)) \in Nat /\ Cardinality(Holding(m)') = Cardinality(Holding(m)) - 1
        /\ Cardinality(Owing(m)) \in Nat /\ Cardinality(Owing(m)') = Cardinality(Owing(m)) - 1
        /\ Cardinality(Telling(m)') = Cardinality(Telling(m)) /\ Cardinality(Telling(m)) \in Nat
        /\ Holding(m) # {}
    BY <1>0, <1>2, <2>5, ReleasedSizes
  <2>7. HeldOK(m)'
    BY <1>0, <1>1, <2>6 DEF MovementOK, HeldOK
  <2>8. Open(m) = 0 /\ Open(m)' \in {0, 1}
    BY <2>6 DEF Open
  <2>9. AdjustedOK(m)'
    <3>1. adjusted[m] + Cardinality(Owing(m)) + Open(m) <= 1 + lostAnswers + faults + shared[m]
      BY DEF MovementOK, AdjustedOK
    <3>2. adjusted[m] + Cardinality(Owing(m)') + Open(m)' <= 1 + lostAnswers + faults + shared[m]
      BY <1>1, <2>6, <2>8, <3>1
    <3> QED
      BY <1>0, <3>2 DEF AdjustedOK
  <2>10. EscalatedOK(m)'
    BY <1>0, <1>2, <2>6 DEF MovementOK, EscalatedOK
  <2> QED
    BY <2>2, <2>3, <2>4, <2>7, <2>9, <2>10 DEF MovementOK
<1>3. CASE escalated[m] = 0 /\ Goto(w, "publish") /\ UNCHANGED <<work, snap, outcome, batch>>
  <2>1. pc'[w] = "publish" /\ OnlyMoves(w)
    BY <1>3 DEF Goto, OnlyMoves, Types, TypeOK
  <2>2. Types'
    BY <1>0, <1>3 DEF Types, TypeOK, Goto, WorkerState
  <2>3. WorkerOK(w)'
    BY <1>0, <1>3, <2>1 DEF WorkerOK, Executing
  <2>4. \A v \in Worker : WorkerOK(v)'
    BY <2>1, <2>3, WorkerStays
  <2>5. \A x \in Movement : /\ Holds(w, x)' <=> Holds(w, x)
                            /\ ~Settles(w, x)' /\ ~Settles(w, x) /\ ~Tells(w, x)
                            /\ Tells(w, x)' <=> x = m
    BY <1>0, <1>3, <2>1 DEF Holds, Settles, Tells
  <2>6. ASSUME NEW x \in Movement, x # m PROVE MovementOK(x)'
    BY <1>0, <1>1, <2>1, <2>2, <2>5, <2>6, MovementStays
  <2>7. Holding(m)' = Holding(m) /\ Owing(m)' = Owing(m)
    BY <2>1, <2>5, Sizes, Membership
  <2>8. Open(m)' = Open(m)
    BY <1>0, <2>7 DEF Open
  <2>9. HeldOK(m)' /\ AdjustedOK(m)'
    BY <1>0, <2>7, <2>8 DEF MovementOK, HeldOK, AdjustedOK
  <2>10. pc'[w] \in GivingUp /\ work'[w] = m
    BY <1>3, <2>1 DEF GivingUp
  <2>11. EscalatedOK(m)'
    BY <1>0, <1>3, <2>10 DEF MovementOK, EscalatedOK
  <2> QED
    BY <2>2, <2>4, <2>6, <2>9, <2>11 DEF MovementOK
<1> QED
  BY <1>1, <1>2, <1>3 DEF CheckEscalated

LEMMA PublishFailureIInv ==
  ASSUME IInv, NEW w \in Worker, PublishFailure(w)
  PROVE  IInv'
<1> USE PushAssumption DEF IInv
<1>0. /\ pc[w] = "publish" /\ work[w] \in Movement /\ WorkerOK(w) /\ Done(w)
      /\ pc[w] \in Executing \union GivingUp
      /\ escalated' = [escalated EXCEPT ![work[w]] = @ + 1]
      /\ UNCHANGED <<connected, delivery, adjusted, shared, invocations, lostAnswers, faults>>
  BY DEF PublishFailure, WorkerOK, GivingUp, boundVars
<1> PICK m \in Movement : m = work[w]
  BY <1>0
<1>1. /\ adjusted[m] \in Nat /\ shared[m] \in Nat /\ lostAnswers \in Nat /\ faults \in Nat
      /\ escalated[m] \in Nat /\ lostAnswers + faults <= lostAnswers' + faults'
  BY <1>0 DEF Types, TypeOK
<1>2. /\ escalated' \in [Movement -> Nat] /\ escalated'[m] = escalated[m] + 1
      /\ \A x \in Movement \ {m} : escalated'[x] = escalated[x]
  BY <1>0 DEF Types, TypeOK
<1>3. /\ OnlyMoves(w) /\ WorkerOK(w)'
      /\ \A x \in Movement : x # m => /\ Holds(w, x)' <=> Holds(w, x)
                                      /\ ~Settles(w, x)' /\ ~Tells(w, x)' /\ ~Settles(w, x) /\ ~Tells(w, x)
  BY <1>0, Released
<1>4. Types'
  BY <1>0, <1>2, DoneTypes DEF Types, TypeOK
<1>5. \A v \in Worker : WorkerOK(v)'
  BY <1>3, WorkerStays
<1>6. ASSUME NEW x \in Movement, x # m PROVE MovementOK(x)'
  BY <1>0, <1>1, <1>2, <1>3, <1>4, <1>6, MovementStays
<1>7. ~Settles(w, m) /\ Tells(w, m)
  BY <1>0 DEF Settles, Tells
<1>8. /\ Cardinality(Holding(m)) \in Nat /\ Cardinality(Holding(m)') = Cardinality(Holding(m)) - 1
      /\ Cardinality(Owing(m)) \in Nat /\ Cardinality(Owing(m)') = Cardinality(Owing(m)) - 1
      /\ Cardinality(Telling(m)') = Cardinality(Telling(m)) - 1 /\ Cardinality(Telling(m)) \in Nat
      /\ Holding(m) # {}
  BY <1>0, <1>7, ReleasedSizes
<1>9. HeldOK(m)'
  BY <1>0, <1>1, <1>8 DEF MovementOK, HeldOK
<1>10. Open(m) = 0 /\ Open(m)' \in {0, 1}
  BY <1>8 DEF Open
<1>11. AdjustedOK(m)'
  <2>1. adjusted[m] + Cardinality(Owing(m)) + Open(m) <= 1 + lostAnswers + faults + shared[m]
    BY DEF MovementOK, AdjustedOK
  <2>2. adjusted[m] + Cardinality(Owing(m)') + Open(m)' <= 1 + lostAnswers + faults + shared[m]
    BY <1>1, <1>8, <1>10, <2>1
  <2> QED
    BY <1>0, <2>2 DEF AdjustedOK
<1>12. EscalatedOK(m)'
  <2>1. Cardinality(Telling(m)) <= 1 + shared[m]
    <3>1. Telling(m) \in SUBSET Holding(m) /\ IsFiniteSet(Holding(m))
      BY HoldersOf DEF Telling, Tells, Holding, Pushing
    <3>2. Cardinality(Telling(m)) <= Cardinality(Holding(m))
      BY <3>1, FS_Subset
    <3> QED
      BY <1>1, <1>8, <3>2 DEF MovementOK, HeldOK
  <2>2. escalated[m] = 0 \/ escalated[m] + Cardinality(Telling(m)) <= 1 + shared[m]
    BY DEF MovementOK, EscalatedOK
  <2>3. escalated[m] + 1 + (Cardinality(Telling(m)) - 1) <= 1 + shared[m]
    BY <1>1, <1>8, <2>1, <2>2
  <2>4. escalated'[m] + Cardinality(Telling(m)') <= 1 + shared'[m] /\ escalated'[m] > 0
    BY <1>0, <1>1, <1>2, <1>8, <2>3
  <2> QED
    BY <2>4 DEF EscalatedOK
<1> QED
  BY <1>4, <1>5, <1>6, <1>9, <1>11, <1>12 DEF MovementOK

-----------------------------------------------------------------------------
(* A run that dies is one more excuse for an adjustment made again; it leaves
   everything it had. *)
LEMMA WorkerDiesIInv ==
  ASSUME IInv, NEW w \in Worker, WorkerDies(w)
  PROVE  IInv'
<1> USE PushAssumption DEF IInv
<1>1. /\ faults' = faults + 1
      /\ pc' = [pc EXCEPT ![w] = "idle"] /\ work' = [work EXCEPT ![w] = NoMovement]
      /\ snap' = [snap EXCEPT ![w] = NoRow] /\ outcome' = [outcome EXCEPT ![w] = "none"]
      /\ batch' = [batch EXCEPT ![w] = {}]
      /\ UNCHANGED <<connected, delivery, adjusted, escalated, shared, invocations, lostAnswers>>
  BY DEF WorkerDies, Goto
<1>2. /\ pc'[w] = "idle" /\ work'[w] = NoMovement /\ batch'[w] = {} /\ OnlyMoves(w)
  BY <1>1 DEF OnlyMoves, Types, TypeOK
<1>3. Types'
  BY <1>1, PendingRow DEF Types, TypeOK, WorkerState, Outcome
<1>4. WorkerOK(w)'
  BY <1>2 DEF WorkerOK, Executing
<1>5. \A v \in Worker : WorkerOK(v)'
  BY <1>2, <1>4, WorkerStays
<1>6. ASSUME NEW m \in Movement PROVE MovementOK(m)'
  <2>1. ~Holds(w, m)' /\ ~Settles(w, m)' /\ ~Tells(w, m)'
    BY <1>2 DEF Holds, Settles, Tells
  <2>2. /\ Cardinality(Holding(m)) \in Nat /\ Cardinality(Holding(m)') \in Nat
        /\ Cardinality(Holding(m)') <= Cardinality(Holding(m))
        /\ Cardinality(Owing(m)) \in Nat /\ Cardinality(Owing(m)') \in Nat
        /\ Cardinality(Owing(m)') <= Cardinality(Owing(m))
        /\ Cardinality(Telling(m)) \in Nat /\ Cardinality(Telling(m)') \in Nat
        /\ Cardinality(Telling(m)') <= Cardinality(Telling(m))
    BY <1>2, <2>1, Sizes, Membership
  <2>3. Holding(m) = {} => Holding(m)' = {}
    BY <1>2, <2>1, Sizes, Membership
  <2>4. /\ adjusted[m] \in Nat /\ shared[m] \in Nat /\ lostAnswers \in Nat /\ faults \in Nat
        /\ escalated[m] \in Nat
    BY DEF Types, TypeOK
  <2>5. Open(m) \in {0, 1} /\ Open(m)' \in {0, 1}
    BY DEF Open
  <2>6. HeldOK(m)'
    BY <1>1, <2>2, <2>3, <2>4 DEF MovementOK, HeldOK
  <2>7. AdjustedOK(m)'
    <3>1. adjusted[m] + Cardinality(Owing(m)) + Open(m) <= 1 + lostAnswers + faults + shared[m]
      BY DEF MovementOK, AdjustedOK
    <3>2. adjusted[m] + Cardinality(Owing(m)') + Open(m)' <= 1 + lostAnswers + (faults + 1) + shared[m]
      BY <2>2, <2>4, <2>5, <3>1
    <3> QED
      BY <1>1, <3>2 DEF AdjustedOK
  <2>8. EscalatedOK(m)'
    <3>1. faults' # 0
      BY <1>1, <2>4
    <3>2. escalated'[m] = 0 \/ escalated'[m] + Cardinality(Telling(m)') <= 1 + shared'[m]
      BY <1>1, <2>2, <2>4 DEF MovementOK, EscalatedOK
    <3> QED
      BY <3>1, <3>2 DEF EscalatedOK
  <2> QED
    BY <2>6, <2>7, <2>8 DEF MovementOK
<1> QED
  BY <1>3, <1>5, <1>6

-----------------------------------------------------------------------------
(* Time passes, and users disconnect and reconnect: no row but for its next
   attempt changes, and no worker. *)
LEMMA AroundIInv ==
  ASSUME IInv, connected' \in BOOLEAN, delivery' \in [Movement -> Row],
         \A m \in Movement : delivery'[m].status = delivery[m].status /\ delivery'[m].retry = delivery[m].retry,
         UNCHANGED <<adjusted, escalated, shared, pc, work, snap, outcome, batch, invocations,
                     lostAnswers, faults>>
  PROVE  IInv'
<1> USE DEF IInv
<1>1. Types'
  BY DEF Types, TypeOK
<1>2. \A w \in Worker : WorkerOK(w)'
  BY DEF WorkerOK
<1>3. ASSUME NEW m \in Movement PROVE MovementOK(m)'
  <2>1. Holding(m)' = Holding(m) /\ Owing(m)' = Owing(m) /\ Telling(m)' = Telling(m)
    BY DEF Holding, Pushing, Owing, Holds, Settles, Telling, Tells
  <2>2. Open(m)' = Open(m)
    BY <2>1 DEF Open
  <2> QED
    BY <2>1, <2>2 DEF MovementOK, HeldOK, AdjustedOK, EscalatedOK
<1> QED
  BY <1>1, <1>2, <1>3

LEMMA TimePassesIInv ==
  ASSUME IInv, NEW m \in Movement, TimePasses(m)
  PROVE  IInv'
<1>1. /\ delivery' = [delivery EXCEPT ![m].next = "reached"]
      /\ UNCHANGED <<connected, adjusted, escalated, shared, pc, work, snap, outcome, batch, invocations,
                     lostAnswers, faults>>
  BY DEF TimePasses, workerVars, boundVars
<1>2. delivery \in [Movement -> Row] /\ connected' \in BOOLEAN
  BY <1>1 DEF IInv, Types, TypeOK
<1>3. [delivery[m] EXCEPT !.next = "reached"] \in Row
  BY <1>2 DEF Row
<1>4. delivery' \in [Movement -> Row]
  BY <1>1, <1>2, <1>3
<1>5. \A x \in Movement : delivery'[x].status = delivery[x].status /\ delivery'[x].retry = delivery[x].retry
  BY <1>1, <1>2 DEF Row
<1> QED
  BY <1>1, <1>2, <1>4, <1>5, AroundIInv

-----------------------------------------------------------------------------
LEMMA NextIInv == IInv /\ [Next]_vars => IInv'
<1> SUFFICES ASSUME IInv, [Next]_vars PROVE IInv'
  OBVIOUS
<1>1. ASSUME NEW w \in Worker, Push(w) PROVE IInv'
  BY <1>1, ExecuteIInv, AdjustStockIInv, ApplyOutcomeIInv, CheckEscalatedIInv, PublishFailureIInv DEF Push
<1>2. ASSUME NEW w \in Consumer, Consume(w) \/ \E m \in Movement : Handle(w, m) PROVE IInv'
  BY <1>1, <1>2, HandleIInv, CreateIInv DEF Consume, Worker
<1>3. ASSUME NEW w \in Ticker, Tick(w) PROVE IInv'
  BY <1>1, <1>3, RunRetryBatchIInv, RetryDeliveryIInv DEF Tick, Worker
<1>4. ASSUME NEW w \in Worker, WorkerDies(w) PROVE IInv'
  BY <1>4, WorkerDiesIInv
<1>5. ASSUME NEW m \in Movement, TimePasses(m) PROVE IInv'
  BY <1>5, TimePassesIInv
<1>6. delivery \in [Movement -> Row] /\ connected \in BOOLEAN
  BY DEF IInv, Types, TypeOK
<1>7. CASE Disconnect \/ Reconnect
  <2>1. /\ connected' \in BOOLEAN
        /\ UNCHANGED <<delivery, adjusted, escalated, shared, pc, work, snap, outcome, batch, invocations,
                       lostAnswers, faults>>
    BY <1>7 DEF Disconnect, Reconnect, workerVars, boundVars
  <2> QED
    BY <1>6, <2>1, AroundIInv
<1>8. CASE UNCHANGED vars
  <2>1. UNCHANGED <<connected, delivery, adjusted, escalated, shared, pc, work, snap, outcome, batch,
                    invocations, lostAnswers, faults>>
    BY <1>8 DEF vars, workerVars, boundVars
  <2> QED
    BY <1>6, <2>1, AroundIInv
<1> QED
  BY <1>2, <1>3, <1>4, <1>5, <1>7, <1>8 DEF Next

LEMMA SpecIInv == Spec => []IInv
  BY InitIInv, NextIInv, PTL DEF Spec

(* Rows, runs and counters have their types; in particular no row counts more
   than MAX_PUSH_DELIVERY_ATTEMPTS attempts, whichever stale copy a tick writes
   back. *)
THEOREM PushTypes == Spec => []TypeOK
<1>1. IInv => TypeOK
  BY DEF IInv, Types
<1> QED
  BY <1>1, SpecIInv, PTL

LEMMA IInvAdjusted == IInv => ExtraAdjustmentsHaveACause
<1> SUFFICES ASSUME IInv, NEW m \in Movement
             PROVE  adjusted[m] <= 1 + lostAnswers + faults + shared[m]
  BY DEF ExtraAdjustmentsHaveACause
<1>1. Cardinality(Owing(m)) \in Nat /\ Open(m) \in {0, 1}
  BY HoldersOf, FS_CardinalityType DEF Open
<1>2. adjusted[m] \in Nat /\ shared[m] \in Nat /\ lostAnswers \in Nat /\ faults \in Nat
  BY DEF IInv, Types, TypeOK
<1>3. adjusted[m] + Cardinality(Owing(m)) + Open(m) <= 1 + lostAnswers + faults + shared[m]
  BY DEF IInv, MovementOK, AdjustedOK
<1> QED
  BY <1>1, <1>2, <1>3

LEMMA IInvEscalated == IInv => EscalatedWhenGivenUp
<1> SUFFICES ASSUME IInv, NEW m \in Movement
             PROVE  /\ escalated[m] <= 1 + shared[m]
                    /\ (/\ delivery[m].status = "FAILED" /\ delivery[m].retry = MaxAttempts
                        /\ Pushing(m) = {} /\ faults = 0) => escalated[m] > 0
  BY DEF EscalatedWhenGivenUp
<1>1. ASSUME NEW w \in Worker, pc[w] \in GivingUp, work[w] = m PROVE Pushing(m) # {}
  BY <1>1 DEF Pushing, GivingUp
<1>2. Cardinality(Telling(m)) \in Nat
  BY HoldersOf, FS_CardinalityType
<1>3. escalated[m] \in Nat /\ shared[m] \in Nat
  BY DEF IInv, Types, TypeOK
<1>4. escalated[m] <= 1 + shared[m]
  BY <1>2, <1>3 DEF IInv, MovementOK, EscalatedOK
<1> QED
  BY <1>1, <1>4 DEF IInv, MovementOK, EscalatedOK

(* Zoho adjusts its stock once per movement, but for lost answers, runs that died
   and ticks that took a row another still had (runRetryBatch, executeForDelivery,
   applyExecutionOutcome). *)
THEOREM PushAdjusts == Spec => []ExtraAdjustmentsHaveACause
  BY IInvAdjusted, SpecIInv, PTL

(* A delivery that was given up is escalated, unless a run died; and it is once,
   but for the ticks that took its row while another still had it
   (applyExecutionOutcome, publishIntegrationSyncFailedEvent). *)
THEOREM PushEscalates == Spec => []EscalatedWhenGivenUp
  BY IInvEscalated, SpecIInv, PTL

-----------------------------------------------------------------------------
(* The pulls.  Their module's names for the size of a set. *)
LEMMA SameSizes ==
    /\ \A S : Pull!Cardinality(S) = Cardinality(S)
    /\ \A S : Pull!IsFiniteSet(S) <=> IsFiniteSet(S)
<1>1. ASSUME NEW S PROVE Pull!Cardinality(S) = Cardinality(S)
  BY DEF Pull!Cardinality, Cardinality
<1>2. ASSUME NEW S PROVE Pull!IsFiniteSet(S) <=> IsFiniteSet(S)
  BY DEF Pull!IsFiniteSet, IsFiniteSet
<1> QED
  BY <1>1, <1>2

(* The runs are a sequence, of which TypeOK tells the elements and the length. *)
RunRow ==
    [trigger : {"cron", "manual"}, status : {"running", "completed", "partial", "failed"},
     processed : 0..Cardinality(Item), started : 0..MaxTime, finished : 0..MaxTime]

PullTypes == Pull!TypeOK /\ runs \in Seq(RunRow)

(* The items a process has not done with. *)
Ahead(p) == todo[p] \union (IF pullPc[p] = "writing" THEN {item[p]} ELSE {})

UnderWay == {"fetching", "items", "writing", "reporting", "done"}

(* What a process knows.  The run it works on is one it began; of the items
   behind it each is mapped or was counted as failed; a mapping it found is still
   there. *)
PullerOK(p) ==
    /\ pullPc[p] \in {"idle", "starting", "fetching"} => failed[p] = 0
    /\ pullPc[p] \in UnderWay => run[p] \in 1..Len(runs) /\ runs[run[p]].trigger = Pull!Trigger(p)
    /\ pullPc[p] \in {"items", "writing"} =>
        /\ fetched[p] \in [Item -> Sku]
        /\ failed[p] + Cardinality(Ahead(p)) <= Cardinality(Item)
        /\ failed[p] = 0 => \A i \in Item \ Ahead(p) : mapping[i] # NoSku
    /\ pullPc[p] = "writing" =>
        /\ item[p] \in Item \ todo[p]
        /\ sawMapping[p] => mapping[item[p]] # NoSku

PullIInv ==
    /\ PullTypes
    /\ \A p \in Pull!Process : PullerOK(p)
    /\ Pull!OpeningStockOnce
    /\ Pull!CompletedMeansMapped

-----------------------------------------------------------------------------
LEMMA InitPull == Pull!PullAssumption /\ Pull!Init => PullIInv
<1> SUFFICES ASSUME Pull!PullAssumption, Pull!Init PROVE PullIInv
  OBVIOUS
<1>1. runs = <<>> /\ runs \in Seq(RunRow) /\ Len(runs) = 0 /\ DOMAIN runs = {}
  BY DEF Pull!Init
<1>2. Cardinality(Item) \in Nat
  BY FS_CardinalityType, SameSizes DEF Pull!PullAssumption
<1>3. Pull!TypeOK
  <2>1. /\ zoho \in [Item -> Sku] /\ mapping \in [Item -> Sku \union {NoSku}]
        /\ externalSku \in [Item -> Sku \union {NoSku}] /\ booked \in [Item -> Nat]
        /\ fetched \in [Pull!Process -> [Item -> Sku \union {NoSku}]]
    BY DEF Pull!Init, Pull!Unknown, Pull!PullAssumption
  <2>2. /\ Len(runs) <= MaxRuns /\ now \in 0..MaxTime /\ reports \in [1..MaxRuns -> 0..1]
        /\ renames \in 0..MaxRenames /\ failures \in 0..MaxMishaps /\ crashes \in 0..MaxMishaps
        /\ lostReports \in 0..failures
    BY <1>1 DEF Pull!Init, Pull!PullAssumption
  <2>3. /\ pullPc \in [Pull!Process -> {"idle", "starting", "fetching", "items", "writing", "reporting", "done"}]
        /\ run \in [Pull!Process -> 0..MaxRuns] /\ todo \in [Pull!Process -> SUBSET Item]
        /\ item \in [Pull!Process -> Item \union {NoItem}] /\ sawMapping \in [Pull!Process -> BOOLEAN]
        /\ failed \in [Pull!Process -> 0..Cardinality(Item)]
    BY <1>2 DEF Pull!Init, Pull!PullAssumption
  <2> QED
    BY <1>1, <2>1, <2>2, <2>3, SameSizes DEF Pull!TypeOK
<1>4. \A p \in Pull!Process : pullPc[p] = "idle" /\ failed[p] = 0
  BY DEF Pull!Init
<1>5. Pull!OpeningStockOnce
  BY DEF Pull!Init, Pull!Unknown, Pull!OpeningStockOnce
<1> QED
  BY <1>1, <1>3, <1>4, <1>5 DEF PullIInv, PullTypes, PullerOK, UnderWay, Pull!CompletedMeansMapped

(* A process knows what it knew as long as its own variables stay, the runs keep
   their triggers and mappings are not taken away. *)
LEMMA PullerStays ==
  ASSUME NEW p \in Pull!Process, PullerOK(p), Len(runs) \in Nat, Len(runs') \in Nat,
         pullPc'[p] = pullPc[p], run'[p] = run[p], fetched'[p] = fetched[p], todo'[p] = todo[p],
         item'[p] = item[p], sawMapping'[p] = sawMapping[p], failed'[p] = failed[p],
         Len(runs) <= Len(runs'), \A n \in 1..Len(runs) : runs'[n].trigger = runs[n].trigger,
         \A i \in Item : mapping[i] # NoSku => mapping'[i] # NoSku
  PROVE  PullerOK(p)'
<1>1. Ahead(p)' = Ahead(p)
  BY DEF Ahead
<1>2. pullPc[p] \in UnderWay => run'[p] \in 1..Len(runs') /\ runs'[run'[p]].trigger = Pull!Trigger(p)
  BY DEF PullerOK
<1>3. pullPc[p] \in {"items", "writing"} =>
        /\ fetched'[p] \in [Item -> Sku]
        /\ failed'[p] + Cardinality(Ahead(p)') <= Cardinality(Item)
        /\ failed'[p] = 0 => \A i \in Item \ Ahead(p)' : mapping'[i] # NoSku
  BY <1>1 DEF PullerOK
<1>4. pullPc[p] = "writing" =>
        /\ item'[p] \in Item \ todo'[p]
        /\ sawMapping'[p] => mapping'[item'[p]] # NoSku
  BY DEF PullerOK
<1>5. pullPc[p] \in {"idle", "starting", "fetching"} => failed'[p] = 0
  BY DEF PullerOK
<1> QED
  BY <1>2, <1>3, <1>4, <1>5 DEF PullerOK, Pull!Trigger

(* The steps of one process that leave the runs' triggers and take no mapping
   away: what is left to show is about that process. *)
LEMMA PullerStep ==
  ASSUME PullIInv, NEW p \in Pull!Process, PullTypes', PullerOK(p)',
         \A q \in Pull!Process \ {p} :
            /\ pullPc'[q] = pullPc[q] /\ run'[q] = run[q] /\ fetched'[q] = fetched[q] /\ todo'[q] = todo[q]
            /\ item'[q] = item[q] /\ sawMapping'[q] = sawMapping[q] /\ failed'[q] = failed[q],
         Len(runs) <= Len(runs'), \A n \in 1..Len(runs) : runs'[n].trigger = runs[n].trigger,
         \A i \in Item : mapping[i] # NoSku => mapping'[i] # NoSku,
         Pull!OpeningStockOnce', Pull!CompletedMeansMapped'
  PROVE  PullIInv'
<1>1. Len(runs) \in Nat /\ Len(runs') \in Nat
  BY LenProperties DEF PullIInv, PullTypes
<1>2. ASSUME NEW q \in Pull!Process PROVE PullerOK(q)'
  <2>1. CASE q = p
    BY <2>1
  <2>2. CASE q # p
    <3>1. PullerOK(q)
      BY DEF PullIInv
    <3> QED
      BY <1>1, <2>2, <3>1, PullerStays
  <2> QED
    BY <2>1, <2>2
<1> QED
  BY <1>2 DEF PullIInv

(* Nothing becomes complete that was not. *)
LEMMA SameCompleted ==
  ASSUME PullIInv, runs' = runs, \A i \in Item : mapping[i] # NoSku => mapping'[i] # NoSku
  PROVE  Pull!CompletedMeansMapped'
  BY DEF PullIInv, Pull!CompletedMeansMapped

-----------------------------------------------------------------------------
LEMMA StartPull ==
  ASSUME Pull!PullAssumption, PullIInv, NEW p \in Pull!Process, Pull!Start(p)
  PROVE  PullIInv'
<1> DEFINE new == Pull!NewRun(Pull!Trigger(p))
<1>1. Len(runs) \in Nat /\ runs \in Seq(RunRow) /\ Len(runs) < MaxRuns /\ MaxRuns \in Nat
  BY LenProperties DEF PullIInv, PullTypes, Pull!Start, Pull!PullAssumption
<1>2. new \in RunRow /\ new.trigger = Pull!Trigger(p) /\ new.status = "running"
  <2>1. Cardinality(Item) \in Nat
    BY FS_CardinalityType, SameSizes DEF Pull!PullAssumption
  <2> QED
    BY <2>1, SameSizes DEF Pull!NewRun, Pull!Trigger, RunRow, PullIInv, PullTypes, Pull!TypeOK, Pull!PullAssumption
<1>3. runs' = Append(runs, new)
  BY DEF Pull!Start
<1> HIDE DEF new
<1>4. /\ runs' \in Seq(RunRow) /\ Len(runs') = Len(runs) + 1
      /\ \A n \in 1..Len(runs) : runs'[n] = runs[n]
      /\ runs'[Len(runs) + 1] = new
      /\ DOMAIN runs' = 1..(Len(runs) + 1) /\ DOMAIN runs = 1..Len(runs)
  BY <1>1, <1>2, <1>3, AppendProperties, LenProperties
<1>5. /\ pullPc' = [pullPc EXCEPT ![p] = "fetching"] /\ run' = [run EXCEPT ![p] = Len(runs) + 1]
      /\ UNCHANGED <<zoho, mapping, externalSku, booked, reports, now, fetched, todo, item, sawMapping, failed,
                     renames, failures, crashes, lostReports>>
  BY DEF Pull!Start, Pull!data, Pull!budget
<1>6. PullTypes'
  <2>1. \A n \in DOMAIN runs' : runs'[n] \in RunRow
    BY <1>4, ElementOfSeq
  <2>2. Len(runs') <= MaxRuns /\ Len(runs) + 1 \in 0..MaxRuns
    BY <1>1, <1>4
  <2>3. pullPc' \in [Pull!Process -> {"idle", "starting", "fetching", "items", "writing", "reporting", "done"}]
    BY <1>5 DEF PullIInv, PullTypes, Pull!TypeOK
  <2>4. run' \in [Pull!Process -> 0..MaxRuns]
    BY <1>5, <2>2 DEF PullIInv, PullTypes, Pull!TypeOK
  <2> QED
    BY <1>4, <1>5, <2>1, <2>2, <2>3, <2>4, SameSizes DEF PullIInv, PullTypes, Pull!TypeOK, RunRow
<1>7. PullerOK(p)'
  <2>1. pullPc'[p] = "fetching" /\ run'[p] = Len(runs) + 1
    BY <1>5 DEF PullIInv, PullTypes, Pull!TypeOK
  <2>2. run'[p] \in 1..Len(runs') /\ runs'[run'[p]].trigger = Pull!Trigger(p)
    BY <1>1, <1>2, <1>4, <2>1
  <2>3. failed'[p] = 0
    <3>1. pullPc[p] \in {"idle", "starting"}
      BY DEF Pull!Start
    <3> QED
      BY <1>5, <3>1 DEF PullIInv, PullerOK
  <2> QED
    BY <2>1, <2>2, <2>3 DEF PullerOK, Pull!Trigger
<1>8. Pull!CompletedMeansMapped'
  <2> SUFFICES ASSUME NEW n \in DOMAIN runs', runs'[n].status = "completed", NEW i \in Item
               PROVE  mapping'[i] # NoSku
    BY DEF Pull!CompletedMeansMapped
  <2>1. n \in DOMAIN runs /\ runs[n].status = "completed"
    BY <1>1, <1>2, <1>4
  <2> QED
    BY <1>5, <2>1 DEF PullIInv, Pull!CompletedMeansMapped
<1>9. Pull!OpeningStockOnce'
  BY <1>5 DEF PullIInv, Pull!OpeningStockOnce
<1>10. \A q \in Pull!Process \ {p} :
            /\ pullPc'[q] = pullPc[q] /\ run'[q] = run[q] /\ fetched'[q] = fetched[q] /\ todo'[q] = todo[q]
            /\ item'[q] = item[q] /\ sawMapping'[q] = sawMapping[q] /\ failed'[q] = failed[q]
  BY <1>5 DEF PullIInv, PullTypes, Pull!TypeOK
<1>11. Len(runs) <= Len(runs') /\ \A n \in 1..Len(runs) : runs'[n].trigger = runs[n].trigger
  BY <1>1, <1>4
<1> QED
  BY <1>5, <1>6, <1>7, <1>8, <1>9, <1>10, <1>11, PullerStep

(* A step of p that neither writes the runs nor the data. *)
LEMMA LocalPull ==
  ASSUME PullIInv, NEW p \in Pull!Process, Pull!TypeOK', PullerOK(p)',
         runs' = runs, mapping' = mapping, booked' = booked,
         \A q \in Pull!Process \ {p} :
            /\ pullPc'[q] = pullPc[q] /\ run'[q] = run[q] /\ fetched'[q] = fetched[q] /\ todo'[q] = todo[q]
            /\ item'[q] = item[q] /\ sawMapping'[q] = sawMapping[q] /\ failed'[q] = failed[q]
  PROVE  PullIInv'
<1>1. Len(runs) <= Len(runs')
  BY LenProperties DEF PullIInv, PullTypes
<1>2. PullTypes'
  BY DEF PullIInv, PullTypes, RunRow
<1>3. Pull!OpeningStockOnce'
  BY DEF PullIInv, Pull!OpeningStockOnce
<1>4. Pull!CompletedMeansMapped'
  BY SameCompleted
<1> QED
  BY <1>1, <1>2, <1>3, <1>4, PullerStep

LEMMA TickFetchPull ==
  ASSUME Pull!PullAssumption, PullIInv, NEW p \in Pull!Process, Pull!Tick(p) \/ Pull!Fetch(p)
  PROVE  PullIInv'
<1>1. CASE Pull!Tick(p)
  <2>1. /\ pullPc' = [pullPc EXCEPT ![p] = "starting"]
        /\ UNCHANGED <<zoho, mapping, externalSku, booked, runs, reports, now, run, fetched, todo, item, sawMapping,
                       failed, renames, failures, crashes, lostReports>>
    BY <1>1 DEF Pull!Tick, Pull!data, Pull!budget
  <2>2. Pull!TypeOK'
    BY <2>1 DEF PullIInv, PullTypes, Pull!TypeOK
  <2>3. pullPc'[p] = "starting"
    BY <2>1 DEF PullIInv, PullTypes, Pull!TypeOK
  <2>4. PullerOK(p)'
    <3>1. failed'[p] = 0
      BY <1>1, <2>1 DEF Pull!Tick, PullIInv, PullerOK
    <3> QED
      BY <2>3, <3>1 DEF PullerOK, UnderWay
  <2>5. \A q \in Pull!Process \ {p} : pullPc'[q] = pullPc[q]
    BY <2>1 DEF PullIInv, PullTypes, Pull!TypeOK
  <2> QED
    BY <2>1, <2>2, <2>4, <2>5, LocalPull
<1>2. CASE Pull!Fetch(p)
  <2>1. /\ pullPc[p] = "fetching"
        /\ pullPc' = [pullPc EXCEPT ![p] = "items"]
        /\ fetched' = [fetched EXCEPT ![p] = zoho]
        /\ todo' = [todo EXCEPT ![p] = Item]
        /\ UNCHANGED <<zoho, mapping, externalSku, booked, runs, reports, now, run, item, sawMapping,
                       failed, renames, failures, crashes, lostReports>>
    BY <1>2 DEF Pull!Fetch, Pull!data, Pull!budget
  <2>2. Pull!TypeOK'
    <3>1. fetched' \in [Pull!Process -> [Item -> Sku \union {NoSku}]]
      <4>1. zoho \in [Item -> Sku \union {NoSku}]
        BY DEF PullIInv, PullTypes, Pull!TypeOK
      <4> QED
        BY <2>1, <4>1 DEF PullIInv, PullTypes, Pull!TypeOK
    <3>2. todo' \in [Pull!Process -> SUBSET Item]
          /\ pullPc' \in [Pull!Process -> {"idle", "starting", "fetching", "items", "writing", "reporting", "done"}]
      BY <2>1 DEF PullIInv, PullTypes, Pull!TypeOK
    <3> QED
      BY <2>1, <3>1, <3>2 DEF PullIInv, PullTypes, Pull!TypeOK
  <2>3. pullPc'[p] = "items" /\ fetched'[p] = zoho /\ todo'[p] = Item
    BY <2>1 DEF PullIInv, PullTypes, Pull!TypeOK
  <2>4. Ahead(p)' = Item
    BY <2>3 DEF Ahead
  <2>5. PullerOK(p)'
    <3>1. fetched'[p] \in [Item -> Sku]
      BY <2>3 DEF PullIInv, PullTypes, Pull!TypeOK
    <3>2. run'[p] \in 1..Len(runs') /\ runs'[run'[p]].trigger = Pull!Trigger(p)
      BY <2>1 DEF PullIInv, PullerOK, UnderWay
    <3>3. failed'[p] = 0
      BY <2>1 DEF PullIInv, PullerOK
    <3>4. failed'[p] + Cardinality(Ahead(p)') <= Cardinality(Item)
      <4>1. Cardinality(Item) \in Nat
        BY FS_CardinalityType, SameSizes DEF Pull!PullAssumption
      <4> QED
        BY <2>4, <3>3, <4>1
    <3> QED
      BY <2>3, <2>4, <3>1, <3>2, <3>4 DEF PullerOK, UnderWay, Pull!Trigger
  <2>6. \A q \in Pull!Process \ {p} : pullPc'[q] = pullPc[q] /\ fetched'[q] = fetched[q] /\ todo'[q] = todo[q]
    BY <2>1 DEF PullIInv, PullTypes, Pull!TypeOK
  <2> QED
    BY <2>1, <2>2, <2>5, <2>6, LocalPull
<1> QED
  BY <1>1, <1>2

(* updateSyncRun writes one run, and never that it is completed while an item is
   left out. *)
LEMMA FinishRun ==
  ASSUME PullIInv, NEW p \in Pull!Process, run[p] \in 1..Len(runs),
         NEW status \in {"completed", "partial", "failed"}, NEW processed \in 0..Cardinality(Item),
         Pull!Finish(p, status, processed), mapping' = mapping,
         status = "completed" => \A i \in Item : mapping[i] # NoSku
  PROVE  /\ runs' \in Seq(RunRow) /\ Len(runs') = Len(runs)
         /\ \A n \in 1..Len(runs) :
                runs'[n] = IF n = run[p] THEN [runs[n] EXCEPT !.status = status, !.processed = processed,
                                                              !.finished = now]
                           ELSE runs[n]
         /\ \A n \in 1..Len(runs) : runs'[n].trigger = runs[n].trigger
         /\ Pull!CompletedMeansMapped'
<1> DEFINE r == run[p]
           row == [runs[r] EXCEPT !.status = status, !.processed = processed, !.finished = now]
<1>1. runs \in Seq(RunRow) /\ Len(runs) \in Nat /\ DOMAIN runs = 1..Len(runs) /\ now \in 0..MaxTime
  BY LenProperties DEF PullIInv, PullTypes, Pull!TypeOK
<1>2. runs[r] \in RunRow
  BY <1>1, ElementOfSeq
<1>3. row \in RunRow /\ row.status = status /\ row.trigger = runs[r].trigger
  BY <1>1, <1>2 DEF RunRow
<1>4. runs' = [runs EXCEPT ![r] = row]
  BY <1>1, <1>2 DEF Pull!Finish, RunRow
<1> HIDE DEF row
<1>5. /\ runs' \in Seq(RunRow) /\ Len(runs') = Len(runs)
      /\ \A n \in 1..Len(runs) : runs'[n] = IF n = r THEN row ELSE runs[n]
  BY <1>1, <1>3, <1>4, ExceptSeq
<1>6. \A n \in 1..Len(runs) : runs'[n].trigger = runs[n].trigger
  BY <1>3, <1>5
<1>7. Pull!CompletedMeansMapped'
  <2> SUFFICES ASSUME NEW n \in DOMAIN runs', runs'[n].status = "completed", NEW i \in Item
               PROVE  mapping'[i] # NoSku
    BY DEF Pull!CompletedMeansMapped
  <2>1. n \in 1..Len(runs)
    BY <1>5, LenProperties
  <2>2. CASE n = r
    <3>1. status = "completed"
      BY <1>3, <1>5, <2>1, <2>2
    <3> QED
      BY <3>1
  <2>3. CASE n # r
    <3>1. n \in DOMAIN runs /\ runs[n].status = "completed"
      BY <1>1, <1>5, <2>1, <2>3
    <3> QED
      BY <3>1 DEF PullIInv, Pull!CompletedMeansMapped
  <2> QED
    BY <2>2, <2>3
<1> QED
  BY <1>5, <1>6, <1>7 DEF row

LEMMA FinishedPull ==
  ASSUME Pull!PullAssumption, PullIInv, NEW p \in Pull!Process, Pull!FetchFails(p) \/ Pull!Close(p)
  PROVE  PullIInv'
<1>0. Cardinality(Item) \in Nat
  BY FS_CardinalityType, SameSizes DEF Pull!PullAssumption
<1>1. PICK status \in {"completed", "partial", "failed"}, processed \in 0..Cardinality(Item) :
        /\ Pull!Finish(p, status, processed)
        /\ status = "completed" => \A i \in Item : mapping[i] # NoSku
  <2>1. CASE Pull!FetchFails(p)
    BY <1>0, <2>1 DEF Pull!FetchFails
  <2>2. CASE Pull!Close(p)
    <3>1. Pull!RunStatus(Cardinality(Item), failed[p]) \in {"completed", "partial", "failed"}
      BY DEF Pull!RunStatus
    <3>2. ASSUME Pull!RunStatus(Cardinality(Item), failed[p]) = "completed", NEW i \in Item
          PROVE  mapping[i] # NoSku
      <4>1. failed[p] = 0
        BY <3>2 DEF Pull!RunStatus
      <4>2. pullPc[p] = "items" /\ todo[p] = {} /\ Ahead(p) = {}
        BY <2>2 DEF Pull!Close, Ahead
      <4> QED
        BY <4>1, <4>2 DEF PullIInv, PullerOK
    <3> QED
      BY <1>0, <2>2, <3>1, <3>2, SameSizes DEF Pull!Close
  <2> QED
    BY <2>1, <2>2
<1>2. /\ pullPc[p] \in {"fetching", "items"}
      /\ UNCHANGED <<zoho, mapping, externalSku, booked, reports, now, run, fetched, todo, item, sawMapping,
                     failed, renames, crashes, lostReports>>
      /\ failures' \in 0..MaxMishaps /\ failures <= failures'
  <2>1. failures \in 0..MaxMishaps /\ crashes \in 0..MaxMishaps /\ MaxMishaps \in Nat
    BY DEF PullIInv, PullTypes, Pull!TypeOK, Pull!PullAssumption
  <2>2. CASE Pull!FetchFails(p)
    BY <2>1, <2>2 DEF Pull!FetchFails, Pull!data
  <2>3. CASE Pull!Close(p)
    BY <2>1, <2>3 DEF Pull!Close, Pull!data, Pull!budget
  <2> QED
    BY <2>2, <2>3
<1>3. run[p] \in 1..Len(runs) /\ runs[run[p]].trigger = Pull!Trigger(p)
  BY <1>2 DEF PullIInv, PullerOK, UnderWay
<1>4. /\ runs' \in Seq(RunRow) /\ Len(runs') = Len(runs)
      /\ \A n \in 1..Len(runs) : runs'[n].trigger = runs[n].trigger
      /\ Pull!CompletedMeansMapped'
  <2>1. mapping' = mapping
    BY <1>2
  <2> QED
    BY <1>1, <1>3, <2>1, FinishRun
<1>5. /\ pullPc'[p] \in {"reporting", "done"} /\ \A q \in Pull!Process \ {p} : pullPc'[q] = pullPc[q]
      /\ pullPc' \in [Pull!Process -> {"idle", "starting", "fetching", "items", "writing", "reporting", "done"}]
  BY <1>1 DEF Pull!Finish, PullIInv, PullTypes, Pull!TypeOK
<1>6. PullTypes'
  <2>1. \A n \in DOMAIN runs' : runs'[n] \in RunRow
    BY <1>4, ElementOfSeq, LenProperties
  <2>2. Len(runs') <= MaxRuns
    BY <1>4 DEF PullIInv, PullTypes, Pull!TypeOK
  <2>3. lostReports' \in 0..failures'
    BY <1>2 DEF PullIInv, PullTypes, Pull!TypeOK
  <2> QED
    BY <1>2, <1>4, <1>5, <2>1, <2>2, <2>3, SameSizes DEF PullIInv, PullTypes, Pull!TypeOK, RunRow
<1>7. PullerOK(p)'
  <2>1. run'[p] \in 1..Len(runs') /\ runs'[run'[p]].trigger = Pull!Trigger(p)
    BY <1>2, <1>3, <1>4
  <2> QED
    BY <1>5, <2>1 DEF PullerOK, Pull!Trigger
<1>8. Pull!OpeningStockOnce'
  BY <1>2 DEF PullIInv, Pull!OpeningStockOnce
<1>9. Len(runs) <= Len(runs')
  BY <1>4, LenProperties DEF PullIInv, PullTypes
<1> QED
  BY <1>2, <1>4, <1>5, <1>6, <1>7, <1>8, <1>9, PullerStep

(* Taking an item up: one not usable is counted as failed, another is in hand. *)
LEMMA LookUpPull ==
  ASSUME Pull!PullAssumption, PullIInv, NEW p \in Pull!Process, NEW i \in Item, Pull!LookUp(p, i)
  PROVE  PullIInv'
<1>1. /\ pullPc[p] = "items" /\ i \in todo[p]
      /\ todo' = [todo EXCEPT ![p] = @ \ {i}]
      /\ UNCHANGED <<zoho, mapping, externalSku, booked, runs, reports, now, run, fetched,
                     renames, failures, crashes, lostReports>>
  BY DEF Pull!LookUp, Pull!data, Pull!budget
<1>2. /\ todo[p] \in SUBSET Item /\ IsFiniteSet(todo[p]) /\ Cardinality(todo[p]) \in Nat
      /\ Cardinality(Item) \in Nat /\ failed[p] \in Nat
      /\ Cardinality(todo[p] \ {i}) = Cardinality(todo[p]) - 1 /\ Cardinality(todo[p] \ {i}) \in Nat
  <2>1. todo[p] \in SUBSET Item
    BY DEF PullIInv, PullTypes, Pull!TypeOK
  <2>2. IsFiniteSet(Item)
    BY SameSizes DEF Pull!PullAssumption
  <2>3. IsFiniteSet(todo[p])
    BY <2>1, <2>2, FS_Subset
  <2>4. Cardinality(todo[p]) \in Nat /\ Cardinality(Item) \in Nat
    BY <2>2, <2>3, FS_CardinalityType
  <2>5. Cardinality(todo[p] \ {i}) = Cardinality(todo[p]) - 1 /\ Cardinality(todo[p] \ {i}) \in Nat
    BY <1>1, <2>3, FS_RemoveElement, FS_CardinalityType
  <2>6. failed[p] \in Nat
    BY <2>4 DEF PullIInv, PullTypes, Pull!TypeOK
  <2> QED
    BY <2>1, <2>3, <2>4, <2>5, <2>6
<1>3. Ahead(p) = todo[p] /\ todo'[p] = todo[p] \ {i}
  BY <1>1 DEF Ahead, PullIInv, PullTypes, Pull!TypeOK
<1>4. /\ fetched[p] \in [Item -> Sku]
      /\ failed[p] + Cardinality(todo[p]) <= Cardinality(Item)
      /\ failed[p] = 0 => \A j \in Item \ todo[p] : mapping[j] # NoSku
      /\ run[p] \in 1..Len(runs) /\ runs[run[p]].trigger = Pull!Trigger(p)
  BY <1>1, <1>3 DEF PullIInv, PullerOK, UnderWay
<1>5. todo' \in [Pull!Process -> SUBSET Item] /\ \A q \in Pull!Process \ {p} : todo'[q] = todo[q]
  BY <1>1 DEF PullIInv, PullTypes, Pull!TypeOK
<1>6. CASE i \in Unusable
  <2>1. failed' = [failed EXCEPT ![p] = @ + 1] /\ UNCHANGED <<pullPc, item, sawMapping>>
    BY <1>6 DEF Pull!LookUp
  <2>2. failed'[p] = failed[p] + 1 /\ \A q \in Pull!Process \ {p} : failed'[q] = failed[q]
    BY <2>1 DEF PullIInv, PullTypes, Pull!TypeOK
  <2>3. failed'[p] + Cardinality(todo'[p]) <= Cardinality(Item)
    BY <1>2, <1>3, <1>4, <2>2
  <2>4. failed' \in [Pull!Process -> 0..Cardinality(Item)]
    <3>1. failed[p] + 1 \in 0..Cardinality(Item)
      BY <1>2, <1>4
    <3> QED
      BY <2>1, <3>1, SameSizes DEF PullIInv, PullTypes, Pull!TypeOK
  <2>5. Pull!TypeOK'
    BY <1>1, <1>5, <2>1, <2>4, SameSizes DEF PullIInv, PullTypes, Pull!TypeOK
  <2>6. Ahead(p)' = todo'[p]
    BY <1>1, <2>1 DEF Ahead
  <2>7. PullerOK(p)'
    BY <1>1, <1>2, <1>4, <2>1, <2>2, <2>3, <2>6 DEF PullerOK, Pull!Trigger, UnderWay
  <2> QED
    BY <1>1, <1>5, <2>1, <2>2, <2>5, <2>7, LocalPull
<1>7. CASE i \notin Unusable
  <2>1. /\ pullPc' = [pullPc EXCEPT ![p] = "writing"]
        /\ item' = [item EXCEPT ![p] = i]
        /\ sawMapping' = [sawMapping EXCEPT ![p] = mapping[i] # NoSku]
        /\ failed' = failed
    BY <1>7 DEF Pull!LookUp
  <2>2. /\ pullPc'[p] = "writing" /\ item'[p] = i /\ sawMapping'[p] = (mapping[i] # NoSku)
        /\ \A q \in Pull!Process \ {p} : pullPc'[q] = pullPc[q] /\ item'[q] = item[q] /\ sawMapping'[q] = sawMapping[q]
    BY <2>1 DEF PullIInv, PullTypes, Pull!TypeOK
  <2>3. /\ pullPc' \in [Pull!Process -> {"idle", "starting", "fetching", "items", "writing", "reporting", "done"}]
        /\ item' \in [Pull!Process -> Item \union {NoItem}]
        /\ sawMapping' \in [Pull!Process -> BOOLEAN]
    BY <2>1 DEF PullIInv, PullTypes, Pull!TypeOK
  <2>4. Pull!TypeOK'
    BY <1>1, <1>5, <2>1, <2>3 DEF PullIInv, PullTypes, Pull!TypeOK
  <2>5. Ahead(p)' = todo[p]
    BY <1>1, <1>3, <2>2 DEF Ahead
  <2>6. PullerOK(p)'
    BY <1>1, <1>3, <1>4, <2>1, <2>2, <2>5 DEF PullerOK, Pull!Trigger, UnderWay
  <2> QED
    BY <1>1, <1>5, <2>1, <2>2, <2>4, <2>6, LocalPull
<1> QED
  BY <1>6, <1>7

(* The process is through with the item in its hand. *)
LEMMA DonePull ==
  ASSUME Pull!PullAssumption, PullIInv, NEW p \in Pull!Process, pullPc[p] = "writing", Pull!ItemDone(p),
         mapping' \in [Item -> Sku \union {NoSku}], externalSku' \in [Item -> Sku \union {NoSku}],
         booked' \in [Item -> Nat],
         \A j \in Item : mapping[j] # NoSku => mapping'[j] # NoSku,
         failures' \in 0..MaxMishaps, failures <= failures',
         \/ failed' = failed /\ mapping'[item[p]] # NoSku
         \/ failed' = [failed EXCEPT ![p] = @ + 1],
         Pull!OpeningStockOnce'
  PROVE  PullIInv'
<1> DEFINE i == item[p]
<1>1. /\ pullPc' = [pullPc EXCEPT ![p] = "items"] /\ item' = [item EXCEPT ![p] = NoItem]
      /\ sawMapping' = [sawMapping EXCEPT ![p] = FALSE]
      /\ UNCHANGED <<zoho, runs, reports, now, run, fetched, todo, renames, crashes, lostReports>>
  BY DEF Pull!ItemDone
<1>2. /\ i \in Item /\ i \notin todo[p] /\ Ahead(p) = todo[p] \union {i}
      /\ fetched[p] \in [Item -> Sku]
      /\ failed[p] + Cardinality(Ahead(p)) <= Cardinality(Item)
      /\ failed[p] = 0 => \A j \in Item \ Ahead(p) : mapping[j] # NoSku
      /\ run[p] \in 1..Len(runs) /\ runs[run[p]].trigger = Pull!Trigger(p)
  BY DEF PullIInv, PullerOK, UnderWay, Ahead
<1>3. Cardinality(Ahead(p)) = Cardinality(todo[p]) + 1 /\ Cardinality(todo[p]) \in Nat
  <2>1. todo[p] \in SUBSET Item /\ IsFiniteSet(Item)
    BY SameSizes DEF PullIInv, PullTypes, Pull!TypeOK, Pull!PullAssumption
  <2>2. IsFiniteSet(todo[p])
    BY <2>1, FS_Subset
  <2> QED
    BY <1>2, <2>2, FS_AddElement, FS_CardinalityType
<1>4. Cardinality(Item) \in Nat /\ failed[p] \in Nat
  <2>1. Cardinality(Item) \in Nat
    BY FS_CardinalityType, SameSizes DEF Pull!PullAssumption
  <2> QED
    BY <2>1 DEF PullIInv, PullTypes, Pull!TypeOK
<1>5. /\ pullPc'[p] = "items" /\ todo'[p] = todo[p]
      /\ \A q \in Pull!Process \ {p} : pullPc'[q] = pullPc[q] /\ item'[q] = item[q] /\ sawMapping'[q] = sawMapping[q]
      /\ pullPc' \in [Pull!Process -> {"idle", "starting", "fetching", "items", "writing", "reporting", "done"}]
      /\ item' \in [Pull!Process -> Item \union {NoItem}] /\ sawMapping' \in [Pull!Process -> BOOLEAN]
  BY <1>1 DEF PullIInv, PullTypes, Pull!TypeOK
<1>6. /\ failed'[p] \in {failed[p], failed[p] + 1}
      /\ failed'[p] = failed[p] => mapping'[i] # NoSku
      /\ \A q \in Pull!Process \ {p} : failed'[q] = failed[q]
      /\ failed' \in [Pull!Process -> 0..Cardinality(Item)]
  <2>1. failed \in [Pull!Process -> 0..Cardinality(Item)]
    BY SameSizes DEF PullIInv, PullTypes, Pull!TypeOK
  <2>2. failed[p] + 1 \in 0..Cardinality(Item) /\ failed[p] + 1 # failed[p]
    BY <1>2, <1>3, <1>4
  <2> QED
    BY <2>1, <2>2
<1>7. PullTypes'
  <2>1. lostReports' \in 0..failures'
    BY <1>1 DEF PullIInv, PullTypes, Pull!TypeOK, Pull!PullAssumption
  <2> QED
    BY <1>1, <1>5, <1>6, <2>1, SameSizes DEF PullIInv, PullTypes, Pull!TypeOK, RunRow
<1>8. Ahead(p)' = todo[p]
  BY <1>5 DEF Ahead
<1>9. PullerOK(p)'
  <2>1. failed'[p] + Cardinality(todo[p]) <= Cardinality(Item)
    BY <1>2, <1>3, <1>4, <1>6
  <2>2. ASSUME failed'[p] = 0, NEW j \in Item \ todo[p] PROVE mapping'[j] # NoSku
    <3>1. failed[p] = 0 /\ failed'[p] = failed[p]
      BY <1>4, <1>6, <2>2
    <3>2. CASE j = i
      BY <1>6, <3>1, <3>2
    <3>3. CASE j # i
      BY <1>2, <3>1, <3>3
    <3> QED
      BY <3>2, <3>3
  <2> QED
    BY <1>1, <1>2, <1>5, <1>8, <2>1, <2>2 DEF PullerOK, Pull!Trigger, UnderWay
<1>10. Pull!CompletedMeansMapped'
  BY <1>1, SameCompleted
<1>11. Len(runs) <= Len(runs')
  BY <1>1, LenProperties DEF PullIInv, PullTypes
<1> QED
  BY <1>1, <1>5, <1>6, <1>7, <1>9, <1>10, <1>11, PullerStep

LEMMA WritingPull ==
  ASSUME Pull!PullAssumption, PullIInv, NEW p \in Pull!Process, Pull!UpdateItem(p) \/ Pull!AddItem(p) \/ Pull!ItemFails(p)
  PROVE  PullIInv'
<1> DEFINE i == item[p]
<1>0. /\ pullPc[p] = "writing" /\ Pull!ItemDone(p) /\ i \in Item
      /\ sawMapping[p] => mapping[i] # NoSku
      /\ fetched[p] \in [Item -> Sku]
  BY DEF Pull!UpdateItem, Pull!AddItem, Pull!ItemFails, PullIInv, PullerOK
<1>T. /\ mapping \in [Item -> Sku \union {NoSku}] /\ externalSku \in [Item -> Sku \union {NoSku}]
      /\ booked \in [Item -> Nat] /\ failures \in 0..MaxMishaps /\ crashes \in 0..MaxMishaps
      /\ Pull!OpeningStockOnce
  BY DEF PullIInv, PullTypes, Pull!TypeOK
<1>1. CASE Pull!UpdateItem(p)
  <2>1. /\ sawMapping[p] /\ externalSku' = [externalSku EXCEPT ![i] = fetched[p][i]]
        /\ UNCHANGED <<mapping, booked, failed, failures>>
    BY <1>1 DEF Pull!UpdateItem
  <2>2. externalSku' \in [Item -> Sku \union {NoSku}]
    BY <1>0, <1>T, <2>1
  <2>3. Pull!OpeningStockOnce'
    BY <1>T, <2>1 DEF Pull!OpeningStockOnce
  <2>4. failures' \in 0..MaxMishaps /\ failures <= failures'
    BY <1>T, <2>1 DEF Pull!PullAssumption
  <2>5. mapping'[item[p]] # NoSku
    BY <1>0, <2>1
  <2> QED
    BY <1>0, <1>T, <2>1, <2>2, <2>3, <2>4, <2>5, DonePull
<1>2. CASE Pull!AddItem(p)
  <2> DEFINE sku == fetched[p][i]
  <2>1. /\ mapping[i] = NoSku /\ mapping' = [mapping EXCEPT ![i] = sku]
        /\ externalSku' = [externalSku EXCEPT ![i] = sku]
        /\ booked' = [booked EXCEPT ![i] = IF i \in InStock THEN @ + 1 ELSE @]
        /\ UNCHANGED <<failed, failures>>
    BY <1>2 DEF Pull!AddItem, Pull!Insertable
  <2>2. sku \in Sku /\ sku # NoSku
    BY <1>0 DEF Pull!PullAssumption
  <2> HIDE DEF sku
  <2>3. /\ mapping' \in [Item -> Sku \union {NoSku}] /\ externalSku' \in [Item -> Sku \union {NoSku}]
        /\ booked' \in [Item -> Nat]
        /\ mapping'[i] = sku /\ \A j \in Item \ {i} : mapping'[j] = mapping[j] /\ booked'[j] = booked[j]
        /\ booked'[i] = IF i \in InStock THEN booked[i] + 1 ELSE booked[i]
    BY <1>0, <1>T, <2>1, <2>2
  <2>4. Pull!OpeningStockOnce'
    <3> SUFFICES ASSUME NEW j \in Item
                 PROVE  booked'[j] = IF mapping'[j] # NoSku /\ j \in InStock THEN 1 ELSE 0
      BY DEF Pull!OpeningStockOnce
    <3>1. booked[j] = IF mapping[j] # NoSku /\ j \in InStock THEN 1 ELSE 0
      BY <1>T DEF Pull!OpeningStockOnce
    <3>2. CASE j = i
      BY <2>1, <2>2, <2>3, <3>1, <3>2
    <3>3. CASE j # i
      BY <2>3, <3>1, <3>3
    <3> QED
      BY <3>2, <3>3
  <2>5. \A j \in Item : mapping[j] # NoSku => mapping'[j] # NoSku
    BY <2>2, <2>3
  <2>6. failures' \in 0..MaxMishaps /\ failures <= failures'
    BY <1>T, <2>1 DEF Pull!PullAssumption
  <2>7. failed' = failed /\ mapping'[item[p]] # NoSku
    BY <2>1, <2>2, <2>3
  <2> HIDE DEF i
  <2> QED
    BY <1>0, <2>3, <2>4, <2>5, <2>6, <2>7, DonePull
<1>3. CASE Pull!ItemFails(p)
  <2>1. failed' = [failed EXCEPT ![p] = @ + 1] /\ UNCHANGED <<mapping, externalSku, booked>>
    BY <1>3 DEF Pull!ItemFails, Pull!data
  <2>2. failures' \in 0..MaxMishaps /\ failures <= failures'
    <3>1. \/ failures' = failures
          \/ failures + crashes < MaxMishaps /\ failures' = failures + 1
      BY <1>3 DEF Pull!ItemFails
    <3> QED
      BY <1>T, <3>1 DEF Pull!PullAssumption
  <2>3. Pull!OpeningStockOnce'
    BY <1>T, <2>1 DEF Pull!OpeningStockOnce
  <2> QED
    BY <1>0, <1>T, <2>1, <2>2, <2>3, DonePull
<1> QED
  BY <1>1, <1>2, <1>3

LEMMA ReportPull ==
  ASSUME Pull!PullAssumption, PullIInv, NEW p \in Pull!Process, Pull!Report(p)
  PROVE  PullIInv'
<1>1. /\ pullPc[p] = "reporting" /\ pullPc' = [pullPc EXCEPT ![p] = "done"]
      /\ UNCHANGED <<zoho, mapping, externalSku, booked, runs, now, run, fetched, todo, item, sawMapping, failed,
                     renames, crashes>>
      /\ \/ /\ reports' = [reports EXCEPT ![run[p]] = IF @ > 0 THEN @ ELSE @ + 1]
            /\ UNCHANGED <<failures, lostReports>>
         \/ /\ failures + crashes < MaxMishaps /\ failures' = failures + 1
            /\ lostReports' = lostReports + 1 /\ reports' = reports
  BY DEF Pull!Report, Pull!data
<1>2. run[p] \in 1..Len(runs) /\ runs[run[p]].trigger = Pull!Trigger(p)
  BY <1>1 DEF PullIInv, PullerOK, UnderWay
<1>3. run[p] \in 1..MaxRuns
  BY <1>2, LenProperties DEF PullIInv, PullTypes, Pull!TypeOK, Pull!PullAssumption
<1>4. reports' \in [1..MaxRuns -> 0..1]
  <2>1. reports \in [1..MaxRuns -> 0..1]
    BY DEF PullIInv, PullTypes, Pull!TypeOK
  <2>2. (IF reports[run[p]] > 0 THEN reports[run[p]] ELSE reports[run[p]] + 1) \in 0..1
    BY <1>3, <2>1
  <2> QED
    BY <1>1, <1>3, <2>1, <2>2
<1>5. failures' \in 0..MaxMishaps /\ lostReports' \in 0..failures'
  <2>1. failures \in 0..MaxMishaps /\ crashes \in 0..MaxMishaps /\ lostReports \in 0..failures
    BY DEF PullIInv, PullTypes, Pull!TypeOK
  <2>2. MaxMishaps \in Nat
    BY DEF Pull!PullAssumption
  <2>3. CASE UNCHANGED <<failures, lostReports>>
    BY <2>1, <2>3
  <2>4. CASE failures + crashes < MaxMishaps /\ failures' = failures + 1 /\ lostReports' = lostReports + 1
    BY <2>1, <2>2, <2>4
  <2> QED
    BY <1>1, <2>3, <2>4
<1>6. /\ pullPc'[p] = "done" /\ \A q \in Pull!Process \ {p} : pullPc'[q] = pullPc[q]
      /\ pullPc' \in [Pull!Process -> {"idle", "starting", "fetching", "items", "writing", "reporting", "done"}]
  BY <1>1 DEF PullIInv, PullTypes, Pull!TypeOK
<1>7. Pull!TypeOK'
  BY <1>1, <1>4, <1>5, <1>6 DEF PullIInv, PullTypes, Pull!TypeOK
<1>8. PullerOK(p)'
  BY <1>1, <1>2, <1>6 DEF PullerOK, Pull!Trigger
<1> QED
  BY <1>1, <1>6, <1>7, <1>8, LocalPull

(* Calls that are over, or whose process died, are as they began. *)
LEMMA ForgetPull ==
  ASSUME Pull!PullAssumption, PullIInv, NEW P \in SUBSET Pull!Process, Pull!Forget(P),
         renames' \in 0..MaxRenames, failures' = failures, crashes' \in 0..MaxMishaps, lostReports' = lostReports
  PROVE  PullIInv'
<1>1. UNCHANGED <<zoho, mapping, externalSku, booked, runs, reports, now>>
  BY DEF Pull!Forget, Pull!data
<1>2. /\ pullPc' \in [Pull!Process -> {"idle", "starting", "fetching", "items", "writing", "reporting", "done"}]
      /\ run' \in [Pull!Process -> 0..MaxRuns] /\ todo' \in [Pull!Process -> SUBSET Item]
      /\ item' \in [Pull!Process -> Item \union {NoItem}] /\ sawMapping' \in [Pull!Process -> BOOLEAN]
      /\ fetched' \in [Pull!Process -> [Item -> Sku \union {NoSku}]]
      /\ failed' \in [Pull!Process -> 0..Cardinality(Item)]
  <2>1. Cardinality(Item) \in Nat /\ MaxRuns \in Nat /\ Pull!Unknown \in [Item -> Sku \union {NoSku}]
    BY FS_CardinalityType, SameSizes DEF Pull!PullAssumption, Pull!Unknown
  <2>2. /\ pullPc \in [Pull!Process -> {"idle", "starting", "fetching", "items", "writing", "reporting", "done"}]
        /\ run \in [Pull!Process -> 0..MaxRuns] /\ todo \in [Pull!Process -> SUBSET Item]
        /\ item \in [Pull!Process -> Item \union {NoItem}] /\ sawMapping \in [Pull!Process -> BOOLEAN]
        /\ fetched \in [Pull!Process -> [Item -> Sku \union {NoSku}]]
        /\ failed \in [Pull!Process -> 0..Cardinality(Item)]
    BY SameSizes DEF PullIInv, PullTypes, Pull!TypeOK
  <2>3. pullPc' \in [Pull!Process -> {"idle", "starting", "fetching", "items", "writing", "reporting", "done"}]
    BY <2>2 DEF Pull!Forget
  <2>4. run' \in [Pull!Process -> 0..MaxRuns]
    BY <2>1, <2>2 DEF Pull!Forget
  <2>5. todo' \in [Pull!Process -> SUBSET Item]
    BY <2>2 DEF Pull!Forget
  <2>6. item' \in [Pull!Process -> Item \union {NoItem}] /\ sawMapping' \in [Pull!Process -> BOOLEAN]
    BY <2>2 DEF Pull!Forget
  <2>7. fetched' \in [Pull!Process -> [Item -> Sku \union {NoSku}]]
    BY <2>1, <2>2 DEF Pull!Forget
  <2>8. failed' \in [Pull!Process -> 0..Cardinality(Item)]
    BY <2>1, <2>2 DEF Pull!Forget
  <2> QED
    BY <2>3, <2>4, <2>5, <2>6, <2>7, <2>8
<1>3. PullTypes'
  BY <1>1, <1>2, SameSizes DEF PullIInv, PullTypes, Pull!TypeOK, RunRow
<1>4. ASSUME NEW q \in Pull!Process PROVE PullerOK(q)'
  <2>1. CASE q \in P
    <3>1. pullPc'[q] = "idle" /\ failed'[q] = 0
      BY <2>1 DEF Pull!Forget
    <3> QED
      BY <3>1 DEF PullerOK, UnderWay
  <2>2. CASE q \notin P
    <3>1. /\ pullPc'[q] = pullPc[q] /\ run'[q] = run[q] /\ fetched'[q] = fetched[q] /\ todo'[q] = todo[q]
          /\ item'[q] = item[q] /\ sawMapping'[q] = sawMapping[q] /\ failed'[q] = failed[q]
      BY <2>2 DEF Pull!Forget
    <3>2. Len(runs) \in Nat /\ PullerOK(q)
      BY LenProperties DEF PullIInv, PullTypes
    <3> QED
      BY <1>1, <3>1, <3>2, PullerStays
  <2> QED
    BY <2>1, <2>2
<1>5. Pull!OpeningStockOnce' /\ Pull!CompletedMeansMapped'
  BY <1>1 DEF PullIInv, Pull!OpeningStockOnce, Pull!CompletedMeansMapped
<1> QED
  BY <1>3, <1>4, <1>5 DEF PullIInv

(* Zoho changes, time passes, or nothing happens. *)
LEMMA AroundPull ==
  ASSUME Pull!PullAssumption, PullIInv, Pull!Rename \/ Pull!TimePasses \/ UNCHANGED Pull!vars
  PROVE  PullIInv'
<1>1. UNCHANGED <<mapping, externalSku, booked, runs, reports, pullPc, run, fetched, todo, item, sawMapping, failed,
                  failures, crashes, lostReports>>
  BY DEF Pull!Rename, Pull!TimePasses, Pull!vars, Pull!data, Pull!process, Pull!budget
<1>2. zoho' \in [Item -> Sku] /\ renames' \in 0..MaxRenames /\ now' \in 0..MaxTime
  <2>1. /\ zoho \in [Item -> Sku] /\ renames \in 0..MaxRenames /\ now \in 0..MaxTime
        /\ MaxRenames \in Nat /\ MaxTime \in Nat
    BY DEF PullIInv, PullTypes, Pull!TypeOK, Pull!PullAssumption
  <2>2. CASE Pull!Rename
    <3>1. PICK i \in Item, sku \in Sku : zoho' = [zoho EXCEPT ![i] = sku]
      BY <2>2 DEF Pull!Rename
    <3>2. zoho' \in [Item -> Sku]
      BY <2>1, <3>1
    <3> QED
      BY <2>1, <2>2, <3>2 DEF Pull!Rename
  <2>3. CASE Pull!TimePasses
    BY <2>1, <2>3 DEF Pull!TimePasses, Pull!budget
  <2>4. CASE UNCHANGED Pull!vars
    BY <2>1, <2>4 DEF Pull!vars, Pull!budget
  <2> QED
    BY <2>2, <2>3, <2>4
<1>3. PullTypes'
  BY <1>1, <1>2 DEF PullIInv, PullTypes, Pull!TypeOK, RunRow
<1>4. Len(runs) \in Nat
  BY LenProperties DEF PullIInv, PullTypes
<1>5. ASSUME NEW q \in Pull!Process PROVE PullerOK(q)'
  BY <1>1, <1>4, PullerStays DEF PullIInv
<1>6. Pull!OpeningStockOnce' /\ Pull!CompletedMeansMapped'
  BY <1>1 DEF PullIInv, Pull!OpeningStockOnce, Pull!CompletedMeansMapped
<1> QED
  BY <1>3, <1>5, <1>6 DEF PullIInv

LEMMA NextPull == Pull!PullAssumption /\ PullIInv /\ [Pull!Next]_(Pull!vars) => PullIInv'
<1> SUFFICES ASSUME Pull!PullAssumption, PullIInv, [Pull!Next]_(Pull!vars) PROVE PullIInv'
  OBVIOUS
<1>1. ASSUME NEW p \in Pull!Process, Pull!Tick(p) \/ Pull!Step(p) PROVE PullIInv'
  <2>1. CASE Pull!Return(p)
    <3>1. Pull!Forget({p}) /\ UNCHANGED <<renames, failures, crashes, lostReports>>
      BY <2>1 DEF Pull!Return, Pull!budget
    <3>2. renames \in 0..MaxRenames /\ crashes \in 0..MaxMishaps
      BY DEF PullIInv, PullTypes, Pull!TypeOK
    <3> QED
      BY <3>1, <3>2, ForgetPull
  <2>2. CASE Pull!Tick(p) \/ Pull!Start(p) \/ Pull!Fetch(p) \/ Pull!FetchFails(p) \/ Pull!Close(p)
    BY <2>2, TickFetchPull, StartPull, FinishedPull
  <2>3. CASE \E i \in Item : Pull!LookUp(p, i)
    BY <2>3, LookUpPull
  <2>4. CASE Pull!UpdateItem(p) \/ Pull!AddItem(p) \/ Pull!ItemFails(p) \/ Pull!Report(p)
    BY <2>4, WritingPull, ReportPull
  <2> QED
    BY <1>1, <2>1, <2>2, <2>3, <2>4 DEF Pull!Step
<1>2. CASE Pull!Crash
  <2>1. Pull!Forget(Pull!Process) /\ UNCHANGED <<renames, failures, lostReports>>
    BY <1>2 DEF Pull!Crash
  <2>2. renames \in 0..MaxRenames /\ crashes' \in 0..MaxMishaps
    BY <1>2 DEF Pull!Crash, PullIInv, PullTypes, Pull!TypeOK, Pull!PullAssumption
  <2> QED
    BY <2>1, <2>2, ForgetPull
<1>3. CASE Pull!Rename \/ Pull!TimePasses \/ UNCHANGED Pull!vars
  BY <1>3, AroundPull
<1> QED
  BY <1>1, <1>2, <1>3 DEF Pull!Next

-----------------------------------------------------------------------------
(* The order of the scheduled runs, where one instance of the cron runs them:
   a run is closed after it began, one that is about to begin is far enough from
   all before it, and the one under way is the latest. *)
OneInstance == \A p, q \in Cron : p = q

RunsInTime == \A n \in 1..Len(runs) : runs[n].started <= runs[n].finished /\ runs[n].finished <= now

LatestIsThere == Pull!CronRuns # {} => \E n \in Pull!CronRuns : \A m \in Pull!CronRuns : m <= n

CronOK(p) ==
    /\ pullPc[p] = "starting" => \A n \in Pull!CronRuns : runs[n].finished + Interval <= now
    /\ pullPc[p] \in UnderWay => \A n \in Pull!CronRuns : n <= run[p]

CronIInv ==
    /\ RunsInTime
    /\ LatestIsThere
    /\ \A p \in Cron : CronOK(p)
    /\ Pull!IntervalKept

LEMMA RunTimes ==
  ASSUME PullIInv, NEW n \in 1..Len(runs)
  PROVE  /\ runs[n] \in RunRow /\ runs[n].started \in Nat /\ runs[n].finished \in Nat
         /\ runs[n].trigger \in {"cron", "manual"} /\ now \in Nat
<1>1. runs[n] \in RunRow /\ now \in 0..MaxTime
  BY ElementOfSeq DEF PullIInv, PullTypes, Pull!TypeOK
<1>2. now \in Nat
  BY <1>1
<1> HIDE DEF PullIInv
<1> QED
  BY <1>1, <1>2 DEF RunRow

LEMMA CronRunsAre == ASSUME PullIInv PROVE Pull!CronRuns = {n \in 1..Len(runs) : runs[n].trigger = "cron"} /\ Len(runs) \in Nat
<1>1. runs \in Seq(RunRow)
  BY DEF PullIInv, PullTypes
<1> QED
  BY <1>1, LenProperties DEF Pull!CronRuns

(* Steps that leave the runs, let no process begin one and turn no clock back. *)
LEMMA CronStays ==
  ASSUME Pull!PullAssumption, PullIInv, PullIInv', CronIInv, runs' = runs, now' >= now,
         \A p \in Cron : /\ pullPc'[p] = "starting" => pullPc[p] = "starting"
                         /\ pullPc'[p] \in UnderWay => pullPc[p] \in UnderWay /\ run'[p] = run[p]
  PROVE  CronIInv'
<1>1. now \in Nat /\ now' \in Nat /\ Interval \in Nat
  <2>1. now \in 0..MaxTime /\ now' \in 0..MaxTime
    BY DEF PullIInv, PullTypes, Pull!TypeOK
  <2> QED
    BY <2>1 DEF Pull!PullAssumption
<1>2. Pull!CronRuns' = Pull!CronRuns
  BY DEF Pull!CronRuns
<1>3. RunsInTime'
  <2> SUFFICES ASSUME NEW n \in 1..Len(runs) PROVE runs[n].started <= runs[n].finished /\ runs[n].finished <= now'
    BY DEF RunsInTime
  <2>1. runs[n].started <= runs[n].finished /\ runs[n].finished <= now
    BY DEF CronIInv, RunsInTime
  <2>2. runs[n].finished \in Nat
    BY RunTimes
  <2> QED
    BY <1>1, <2>1, <2>2
<1>4. ASSUME NEW p \in Cron PROVE CronOK(p)'
  <2>1. CronOK(p)
    BY DEF CronIInv
  <2>2. ASSUME pullPc'[p] = "starting", NEW n \in Pull!CronRuns PROVE runs[n].finished + Interval <= now'
    <3>1. runs[n].finished \in Nat
      BY RunTimes, CronRunsAre
    <3>2. runs[n].finished + Interval <= now
      BY <2>1, <2>2 DEF CronOK
    <3> QED
      BY <1>1, <3>1, <3>2
  <2>3. ASSUME pullPc'[p] \in UnderWay, NEW n \in Pull!CronRuns PROVE n <= run'[p]
    BY <2>1, <2>3 DEF CronOK
  <2> QED
    BY <1>2, <2>2, <2>3 DEF CronOK
<1>5. LatestIsThere' /\ Pull!IntervalKept'
  BY <1>2 DEF CronIInv, LatestIsThere, Pull!IntervalKept
<1> QED
  BY <1>3, <1>4, <1>5 DEF CronIInv

LEMMA InitCron == Pull!PullAssumption /\ Pull!Init => CronIInv
<1> SUFFICES ASSUME Pull!PullAssumption, Pull!Init PROVE CronIInv
  OBVIOUS
<1>1. DOMAIN runs = {} /\ Len(runs) = 0
  BY DEF Pull!Init
<1>2. Pull!CronRuns = {}
  BY <1>1 DEF Pull!CronRuns
<1> QED
  BY <1>1, <1>2 DEF CronIInv, RunsInTime, LatestIsThere, CronOK, Pull!IntervalKept

(* isSyncDue looks at the latest run alone; the others are further away. *)
LEMMA TickCron ==
  ASSUME Pull!PullAssumption, PullIInv, PullIInv', CronIInv, NEW p \in Cron, Pull!Tick(p)
  PROVE  CronIInv'
<1>1. /\ runs' = runs /\ now' = now /\ run' = run /\ pullPc' = [pullPc EXCEPT ![p] = "starting"]
      /\ Pull!SyncDue
  BY DEF Pull!Tick
<1>2. now \in Nat /\ Interval \in Nat
  <2>1. now \in 0..MaxTime
    BY DEF PullIInv, PullTypes, Pull!TypeOK
  <2> QED
    BY <2>1 DEF Pull!PullAssumption
<1>3. Pull!CronRuns' = Pull!CronRuns
  BY <1>1 DEF Pull!CronRuns
<1>4. ASSUME NEW n \in Pull!CronRuns PROVE runs[n].finished + Interval <= now
  <2> DEFINE L == Pull!LatestCronRun
  <2>1. L \in Pull!CronRuns /\ \A m \in Pull!CronRuns : m <= L
    <3>1. \E k \in Pull!CronRuns : \A m \in Pull!CronRuns : m <= k
      BY <1>4 DEF CronIInv, LatestIsThere
    <3> QED
      BY <3>1 DEF Pull!LatestCronRun
  <2>2. runs[L].finished + Interval <= now
    BY <1>1, <1>4 DEF Pull!SyncDue
  <2>3. CASE n = L
    BY <2>2, <2>3
  <2>4. CASE n # L
    <3>1. n < L
      BY <2>1, <2>4, CronRunsAre
    <3>2. runs[L].started >= runs[n].finished + Interval
      BY <2>1, <3>1 DEF CronIInv, Pull!IntervalKept
    <3>3. runs[L].started <= runs[L].finished /\ runs[L].finished <= now
      BY <2>1, CronRunsAre DEF CronIInv, RunsInTime
    <3>4. runs[L].started \in Nat /\ runs[L].finished \in Nat /\ runs[n].finished \in Nat
      BY <2>1, RunTimes, CronRunsAre
    <3> HIDE DEF L
    <3> QED
      BY <1>2, <3>2, <3>3, <3>4
  <2> QED
    BY <2>3, <2>4
<1>5. ASSUME NEW q \in Cron PROVE CronOK(q)'
  <2>1. CronOK(q)
    BY DEF CronIInv
  <2>2. pullPc \in [Pull!Process -> {"idle", "starting", "fetching", "items", "writing", "reporting", "done"}] /\ q \in Pull!Process
    BY DEF PullIInv, PullTypes, Pull!TypeOK, Pull!Process
  <2>3. pullPc'[q] \in UnderWay => pullPc[q] \in UnderWay
    BY <1>1, <2>2 DEF UnderWay
  <2> QED
    BY <1>1, <1>3, <1>4, <2>1, <2>3 DEF CronOK
<1>6. RunsInTime' /\ LatestIsThere' /\ Pull!IntervalKept'
  BY <1>1, <1>3 DEF CronIInv, RunsInTime, LatestIsThere, Pull!IntervalKept
<1> QED
  BY <1>5, <1>6 DEF CronIInv

(* A run begins. *)
LEMMA StartCron ==
  ASSUME Pull!PullAssumption, PullIInv, PullIInv', CronIInv, OneInstance, NEW p \in Pull!Process, Pull!Start(p)
  PROVE  CronIInv'
<1> DEFINE k == Len(runs) + 1
           row == Pull!NewRun(Pull!Trigger(p))
<1>1. /\ runs' = Append(runs, row) /\ now' = now /\ run' = [run EXCEPT ![p] = k]
      /\ pullPc' = [pullPc EXCEPT ![p] = "fetching"] /\ pullPc[p] = IF p \in Cron THEN "starting" ELSE "idle"
  BY DEF Pull!Start
<1>2. row.started = now /\ row.finished = now /\ row.trigger = Pull!Trigger(p)
  BY DEF Pull!NewRun
<1> HIDE DEF row
<1>3. now \in Nat /\ Interval \in Nat
  <2>1. now \in 0..MaxTime
    BY DEF PullIInv, PullTypes, Pull!TypeOK
  <2> QED
    BY <2>1 DEF Pull!PullAssumption
<1>4. /\ Len(runs) \in Nat /\ Len(runs') = k /\ runs'[k] = row
      /\ \A n \in 1..Len(runs) : runs'[n] = runs[n]
  <2>1. runs \in Seq(RunRow)
    BY DEF PullIInv, PullTypes
  <2> QED
    BY <1>1, <2>1, LenProperties, AppendProperties
<1>5. Pull!CronRuns' = Pull!CronRuns \union (IF p \in Cron THEN {k} ELSE {})
  <2>1. Pull!CronRuns' = {n \in 1..Len(runs') : runs'[n].trigger = "cron"}
    <3>1. runs' \in Seq(RunRow')
      BY DEF PullIInv, PullTypes
    <3> QED
      BY <3>1, LenProperties DEF Pull!CronRuns
  <2>2. row.trigger = "cron" <=> p \in Cron
    BY <1>2 DEF Pull!Trigger
  <2>3. 1..Len(runs') = 1..Len(runs) \union {k}
    BY <1>4
  <2> HIDE DEF k
  <2>4. Pull!CronRuns = {n \in 1..Len(runs) : runs[n].trigger = "cron"}
    BY CronRunsAre
  <2> QED
    BY <1>4, <2>1, <2>2, <2>3, <2>4
<1>6. ASSUME NEW n \in Pull!CronRuns
      PROVE  n \in 1..Len(runs) /\ n < k /\ runs'[n] = runs[n] /\ runs[n].finished \in Nat
  BY <1>4, CronRunsAre, RunTimes
<1>7. RunsInTime'
  <2> SUFFICES ASSUME NEW n \in 1..Len(runs')
               PROVE  runs'[n].started <= runs'[n].finished /\ runs'[n].finished <= now
    BY <1>1 DEF RunsInTime
  <2>1. CASE n \in 1..Len(runs)
    BY <1>4, <2>1 DEF CronIInv, RunsInTime
  <2>2. CASE n = k
    BY <1>2, <1>3, <1>4, <2>2
  <2> QED
    BY <1>4, <2>1, <2>2
<1>8. LatestIsThere'
  <2>1. CASE p \in Cron
    <3>1. k \in Pull!CronRuns' /\ \A m \in Pull!CronRuns' : m <= k
      BY <1>4, <1>5, <1>6, <2>1
    <3> QED
      BY <3>1 DEF LatestIsThere
  <2>2. CASE p \notin Cron
    <3>1. Pull!CronRuns' = Pull!CronRuns
      BY <1>5, <2>2
    <3> QED
      BY <3>1 DEF CronIInv, LatestIsThere
  <2> QED
    BY <2>1, <2>2
<1>9. p \in Cron => \A n \in Pull!CronRuns : runs[n].finished + Interval <= now
  BY <1>1 DEF CronIInv, CronOK
<1>10. Pull!IntervalKept'
  <2> SUFFICES ASSUME NEW m \in Pull!CronRuns', NEW n \in Pull!CronRuns', m < n
               PROVE  runs'[n].started >= runs'[m].finished + Interval
    BY DEF Pull!IntervalKept
  <2>1. CASE m \in Pull!CronRuns /\ n \in Pull!CronRuns
    BY <1>6, <2>1 DEF CronIInv, Pull!IntervalKept
  <2>2. CASE p \in Cron /\ n = k /\ m \in Pull!CronRuns
    <3>1. runs'[n].started = now /\ runs'[m].finished = runs[m].finished
      BY <1>2, <1>4, <1>6, <2>2
    <3>2. runs[m].finished + Interval <= now
      BY <1>9, <2>2
    <3>3. runs[m].finished \in Nat
      BY <1>6, <2>2
    <3> QED
      BY <1>3, <3>1, <3>2, <3>3
  <2>3. CASE p \in Cron /\ m = k
    <3>1. n < k \/ n = k
      BY <1>5, <1>6
    <3> QED
      BY <1>4, <1>5, <1>6, <2>3, <3>1
  <2> QED
    BY <1>5, <2>1, <2>2, <2>3
<1>11. ASSUME NEW q \in Cron PROVE CronOK(q)'
  <2>1. CASE q = p
    <3>1. pullPc'[p] = "fetching" /\ run'[p] = k
      BY <1>1 DEF PullIInv, PullTypes, Pull!TypeOK
    <3>2. \A n \in Pull!CronRuns' : n <= k
      BY <1>4, <1>5, <1>6
    <3> QED
      BY <2>1, <3>1, <3>2 DEF CronOK
  <2>2. CASE q # p
    <3>1. p \notin Cron
      BY <2>2 DEF OneInstance
    <3>2. Pull!CronRuns' = Pull!CronRuns /\ pullPc'[q] = pullPc[q] /\ run'[q] = run[q]
      BY <1>1, <1>5, <2>2, <3>1
    <3>3. CronOK(q)
      BY DEF CronIInv
    <3> QED
      BY <1>1, <1>6, <3>2, <3>3 DEF CronOK
  <2> QED
    BY <2>1, <2>2
<1> QED
  BY <1>7, <1>8, <1>10, <1>11 DEF CronIInv

LEMMA SameLength ==
  ASSUME NEW m \in Nat, NEW n \in Nat, 1..m = 1..n
  PROVE  m = n
<1>1. m \in 1..m \/ m = 0
  OBVIOUS
<1>2. n \in 1..n \/ n = 0
  OBVIOUS
<1>3. m <= n
  BY <1>1
<1>4. n <= m
  BY <1>2
<1> QED
  BY <1>3, <1>4

(* A run is closed: of the scheduled ones only the latest can be. *)
LEMMA FinishCron ==
  ASSUME Pull!PullAssumption, PullIInv, PullIInv', CronIInv, NEW p \in Pull!Process, pullPc[p] \in UnderWay,
         OneInstance, NEW status, NEW processed, Pull!Finish(p, status, processed), now' = now, run' = run
  PROVE  CronIInv'
<1> DEFINE k == run[p]
<1>1. /\ runs' = [runs EXCEPT ![k].status = status, ![k].processed = processed, ![k].finished = now]
      /\ pullPc' = [pullPc EXCEPT ![p] = IF status = "failed" THEN "reporting" ELSE "done"]
  BY DEF Pull!Finish
<1>2. k \in 1..Len(runs) /\ runs[k].trigger = Pull!Trigger(p)
  BY DEF PullIInv, PullerOK
<1>3. now \in Nat
  <2>1. now \in 0..MaxTime
    BY DEF PullIInv, PullTypes, Pull!TypeOK
  <2> QED
    BY <2>1 DEF Pull!PullAssumption
<1>4. runs[k] \in RunRow /\ runs[k].started \in Nat /\ runs[k].finished \in Nat
  BY <1>2, RunTimes
<1>5. /\ Len(runs') = Len(runs) /\ Len(runs) \in Nat /\ DOMAIN runs = 1..Len(runs) /\ DOMAIN runs' = 1..Len(runs)
      /\ \A n \in 1..Len(runs) : n # k => runs'[n] = runs[n]
      /\ runs'[k] = [runs[k] EXCEPT !.status = status, !.processed = processed, !.finished = now]
  <2>1. runs \in Seq(RunRow) /\ runs' \in Seq(RunRow)
    BY DEF PullIInv, PullTypes
  <2>2. DOMAIN runs = 1..Len(runs) /\ Len(runs) \in Nat /\ DOMAIN runs' = 1..Len(runs') /\ Len(runs') \in Nat
    BY <2>1, LenProperties
  <2>3. DOMAIN runs' = DOMAIN runs
    BY <1>1
  <2>4. /\ \A n \in DOMAIN runs : n # k => runs'[n] = runs[n]
        /\ runs'[k] = [runs[k] EXCEPT !.status = status, !.processed = processed, !.finished = now]
    BY <1>1, <1>2, <2>2
  <2>5. Len(runs') = Len(runs)
    BY <2>2, <2>3, SameLength
  <2> QED
    BY <2>2, <2>3, <2>4, <2>5
<1>6. runs'[k].started = runs[k].started /\ runs'[k].finished = now /\ runs'[k].trigger = runs[k].trigger
  BY <1>4, <1>5 DEF RunRow
<1>7. Pull!CronRuns' = Pull!CronRuns
  <2>1. \A n \in 1..Len(runs) : runs'[n].trigger = runs[n].trigger
    BY <1>5, <1>6
  <2> QED
    BY <1>5, <2>1 DEF Pull!CronRuns
<1>8. k \in Pull!CronRuns => \A n \in Pull!CronRuns : n <= k
  <2>1. runs[k].trigger = "cron" => p \in Cron
    BY <1>2 DEF Pull!Trigger
  <2> QED
    BY <2>1, CronRunsAre DEF CronIInv, CronOK
<1> HIDE DEF k
<1>9. RunsInTime'
  <2> SUFFICES ASSUME NEW n \in 1..Len(runs)
               PROVE  runs'[n].started <= runs'[n].finished /\ runs'[n].finished <= now
    BY <1>5 DEF RunsInTime
  <2>1. runs[n].started <= runs[n].finished /\ runs[n].finished <= now
    BY DEF CronIInv, RunsInTime
  <2>2. runs[n].started \in Nat /\ runs[n].finished \in Nat
    BY RunTimes
  <2>3. CASE n # k
    BY <1>5, <2>1, <2>3
  <2>4. CASE n = k
    BY <1>3, <1>6, <2>1, <2>2, <2>4
  <2> QED
    BY <2>3, <2>4
<1>10. Pull!IntervalKept'
  <2> SUFFICES ASSUME NEW m \in Pull!CronRuns, NEW n \in Pull!CronRuns, m < n
               PROVE  runs'[n].started >= runs'[m].finished + Interval
    BY <1>7 DEF Pull!IntervalKept
  <2>1. m \in 1..Len(runs) /\ n \in 1..Len(runs)
    BY CronRunsAre
  <2>2. m # k
    BY <1>2, <1>8, <2>1
  <2>3. runs'[m] = runs[m]
    BY <1>5, <2>1, <2>2
  <2>4. runs'[n].started = runs[n].started
    BY <1>5, <1>6, <2>1
  <2>5. runs[n].started >= runs[m].finished + Interval
    BY DEF CronIInv, Pull!IntervalKept
  <2> QED
    BY <2>3, <2>4, <2>5
<1>11. ASSUME NEW q \in Cron PROVE CronOK(q)'
  <2>1. CronOK(q)
    BY DEF CronIInv
  <2>2. /\ pullPc'[q] = "starting" => q # p /\ pullPc[q] = "starting"
        /\ pullPc'[q] \in UnderWay => pullPc[q] \in UnderWay
    <3>1. /\ pullPc \in [Pull!Process -> {"idle", "starting", "fetching", "items", "writing", "reporting", "done"}]
          /\ q \in Pull!Process
      BY DEF PullIInv, PullTypes, Pull!TypeOK, Pull!Process
    <3>2. pullPc'[q] = IF q = p THEN (IF status = "failed" THEN "reporting" ELSE "done") ELSE pullPc[q]
      BY <1>1, <3>1
    <3> QED
      BY <3>2
  <2>4. ASSUME pullPc'[q] = "starting", NEW n \in Pull!CronRuns PROVE runs'[n].finished + Interval <= now
    <3>1. runs[n].finished + Interval <= now
      BY <2>1, <2>2, <2>4 DEF CronOK
    <3>2. n # k
      <4>1. k \in Pull!CronRuns => p \in Cron
        BY <1>2, CronRunsAre DEF Pull!Trigger
      <4> QED
        BY <2>2, <2>4, <4>1 DEF OneInstance
    <3> QED
      BY <1>5, <3>1, <3>2, CronRunsAre
  <2> QED
    BY <1>7, <2>1, <2>2, <2>4 DEF CronOK
<1>12. LatestIsThere'
  BY <1>7 DEF CronIInv, LatestIsThere
<1> QED
  BY <1>9, <1>10, <1>11, <1>12 DEF CronIInv

LEMMA NextCron ==
  Pull!PullAssumption /\ OneInstance /\ PullIInv /\ PullIInv' /\ CronIInv /\ [Pull!Next]_(Pull!vars) => CronIInv'
<1> SUFFICES ASSUME Pull!PullAssumption, OneInstance, PullIInv, PullIInv', CronIInv, [Pull!Next]_(Pull!vars) PROVE CronIInv'
  OBVIOUS
<1>1. now \in Nat /\ pullPc \in [Pull!Process -> {"idle", "starting", "fetching", "items", "writing", "reporting", "done"}]
  <2>1. now \in 0..MaxTime /\ pullPc \in [Pull!Process -> {"idle", "starting", "fetching", "items", "writing", "reporting", "done"}]
    BY DEF PullIInv, PullTypes, Pull!TypeOK
  <2> QED
    BY <2>1
<1>2. Cron \subseteq Pull!Process
  BY DEF Pull!Process
<1>3. ASSUME NEW p \in Pull!Process, NEW next \in UnderWay, pullPc[p] \in UnderWay, pullPc' = [pullPc EXCEPT ![p] = next],
             runs' = runs, now' = now, run' = run
      PROVE  CronIInv'
  <2>1. next # "starting"
    BY DEF UnderWay
  <2>2. \A q \in Cron : /\ pullPc'[q] = "starting" => pullPc[q] = "starting"
                        /\ pullPc'[q] \in UnderWay => pullPc[q] \in UnderWay /\ run'[q] = run[q]
    BY <1>1, <1>2, <1>3, <2>1
  <2> QED
    BY <1>1, <1>3, <2>2, CronStays
<1>4. ASSUME NEW p \in Pull!Process, Pull!Tick(p) \/ Pull!Step(p) PROVE CronIInv'
  <2>1. CASE Pull!Tick(p)
    BY <2>1, TickCron DEF Pull!Tick
  <2>2. CASE Pull!Start(p)
    BY <2>2, StartCron
  <2>3. CASE Pull!Fetch(p)
    BY <1>3, <2>3 DEF Pull!Fetch, UnderWay
  <2>4. CASE Pull!FetchFails(p)
    BY <2>4, FinishCron DEF Pull!FetchFails, UnderWay
  <2>5. ASSUME NEW i \in Item, Pull!LookUp(p, i) PROVE CronIInv'
    <3>1. pullPc[p] = "items" /\ runs' = runs /\ now' = now /\ run' = run
      BY <2>5 DEF Pull!LookUp
    <3>2. CASE i \in Unusable
      <4>1. pullPc' = [pullPc EXCEPT ![p] = "items"]
        BY <1>1, <2>5, <3>1, <3>2 DEF Pull!LookUp
      <4> QED
        BY <1>3, <3>1, <4>1 DEF UnderWay
    <3>3. CASE i \notin Unusable
      BY <1>3, <2>5, <3>1, <3>3 DEF Pull!LookUp, UnderWay
    <3> QED
      BY <3>2, <3>3
  <2>6. CASE Pull!UpdateItem(p) \/ Pull!AddItem(p) \/ Pull!ItemFails(p)
    <3>1. pullPc[p] = "writing" /\ Pull!ItemDone(p)
      BY <2>6 DEF Pull!UpdateItem, Pull!AddItem, Pull!ItemFails
    <3> QED
      BY <1>3, <3>1 DEF Pull!ItemDone, UnderWay
  <2>7. CASE Pull!Close(p)
    BY <2>7, FinishCron DEF Pull!Close, UnderWay
  <2>8. CASE Pull!Report(p)
    BY <1>3, <2>8 DEF Pull!Report, UnderWay
  <2>9. CASE Pull!Return(p)
    <3>1. \A q \in Cron : /\ pullPc'[q] = "starting" => pullPc[q] = "starting"
                          /\ pullPc'[q] \in UnderWay => pullPc[q] \in UnderWay /\ run'[q] = run[q]
      BY <1>2, <2>9 DEF Pull!Return, Pull!Forget, UnderWay
    <3> QED
      BY <1>1, <2>9, <3>1, CronStays DEF Pull!Return, Pull!Forget
  <2> QED
    BY <1>4, <2>1, <2>2, <2>3, <2>4, <2>5, <2>6, <2>7, <2>8, <2>9 DEF Pull!Step
<1>5. CASE Pull!Crash
  <2>1. \A q \in Cron : pullPc'[q] = "idle"
    BY <1>2, <1>5 DEF Pull!Crash, Pull!Forget
  <2> QED
    BY <1>1, <1>5, <2>1, CronStays DEF Pull!Crash, Pull!Forget, UnderWay
<1>6. CASE Pull!Rename
  BY <1>1, <1>6, CronStays DEF Pull!Rename, Pull!process
<1>7. CASE Pull!TimePasses
  BY <1>1, <1>7, CronStays DEF Pull!TimePasses, Pull!process
<1>8. CASE UNCHANGED Pull!vars
  BY <1>1, <1>8, CronStays DEF Pull!vars, Pull!process
<1> QED
  BY <1>4, <1>5, <1>6, <1>7, <1>8 DEF Pull!Next

-----------------------------------------------------------------------------
(* The traffic as a whole: the part that moves keeps its invariant, the other
   rests. *)
PartsIInv ==
    /\ part = "push" => IInv
    /\ part = "pull" => PullIInv

LEMMA InitPartsIInv == PartsInit => PartsIInv
  BY InitIInv, InitPull, PullAssumption DEF PartsInit, PartsIInv

LEMMA PartsStep ==
  ASSUME [PartsNext]_parts
  PROVE  /\ part' = part
         /\ part = "push" => [Next]_vars
         /\ part = "pull" => [Pull!Next]_(Pull!vars)
<1>1. CASE PushMoves(Next)
  BY <1>1 DEF PushMoves
<1>2. CASE PullMoves(Pull!Next)
  BY <1>2 DEF PullMoves
<1>3. CASE UNCHANGED parts
  BY <1>3 DEF parts, pullState, Pull!vars, Pull!data, Pull!process, Pull!budget
<1> QED
  BY <1>1, <1>2, <1>3 DEF PartsNext

LEMMA NextPartsIInv == PartsIInv /\ [PartsNext]_parts => PartsIInv'
<1> SUFFICES ASSUME PartsIInv, [PartsNext]_parts PROVE PartsIInv'
  OBVIOUS
<1>1. ASSUME part = "push" PROVE IInv'
  BY <1>1, PartsStep, NextIInv DEF PartsIInv
<1>2. ASSUME part = "pull" PROVE PullIInv'
  BY <1>2, PartsStep, NextPull, PullAssumption DEF PartsIInv
<1> QED
  BY <1>1, <1>2, PartsStep DEF PartsIInv

LEMMA PartsSpecIInv == PartsSpec => []PartsIInv
  BY InitPartsIInv, NextPartsIInv, PTL DEF PartsSpec

(* AdjustedAsRecorded, for every instance: Zoho adjusts once per movement, but for
   lost answers, runs that died and rows that ticks shared, and what is given up is
   escalated (runRetryBatch, executeForDelivery, applyExecutionOutcome,
   publishIntegrationSyncFailedEvent). *)
THEOREM TrafficAdjusts == PartsSpec => []AdjustedAsRecorded
<1>1. PartsIInv => AdjustedAsRecorded
  BY IInvAdjusted, IInvEscalated DEF PartsIInv, AdjustedAsRecorded
<1> QED
  BY <1>1, PartsSpecIInv, PTL

(* The traffic's types: rows, runs, counters and the processes' locals. *)
THEOREM TrafficTypes == PartsSpec => []PartsTypeOK
<1>1. PartsIInv => PartsTypeOK
  BY DEF PartsIInv, PartsTypeOK, IInv, Types, PullIInv, PullTypes
<1> QED
  BY <1>1, PartsSpecIInv, PTL

(* Pulls need no help from the pushes: their invariant holds by itself. *)
PullPartIInv == part = "pull" => PullIInv
CronPartIInv == part = "pull" => PullIInv /\ CronIInv

LEMMA PullPart == PartsSpec => []PullPartIInv
<1>1. PartsInit => PullPartIInv
  BY InitPull, PullAssumption DEF PartsInit, PullPartIInv
<1>2. PullPartIInv /\ [PartsNext]_parts => PullPartIInv'
  BY PartsStep, NextPull, PullAssumption DEF PullPartIInv
<1> QED
  BY <1>1, <1>2, PTL DEF PartsSpec

LEMMA CronPart == OneInstance /\ PartsSpec => []CronPartIInv
<1> SUFFICES ASSUME OneInstance PROVE PartsSpec => []CronPartIInv
  OBVIOUS
<1>1. PartsInit => CronPartIInv
  BY InitPull, InitCron, PullAssumption DEF PartsInit, CronPartIInv
<1>2. CronPartIInv /\ [PartsNext]_parts => CronPartIInv'
  <2> SUFFICES ASSUME CronPartIInv, [PartsNext]_parts, part = "pull" PROVE PullIInv' /\ CronIInv'
    BY PartsStep DEF CronPartIInv
  <2>1. PullIInv /\ CronIInv /\ [Pull!Next]_(Pull!vars)
    BY PartsStep DEF CronPartIInv
  <2>2. PullIInv'
    BY <2>1, NextPull, PullAssumption
  <2> QED
    BY <2>1, <2>2, NextCron, PullAssumption
<1> QED
  BY <1>1, <1>2, PTL DEF PartsSpec

(* However pulls overlap, crash and are repeated, and whatever is renamed
   meanwhile: an item's opening stock is booked once, with its mapping, and a
   run that says COMPLETED left no item out (ZohoPullSyncService). *)
OpenedOnce == part = "pull" => Pull!OpeningStockOnce /\ Pull!CompletedMeansMapped

THEOREM TrafficOpensOnce == PartsSpec => []OpenedOnce
<1>1. PullPartIInv => OpenedOnce
  BY DEF PullPartIInv, OpenedOnce, PullIInv
<1> QED
  BY <1>1, PullPart, PTL

(* PulledOnce, for every instance with one process that runs the cron: besides,
   scheduled runs keep their distance across restarts (isSyncDue). *)
THEOREM TrafficPulledOnce == OneInstance /\ PartsSpec => []PulledOnce
<1>1. CronPartIInv => PulledOnce
  BY DEF CronPartIInv, PulledOnce, PullIInv, CronIInv
<1> QED
  BY <1>1, CronPart, PTL
==============================================================================
