---------------------------- MODULE Stock_proofs ----------------------------
(***************************************************************************)
(* Proofs about the stock, for any items, any number of calls open at      *)
(* once, any plans and tasks and any number of faults.  Those about the    *)
(* ledger rest on the discipline of the row locks: an item nobody holds    *)
(* shows what was committed, and only an open transaction holds anything.  *)
(* Those about the completion of tasks rest on where a task's lines are    *)
(* when a call reads them.                                                 *)
(***************************************************************************)
EXTENDS Stock, SequenceTheorems, FiniteSetTheorems, FunctionTheorems, TLAPS

UnlockedIsCommitted == \A i \in Item : lock[i] = NoCall => written[i] = committed[i]

LocksAreOpen == \A i \in Item : lock[i] # NoCall => Open(lock[i])

ReadHasMore == \A c \in Call : pc[c] = "read" => HasMore(c)

HooksPending == \A c \in Call : pc[c] = "committed" => hooks[c] # <<>>

IInv ==
    /\ TypeOK
    /\ UnlockedIsCommitted
    /\ LocksAreOpen
    /\ ReadHasMore
    /\ HooksPending
    /\ NoLostUpdate

(* The movement a call is at is one of its plan. *)
LEMMA CurrentIsMovement ==
    ASSUME TypeOK, NEW c \in Call, HasMore(c)
    PROVE  Current(c) \in Movement
<1>1. plan[c] \in Seq(Movement) /\ rows[c] \in Seq(Movement)
  BY DEF TypeOK
<1>2. Len(rows[c]) + 1 \in 1..Len(plan[c])
  BY <1>1, LenProperties DEF HasMore
<1> QED
  BY <1>1, <1>2, ElementOfSeq DEF Current

LEMMA InitIInv == Init => IInv
<1> SUFFICES ASSUME Init PROVE IInv
  OBVIOUS
<1> USE LedgerAssumption
<1>1. ledger \in [1..NumItems -> Movement]
  BY DEF Init, Movement, Item, Kind
<1>2. ledger \in Seq(Movement)
  BY <1>1, SeqDef
<1>3. TypeOK
  BY <1>2 DEF Init, TypeOK, CallState
<1> QED
  BY <1>3 DEF Init, IInv, UnlockedIsCommitted, LocksAreOpen, ReadHasMore,
              HooksPending, NoLostUpdate, Item

-----------------------------------------------------------------------------
(* Rolling back gives up the locks of the call and nothing else. *)
LEMMA RollbackIInv ==
    ASSUME IInv, NEW c \in Call, Open(c), Rollback(c), faults' \in 0..MaxFaults
    PROVE  IInv'
<1> USE LedgerAssumption DEF IInv
<1>1. TypeOK'
  BY EmptySeq DEF Rollback, Released, Held, TypeOK, CallState
<1>2. UnlockedIsCommitted'
  BY DEF Rollback, Released, Held, TypeOK, UnlockedIsCommitted
<1>3. LocksAreOpen'
  BY DEF Rollback, Released, Held, TypeOK, LocksAreOpen, Open
<1>4. ASSUME NEW d \in Call, pc'[d] = "read"
      PROVE  d # c /\ pc[d] = "read" /\ Current(d)' = Current(d) /\ HasMore(d)' = HasMore(d)
  BY <1>4 DEF Rollback, TypeOK, Current, HasMore
<1>5. ReadHasMore'
  BY <1>4 DEF ReadHasMore
<1>6. HooksPending'
  BY DEF Rollback, TypeOK, HooksPending
<1>7. NoLostUpdate'
  <2> SUFFICES ASSUME NEW d \in Call, pc'[d] = "read"
               PROVE  lock'[Current(d)'.item] = d /\ read'[d] = written'[Current(d)'.item]
    BY DEF NoLostUpdate
  <2>1. Current(d).item \in Item
    BY <1>4, CurrentIsMovement DEF ReadHasMore, Movement
  <2>2. lock[Current(d).item] = d /\ read[d] = written[Current(d).item]
    BY <1>4 DEF NoLostUpdate
  <2> QED
    BY <1>4, <2>1, <2>2 DEF Rollback, Released, Held, TypeOK
<1> QED
  BY <1>1, <1>2, <1>3, <1>5, <1>6, <1>7

(* Running one afterCommit hook. *)
LEMMA NextHookIInv ==
    ASSUME IInv, NEW c \in Call, NextHook(c), alerts' \in [Item -> Nat], faults' \in 0..MaxFaults
    PROVE  IInv'
<1> USE LedgerAssumption DEF IInv, items
<1>1. hooks[c] \in Seq(Item) /\ hooks[c] # <<>>
  BY DEF NextHook, HooksPending, TypeOK
<1>2. Tail(hooks[c]) \in Seq(Item) /\ Len(Tail(hooks[c])) = Len(hooks[c]) - 1
  BY <1>1, HeadTailProperties
<1>3. TypeOK'
  BY <1>2 DEF NextHook, TypeOK, CallState
<1>4. UnlockedIsCommitted'
  BY DEF NextHook, UnlockedIsCommitted
<1>5. \A d \in Call : Open(d)' <=> Open(d)
  BY DEF NextHook, Open, TypeOK
<1>6. LocksAreOpen'
  BY <1>5 DEF NextHook, LocksAreOpen, TypeOK
<1>7. ReadHasMore'
  BY DEF NextHook, ReadHasMore, HasMore, TypeOK
<1>8. Len(hooks[c]) # 1 => Tail(hooks[c]) # <<>>
  <2>1. Len(hooks[c]) \in Nat
    BY <1>1, LenProperties
  <2>2. Tail(hooks[c]) = <<>> => Len(Tail(hooks[c])) = 0
    BY EmptySeq
  <2> QED
    BY <1>2, <2>1, <2>2
<1>9. HooksPending'
  BY <1>8 DEF NextHook, HooksPending, TypeOK
<1>10. NoLostUpdate'
  BY DEF NextHook, NoLostUpdate, Current, TypeOK
<1> QED
  BY <1>3, <1>4, <1>6, <1>7, <1>9, <1>10

-----------------------------------------------------------------------------
(* Every step keeps the inductive invariant. *)
LEMMA NextIInv == IInv /\ [Next]_vars => IInv'
<1> SUFFICES ASSUME IInv, [Next]_vars PROVE IInv'
  OBVIOUS
<1> USE LedgerAssumption DEF IInv, items, calls
<1>1. ASSUME NEW c \in Call, NEW p \in Plans, Begin(c, p) PROVE IInv'
  <2>1. TypeOK'
    BY <1>1 DEF Begin, TypeOK, CallState
  <2>2. UnlockedIsCommitted' /\ LocksAreOpen'
    BY <1>1 DEF Begin, TypeOK, UnlockedIsCommitted, LocksAreOpen, Open
  <2>3. ReadHasMore' /\ HooksPending'
    BY <1>1 DEF Begin, TypeOK, ReadHasMore, HasMore, HooksPending
  <2>4. NoLostUpdate'
    BY <1>1 DEF Begin, TypeOK, NoLostUpdate, Current
  <2> QED
    BY <2>1, <2>2, <2>3, <2>4
<1>2. ASSUME NEW c \in Call, LockAndRead(c) PROVE IInv'
  <2> DEFINE i == Current(c).item
  <2>1. i \in Item
    BY <1>2, CurrentIsMovement DEF LockAndRead, Movement
  <2>2. /\ lock[i] \in {NoCall, c}
        /\ lock' = [lock EXCEPT ![i] = c]
        /\ read' = [read EXCEPT ![c] = written[i]]
        /\ pc' = [pc EXCEPT ![c] = "read"]
        /\ UNCHANGED <<committed, written, active, ledger, plan, rows, hooks, alerts, faults>>
    BY <1>2 DEF LockAndRead, MayLock
  <2>3. \A d \in Call : HasMore(d)' = HasMore(d) /\ Current(d)' = Current(d)
    BY <1>2 DEF LockAndRead, HasMore, Current
  <2> HIDE DEF i
  <2>4. TypeOK'
    <3>1. lock' \in [Item -> Call \union {NoCall}] /\ read' \in [Call -> Int]
      BY <2>1, <2>2 DEF TypeOK
    <3> QED
      BY <2>2, <3>1 DEF TypeOK, CallState
  <2>5. UnlockedIsCommitted' /\ LocksAreOpen'
    BY <2>1, <2>2, NoCall # c DEF TypeOK, UnlockedIsCommitted, LocksAreOpen, Open
  <2>6. ReadHasMore' /\ HooksPending'
    BY <1>2, <2>3 DEF LockAndRead, TypeOK, ReadHasMore, HooksPending
  <2>7. NoLostUpdate'
    <3> SUFFICES ASSUME NEW d \in Call, pc'[d] = "read"
                 PROVE  lock'[Current(d).item] = d /\ read'[d] = written'[Current(d).item]
      BY <2>3 DEF NoLostUpdate
    <3>1. CASE d = c
      BY <1>2, <2>1, <2>2, <3>1 DEF LockAndRead, TypeOK, i
    <3>2. CASE d # c
      <4>1. pc[d] = "read"
        BY <1>2, <3>2 DEF LockAndRead, TypeOK
      <4>2. lock[Current(d).item] = d /\ read[d] = written[Current(d).item]
        BY <4>1 DEF NoLostUpdate
      <4>3. Current(d).item \in Item
        BY <4>1, CurrentIsMovement DEF ReadHasMore, Movement
      <4> QED
        <5>1. Current(d).item # i
          BY <2>2, <3>2, <4>2, d # NoCall
        <5>2. lock'[Current(d).item] = lock[Current(d).item]
          BY <2>1, <2>2, <4>3, <5>1 DEF TypeOK
        <5> QED
          BY <2>2, <3>2, <4>2, <5>2 DEF TypeOK
    <3> QED
      BY <3>1, <3>2
  <2> QED
    BY <2>4, <2>5, <2>6, <2>7
<1>3. ASSUME NEW c \in Call, Write(c) PROVE IInv'
  <2> DEFINE m == Current(c)
  <2>1. pc[c] = "read" /\ lock[m.item] = c /\ HasMore(c)
    BY <1>3 DEF Write, NoLostUpdate, ReadHasMore
  <2>2. m \in Movement
    BY <2>1, CurrentIsMovement
  <2>3. /\ rows' = [rows EXCEPT ![c] = Append(@, m)]
        /\ written' = [written EXCEPT ![m.item] = NextQuantity(c)]
        /\ \/ hooks'[c] = hooks[c]
           \/ hooks'[c] = Append(hooks[c], m.item)
        /\ \A d \in Call : d # c => hooks'[d] = hooks[d]
        /\ DOMAIN hooks' = Call
        /\ hooks' = [d \in Call |-> hooks'[d]]
    BY <1>3 DEF Write, StoredRow, TypeOK
  <2>4. NextQuantity(c) \in Nat
    <3>1. Delta(m) \in Int
      BY <2>2 DEF Delta, Movement
    <3>2. read[c] \in Int
      BY DEF TypeOK
    <3>3. NextQuantity(c) = read[c] + Delta(m) /\ NextQuantity(c) >= 0
      BY <1>3 DEF Write, Sufficient, NextQuantity
    <3> QED
      BY <3>1, <3>2, <3>3
  <2>5. \A d \in Call : d # c => HasMore(d)' = HasMore(d) /\ Current(d)' = Current(d)
    BY <1>3, <2>3 DEF Write, HasMore, Current, TypeOK
  <2> HIDE DEF m
  <2>6. rows' \in [Call -> Seq(Movement)]
    BY <2>2, <2>3 DEF TypeOK
  <2>7. hooks' \in [Call -> Seq(Item)]
    <3>1. Append(hooks[c], m.item) \in Seq(Item)
      BY <2>2 DEF Movement, TypeOK
    <3>2. \A d \in Call : hooks'[d] \in Seq(Item)
      BY <2>3, <3>1 DEF TypeOK
    <3> QED
      BY <2>3, <3>2
  <2>8. TypeOK'
    <3>1. written' \in [Item -> Nat]
      BY <2>2, <2>3, <2>4 DEF TypeOK, Movement
    <3>2. pc' \in [Call -> CallState]
      BY <1>3 DEF Write, TypeOK, CallState
    <3> QED
      BY <1>3, <2>6, <2>7, <3>1, <3>2 DEF Write, TypeOK
  <2>9. UnlockedIsCommitted'
    <3>1. lock' = lock /\ committed' = committed /\ lock[m.item] # NoCall
      BY <1>3, <2>1 DEF Write, m
    <3> QED
      BY <2>2, <2>3, <3>1 DEF TypeOK, UnlockedIsCommitted, Movement
  <2>10. LocksAreOpen'
    BY <1>3 DEF Write, TypeOK, LocksAreOpen, Open
  <2>11. ReadHasMore'
    BY <1>3, <2>5 DEF Write, TypeOK, ReadHasMore
  <2>12. HooksPending'
    BY <1>3, <2>3 DEF Write, TypeOK, HooksPending
  <2>13. NoLostUpdate'
    <3> SUFFICES ASSUME NEW d \in Call, pc'[d] = "read"
                 PROVE  lock'[Current(d)'.item] = d /\ read'[d] = written'[Current(d)'.item]
      BY DEF NoLostUpdate
    <3>1. d # c /\ pc[d] = "read"
      BY <1>3 DEF Write, TypeOK
    <3>2. lock[Current(d).item] = d /\ read[d] = written[Current(d).item]
      BY <3>1 DEF NoLostUpdate
    <3>3. Current(d).item \in Item
      BY <3>1, CurrentIsMovement DEF ReadHasMore, Movement
    <3> QED
      <4>1. Current(d).item # m.item /\ Current(d)' = Current(d)
        BY <2>1, <2>5, <3>1, <3>2
      <4>2. lock' = lock /\ read' = read
        BY <1>3 DEF Write
      <4>3. written'[Current(d).item] = written[Current(d).item]
        BY <2>3, <3>3, <4>1 DEF TypeOK
      <4> QED
        BY <3>2, <4>1, <4>2, <4>3
  <2> QED
    BY <2>8, <2>9, <2>10, <2>11, <2>12, <2>13
<1>4. ASSUME NEW c \in Call, Refuse(c) PROVE IInv'
  BY <1>4, RollbackIInv DEF Refuse, Open, TypeOK
<1>5. ASSUME NEW c \in Call, DeadlockDetected(c) PROVE IInv'
  BY <1>5, RollbackIInv DEF DeadlockDetected, Waiting, Open, TypeOK
<1>6. ASSUME NEW c \in Call, Commit(c) PROVE IInv'
  <2>1. ledger' \in Seq(Movement)
    BY <1>6, ConcatProperties DEF Commit, TypeOK
  <2>2. TypeOK'
    BY <1>6, <2>1 DEF Commit, Released, Held, TypeOK, CallState
  <2>3. UnlockedIsCommitted'
    BY <1>6 DEF Commit, Released, Held, TypeOK, UnlockedIsCommitted
  <2>4. LocksAreOpen'
    BY <1>6 DEF Commit, Released, Held, TypeOK, LocksAreOpen, Open
  <2>5. ReadHasMore' /\ HooksPending'
    BY <1>6 DEF Commit, TypeOK, ReadHasMore, HasMore, HooksPending
  <2>6. NoLostUpdate'
    <3> SUFFICES ASSUME NEW d \in Call, pc'[d] = "read"
                 PROVE  lock'[Current(d).item] = d /\ read'[d] = written'[Current(d).item]
      BY <1>6 DEF Commit, NoLostUpdate, Current
    <3>1. d # c /\ pc[d] = "read"
      BY <1>6 DEF Commit, TypeOK
    <3>2. lock[Current(d).item] = d /\ read[d] = written[Current(d).item]
      BY <3>1 DEF NoLostUpdate
    <3>3. Current(d).item \in Item
      BY <3>1, CurrentIsMovement DEF ReadHasMore, Movement
    <3> QED
      BY <1>6, <3>1, <3>2, <3>3 DEF Commit, Released, Held, TypeOK
  <2> QED
    BY <2>2, <2>3, <2>4, <2>5, <2>6
<1>7. ASSUME NEW c \in Call, PublishAlert(c) PROVE IInv'
  <2>1. hooks[c] \in Seq(Item) /\ hooks[c] # <<>>
    BY <1>7 DEF PublishAlert, NextHook, HooksPending, TypeOK
  <2>2. Head(hooks[c]) \in Item
    BY <2>1, HeadTailProperties
  <2>3. alerts' \in [Item -> Nat] /\ faults' \in 0..MaxFaults
    <3>1. alerts' = [alerts EXCEPT ![Head(hooks[c])] = @ + 1] /\ faults' = faults
      BY <1>7 DEF PublishAlert
    <3>2. alerts \in [Item -> Nat] /\ faults \in 0..MaxFaults
      BY DEF TypeOK
    <3> QED
      BY <2>2, <3>1, <3>2
  <2> QED
    BY <1>7, <2>3, NextHookIInv DEF PublishAlert
<1>8. ASSUME NEW c \in Call, PublishFails(c) PROVE IInv'
  <2>1. alerts' \in [Item -> Nat] /\ faults' \in 0..MaxFaults
    BY <1>8 DEF PublishFails, Fault, TypeOK
  <2> QED
    BY <1>8, <2>1, NextHookIInv DEF PublishFails
<1>9. ASSUME NEW c \in Call, Crash(c) PROVE IInv'
  <2>1. faults' \in 0..MaxFaults
    BY <1>9 DEF Crash, Fault, TypeOK
  <2>2. CASE Open(c) /\ Rollback(c)
    BY <2>1, <2>2, RollbackIInv
  <2>3. CASE /\ pc[c] = "committed"
             /\ pc' = [pc EXCEPT ![c] = "done"]
             /\ hooks' = [hooks EXCEPT ![c] = <<>>]
             /\ UNCHANGED <<items, ledger, plan, rows, read, alerts>>
    <3>1. TypeOK'
      BY <2>1, <2>3, EmptySeq DEF TypeOK, CallState
    <3>2. UnlockedIsCommitted' /\ LocksAreOpen'
      BY <2>3 DEF TypeOK, UnlockedIsCommitted, LocksAreOpen, Open
    <3>3. ReadHasMore' /\ HooksPending'
      BY <2>3 DEF TypeOK, ReadHasMore, HasMore, HooksPending
    <3>4. NoLostUpdate'
      BY <2>3 DEF TypeOK, NoLostUpdate, Current
    <3> QED
      BY <3>1, <3>2, <3>3, <3>4
  <2> QED
    BY <1>9, <2>2, <2>3 DEF Crash
<1>10. ASSUME NEW i \in Item, SetActive(i) PROVE IInv'
  <2>1. TypeOK'
    BY <1>10 DEF SetActive, Fault, TypeOK
  <2>2. UnlockedIsCommitted' /\ LocksAreOpen' /\ ReadHasMore' /\ HooksPending' /\ NoLostUpdate'
    BY <1>10 DEF SetActive, UnlockedIsCommitted, LocksAreOpen, Open, ReadHasMore,
                 HasMore, HooksPending, NoLostUpdate, Current
  <2> QED
    BY <2>1, <2>2
<1>11. ASSUME UNCHANGED vars PROVE IInv'
  BY <1>11 DEF vars, TypeOK, UnlockedIsCommitted, LocksAreOpen, Open, ReadHasMore,
               HasMore, HooksPending, NoLostUpdate, Current
<1> QED
  BY <1>1, <1>2, <1>3, <1>4, <1>5, <1>6, <1>7, <1>8, <1>9, <1>10, <1>11 DEF Next, Step

(* The inductive invariant holds in every reachable state. *)
THEOREM LedgerInvariant == Spec => []IInv
  BY InitIInv, NextIInv, PTL DEF Spec

(* Types: in particular no item's quantity is ever negative, committed or
   inside a transaction. *)
THEOREM LedgerTypes == Spec => []TypeOK
  BY LedgerInvariant, PTL DEF IInv

(* findItemById's FOR UPDATE lock: the quantity a movement computes from is
   the one it overwrites, however many transactions interleave. *)
THEOREM LedgerNoLostUpdate == Spec => []NoLostUpdate
  BY LedgerInvariant, PTL DEF IInv

-----------------------------------------------------------------------------
(* A set that holds 0, and the successor of each number below n it holds, holds
   all of 0..n: induction over the naturals, from the well-founded order of the
   finite sets 1..k. *)
LEMMA CountUp ==
    ASSUME NEW n \in Nat, NEW S, 0 \in S, \A k \in 0..(n - 1) : k \in S => k + 1 \in S
    PROVE  0..n \subseteq S
<1> SUFFICES ASSUME NEW m \in 0..n, m \notin S PROVE FALSE
  OBVIOUS
<1> DEFINE Missing == {k \in 0..n : k \notin S}
          Intervals == {1..k : k \in Missing}
<1>1. IsWellFoundedOn(StrictSubsetOrdering(1..n), SUBSET (1..n))
  <2>1. IsFiniteSet(1..n)
    BY FS_Interval
  <2>2. FiniteSubsetsOf(1..n) = SUBSET (1..n)
    BY <2>1, FS_FiniteSubsetsOfFinite
  <2> QED
    BY <2>2, FS_StrictSubsetOrderingWellFounded
<1>2. Intervals \subseteq SUBSET (1..n)
  OBVIOUS
<1>3. 1..m \in Intervals
  OBVIOUS
<1>4. \E d \in Intervals : \A e \in Intervals : <<e, d>> \notin StrictSubsetOrdering(1..n)
  <2> HIDE DEF Intervals
  <2> QED
    BY <1>1, <1>2, <1>3, WFMin
<1>5. PICK k \in Missing : \A e \in Intervals : <<e, 1..k>> \notin StrictSubsetOrdering(1..n)
  BY <1>4
<1>6. k \in 1..n /\ k - 1 \in Missing
  OBVIOUS
<1>7. <<1..(k - 1), 1..k>> \in StrictSubsetOrdering(1..n)
  <2>1. 1..(k - 1) \subseteq 1..k /\ k \in 1..k /\ k \notin 1..(k - 1) /\ 1..k \subseteq 1..n
    BY <1>6
  <2> QED
    BY <2>1 DEF StrictSubsetOrdering
<1>8. 1..(k - 1) \in Intervals
  BY <1>6
<1> QED
  BY <1>5, <1>7, <1>8

(* A one-to-one image of a finite set has its size. *)
LEMMA SameSize ==
    ASSUME NEW S, NEW T, NEW f \in [S -> T], IsFiniteSet(S),
           \A x, y \in S : f[x] = f[y] => x = y, \A t \in T : \E x \in S : f[x] = t
    PROVE  IsFiniteSet(T) /\ Cardinality(T) = Cardinality(S)
<1>1. f \in Bijection(S, T)
  BY Fun_IsBij
<1>2. ExistsBijection(S, T)
  BY <1>1 DEF ExistsBijection
<1> QED
  BY <1>2, FS_Bijection

(* Numbers moved along are as many. *)
LEMMA ShiftedSize ==
    ASSUME NEW S \in SUBSET Nat, IsFiniteSet(S), NEW k \in Int
    PROVE  IsFiniteSet({k + n : n \in S}) /\ Cardinality({k + n : n \in S}) = Cardinality(S)
<1> DEFINE T == {k + n : n \in S}
           f == [n \in S |-> k + n]
<1>1. f \in [S -> T] /\ \A t \in T : \E x \in S : f[x] = t
  OBVIOUS
<1>2. \A x, y \in S : f[x] = f[y] => x = y
  OBVIOUS
<1> HIDE DEF f, T
<1>3. IsFiniteSet(T) /\ Cardinality(T) = Cardinality(S)
  BY <1>1, <1>2, SameSize
<1> QED
  BY <1>3 DEF T

(* The first n numbers are n. *)
LEMMA UpToSize ==
    ASSUME NEW n \in Nat
    PROVE  IsFiniteSet(1..n) /\ Cardinality(1..n) = n
<1>1. IsFiniteSet(1..n) /\ Cardinality(1..n) = IF 1 > n THEN 0 ELSE n - 1 + 1
  BY FS_Interval
<1> QED
  BY <1>1

(* The pairs of a member of D and one of its numbers. *)
Pairs(D, f) == UNION {{d} \X f[d] : d \in D}

(* When the numbers of one member change, the pairs change by as many. *)
LEMMA PairsChange ==
    ASSUME NEW D, IsFiniteSet(D), NEW f, NEW g, NEW c \in D,
           \A d \in D : IsFiniteSet(f[d]) /\ IsFiniteSet(g[d]),
           \A d \in D \ {c} : f[d] = g[d]
    PROVE  /\ Cardinality(Pairs(D, f)) \in Nat /\ Cardinality(Pairs(D, g)) \in Nat
           /\ Cardinality(f[c]) \in Nat /\ Cardinality(g[c]) \in Nat
           /\ Cardinality(Pairs(D, g)) + Cardinality(f[c]) = Cardinality(Pairs(D, f)) + Cardinality(g[c])
<1> DEFINE Rest == UNION {{d} \X f[d] : d \in D \ {c}}
<1>1. IsFiniteSet(D \ {c})
  BY FS_RemoveElement
<1>2. IsFiniteSet(Rest)
  <2> DEFINE R == D \ {c}
             P == {{d} \X f[d] : d \in R}
             h == [d \in R |-> {d} \X f[d]]
  <2>1. h \in [R -> P] /\ \A p \in P : \E d \in R : h[d] = p
    OBVIOUS
  <2>2. h \in Surjection(R, P)
    <3> HIDE DEF h, P, R
    <3> QED
      BY <2>1, Fun_IsSurj
  <2>3. IsFiniteSet(P)
    <3> HIDE DEF h, P
    <3> QED
      BY <1>1, <2>2, FS_Surjection
  <2>4. \A p \in P : IsFiniteSet(p)
    <3> SUFFICES ASSUME NEW d \in R PROVE IsFiniteSet({d} \X f[d])
      OBVIOUS
    <3>1. IsFiniteSet({d}) /\ IsFiniteSet(f[d])
      BY FS_Singleton
    <3> QED
      BY <3>1, FS_Product
  <2>5. IsFiniteSet(UNION P)
    <3> HIDE DEF P
    <3> QED
      BY <2>3, <2>4, FS_UNION
  <2> QED
    BY <2>5
<1>3. ASSUME NEW S, IsFiniteSet(S)
      PROVE  Cardinality(Rest \union ({c} \X S)) = Cardinality(Rest) + Cardinality(S)
  <2>1. IsFiniteSet({c}) /\ Cardinality({c}) = 1
    BY FS_Singleton
  <2>2. IsFiniteSet({c} \X S) /\ Cardinality({c} \X S) = 1 * Cardinality(S)
    BY <1>3, <2>1, FS_Product
  <2>3. Rest \cap ({c} \X S) = {}
    OBVIOUS
  <2>4. Cardinality(S) \in Nat /\ Cardinality(Rest) \in Nat
    BY <1>2, <1>3, FS_CardinalityType
  <2> HIDE DEF Rest
  <2>5. Cardinality(Rest \union ({c} \X S))
          = Cardinality(Rest) + Cardinality({c} \X S) - Cardinality(Rest \cap ({c} \X S))
    BY <1>2, <2>2, FS_Union
  <2>6. Cardinality(Rest \cap ({c} \X S)) = 0
    BY <2>3, FS_EmptySet
  <2> QED
    BY <2>2, <2>4, <2>5, <2>6
<1>4. Pairs(D, f) = Rest \union ({c} \X f[c])
  BY DEF Pairs
<1>5. Pairs(D, g) = Rest \union ({c} \X g[c])
  BY DEF Pairs
<1>6. Cardinality(Rest) \in Nat /\ Cardinality(f[c]) \in Nat /\ Cardinality(g[c]) \in Nat
  BY <1>2, FS_CardinalityType
<1> HIDE DEF Rest
<1>7. Cardinality(Pairs(D, f)) = Cardinality(Rest) + Cardinality(f[c])
  BY <1>3, <1>4
<1>8. Cardinality(Pairs(D, g)) = Cardinality(Rest) + Cardinality(g[c])
  BY <1>3, <1>5
<1> QED
  BY <1>6, <1>7, <1>8

(* The places of an element in a sequence. *)
PlacesOf(h, i) == {n \in 1..Len(h) : h[n] = i}

LEMMA PlacesFinite ==
    ASSUME NEW S, NEW h \in Seq(S), NEW i
    PROVE  IsFiniteSet(PlacesOf(h, i)) /\ Cardinality(PlacesOf(h, i)) \in Nat
<1>1. Len(h) \in Nat
  BY LenProperties
<1>2. IsFiniteSet(1..Len(h)) /\ PlacesOf(h, i) \subseteq 1..Len(h)
  BY <1>1, FS_Interval DEF PlacesOf
<1>3. IsFiniteSet(PlacesOf(h, i))
  BY <1>2, FS_Subset
<1> QED
  BY <1>3, FS_CardinalityType

(* Taking the head off a sequence takes one place off its element. *)
LEMMA PlacesOfTail ==
    ASSUME NEW S, NEW h \in Seq(S), h # <<>>, NEW i
    PROVE  Cardinality(PlacesOf(Tail(h), i))
             = IF Head(h) = i THEN Cardinality(PlacesOf(h, i)) - 1 ELSE Cardinality(PlacesOf(h, i))
<1> DEFINE P == PlacesOf(h, i)
           Q == PlacesOf(Tail(h), i)
<1>1. /\ Len(h) \in Nat /\ Len(h) # 0 /\ Head(h) = h[1]
      /\ Tail(h) \in Seq(S)
      /\ Len(Tail(h)) = Len(h) - 1
      /\ \A n \in 1..Len(Tail(h)) : Tail(h)[n] = h[n + 1]
  BY LenProperties, EmptySeq, HeadTailProperties
<1>2. IsFiniteSet(P) /\ IsFiniteSet(Q) /\ Cardinality(P) \in Nat
  BY <1>1, PlacesFinite
<1>3. IsFiniteSet(P \ {1}) /\ Cardinality(P \ {1}) = IF 1 \in P THEN Cardinality(P) - 1 ELSE Cardinality(P)
  <2> HIDE DEF P
  <2> QED
    BY <1>2, FS_RemoveElement
<1>4. 1 \in P <=> Head(h) = i
  BY <1>1 DEF PlacesOf
<1>5. P \ {1} = {1 + n : n \in Q}
  <2>1. ASSUME NEW n \in P, n # 1 PROVE n - 1 \in Q /\ n = 1 + (n - 1)
    BY <1>1, <2>1 DEF PlacesOf
  <2>2. ASSUME NEW n \in Q PROVE 1 + n \in P /\ 1 + n # 1
    BY <1>1 DEF PlacesOf
  <2> QED
    BY <2>1, <2>2
<1>6. Q \in SUBSET Nat
  BY <1>1 DEF PlacesOf
<1>7. Cardinality(P \ {1}) = Cardinality(Q)
  <2> HIDE DEF P, Q
  <2> DEFINE k == 1
  <2>1. k \in Int
    OBVIOUS
  <2> HIDE DEF k
  <2>2. Cardinality({k + n : n \in Q}) = Cardinality(Q)
    BY <1>2, <1>6, <2>1, ShiftedSize
  <2> QED
    BY <1>5, <2>2 DEF k
<1> QED
  BY <1>3, <1>4, <1>7

(* An element appended to a sequence takes one place in it. *)
LEMMA PlacesOfAppend ==
    ASSUME NEW S, NEW h \in Seq(S), NEW j \in S, NEW i
    PROVE  Cardinality(PlacesOf(Append(h, j), i)) = Cardinality(PlacesOf(h, i)) + IF j = i THEN 1 ELSE 0
<1> DEFINE r == Append(h, j)
<1>1. /\ Len(h) \in Nat /\ Len(r) = Len(h) + 1 /\ r[Len(h) + 1] = j
      /\ \A n \in 1..Len(h) : r[n] = h[n]
  BY AppendProperties, LenProperties
<1>2. IsFiniteSet(PlacesOf(h, i)) /\ Cardinality(PlacesOf(h, i)) \in Nat
  BY PlacesFinite
<1> HIDE DEF r
<1>3. \A n : n \in 1..Len(r) <=> n \in 1..Len(h) \/ n = Len(h) + 1
  BY <1>1
<1>4. Len(h) + 1 \notin PlacesOf(h, i)
  BY <1>1 DEF PlacesOf
<1>5. CASE j = i
  <2>1. PlacesOf(r, i) = PlacesOf(h, i) \union {Len(h) + 1}
    BY <1>1, <1>3, <1>5 DEF PlacesOf
  <2>2. Cardinality(PlacesOf(r, i)) = Cardinality(PlacesOf(h, i)) + 1
    BY <1>2, <1>4, <2>1, FS_AddElement
  <2> QED
    BY <1>5, <2>2 DEF r
<1>6. CASE j # i
  <2>1. PlacesOf(r, i) = PlacesOf(h, i)
    BY <1>1, <1>3, <1>6 DEF PlacesOf
  <2> QED
    BY <1>2, <1>6, <2>1 DEF r
<1> QED
  BY <1>5, <1>6

-----------------------------------------------------------------------------
(* What StockFrom is meant to compute. *)
Adds(q, s, i) ==
    /\ Book!StockFrom(q, s, i, 0) = q
    /\ \A n \in 1..Len(s) :
          Book!StockFrom(q, s, i, n) =
             IF s[n].item = i THEN Book!StockFrom(q, s, i, n - 1) + Delta(s[n])
             ELSE Book!StockFrom(q, s, i, n - 1)
    /\ \A n \in 0..Len(s) : Book!StockFrom(q, s, i, n) \in Int

(* It does: the recursion has a solution, and CHOOSE takes it. *)
LEMMA StockFromSteps ==
    ASSUME NEW q \in Int, NEW M, \A m \in M : Delta(m) \in Int, NEW s \in Seq(M), NEW i
    PROVE  Adds(q, s, i)
<1> DEFINE Solves(f, m) ==
             f = [k \in 0..m |->
                    IF k = 0 THEN q
                    ELSE IF s[k].item = i THEN f[k - 1] + Delta(s[k]) ELSE f[k - 1]]
           Solvable == {m \in 0..Len(s) : \E f : Solves(f, m) /\ f \in [0..m -> Int]}
<1>1. Len(s) \in Nat /\ \A n \in 1..Len(s) : Delta(s[n]) \in Int
  <2>1. Len(s) \in Nat /\ \A n \in 1..Len(s) : s[n] \in M
    BY LenProperties, ElementOfSeq
  <2> QED
    BY <2>1
<1>2. 0 \in Solvable
  <2> DEFINE f == [k \in 0..0 |-> q]
  <2>1. Solves(f, 0) /\ f \in [0..0 -> Int]
    OBVIOUS
  <2> HIDE DEF f, Solves
  <2> QED
    BY <1>1, <2>1
<1>3. ASSUME NEW m \in 0..(Len(s) - 1), m \in Solvable PROVE m + 1 \in Solvable
  <2>1. PICK f : Solves(f, m) /\ f \in [0..m -> Int]
    BY <1>3
  <2> DEFINE last == IF s[m + 1].item = i THEN f[m] + Delta(s[m + 1]) ELSE f[m]
             g == [k \in 0..(m + 1) |-> IF k = m + 1 THEN last ELSE f[k]]
  <2>2. last \in Int
    BY <1>1, <2>1
  <2>3. g \in [0..(m + 1) -> Int]
    BY <2>1, <2>2
  <2>4. Solves(g, m + 1)
    <3>1. \A k \in 0..m : f[k] = IF k = 0 THEN q
                              ELSE IF s[k].item = i THEN f[k - 1] + Delta(s[k]) ELSE f[k - 1]
      BY <2>1
    <3>2. \A k \in 0..m : k - 1 \in 0..m \/ k = 0
      OBVIOUS
    <3> QED
      BY <3>1, <3>2
  <2> HIDE DEF g, Solves
  <2> QED
    BY <1>1, <2>3, <2>4
<1>4. Len(s) \in Solvable
  <2> HIDE DEF Solvable
  <2>1. 0..Len(s) \subseteq Solvable
    BY <1>1, <1>2, <1>3, CountUp
  <2> QED
    BY <1>1, <2>1
<1>5. PICK f : Solves(f, Len(s))
  BY <1>4
<1> DEFINE after == CHOOSE f0 : Solves(f0, Len(s))
<1>6. Solves(after, Len(s))
  <2> HIDE DEF Solves
  <2> QED
    BY <1>5
<1>7. \A n : Book!StockFrom(q, s, i, n) = after[n]
  BY DEF Book!StockFrom, Book!Change, Delta
<1> HIDE DEF after
<1>8. after[0] = q
  BY <1>1, <1>6
<1>9. \A n \in 1..Len(s) :
        after[n] = IF s[n].item = i THEN after[n - 1] + Delta(s[n]) ELSE after[n - 1]
  <2> SUFFICES ASSUME NEW n \in 1..Len(s)
               PROVE  after[n] = IF s[n].item = i THEN after[n - 1] + Delta(s[n]) ELSE after[n - 1]
    OBVIOUS
  <2>1. n \in 0..Len(s) /\ n # 0
    BY <1>1
  <2>2. after[n] = IF n = 0 THEN q
                   ELSE IF s[n].item = i THEN after[n - 1] + Delta(s[n]) ELSE after[n - 1]
    BY <1>6, <2>1
  <2> QED
    BY <2>1, <2>2
<1>10. \A n \in 0..Len(s) : after[n] \in Int
  <2> DEFINE Typed == {n \in 0..Len(s) : after[n] \in Int}
  <2>1. 0 \in Typed
    BY <1>1, <1>8
  <2>2. ASSUME NEW k \in 0..(Len(s) - 1), k \in Typed PROVE k + 1 \in Typed
    <3>1. k + 1 \in 1..Len(s) /\ (k + 1) - 1 = k
      BY <1>1
    <3> QED
      BY <1>1, <1>9, <2>2, <3>1
  <2>3. 0..Len(s) \subseteq Typed
    <3> HIDE DEF Typed
    <3> QED
      BY <1>1, <2>1, <2>2, CountUp
  <2> QED
    BY <2>3
<1> QED
  BY <1>7, <1>8, <1>9, <1>10 DEF Adds

LEMMA StockFromStep ==
    ASSUME NEW q \in Int, NEW s \in Seq(Movement), NEW i
    PROVE  Adds(q, s, i)
<1>1. \A m \in Movement : Delta(m) \in Int
  BY DEF Movement, Delta
<1> QED
  BY <1>1, StockFromSteps

(* It reads the first movements only. *)
LEMMA StockFromPrefix ==
    ASSUME NEW q \in Int, NEW s \in Seq(Movement), NEW t \in Seq(Movement), NEW i,
           NEW m \in Nat, m <= Len(s), m <= Len(t), \A n \in 1..m : s[n] = t[n]
    PROVE  \A n \in 0..m : Book!StockFrom(q, s, i, n) = Book!StockFrom(q, t, i, n)
<1> DEFINE Same == {n \in 0..m : Book!StockFrom(q, s, i, n) = Book!StockFrom(q, t, i, n)}
<1>1. Len(s) \in Nat /\ Len(t) \in Nat /\ m \in Nat
  BY LenProperties
<1>5. Adds(q, s, i)
  BY StockFromStep
<1>6. Adds(q, t, i)
  BY StockFromStep
<1>2. 0 \in Same
  BY <1>1, <1>5, <1>6 DEF Adds
<1>3. ASSUME NEW k \in 0..(m - 1), k \in Same PROVE k + 1 \in Same
  <2>1. k + 1 \in 1..Len(s) /\ k + 1 \in 1..Len(t) /\ k + 1 \in 1..m /\ (k + 1) - 1 = k
    BY <1>1
  <2>2. s[k + 1] = t[k + 1]
    BY <2>1
  <2>3. Book!StockFrom(q, s, i, k) = Book!StockFrom(q, t, i, k)
    BY <1>3
  <2>4. Book!StockFrom(q, s, i, k + 1) = Book!StockFrom(q, t, i, k + 1)
    BY <1>5, <1>6, <2>1, <2>2, <2>3 DEF Adds
  <2> QED
    BY <1>1, <2>4
<1>4. 0..m \subseteq Same
  <2> HIDE DEF Same
  <2> QED
    BY <1>1, <1>2, <1>3, CountUp
<1> QED
  BY <1>4

(* Movements of other items leave the item's stock alone. *)
LEMMA StockFromOthers ==
    ASSUME NEW q \in Int, NEW s \in Seq(Movement), NEW i,
           NEW m \in Nat, m <= Len(s), \A n \in 1..m : s[n].item # i
    PROVE  \A n \in 0..m : Book!StockFrom(q, s, i, n) = q
<1> DEFINE Same == {n \in 0..m : Book!StockFrom(q, s, i, n) = q}
<1>1. Len(s) \in Nat /\ m \in Nat
  BY LenProperties
<1>5. Adds(q, s, i)
  BY StockFromStep
<1>2. 0 \in Same
  BY <1>1, <1>5 DEF Adds
<1>3. ASSUME NEW k \in 0..(m - 1), k \in Same PROVE k + 1 \in Same
  <2>1. k + 1 \in 1..Len(s) /\ k + 1 \in 1..m /\ (k + 1) - 1 = k
    BY <1>1
  <2>2. Book!StockFrom(q, s, i, k + 1) = q
    BY <1>3, <1>5, <2>1 DEF Adds
  <2> QED
    BY <1>1, <2>2
<1>4. 0..m \subseteq Same
  <2> HIDE DEF Same
  <2> QED
    BY <1>1, <1>2, <1>3, CountUp
<1> QED
  BY <1>4

(* A plan added to a ledger goes on from where the ledger stands. *)
LEMMA StockFromConcat ==
    ASSUME NEW q \in Int, NEW s \in Seq(Movement), NEW t \in Seq(Movement), NEW i
    PROVE  \A n \in 0..Len(t) :
              Book!StockFrom(q, s \o t, i, Len(s) + n)
                = Book!StockFrom(Book!StockFrom(q, s, i, Len(s)), t, i, n)
<1> DEFINE r == s \o t
           q2 == Book!StockFrom(q, s, i, Len(s))
           Same == {n \in 0..Len(t) : Book!StockFrom(q, r, i, Len(s) + n) = Book!StockFrom(q2, t, i, n)}
<1>1. Len(s) \in Nat /\ Len(t) \in Nat
  BY LenProperties
<1>2. /\ r \in Seq(Movement)
      /\ Len(r) = Len(s) + Len(t)
      /\ \A n \in 1..Len(s) : r[n] = s[n]
      /\ \A n \in 1..Len(t) : r[Len(s) + n] = t[n]
  <2>1. /\ r \in Seq(Movement)
        /\ Len(r) = Len(s) + Len(t)
        /\ \A n \in 1..(Len(s) + Len(t)) : r[n] = IF n <= Len(s) THEN s[n] ELSE t[n - Len(s)]
    BY ConcatProperties
  <2> QED
    BY <1>1, <2>1
<1> HIDE DEF r
<1>3. q2 \in Int /\ Book!StockFrom(q, r, i, Len(s)) = q2
  <2>1. Len(s) \in 0..Len(s)
    BY <1>1
  <2>2. q2 \in Int
    BY <2>1, StockFromStep DEF Adds
  <2>3. Len(s) <= Len(r)
    BY <1>1, <1>2
  <2>4. \A n \in 0..Len(s) : Book!StockFrom(q, s, i, n) = Book!StockFrom(q, r, i, n)
    <3>1. r \in Seq(Movement) /\ \A n \in 1..Len(s) : s[n] = r[n]
      BY <1>2
    <3> QED
      BY <1>1, <2>3, <3>1, StockFromPrefix
  <2> QED
    BY <2>1, <2>2, <2>4
<1> HIDE DEF q2
<1>7. Adds(q, r, i)
  BY <1>2, StockFromStep
<1>8. Adds(q2, t, i)
  BY <1>3, StockFromStep
<1>4. 0 \in Same
  BY <1>1, <1>3, <1>8 DEF Adds
<1>5. ASSUME NEW k \in 0..(Len(t) - 1), k \in Same PROVE k + 1 \in Same
  <2>1. /\ k + 1 \in 1..Len(t) /\ (k + 1) - 1 = k
        /\ Len(s) + (k + 1) \in 1..Len(r) /\ (Len(s) + (k + 1)) - 1 = Len(s) + k
    BY <1>1, <1>2
  <2>2. r[Len(s) + (k + 1)] = t[k + 1]
    BY <1>2, <2>1
  <2>3. Book!StockFrom(q, r, i, Len(s) + (k + 1)) =
          IF t[k + 1].item = i THEN Book!StockFrom(q, r, i, Len(s) + k) + Delta(t[k + 1])
          ELSE Book!StockFrom(q, r, i, Len(s) + k)
    BY <1>7, <2>1, <2>2 DEF Adds
  <2>4. Book!StockFrom(q2, t, i, k + 1) =
          IF t[k + 1].item = i THEN Book!StockFrom(q2, t, i, k) + Delta(t[k + 1])
          ELSE Book!StockFrom(q2, t, i, k)
    BY <1>8, <2>1 DEF Adds
  <2> QED
    BY <1>5, <2>1, <2>3, <2>4
<1>6. 0..Len(t) \subseteq Same
  <2> HIDE DEF Same
  <2> QED
    BY <1>1, <1>4, <1>5, CountUp
<1> QED
  BY <1>6 DEF r, q2

-----------------------------------------------------------------------------
(* The stock of item i after the first n rows of an open call. *)
From(c, i, n) == Book!StockFrom(committed[i], rows[c], i, n)

(* An open call has its plan, its rows are the first movements of it, it holds
   the items they moved, and they overdraw nothing and lead to what it wrote. *)
RowsLead(c) ==
    /\ plan[c] \in Plans
    /\ Len(rows[c]) <= Len(plan[c])
    /\ \A n \in 1..Len(rows[c]) : rows[c][n] = plan[c][n] /\ lock[rows[c][n].item] = c
    /\ \A i \in Item :
          /\ \A n \in 0..Len(rows[c]) : From(c, i, n) >= 0
          /\ lock[i] = c => written[i] = From(c, i, Len(rows[c]))

OpenRowsLead == \A c \in Call : Open(c) => RowsLead(c)

NewHasNothing == \A c \in Call : pc[c] = "new" => rows[c] = <<>> /\ hooks[c] = <<>>

(* What is committed is what the ledger's rows lead to. *)
CommittedFollowsLedger == \A i \in Item : committed[i] = LedgerQuantity(i, Len(ledger))

BookIInv ==
    /\ IInv
    /\ NewHasNothing
    /\ OpenRowsLead
    /\ CommittedFollowsLedger

(* A step that leaves an open call and what it holds alone leaves its rows
   leading to what it wrote. *)
LEMMA OtherRowsLead ==
    ASSUME TypeOK, TypeOK', NEW d \in Call, RowsLead(d),
           plan'[d] = plan[d], rows'[d] = rows[d],
           \A i \in Item : lock'[i] = d <=> lock[i] = d,
           \A i \in Item : lock[i] = d => written'[i] = written[i] /\ committed'[i] = committed[i]
    PROVE  RowsLead(d)'
<1>1. rows[d] \in Seq(Movement) /\ Len(rows[d]) \in Nat
  <2>1. rows[d] \in Seq(Movement)
    BY DEF TypeOK
  <2> QED
    BY <2>1, LenProperties
<1>2. \A n \in 1..Len(rows[d]) : rows[d][n].item \in Item
  <2>1. \A n \in 1..Len(rows[d]) : rows[d][n] \in Movement
    BY <1>1, ElementOfSeq
  <2> QED
    BY <2>1 DEF Movement
<1>3. \A n \in 1..Len(rows'[d]) : rows'[d][n] = plan'[d][n] /\ lock'[rows'[d][n].item] = d
  BY <1>2 DEF RowsLead
<1>4. ASSUME NEW i \in Item
      PROVE  /\ \A n \in 0..Len(rows'[d]) : From(d, i, n)' >= 0
             /\ lock'[i] = d => written'[i] = From(d, i, Len(rows[d]))'
  <2>1. CASE lock[i] = d
    BY <2>1 DEF RowsLead, From
  <2>2. CASE lock[i] # d
    <3>1. \A n \in 1..Len(rows[d]) : rows[d][n].item # i
      BY <2>2 DEF RowsLead
    <3>2. committed'[i] \in Nat
      BY DEF TypeOK
    <3>3. \A n \in 0..Len(rows[d]) : Book!StockFrom(committed'[i], rows[d], i, n) = committed'[i]
      BY <1>1, <3>1, <3>2, StockFromOthers
    <3> QED
      BY <2>2, <3>2, <3>3 DEF From
  <2> QED
    BY <2>1, <2>2
<1> QED
  BY <1>3, <1>4 DEF RowsLead

LEMMA InitBookIInv == Init => BookIInv
<1> SUFFICES ASSUME Init PROVE BookIInv
  OBVIOUS
<1>1. IInv
  BY InitIInv
<1>2. NewHasNothing /\ OpenRowsLead
  BY DEF Init, NewHasNothing, OpenRowsLead, Open
<1>3. CommittedFollowsLedger
  <2> SUFFICES ASSUME NEW i \in Item PROVE Opening[i] = Book!StockFrom(0, ledger, i, Len(ledger))
    BY DEF CommittedFollowsLedger, LedgerQuantity, Init
  <2>1. /\ ledger \in Seq(Movement) /\ Len(ledger) = NumItems /\ NumItems \in Nat
        /\ \A n \in Item : ledger[n] = [item |-> n, kind |-> "STOCK_IN", quantity |-> Opening[n]]
    <3>1. ledger \in Seq(Movement)
      BY <1>1 DEF IInv, TypeOK
    <3>2. NumItems \in Nat /\ DOMAIN ledger = 1..NumItems
      BY LedgerAssumption DEF Init, Item
    <3>3. Len(ledger) = NumItems
      BY <3>1, <3>2, LenProperties
    <3> QED
      BY <3>1, <3>2, <3>3 DEF Init
  <2>2. Adds(0, ledger, i)
    BY <2>1, StockFromStep
  <2> DEFINE Led == {n \in 0..NumItems :
                       Book!StockFrom(0, ledger, i, n) = IF n < i THEN 0 ELSE Opening[i]}
  <2>3. i \in 1..NumItems /\ Opening[i] \in Nat
    BY LedgerAssumption DEF Item
  <2>4. 0 \in Led
    BY <2>1, <2>2, <2>3 DEF Adds
  <2>5. ASSUME NEW k \in 0..(NumItems - 1), k \in Led PROVE k + 1 \in Led
    <3>1. k + 1 \in 1..Len(ledger) /\ (k + 1) - 1 = k /\ k + 1 \in Item
      BY <2>1 DEF Item
    <3>2. ledger[k + 1].item = k + 1 /\ Delta(ledger[k + 1]) = Opening[k + 1]
      <4>1. ledger[k + 1] = [item |-> k + 1, kind |-> "STOCK_IN", quantity |-> Opening[k + 1]]
        BY <2>1, <3>1
      <4> QED
        BY <4>1 DEF Delta
    <3>3. Book!StockFrom(0, ledger, i, k + 1) =
            IF k + 1 = i THEN Book!StockFrom(0, ledger, i, k) + Opening[i]
            ELSE Book!StockFrom(0, ledger, i, k)
      BY <2>2, <3>1, <3>2 DEF Adds
    <3> QED
      BY <2>1, <2>3, <2>5, <3>3
  <2>6. 0..NumItems \subseteq Led
    <3> HIDE DEF Led
    <3> QED
      BY <2>1, <2>4, <2>5, CountUp
  <2> QED
    BY <2>1, <2>3, <2>6
<1> QED
  BY <1>1, <1>2, <1>3 DEF BookIInv

(* Rolling back leaves the rows of the other open calls leading. *)
LEMMA RollbackRowsLead ==
    ASSUME BookIInv, IInv', NEW c \in Call, Open(c), Rollback(c)
    PROVE  NewHasNothing' /\ OpenRowsLead' /\ CommittedFollowsLedger'
<1> USE LedgerAssumption DEF BookIInv, IInv
<1>1. NewHasNothing'
  BY DEF Rollback, NewHasNothing, TypeOK
<1>2. CommittedFollowsLedger'
  BY DEF Rollback, CommittedFollowsLedger, LedgerQuantity
<1>3. OpenRowsLead'
  <2> SUFFICES ASSUME NEW d \in Call, Open(d)' PROVE RowsLead(d)'
    BY DEF OpenRowsLead
  <2>1. d # c /\ Open(d) /\ d # NoCall
    BY DEF Rollback, Open, TypeOK
  <2>2. rows'[d] = rows[d] /\ plan'[d] = plan[d] /\ committed' = committed
    BY <2>1 DEF Rollback, TypeOK
  <2>3. \A i \in Item : lock'[i] = IF lock[i] = c THEN NoCall ELSE lock[i]
    BY DEF Rollback, Released, Held, TypeOK
  <2>4. \A i \in Item : lock[i] # c => written'[i] = written[i]
    BY DEF Rollback, Held, TypeOK
  <2> QED
    BY <2>1, <2>2, <2>3, <2>4, OtherRowsLead DEF OpenRowsLead
<1> QED
  BY <1>1, <1>2, <1>3

(* A step that opens nothing and touches neither rows nor stock. *)
LEMMA QuietRowsLead ==
    ASSUME BookIInv, IInv', UNCHANGED <<committed, written, lock, ledger, plan, rows>>,
           \A d \in Call : Open(d)' => Open(d),
           \A d \in Call : pc'[d] = "new" => pc[d] = "new" /\ hooks'[d] = hooks[d]
    PROVE  NewHasNothing' /\ OpenRowsLead' /\ CommittedFollowsLedger'
<1> USE DEF BookIInv, IInv
<1>1. NewHasNothing'
  BY DEF NewHasNothing
<1>2. CommittedFollowsLedger'
  BY DEF CommittedFollowsLedger, LedgerQuantity
<1>3. OpenRowsLead'
  BY DEF OpenRowsLead, RowsLead, From
<1> QED
  BY <1>1, <1>2, <1>3

LEMMA BeginRowsLead ==
    ASSUME BookIInv, IInv', NEW c \in Call, NEW p \in Plans, Begin(c, p)
    PROVE  NewHasNothing' /\ OpenRowsLead' /\ CommittedFollowsLedger'
<1> USE LedgerAssumption DEF BookIInv, IInv, items
<1>1. NewHasNothing'
  BY DEF Begin, NewHasNothing, TypeOK
<1>2. CommittedFollowsLedger'
  BY DEF Begin, CommittedFollowsLedger, LedgerQuantity
<1>3. OpenRowsLead'
  <2> SUFFICES ASSUME NEW d \in Call, Open(d)' PROVE RowsLead(d)'
    BY DEF OpenRowsLead
  <2>1. CASE d = c
    <3>1. rows[c] = <<>> /\ rows' = rows /\ plan'[c] = p /\ committed' = committed
      BY DEF Begin, NewHasNothing, TypeOK
    <3>2. \A i \in Item : lock'[i] # c
      BY DEF Begin, LocksAreOpen, Open
    <3>3. p \in Seq(Movement) /\ Len(rows[c]) = 0 /\ rows[c] \in Seq(Movement)
      BY <3>1, EmptySeq
    <3>4. Len(p) \in Nat
      BY <3>3, LenProperties
    <3>5. \A i \in Item : Book!StockFrom(committed[i], rows[c], i, 0) = committed[i] /\ committed[i] \in Nat
      <4> SUFFICES ASSUME NEW i \in Item
                   PROVE  Book!StockFrom(committed[i], rows[c], i, 0) = committed[i] /\ committed[i] \in Nat
        OBVIOUS
      <4>1. committed[i] \in Nat
        BY DEF TypeOK
      <4> QED
        BY <3>3, <4>1, StockFromStep DEF Adds
    <3>6. \A i \in Item : \A n \in 0..0 : From(c, i, n)' >= 0
      BY <3>1, <3>5 DEF From
    <3> QED
      BY <2>1, <3>1, <3>2, <3>3, <3>4, <3>6 DEF RowsLead
  <2>2. CASE d # c
    <3>1. Open(d) /\ rows'[d] = rows[d] /\ plan'[d] = plan[d] /\ UNCHANGED <<committed, written, lock>>
      BY <2>2 DEF Begin, Open, TypeOK
    <3> QED
      BY <3>1, OtherRowsLead DEF OpenRowsLead
  <2> QED
    BY <2>1, <2>2
<1> QED
  BY <1>1, <1>2, <1>3

LEMMA LockRowsLead ==
    ASSUME BookIInv, IInv', NEW c \in Call, LockAndRead(c)
    PROVE  NewHasNothing' /\ OpenRowsLead' /\ CommittedFollowsLedger'
<1> USE LedgerAssumption DEF BookIInv, IInv
<1> DEFINE i == Current(c).item
<1>1. i \in Item
  BY CurrentIsMovement DEF LockAndRead, Movement
<1>2. /\ lock[i] \in {NoCall, c}
      /\ lock' = [lock EXCEPT ![i] = c]
      /\ pc[c] = "running" /\ pc' = [pc EXCEPT ![c] = "read"]
      /\ UNCHANGED <<committed, written, active, ledger, plan, rows, hooks, alerts, faults>>
  BY DEF LockAndRead, MayLock
<1> HIDE DEF i
<1>3. NewHasNothing'
  BY <1>2 DEF NewHasNothing, TypeOK
<1>4. CommittedFollowsLedger'
  BY <1>2 DEF CommittedFollowsLedger, LedgerQuantity
<1>5. OpenRowsLead'
  <2> SUFFICES ASSUME NEW d \in Call, Open(d)' PROVE RowsLead(d)'
    BY DEF OpenRowsLead
  <2>1. Open(d) /\ RowsLead(d) /\ d # NoCall
    BY <1>2 DEF Open, OpenRowsLead, TypeOK
  <2>2. CASE d # c
    BY <1>1, <1>2, <2>1, <2>2, OtherRowsLead DEF TypeOK
  <2>3. CASE d = c /\ lock[i] = c
    <3>1. lock' = lock
      BY <1>1, <1>2, <2>3 DEF TypeOK
    <3> QED
      BY <1>2, <2>1, <2>3, <3>1 DEF RowsLead, From
  <2>4. CASE d = c /\ lock[i] # c
    <3>1. \A j \in Item : lock'[j] = IF j = i THEN c ELSE lock[j]
      BY <1>1, <1>2 DEF TypeOK
    <3>2. rows[c] \in Seq(Movement) /\ Len(rows[c]) \in Nat
      BY LenProperties DEF TypeOK
    <3>3. \A n \in 1..Len(rows[c]) : rows[c][n].item \in Item /\ rows[c][n].item # i
      <4>1. \A n \in 1..Len(rows[c]) : rows[c][n] \in Movement
        BY <3>2, ElementOfSeq
      <4>2. \A n \in 1..Len(rows[c]) : lock[rows[c][n].item] = c
        BY <2>1, <2>4 DEF RowsLead
      <4>3. \A n \in 1..Len(rows[c]) : rows[c][n].item \in Item
        BY <4>1 DEF Movement
      <4> QED
        BY <2>4, <4>2, <4>3
    <3>4. committed[i] \in Nat /\ written[i] = committed[i]
      BY <1>1, <1>2, <2>4 DEF TypeOK, UnlockedIsCommitted
    <3>5. \A n \in 0..Len(rows[c]) : Book!StockFrom(committed[i], rows[c], i, n) = committed[i]
      <4> DEFINE s == rows[c]
                 q == committed[i]
                 k == Len(s)
      <4>1. /\ q \in Int /\ s \in Seq(Movement) /\ k \in Nat /\ k <= Len(s)
            /\ \A n \in 1..k : s[n].item # i
        BY <3>2, <3>3, <3>4
      <4> HIDE DEF s, q, k
      <4>2. \A n \in 0..k : Book!StockFrom(q, s, i, n) = q
        BY <4>1, StockFromOthers
      <4> QED
        BY <4>2 DEF s, q, k
    <3>6. \A n \in 1..Len(rows[c]) : lock'[rows[c][n].item] = c
      BY <2>1, <2>4, <3>1, <3>3 DEF RowsLead
    <3>7. \A j \in Item : lock'[j] = c => written[j] = From(c, j, Len(rows[c]))
      BY <2>1, <2>4, <3>1, <3>2, <3>4, <3>5 DEF RowsLead, From
    <3>8. /\ plan'[c] \in Plans
          /\ Len(rows'[c]) <= Len(plan'[c])
          /\ \A n \in 1..Len(rows'[c]) : rows'[c][n] = plan'[c][n]
      BY <1>2, <2>1, <2>4 DEF RowsLead
    <3>9. \A j \in Item : \A n \in 0..Len(rows'[c]) : From(c, j, n)' >= 0
      BY <1>2, <2>1, <2>4 DEF RowsLead, From
    <3>10. \A j \in Item : lock'[j] = c => written'[j] = From(c, j, Len(rows[c]))'
      BY <1>2, <3>7 DEF From
    <3>11. rows'[c] = rows[c]
      BY <1>2
    <3>12. RowsLead(c)'
      BY <3>6, <3>8, <3>9, <3>10, <3>11 DEF RowsLead
    <3> QED
      BY <2>4, <3>12
  <2> QED
    BY <2>2, <2>3, <2>4
<1> QED
  BY <1>3, <1>4, <1>5

LEMMA WriteRowsLead ==
    ASSUME BookIInv, IInv', NEW c \in Call, Write(c)
    PROVE  NewHasNothing' /\ OpenRowsLead' /\ CommittedFollowsLedger'
<1> USE LedgerAssumption DEF BookIInv, IInv
<1> DEFINE m == Current(c)
           k == Len(rows[c])
<1>1. /\ pc[c] = "read" /\ pc' = [pc EXCEPT ![c] = "running"]
      /\ rows' = [rows EXCEPT ![c] = Append(@, m)]
      /\ written' = [written EXCEPT ![m.item] = NextQuantity(c)]
      /\ NextQuantity(c) = written[m.item] + Delta(m) /\ NextQuantity(c) >= 0
      /\ lock[m.item] = c
      /\ UNCHANGED <<committed, active, lock, ledger, plan, read, alerts, faults>>
      /\ \A d \in Call : d # c => hooks'[d] = hooks[d]
  BY DEF Write, StoredRow, Sufficient, NextQuantity, NoLostUpdate, TypeOK
<1>2. HasMore(c) /\ RowsLead(c)
  BY <1>1 DEF ReadHasMore, OpenRowsLead, Open
<1>3. m \in Movement /\ m.item \in Item
  BY <1>2, CurrentIsMovement DEF Movement
<1>4. m = plan[c][k + 1] /\ k < Len(plan[c])
  BY <1>2 DEF Current, HasMore
<1> HIDE DEF m
<1>5. rows[c] \in Seq(Movement) /\ k \in Nat
  <2>1. rows[c] \in Seq(Movement)
    BY DEF TypeOK
  <2> QED
    BY <2>1, LenProperties
<1>6. /\ rows'[c] \in Seq(Movement)
      /\ Len(rows'[c]) = k + 1
      /\ rows'[c][k + 1] = m
      /\ \A n \in 1..k : rows'[c][n] = rows[c][n]
  <2>1. rows'[c] = Append(rows[c], m)
    BY <1>1 DEF TypeOK
  <2> QED
    BY <1>3, <1>5, <2>1, AppendProperties
<1>7. NewHasNothing'
  BY <1>1 DEF NewHasNothing, TypeOK
<1>8. CommittedFollowsLedger'
  BY <1>1 DEF CommittedFollowsLedger, LedgerQuantity
<1>9. RowsLead(c)'
  <2>1. plan'[c] \in Plans /\ Len(rows'[c]) <= Len(plan'[c])
    <3>1. plan[c] \in Plans /\ plan' = plan
      BY <1>1, <1>2 DEF RowsLead
    <3>2. plan[c] \in Seq(Movement)
      BY DEF TypeOK
    <3>3. Len(plan[c]) \in Nat
      BY <3>2, LenProperties
    <3> QED
      BY <1>4, <1>5, <1>6, <3>1, <3>3
  <2>2. \A n \in 1..Len(rows'[c]) : rows'[c][n] = plan'[c][n] /\ lock'[rows'[c][n].item] = c
    <3> SUFFICES ASSUME NEW n \in 1..(k + 1)
                 PROVE  rows'[c][n] = plan[c][n] /\ lock[rows'[c][n].item] = c
      BY <1>1, <1>6
    <3>1. CASE n = k + 1
      BY <1>1, <1>4, <1>6, <3>1
    <3>2. CASE n # k + 1
      <4>1. n \in 1..k
        BY <1>5, <3>2
      <4> QED
        BY <1>2, <1>6, <4>1 DEF RowsLead
    <3> QED
      BY <3>1, <3>2
  <2>3. ASSUME NEW i \in Item
        PROVE  /\ \A n \in 0..(k + 1) : Book!StockFrom(committed'[i], rows'[c], i, n) >= 0
               /\ lock[i] = c => written'[i] = Book!StockFrom(committed'[i], rows'[c], i, k + 1)
    <3> DEFINE q == committed[i]
               Before(n) == Book!StockFrom(q, rows[c], i, n)
               After(n) == Book!StockFrom(q, rows'[c], i, n)
    <3>1. q \in Int /\ q \in Nat /\ written[i] \in Nat /\ committed'[i] = q
      BY <1>1 DEF TypeOK
    <3> HIDE DEF q
    <3>2. \A n \in 0..k : After(n) = Before(n)
      <4>1. \A n \in 1..k : rows[c][n] = rows'[c][n]
        BY <1>6
      <4>2. k <= Len(rows[c]) /\ k <= Len(rows'[c])
        BY <1>5, <1>6
      <4> DEFINE s == rows[c]
                 t == rows'[c]
      <4>3. s \in Seq(Movement) /\ t \in Seq(Movement) /\ k \in Nat
        BY <1>5, <1>6
      <4>4. /\ k <= Len(s) /\ k <= Len(t) /\ \A n \in 1..k : s[n] = t[n]
        BY <4>1, <4>2
      <4> HIDE DEF k, s, t
      <4>5. \A n \in 0..k : Book!StockFrom(q, s, i, n) = Book!StockFrom(q, t, i, n)
        BY <3>1, <4>3, <4>4, StockFromPrefix
      <4> QED
        BY <4>5 DEF s, t
    <3>3. After(k + 1) = IF m.item = i THEN Before(k) + Delta(m) ELSE Before(k)
      <4>1. Adds(q, rows'[c], i)
        BY <1>6, <3>1, StockFromStep
      <4>2. k + 1 \in 1..Len(rows'[c]) /\ (k + 1) - 1 = k /\ k \in 0..k
        BY <1>5, <1>6
      <4>3. After(k + 1) = IF m.item = i THEN After(k) + Delta(m) ELSE After(k)
        BY <1>6, <4>1, <4>2 DEF Adds
      <4>4. After(k) = Before(k)
        BY <3>2, <4>2
      <4> QED
        BY <4>3, <4>4
    <3>4. \A n \in 0..k : Before(n) >= 0
      BY <1>2 DEF RowsLead, From, q
    <3>5. lock[i] = c => written[i] = Before(k)
      BY <1>2 DEF RowsLead, From, q
    <3>6. After(k + 1) >= 0 /\ (lock[i] = c => written'[i] = After(k + 1))
      <4>1. CASE m.item = i
        <5>1. written'[i] = NextQuantity(c)
          BY <1>1, <4>1 DEF TypeOK
        <5>2. written[i] = Before(k)
          BY <1>1, <3>5, <4>1
        <5> QED
          BY <1>1, <3>3, <4>1, <5>1, <5>2
      <4>2. CASE m.item # i
        <5>1. written'[i] = written[i]
          BY <1>1, <1>3, <4>2 DEF TypeOK
        <5>2. Before(k) >= 0
          BY <1>5, <3>4
        <5> QED
          BY <3>3, <3>5, <4>2, <5>1, <5>2
      <4> QED
        BY <4>1, <4>2
    <3>7. \A n \in 0..(k + 1) : n \in 0..k \/ n = k + 1
      BY <1>5
    <3>8. \A n \in 0..(k + 1) : After(n) >= 0
      <4> HIDE DEF k, After, Before
      <4> QED
        BY <3>2, <3>4, <3>6, <3>7
    <3> QED
      BY <3>1, <3>6, <3>8
  <2> QED
    <3>1. lock' = lock /\ Len(rows'[c]) = k + 1
      BY <1>1, <1>6
    <3> HIDE DEF k
    <3> QED
      BY <2>1, <2>2, <2>3, <3>1 DEF RowsLead, From
<1>10. OpenRowsLead'
  <2> SUFFICES ASSUME NEW d \in Call, Open(d)' PROVE RowsLead(d)'
    BY DEF OpenRowsLead
  <2>1. CASE d # c
    <3>1. Open(d) /\ rows'[d] = rows[d] /\ RowsLead(d)
      BY <1>1, <2>1 DEF Open, TypeOK, OpenRowsLead
    <3>2. \A i \in Item : lock[i] = d => written'[i] = written[i]
      BY <1>1, <1>3, <2>1 DEF TypeOK
    <3> QED
      BY <1>1, <3>1, <3>2, OtherRowsLead
  <2> QED
    BY <1>9, <2>1
<1> QED
  BY <1>7, <1>8, <1>10

(* What a commit publishes: the whole plan was executed, and every item gets the
   stock the plan leads to. *)
LEMMA CommitPublishes ==
    ASSUME BookIInv, NEW c \in Call, Commit(c)
    PROVE  /\ rows[c] = plan[c] /\ rows[c] \in Seq(Movement) /\ RowsLead(c)
           /\ \A i \in Item : committed'[i] = From(c, i, Len(rows[c]))
<1> USE DEF BookIInv, IInv
<1>1. RowsLead(c)
  BY DEF Commit, OpenRowsLead, Open
<1>2. rows[c] \in Seq(Movement) /\ plan[c] \in Seq(Movement)
  BY DEF TypeOK
<1>3. Len(rows[c]) \in Nat /\ Len(plan[c]) \in Nat
  BY <1>2, LenProperties
<1>4. Len(rows[c]) = Len(plan[c])
  BY <1>1, <1>3 DEF Commit, HasMore, RowsLead
<1>5. rows[c] = plan[c]
  <2>1. \A n \in 1..Len(rows[c]) : rows[c][n] = plan[c][n]
    BY <1>1 DEF RowsLead
  <2> QED
    BY <1>2, <1>4, <2>1, SeqEqual
<1>6. ASSUME NEW i \in Item PROVE committed'[i] = From(c, i, Len(rows[c]))
  <2>1. committed'[i] = IF lock[i] = c THEN written[i] ELSE committed[i]
    BY DEF Commit, Held
  <2>2. CASE lock[i] = c
    BY <1>1, <2>1, <2>2 DEF RowsLead
  <2>3. CASE lock[i] # c
    <3> DEFINE s == rows[c]
               q == committed[i]
               k == Len(s)
    <3>1. \A n \in 1..k : s[n].item # i
      BY <1>1, <2>3 DEF RowsLead
    <3>2. q \in Int /\ s \in Seq(Movement) /\ k \in Nat /\ k <= Len(s) /\ k \in 0..k
      BY <1>2, <1>3 DEF TypeOK
    <3>3. committed'[i] = q /\ From(c, i, Len(rows[c])) = Book!StockFrom(q, s, i, k)
      BY <2>1, <2>3 DEF From
    <3> HIDE DEF s, q, k
    <3>4. \A n \in 0..k : Book!StockFrom(q, s, i, n) = q
      BY <3>1, <3>2, StockFromOthers
    <3> QED
      BY <3>2, <3>3, <3>4
  <2> QED
    BY <2>2, <2>3
<1> QED
  BY <1>1, <1>2, <1>5, <1>6

LEMMA CommitRowsLead ==
    ASSUME BookIInv, IInv', NEW c \in Call, Commit(c)
    PROVE  NewHasNothing' /\ OpenRowsLead' /\ CommittedFollowsLedger'
<1> USE LedgerAssumption DEF BookIInv, IInv
<1>1. /\ pc[c] = "running" /\ pc'[c] \in {"done", "committed"}
      /\ \A d \in Call : d # c => pc'[d] = pc[d]
      /\ ledger' = ledger \o rows[c]
      /\ UNCHANGED <<written, active, plan, rows, hooks, alerts, faults>>
  BY DEF Commit, TypeOK
<1>2. /\ rows[c] \in Seq(Movement) /\ RowsLead(c)
      /\ \A i \in Item : committed'[i] = From(c, i, Len(rows[c]))
  BY CommitPublishes
<1>3. NewHasNothing'
  BY <1>1 DEF NewHasNothing
<1>4. CommittedFollowsLedger'
  <2> SUFFICES ASSUME NEW i \in Item PROVE committed'[i] = Book!StockFrom(0, ledger', i, Len(ledger'))
    BY DEF CommittedFollowsLedger, LedgerQuantity
  <2> DEFINE t == rows[c]
             k == Len(t)
             q == Book!StockFrom(0, ledger, i, Len(ledger))
  <2>1. /\ ledger \in Seq(Movement) /\ t \in Seq(Movement)
        /\ q = committed[i] /\ committed'[i] = Book!StockFrom(committed[i], t, i, k)
    BY <1>2 DEF TypeOK, CommittedFollowsLedger, LedgerQuantity, From
  <2>2. Len(ledger) \in Nat /\ k \in Nat /\ k \in 0..k
    BY <2>1, LenProperties
  <2>3. Len(ledger') = Len(ledger) + k
    BY <1>1, <2>1, ConcatProperties
  <2>4. \A n \in 0..k : Book!StockFrom(0, ledger \o t, i, Len(ledger) + n)
                          = Book!StockFrom(q, t, i, n)
    <3>1. 0 \in Int
      OBVIOUS
    <3> DEFINE l == ledger
    <3>2. l \in Seq(Movement) /\ t \in Seq(Movement)
      BY <2>1
    <3> HIDE DEF t, l
    <3>3. \A n \in 0..Len(t) :
            Book!StockFrom(0, l \o t, i, Len(l) + n)
              = Book!StockFrom(Book!StockFrom(0, l, i, Len(l)), t, i, n)
      BY <3>1, <3>2, StockFromConcat
    <3> QED
      BY <3>3 DEF l
  <2> HIDE DEF k, q
  <2> QED
    BY <1>1, <2>1, <2>2, <2>3, <2>4
<1>5. OpenRowsLead'
  <2> SUFFICES ASSUME NEW d \in Call, Open(d)' PROVE RowsLead(d)'
    BY DEF OpenRowsLead
  <2>1. d # c /\ Open(d) /\ d # NoCall
    BY <1>1 DEF Open
  <2>2. \A i \in Item : lock'[i] = IF lock[i] = c THEN NoCall ELSE lock[i]
    BY DEF Commit, Released, Held, TypeOK
  <2>3. \A i \in Item : lock[i] # c => committed'[i] = committed[i]
    BY DEF Commit, Held, TypeOK
  <2> QED
    BY <1>1, <2>1, <2>2, <2>3, OtherRowsLead DEF OpenRowsLead
<1> QED
  BY <1>3, <1>4, <1>5

LEMMA NextBookIInv == BookIInv /\ [Next]_vars => BookIInv'
<1> SUFFICES ASSUME BookIInv, [Next]_vars PROVE BookIInv'
  OBVIOUS
<1>1. IInv'
  BY NextIInv DEF BookIInv
<1> SUFFICES NewHasNothing' /\ OpenRowsLead' /\ CommittedFollowsLedger'
  BY <1>1 DEF BookIInv
<1> USE <1>1
<1>2. ASSUME NEW c \in Call, NEW p \in Plans, Begin(c, p)
      PROVE  NewHasNothing' /\ OpenRowsLead' /\ CommittedFollowsLedger'
  BY <1>2, BeginRowsLead
<1>3. ASSUME NEW c \in Call, LockAndRead(c)
      PROVE  NewHasNothing' /\ OpenRowsLead' /\ CommittedFollowsLedger'
  BY <1>3, LockRowsLead
<1>4. ASSUME NEW c \in Call, Write(c)
      PROVE  NewHasNothing' /\ OpenRowsLead' /\ CommittedFollowsLedger'
  BY <1>4, WriteRowsLead
<1>5. ASSUME NEW c \in Call, Refuse(c) \/ DeadlockDetected(c) \/ (Open(c) /\ Rollback(c))
      PROVE  NewHasNothing' /\ OpenRowsLead' /\ CommittedFollowsLedger'
  <2>1. Open(c) /\ Rollback(c)
    BY <1>5 DEF Refuse, DeadlockDetected, Waiting, Open
  <2> QED
    BY <2>1, RollbackRowsLead
<1>6. ASSUME NEW c \in Call, Commit(c)
      PROVE  NewHasNothing' /\ OpenRowsLead' /\ CommittedFollowsLedger'
  BY <1>6, CommitRowsLead
<1>7. ASSUME NEW c \in Call, NextHook(c)
      PROVE  NewHasNothing' /\ OpenRowsLead' /\ CommittedFollowsLedger'
  BY <1>7, QuietRowsLead DEF NextHook, items, Open, BookIInv, IInv, TypeOK
<1>8. ASSUME NEW c \in Call, Crash(c)
      PROVE  NewHasNothing' /\ OpenRowsLead' /\ CommittedFollowsLedger'
  <2>1. CASE Open(c) /\ Rollback(c)
    BY <1>5, <2>1
  <2>2. CASE /\ pc[c] = "committed"
             /\ pc' = [pc EXCEPT ![c] = "done"]
             /\ hooks' = [hooks EXCEPT ![c] = <<>>]
             /\ UNCHANGED <<items, ledger, plan, rows, read, alerts>>
    BY <2>2, QuietRowsLead DEF items, Open, BookIInv, IInv, TypeOK
  <2> QED
    BY <1>8, <2>1, <2>2 DEF Crash
<1>9. ASSUME NEW i \in Item, SetActive(i)
      PROVE  NewHasNothing' /\ OpenRowsLead' /\ CommittedFollowsLedger'
  BY <1>9, QuietRowsLead DEF SetActive, calls, Open
<1>10. ASSUME UNCHANGED vars
       PROVE  NewHasNothing' /\ OpenRowsLead' /\ CommittedFollowsLedger'
  BY <1>10, QuietRowsLead DEF vars, items, calls, Open
<1> QED
  BY <1>2, <1>3, <1>4, <1>5, <1>6, <1>7, <1>8, <1>9, <1>10
     DEF Next, Step, PublishAlert, PublishFails

(* What is committed is what the committed rows add up to, whatever the
   transactions did meanwhile. *)
THEOREM LedgerFollowed == Spec => []BookIInv
  BY InitBookIInv, NextBookIInv, PTL DEF Spec

-----------------------------------------------------------------------------
(* Only a commit moves the committed stock or the ledger, and it books its
   call's whole plan. *)
LEMMA CommitBooksPlan ==
    ASSUME BookIInv, BookIInv', NEW c \in Call, Commit(c)
    PROVE  Book!BookNext
<1> USE DEF BookIInv, IInv
<1> DEFINE p == plan[c]
<1>1. /\ rows[c] = p /\ rows[c] \in Seq(Movement) /\ RowsLead(c)
      /\ \A i \in Item : committed'[i] = From(c, i, Len(rows[c]))
  BY CommitPublishes
<1>2. p \in Plans /\ ledger' = ledger \o p
  BY <1>1 DEF RowsLead, Commit
<1>3. \A i \in Item : \A n \in 0..Len(p) : Book!StockAfter(p, i, n) = From(c, i, n)
  BY <1>1 DEF Book!StockAfter, From
<1>4. Len(p) \in Nat
  BY <1>1, LenProperties
<1>5. Book!Covered(p)
  BY <1>1, <1>3, <1>4 DEF Book!Covered, RowsLead, Item
<1>6. committed' = [i \in 1..NumItems |-> Book!StockAfter(p, i, Len(p))]
  <2>1. committed' \in [Item -> Nat]
    BY DEF TypeOK
  <2>2. \A i \in Item : committed'[i] = Book!StockAfter(p, i, Len(p))
    BY <1>1, <1>3, <1>4
  <2> QED
    BY <2>1, <2>2 DEF Item
<1>7. Book!BookPlan(p)
  BY <1>2, <1>5, <1>6 DEF Book!BookPlan
<1> QED
  BY <1>2, <1>7 DEF Book!BookNext

LEMMA StepBooks ==
    ASSUME BookIInv, BookIInv', [Next]_vars
    PROVE  [Book!BookNext]_(Book!bookVars)
<1> SUFFICES Book!BookNext \/ UNCHANGED <<committed, ledger>>
  BY DEF Book!bookVars
<1>1. ASSUME NEW c \in Call, Commit(c) PROVE Book!BookNext
  BY <1>1, CommitBooksPlan
<1>2. ASSUME NEW c \in Call, NEW p \in Plans, Begin(c, p) PROVE UNCHANGED <<committed, ledger>>
  BY <1>2 DEF Begin, items
<1>3. ASSUME NEW c \in Call,
             \/ LockAndRead(c) \/ Write(c) \/ Refuse(c) \/ DeadlockDetected(c)
             \/ PublishAlert(c) \/ PublishFails(c) \/ Crash(c)
      PROVE  UNCHANGED <<committed, ledger>>
  BY <1>3 DEF LockAndRead, Write, Refuse, DeadlockDetected, Rollback, PublishAlert, PublishFails,
              NextHook, Crash, items
<1>4. ASSUME NEW i \in Item, SetActive(i) PROVE UNCHANGED <<committed, ledger>>
  BY <1>4 DEF SetActive
<1>5. ASSUME UNCHANGED vars PROVE UNCHANGED <<committed, ledger>>
  BY <1>5 DEF vars, items
<1> QED
  BY <1>1, <1>2, <1>3, <1>4, <1>5 DEF Next, Step

(* The row-locked transactions implement a ledger that books whole plans in one
   step: a plan is booked as a whole or not at all, it never overdraws an item
   on the way, and the stock always follows the ledger. *)
THEOREM LedgerBooksAtomically == Spec => BooksAtomically
<1>1. Init => Book!BookInit
  BY DEF Init, Book!BookInit, Item
<1>2. BookIInv /\ BookIInv' /\ [Next]_vars => [Book!BookNext]_(Book!bookVars)
  BY StepBooks
<1>3. QED
  BY <1>1, <1>2, LedgerFollowed, PTL DEF Spec, BooksAtomically, Book!Spec

-----------------------------------------------------------------------------
(* The hooks of a call for item i that are still to run once it committed, and
   its rows that take the item from not-low to low. *)
PendingOf(c, i) == IF pc[c] = "committed" THEN PlacesOf(hooks[c], i) ELSE {}

Crossed(c, i) ==
    {n \in 1..Len(rows[c]) :
        /\ rows[c][n].item = i
        /\ Crosses(rows[c][n], From(c, i, n - 1), From(c, i, n))}

(* An open call registered one hook for each of its rows that crosses. *)
HooksMatch(c) ==
    \A i \in Item : Cardinality(PlacesOf(hooks[c], i)) = Cardinality(Crossed(c, i))

HooksMatchRows == \A c \in Call : Open(c) => HooksMatch(c)

AlertIInv ==
    /\ BookIInv
    /\ HooksMatchRows
    /\ AlertsMatchCrossings

LEMMA CrossedFinite ==
    ASSUME TypeOK, NEW c \in Call, NEW i
    PROVE  IsFiniteSet(Crossed(c, i)) /\ Cardinality(Crossed(c, i)) \in Nat
<1>1. rows[c] \in Seq(Movement)
  BY DEF TypeOK
<1>2. Len(rows[c]) \in Nat
  BY <1>1, LenProperties
<1>3. IsFiniteSet(1..Len(rows[c])) /\ Crossed(c, i) \subseteq 1..Len(rows[c])
  BY <1>2, FS_Interval DEF Crossed
<1>4. IsFiniteSet(Crossed(c, i))
  BY <1>3, FS_Subset
<1> QED
  BY <1>4, FS_CardinalityType

LEMMA CrossingsFinite ==
    ASSUME TypeOK, NEW i
    PROVE  IsFiniteSet(Crossings(i)) /\ Cardinality(Crossings(i)) \in Nat
<1>1. ledger \in Seq(Movement)
  BY DEF TypeOK
<1>2. Len(ledger) \in Nat
  BY <1>1, LenProperties
<1>3. IsFiniteSet(1..Len(ledger)) /\ Crossings(i) \subseteq 1..Len(ledger)
  BY <1>2, FS_Interval DEF Crossings
<1>4. IsFiniteSet(Crossings(i))
  BY <1>3, FS_Subset
<1> QED
  BY <1>4, FS_CardinalityType

(* A step of one call changes the pending alerts by what it changes of that
   call's. *)
LEMMA PendingChange ==
    ASSUME TypeOK, TypeOK', NEW c \in Call, NEW i,
           \A d \in Call \ {c} : pc'[d] = pc[d] /\ hooks'[d] = hooks[d]
    PROVE  /\ Cardinality(PendingAlerts(i)) \in Nat /\ Cardinality(PendingAlerts(i)') \in Nat
           /\ Cardinality(PendingOf(c, i)) \in Nat /\ Cardinality(PendingOf(c, i)') \in Nat
           /\ Cardinality(PendingAlerts(i)') + Cardinality(PendingOf(c, i))
                = Cardinality(PendingAlerts(i)) + Cardinality(PendingOf(c, i)')
<1> DEFINE f == [d \in Call |-> PendingOf(d, i)]
           g == [d \in Call |-> PendingOf(d, i)']
<1>1. PendingAlerts(i) = Pairs(Call, f)
  BY DEF PendingAlerts, PendingOf, PlacesOf, Pairs
<1>2. PendingAlerts(i)' = Pairs(Call, g)
  BY DEF PendingAlerts, PendingOf, PlacesOf, Pairs
<1>3. \A d \in Call : IsFiniteSet(f[d]) /\ IsFiniteSet(g[d])
  <2> SUFFICES ASSUME NEW d \in Call PROVE IsFiniteSet(PendingOf(d, i)) /\ IsFiniteSet(PendingOf(d, i)')
    OBVIOUS
  <2>1. hooks[d] \in Seq(Item) /\ hooks'[d] \in Seq(Item)
    BY DEF TypeOK
  <2>2. IsFiniteSet(PlacesOf(hooks[d], i)) /\ IsFiniteSet(PlacesOf(hooks'[d], i)) /\ IsFiniteSet({})
    BY <2>1, PlacesFinite, FS_EmptySet
  <2> QED
    BY <2>2 DEF PendingOf
<1>4. \A d \in Call \ {c} : f[d] = g[d]
  BY DEF PendingOf
<1>5. f[c] = PendingOf(c, i) /\ g[c] = PendingOf(c, i)'
  OBVIOUS
<1> HIDE DEF f, g
<1>6. /\ Cardinality(Pairs(Call, f)) \in Nat /\ Cardinality(Pairs(Call, g)) \in Nat
      /\ Cardinality(f[c]) \in Nat /\ Cardinality(g[c]) \in Nat
      /\ Cardinality(Pairs(Call, g)) + Cardinality(f[c]) = Cardinality(Pairs(Call, f)) + Cardinality(g[c])
  <2>1. IsFiniteSet(Call)
    BY LedgerAssumption
  <2> QED
    BY <1>3, <1>4, <2>1, PairsChange
<1> QED
  BY <1>1, <1>2, <1>5, <1>6

(* A step that commits and publishes nothing: it may lose pending alerts if it
   is a fault, and none otherwise. *)
LEMMA QuietAlerts ==
    ASSUME TypeOK, TypeOK', AlertsMatchCrossings, NEW c \in Call,
           \A d \in Call \ {c} : pc'[d] = pc[d] /\ hooks'[d] = hooks[d],
           alerts' = alerts, ledger' = ledger,
           \A i \in Item : Cardinality(PendingOf(c, i)') <= Cardinality(PendingOf(c, i)),
           faults' = 0 =>
               /\ faults = 0
               /\ \A i \in Item : Cardinality(PendingOf(c, i)') = Cardinality(PendingOf(c, i))
    PROVE  AlertsMatchCrossings'
<1> SUFFICES ASSUME NEW i \in Item
             PROVE  LET told == alerts'[i] + Cardinality(PendingAlerts(i)') IN
                        /\ told <= Cardinality(Crossings(i)')
                        /\ faults' = 0 => told = Cardinality(Crossings(i)')
  BY DEF AlertsMatchCrossings
<1>1. /\ Cardinality(PendingAlerts(i)) \in Nat /\ Cardinality(PendingAlerts(i)') \in Nat
      /\ Cardinality(PendingOf(c, i)) \in Nat /\ Cardinality(PendingOf(c, i)') \in Nat
      /\ Cardinality(PendingAlerts(i)') + Cardinality(PendingOf(c, i))
           = Cardinality(PendingAlerts(i)) + Cardinality(PendingOf(c, i)')
  BY PendingChange
<1>2. Crossings(i)' = Crossings(i)
  BY DEF Crossings, LedgerQuantity
<1>3. alerts[i] \in Nat /\ Cardinality(Crossings(i)) \in Nat
  BY CrossingsFinite DEF TypeOK
<1>4. /\ alerts[i] + Cardinality(PendingAlerts(i)) <= Cardinality(Crossings(i))
      /\ faults = 0 => alerts[i] + Cardinality(PendingAlerts(i)) = Cardinality(Crossings(i))
  BY DEF AlertsMatchCrossings
<1> QED
  BY <1>1, <1>2, <1>3, <1>4

(* The afterCommit hook publishes the alert it stands for. *)
LEMMA PublishAlertMatches ==
    ASSUME IInv, IInv', AlertsMatchCrossings, NEW c \in Call, PublishAlert(c)
    PROVE  AlertsMatchCrossings'
<1> USE DEF IInv
<1> SUFFICES ASSUME NEW i \in Item
             PROVE  LET told == alerts'[i] + Cardinality(PendingAlerts(i)') IN
                        /\ told <= Cardinality(Crossings(i)')
                        /\ faults' = 0 => told = Cardinality(Crossings(i)')
  BY DEF AlertsMatchCrossings
<1> DEFINE h == hooks[c]
<1>1. /\ pc[c] = "committed" /\ h \in Seq(Item) /\ h # <<>>
      /\ hooks' = [hooks EXCEPT ![c] = Tail(h)]
      /\ pc' = [pc EXCEPT ![c] = IF Len(h) = 1 THEN "done" ELSE @]
      /\ alerts' = [alerts EXCEPT ![Head(h)] = @ + 1]
      /\ ledger' = ledger /\ faults' = faults
  BY DEF PublishAlert, NextHook, HooksPending, TypeOK
<1>2. Head(h) \in Item /\ Tail(h) \in Seq(Item) /\ Len(Tail(h)) = Len(h) - 1 /\ Len(h) \in Nat
  BY <1>1, HeadTailProperties, LenProperties
<1>3. /\ Cardinality(PendingAlerts(i)) \in Nat /\ Cardinality(PendingAlerts(i)') \in Nat
      /\ Cardinality(PendingOf(c, i)) \in Nat /\ Cardinality(PendingOf(c, i)') \in Nat
      /\ Cardinality(PendingAlerts(i)') + Cardinality(PendingOf(c, i))
           = Cardinality(PendingAlerts(i)) + Cardinality(PendingOf(c, i)')
  <2>1. \A d \in Call \ {c} : pc'[d] = pc[d] /\ hooks'[d] = hooks[d]
    BY <1>1 DEF TypeOK
  <2> QED
    BY <2>1, PendingChange
<1>4. PendingOf(c, i) = PlacesOf(h, i)
  BY <1>1 DEF PendingOf
<1>5. PendingOf(c, i)' = PlacesOf(Tail(h), i)
  <2>1. hooks'[c] = Tail(h) /\ pc'[c] = IF Len(h) = 1 THEN "done" ELSE "committed"
    BY <1>1 DEF TypeOK
  <2>2. CASE Len(h) = 1
    <3>1. PlacesOf(Tail(h), i) = {}
      BY <1>2, <2>2 DEF PlacesOf
    <3> QED
      BY <2>1, <2>2, <3>1 DEF PendingOf
  <2>3. CASE Len(h) # 1
    BY <2>1, <2>3 DEF PendingOf
  <2> QED
    BY <2>2, <2>3
<1>6. Cardinality(PlacesOf(Tail(h), i))
        = IF Head(h) = i THEN Cardinality(PlacesOf(h, i)) - 1 ELSE Cardinality(PlacesOf(h, i))
  <2> HIDE DEF h
  <2> QED
    BY <1>1, PlacesOfTail
<1>7. alerts'[i] = (IF Head(h) = i THEN alerts[i] + 1 ELSE alerts[i]) /\ alerts[i] \in Nat
  BY <1>1, <1>2 DEF TypeOK
<1>8. Crossings(i)' = Crossings(i) /\ Cardinality(Crossings(i)) \in Nat
  BY <1>1, CrossingsFinite DEF Crossings, LedgerQuantity
<1>9. /\ alerts[i] + Cardinality(PendingAlerts(i)) <= Cardinality(Crossings(i))
      /\ faults = 0 => alerts[i] + Cardinality(PendingAlerts(i)) = Cardinality(Crossings(i))
  BY DEF AlertsMatchCrossings
<1> HIDE DEF h
<1>10. alerts'[i] + Cardinality(PendingAlerts(i)') = alerts[i] + Cardinality(PendingAlerts(i))
  BY <1>3, <1>4, <1>5, <1>6, <1>7
<1> QED
  BY <1>1, <1>8, <1>9, <1>10

(* A commit adds to the crossings of the ledger those of the call's rows. *)
LEMMA CommitCrosses ==
    ASSUME BookIInv, NEW c \in Call, Commit(c), NEW i \in Item
    PROVE  Cardinality(Crossings(i)') = Cardinality(Crossings(i)) + Cardinality(Crossed(c, i))
<1> USE DEF BookIInv, IInv
<1> DEFINE l == ledger
           t == rows[c]
           q == committed[i]
           Old(n) == Book!StockFrom(0, l, i, n)
           New(n) == Book!StockFrom(0, l \o t, i, n)
           Row(n) == Book!StockFrom(q, t, i, n)
           Moved == {Len(l) + n : n \in Crossed(c, i)}
<1>1. l \in Seq(Movement) /\ t \in Seq(Movement) /\ ledger' = l \o t
  BY DEF TypeOK, Commit
<1>2. q = Old(Len(l)) /\ 0 \in Int
  BY DEF CommittedFollowsLedger, LedgerQuantity
<1>3. Len(l) \in Nat /\ Len(t) \in Nat
  BY <1>1, LenProperties
<1>4. /\ l \o t \in Seq(Movement)
      /\ Len(l \o t) = Len(l) + Len(t)
      /\ \A n \in 1..(Len(l) + Len(t)) : (l \o t)[n] = IF n <= Len(l) THEN l[n] ELSE t[n - Len(l)]
  <2> HIDE DEF l, t
  <2> QED
    BY <1>1, ConcatProperties
<1>5. \A n \in 0..Len(l) : New(n) = Old(n)
  <2> DEFINE k == Len(l)
             r == l \o t
  <2>1. /\ r \in Seq(Movement) /\ k \in Nat /\ k <= Len(l) /\ k <= Len(r)
        /\ \A n \in 1..k : l[n] = r[n]
    BY <1>3, <1>4
  <2> HIDE DEF l, t, k, r
  <2>2. \A n \in 0..k : Book!StockFrom(0, l, i, n) = Book!StockFrom(0, r, i, n)
    BY <1>1, <1>2, <2>1, StockFromPrefix
  <2> QED
    BY <2>2 DEF k, r
<1>6. \A n \in 0..Len(t) : New(Len(l) + n) = Row(n)
  <2>1. \A n \in 0..Len(t) : New(Len(l) + n) = Book!StockFrom(Old(Len(l)), t, i, n)
    <3> HIDE DEF l, t
    <3> QED
      BY <1>1, <1>2, StockFromConcat
  <2> QED
    BY <1>2, <2>1
<1>7. Crossings(i) = {n \in 1..Len(l) : l[n].item = i /\ Crosses(l[n], Old(n - 1), Old(n))}
  BY DEF Crossings, LedgerQuantity
<1>8. Crossings(i)' =
        {n \in 1..Len(l \o t) : (l \o t)[n].item = i /\ Crosses((l \o t)[n], New(n - 1), New(n))}
  BY <1>1 DEF Crossings, LedgerQuantity
<1>9. Crossed(c, i) = {n \in 1..Len(t) : t[n].item = i /\ Crosses(t[n], Row(n - 1), Row(n))}
  BY DEF Crossed, From
<1>10. IsFiniteSet(Crossings(i)) /\ IsFiniteSet(Crossed(c, i)) /\ Crossed(c, i) \in SUBSET Nat
  <2>1. IsFiniteSet(Crossings(i)) /\ IsFiniteSet(Crossed(c, i))
    BY CrossingsFinite, CrossedFinite
  <2>2. Crossed(c, i) \subseteq 1..Len(t)
    BY <1>9
  <2>3. 1..Len(t) \subseteq Nat
    BY <1>3
  <2> HIDE DEF t
  <2> QED
    BY <2>1, <2>2, <2>3
<1> HIDE DEF l, t, q, Old, New, Row
<1>11. Crossings(i)' = Crossings(i) \union Moved
  <2>1. ASSUME NEW n \in 1..Len(l)
        PROVE  (l \o t)[n] = l[n] /\ New(n - 1) = Old(n - 1) /\ New(n) = Old(n) /\ n \in 1..Len(l \o t)
    <3>1. n - 1 \in 0..Len(l) /\ n \in 0..Len(l) /\ n <= Len(l) /\ n \in 1..(Len(l) + Len(t))
      BY <1>3
    <3> QED
      BY <1>4, <1>5, <3>1
  <2>2. ASSUME NEW n \in 1..Len(t)
        PROVE  /\ (l \o t)[Len(l) + n] = t[n]
               /\ New((Len(l) + n) - 1) = Row(n - 1) /\ New(Len(l) + n) = Row(n)
               /\ Len(l) + n \in 1..Len(l \o t)
    <3>1. /\ n - 1 \in 0..Len(t) /\ n \in 0..Len(t) /\ ~ (Len(l) + n <= Len(l))
          /\ (Len(l) + n) - 1 = Len(l) + (n - 1) /\ (Len(l) + n) - Len(l) = n
          /\ Len(l) + n \in 1..(Len(l) + Len(t))
      BY <1>3
    <3> QED
      BY <1>4, <1>6, <3>1
  <2>3. ASSUME NEW n \in 1..Len(l \o t), n \notin 1..Len(l)
        PROVE  n - Len(l) \in 1..Len(t) /\ n = Len(l) + (n - Len(l))
    BY <1>3, <1>4, <2>3
  <2>4. Crossings(i) \subseteq Crossings(i)'
    BY <1>7, <1>8, <2>1
  <2>5. Moved \subseteq Crossings(i)'
    <3> SUFFICES ASSUME NEW n \in Crossed(c, i) PROVE Len(l) + n \in Crossings(i)'
      OBVIOUS
    <3>1. n \in 1..Len(t) /\ t[n].item = i /\ Crosses(t[n], Row(n - 1), Row(n))
      BY <1>9
    <3> QED
      BY <1>8, <2>2, <3>1
  <2>6. ASSUME NEW n \in Crossings(i)' PROVE n \in Crossings(i) \union Moved
    <3>1. /\ n \in 1..Len(l \o t) /\ (l \o t)[n].item = i
          /\ Crosses((l \o t)[n], New(n - 1), New(n))
      BY <1>8
    <3>2. CASE n \in 1..Len(l)
      BY <1>7, <2>1, <3>1, <3>2
    <3>3. CASE n \notin 1..Len(l)
      <4> DEFINE m == n - Len(l)
      <4>1. m \in 1..Len(t) /\ n = Len(l) + m
        BY <2>3, <3>1, <3>3
      <4> HIDE DEF m
      <4>2. m \in Crossed(c, i)
        BY <1>9, <2>2, <3>1, <4>1
      <4> QED
        BY <4>1, <4>2
    <3> QED
      BY <3>2, <3>3
  <2> QED
    BY <2>4, <2>5, <2>6
<1>12. Crossings(i) \cap Moved = {}
  <2> SUFFICES ASSUME NEW n \in Crossed(c, i), Len(l) + n \in Crossings(i) PROVE FALSE
    OBVIOUS
  <2>1. n \in 1..Len(t) /\ Len(l) + n \in 1..Len(l)
    BY <1>7, <1>9
  <2> QED
    BY <1>3, <2>1
<1>13. IsFiniteSet(Moved) /\ Cardinality(Moved) = Cardinality(Crossed(c, i))
  <2> DEFINE k == Len(l)
             S == Crossed(c, i)
  <2>1. k \in Int /\ S \in SUBSET Nat /\ IsFiniteSet(S)
    BY <1>3, <1>10
  <2> HIDE DEF k, S
  <2>2. IsFiniteSet({k + n : n \in S}) /\ Cardinality({k + n : n \in S}) = Cardinality(S)
    BY <2>1, ShiftedSize
  <2> QED
    BY <2>2 DEF k, S
<1> HIDE DEF Moved
<1>14. Cardinality(Crossings(i) \union Moved)
         = Cardinality(Crossings(i)) + Cardinality(Moved) - Cardinality(Crossings(i) \cap Moved)
  BY <1>10, <1>13, FS_Union
<1>15. Cardinality(Crossings(i) \cap Moved) = 0 /\ Cardinality(Crossings(i)) \in Nat /\ Cardinality(Moved) \in Nat
  BY <1>10, <1>12, <1>13, FS_EmptySet, FS_CardinalityType
<1> QED
  BY <1>11, <1>13, <1>14, <1>15

(* The hooks of a call still match its rows when neither they nor the stock of
   the items it moved change. *)
LEMMA OtherHooksMatch ==
    ASSUME NEW d \in Call, HooksMatch(d), rows'[d] = rows[d], hooks'[d] = hooks[d],
           \A i \in Item : (\E n \in 1..Len(rows[d]) : rows[d][n].item = i) => committed'[i] = committed[i]
    PROVE  HooksMatch(d)'
<1> SUFFICES ASSUME NEW i \in Item PROVE Crossed(d, i)' = Crossed(d, i)
  BY DEF HooksMatch
<1>1. CASE committed'[i] = committed[i]
  BY <1>1 DEF Crossed, From
<1>2. CASE committed'[i] # committed[i]
  BY <1>2 DEF Crossed
<1> QED
  BY <1>1, <1>2

(* Begin has no rows and no hooks. *)
LEMMA BeginHooksMatch ==
    ASSUME BookIInv, HooksMatchRows, NEW c \in Call, NEW p \in Plans, Begin(c, p)
    PROVE  HooksMatchRows'
<1> USE DEF BookIInv, IInv
<1> SUFFICES ASSUME NEW d \in Call, Open(d)' PROVE HooksMatch(d)'
  BY DEF HooksMatchRows
<1>1. rows' = rows /\ hooks' = hooks /\ committed' = committed
  BY DEF Begin, items
<1>2. CASE d = c
  <2>1. rows[c] = <<>> /\ hooks[c] = <<>>
    BY DEF Begin, NewHasNothing
  <2>2. Len(<<>>) = 0 /\ \A n : n \notin 1..0
    OBVIOUS
  <2>3. \A i \in Item : PlacesOf(hooks[c], i)' = {} /\ Crossed(c, i)' = {}
    BY <1>1, <2>1, <2>2 DEF PlacesOf, Crossed
  <2> QED
    BY <1>1, <1>2, <2>3 DEF HooksMatch
<1>3. CASE d # c
  <2>1. Open(d)
    BY <1>3 DEF Begin, Open, TypeOK
  <2> QED
    BY <1>1, <2>1, OtherHooksMatch DEF HooksMatchRows
<1> QED
  BY <1>2, <1>3

(* Write adds a crossing exactly when it registers the hook. *)
LEMMA WriteCrosses ==
    ASSUME BookIInv, IInv', NEW c \in Call, Write(c), NEW i \in Item
    PROVE  Cardinality(Crossed(c, i)') = Cardinality(Crossed(c, i))
             + IF Current(c).item = i /\ Crosses(Current(c), read[c], NextQuantity(c)) THEN 1 ELSE 0
<1> USE LedgerAssumption DEF BookIInv, IInv
<1> DEFINE m == Current(c)
           s == rows[c]
           r == Append(s, m)
           k == Len(s)
           q == committed[i]
           a == NextQuantity(c)
           b == read[c]
           Before(n) == Book!StockFrom(q, s, i, n)
           After(n) == Book!StockFrom(q, r, i, n)
           X == Crossed(c, i)
           Y == {n \in 1..Len(r) : r[n].item = i /\ Crosses(r[n], After(n - 1), After(n))}
<1>1. RowsLead(c) /\ m \in Movement
  BY CurrentIsMovement DEF Write, ReadHasMore, OpenRowsLead, Open
<1>2. s \in Seq(Movement) /\ q \in Nat /\ q \in Int
  BY DEF TypeOK
<1>3. b = written[m.item] /\ lock[m.item] = c /\ a = b + Delta(m)
  BY DEF Write, NoLostUpdate, NextQuantity
<1>4. m.item = i => b = Before(k)
  BY <1>1, <1>3 DEF RowsLead, From
<1>5. rows'[c] = r /\ committed' = committed
  BY DEF Write, StoredRow, TypeOK
<1>6. Crossed(c, i)' = Y
  BY <1>5 DEF Crossed, From
<1>7. X = {n \in 1..k : s[n].item = i /\ Crosses(s[n], Before(n - 1), Before(n))}
  BY DEF Crossed, From
<1>8. IsFiniteSet(X) /\ Cardinality(X) \in Nat
  BY CrossedFinite
<1> HIDE DEF m, s, q, a, b, X
<1>9. k \in Nat
  BY <1>2, LenProperties
<1>10. r \in Seq(Movement) /\ Len(r) = k + 1 /\ r[k + 1] = m /\ \A n \in 1..k : r[n] = s[n]
  BY <1>1, <1>2, AppendProperties
<1> HIDE DEF r
<1>11. \A n \in 0..k : After(n) = Before(n)
  <2>1. k <= Len(s) /\ k <= Len(r) /\ \A n \in 1..k : s[n] = r[n]
    BY <1>9, <1>10
  <2> HIDE DEF k
  <2> QED
    BY <1>2, <1>9, <1>10, <2>1, StockFromPrefix
<1>12. After(k + 1) = IF m.item = i THEN After(k) + Delta(m) ELSE After(k)
  <2>1. Adds(q, r, i)
    BY <1>2, <1>10, StockFromStep
  <2>2. k + 1 \in 1..Len(r) /\ (k + 1) - 1 = k
    BY <1>9, <1>10
  <2> QED
    BY <1>10, <2>1, <2>2 DEF Adds
<1> HIDE DEF k, Before, After
<1>13. m.item = i => After((k + 1) - 1) = b /\ After(k + 1) = a
  <2>1. (k + 1) - 1 = k /\ k \in 0..k
    BY <1>9
  <2> QED
    BY <1>3, <1>4, <1>11, <1>12, <2>1
<1>14. ASSUME NEW n \in 1..k
       PROVE  /\ r[n] = s[n] /\ After(n - 1) = Before(n - 1) /\ After(n) = Before(n)
              /\ n \in 1..Len(r) /\ n # k + 1
  <2>1. n - 1 \in 0..k /\ n \in 0..k /\ n \in 1..(k + 1) /\ n # k + 1
    BY <1>9
  <2> QED
    BY <1>10, <1>11, <2>1
<1>15. \A n \in 1..Len(r) : n \in 1..k \/ n = k + 1
  BY <1>9, <1>10
<1>16. k + 1 \in 1..Len(r) /\ k + 1 \notin 1..k
  BY <1>9, <1>10
<1>17. CASE m.item = i /\ Crosses(m, b, a)
  <2>1. k + 1 \notin X /\ X \subseteq 1..k
    BY <1>7, <1>16
  <2>2. k + 1 \in Y
    BY <1>10, <1>13, <1>16, <1>17
  <2>3. \A n \in 1..k : n \in Y <=> n \in X
    BY <1>7, <1>14
  <2>4. Y \subseteq 1..Len(r)
    OBVIOUS
  <2> HIDE DEF Y
  <2>5. Y = X \union {k + 1}
    BY <1>15, <2>1, <2>2, <2>3, <2>4
  <2>6. Cardinality(Y) = Cardinality(X) + 1
    BY <1>8, <2>1, <2>5, FS_AddElement
  <2> QED
    BY <1>6, <1>17, <2>6 DEF m, a, b, X
<1>18. CASE ~ (m.item = i /\ Crosses(m, b, a))
  <2>1. X \subseteq 1..k
    BY <1>7
  <2>2. k + 1 \notin Y
    BY <1>10, <1>13, <1>18
  <2>3. \A n \in 1..k : n \in Y <=> n \in X
    BY <1>7, <1>14
  <2>4. Y \subseteq 1..Len(r)
    OBVIOUS
  <2> HIDE DEF Y
  <2>5. Y = X
    BY <1>15, <2>1, <2>2, <2>3, <2>4
  <2> QED
    BY <1>6, <1>8, <1>18, <2>5 DEF m, a, b, X
<1> QED
  BY <1>17, <1>18

LEMMA WriteHooksMatch ==
    ASSUME BookIInv, IInv', HooksMatchRows, NEW c \in Call, Write(c)
    PROVE  HooksMatchRows'
<1> USE DEF BookIInv, IInv
<1> SUFFICES ASSUME NEW d \in Call, Open(d)' PROVE HooksMatch(d)'
  BY DEF HooksMatchRows
<1> DEFINE m == Current(c)
           crosses == Crosses(m, read[c], NextQuantity(c))
<1>1. CASE d = c
  <2> SUFFICES ASSUME NEW i \in Item
               PROVE  Cardinality(PlacesOf(hooks'[c], i)) = Cardinality(Crossed(c, i)')
    BY <1>1 DEF HooksMatch
  <2>1. Cardinality(PlacesOf(hooks[c], i)) = Cardinality(Crossed(c, i))
    BY DEF Write, Open, HooksMatchRows, HooksMatch
  <2>2. Cardinality(Crossed(c, i)') = Cardinality(Crossed(c, i)) + IF m.item = i /\ crosses THEN 1 ELSE 0
    BY WriteCrosses
  <2>3. hooks'[c] = (IF crosses THEN Append(hooks[c], m.item) ELSE hooks[c]) /\ hooks[c] \in Seq(Item)
    BY DEF Write, TypeOK
  <2>4. m.item \in Item
    BY CurrentIsMovement DEF Write, ReadHasMore, Movement
  <2>5. Cardinality(Crossed(c, i)) \in Nat
    BY CrossedFinite
  <2> HIDE DEF m, crosses
  <2>6. CASE crosses
    <3> DEFINE j == m.item
               h == hooks[c]
    <3>1. j \in Item /\ h \in Seq(Item)
      BY <2>3, <2>4
    <3> HIDE DEF j, h
    <3>2. Cardinality(PlacesOf(Append(h, j), i)) = Cardinality(PlacesOf(h, i)) + IF j = i THEN 1 ELSE 0
      BY <3>1, PlacesOfAppend
    <3> QED
      BY <2>1, <2>2, <2>3, <2>6, <3>2 DEF j, h
  <2>7. CASE ~ crosses
    BY <2>1, <2>2, <2>3, <2>5, <2>7
  <2> QED
    BY <2>6, <2>7
<1>2. CASE d # c
  <2>1. Open(d) /\ rows'[d] = rows[d] /\ hooks'[d] = hooks[d] /\ committed' = committed
    BY <1>2 DEF Write, Open, TypeOK
  <2> QED
    BY <2>1, OtherHooksMatch DEF HooksMatchRows
<1> QED
  BY <1>1, <1>2

(* Any other step of a call: what it leaves open keeps its rows and hooks, and
   the stock of the items those rows moved. *)
LEMMA QuietHooksMatch ==
    ASSUME HooksMatchRows,
           \A d \in Call : Open(d)' =>
               /\ Open(d) /\ rows'[d] = rows[d] /\ hooks'[d] = hooks[d]
               /\ \A n \in 1..Len(rows[d]) : committed'[rows[d][n].item] = committed[rows[d][n].item]
    PROVE  HooksMatchRows'
<1> SUFFICES ASSUME NEW d \in Call, Open(d)' PROVE HooksMatch(d)'
  BY DEF HooksMatchRows
<1>1. HooksMatch(d) /\ rows'[d] = rows[d] /\ hooks'[d] = hooks[d]
  BY DEF HooksMatchRows
<1>2. \A i \in Item : (\E n \in 1..Len(rows[d]) : rows[d][n].item = i) => committed'[i] = committed[i]
  OBVIOUS
<1> QED
  BY <1>1, <1>2, OtherHooksMatch

LEMMA CommitHooksMatch ==
    ASSUME BookIInv, HooksMatchRows, NEW c \in Call, Commit(c)
    PROVE  HooksMatchRows'
<1> USE LedgerAssumption DEF BookIInv, IInv
<1>1. ASSUME NEW d \in Call, Open(d)'
      PROVE  /\ Open(d) /\ rows'[d] = rows[d] /\ hooks'[d] = hooks[d]
             /\ \A n \in 1..Len(rows[d]) : committed'[rows[d][n].item] = committed[rows[d][n].item]
  <2>1. d # c /\ Open(d) /\ rows' = rows /\ hooks' = hooks
    BY <1>1 DEF Commit, Open, TypeOK
  <2>2. \A n \in 1..Len(rows[d]) : lock[rows[d][n].item] = d
    BY <2>1 DEF OpenRowsLead, RowsLead
  <2>3. \A n \in 1..Len(rows[d]) : rows[d][n].item \in Item
    <3>1. rows[d] \in Seq(Movement)
      BY DEF TypeOK
    <3>2. \A n \in 1..Len(rows[d]) : rows[d][n] \in Movement
      BY <3>1, ElementOfSeq
    <3> QED
      BY <3>2 DEF Movement
  <2>4. \A i \in Item : lock[i] # c => committed'[i] = committed[i]
    BY DEF Commit, Held, TypeOK
  <2> QED
    BY <2>1, <2>2, <2>3, <2>4
<1> QED
  BY <1>1, QuietHooksMatch

(* After a commit the hooks of the call are pending and its crossings are in
   the ledger. *)
LEMMA CommitAlertsMatch ==
    ASSUME AlertIInv, IInv', NEW c \in Call, Commit(c)
    PROVE  AlertsMatchCrossings'
<1> USE DEF AlertIInv, BookIInv, IInv
<1> SUFFICES ASSUME NEW i \in Item
             PROVE  LET told == alerts'[i] + Cardinality(PendingAlerts(i)') IN
                        /\ told <= Cardinality(Crossings(i)')
                        /\ faults' = 0 => told = Cardinality(Crossings(i)')
  BY DEF AlertsMatchCrossings
<1>1. /\ alerts' = alerts /\ faults' = faults /\ hooks' = hooks
      /\ pc[c] = "running" /\ pc'[c] = IF hooks[c] = <<>> THEN "done" ELSE "committed"
      /\ \A d \in Call \ {c} : pc'[d] = pc[d]
  BY DEF Commit, TypeOK
<1>2. /\ Cardinality(PendingAlerts(i)) \in Nat /\ Cardinality(PendingAlerts(i)') \in Nat
      /\ Cardinality(PendingAlerts(i)') + Cardinality(PendingOf(c, i))
           = Cardinality(PendingAlerts(i)) + Cardinality(PendingOf(c, i)')
  BY <1>1, PendingChange
<1>3. PendingOf(c, i) = {} /\ Cardinality({}) = 0
  BY <1>1, FS_EmptySet DEF PendingOf
<1>4. PendingOf(c, i)' = PlacesOf(hooks[c], i)
  <2>1. CASE hooks[c] = <<>>
    <3>1. PlacesOf(<<>>, i) = {}
      BY DEF PlacesOf
    <3> QED
      BY <1>1, <2>1, <3>1 DEF PendingOf
  <2>2. CASE hooks[c] # <<>>
    BY <1>1, <2>2 DEF PendingOf
  <2> QED
    BY <2>1, <2>2
<1>5. Cardinality(PlacesOf(hooks[c], i)) = Cardinality(Crossed(c, i)) /\ Cardinality(Crossed(c, i)) \in Nat
  BY <1>1, CrossedFinite DEF HooksMatchRows, HooksMatch, Open
<1>6. Cardinality(Crossings(i)') = Cardinality(Crossings(i)) + Cardinality(Crossed(c, i))
  BY CommitCrosses
<1>7. alerts[i] \in Nat /\ Cardinality(Crossings(i)) \in Nat
  BY CrossingsFinite DEF TypeOK
<1>8. /\ alerts[i] + Cardinality(PendingAlerts(i)) <= Cardinality(Crossings(i))
      /\ faults = 0 => alerts[i] + Cardinality(PendingAlerts(i)) = Cardinality(Crossings(i))
  BY DEF AlertsMatchCrossings
<1>9. Cardinality(PendingAlerts(i)') = Cardinality(PendingAlerts(i)) + Cardinality(Crossed(c, i))
  BY <1>2, <1>3, <1>4, <1>5
<1> QED
  BY <1>1, <1>2, <1>5, <1>6, <1>7, <1>8, <1>9

LEMMA InitAlertIInv == Init => AlertIInv
<1> SUFFICES ASSUME Init PROVE AlertIInv
  OBVIOUS
<1>1. BookIInv
  BY InitBookIInv
<1>2. HooksMatchRows
  BY DEF Init, HooksMatchRows, Open
<1>3. AlertsMatchCrossings
  <2> SUFFICES ASSUME NEW i \in Item PROVE PendingAlerts(i) = {} /\ Crossings(i) = {} /\ alerts[i] = 0
    BY FS_EmptySet DEF AlertsMatchCrossings
  <2>1. PendingAlerts(i) = {} /\ alerts[i] = 0
    BY DEF Init, PendingAlerts
  <2>2. Len(ledger) = NumItems
    <3>1. ledger \in Seq(Movement)
      BY <1>1 DEF BookIInv, IInv, TypeOK
    <3>2. NumItems \in Nat /\ DOMAIN ledger = 1..NumItems
      BY LedgerAssumption DEF Init, Item
    <3> QED
      BY <3>1, <3>2, LenProperties
  <2>3. \A n \in 1..Len(ledger) : ledger[n].kind = "STOCK_IN"
    BY <2>2 DEF Init, Item
  <2> QED
    BY <2>1, <2>3 DEF Crossings, Crosses
<1> QED
  BY <1>1, <1>2, <1>3 DEF AlertIInv

LEMMA NonePending ==
    ASSUME NEW c \in Call, NEW i \in Item, PendingOf(c, i) = {}, PendingOf(c, i)' = {}
    PROVE  /\ Cardinality(PendingOf(c, i)') = Cardinality(PendingOf(c, i))
           /\ Cardinality(PendingOf(c, i)') <= Cardinality(PendingOf(c, i))
<1>1. Cardinality({}) = 0
  BY FS_EmptySet
<1>2. Cardinality(PendingOf(c, i)') = 0 /\ Cardinality(PendingOf(c, i)) = 0
  BY <1>1
<1> QED
  BY <1>2

(* Every step keeps the alerts and the hooks of the open calls with the ledger. *)
LEMMA NextAlertIInv == AlertIInv /\ [Next]_vars => AlertIInv'
<1> SUFFICES ASSUME AlertIInv, [Next]_vars PROVE AlertIInv'
  OBVIOUS
<1> USE LedgerAssumption DEF AlertIInv
<1>1. BookIInv'
  BY NextBookIInv
<1>2. TypeOK /\ TypeOK' /\ IInv /\ IInv' /\ BookIInv
  BY <1>1 DEF BookIInv, IInv
<1>3. ASSUME NEW c \in Call, Open(c), Rollback(c), UNCHANGED faults \/ faults' = faults + 1
      PROVE  HooksMatchRows' /\ AlertsMatchCrossings'
  <2>1. /\ pc' = [pc EXCEPT ![c] = "refused"]
        /\ rows' = [rows EXCEPT ![c] = <<>>] /\ hooks' = [hooks EXCEPT ![c] = <<>>]
        /\ UNCHANGED <<committed, ledger, alerts>>
    BY <1>3 DEF Rollback
  <2>2. HooksMatchRows'
    <3>1. ASSUME NEW d \in Call, Open(d)'
          PROVE  /\ Open(d) /\ rows'[d] = rows[d] /\ hooks'[d] = hooks[d] /\ committed' = committed
      BY <1>2, <2>1, <3>1 DEF Open, TypeOK
    <3> QED
      BY <3>1, QuietHooksMatch
  <2>3. faults \in Nat /\ (faults' = 0 => faults = 0)
    BY <1>2, <1>3 DEF TypeOK
  <2>4. \A i \in Item : PendingOf(c, i) = {} /\ PendingOf(c, i)' = {}
    BY <1>2, <1>3, <2>1 DEF PendingOf, Open, TypeOK
  <2>5. \A i \in Item : /\ Cardinality(PendingOf(c, i)') = Cardinality(PendingOf(c, i))
                       /\ Cardinality(PendingOf(c, i)') <= Cardinality(PendingOf(c, i))
    BY <2>4, NonePending
  <2>6. \A d \in Call \ {c} : pc'[d] = pc[d] /\ hooks'[d] = hooks[d]
    BY <1>2, <2>1 DEF TypeOK
  <2> QED
    BY <1>2, <2>1, <2>2, <2>3, <2>5, <2>6, QuietAlerts
<1>4. ASSUME NEW c \in Call, NEW p \in Plans, Begin(c, p)
      PROVE  HooksMatchRows' /\ AlertsMatchCrossings'
  <2>1. HooksMatchRows'
    BY <1>2, <1>4, BeginHooksMatch
  <2>2. /\ pc[c] = "new" /\ pc'[c] = "running" /\ UNCHANGED <<hooks, ledger, alerts, faults>>
        /\ \A d \in Call \ {c} : pc'[d] = pc[d] /\ hooks'[d] = hooks[d]
    BY <1>2, <1>4 DEF Begin, TypeOK
  <2>3. \A i \in Item : PendingOf(c, i) = {} /\ PendingOf(c, i)' = {}
    BY <2>2 DEF PendingOf
  <2>4. \A i \in Item : /\ Cardinality(PendingOf(c, i)') = Cardinality(PendingOf(c, i))
                       /\ Cardinality(PendingOf(c, i)') <= Cardinality(PendingOf(c, i))
    BY <2>3, NonePending
  <2> QED
    BY <1>2, <2>1, <2>2, <2>4, QuietAlerts
<1>5. ASSUME NEW c \in Call, LockAndRead(c)
      PROVE  HooksMatchRows' /\ AlertsMatchCrossings'
  <2>1. /\ pc[c] = "running" /\ pc' = [pc EXCEPT ![c] = "read"]
        /\ UNCHANGED <<rows, hooks, committed, ledger, alerts, faults>>
    BY <1>5 DEF LockAndRead
  <2>2. HooksMatchRows'
    <3>1. \A d \in Call : Open(d)' => Open(d)
      BY <1>2, <2>1 DEF Open, TypeOK
    <3> QED
      BY <2>1, <3>1, QuietHooksMatch
  <2>3. \A d \in Call \ {c} : pc'[d] = pc[d] /\ hooks'[d] = hooks[d]
    BY <1>2, <2>1 DEF TypeOK
  <2>4. \A i \in Item : PendingOf(c, i) = {} /\ PendingOf(c, i)' = {}
    BY <1>2, <2>1 DEF PendingOf, TypeOK
  <2>5. \A i \in Item : /\ Cardinality(PendingOf(c, i)') = Cardinality(PendingOf(c, i))
                       /\ Cardinality(PendingOf(c, i)') <= Cardinality(PendingOf(c, i))
    BY <2>4, NonePending
  <2> QED
    BY <1>2, <2>1, <2>2, <2>3, <2>5, QuietAlerts
<1>6. ASSUME NEW c \in Call, Write(c)
      PROVE  HooksMatchRows' /\ AlertsMatchCrossings'
  <2>1. HooksMatchRows'
    BY <1>2, <1>6, WriteHooksMatch
  <2>2. /\ pc[c] = "read" /\ pc'[c] = "running" /\ UNCHANGED <<ledger, alerts, faults>>
        /\ \A d \in Call \ {c} : pc'[d] = pc[d] /\ hooks'[d] = hooks[d]
    BY <1>2, <1>6 DEF Write, TypeOK
  <2>3. \A i \in Item : PendingOf(c, i) = {} /\ PendingOf(c, i)' = {}
    BY <2>2 DEF PendingOf
  <2>4. \A i \in Item : /\ Cardinality(PendingOf(c, i)') = Cardinality(PendingOf(c, i))
                       /\ Cardinality(PendingOf(c, i)') <= Cardinality(PendingOf(c, i))
    BY <2>3, NonePending
  <2> QED
    BY <1>2, <2>1, <2>2, <2>4, QuietAlerts
<1>7. ASSUME NEW c \in Call, Commit(c)
      PROVE  HooksMatchRows' /\ AlertsMatchCrossings'
  BY <1>2, <1>7, CommitHooksMatch, CommitAlertsMatch
<1>8. ASSUME NEW c \in Call, PublishAlert(c)
      PROVE  HooksMatchRows' /\ AlertsMatchCrossings'
  <2>1. pc[c] = "committed" /\ UNCHANGED <<rows, committed>>
        /\ (\A d \in Call : Open(d)' => d # c /\ Open(d))
        /\ (\A d \in Call : d # c => hooks'[d] = hooks[d])
    BY <1>2, <1>8 DEF PublishAlert, NextHook, Open, TypeOK, items
  <2>2. HooksMatchRows'
    BY <2>1, QuietHooksMatch
  <2> QED
    BY <1>2, <1>8, <2>2, PublishAlertMatches
<1>9. ASSUME NEW c \in Call, Fault, pc[c] = "committed", UNCHANGED <<rows, committed, ledger, alerts>>,
             \A d \in Call \ {c} : pc'[d] = pc[d] /\ hooks'[d] = hooks[d],
             ~ Open(c)',
             \A i \in Item : Cardinality(PendingOf(c, i)') <= Cardinality(PendingOf(c, i))
      PROVE  HooksMatchRows' /\ AlertsMatchCrossings'
  <2>1. HooksMatchRows'
    <3>1. ASSUME NEW d \in Call, Open(d)' PROVE d # c /\ Open(d)
      BY <1>9, <3>1 DEF Open
    <3> QED
      BY <1>9, <3>1, QuietHooksMatch
  <2>2. faults' # 0
    BY <1>2, <1>9 DEF Fault, TypeOK
  <2> QED
    BY <1>2, <1>9, <2>1, <2>2, QuietAlerts
<1>10. ASSUME NEW c \in Call, PublishFails(c)
       PROVE  HooksMatchRows' /\ AlertsMatchCrossings'
  <2> DEFINE h == hooks[c]
  <2>1. /\ Fault /\ pc[c] = "committed" /\ UNCHANGED <<rows, committed, ledger, alerts>>
        /\ hooks'[c] = Tail(h) /\ h \in Seq(Item) /\ h # <<>>
        /\ pc'[c] \in {"done", "committed"}
        /\ \A d \in Call \ {c} : pc'[d] = pc[d] /\ hooks'[d] = hooks[d]
    BY <1>2, <1>10 DEF PublishFails, NextHook, TypeOK, items, IInv, HooksPending
  <2>2. ASSUME NEW i \in Item
        PROVE  Cardinality(PendingOf(c, i)') <= Cardinality(PendingOf(c, i))
    <3>1. PendingOf(c, i) = PlacesOf(h, i)
      BY <2>1 DEF PendingOf
    <3>2. PendingOf(c, i)' = PlacesOf(Tail(h), i) \/ PendingOf(c, i)' = {}
      BY <2>1 DEF PendingOf
    <3> HIDE DEF h
    <3>3. /\ Cardinality(PlacesOf(Tail(h), i))
               = IF Head(h) = i THEN Cardinality(PlacesOf(h, i)) - 1 ELSE Cardinality(PlacesOf(h, i))
          /\ Cardinality(PlacesOf(h, i)) \in Nat
      BY <2>1, PlacesOfTail, PlacesFinite
    <3>4. Cardinality({}) = 0
      BY FS_EmptySet
    <3>5. CASE PendingOf(c, i)' = {}
      BY <3>1, <3>3, <3>4, <3>5
    <3>6. CASE PendingOf(c, i)' = PlacesOf(Tail(h), i)
      BY <3>1, <3>3, <3>6
    <3> QED
      BY <3>2, <3>5, <3>6
  <2> QED
    BY <1>9, <2>1, <2>2 DEF Open
<1>11. ASSUME NEW c \in Call, Crash(c)
       PROVE  HooksMatchRows' /\ AlertsMatchCrossings'
  <2>1. CASE Open(c) /\ Rollback(c)
    BY <1>3, <1>11, <2>1 DEF Crash, Fault
  <2>2. CASE ~ (Open(c) /\ Rollback(c))
    <3>1. /\ Fault /\ pc[c] = "committed" /\ pc'[c] = "done"
          /\ UNCHANGED <<rows, committed, ledger, alerts>>
          /\ \A d \in Call \ {c} : pc'[d] = pc[d] /\ hooks'[d] = hooks[d]
      BY <1>2, <1>11, <2>2 DEF Crash, TypeOK, items
    <3>2. ASSUME NEW i \in Item
          PROVE  Cardinality(PendingOf(c, i)') <= Cardinality(PendingOf(c, i))
      <4>1. PendingOf(c, i)' = {} /\ PendingOf(c, i) = PlacesOf(hooks[c], i)
        BY <3>1 DEF PendingOf
      <4>2. hooks[c] \in Seq(Item)
        BY <1>2 DEF TypeOK
      <4>3. Cardinality(PlacesOf(hooks[c], i)) \in Nat
        BY <4>2, PlacesFinite
      <4> QED
        BY <4>1, <4>3, FS_EmptySet
    <3> QED
      BY <1>9, <3>1, <3>2 DEF Open
  <2> QED
    BY <2>1, <2>2
<1>12. CASE \E i \in Item : SetActive(i)
  <2>1. /\ UNCHANGED <<committed, ledger, alerts, calls>>
        /\ faults \in Nat /\ (faults' = 0 => faults = 0)
    BY <1>2, <1>12 DEF SetActive, Fault, TypeOK
  <2>2. HooksMatchRows'
    BY <2>1, QuietHooksMatch DEF Open, calls
  <2>3. ASSUME NEW i \in Item PROVE PendingAlerts(i)' = PendingAlerts(i) /\ Crossings(i)' = Crossings(i)
    BY <2>1 DEF PendingAlerts, Crossings, LedgerQuantity, calls
  <2>4. AlertsMatchCrossings'
    <3> SUFFICES ASSUME NEW i \in Item
                 PROVE  LET told == alerts'[i] + Cardinality(PendingAlerts(i)') IN
                            /\ told <= Cardinality(Crossings(i)')
                            /\ faults' = 0 => told = Cardinality(Crossings(i)')
      BY DEF AlertsMatchCrossings
    <3>1. /\ alerts[i] + Cardinality(PendingAlerts(i)) <= Cardinality(Crossings(i))
          /\ faults = 0 => alerts[i] + Cardinality(PendingAlerts(i)) = Cardinality(Crossings(i))
      BY DEF AlertsMatchCrossings
    <3> QED
      BY <2>1, <2>3, <3>1
  <2> QED
    BY <1>1, <2>2, <2>4
<1>13. CASE UNCHANGED vars
  <2>1. UNCHANGED <<committed, ledger, alerts, calls, faults>>
    BY <1>13 DEF vars, items
  <2>2. HooksMatchRows'
    BY <2>1, QuietHooksMatch DEF Open, calls
  <2>3. ASSUME NEW i \in Item PROVE PendingAlerts(i)' = PendingAlerts(i) /\ Crossings(i)' = Crossings(i)
    BY <2>1 DEF PendingAlerts, Crossings, LedgerQuantity, calls
  <2>4. AlertsMatchCrossings'
    <3> SUFFICES ASSUME NEW i \in Item
                 PROVE  LET told == alerts'[i] + Cardinality(PendingAlerts(i)') IN
                            /\ told <= Cardinality(Crossings(i)')
                            /\ faults' = 0 => told = Cardinality(Crossings(i)')
      BY DEF AlertsMatchCrossings
    <3>1. /\ alerts[i] + Cardinality(PendingAlerts(i)) <= Cardinality(Crossings(i))
          /\ faults = 0 => alerts[i] + Cardinality(PendingAlerts(i)) = Cardinality(Crossings(i))
      BY DEF AlertsMatchCrossings
    <3> QED
      BY <2>1, <2>3, <3>1
  <2> QED
    BY <1>1, <2>2, <2>4
<1>14. ASSUME NEW c \in Call, Refuse(c) \/ DeadlockDetected(c)
       PROVE  HooksMatchRows' /\ AlertsMatchCrossings'
  BY <1>3, <1>14 DEF Refuse, DeadlockDetected, Waiting, Open
<1>15. HooksMatchRows' /\ AlertsMatchCrossings'
  BY <1>4, <1>5, <1>6, <1>7, <1>8, <1>10, <1>11, <1>12, <1>13, <1>14 DEF Next, Step
<1> QED
  BY <1>1, <1>15

(* AlertsMatchCrossings, for every instance: the low-stock alerts published and
   still to publish are at most the rows of the committed ledger that take their
   item below its threshold, and exactly as many when nothing failed. *)
THEOREM LedgerAlertsMatch == Spec => []AlertsMatchCrossings
<1>1. AlertIInv => AlertsMatchCrossings
  BY DEF AlertIInv
<1> QED
  BY <1>1, InitAlertIInv, NextAlertIInv, PTL DEF Spec

-----------------------------------------------------------------------------
(* The completion's names for the size of a set and the stock of an item. *)
LEMMA SameSizes ==
    /\ \A S : Completion!Cardinality(S) = Cardinality(S)
    /\ \A S : Completion!IsFiniteSet(S) <=> IsFiniteSet(S)
<1>1. ASSUME NEW S PROVE Completion!Cardinality(S) = Cardinality(S)
  BY DEF Completion!Cardinality, Cardinality
<1>2. ASSUME NEW S PROVE Completion!IsFiniteSet(S) <=> IsFiniteSet(S)
  BY DEF Completion!IsFiniteSet, IsFiniteSet
<1> QED
  BY <1>1, <1>2

LEMMA SameStock ==
    ASSUME NEW q, NEW s, NEW i, NEW n
    PROVE  Completion!Book!StockFrom(q, s, i, n) = Book!StockFrom(q, s, i, n)
BY DEF Completion!Book!StockFrom, Completion!Book!Change, Book!StockFrom, Book!Change

(* Rows of the book: the opening ones, then lines of tasks. *)
BookRow == [item : 1..NumItems, kind : {"STOCK_IN"}, quantity : Nat] \union Completion!Line

RowsOf(b, t) == {n \in (NumItems + 1)..Len(b) : b[n].task = t}

BookTyped ==
    /\ book \in Seq(BookRow)
    /\ NumItems <= Len(book)

BusyHasTask == \A c \in Completer : completionPc[c] # "idle" <=> job[c] \in Task

OnlyPublishing == \A c \in Completer : completionPc[c] # "publishing" => toPublish[c] = 0

LinesComeOnce ==
    \A t \in Task :
        /\ row[t] = "absent" => lines[t] = <<>> /\ t \notin creating /\ Completion!Movements(t) = 0
        /\ t \in creating => lines[t] = <<>>

OneAtATime == \A c, d \in Completer : completionPc[c] # "idle" /\ completionPc[d] # "idle" => c = d

(* A task that moved stock: its lines are not to come any more, and it is open
   only after its lines were deleted to remove it. *)
MovedOnce(t) ==
    /\ Completion!Movements(t) <= Len(LinesOf[t])
    /\ Completion!Movements(t) > 0 =>
          /\ t \notin creating
          /\ lines[t] = <<>> => t \in removing \/ row[t] = "removed"
          /\ row[t] = "open" => lines[t] = <<>>
          /\ \A c \in Completer : job[c] = t /\ completionPc[c] \in {"read", "transaction", "reopenable"} => lines[t] = <<>>

SerialMovesOnce == ~ overlapped => OneAtATime /\ \A t \in Task : MovedOnce(t)

TaskIInv ==
    /\ Completion!TypeOK
    /\ BookTyped
    /\ BusyHasTask
    /\ OnlyPublishing
    /\ LinesComeOnce
    /\ SerialMovesOnce
    /\ Completion!PushesMatchMovements

LEMMA LineFacts ==
    ASSUME NEW t \in Task
    PROVE  /\ LinesOf[t] \in Seq(Completion!Line) /\ Len(LinesOf[t]) \in Nat
           /\ \A n \in 1..Len(LinesOf[t]) : LinesOf[t][n].task = t
<1>1. LinesOf[t] \in Seq(Completion!Line)
  BY CompletionAssumption, SameSizes DEF Completion!TaskAssumption
<1>2. Len(LinesOf[t]) \in Nat /\ DOMAIN LinesOf[t] = 1..Len(LinesOf[t])
  BY <1>1, LenProperties
<1> QED
  BY <1>1, <1>2, CompletionAssumption, SameSizes DEF Completion!TaskAssumption

LEMMA RowsFinite ==
    ASSUME NEW b \in Seq(BookRow), NEW t
    PROVE  IsFiniteSet(RowsOf(b, t)) /\ Cardinality(RowsOf(b, t)) \in Nat
<1>1. Len(b) \in Nat
  BY LenProperties
<1>2. NumItems + 1 \in Int
  BY CompletionAssumption, SameSizes DEF Completion!TaskAssumption
<1>3. IsFiniteSet((NumItems + 1)..Len(b)) /\ RowsOf(b, t) \subseteq (NumItems + 1)..Len(b)
  BY <1>1, <1>2, FS_Interval DEF RowsOf
<1>4. IsFiniteSet(RowsOf(b, t))
  BY <1>3, FS_Subset
<1> QED
  BY <1>4, FS_CardinalityType

(* Booking lines of a task adds them to its movements, and to no other's. *)
LEMMA BookedRows ==
    ASSUME BookTyped, NEW p \in Seq(Completion!Line), NEW u, \A n \in 1..Len(p) : p[n].task = u, NEW t
    PROVE  /\ Cardinality(RowsOf(book \o p, t)) = Cardinality(RowsOf(book, t)) + IF t = u THEN Len(p) ELSE 0
           /\ book \o p \in Seq(BookRow)
           /\ NumItems <= Len(book \o p)
<1> DEFINE b == book
           r == b \o p
           Moved == {Len(b) + n : n \in 1..Len(p)}
<1>1. b \in Seq(BookRow) /\ p \in Seq(BookRow) /\ NumItems <= Len(b) /\ NumItems \in Nat
  <2>1. \A n \in 1..Len(p) : p[n] \in BookRow
    BY ElementOfSeq DEF BookRow
  <2>2. Len(p) \in Nat /\ DOMAIN p = 1..Len(p) /\ p \in [1..Len(p) -> Completion!Line]
    BY LenProperties, SeqDef
  <2>3. p \in [1..Len(p) -> BookRow]
    BY <2>1, <2>2
  <2>4. p \in Seq(BookRow)
    BY <2>2, <2>3, SeqDef
  <2>5. book \in Seq(BookRow) /\ NumItems <= Len(book)
    BY DEF BookTyped
  <2>6. NumItems \in Nat
    BY CompletionAssumption DEF Completion!TaskAssumption
  <2> QED
    BY <2>4, <2>5, <2>6
<1>2. Len(b) \in Nat /\ Len(p) \in Nat
  BY <1>1, LenProperties
<1> HIDE DEF b
<1>3. /\ r \in Seq(BookRow) /\ Len(r) = Len(b) + Len(p)
      /\ \A n \in 1..(Len(b) + Len(p)) : r[n] = IF n <= Len(b) THEN b[n] ELSE p[n - Len(b)]
  BY <1>1, ConcatProperties
<1>4. IsFiniteSet(RowsOf(b, t)) /\ Cardinality(RowsOf(b, t)) \in Nat
  BY <1>1, RowsFinite
<1>5. IsFiniteSet(Moved) /\ Cardinality(Moved) = Len(p)
  <2> DEFINE S == 1..Len(p)
             k == Len(b)
  <2>1. S \in SUBSET Nat /\ IsFiniteSet(S) /\ k \in Int
    <3>1. IsFiniteSet(S)
      BY <1>2, FS_Interval
    <3> QED
      BY <1>2, <3>1
  <2>2. Cardinality(S) = Len(p)
    BY <1>2, UpToSize
  <2> HIDE DEF S, k
  <2>3. IsFiniteSet({k + n : n \in S}) /\ Cardinality({k + n : n \in S}) = Cardinality(S)
    BY <2>1, ShiftedSize
  <2> QED
    BY <2>2, <2>3 DEF S, k
<1> HIDE DEF r
<1>6. ASSUME NEW n \in (NumItems + 1)..Len(b)
      PROVE  r[n] = b[n] /\ n \in (NumItems + 1)..Len(r)
  <2>1. n \in 1..(Len(b) + Len(p)) /\ n <= Len(b)
    BY <1>1, <1>2
  <2> QED
    BY <1>1, <1>2, <1>3, <2>1
<1>7. ASSUME NEW n \in 1..Len(p)
      PROVE  r[Len(b) + n] = p[n] /\ Len(b) + n \in (NumItems + 1)..Len(r)
  <2>1. Len(b) + n \in 1..(Len(b) + Len(p)) /\ ~ (Len(b) + n <= Len(b)) /\ (Len(b) + n) - Len(b) = n
    BY <1>2
  <2> QED
    BY <1>1, <1>2, <1>3, <2>1
<1>8. ASSUME NEW n \in (NumItems + 1)..Len(r), n \notin (NumItems + 1)..Len(b)
      PROVE  n - Len(b) \in 1..Len(p) /\ n = Len(b) + (n - Len(b))
  <2>1. n > Len(b) /\ n <= Len(b) + Len(p)
    BY <1>1, <1>2, <1>3, <1>8
  <2> QED
    BY <1>2, <2>1
<1>9. CASE t = u
  <2>1. RowsOf(r, t) = RowsOf(b, t) \union Moved
    <3>1. RowsOf(b, t) \subseteq RowsOf(r, t)
      BY <1>6 DEF RowsOf
    <3>2. Moved \subseteq RowsOf(r, t)
      BY <1>7, <1>9 DEF RowsOf
    <3>3. ASSUME NEW n \in RowsOf(r, t) PROVE n \in RowsOf(b, t) \union Moved
      <4>1. n \in (NumItems + 1)..Len(r) /\ r[n].task = t
        BY DEF RowsOf
      <4>2. CASE n \in (NumItems + 1)..Len(b)
        BY <1>6, <4>1, <4>2 DEF RowsOf
      <4>3. CASE n \notin (NumItems + 1)..Len(b)
        BY <1>8, <4>1, <4>3
      <4> QED
        BY <4>2, <4>3
    <3> QED
      BY <3>1, <3>2, <3>3
  <2>2. RowsOf(b, t) \cap Moved = {}
    BY <1>2 DEF RowsOf
  <2> HIDE DEF Moved
  <2>3. Cardinality(RowsOf(b, t) \union Moved)
          = Cardinality(RowsOf(b, t)) + Cardinality(Moved) - Cardinality(RowsOf(b, t) \cap Moved)
    BY <1>4, <1>5, FS_Union
  <2>4. Cardinality(RowsOf(b, t) \cap Moved) = 0
    BY <2>2, FS_EmptySet
  <2>5. Cardinality(RowsOf(r, t)) = Cardinality(RowsOf(b, t)) + Len(p)
    BY <1>2, <1>4, <1>5, <2>1, <2>3, <2>4
  <2> QED
    BY <1>1, <1>2, <1>3, <1>9, <2>5 DEF r, b
<1>10. CASE t # u
  <2>1. RowsOf(r, t) = RowsOf(b, t)
    <3>1. RowsOf(b, t) \subseteq RowsOf(r, t)
      BY <1>6 DEF RowsOf
    <3>2. ASSUME NEW n \in RowsOf(r, t) PROVE n \in RowsOf(b, t)
      <4>1. n \in (NumItems + 1)..Len(r) /\ r[n].task = t
        BY DEF RowsOf
      <4>2. CASE n \in (NumItems + 1)..Len(b)
        BY <1>6, <4>1, <4>2 DEF RowsOf
      <4>3. CASE n \notin (NumItems + 1)..Len(b)
        BY <1>7, <1>8, <1>10, <4>1, <4>3
      <4> QED
        BY <4>2, <4>3
    <3> QED
      BY <3>1, <3>2
  <2> QED
    BY <1>1, <1>2, <1>3, <1>4, <1>10, <2>1 DEF r, b
<1> QED
  BY <1>9, <1>10

-----------------------------------------------------------------------------
(* The movements a call captured for task t and has not published. *)
Sending(c, t) == IF job[c] = t THEN toPublish[c] ELSE 0

LEMMA SentChange ==
    ASSUME Completion!TypeOK, Completion!TypeOK', NEW c \in Completer, NEW t,
           \A d \in Completer \ {c} : job'[d] = job[d] /\ toPublish'[d] = toPublish[d]
    PROVE  /\ Cardinality(Completion!InFlight(t)) \in Nat /\ Cardinality(Completion!InFlight(t)') \in Nat
           /\ Sending(c, t) \in Nat /\ Sending(c, t)' \in Nat
           /\ Cardinality(Completion!InFlight(t)') + Sending(c, t) = Cardinality(Completion!InFlight(t)) + Sending(c, t)'
<1> DEFINE f == [d \in Completer |-> IF job[d] = t THEN 1..toPublish[d] ELSE {}]
           g == [d \in Completer |-> IF job'[d] = t THEN 1..toPublish'[d] ELSE {}]
<1>1. Completion!InFlight(t) = Pairs(Completer, f)
  BY DEF Completion!InFlight, Pairs
<1>2. Completion!InFlight(t)' = Pairs(Completer, g)
  BY DEF Completion!InFlight, Pairs
<1>3. ASSUME NEW d \in Completer
      PROVE  /\ IsFiniteSet(f[d]) /\ Cardinality(f[d]) = Sending(d, t)
             /\ IsFiniteSet(g[d]) /\ Cardinality(g[d]) = Sending(d, t)'
             /\ Sending(d, t) \in Nat /\ Sending(d, t)' \in Nat
  <2>1. toPublish[d] \in Nat /\ toPublish'[d] \in Nat
    BY DEF Completion!TypeOK
  <2>2. /\ IsFiniteSet(1..toPublish[d]) /\ Cardinality(1..toPublish[d]) = toPublish[d]
        /\ IsFiniteSet(1..toPublish'[d]) /\ Cardinality(1..toPublish'[d]) = toPublish'[d]
        /\ IsFiniteSet({}) /\ Cardinality({}) = 0
    BY <2>1, UpToSize, FS_EmptySet
  <2>3. CASE job[d] = t /\ job'[d] = t
    BY <2>1, <2>2, <2>3 DEF Sending
  <2>4. CASE job[d] = t /\ job'[d] # t
    BY <2>1, <2>2, <2>4 DEF Sending
  <2>5. CASE job[d] # t /\ job'[d] = t
    BY <2>1, <2>2, <2>5 DEF Sending
  <2>6. CASE job[d] # t /\ job'[d] # t
    BY <2>1, <2>2, <2>6 DEF Sending
  <2> QED
    BY <2>3, <2>4, <2>5, <2>6
<1>4. \A d \in Completer \ {c} : f[d] = g[d]
  OBVIOUS
<1> HIDE DEF f, g
<1>5. \A d \in Completer : IsFiniteSet(f[d]) /\ IsFiniteSet(g[d])
  BY <1>3
<1>6. /\ Cardinality(Pairs(Completer, f)) \in Nat /\ Cardinality(Pairs(Completer, g)) \in Nat
      /\ Cardinality(Pairs(Completer, g)) + Cardinality(f[c]) = Cardinality(Pairs(Completer, f)) + Cardinality(g[c])
  <2>1. IsFiniteSet(Completer)
    BY CompletionAssumption, SameSizes DEF Completion!TaskAssumption
  <2> QED
    BY <1>4, <1>5, <2>1, PairsChange
<1> QED
  BY <1>1, <1>2, <1>3, <1>6

(* The step of a call keeps push events with the book if it sends and publishes
   as many as it books, or loses some by a fault. *)
LEMMA PushesChange ==
    ASSUME Completion!TypeOK, Completion!TypeOK', BookTyped, BookTyped', Completion!PushesMatchMovements, NEW c \in Completer,
           \A d \in Completer \ {c} : job'[d] = job[d] /\ toPublish'[d] = toPublish[d],
           \A t \in Task :
               /\ pushed'[t] + Sending(c, t)' + Completion!Movements(t) <= pushed[t] + Sending(c, t) + Completion!Movements(t)'
               /\ completionFaults' = 0 => /\ completionFaults = 0
                                 /\ pushed'[t] + Sending(c, t)' + Completion!Movements(t)
                                      = pushed[t] + Sending(c, t) + Completion!Movements(t)'
    PROVE  Completion!PushesMatchMovements'
<1> SUFFICES ASSUME NEW t \in Task
             PROVE  LET sent == pushed'[t] + Cardinality(Completion!InFlight(t)') IN
                        /\ sent <= Completion!Movements(t)'
                        /\ completionFaults' = 0 => sent = Completion!Movements(t)'
  BY SameSizes DEF Completion!PushesMatchMovements
<1>1. /\ Cardinality(Completion!InFlight(t)) \in Nat /\ Cardinality(Completion!InFlight(t)') \in Nat
      /\ Sending(c, t) \in Nat /\ Sending(c, t)' \in Nat
      /\ Cardinality(Completion!InFlight(t)') + Sending(c, t) = Cardinality(Completion!InFlight(t)) + Sending(c, t)'
  BY SentChange
<1>2. Completion!Movements(t) \in Nat /\ Completion!Movements(t)' \in Nat
  <2>1. Completion!Movements(t) = Cardinality(RowsOf(book, t)) /\ Completion!Movements(t)' = Cardinality(RowsOf(book', t))
    BY SameSizes DEF Completion!Movements, RowsOf
  <2>2. book \in Seq(BookRow) /\ book' \in Seq(BookRow)
    BY DEF BookTyped
  <2> QED
    BY <2>1, <2>2, RowsFinite
<1>3. pushed[t] \in Nat /\ pushed'[t] \in Nat
  BY DEF Completion!TypeOK
<1>4. /\ pushed[t] + Cardinality(Completion!InFlight(t)) <= Completion!Movements(t)
      /\ completionFaults = 0 => pushed[t] + Cardinality(Completion!InFlight(t)) = Completion!Movements(t)
  BY SameSizes DEF Completion!PushesMatchMovements
<1> QED
  BY <1>1, <1>2, <1>3, <1>4

(* A step that books nothing leaves every task's movements. *)
LEMMA SameMovements ==
    ASSUME book' = book
    PROVE  (BookTyped => BookTyped') /\ \A t : Completion!Movements(t)' = Completion!Movements(t)
BY SameSizes DEF Completion!Movements, BookTyped

LEMMA MovementsType ==
    ASSUME BookTyped, NEW t
    PROVE  Completion!Movements(t) \in Nat
<1>1. Completion!Movements(t) = Cardinality(RowsOf(book, t)) /\ book \in Seq(BookRow)
  BY SameSizes DEF Completion!Movements, RowsOf, BookTyped
<1> QED
  BY <1>1, RowsFinite

LEMMA InitTaskIInv == Completion!Init => TaskIInv
<1> SUFFICES ASSUME Completion!Init PROVE TaskIInv
  OBVIOUS
<1> USE CompletionAssumption, SameSizes DEF Completion!TaskAssumption
<1>1. Completion!TypeOK
  <2>1. stock \in [1..NumItems -> Nat]
    <3>1. stock = Opening
      BY DEF Completion!Init, Completion!Book!BookInit
    <3>2. Opening \in [1..NumItems -> Nat]
      OBVIOUS
    <3> QED
      BY <3>1, <3>2
  <2>2. reopens \in 0..MaxReopens /\ completionFaults \in 0..MaxCompletionFaults
    BY DEF Completion!Init
  <2>5. overlapped \in BOOLEAN
    BY DEF Completion!Init
  <2>3. /\ row \in [Task -> Completion!RowState] /\ \A t \in Task : lines[t] \in {<<>>, LinesOf[t]}
        /\ creating \subseteq Task /\ removing \subseteq Task /\ pushed \in [Task -> Nat]
    BY DEF Completion!Init, Completion!RowState
  <2>4. /\ completionPc \in [Completer -> Completion!CallState] /\ job \in [Completer -> Task \union {NoTask}]
        /\ toPublish \in [Completer -> Nat]
    BY DEF Completion!Init, Completion!CallState
  <2> QED
    BY <2>1, <2>2, <2>3, <2>4, <2>5 DEF Completion!TypeOK
<1>2. BookTyped
  <2>1. book \in [1..NumItems -> BookRow] /\ NumItems \in Nat
    BY DEF Completion!Init, Completion!Book!BookInit, BookRow
  <2>2. book \in Seq(BookRow) /\ DOMAIN book = 1..NumItems
    BY <2>1, SeqDef
  <2> QED
    BY <2>1, <2>2, LenProperties DEF BookTyped
<1>3. \A t \in Task : Completion!Movements(t) = 0
  <2>1. Len(book) = NumItems /\ NumItems \in Nat
    <3>1. book \in Seq(BookRow) /\ DOMAIN book = 1..NumItems /\ NumItems \in Nat
      BY <1>2 DEF BookTyped, Completion!Init, Completion!Book!BookInit
    <3> QED
      BY <3>1, LenProperties
  <2>2. (NumItems + 1)..Len(book) = {}
    BY <2>1
  <2>3. \A t \in Task : {n \in (NumItems + 1)..Len(book) : book[n].task = t} = {}
    BY <2>2
  <2>4. Cardinality({}) = 0
    BY FS_EmptySet
  <2> QED
    BY <2>3, <2>4, SameSizes DEF Completion!Movements
<1>4. BusyHasTask /\ OnlyPublishing /\ LinesComeOnce
  BY <1>3 DEF Completion!Init, BusyHasTask, OnlyPublishing, LinesComeOnce
<1>5. SerialMovesOnce
  <2>1. \A t \in Task : 0 <= Len(LinesOf[t])
    BY LineFacts
  <2> QED
    BY <1>3, <2>1 DEF Completion!Init, SerialMovesOnce, OneAtATime, MovedOnce
<1>6. Completion!PushesMatchMovements
  <2> SUFFICES ASSUME NEW t \in Task
               PROVE  LET sent == pushed[t] + Cardinality(Completion!InFlight(t)) IN
                          /\ sent <= Completion!Movements(t)
                          /\ completionFaults = 0 => sent = Completion!Movements(t)
    BY SameSizes DEF Completion!PushesMatchMovements
  <2>1. Completion!InFlight(t) = {} /\ pushed[t] = 0
    BY DEF Completion!Init, Completion!InFlight
  <2>2. Cardinality(Completion!InFlight(t)) = 0
    BY <2>1, FS_EmptySet
  <2> QED
    BY <1>3, <2>1, <2>2
<1> QED
  BY <1>1, <1>2, <1>4, <1>5, <1>6 DEF TaskIInv

(* The steps that only touch the tasks' rows and lines. *)
LEMMA TaskRowsIInv ==
    ASSUME TaskIInv, NEW t \in Task,
           Completion!Create(t) \/ Completion!PersistInventoryLines(t) \/ Completion!RemoveLines(t) \/ Completion!RemoveTask(t)
    PROVE  TaskIInv'
<1> USE CompletionAssumption, SameSizes DEF Completion!TaskAssumption, TaskIInv
<1>1. /\ UNCHANGED <<stock, book, completionPc, job, toPublish, pushed, reopens, completionFaults, overlapped>>
  BY DEF Completion!Create, Completion!PersistInventoryLines, Completion!RemoveLines, Completion!RemoveTask, Completion!callVars
<1>2. BookTyped' /\ \A u : Completion!Movements(u)' = Completion!Movements(u)
  BY <1>1, SameMovements
<1>3. /\ row' \in [Task -> Completion!RowState] /\ \A u \in Task : lines'[u] \in {<<>>, LinesOf[u]}
      /\ creating' \subseteq Task /\ removing' \subseteq Task
  <2>0. /\ row \in [Task -> Completion!RowState] /\ creating \subseteq Task /\ removing \subseteq Task
        /\ \A u \in Task : lines[u] \in {<<>>, LinesOf[u]}
    BY DEF Completion!TypeOK
  <2>1. CASE Completion!Create(t)
    <3>1. row' \in [Task -> Completion!RowState]
      BY <2>0, <2>1 DEF Completion!Create, Completion!RowState
    <3> QED
      BY <2>0, <2>1, <3>1 DEF Completion!Create
  <2>2. CASE Completion!PersistInventoryLines(t)
    BY <2>0, <2>2 DEF Completion!PersistInventoryLines
  <2>3. CASE Completion!RemoveLines(t)
    BY <2>0, <2>3 DEF Completion!RemoveLines
  <2>4. CASE Completion!RemoveTask(t)
    <3>1. row' \in [Task -> Completion!RowState]
      BY <2>0, <2>4 DEF Completion!RemoveTask, Completion!RowState
    <3> QED
      BY <2>0, <2>4, <3>1 DEF Completion!RemoveTask
  <2> QED
    BY <2>1, <2>2, <2>3, <2>4
<1>4. Completion!TypeOK'
  BY <1>1, <1>3 DEF Completion!TypeOK
<1>5. BusyHasTask' /\ OnlyPublishing'
  BY <1>1 DEF BusyHasTask, OnlyPublishing
<1>6. LinesComeOnce'
  <2> SUFFICES ASSUME NEW u \in Task
               PROVE  /\ row'[u] = "absent" => lines'[u] = <<>> /\ u \notin creating' /\ Completion!Movements(u) = 0
                      /\ u \in creating' => lines'[u] = <<>>
    BY <1>2 DEF LinesComeOnce
  <2>0. /\ row[u] = "absent" => lines[u] = <<>> /\ u \notin creating /\ Completion!Movements(u) = 0
        /\ u \in creating => lines[u] = <<>>
    BY DEF LinesComeOnce
  <2>1. CASE Completion!Create(t)
    BY <2>0, <2>1 DEF Completion!Create, Completion!TypeOK
  <2>2. CASE Completion!PersistInventoryLines(t)
    BY <2>0, <2>2 DEF Completion!PersistInventoryLines, Completion!TypeOK
  <2>3. CASE Completion!RemoveLines(t)
    BY <2>0, <2>3 DEF Completion!RemoveLines, Completion!TypeOK
  <2>4. CASE Completion!RemoveTask(t)
    BY <2>0, <2>4 DEF Completion!RemoveTask, Completion!TypeOK
  <2> QED
    BY <2>1, <2>2, <2>3, <2>4
<1>7. SerialMovesOnce'
  <2> SUFFICES ASSUME ~ overlapped, NEW u \in Task PROVE OneAtATime' /\ MovedOnce(u)'
    BY <1>1 DEF SerialMovesOnce, OneAtATime
  <2>1. OneAtATime /\ MovedOnce(u) /\ Completion!Movements(u) \in Nat
    BY MovementsType DEF SerialMovesOnce
  <2>2. CASE Completion!Movements(u) = 0
    BY <1>1, <1>2, <2>1, <2>2 DEF OneAtATime, MovedOnce
  <2>3. CASE Completion!Movements(u) > 0
    <3>1. row[u] # "absent" /\ u \notin creating
      BY <2>1, <2>3 DEF MovedOnce, LinesComeOnce
    <3>2. CASE Completion!Create(t)
      BY <1>1, <1>2, <2>1, <2>3, <3>1, <3>2 DEF OneAtATime, MovedOnce, Completion!Create, Completion!TypeOK
    <3>3. CASE Completion!PersistInventoryLines(t)
      BY <1>1, <1>2, <2>1, <2>3, <3>1, <3>3 DEF OneAtATime, MovedOnce, Completion!PersistInventoryLines, Completion!TypeOK
    <3>4. CASE Completion!RemoveLines(t)
      BY <1>1, <1>2, <2>1, <2>3, <3>1, <3>4 DEF OneAtATime, MovedOnce, Completion!RemoveLines, Completion!TypeOK
    <3>5. CASE Completion!RemoveTask(t)
      BY <1>1, <1>2, <2>1, <2>3, <3>1, <3>5 DEF OneAtATime, MovedOnce, Completion!RemoveTask, Completion!TypeOK
    <3> QED
      BY <3>2, <3>3, <3>4, <3>5
  <2> QED
    BY <2>1, <2>2, <2>3
<1>8. Completion!PushesMatchMovements'
  <2>1. \A u : Completion!InFlight(u)' = Completion!InFlight(u)
    BY <1>1 DEF Completion!InFlight
  <2> QED
    BY <1>1, <1>2, <2>1, SameSizes DEF Completion!PushesMatchMovements
<1> QED
  BY <1>2, <1>4, <1>5, <1>6, <1>7, <1>8

(* The steps of a call that book nothing and publish nothing: it takes up a
   task, goes on or ends. *)
Leaves(c) == completionPc'[c] = "idle" /\ job'[c] = NoTask /\ toPublish'[c] = 0

(* A step of call c that leaves the book alone: it publishes nothing, opens a
   task again only as a reopening that saw no lines, and takes a task up only if
   that is open, or goes on only if it saw no lines. *)
LEMMA QuietCall ==
    ASSUME TaskIInv, Completion!TypeOK', NEW c \in Completer, UNCHANGED <<stock, book, lines, creating, removing, pushed>>,
           \A d \in Completer \ {c} : completionPc'[d] = completionPc[d] /\ job'[d] = job[d] /\ toPublish'[d] = toPublish[d],
           completionPc'[c] # "idle" <=> job'[c] \in Task,
           toPublish'[c] = 0, toPublish[c] = 0 \/ completionFaults' # 0, completionFaults' = 0 => completionFaults = 0,
           \A u \in Task :
               /\ row'[u] = "absent" <=> row[u] = "absent"
               /\ row[u] = "removed" => row'[u] = "removed"
               /\ row'[u] = "open" => row[u] = "open" \/ (u = job[c] /\ completionPc[c] = "reopenable"),
           ~ overlapped' => /\ ~ overlapped
                            /\ completionPc[c] = "idle" => \A d \in Completer \ {c} : completionPc[d] = "idle",
           completionPc'[c] \in {"read", "transaction", "reopenable"} =>
               \/ job'[c] = job[c] /\ completionPc[c] = "read"
               \/ row[job'[c]] = "open"
               \/ lines[job'[c]] = <<>>
    PROVE  TaskIInv'
<1> USE DEF TaskIInv
<1>1. BookTyped' /\ \A t : Completion!Movements(t)' = Completion!Movements(t)
  BY SameMovements
<1>2. BusyHasTask' /\ OnlyPublishing'
  BY DEF BusyHasTask, OnlyPublishing
<1>3. LinesComeOnce'
  BY <1>1 DEF LinesComeOnce
<1>4. Completion!PushesMatchMovements'
  <2>1. ASSUME NEW t \in Task
        PROVE  /\ pushed'[t] + Sending(c, t)' + Completion!Movements(t) <= pushed[t] + Sending(c, t) + Completion!Movements(t)'
               /\ completionFaults' = 0 => /\ completionFaults = 0
                                 /\ pushed'[t] + Sending(c, t)' + Completion!Movements(t)
                                      = pushed[t] + Sending(c, t) + Completion!Movements(t)'
    <3>1. /\ Sending(c, t) \in Nat /\ Sending(c, t)' \in Nat /\ Completion!Movements(t) \in Nat /\ pushed[t] \in Nat
      BY MovementsType DEF Sending, Completion!TypeOK
    <3>2. Sending(c, t)' <= Sending(c, t) /\ (completionFaults' = 0 => Sending(c, t)' = Sending(c, t))
      BY <3>1 DEF Sending
    <3> QED
      BY <1>1, <3>1, <3>2
  <2> QED
    BY <1>1, <2>1, PushesChange
<1>5. SerialMovesOnce'
  <2> SUFFICES ASSUME ~ overlapped' PROVE OneAtATime' /\ \A u \in Task : MovedOnce(u)'
    BY DEF SerialMovesOnce
  <2>1. OneAtATime /\ \A u \in Task : MovedOnce(u)
    BY DEF SerialMovesOnce
  <2>2. OneAtATime'
    BY <2>1 DEF OneAtATime
  <2>3. ASSUME NEW u \in Task PROVE MovedOnce(u)'
    <3>1. Completion!Movements(u)' <= Len(LinesOf[u]) /\ Completion!Movements(u)' = Completion!Movements(u)
      BY <1>1, <2>1 DEF MovedOnce
    <3>2. ASSUME Completion!Movements(u) > 0
          PROVE  /\ u \notin creating
                 /\ lines[u] = <<>> => u \in removing \/ row'[u] = "removed"
                 /\ row'[u] = "open" => lines[u] = <<>>
      BY <2>1, <3>2 DEF MovedOnce
    <3>3. ASSUME Completion!Movements(u) > 0, NEW d \in Completer, job'[d] = u, completionPc'[d] \in {"read", "transaction", "reopenable"}
          PROVE  lines[u] = <<>>
      <4>1. /\ job[d] = u /\ completionPc[d] \in {"read", "transaction", "reopenable"} => lines[u] = <<>>
            /\ row[u] = "open" => lines[u] = <<>>
        BY <2>1, <3>3 DEF MovedOnce
      <4> QED
        BY <3>3, <4>1
    <3> QED
      BY <3>1, <3>2, <3>3 DEF MovedOnce
  <2> QED
    BY <2>2, <2>3
<1> QED
  BY <1>1, <1>2, <1>3, <1>4, <1>5

(* Taking a task up, counting its lines, and every way to go on or to end that
   books nothing. *)
LEMMA QuietCallsIInv ==
    ASSUME TaskIInv, NEW c \in Completer,
           \/ \E t \in Task : Completion!ReadTask(c, t) \/ Completion!ReadForReopen(c, t)
           \/ Completion!CountLines(c) \/ Completion!UpdateOnly(c) \/ Completion!TransactionFails(c) \/ Completion!Return(c) \/ Completion!CallDies(c)
           \/ Completion!AssertCanReopen(c) \/ Completion!Reopen(c)
    PROVE  TaskIInv'
<1> USE CompletionAssumption, SameSizes DEF Completion!TaskAssumption, TaskIInv
<1>1. Completion!TypeOK
  OBVIOUS
<1>2. ASSUME NEW t \in Task, Completion!ReadTask(c, t)
      PROVE  TaskIInv'
  <2>1. /\ completionPc[c] = "idle" /\ completionPc'[c] = "read" /\ job'[c] = t /\ row[t] = "open"
        /\ UNCHANGED <<row, toPublish, completionFaults, reopens>>
        /\ overlapped' = (overlapped \/ \E d \in Completer \ {c} : completionPc[d] # "idle")
        /\ UNCHANGED <<stock, book, lines, creating, removing, pushed>>
    BY <1>2 DEF Completion!ReadTask, Completion!MayComplete, Completion!Goto, Completion!NoteOverlap, Completion!taskVars, Completion!TypeOK
  <2>2. \A d \in Completer \ {c} : completionPc'[d] = completionPc[d] /\ job'[d] = job[d] /\ toPublish'[d] = toPublish[d]
    BY <1>2 DEF Completion!ReadTask, Completion!MayComplete, Completion!Goto, Completion!NoteOverlap, Completion!taskVars, Completion!TypeOK
  <2>3. completionPc' \in [Completer -> Completion!CallState] /\ job' \in [Completer -> Task \union {NoTask}] /\ toPublish' \in [Completer -> Nat]
    BY <1>2 DEF Completion!ReadTask, Completion!MayComplete, Completion!Goto, Completion!NoteOverlap, Completion!taskVars, Completion!TypeOK, Completion!CallState
  <2>4. row' \in [Task -> Completion!RowState]
    BY <2>1 DEF Completion!TypeOK, Completion!RowState, Completion!Exists
  <2>5. overlapped' \in BOOLEAN
    BY <2>1 DEF Completion!TypeOK
  <2>6. Completion!TypeOK'
    BY <2>1, <2>3, <2>4, <2>5 DEF Completion!TypeOK
  <2>7. /\ completionPc'[c] # "idle" <=> job'[c] \in Task
        /\ toPublish'[c] = 0 /\ (toPublish[c] = 0 \/ completionFaults' # 0) /\ (completionFaults' = 0 => completionFaults = 0)
    BY <2>1 DEF Leaves, BusyHasTask, OnlyPublishing, Completion!TypeOK
  <2>8. \A u \in Task :
            /\ row'[u] = "absent" <=> row[u] = "absent"
            /\ row[u] = "removed" => row'[u] = "removed"
            /\ row'[u] = "open" => row[u] = "open" \/ (u = job[c] /\ completionPc[c] = "reopenable")
    BY <2>1 DEF Completion!TypeOK, Completion!Exists
  <2>9. ~ overlapped' => /\ ~ overlapped
                         /\ completionPc[c] = "idle" => \A d \in Completer \ {c} : completionPc[d] = "idle"
    BY <2>1
  <2>10. completionPc'[c] \in {"read", "transaction", "reopenable"} =>
             \/ job'[c] = job[c] /\ completionPc[c] = "read"
             \/ row[job'[c]] = "open"
             \/ lines[job'[c]] = <<>>
    BY <2>1 DEF Leaves
  <2> QED
    BY <2>1, <2>2, <2>6, <2>7, <2>8, <2>9, <2>10, QuietCall
<1>3. ASSUME NEW t \in Task, Completion!ReadForReopen(c, t)
      PROVE  TaskIInv'
  <2>1. /\ completionPc[c] = "idle" /\ completionPc'[c] = "reopening" /\ job'[c] = t
        /\ UNCHANGED <<row, toPublish, completionFaults>> /\ reopens' \in 0..MaxReopens
        /\ overlapped' = (overlapped \/ \E d \in Completer \ {c} : completionPc[d] # "idle")
        /\ UNCHANGED <<stock, book, lines, creating, removing, pushed>>
    BY <1>3 DEF Completion!ReadForReopen, Completion!Goto, Completion!NoteOverlap, Completion!taskVars, Completion!TypeOK
  <2>2. \A d \in Completer \ {c} : completionPc'[d] = completionPc[d] /\ job'[d] = job[d] /\ toPublish'[d] = toPublish[d]
    BY <1>3 DEF Completion!ReadForReopen, Completion!Goto, Completion!NoteOverlap, Completion!taskVars, Completion!TypeOK
  <2>3. completionPc' \in [Completer -> Completion!CallState] /\ job' \in [Completer -> Task \union {NoTask}] /\ toPublish' \in [Completer -> Nat]
    BY <1>3 DEF Completion!ReadForReopen, Completion!Goto, Completion!NoteOverlap, Completion!taskVars, Completion!TypeOK, Completion!CallState
  <2>4. row' \in [Task -> Completion!RowState]
    BY <2>1 DEF Completion!TypeOK, Completion!RowState, Completion!Exists
  <2>5. overlapped' \in BOOLEAN
    BY <2>1 DEF Completion!TypeOK
  <2>6. Completion!TypeOK'
    BY <2>1, <2>3, <2>4, <2>5 DEF Completion!TypeOK
  <2>7. /\ completionPc'[c] # "idle" <=> job'[c] \in Task
        /\ toPublish'[c] = 0 /\ (toPublish[c] = 0 \/ completionFaults' # 0) /\ (completionFaults' = 0 => completionFaults = 0)
    BY <2>1 DEF Leaves, BusyHasTask, OnlyPublishing, Completion!TypeOK
  <2>8. \A u \in Task :
            /\ row'[u] = "absent" <=> row[u] = "absent"
            /\ row[u] = "removed" => row'[u] = "removed"
            /\ row'[u] = "open" => row[u] = "open" \/ (u = job[c] /\ completionPc[c] = "reopenable")
    BY <2>1 DEF Completion!TypeOK, Completion!Exists
  <2>9. ~ overlapped' => /\ ~ overlapped
                         /\ completionPc[c] = "idle" => \A d \in Completer \ {c} : completionPc[d] = "idle"
    BY <2>1
  <2>10. completionPc'[c] \in {"read", "transaction", "reopenable"} =>
             \/ job'[c] = job[c] /\ completionPc[c] = "read"
             \/ row[job'[c]] = "open"
             \/ lines[job'[c]] = <<>>
    BY <2>1 DEF Leaves
  <2> QED
    BY <2>1, <2>2, <2>6, <2>7, <2>8, <2>9, <2>10, QuietCall
<1>4. ASSUME Completion!CountLines(c)
      PROVE  TaskIInv'
  <2>1. /\ completionPc[c] = "read" /\ completionPc'[c] \in {"simple", "transaction"} /\ job'[c] = job[c]
        /\ UNCHANGED <<row, toPublish, completionFaults, reopens, overlapped>>
        /\ UNCHANGED <<stock, book, lines, creating, removing, pushed>>
    BY <1>4 DEF Completion!CountLines, Completion!Goto, Completion!taskVars, Completion!TypeOK
  <2>2. \A d \in Completer \ {c} : completionPc'[d] = completionPc[d] /\ job'[d] = job[d] /\ toPublish'[d] = toPublish[d]
    BY <1>4 DEF Completion!CountLines, Completion!Goto, Completion!taskVars, Completion!TypeOK
  <2>3. completionPc' \in [Completer -> Completion!CallState] /\ job' \in [Completer -> Task \union {NoTask}] /\ toPublish' \in [Completer -> Nat]
    BY <1>4 DEF Completion!CountLines, Completion!Goto, Completion!taskVars, Completion!TypeOK, Completion!CallState
  <2>4. row' \in [Task -> Completion!RowState]
    BY <2>1 DEF Completion!TypeOK, Completion!RowState, Completion!Exists
  <2>5. overlapped' \in BOOLEAN
    BY <2>1 DEF Completion!TypeOK
  <2>6. Completion!TypeOK'
    BY <2>1, <2>3, <2>4, <2>5 DEF Completion!TypeOK
  <2>7. /\ completionPc'[c] # "idle" <=> job'[c] \in Task
        /\ toPublish'[c] = 0 /\ (toPublish[c] = 0 \/ completionFaults' # 0) /\ (completionFaults' = 0 => completionFaults = 0)
    BY <2>1 DEF Leaves, BusyHasTask, OnlyPublishing, Completion!TypeOK
  <2>8. \A u \in Task :
            /\ row'[u] = "absent" <=> row[u] = "absent"
            /\ row[u] = "removed" => row'[u] = "removed"
            /\ row'[u] = "open" => row[u] = "open" \/ (u = job[c] /\ completionPc[c] = "reopenable")
    BY <2>1 DEF Completion!TypeOK, Completion!Exists
  <2>9. ~ overlapped' => /\ ~ overlapped
                         /\ completionPc[c] = "idle" => \A d \in Completer \ {c} : completionPc[d] = "idle"
    BY <2>1
  <2>10. completionPc'[c] \in {"read", "transaction", "reopenable"} =>
             \/ job'[c] = job[c] /\ completionPc[c] = "read"
             \/ row[job'[c]] = "open"
             \/ lines[job'[c]] = <<>>
    BY <2>1 DEF Leaves
  <2> QED
    BY <2>1, <2>2, <2>6, <2>7, <2>8, <2>9, <2>10, QuietCall
<1>5. ASSUME Completion!UpdateOnly(c)
      PROVE  TaskIInv'
  <2>1. /\ completionPc[c] = "simple" /\ Leaves(c)
        /\ row' = [row EXCEPT ![job[c]] = IF Completion!Exists(job[c]) THEN "completed" ELSE @]
        /\ UNCHANGED <<completionFaults, reopens, overlapped>>
        /\ UNCHANGED <<stock, book, lines, creating, removing, pushed>>
    BY <1>5 DEF Completion!UpdateOnly, Completion!Goto, Completion!End, Completion!SetRow, Leaves, Completion!TypeOK
  <2>2. \A d \in Completer \ {c} : completionPc'[d] = completionPc[d] /\ job'[d] = job[d] /\ toPublish'[d] = toPublish[d]
    BY <1>5 DEF Completion!UpdateOnly, Completion!Goto, Completion!End, Completion!SetRow, Leaves, Completion!TypeOK
  <2>3. completionPc' \in [Completer -> Completion!CallState] /\ job' \in [Completer -> Task \union {NoTask}] /\ toPublish' \in [Completer -> Nat]
    BY <1>5 DEF Completion!UpdateOnly, Completion!Goto, Completion!End, Completion!SetRow, Leaves, Completion!TypeOK, Completion!CallState
  <2>4. row' \in [Task -> Completion!RowState]
    BY <2>1 DEF Completion!TypeOK, Completion!RowState, Completion!Exists
  <2>5. overlapped' \in BOOLEAN
    BY <2>1 DEF Completion!TypeOK
  <2>6. Completion!TypeOK'
    BY <2>1, <2>3, <2>4, <2>5 DEF Completion!TypeOK
  <2>7. /\ completionPc'[c] # "idle" <=> job'[c] \in Task
        /\ toPublish'[c] = 0 /\ (toPublish[c] = 0 \/ completionFaults' # 0) /\ (completionFaults' = 0 => completionFaults = 0)
    BY <2>1 DEF Leaves, BusyHasTask, OnlyPublishing, Completion!TypeOK
  <2>8. \A u \in Task :
            /\ row'[u] = "absent" <=> row[u] = "absent"
            /\ row[u] = "removed" => row'[u] = "removed"
            /\ row'[u] = "open" => row[u] = "open" \/ (u = job[c] /\ completionPc[c] = "reopenable")
    BY <2>1 DEF Completion!TypeOK, Completion!Exists
  <2>9. ~ overlapped' => /\ ~ overlapped
                         /\ completionPc[c] = "idle" => \A d \in Completer \ {c} : completionPc[d] = "idle"
    BY <2>1
  <2>10. completionPc'[c] \in {"read", "transaction", "reopenable"} =>
             \/ job'[c] = job[c] /\ completionPc[c] = "read"
             \/ row[job'[c]] = "open"
             \/ lines[job'[c]] = <<>>
    BY <2>1 DEF Leaves
  <2> QED
    BY <2>1, <2>2, <2>6, <2>7, <2>8, <2>9, <2>10, QuietCall
<1>6. ASSUME Completion!TransactionFails(c)
      PROVE  TaskIInv'
  <2>1. /\ completionPc[c] = "transaction" /\ Leaves(c)
        /\ UNCHANGED <<row, completionFaults, reopens, overlapped>>
        /\ UNCHANGED <<stock, book, lines, creating, removing, pushed>>
    BY <1>6 DEF Completion!TransactionFails, Completion!Goto, Completion!End, Leaves, Completion!taskVars, Completion!TypeOK
  <2>2. \A d \in Completer \ {c} : completionPc'[d] = completionPc[d] /\ job'[d] = job[d] /\ toPublish'[d] = toPublish[d]
    BY <1>6 DEF Completion!TransactionFails, Completion!Goto, Completion!End, Leaves, Completion!taskVars, Completion!TypeOK
  <2>3. completionPc' \in [Completer -> Completion!CallState] /\ job' \in [Completer -> Task \union {NoTask}] /\ toPublish' \in [Completer -> Nat]
    BY <1>6 DEF Completion!TransactionFails, Completion!Goto, Completion!End, Leaves, Completion!taskVars, Completion!TypeOK, Completion!CallState
  <2>4. row' \in [Task -> Completion!RowState]
    BY <2>1 DEF Completion!TypeOK, Completion!RowState, Completion!Exists
  <2>5. overlapped' \in BOOLEAN
    BY <2>1 DEF Completion!TypeOK
  <2>6. Completion!TypeOK'
    BY <2>1, <2>3, <2>4, <2>5 DEF Completion!TypeOK
  <2>7. /\ completionPc'[c] # "idle" <=> job'[c] \in Task
        /\ toPublish'[c] = 0 /\ (toPublish[c] = 0 \/ completionFaults' # 0) /\ (completionFaults' = 0 => completionFaults = 0)
    BY <2>1 DEF Leaves, BusyHasTask, OnlyPublishing, Completion!TypeOK
  <2>8. \A u \in Task :
            /\ row'[u] = "absent" <=> row[u] = "absent"
            /\ row[u] = "removed" => row'[u] = "removed"
            /\ row'[u] = "open" => row[u] = "open" \/ (u = job[c] /\ completionPc[c] = "reopenable")
    BY <2>1 DEF Completion!TypeOK, Completion!Exists
  <2>9. ~ overlapped' => /\ ~ overlapped
                         /\ completionPc[c] = "idle" => \A d \in Completer \ {c} : completionPc[d] = "idle"
    BY <2>1
  <2>10. completionPc'[c] \in {"read", "transaction", "reopenable"} =>
             \/ job'[c] = job[c] /\ completionPc[c] = "read"
             \/ row[job'[c]] = "open"
             \/ lines[job'[c]] = <<>>
    BY <2>1 DEF Leaves
  <2> QED
    BY <2>1, <2>2, <2>6, <2>7, <2>8, <2>9, <2>10, QuietCall
<1>7. ASSUME Completion!Return(c)
      PROVE  TaskIInv'
  <2>1. /\ completionPc[c] = "publishing" /\ toPublish[c] = 0 /\ Leaves(c)
        /\ UNCHANGED <<row, completionFaults, reopens, overlapped>>
        /\ UNCHANGED <<stock, book, lines, creating, removing, pushed>>
    BY <1>7 DEF Completion!Return, Completion!Goto, Completion!End, Leaves, Completion!taskVars, Completion!TypeOK
  <2>2. \A d \in Completer \ {c} : completionPc'[d] = completionPc[d] /\ job'[d] = job[d] /\ toPublish'[d] = toPublish[d]
    BY <1>7 DEF Completion!Return, Completion!Goto, Completion!End, Leaves, Completion!taskVars, Completion!TypeOK
  <2>3. completionPc' \in [Completer -> Completion!CallState] /\ job' \in [Completer -> Task \union {NoTask}] /\ toPublish' \in [Completer -> Nat]
    BY <1>7 DEF Completion!Return, Completion!Goto, Completion!End, Leaves, Completion!taskVars, Completion!TypeOK, Completion!CallState
  <2>4. row' \in [Task -> Completion!RowState]
    BY <2>1 DEF Completion!TypeOK, Completion!RowState, Completion!Exists
  <2>5. overlapped' \in BOOLEAN
    BY <2>1 DEF Completion!TypeOK
  <2>6. Completion!TypeOK'
    BY <2>1, <2>3, <2>4, <2>5 DEF Completion!TypeOK
  <2>7. /\ completionPc'[c] # "idle" <=> job'[c] \in Task
        /\ toPublish'[c] = 0 /\ (toPublish[c] = 0 \/ completionFaults' # 0) /\ (completionFaults' = 0 => completionFaults = 0)
    BY <2>1 DEF Leaves, BusyHasTask, OnlyPublishing, Completion!TypeOK
  <2>8. \A u \in Task :
            /\ row'[u] = "absent" <=> row[u] = "absent"
            /\ row[u] = "removed" => row'[u] = "removed"
            /\ row'[u] = "open" => row[u] = "open" \/ (u = job[c] /\ completionPc[c] = "reopenable")
    BY <2>1 DEF Completion!TypeOK, Completion!Exists
  <2>9. ~ overlapped' => /\ ~ overlapped
                         /\ completionPc[c] = "idle" => \A d \in Completer \ {c} : completionPc[d] = "idle"
    BY <2>1
  <2>10. completionPc'[c] \in {"read", "transaction", "reopenable"} =>
             \/ job'[c] = job[c] /\ completionPc[c] = "read"
             \/ row[job'[c]] = "open"
             \/ lines[job'[c]] = <<>>
    BY <2>1 DEF Leaves
  <2> QED
    BY <2>1, <2>2, <2>6, <2>7, <2>8, <2>9, <2>10, QuietCall
<1>8. ASSUME Completion!CallDies(c)
      PROVE  TaskIInv'
  <2>1. /\ completionPc[c] # "idle" /\ Leaves(c)
        /\ completionFaults' = completionFaults + 1 /\ completionFaults' \in 0..MaxCompletionFaults
        /\ UNCHANGED <<row, reopens, overlapped>>
        /\ UNCHANGED <<stock, book, lines, creating, removing, pushed>>
    BY <1>8 DEF Completion!CallDies, Completion!Goto, Completion!End, Leaves, Completion!taskVars, Completion!TypeOK
  <2>2. \A d \in Completer \ {c} : completionPc'[d] = completionPc[d] /\ job'[d] = job[d] /\ toPublish'[d] = toPublish[d]
    BY <1>8 DEF Completion!CallDies, Completion!Goto, Completion!End, Leaves, Completion!taskVars, Completion!TypeOK
  <2>3. completionPc' \in [Completer -> Completion!CallState] /\ job' \in [Completer -> Task \union {NoTask}] /\ toPublish' \in [Completer -> Nat]
    BY <1>8 DEF Completion!CallDies, Completion!Goto, Completion!End, Leaves, Completion!taskVars, Completion!TypeOK, Completion!CallState
  <2>4. row' \in [Task -> Completion!RowState]
    BY <2>1 DEF Completion!TypeOK, Completion!RowState, Completion!Exists
  <2>5. overlapped' \in BOOLEAN
    BY <2>1 DEF Completion!TypeOK
  <2>6. Completion!TypeOK'
    BY <2>1, <2>3, <2>4, <2>5 DEF Completion!TypeOK
  <2>7. /\ completionPc'[c] # "idle" <=> job'[c] \in Task
        /\ toPublish'[c] = 0 /\ (toPublish[c] = 0 \/ completionFaults' # 0) /\ (completionFaults' = 0 => completionFaults = 0)
    BY <2>1 DEF Leaves, BusyHasTask, OnlyPublishing, Completion!TypeOK
  <2>8. \A u \in Task :
            /\ row'[u] = "absent" <=> row[u] = "absent"
            /\ row[u] = "removed" => row'[u] = "removed"
            /\ row'[u] = "open" => row[u] = "open" \/ (u = job[c] /\ completionPc[c] = "reopenable")
    BY <2>1 DEF Completion!TypeOK, Completion!Exists
  <2>9. ~ overlapped' => /\ ~ overlapped
                         /\ completionPc[c] = "idle" => \A d \in Completer \ {c} : completionPc[d] = "idle"
    BY <2>1
  <2>10. completionPc'[c] \in {"read", "transaction", "reopenable"} =>
             \/ job'[c] = job[c] /\ completionPc[c] = "read"
             \/ row[job'[c]] = "open"
             \/ lines[job'[c]] = <<>>
    BY <2>1 DEF Leaves
  <2> QED
    BY <2>1, <2>2, <2>6, <2>7, <2>8, <2>9, <2>10, QuietCall
<1>9. ASSUME Completion!AssertCanReopen(c)
      PROVE  TaskIInv'
  <2>1. /\ completionPc[c] = "reopening"
        /\ \/ Leaves(c)
           \/ lines[job[c]] = <<>> /\ completionPc'[c] = "reopenable" /\ job'[c] = job[c] /\ toPublish' = toPublish
        /\ UNCHANGED <<row, completionFaults, reopens, overlapped>>
        /\ UNCHANGED <<stock, book, lines, creating, removing, pushed>>
    BY <1>9 DEF Completion!AssertCanReopen, Completion!Goto, Completion!End, Leaves, Completion!taskVars, Completion!TypeOK
  <2>2. \A d \in Completer \ {c} : completionPc'[d] = completionPc[d] /\ job'[d] = job[d] /\ toPublish'[d] = toPublish[d]
    <3>1. CASE lines[job[c]] = <<>>
      BY <1>9, <3>1 DEF Completion!AssertCanReopen, Completion!Goto, Completion!End, Leaves, Completion!taskVars, Completion!TypeOK
    <3>2. CASE lines[job[c]] # <<>>
      BY <1>9, <3>2 DEF Completion!AssertCanReopen, Completion!Goto, Completion!End, Leaves, Completion!taskVars, Completion!TypeOK
    <3> QED
      BY <3>1, <3>2
  <2>3. completionPc' \in [Completer -> Completion!CallState] /\ job' \in [Completer -> Task \union {NoTask}] /\ toPublish' \in [Completer -> Nat]
    <3>1. CASE lines[job[c]] = <<>>
      BY <1>9, <3>1 DEF Completion!AssertCanReopen, Completion!Goto, Completion!End, Leaves, Completion!taskVars, Completion!TypeOK, Completion!CallState
    <3>2. CASE lines[job[c]] # <<>>
      <4>1. completionPc' \in [Completer -> Completion!CallState]
        BY <1>9, <3>2 DEF Completion!AssertCanReopen, Completion!Goto, Completion!End, Completion!TypeOK, Completion!CallState
      <4>2. job' \in [Completer -> Task \union {NoTask}] /\ toPublish' \in [Completer -> Nat]
        <5>1. /\ job' = [job EXCEPT ![c] = NoTask] /\ toPublish' = [toPublish EXCEPT ![c] = 0]
              /\ job \in [Completer -> Task \union {NoTask}] /\ toPublish \in [Completer -> Nat]
          BY <1>9, <3>2 DEF Completion!AssertCanReopen, Completion!End, Completion!TypeOK
        <5> QED
          BY <5>1
      <4> QED
        BY <4>1, <4>2
    <3> QED
      BY <3>1, <3>2
  <2>4. row' \in [Task -> Completion!RowState]
    BY <2>1 DEF Completion!TypeOK, Completion!RowState, Completion!Exists
  <2>5. overlapped' \in BOOLEAN
    BY <2>1 DEF Completion!TypeOK
  <2>6. Completion!TypeOK'
    BY <2>1, <2>3, <2>4, <2>5 DEF Completion!TypeOK
  <2>7. /\ completionPc'[c] # "idle" <=> job'[c] \in Task
        /\ toPublish'[c] = 0 /\ (toPublish[c] = 0 \/ completionFaults' # 0) /\ (completionFaults' = 0 => completionFaults = 0)
    BY <2>1 DEF Leaves, BusyHasTask, OnlyPublishing, Completion!TypeOK
  <2>8. \A u \in Task :
            /\ row'[u] = "absent" <=> row[u] = "absent"
            /\ row[u] = "removed" => row'[u] = "removed"
            /\ row'[u] = "open" => row[u] = "open" \/ (u = job[c] /\ completionPc[c] = "reopenable")
    BY <2>1 DEF Completion!TypeOK, Completion!Exists
  <2>9. ~ overlapped' => /\ ~ overlapped
                         /\ completionPc[c] = "idle" => \A d \in Completer \ {c} : completionPc[d] = "idle"
    BY <2>1
  <2>10. completionPc'[c] \in {"read", "transaction", "reopenable"} =>
             \/ job'[c] = job[c] /\ completionPc[c] = "read"
             \/ row[job'[c]] = "open"
             \/ lines[job'[c]] = <<>>
    BY <2>1 DEF Leaves
  <2> QED
    BY <2>1, <2>2, <2>6, <2>7, <2>8, <2>9, <2>10, QuietCall
<1>10. ASSUME Completion!Reopen(c)
      PROVE  TaskIInv'
  <2>1. /\ completionPc[c] = "reopenable" /\ Leaves(c)
        /\ row' = [row EXCEPT ![job[c]] = IF Completion!Exists(job[c]) THEN "open" ELSE @]
        /\ UNCHANGED <<completionFaults, reopens, overlapped>>
        /\ UNCHANGED <<stock, book, lines, creating, removing, pushed>>
    BY <1>10 DEF Completion!Reopen, Completion!Goto, Completion!End, Completion!SetRow, Leaves, Completion!TypeOK
  <2>2. \A d \in Completer \ {c} : completionPc'[d] = completionPc[d] /\ job'[d] = job[d] /\ toPublish'[d] = toPublish[d]
    BY <1>10 DEF Completion!Reopen, Completion!Goto, Completion!End, Completion!SetRow, Leaves, Completion!TypeOK
  <2>3. completionPc' \in [Completer -> Completion!CallState] /\ job' \in [Completer -> Task \union {NoTask}] /\ toPublish' \in [Completer -> Nat]
    BY <1>10 DEF Completion!Reopen, Completion!Goto, Completion!End, Completion!SetRow, Leaves, Completion!TypeOK, Completion!CallState
  <2>4. row' \in [Task -> Completion!RowState]
    BY <2>1 DEF Completion!TypeOK, Completion!RowState, Completion!Exists
  <2>5. overlapped' \in BOOLEAN
    BY <2>1 DEF Completion!TypeOK
  <2>6. Completion!TypeOK'
    BY <2>1, <2>3, <2>4, <2>5 DEF Completion!TypeOK
  <2>7. /\ completionPc'[c] # "idle" <=> job'[c] \in Task
        /\ toPublish'[c] = 0 /\ (toPublish[c] = 0 \/ completionFaults' # 0) /\ (completionFaults' = 0 => completionFaults = 0)
    BY <2>1 DEF Leaves, BusyHasTask, OnlyPublishing, Completion!TypeOK
  <2>8. \A u \in Task :
            /\ row'[u] = "absent" <=> row[u] = "absent"
            /\ row[u] = "removed" => row'[u] = "removed"
            /\ row'[u] = "open" => row[u] = "open" \/ (u = job[c] /\ completionPc[c] = "reopenable")
    BY <2>1 DEF Completion!TypeOK, Completion!Exists
  <2>9. ~ overlapped' => /\ ~ overlapped
                         /\ completionPc[c] = "idle" => \A d \in Completer \ {c} : completionPc[d] = "idle"
    BY <2>1
  <2>10. completionPc'[c] \in {"read", "transaction", "reopenable"} =>
             \/ job'[c] = job[c] /\ completionPc[c] = "read"
             \/ row[job'[c]] = "open"
             \/ lines[job'[c]] = <<>>
    BY <2>1 DEF Leaves
  <2> QED
    BY <2>1, <2>2, <2>6, <2>7, <2>8, <2>9, <2>10, QuietCall
<1> QED
  BY <1>2, <1>3, <1>4, <1>5, <1>6, <1>7, <1>8, <1>9, <1>10

LEMMA PublishIInv ==
    ASSUME TaskIInv, NEW c \in Completer, Completion!Publish(c)
    PROVE  TaskIInv'
<1> USE CompletionAssumption, SameSizes DEF Completion!TaskAssumption, TaskIInv
<1>1. /\ completionPc[c] = "publishing" /\ toPublish[c] \in Nat /\ toPublish[c] > 0 /\ toPublish'[c] = toPublish[c] - 1
      /\ job[c] \in Task
      /\ toPublish' \in [Completer -> Nat] /\ pushed' \in [Task -> Nat]
      /\ UNCHANGED <<stock, book, Completion!taskVars, completionPc, job, reopens, completionFaults, overlapped>>
  BY DEF Completion!Publish, Completion!TypeOK, BusyHasTask
<1>2. \A d \in Completer \ {c} : toPublish'[d] = toPublish[d]
  BY DEF Completion!Publish, Completion!TypeOK
<1>3. \A t \in Task : pushed'[t] = IF t = job[c] THEN pushed[t] + 1 ELSE pushed[t]
  BY <1>1 DEF Completion!Publish, Completion!TypeOK
<1>4. Completion!TypeOK'
  BY <1>1 DEF Completion!TypeOK, Completion!taskVars
<1>5. BookTyped' /\ \A t : Completion!Movements(t)' = Completion!Movements(t)
  BY <1>1, SameMovements
<1>6. BusyHasTask' /\ OnlyPublishing'
  BY <1>1, <1>2 DEF BusyHasTask, OnlyPublishing
<1>7. LinesComeOnce'
  BY <1>1, <1>5 DEF LinesComeOnce, Completion!taskVars
<1>8. SerialMovesOnce'
  BY <1>1, <1>5 DEF SerialMovesOnce, OneAtATime, MovedOnce, Completion!taskVars
<1>9. Completion!PushesMatchMovements'
  <2>1. ASSUME NEW t \in Task
        PROVE  /\ pushed'[t] + Sending(c, t)' + Completion!Movements(t) <= pushed[t] + Sending(c, t) + Completion!Movements(t)'
               /\ completionFaults' = 0 => /\ completionFaults = 0
                                 /\ pushed'[t] + Sending(c, t)' + Completion!Movements(t)
                                      = pushed[t] + Sending(c, t) + Completion!Movements(t)'
    <3>1. Completion!Movements(t) \in Nat /\ pushed[t] \in Nat /\ Completion!Movements(t)' = Completion!Movements(t) /\ completionFaults' = completionFaults
      BY <1>1, <1>5, MovementsType DEF Completion!TypeOK
    <3>2. CASE t = job[c]
      <4>1. Sending(c, t) = toPublish[c] /\ Sending(c, t)' = toPublish[c] - 1 /\ pushed'[t] = pushed[t] + 1
        BY <1>1, <1>3, <3>2 DEF Sending
      <4>2. toPublish[c] \in Nat
        BY <1>1
      <4>3. pushed[t] \in Nat /\ Completion!Movements(t) \in Nat
        BY <3>1
      <4>4. /\ pushed'[t] + Sending(c, t)' + Completion!Movements(t) = pushed[t] + Sending(c, t) + Completion!Movements(t)
            /\ pushed[t] + Sending(c, t) + Completion!Movements(t) \in Int
        BY ONLY <4>1, <4>2, <4>3
      <4> QED
        BY <3>1, <4>4
    <3>3. CASE t # job[c]
      <4>1. Sending(c, t) = 0 /\ Sending(c, t)' = 0 /\ pushed'[t] = pushed[t]
        BY <1>1, <1>3, <3>3 DEF Sending
      <4> QED
        BY <1>1, <3>1, <4>1
    <3> QED
      BY <3>2, <3>3
  <2> QED
    BY <1>1, <1>2, <1>4, <1>5, <2>1, PushesChange
<1> QED
  BY <1>4, <1>5, <1>6, <1>7, <1>8, <1>9

(* A plan that overdraws nothing leaves a stock of natural numbers. *)
LEMMA BookPlanType ==
    ASSUME stock \in [1..NumItems -> Nat], NEW p \in Seq(Completion!Line), Completion!Book!BookPlan(p)
    PROVE  stock' \in [1..NumItems -> Nat]
<1>1. stock' = [i \in 1..NumItems |-> Completion!Book!StockFrom(stock[i], p, i, Len(p))]
  BY DEF Completion!Book!BookPlan, Completion!Book!StockAfter
<1>2. ASSUME NEW i \in 1..NumItems PROVE Completion!Book!StockFrom(stock[i], p, i, Len(p)) \in Nat
  <2>1. stock[i] \in Nat /\ Len(p) \in Nat
    BY LenProperties
  <2>2. \A m \in Completion!Line : Delta(m) \in Int
    BY DEF Completion!Line, Delta
  <2> DEFINE q == stock[i]
  <2>3. q \in Int
    BY <2>1
  <2> HIDE DEF q
  <2>4. Adds(q, p, i) /\ \A n : Completion!Book!StockFrom(q, p, i, n) = Book!StockFrom(q, p, i, n)
    BY <2>2, <2>3, StockFromSteps, SameStock
  <2>5. CASE Len(p) = 0
    BY <2>1, <2>4, <2>5 DEF Adds, q
  <2>6. CASE Len(p) # 0
    <3>1. Len(p) \in 1..Len(p) /\ Len(p) \in 0..Len(p)
      BY <2>1, <2>6
    <3>2. Completion!Book!StockFrom(q, p, i, Len(p)) \in Int
      BY <2>4, <3>1 DEF Adds
    <3>3. Completion!Book!StockFrom(stock[i], p, i, Len(p)) >= 0
      BY <3>1 DEF Completion!Book!BookPlan, Completion!Book!Covered, Completion!Book!StockAfter
    <3> QED
      BY <3>2, <3>3 DEF q
  <2> QED
    BY <2>5, <2>6
<1> QED
  BY <1>1, <1>2

LEMMA BookAndCompleteIInv ==
    ASSUME TaskIInv, NEW c \in Completer, Completion!BookAndComplete(c)
    PROVE  TaskIInv'
<1> USE CompletionAssumption, SameSizes DEF Completion!TaskAssumption, TaskIInv
<1> DEFINE u == job[c]
           p == lines[job[c]]
<1>1. /\ completionPc[c] = "transaction" /\ completionPc'[c] = "publishing" /\ u \in Task
      /\ Completion!Book!BookPlan(p) /\ book' = book \o p
      /\ toPublish[c] = 0 /\ toPublish' = [toPublish EXCEPT ![c] = Len(p)]
      /\ row' = [row EXCEPT ![u] = IF Completion!Exists(u) THEN "completed" ELSE @]
      /\ UNCHANGED <<job, lines, creating, removing, pushed, reopens, completionFaults, overlapped>>
  BY DEF Completion!BookAndComplete, Completion!Goto, Completion!SetRow, Completion!Captured, Completion!TypeOK, BusyHasTask, OnlyPublishing, Completion!Book!BookPlan
<1>2. /\ p \in Seq(Completion!Line) /\ Len(p) \in Nat /\ (\A n \in 1..Len(p) : p[n].task = u)
      /\ Len(p) <= Len(LinesOf[u]) /\ (Len(p) > 0 => p = LinesOf[u])
  <2>1. p \in {<<>>, LinesOf[u]}
    BY <1>1 DEF Completion!TypeOK
  <2>2. /\ LinesOf[u] \in Seq(Completion!Line) /\ Len(LinesOf[u]) \in Nat
        /\ \A n \in 1..Len(LinesOf[u]) : LinesOf[u][n].task = u
    BY <1>1, LineFacts
  <2>3. <<>> \in Seq(Completion!Line) /\ Len(<<>>) = 0
    OBVIOUS
  <2> HIDE DEF u, p
  <2>4. CASE p = <<>>
    BY <2>2, <2>3, <2>4
  <2>5. CASE p = LinesOf[u]
    BY <2>2, <2>5
  <2> QED
    BY <2>1, <2>4, <2>5
<1>3. \A d \in Completer \ {c} : completionPc'[d] = completionPc[d] /\ job'[d] = job[d] /\ toPublish'[d] = toPublish[d]
  BY DEF Completion!BookAndComplete, Completion!Goto, Completion!TypeOK
<1>4. Completion!TypeOK'
  <2>1. stock' \in [1..NumItems -> Nat]
    BY <1>1, <1>2, BookPlanType DEF Completion!TypeOK
  <2>2. completionPc' \in [Completer -> Completion!CallState] /\ toPublish' \in [Completer -> Nat]
    BY <1>1, <1>2 DEF Completion!BookAndComplete, Completion!Goto, Completion!TypeOK, Completion!CallState
  <2>3. row' \in [Task -> Completion!RowState]
    BY <1>1 DEF Completion!TypeOK, Completion!RowState
  <2> QED
    BY <1>1, <2>1, <2>2, <2>3 DEF Completion!TypeOK
<1>5. /\ BookTyped'
      /\ \A t : Completion!Movements(t)' = Completion!Movements(t) + IF t = u THEN Len(p) ELSE 0
  <2>2. \A t : Completion!Movements(t)' = Cardinality(RowsOf(book', t)) /\ Completion!Movements(t) = Cardinality(RowsOf(book, t))
    BY SameSizes DEF Completion!Movements, RowsOf
  <2>3. book' = book \o p
    BY <1>1
  <2>1. p \in Seq(Completion!Line) /\ (\A n \in 1..Len(p) : p[n].task = u) /\ BookTyped
    BY <1>2
  <2> HIDE DEF u, p, TaskIInv
  <2>4. ASSUME NEW t
        PROVE  /\ Cardinality(RowsOf(book \o p, t)) = Cardinality(RowsOf(book, t)) + IF t = u THEN Len(p) ELSE 0
               /\ book \o p \in Seq(BookRow) /\ NumItems <= Len(book \o p)
    BY ONLY <2>1, BookedRows, Zenon
  <2> QED
    BY <2>2, <2>3, <2>4 DEF BookTyped
<1>6. toPublish'[c] = Len(p)
  BY <1>1 DEF Completion!TypeOK
<1> HIDE DEF p
<1>7. BusyHasTask' /\ OnlyPublishing'
  BY <1>1, <1>3 DEF BusyHasTask, OnlyPublishing
<1>8. LinesComeOnce'
  <2> SUFFICES ASSUME NEW t \in Task
               PROVE  /\ row'[t] = "absent" => lines[t] = <<>> /\ t \notin creating /\ Completion!Movements(t)' = 0
                      /\ t \in creating => lines[t] = <<>>
    BY <1>1 DEF LinesComeOnce
  <2>1. /\ row[t] = "absent" => lines[t] = <<>> /\ t \notin creating /\ Completion!Movements(t) = 0
        /\ t \in creating => lines[t] = <<>>
    BY DEF LinesComeOnce
  <2>2. row'[t] = "absent" => row[t] = "absent"
    BY <1>1 DEF Completion!TypeOK
  <2>3. lines[t] = <<>> /\ t = u => Len(p) = 0
    BY DEF p
  <2>4. lines[t] = <<>> => Completion!Movements(t)' = Completion!Movements(t)
    BY <1>2, <1>5, <2>3, MovementsType
  <2> QED
    BY <2>1, <2>2, <2>4
<1>9. Completion!PushesMatchMovements'
  <2>1. ASSUME NEW t \in Task
        PROVE  /\ pushed'[t] + Sending(c, t)' + Completion!Movements(t) <= pushed[t] + Sending(c, t) + Completion!Movements(t)'
               /\ completionFaults' = 0 => /\ completionFaults = 0
                                 /\ pushed'[t] + Sending(c, t)' + Completion!Movements(t)
                                      = pushed[t] + Sending(c, t) + Completion!Movements(t)'
    <3>1. Completion!Movements(t) \in Nat /\ pushed[t] \in Nat /\ completionFaults' = completionFaults /\ pushed' = pushed
      BY <1>1, MovementsType DEF Completion!TypeOK
    <3>2. Completion!Movements(t)' = Completion!Movements(t) + IF t = u THEN Len(p) ELSE 0
      BY <1>5
    <3>3. Sending(c, t) = 0 /\ Sending(c, t)' = IF t = u THEN Len(p) ELSE 0
      BY <1>1, <1>6 DEF Sending
    <3> QED
      BY <1>2, <3>1, <3>2, <3>3
  <2> QED
    BY <1>3, <1>4, <1>5, <2>1, PushesChange
<1>10. SerialMovesOnce'
  <2> SUFFICES ASSUME ~ overlapped PROVE OneAtATime' /\ \A t \in Task : MovedOnce(t)'
    BY <1>1 DEF SerialMovesOnce
  <2>1. OneAtATime /\ \A t \in Task : MovedOnce(t)
    BY DEF SerialMovesOnce
  <2>2. OneAtATime'
    BY <1>1, <1>3, <2>1 DEF OneAtATime
  <2>3. Completion!Movements(u) \in Nat /\ (Completion!Movements(u) > 0 => Len(p) = 0)
    <3>1. Completion!Movements(u) > 0 => lines[u] = <<>>
      BY <1>1, <2>1 DEF MovedOnce
    <3> QED
      BY <3>1, MovementsType DEF p
  <2>4. ASSUME NEW t \in Task PROVE MovedOnce(t)'
    <3>1. CASE t = u
      <4>1. Completion!Movements(t)' = Completion!Movements(t) + Len(p) /\ lines' = lines /\ Completion!Movements(t) <= Len(LinesOf[t])
        BY <1>1, <1>5, <2>1, <3>1 DEF MovedOnce
      <4>2. Completion!Movements(t)' <= Len(LinesOf[t])
        BY <1>2, <2>3, <3>1, <4>1
      <4>3. \A d \in Completer : ~ (job'[d] = t /\ completionPc'[d] \in {"read", "transaction", "reopenable"})
        <5>1. \A d \in Completer : d = c \/ completionPc'[d] = "idle"
          BY <1>1, <1>3, <2>1 DEF OneAtATime
        <5> QED
          BY <1>1, <3>1, <5>1
      <4>4. row'[t] # "open"
        BY <1>1, <3>1 DEF Completion!TypeOK, Completion!Exists
      <4>5. ASSUME Completion!Movements(t)' > 0
            PROVE  t \notin creating /\ (lines[t] = <<>> => t \in removing \/ row'[t] = "removed")
        <5>1. CASE Len(p) > 0
          <6>1. lines[t] # <<>>
            BY <1>2, <3>1, <5>1 DEF p
          <6> QED
            BY <1>1, <6>1 DEF LinesComeOnce
        <5>2. CASE Len(p) = 0
          <6>1. Completion!Movements(t) > 0
            BY <2>3, <3>1, <4>1, <4>5, <5>2
          <6>2. t \notin creating /\ (lines[t] = <<>> => t \in removing \/ row[t] = "removed")
            BY <1>1, <2>1, <6>1 DEF MovedOnce
          <6>3. row[t] = "removed" => row'[t] = "removed"
            BY <1>1, <3>1 DEF Completion!TypeOK, Completion!Exists
          <6> QED
            BY <6>2, <6>3
        <5> QED
          BY <1>2, <5>1, <5>2
      <4> HIDE DEF u, p
      <4> QED
        BY <1>1, <3>1, <4>2, <4>3, <4>4, <4>5 DEF MovedOnce
    <3>2. CASE t # u
      <4>1. Completion!Movements(t)' = Completion!Movements(t) /\ row'[t] = row[t]
        BY <1>1, <1>5, <3>2, MovementsType DEF Completion!TypeOK
      <4>2. MovedOnce(t) /\ \A d \in Completer : job'[d] = t => d # c
        BY <1>1, <2>1, <3>2
      <4> QED
        BY <1>1, <1>3, <4>1, <4>2 DEF MovedOnce
    <3> QED
      BY <3>1, <3>2
  <2> QED
    BY <2>2, <2>4
<1> QED
  BY <1>4, <1>5, <1>7, <1>8, <1>9, <1>10

LEMMA NextTaskIInv == TaskIInv /\ [Completion!Next]_(Completion!vars) => TaskIInv'
<1> SUFFICES ASSUME TaskIInv, [Completion!Next]_(Completion!vars) PROVE TaskIInv'
  OBVIOUS
<1>1. CASE UNCHANGED Completion!vars
  <2>1. UNCHANGED <<stock, book, row, lines, creating, removing, completionPc, job, toPublish, pushed, reopens, completionFaults, overlapped>>
    BY <1>1 DEF Completion!vars, Completion!taskVars, Completion!callVars
  <2>2. Completion!TypeOK' /\ BusyHasTask' /\ OnlyPublishing'
    BY <2>1 DEF TaskIInv, Completion!TypeOK, BusyHasTask, OnlyPublishing
  <2>3. BookTyped' /\ (\A t : Completion!Movements(t)' = Completion!Movements(t)) /\ (\A t : Completion!InFlight(t)' = Completion!InFlight(t))
    BY <2>1, SameMovements DEF TaskIInv, Completion!InFlight
  <2>4. LinesComeOnce' /\ SerialMovesOnce'
    BY <2>1, <2>3 DEF TaskIInv, LinesComeOnce, SerialMovesOnce, OneAtATime, MovedOnce
  <2>5. Completion!PushesMatchMovements'
    BY <2>1, <2>3, SameSizes DEF TaskIInv, Completion!PushesMatchMovements
  <2> QED
    BY <2>2, <2>3, <2>4, <2>5 DEF TaskIInv
<1>2. CASE Completion!Next
  <2>1. CASE \E t \in Task : \/ Completion!Create(t) \/ Completion!PersistInventoryLines(t)
                            \/ Completion!RemoveLines(t) \/ Completion!RemoveTask(t)
    BY <2>1, TaskRowsIInv
  <2>2. CASE \E c \in Completer : Completion!Publish(c)
    BY <2>2, PublishIInv
  <2>3. CASE \E c \in Completer : Completion!BookAndComplete(c)
    BY <2>3, BookAndCompleteIInv
  <2>4. CASE \E c \in Completer :
               \/ \E t \in Task : Completion!ReadTask(c, t) \/ Completion!ReadForReopen(c, t)
               \/ Completion!CountLines(c) \/ Completion!UpdateOnly(c) \/ Completion!TransactionFails(c)
               \/ Completion!Return(c) \/ Completion!CallDies(c)
               \/ Completion!AssertCanReopen(c) \/ Completion!Reopen(c)
    BY <2>4, QuietCallsIInv
  <2>5. CASE \E t \in Task :
               \/ Completion!Create(t) \/ Completion!PersistInventoryLines(t)
               \/ Completion!RemoveLines(t) \/ Completion!RemoveTask(t)
               \/ \E c \in Completer : Completion!ReadTask(c, t) \/ Completion!ReadForReopen(c, t)
    BY <2>5, <2>1, <2>4
  <2>6. CASE \E c \in Completer : Completion!Step(c) \/ Completion!CallDies(c)
    <3>1. PICK c \in Completer : Completion!Step(c) \/ Completion!CallDies(c)
      BY <2>6
    <3>2. CASE Completion!Publish(c)
      BY <3>2, <2>2
    <3>3. CASE Completion!BookAndComplete(c)
      BY <3>3, <2>3
    <3>4. CASE \/ Completion!CountLines(c) \/ Completion!UpdateOnly(c) \/ Completion!TransactionFails(c)
               \/ Completion!Return(c) \/ Completion!CallDies(c)
               \/ Completion!AssertCanReopen(c) \/ Completion!Reopen(c)
      BY <3>4, <2>4
    <3> QED
      BY <3>1, <3>2, <3>3, <3>4 DEF Completion!Step
  <2> QED
    BY <1>2, <2>5, <2>6 DEF Completion!Next
<1> QED
  BY <1>1, <1>2

LEMMA TaskIInvHolds ==
    TaskIInv => Completion!TypeOK /\ Completion!PushesMatchMovements /\ Completion!SerialCallsBookOnce /\ Completion!OpenTaskHasMovedNothing
<1> SUFFICES ASSUME TaskIInv
             PROVE  Completion!TypeOK /\ Completion!PushesMatchMovements /\ Completion!SerialCallsBookOnce /\ Completion!OpenTaskHasMovedNothing
  OBVIOUS
<1>1. Completion!TypeOK /\ Completion!PushesMatchMovements
  BY DEF TaskIInv
<1>2. Completion!SerialCallsBookOnce
  BY DEF TaskIInv, Completion!SerialCallsBookOnce, Completion!BookedOnce, SerialMovesOnce, MovedOnce
<1>3. Completion!OpenTaskHasMovedNothing
  <2> SUFFICES ASSUME ~ overlapped, NEW t \in Task, row[t] = "open", t \notin removing PROVE Completion!Movements(t) = 0
    BY DEF Completion!OpenTaskHasMovedNothing
  <2>1. MovedOnce(t) /\ Completion!Movements(t) \in Nat
    BY MovementsType DEF TaskIInv, SerialMovesOnce
  <2> QED
    BY <2>1 DEF MovedOnce
<1> QED
  BY <1>1, <1>2, <1>3

-----------------------------------------------------------------------------
(* The stock as a whole: the part that moves keeps its invariant, the other
   rests. *)
PartsIInv ==
    /\ part = "ledger" => IInv
    /\ part = "completion" => TaskIInv

LEMMA NextPartsIInv == PartsIInv /\ [PartsNext]_parts => PartsIInv'
<1> SUFFICES ASSUME PartsIInv, [PartsNext]_parts PROVE PartsIInv'
  OBVIOUS
<1>1. part' = part /\ (part = "ledger" => [Next]_vars)
      /\ (part = "completion" => [Completion!Next]_(Completion!vars))
  <2>1. CASE LedgerMoves(Next)
    BY <2>1 DEF LedgerMoves
  <2>2. CASE CompletionMoves(Completion!Next)
    BY <2>2 DEF CompletionMoves
  <2>3. CASE UNCHANGED parts
    BY <2>3 DEF parts, completionState, Completion!vars, Completion!taskVars, Completion!callVars
  <2> QED
    BY <2>1, <2>2, <2>3 DEF PartsNext
<1>2. ASSUME part = "ledger" PROVE IInv'
  BY <1>1, <1>2, NextIInv DEF PartsIInv
<1>3. ASSUME part = "completion" PROVE TaskIInv'
  BY <1>1, <1>3, NextTaskIInv DEF PartsIInv
<1> QED
  BY <1>1, <1>2, <1>3 DEF PartsIInv

(* PartsTypeOK, for every instance: the ledger's and the completion's variables
   have their types, and no stock is ever negative. *)
THEOREM StockTypes == PartsSpec => []PartsTypeOK
<1>1. PartsInit => PartsIInv
  BY InitIInv, InitTaskIInv DEF PartsInit, PartsIInv
<1>2. PartsIInv => PartsTypeOK
  BY DEF PartsIInv, PartsTypeOK, IInv, TaskIInv
<1> QED
  BY <1>1, <1>2, NextPartsIInv, PTL DEF PartsSpec

(* CompletionBooksOnce, for every instance: push events are published one for
   each movement booked, and none is lost unless a call died; as long as calls
   do not overlap, a task's lines are booked at most once, and a task that
   moved stock is open again only while it is being removed. *)
THEOREM StockCompletionBooksOnce == PartsSpec => []CompletionBooksOnce
<1>1. PartsInit => PartsIInv
  BY InitIInv, InitTaskIInv DEF PartsInit, PartsIInv
<1>2. PartsIInv => CompletionBooksOnce
  BY TaskIInvHolds DEF PartsIInv, CompletionBooksOnce
<1> QED
  BY <1>1, <1>2, NextPartsIInv, PTL DEF PartsSpec
=============================================================================
