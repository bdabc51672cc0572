--------------------------- MODULE InventoryLedger ---------------------------
(***************************************************************************)
(* Stock movements of the inventory: InventoryTransactionService, run in   *)
(* PostgreSQL transactions at READ COMMITTED.                              *)
(*                                                                         *)
(* A call is one transaction with a plan, the sequence of its movements: a *)
(* single one for recordStockIn/Out/Adjustment, several when a task with   *)
(* inventory lines is completed.  Each movement locks its item's row (FOR  *)
(* UPDATE), computes the next quantity from what it read, inserts a ledger *)
(* row and updates the item; the locks are held until commit or rollback.  *)
(* An item row has its committed version and, while a transaction holds    *)
(* the lock, the version that transaction wrote.  Quantities are integers: *)
(* multiples of the 4-decimal unit every quantity is rounded to.           *)
(***************************************************************************)
EXTENDS Integers, Sequences, FiniteSets

CONSTANTS
    NumItems,    \* items are 1..NumItems
    Call,        \* transactions that may be open at the same time
    NoCall,      \* nobody holds the lock
    Plans,       \* the sequences of movements a call may have to execute
    Opening,     \* Opening[i]: initial stock, booked as a STOCK_IN row
    Threshold,   \* Threshold[i]: reorder threshold, 0 when the item has none
    MaxFaults    \* bound on crashes, failed publishes and deactivations

Item == 1..NumItems
Kind == {"STOCK_IN", "STOCK_OUT", "ADJUSTMENT"}
Movement == [item : Item, kind : Kind, quantity : Int]

ASSUME LedgerAssumption ==
    /\ NumItems \in Nat
    /\ IsFiniteSet(Call)
    /\ NoCall \notin Call
    /\ Plans \subseteq Seq(Movement) \ {<<>>}
    /\ Opening \in [Item -> Nat]
    /\ Threshold \in [Item -> Nat]
    /\ MaxFaults \in Nat

VARIABLES
    committed,  \* committed[i]: current_quantity other transactions see
    written,    \* written[i]: current_quantity as the lock holder sees it
    active,     \* active[i]: is_active
    lock,       \* lock[i]: the call holding the row lock, or NoCall
    ledger,     \* committed rows of inventory_transactions, in commit order
    pc,         \* pc[c]: where call c is
    plan,       \* plan[c]: its movements
    rows,       \* rows[c]: ledger rows it inserted and has not committed
    read,       \* read[c]: quantity read with the lock of the current movement
    hooks,      \* hooks[c]: afterCommit hooks, the items to alert about
    alerts,     \* alerts[i]: low-stock events published for item i
    faults

items == <<committed, written, active, lock>>
calls == <<pc, plan, rows, read, hooks>>
vars == <<items, ledger, calls, alerts, faults>>

CallState == {"new", "running", "read", "committed", "done", "refused"}
Open(c) == pc[c] \in {"running", "read"}

(* What a movement adds to the item: storedQuantity is unsigned for stock in
   and stock out, signed for an adjustment. *)
Delta(m) == IF m.kind = "STOCK_OUT" THEN -m.quantity ELSE m.quantity

(* The promise to implement: a ledger that books whole plans in one step. *)
Book == INSTANCE StockBook WITH stock <- committed, book <- ledger

(* calculateQuantityFromTransactions: the signed sum over the item's rows,
   here of the first n rows. *)
LedgerQuantity(i, n) == Book!StockFrom(0, ledger, i, n)

Init ==
    /\ committed = Opening
    /\ written = Opening
    /\ active = [i \in Item |-> TRUE]
    /\ lock = [i \in Item |-> NoCall]
    /\ ledger = [i \in Item |-> [item |-> i, kind |-> "STOCK_IN", quantity |-> Opening[i]]]
    /\ pc = [c \in Call |-> "new"]
    /\ plan = [c \in Call |-> <<>>]
    /\ rows = [c \in Call |-> <<>>]
    /\ read = [c \in Call |-> 0]
    /\ hooks = [c \in Call |-> <<>>]
    /\ alerts = [i \in Item |-> 0]
    /\ faults = 0

-----------------------------------------------------------------------------
(* The movement a call is executing. *)
Current(c) == plan[c][Len(rows[c]) + 1]

Begin(c, p) ==
    /\ pc[c] = "new"
    /\ pc' = [pc EXCEPT ![c] = "running"]
    /\ plan' = [plan EXCEPT ![c] = p]
    /\ UNCHANGED <<items, ledger, rows, read, hooks, alerts, faults>>

HasMore(c) == Len(rows[c]) < Len(plan[c])

(* findItemById inside the transaction: SELECT ... FOR UPDATE waits for the
   row lock and then reads the row. *)
MayLock_Ignored(c, i) == TRUE
MayLock(c, i) == lock[i] \in {NoCall, c}

LockAndRead(c) ==
    /\ pc[c] = "running"
    /\ HasMore(c)
    /\ LET i == Current(c).item IN
        /\ MayLock(c, i)
        /\ active[i]
        /\ lock' = [lock EXCEPT ![i] = c]
        /\ read' = [read EXCEPT ![c] = written[i]]
    /\ pc' = [pc EXCEPT ![c] = "read"]
    /\ UNCHANGED <<committed, written, active, ledger, plan, rows, hooks, alerts, faults>>

NextQuantity(c) == read[c] + Delta(Current(c))

(* didCrossLowStockThreshold: only a STOCK_OUT, and only from not-low to low. *)
IsLow(q, i) == q < Threshold[i]
Crosses(m, before, after) ==
    /\ m.kind = "STOCK_OUT"
    /\ IsLow(after, m.item)
    /\ ~ IsLow(before, m.item)

Sufficient_Unchecked(c) == TRUE
Sufficient(c) == NextQuantity(c) >= 0

(* The row stores the signed quantity of an adjustment, else the amount. *)
StoredRow(m) == m

(* Insert the ledger row, update the item, register the afterCommit hook. *)
Write_AlertsAtOnce(c) ==
    /\ pc[c] = "read"
    /\ Sufficient(c)
    /\ LET m == Current(c) IN
        /\ rows' = [rows EXCEPT ![c] = Append(@, StoredRow(m))]
        /\ written' = [written EXCEPT ![m.item] = NextQuantity(c)]
        /\ alerts' = [alerts EXCEPT ![m.item] =
                        IF Crosses(m, read[c], NextQuantity(c)) THEN @ + 1 ELSE @]
    /\ pc' = [pc EXCEPT ![c] = "running"]
    /\ UNCHANGED <<committed, active, lock, ledger, plan, read, hooks, faults>>

Write(c) ==
    /\ pc[c] = "read"
    /\ Sufficient(c)
    /\ LET m == Current(c) IN
        /\ rows' = [rows EXCEPT ![c] = Append(@, StoredRow(m))]
        /\ written' = [written EXCEPT ![m.item] = NextQuantity(c)]
        /\ hooks' = [hooks EXCEPT ![c] =
                        IF Crosses(m, read[c], NextQuantity(c)) THEN Append(@, m.item) ELSE @]
    /\ pc' = [pc EXCEPT ![c] = "running"]
    /\ UNCHANGED <<committed, active, lock, ledger, plan, read, alerts, faults>>

Held(c) == {i \in Item : lock[i] = c}
Released(c) == [i \in Item |-> IF i \in Held(c) THEN NoCall ELSE lock[i]]

(* An exception inside the transaction callback rolls everything back. *)
Rollback_KeepsLedger(c) ==
    /\ written' = [i \in Item |-> IF i \in Held(c) THEN committed[i] ELSE written[i]]
    /\ lock' = Released(c)
    /\ ledger' = ledger \o rows[c]
    /\ pc' = [pc EXCEPT ![c] = "refused"]
    /\ rows' = [rows EXCEPT ![c] = <<>>]
    /\ hooks' = [hooks EXCEPT ![c] = <<>>]
    /\ read' = [read EXCEPT ![c] = 0]
    /\ UNCHANGED <<committed, active, plan, alerts>>

Rollback_KeepsLocks(c) ==
    /\ written' = [i \in Item |-> IF i \in Held(c) THEN committed[i] ELSE written[i]]
    /\ pc' = [pc EXCEPT ![c] = "refused"]
    /\ rows' = [rows EXCEPT ![c] = <<>>]
    /\ hooks' = [hooks EXCEPT ![c] = <<>>]
    /\ read' = [read EXCEPT ![c] = 0]
    /\ UNCHANGED <<committed, active, lock, ledger, plan, alerts>>

Rollback(c) ==
    /\ written' = [i \in Item |-> IF i \in Held(c) THEN committed[i] ELSE written[i]]
    /\ lock' = Released(c)
    /\ pc' = [pc EXCEPT ![c] = "refused"]
    /\ rows' = [rows EXCEPT ![c] = <<>>]
    /\ hooks' = [hooks EXCEPT ![c] = <<>>]
    /\ read' = [read EXCEPT ![c] = 0]
    /\ UNCHANGED <<committed, active, ledger, plan, alerts>>

(* 'Insufficient stock', or 'Cannot transact on inactive inventory item'. *)
Refuse(c) ==
    /\ \/ pc[c] = "read" /\ ~ Sufficient(c)
       \/ /\ pc[c] = "running"
          /\ HasMore(c)
          /\ MayLock(c, Current(c).item)
          /\ ~ active[Current(c).item]
    /\ Rollback(c)
    /\ UNCHANGED faults

(* PostgreSQL breaks a cycle of lock waits by failing one of the statements. *)
Waiting(c) ==
    /\ pc[c] = "running"
    /\ HasMore(c)
    /\ ~ MayLock(c, Current(c).item)
WaitsFor(c) == lock[Current(c).item]

DeadlockDetected(c) ==
    /\ \E S \in SUBSET {d \in Call : Waiting(d)} :
        c \in S /\ {WaitsFor(d) : d \in S} = S
    /\ Rollback(c)
    /\ UNCHANGED faults

Commit(c) ==
    /\ pc[c] = "running"
    /\ ~ HasMore(c)
    /\ committed' = [i \in Item |-> IF i \in Held(c) THEN written[i] ELSE committed[i]]
    /\ lock' = Released(c)
    /\ ledger' = ledger \o rows[c]
    /\ pc' = [pc EXCEPT ![c] = IF hooks[c] = <<>> THEN "done" ELSE "committed"]
    /\ read' = [read EXCEPT ![c] = 0]
    /\ UNCHANGED <<written, active, plan, rows, hooks, alerts, faults>>

(* The afterCommit hooks, one after the other; each swallows its errors. *)
NextHook(c) ==
    /\ pc[c] = "committed"
    /\ hooks' = [hooks EXCEPT ![c] = Tail(@)]
    /\ pc' = [pc EXCEPT ![c] = IF Len(hooks[c]) = 1 THEN "done" ELSE @]
    /\ UNCHANGED <<items, ledger, plan, rows, read>>

PublishAlert(c) ==
    /\ NextHook(c)
    /\ alerts' = [alerts EXCEPT ![Head(hooks[c])] = @ + 1]
    /\ UNCHANGED faults

Fault == faults < MaxFaults /\ faults' = faults + 1

PublishFails(c) == Fault /\ NextHook(c) /\ UNCHANGED alerts

(* The process dies: an open transaction is rolled back by the database, the
   hooks of a committed one are lost. *)
Crash(c) ==
    /\ Fault
    /\ \/ Open(c) /\ Rollback(c)
       \/ /\ pc[c] = "committed"
          /\ pc' = [pc EXCEPT ![c] = "done"]
          /\ hooks' = [hooks EXCEPT ![c] = <<>>]
          /\ UNCHANGED <<items, ledger, plan, rows, read, alerts>>

(* updateItem with is_active: an UPDATE of its own, which waits for the lock. *)
SetActive(i) ==
    /\ Fault
    /\ lock[i] = NoCall
    /\ active' = [active EXCEPT ![i] = ~ @]
    /\ UNCHANGED <<committed, written, lock, ledger, calls, alerts>>

-----------------------------------------------------------------------------
Step(c) ==
    \/ LockAndRead(c)
    \/ Write(c)
    \/ Refuse(c)
    \/ DeadlockDetected(c)
    \/ Commit(c)
    \/ PublishAlert(c)

Next ==
    \/ \E c \in Call :
        \/ \E p \in Plans : Begin(c, p)
        \/ Step(c)
        \/ PublishFails(c)
        \/ Crash(c)
    \/ \E i \in Item : SetActive(i)

Spec == Init /\ [][Next]_vars

(* A transaction that began goes on, and PostgreSQL grants a free row lock. *)
Fairness == \A c \in Call : WF_vars(Step(c))

FairSpec == Spec /\ Fairness

-----------------------------------------------------------------------------
TypeOK ==
    /\ committed \in [Item -> Nat]
    /\ written \in [Item -> Nat]
    /\ active \in [Item -> BOOLEAN]
    /\ lock \in [Item -> Call \union {NoCall}]
    /\ ledger \in Seq(Movement)
    /\ pc \in [Call -> CallState]
    /\ plan \in [Call -> Seq(Movement)]
    /\ rows \in [Call -> Seq(Movement)]
    /\ read \in [Call -> Int]
    /\ hooks \in [Call -> Seq(Item)]
    /\ alerts \in [Item -> Nat]
    /\ faults \in 0..MaxFaults

(* The stock a movement computed from is still the stock it overwrites. *)
NoLostUpdate ==
    \A c \in Call : pc[c] = "read" =>
        /\ lock[Current(c).item] = c
        /\ read[c] = written[Current(c).item]

(* Low-stock alerts agree with the committed ledger: one for every row that
   takes its item from not-low to low, none for a movement rolled back; only
   faults lose any. *)
Crossings(i) ==
    {n \in 1..Len(ledger) :
        /\ ledger[n].item = i
        /\ Crosses(ledger[n], LedgerQuantity(i, n - 1), LedgerQuantity(i, n))}

PendingAlerts(i) ==
    UNION {{c} \X {n \in 1..Len(hooks[c]) : hooks[c][n] = i} : c \in {c \in Call : pc[c] = "committed"}}

AlertsMatchCrossings ==
    \A i \in Item :
        LET told == alerts[i] + Cardinality(PendingAlerts(i)) IN
            /\ told <= Cardinality(Crossings(i))
            /\ faults = 0 => told = Cardinality(Crossings(i))

(* A transaction is committed or rolled back, even when transactions lock the
   same items in opposite orders. *)
CallsEnd == \A c \in Call : Open(c) ~> ~ Open(c)

(* The transactional movements implement a ledger that books whole plans in
   one step. *)
BooksAtomically == Book!Spec
=============================================================================
