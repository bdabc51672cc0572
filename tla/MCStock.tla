------------------------------- MODULE MCStock -------------------------------
(* Stock, for TLC. *)
EXTENDS Stock, TLC

CONSTANTS c1, c2, c3, none

In(i, q) == [item |-> i, kind |-> "STOCK_IN", quantity |-> q]
Out(i, q) == [item |-> i, kind |-> "STOCK_OUT", quantity |-> q]
Adjust(i, q) == [item |-> i, kind |-> "ADJUSTMENT", quantity |-> q]

(* Two-line completions that lock the items in opposite orders, one that uses
   the same item twice, and single movements of every kind. *)
MCPlans ==
    { <<Out(1, 1), Out(2, 2)>>, <<Out(2, 1), In(1, 2)>>, <<Out(1, 2), Out(1, 1)>>,
      <<Adjust(1, -1)>>, <<Adjust(2, 1)>> }
MCOpening == <<3, 2>>
MCThreshold == <<2, 2>>
ThreeCalls == {c1, c2, c3}

(* A delivery moves two items; the other task has a TRANSFER line, which is refused. *)
MCTasks == {"delivery", "transfer"}
TaskLine(t, i, k) == [item |-> i, kind |-> k, quantity |-> 1, task |-> t]
MCLinesOf ==
    [t \in MCTasks |->
        <<TaskLine(t, 1, "STOCK_OUT"),
          TaskLine(t, 2, IF t = "delivery" THEN "STOCK_IN" ELSE "TRANSFER")>>]

(* "Call only when transitioning is_completed false -> true" (TaskCompletion). *)
BookedOnce == part = "completion" => Completion!BookedOnce
==============================================================================
