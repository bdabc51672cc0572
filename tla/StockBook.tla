------------------------------ MODULE StockBook ------------------------------
(***************************************************************************)
(* What the inventory promises: a book of stock movements to which a whole *)
(* plan is added in one step or not at all, only when no item would be     *)
(* overdrawn on the way, with the stock always following the book.         *)
(***************************************************************************)
EXTENDS Integers, Sequences

CONSTANTS NumItems, Plans, Opening

VARIABLES stock, book

bookVars == <<stock, book>>

Change(m) == IF m.kind = "STOCK_OUT" THEN -m.quantity ELSE m.quantity

(* The stock of an item after the first n movements of s, if it was q before. *)
StockFrom(q, s, i, n) ==
    LET after[k \in 0..Len(s)] ==
            IF k = 0 THEN q
            ELSE IF s[k].item = i THEN after[k - 1] + Change(s[k]) ELSE after[k - 1]
    IN  after[n]

StockAfter(p, i, n) == StockFrom(stock[i], p, i, n)

Covered(p) == \A i \in 1..NumItems : \A n \in 1..Len(p) : StockAfter(p, i, n) >= 0

BookInit ==
    /\ stock = Opening
    /\ book = [i \in 1..NumItems |->
                  [item |-> i, kind |-> "STOCK_IN", quantity |-> Opening[i]]]

BookPlan(p) ==
    /\ Covered(p)
    /\ stock' = [i \in 1..NumItems |-> StockAfter(p, i, Len(p))]
    /\ book' = book \o p

BookNext == \E p \in Plans : BookPlan(p)

Spec == BookInit /\ [][BookNext]_bookVars
=============================================================================
