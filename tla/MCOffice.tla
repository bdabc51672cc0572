------------------------------ MODULE MCOffice -------------------------------
(* Office, for TLC. *)
EXTENDS Office, TLC

CONSTANTS c1, c2, v1, v2, win1, win2, none

TwoCalls == {c1, c2}
Vendors == {v1, v2}
Windows == {win1, win2}

(* Two calls differ by nothing but their name, nor do two windows. *)
Symmetric == {f @@ g : f \in Permutations(TwoCalls), g \in Permutations(Windows)}

(* A file with an item to stock and one without, and a file with one SKU twice. *)
InFile(s, q) == [sku |-> s, place |-> "p1", quantity |-> q]
Files ==
    [f \in {"f1", "f2"} |->
        IF f = "f1" THEN <<InFile("s1", 1), InFile("s2", 0)>> ELSE <<InFile("s1", 1), InFile("s1", 1)>>]

(* Hints that are part of two names, and some that are close to a name. *)
ItemFits == [h \in {"a", "b"} |-> IF h = "a" THEN <<3, 3>> ELSE <<5, 4>>]
MemberFits == [h \in {"a", "b"} |-> IF h = "a" THEN <<2, 2>> ELSE <<0, 3>>]

(* Two factories, a row of every register in the first. *)
Plain == [name |-> "a", spelling |-> "OIL", phone |-> "", active |-> TRUE, category |-> 0, location |-> 0]
RowsAtFirst ==
    <<[kind |-> "category", factory |-> "f1"] @@ Plain, [kind |-> "location", factory |-> "f1"] @@ Plain,
      [kind |-> "category", factory |-> "f2"] @@ Plain,
      [kind |-> "vendor", factory |-> "f1", phone |-> "p"] @@ Plain,
      [kind |-> "item", factory |-> "f1", category |-> 1, location |-> 2] @@ Plain>>

(* Of two alerts for different items, one handler may run twice; the owner's
   phone comes first, the head's is told once. *)
AlertItem == [low1 |-> "oil", low2 |-> "belt", sync |-> "sync"]
OwnerPhones == <<"owner", "head">>
HeadPhones == <<"head">>
==============================================================================
