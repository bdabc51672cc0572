------------------------------- MODULE MCZoho --------------------------------
(* The traffic with Zoho, for TLC. *)
EXTENDS ZohoTraffic, TLC

CONSTANTS mapped, unmapped, h1, h2, t1, t2, none, i1, i2, s1, s2, s3, nightly, user

TwoMovements == {mapped, unmapped}
MappedOnly == {mapped}
TwoHandlers == {h1, h2}
TwoTicks == {t1, t2}

(* Two items at Zoho, one of them in stock, and a SKU that an inventory item of
   the factory's own has. *)
Items == {i1, i2}
Skus == {s1, s2, s3}
SkuOf == i1 :> s1 @@ i2 :> s2
OwnSkus == {s3}
Stocked == {i1}
OneCron == {nightly}
OneUser == {user}
==============================================================================
