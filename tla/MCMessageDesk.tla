---------------------------- MODULE MCMessageDesk ----------------------------
(* A small instance of MessageDesk for TLC: two phrases, two steps. *)
EXTENDS MessageDesk, TLC

SmallSignals == "kaam ho gaya" :> {"done", "draft"} @@ "aaj main present" :> {"present"}
SmallPhrase == DOMAIN SmallSignals
SmallText == {{p} : p \in SmallPhrase}
=============================================================================
