---------------------------- MODULE MCBackground -----------------------------
(* What runs behind the chat, for TLC. *)
EXTENDS Background, TLC

CONSTANTS w1, w2, identity, managers, t1, o, m, wk, new, old, once

TwoWorkers == {w1, w2}

(* Event 2 has a type without a handler (onboarding.registered). *)
FirstRouted == {1}

(* The topics of the interview; the second is told once per manager. *)
Topics == {identity, managers}
PerPerson == {managers}

(* An owner, a manager and a worker who goes by the same name. *)
OneTask == {t1}
People == {o, m, wk}
RoleOf == o :> "OWNER" @@ m :> "MANAGER" @@ wk :> "WORKER"
NameOf == o :> "asha" @@ m :> "ravi" @@ wk :> "ravi"

(* A rollout: the new image has a file more than the old one. *)
Servers == {new, old}
OneJob == {once}
ImageOf == new :> 2 @@ old :> 1 @@ once :> 2
==============================================================================
