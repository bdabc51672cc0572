------------------------------- MODULE MCTasks -------------------------------
(* Tasks, for TLC. *)
EXTENDS Tasks, TLC

CONSTANTS owner, m1, m2, w1, nobody, d1, d2, nodept, c1, c2, a1, b1, t1

(* An owner, two managers who head a department each, and a worker of the
   first department. *)
People == {owner, m1, m2, w1}
Depts == {d1, d2}
Roles ==
    [p \in Person |-> CASE p = owner -> "OWNER" [] p \in {m1, m2} -> "MANAGER" [] OTHER -> "WORKER"]
Attached == [p \in Person |-> IF p = w1 THEN d1 ELSE nodept]
Heads == [d \in Dept |-> IF d = d1 THEN m1 ELSE m2]
Calls == {c1, c2}

(* The members of the team, one of another factory, and the list of people a
   task may be given to. *)
Accounts == {owner, a1, b1}
Others == {b1}
OneTask == {t1}
Colleagues == {m1, m2}

(* Two calls differ by nothing but their name. *)
Symmetric == Permutations(Calls)

(* Phrases and the expressions they match; a text is one of them, or a deed and
   another of them. *)
SignalsOf ==
    "50 bori order chahiye" :> {"buying", "department", "draft", "explicit request", "number",
        "procurement", "shortage", "slug"} @@
    "task 5" :> {"any task id", "draft", "id", "number", "task", "task id", "task number"} @@
    "@ravi" :> {"mention", "worker name"} @@
    "task 5 progress update" :> {"any task id", "draft", "id", "number", "progress", "task", "task id",
        "task number"} @@
    "kaam ho gaya" :> {"done", "draft"} @@
    "resolve issue 5" :> {"number", "resolve"} @@
    "machine kharab hai" :> {"department", "draft", "issue", "slug", "trouble"} @@
    "aaj main present" :> {"present"} @@
    "dispatch ready" :> {"department", "draft", "slug", "vendor note"} @@
    "aaj leave chahiye" :> {"absent", "explicit request"} @@
    "ravi ko safai do" :> {"instruction", "person"} @@
    "customer ko inform karo" :> {"action", "department", "instruction", "no person", "slug"}

Deeds == {"kaam ho gaya", "resolve issue 5", "aaj main present", "ravi ko safai do"}

Phrases == DOMAIN SignalsOf

Texts == {{p, q} : p \in DOMAIN SignalsOf, q \in Deeds} \union {{p} : p \in DOMAIN SignalsOf}
==============================================================================
