------------------------------ MODULE Migrations ------------------------------
(***************************************************************************)
(* The gate in front of the backend: migration-runner.mjs, called by       *)
(* docker-entrypoint.mjs (or main.ts) before NestJS starts, by the         *)
(* apply-migrations job, and run-one-migration.mjs by hand.                *)
(*                                                                         *)
(* The files are numbered in the order of their names.  PostgreSQL runs    *)
(* one file as one transaction; the row in schema_migrations is written    *)
(* after it.  Several processes may be at it at once: nothing locks.       *)
(***************************************************************************)
EXTENDS Naturals, FiniteSets

CONSTANTS
    Server, Job,  \* containers of the backend; runs of apply-migrations
    Image,        \* Image[p]: how many of the files process p was built with
    MaxFaults,    \* bound on failed files and dying processes
    MaxByHand     \* bound on files run by hand

VARIABLES
    applied,   \* files whose statements took effect
    recorded,  \* filenames in schema_migrations
    proc,      \* proc[p]: where process p is, and at which file
    auto,      \* auto[p]: AUTO_MIGRATE is not 0
    dry,       \* dry[p]: DRY_RUN is 1 (of one process at most)
    byHand,    \* files that were run by hand
    jobs,      \* jobs that were started
    faults

migrationVars == <<applied, recorded, proc, auto, dry, byHand, jobs, faults>>

Process == Server \union Job
Files(p) == 1..Image[p]
AllFiles == UNION {Files(p) : p \in Process}

MigrationsAssumption ==
    /\ Server \intersect Job = {} /\ IsFiniteSet(Process)
    /\ Image \in [Process -> Nat]
    /\ MaxFaults \in Nat /\ MaxByHand \in Nat

Stopped == [at |-> "stopped", file |-> 0, fresh |-> FALSE]
AtFile(f) == [at |-> "check", file |-> f, fresh |-> FALSE]

Goes(p, state) == proc' = [proc EXCEPT ![p] = state]

Init ==
    /\ applied = {} /\ recorded = {} /\ byHand = {} /\ jobs = {}
    /\ proc = [p \in Process |-> Stopped]
    /\ auto \in [Process -> BOOLEAN] /\ \A j \in Job : auto[j]
    /\ \E q \in SUBSET Process : Cardinality(q) <= 1 /\ dry = [p \in Process |-> p \in q]
    /\ faults = 0

-----------------------------------------------------------------------------
(* A container starts, and starts again when its process ended; a job runs
   once. *)
Start(p) ==
    /\ proc[p] = Stopped
    /\ IF p \in Server
       THEN Goes(p, [Stopped EXCEPT !.at = "status"]) /\ UNCHANGED jobs
       ELSE p \notin jobs /\ jobs' = jobs \union {p} /\ Goes(p, AtFile(1))
    /\ UNCHANGED <<applied, recorded, auto, dry, byHand, faults>>

(* bootstrapMigrations: nothing to do, or not allowed to. *)
ReadStatus(p) ==
    /\ proc[p].at = "status"
    /\ Goes(p, IF Files(p) \subseteq recorded THEN [Stopped EXCEPT !.at = "up"]
               ELSE IF auto[p] THEN AtFile(1) ELSE Stopped)
    /\ UNCHANGED <<applied, recorded, auto, dry, byHand, jobs, faults>>

(* runPendingMigrations reaches a file, or the end: the server starts, the job
   is over. *)
Check(p) ==
    LET f == proc[p].file IN
    /\ proc[p].at = "check"
    /\ Goes(p, IF f \notin Files(p)
               THEN IF p \in Server THEN [Stopped EXCEPT !.at = "up"] ELSE Stopped
               ELSE IF f \in recorded \/ dry[p] THEN AtFile(f + 1)
               ELSE [at |-> "run", file |-> f, fresh |-> f \notin applied])
    /\ UNCHANGED <<applied, recorded, auto, dry, byHand, jobs, faults>>

(* The file is committed; one that took effect before is run again (IF NOT
   EXISTS). *)
Apply(p) ==
    /\ proc[p].at = "run"
    /\ applied' = applied \union {proc[p].file}
    /\ Goes(p, [proc[p] EXCEPT !.at = "record"])
    /\ UNCHANGED <<recorded, auto, dry, byHand, jobs, faults>>

(* What runPendingMigrations does after a failure (stopOnError): the process
   ends, and with it its transaction. *)
AfterFailure_GoesOn(p) == AtFile(proc[p].file + 1)
AfterFailure(p) == Stopped

(* Another process created the same objects while this one was at it. *)
Collide(p) ==
    /\ proc[p].at = "run" /\ proc[p].fresh /\ proc[p].file \in applied
    /\ Goes(p, AfterFailure(p))
    /\ UNCHANGED <<applied, recorded, auto, dry, byHand, jobs, faults>>

FileFails(p) ==
    /\ proc[p].at = "run" /\ faults < MaxFaults
    /\ faults' = faults + 1
    /\ Goes(p, AfterFailure(p))
    /\ UNCHANGED <<applied, recorded, auto, dry, byHand, jobs>>

(* The filename is unique: who comes second fails. *)
Record(p) ==
    LET f == proc[p].file IN
    /\ proc[p].at = "record"
    /\ recorded' = recorded \union {f}
    /\ Goes(p, IF f \in recorded THEN AfterFailure(p) ELSE AtFile(f + 1))
    /\ UNCHANGED <<applied, auto, dry, byHand, jobs, faults>>

Die(p) ==
    /\ proc[p] # Stopped /\ faults < MaxFaults
    /\ faults' = faults + 1
    /\ Goes(p, Stopped)
    /\ UNCHANGED <<applied, recorded, auto, dry, byHand, jobs>>

(* run-one-migration.mjs: any file, and no record of it. *)
RunOne(f) ==
    /\ Cardinality(byHand) < MaxByHand
    /\ byHand' = byHand \union {f} /\ applied' = applied \union {f}
    /\ UNCHANGED <<recorded, proc, auto, dry, jobs, faults>>

Step(p) == Start(p) \/ ReadStatus(p) \/ Check(p) \/ Apply(p) \/ Collide(p) \/ Record(p)

Next ==
    \/ \E p \in Process : Step(p) \/ FileFails(p) \/ Die(p)
    \/ \E f \in AllFiles : RunOne(f)

(* Containers are started again (restartPolicyType, unless-stopped). *)
Spec == Init /\ [][Next]_migrationVars /\ \A p \in Process : WF_migrationVars(Step(p))

-----------------------------------------------------------------------------
TypeOK ==
    /\ applied \subseteq AllFiles /\ recorded \subseteq AllFiles /\ byHand \subseteq AllFiles
    /\ \A p \in Process :
        /\ proc[p].at \in {"stopped", "status", "check", "run", "record", "up"}
        /\ proc[p].file \in 0..Image[p] + 1 /\ proc[p].fresh \in BOOLEAN
    /\ auto \in [Process -> BOOLEAN] /\ dry \in [Process -> BOOLEAN]
    /\ jobs \subseteq Job /\ faults \in 0..MaxFaults

(* A server that is up has the whole schema of its image under it, whoever
   migrated it and whatever died on the way, unless it was told to try only
   (DRY_RUN); and a file takes effect after those before it, unless it was run
   by hand. *)
ServesOnWholeSchema ==
    /\ \A p \in Server : proc[p].at = "up" /\ ~dry[p] => Files(p) \subseteq applied \intersect recorded
    /\ recorded \subseteq applied
    /\ \A f \in applied \ byHand : 1..(f - 1) \subseteq applied

(* A server that may migrate comes up and stays up, whoever else migrates, once
   no more processes die and no more files fail. *)
EveryServerUp == \A p \in Server : auto[p] => proc[p].at = "up"
=============================================================================
