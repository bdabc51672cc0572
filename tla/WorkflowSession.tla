-------------------------- MODULE WorkflowSession --------------------------
(***************************************************************************)
(* Multi-step WhatsApp workflows of one phone number (WorkflowSession-     *)
(* Service, WorkflowEngineService).                                        *)
(*                                                                         *)
(* A session asks for answers one step at a time; the answer to one step   *)
(* makes something (a vendor, a task, a purchase request), and steps after *)
(* it may ask what becomes of that.  Messages are handled as they arrive,  *)
(* so that handlers of several messages, and the hourly sweep, overlap:    *)
(* each resolves the active session, works on that copy, reads the row     *)
(* again and updates the columns that differ.                              *)
(***************************************************************************)
EXTENDS Integers, Sequences, FiniteSets

CONSTANTS
    Msg,            \* handlers of incoming messages that may overlap
    NumSteps,       \* steps of the workflow
    MakeAt,         \* the step whose answer makes the thing
    MaxSessions, MaxMessages, MaxStale, MaxSweeps, MaxCrashes  \* bounds

ASSUME WorkflowAssumption ==
    /\ "sweep" \notin Msg
    /\ NumSteps \in Nat \ {0} /\ MakeAt \in 1..NumSteps
    /\ {MaxSessions, MaxMessages, MaxStale, MaxSweeps, MaxCrashes} \subseteq Nat

VARIABLES
    session,    \* workflow_sessions; fresh: active within the TTL
    made,       \* made[s]: what was made in session s: of which answers, and
                \* whether its maker came to the end or broke off half way
    pc, asks,   \* where a handler is and what its message asks for
    id,         \* the session it resolved
    copy,       \* that session as it was read
    result,     \* what handleStep returned, or the terminal status to set
    seen,       \* the row read again before the update
    due,        \* sessions the sweep still has to expire
    messages, stales, sweeps, crashes,
    overlapped  \* a handler or a sweep began while another was under way

handler == <<pc, asks, id, copy, result, seen>>
budget == <<messages, stales, sweeps, crashes>>
vars == <<session, made, handler, due, budget, overlapped>>

Sweep == "sweep"
Actor == Msg \union {Sweep}
Step == 1..NumSteps
Terminal == {"COMPLETED", "CANCELLED", "EXPIRED"}
Session == [status : {"ACTIVE"} \union Terminal, step : Step, data : SUBSET Step, fresh : BOOLEAN]
NewSession == [status |-> "ACTIVE", step |-> 1, data |-> {}, fresh |-> TRUE]
NoResult == [status |-> "ACTIVE", step |-> 1, data |-> {}]
Ids == 1..MaxSessions

Init ==
    /\ session = <<>>
    /\ made = [s \in Ids |-> <<>>]
    /\ pc = [a \in Actor |-> "idle"]
    /\ asks = [a \in Actor |-> "nothing"]
    /\ id = [a \in Actor |-> 0]
    /\ copy = [a \in Actor |-> NewSession]
    /\ result = [a \in Actor |-> NoResult]
    /\ seen = [a \in Actor |-> NewSession]
    /\ due = {}
    /\ messages = 0
    /\ stales = 0
    /\ sweeps = 0
    /\ crashes = 0
    /\ overlapped = FALSE

-----------------------------------------------------------------------------
Active == {s \in DOMAIN session : session[s].status = "ACTIVE"}

(* getActiveSession: the latest one. *)
ActiveSession == CHOOSE s \in Active : \A t \in Active : t <= s

(* isExpired. *)
IsExpired_OnlyAnswered(r) == ~r.fresh /\ r.step > 1

IsExpired(r) == ~r.fresh

Idle(a) ==
    /\ pc' = [pc EXCEPT ![a] = "idle"]
    /\ asks' = [asks EXCEPT ![a] = "nothing"]
    /\ id' = [id EXCEPT ![a] = 0]
    /\ copy' = [copy EXCEPT ![a] = NewSession]
    /\ result' = [result EXCEPT ![a] = NoResult]
    /\ seen' = [seen EXCEPT ![a] = NewSession]

Terminate(a, s, status) ==
    /\ pc' = [pc EXCEPT ![a] = "saving"]
    /\ id' = [id EXCEPT ![a] = s]
    /\ result' = [result EXCEPT ![a] = [NoResult EXCEPT !.status = status]]
    /\ UNCHANGED <<asks, copy, seen>>

(* A message arrives: a command that starts a workflow, /cancel, an answer. *)
Receive(m, what) ==
    /\ pc[m] = "idle"
    /\ messages < MaxMessages
    /\ messages' = messages + 1
    /\ pc' = [pc EXCEPT ![m] = "received"]
    /\ asks' = [asks EXCEPT ![m] = what]
    /\ overlapped' = (overlapped \/ due # {} \/ \E a \in Actor \ {m} : pc[a] # "idle")
    /\ UNCHANGED <<session, made, id, copy, result, seen, due, stales, sweeps, crashes>>

(* resolveActiveSession: an expired session is expired for good, a fresh one
   is handed to the handler. *)
Resolve(m) ==
    /\ pc[m] = "received"
    /\ IF Active = {}
       THEN IF asks[m] = "start"
            THEN pc' = [pc EXCEPT ![m] = "creating"] /\ UNCHANGED <<asks, id, copy, result, seen>>
            ELSE Idle(m)
       ELSE IF IsExpired(session[ActiveSession]) THEN Terminate(m, ActiveSession, "EXPIRED")
       ELSE IF asks[m] = "cancel" THEN Terminate(m, ActiveSession, "CANCELLED")
       ELSE IF asks[m] = "start" THEN Idle(m)
       ELSE /\ pc' = [pc EXCEPT ![m] = "handling"]
            /\ id' = [id EXCEPT ![m] = ActiveSession]
            /\ copy' = [copy EXCEPT ![m] = session[ActiveSession]]
            /\ UNCHANGED <<asks, result, seen>>
    /\ UNCHANGED <<session, made, due, budget, overlapped>>

(* createSession, once no active session was found; the partial unique index
   on the phone number has the last word. *)
MayInsert == Active = {}

Create(m) ==
    /\ pc[m] = "creating"
    /\ IF MayInsert /\ Len(session) < MaxSessions
       THEN session' = Append(session, NewSession)
       ELSE UNCHANGED session
    /\ Idle(m)
    /\ UNCHANGED <<made, due, budget, overlapped>>

-----------------------------------------------------------------------------
Returns(m, status, step, data) ==
    /\ pc' = [pc EXCEPT ![m] = "saving"]
    /\ result' = [result EXCEPT ![m] = [status |-> status, step |-> step, data |-> data]]
    /\ UNCHANGED <<session, asks, id, copy, seen, due, budget, overlapped>>

(* handleStep: an answer is refused and the question asked again ... *)
Reprompt(m) ==
    /\ pc[m] = "handling"
    /\ Returns(m, "ACTIVE", copy[m].step, copy[m].data)
    /\ UNCHANGED made

(* ... or taken down ... *)
NextData(r) == r.data \union {r.step}

Answer_PastLast(m) ==
    /\ pc[m] = "handling"
    /\ copy[m].step # MakeAt
    /\ Returns(m, "ACTIVE", copy[m].step + 1, NextData(copy[m]))
    /\ UNCHANGED made

Answer(m) ==
    /\ pc[m] = "handling"
    /\ copy[m].step < NumSteps /\ copy[m].step # MakeAt
    /\ Returns(m, "ACTIVE", copy[m].step + 1, NextData(copy[m]))
    /\ UNCHANGED made

(* ... one of them makes the thing asked for, and either nothing more is to be
   said about it or the next question is asked ... *)
Makes(m, as) == made' = [made EXCEPT ![id[m]] = Append(@, [of |-> NextData(copy[m]), as |-> as])]

Make_StaysActive(m) ==
    /\ pc[m] = "handling"
    /\ copy[m].step = MakeAt
    /\ Makes(m, "whole")
    /\ Returns(m, "ACTIVE", MakeAt, NextData(copy[m]))

Make(m) ==
    /\ pc[m] = "handling"
    /\ copy[m].step = MakeAt
    /\ Makes(m, "whole")
    /\ \/ Returns(m, "COMPLETED", MakeAt, NextData(copy[m]))
       \/ MakeAt < NumSteps /\ Returns(m, "ACTIVE", MakeAt + 1, NextData(copy[m]))

(* ... or fails: the handler goes back to an earlier question or throws, and what
   it had written by then (a task without its lines) stays ... *)
GoesBack(m) ==
    \E k \in 1..MakeAt, data \in {copy[m].data, NextData(copy[m])} :
        Returns(m, "ACTIVE", k, IF k < MakeAt THEN data \ {k} ELSE data)

Throws(m) == Idle(m) /\ UNCHANGED <<session, due, budget, overlapped>>

MakeFails(m) ==
    /\ pc[m] = "handling"
    /\ copy[m].step = MakeAt
    /\ UNCHANGED made \/ Makes(m, "broken")
    /\ GoesBack(m) \/ Throws(m)

(* ... and the last one about it ends the session ... *)
Finish(m) ==
    /\ pc[m] = "handling"
    /\ copy[m].step > MakeAt
    /\ Returns(m, "COMPLETED", copy[m].step, copy[m].data)
    /\ UNCHANGED made

(* ... or the user declines. *)
Decline(m) ==
    /\ pc[m] = "handling"
    /\ copy[m].step <= MakeAt
    /\ Returns(m, "CANCELLED", copy[m].step, copy[m].data)
    /\ UNCHANGED made

-----------------------------------------------------------------------------
(* updateSession and setTerminalStatus: the row is read again; what is no
   longer active is left alone ... *)
Reread(a) ==
    /\ pc[a] = "saving"
    /\ IF session[id[a]].status = "ACTIVE"
       THEN /\ pc' = [pc EXCEPT ![a] = "updating"]
            /\ seen' = [seen EXCEPT ![a] = session[id[a]]]
            /\ UNCHANGED <<asks, id, copy, result>>
       ELSE Idle(a)
    /\ UNCHANGED <<session, made, due, budget, overlapped>>

(* ... and otherwise the columns that differ are written.  Without any, not
   even updated_at is. *)
Column(new, read, current) == IF new = read THEN current ELSE new

Updated(r, read, current) ==
    IF r.status # "ACTIVE" THEN [current EXCEPT !.status = r.status, !.fresh = TRUE]
    ELSE [current EXCEPT !.step = Column(r.step, read.step, @),
                         !.data = Column(r.data, read.data, @),
                         !.fresh = @ \/ r.step # read.step \/ r.data # read.data]

Update(a) ==
    /\ pc[a] = "updating"
    /\ session' = [session EXCEPT ![id[a]] = Updated(result[a], seen[a], @)]
    /\ Idle(a)
    /\ UNCHANGED <<made, due, budget, overlapped>>

(* expireStaleActiveSessions: read all, then expire them one by one. *)
SweepReads ==
    /\ pc[Sweep] = "idle"
    /\ due = {}
    /\ sweeps < MaxSweeps
    /\ due' = {s \in Active : IsExpired(session[s])}
    /\ due' # {}
    /\ sweeps' = sweeps + 1
    /\ overlapped' = (overlapped \/ \E a \in Actor : pc[a] # "idle")
    /\ UNCHANGED <<session, made, handler, messages, stales, crashes>>

SweepExpires ==
    /\ pc[Sweep] = "idle"
    /\ \E s \in due :
        /\ due' = due \ {s}
        /\ Terminate(Sweep, s, "EXPIRED")
    /\ UNCHANGED <<session, made, budget, overlapped>>

(* The TTL passes without activity. *)
GoesStale ==
    /\ stales < MaxStale
    /\ \E s \in Active : session[s].fresh /\ session' = [session EXCEPT ![s].fresh = FALSE]
    /\ stales' = stales + 1
    /\ UNCHANGED <<made, handler, due, messages, sweeps, crashes, overlapped>>

(* Handlers stop where they are: all of them with the process, or one whose
   database or other service fails it; a sweep that stops leaves the rest. *)
Stop(A) ==
    /\ crashes < MaxCrashes
    /\ \E a \in A : pc[a] # "idle"
    /\ pc' = [a \in Actor |-> IF a \in A THEN "idle" ELSE pc[a]]
    /\ asks' = [a \in Actor |-> IF a \in A THEN "nothing" ELSE asks[a]]
    /\ id' = [a \in Actor |-> IF a \in A THEN 0 ELSE id[a]]
    /\ copy' = [a \in Actor |-> IF a \in A THEN NewSession ELSE copy[a]]
    /\ result' = [a \in Actor |-> IF a \in A THEN NoResult ELSE result[a]]
    /\ seen' = [a \in Actor |-> IF a \in A THEN NewSession ELSE seen[a]]
    /\ due' = IF Sweep \in A THEN {} ELSE due
    /\ crashes' = crashes + 1
    /\ UNCHANGED <<session, made, messages, stales, sweeps, overlapped>>

Crash == Stop(Actor)

Fail(a) == Stop({a})

Handle(m) ==
    Resolve(m) \/ Create(m) \/ Reprompt(m) \/ Answer(m) \/ Make(m) \/ MakeFails(m) \/
    Finish(m) \/ Decline(m)

Save(a) == Reread(a) \/ Update(a)

Next ==
    \/ \E m \in Msg :
        \/ \E what \in {"start", "cancel", "answer"} : Receive(m, what)
        \/ Handle(m)
    \/ \E a \in Actor : Save(a)
    \/ SweepReads \/ SweepExpires
    \/ GoesStale
    \/ Crash \/ \E a \in Actor : Fail(a)

Spec == Init /\ [][Next]_vars

(* The sweep runs every hour and the handlers go on. *)
FairSpec ==
    /\ Spec
    /\ WF_vars(SweepReads) /\ WF_vars(SweepExpires)
    /\ \A m \in Msg : WF_vars(Handle(m))
    /\ \A a \in Actor : WF_vars(Save(a))

-----------------------------------------------------------------------------
TypeOK ==
    /\ session \in Seq(Session) /\ Len(session) <= MaxSessions
    /\ made \in [Ids -> Seq([of : SUBSET Step, as : {"whole", "broken"}])]
    /\ pc \in [Actor -> {"idle", "received", "creating", "handling", "saving", "updating"}]
    /\ asks \in [Actor -> {"nothing", "start", "cancel", "answer"}]
    /\ id \in [Actor -> 0..MaxSessions]
    /\ copy \in [Actor -> Session]
    /\ result \in [Actor -> [status : {"ACTIVE"} \union Terminal, step : Step, data : SUBSET Step]]
    /\ seen \in [Actor -> Session]
    /\ due \in SUBSET Ids
    /\ messages \in 0..MaxMessages
    /\ stales \in 0..MaxStale
    /\ sweeps \in 0..MaxSweeps
    /\ crashes \in 0..MaxCrashes
    /\ overlapped \in BOOLEAN

(* A session is completed, and asks what is to become of the thing, only after
   the thing was made to the end, whatever overlaps; and nothing is made of fewer
   answers than were asked for, as long as handlers do not overlap (they write
   step and answers apart). *)
WasMade(s) == \E n \in DOMAIN made[s] : made[s][n].as = "whole"

CompletedWasMade ==
    /\ \A s \in DOMAIN session :
        session[s].status = "COMPLETED" \/ session[s].step > MakeAt => WasMade(s)
    /\ ~overlapped => \A s \in Ids : \A n \in DOMAIN made[s] : 1..MakeAt \subseteq made[s][n].of

(* "creates exactly one task when confirm is sent twice": once the thing was made
   to the end, the session makes nothing more, as long as handlers do not overlap
   and none dies.  An attempt that failed may have left something before it. *)
MadeAtMostOnce ==
    ~overlapped /\ crashes = 0 =>
        \A s \in Ids : \A n \in DOMAIN made[s] : made[s][n].as = "whole" => n = Len(made[s])

(* A session that was cancelled or expired before it had its thing has made none,
   but for what attempts that failed left behind, as long as handlers do not
   overlap and none dies; it had it if it was asking what is to become of it. *)
CancelledMadeNothing ==
    ~overlapped /\ crashes = 0 =>
        \A s \in DOMAIN session :
            session[s].status \in {"CANCELLED", "EXPIRED"} /\ session[s].step <= MakeAt => ~WasMade(s)

(* A session nobody answers does not block its phone number for ever. *)
StaleSessionsEnd ==
    \A s \in Ids :
        (s \in Active /\ ~session[s].fresh) ~> (s \notin Active \/ session[s].fresh)
=============================================================================
