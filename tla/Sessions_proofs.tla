--------------------------- MODULE Sessions_proofs ---------------------------
(***************************************************************************)
(* Proofs about workflow sessions, for workflows of any length, any number *)
(* of handlers that overlap, fail or die, and the sweep: a phone number    *)
(* has one active session, a completed session has made its thing, and     *)
(* without overlaps nothing is made after it, and all of every answer.  At *)
(* the end, the two components of Sessions together, with what             *)
(* DocumentSuggestions_proofs shows of the documents.                      *)
(***************************************************************************)
EXTENDS Sessions, SequenceTheorems, TLAPS

(* Every question before the step was answered. *)
Whole(r) == 1..(r.step - 1) \subseteq r.data

(* A copy of an active session tells its step and its answers. *)
Current(r, s) == s.status = "ACTIVE" /\ r.step = s.step /\ r.data = s.data

(* The unique index: a phone number has at most one active session. *)
OneActive == \A s, t \in Active : s = t

(* Without overlaps one handler is at work, or the sweep. *)
Alone ==
    ~overlapped =>
        /\ \A a, b \in Actor : pc[a] # "idle" /\ pc[b] # "idle" => a = b
        /\ due # {} => \A m \in Msg : pc[m] = "idle"

(* What is to be written tells that the thing was made. *)
Had(r) == r.status = "COMPLETED" \/ (r.status = "ACTIVE" /\ r.step > MakeAt)

(* What a handler holds: a session there is, a terminal status it may set, and
   without overlaps a copy that is still true. *)
ActorOK(a) ==
    /\ pc[a] \in {"handling", "saving", "updating"} => id[a] \in DOMAIN session
    /\ pc[a] \in {"saving", "updating"} /\ Had(result[a]) => WasMade(id[a])
    /\ pc[a] = "handling" /\ copy[a].step > MakeAt => WasMade(id[a])
    /\ ~overlapped /\ pc[a] = "handling" => Current(copy[a], session[id[a]])
    /\ ~overlapped /\ pc[a] = "updating" => Current(seen[a], session[id[a]])
    /\ ~overlapped /\ pc[a] \in {"saving", "updating"} /\ result[a].status = "ACTIVE" =>
          /\ Whole(result[a])
          /\ session[id[a]].step > MakeAt => result[a].step > MakeAt

Settling(a, s) == pc[a] \in {"saving", "updating"} /\ id[a] = s /\ Had(result[a])

(* Once its thing was made, a session has passed the step that makes it or is
   completed, or is about to. *)
SessionOK(s) ==
    /\ s \in DOMAIN session /\ (session[s].status = "COMPLETED" \/ session[s].step > MakeAt) => WasMade(s)
    /\ ~overlapped /\ s \in DOMAIN session => Whole(session[s])
    /\ ~overlapped => \A n \in DOMAIN made[s] : 1..MakeAt \subseteq made[s][n].of
    /\ ~overlapped /\ crashes = 0 /\ WasMade(s) =>
          /\ \A n \in DOMAIN made[s] : made[s][n].as = "whole" => n = Len(made[s])
          /\ s \in DOMAIN session
          /\ \/ session[s].status = "COMPLETED" \/ session[s].step > MakeAt
             \/ session[s].status = "ACTIVE" /\ \E a \in Actor : Settling(a, s)

IInv ==
    /\ TypeOK
    /\ due \subseteq DOMAIN session
    /\ OneActive
    /\ Alone
    /\ \A a \in Actor : ActorOK(a)
    /\ \A s \in Ids : SessionOK(s)

-----------------------------------------------------------------------------
(* The other handlers keep what they hold. *)
Apart(a) ==
    \A b \in Actor \ {a} :
        /\ pc'[b] = pc[b] /\ id'[b] = id[b] /\ copy'[b] = copy[b]
        /\ result'[b] = result[b] /\ seen'[b] = seen[b]

HandlerTypes ==
    /\ pc \in [Actor -> {"idle", "received", "creating", "handling", "saving", "updating"}]
    /\ asks \in [Actor -> {"nothing", "start", "cancel", "answer"}]
    /\ id \in [Actor -> 0..MaxSessions]
    /\ copy \in [Actor -> Session]
    /\ result \in [Actor -> [status : {"ACTIVE"} \union Terminal, step : Step, data : SUBSET Step]]
    /\ seen \in [Actor -> Session]

LEMMA Types ==
  TypeOK => /\ HandlerTypes
            /\ session \in Seq(Session) /\ Len(session) <= MaxSessions
            /\ DOMAIN session = 1..Len(session) /\ DOMAIN session \subseteq Ids
            /\ \A s \in DOMAIN session : session[s] \in Session
  BY WorkflowAssumption DEF TypeOK, HandlerTypes, Ids

LEMMA Constants ==
  /\ 1 \in Step /\ MakeAt \in Step /\ Sweep \notin Msg
  /\ NewSession \in Session /\ Whole(NewSession)
  /\ NoResult \in [status : {"ACTIVE"} \union Terminal, step : Step, data : SUBSET Step]
  BY WorkflowAssumption DEF Step, Sweep, NewSession, Session, Whole, NoResult, Terminal

LEMMA IdleEffect ==
  ASSUME TypeOK, NEW a \in Actor, Idle(a)
  PROVE  HandlerTypes' /\ pc'[a] = "idle" /\ Apart(a)
  BY Types, Constants, WorkflowAssumption DEF Idle, HandlerTypes, Apart

LEMMA TerminateEffect ==
  ASSUME TypeOK, NEW a \in Actor, NEW s \in DOMAIN session, NEW st \in Terminal,
         Terminate(a, s, st)
  PROVE  /\ HandlerTypes' /\ Apart(a)
         /\ pc'[a] = "saving" /\ id'[a] = s /\ result'[a].status = st
<1>1. s \in 0..MaxSessions
  BY Types DEF Ids
<1>2. [NoResult EXCEPT !.status = st]
        \in [status : {"ACTIVE"} \union Terminal, step : Step, data : SUBSET Step]
  BY Constants DEF NoResult
<1> QED
  BY <1>1, <1>2, Types DEF Terminate, HandlerTypes, Apart, NoResult

LEMMA ReturnsEffect ==
  ASSUME TypeOK, NEW m \in Msg, NEW st \in {"ACTIVE"} \union Terminal,
         NEW step \in Step, NEW data \in SUBSET Step, Returns(m, st, step, data)
  PROVE  /\ HandlerTypes' /\ Apart(m)
         /\ pc'[m] = "saving" /\ id'[m] = id[m]
         /\ result'[m].status = st /\ result'[m].step = step /\ result'[m].data = data
  BY Types DEF Returns, HandlerTypes, Apart, Actor

(* A handler that works on without writing keeps the invariant, if what it
   holds then is in order and it does not give up a session it completes. *)
LEMMA ReadingStep ==
  ASSUME IInv, NEW a \in Actor, HandlerTypes', Apart(a), ActorOK(a)',
         session' = session, made' = made, due' \subseteq due, crashes' = crashes,
         messages' \in 0..MaxMessages, UNCHANGED <<stales, sweeps>>,
         overlapped' \in BOOLEAN, overlapped => overlapped', Alone',
         \A s \in DOMAIN session :
            Settling(a, s) /\ session[s].status = "ACTIVE" => Settling(a, s)'
  PROVE  IInv'
<1>1. TypeOK'
  BY DEF IInv, TypeOK, HandlerTypes
<1>2. OneActive' /\ due' \subseteq DOMAIN session'
  BY DEF IInv, OneActive, Active
<1>3. \A b \in Actor : ActorOK(b)'
  BY DEF IInv, ActorOK, Apart, WasMade, Had
<1>4. ASSUME NEW s \in Ids PROVE SessionOK(s)'
  <2>1. SessionOK(s)
    BY DEF IInv
  <2>2. s \in DOMAIN session /\ session[s].status = "ACTIVE" /\ (\E b \in Actor : Settling(b, s))
          => \E b \in Actor : Settling(b, s)'
    BY DEF Apart, Settling, Had
  <2> QED
    BY <2>1, <2>2 DEF SessionOK, WasMade
<1> QED
  BY <1>1, <1>2, <1>3, <1>4 DEF IInv

(* One handler stays alone as long as nobody else sets out. *)
LEMMA StaysAlone ==
  ASSUME IInv, NEW a \in Actor, pc[a] # "idle", Apart(a), overlapped' = overlapped, due' = due
  PROVE  Alone'
  BY DEF IInv, Alone, Apart, Actor

(* The latest active session is the active session. *)
LEMMA ActiveSessionIs ==
  ASSUME IInv, Active # {}
  PROVE  ActiveSession \in Active /\ ActiveSession \in DOMAIN session
<1>1. PICK s \in Active : TRUE
  OBVIOUS
<1>2. \A t \in Active : t = s /\ t \in Int
  BY <1>1, Types DEF IInv, OneActive, Active
<1>3. \E t \in Active : \A u \in Active : u <= t
  BY <1>1, <1>2
<1> QED
  BY <1>3 DEF ActiveSession, Active

-----------------------------------------------------------------------------
LEMMA InitIInv == Init => IInv
<1> SUFFICES ASSUME Init PROVE IInv
  OBVIOUS
<1>1. HandlerTypes
  BY Constants, WorkflowAssumption DEF Init, HandlerTypes
<1>2. session \in Seq(Session) /\ Len(session) = 0 /\ DOMAIN session = {}
  BY DEF Init
<1>3. made \in [Ids -> Seq([of : SUBSET Step, as : {"whole", "broken"}])] /\ \A s \in Ids : made[s] = <<>>
  BY DEF Init
<1>8. /\ messages \in 0..MaxMessages /\ stales \in 0..MaxStale /\ sweeps \in 0..MaxSweeps
      /\ crashes \in 0..MaxCrashes /\ Len(session) <= MaxSessions
  BY <1>2, WorkflowAssumption DEF Init
<1>9. due \in SUBSET Ids /\ overlapped \in BOOLEAN
  BY DEF Init
<1>4. TypeOK
  BY <1>1, <1>2, <1>3, <1>8, <1>9 DEF TypeOK, HandlerTypes
<1>5. due \subseteq DOMAIN session /\ OneActive /\ Alone
  BY <1>2 DEF Init, OneActive, Active, Alone
<1>6. \A a \in Actor : ActorOK(a)
  BY DEF Init, ActorOK
<1>7. \A s \in Ids : SessionOK(s)
  BY <1>2, <1>3 DEF SessionOK, WasMade
<1> QED
  BY <1>4, <1>5, <1>6, <1>7 DEF IInv

LEMMA ReceiveIInv ==
  ASSUME IInv, NEW m \in Msg, NEW what \in {"start", "cancel", "answer"}, Receive(m, what)
  PROVE  IInv'
<1>1. /\ m \in Actor /\ pc[m] = "idle" /\ pc'[m] = "received" /\ Apart(m)
  BY Types DEF Receive, Apart, IInv, HandlerTypes, Actor
<1>2. HandlerTypes'
  BY <1>1, Types DEF Receive, HandlerTypes, IInv
<1>3. messages' \in 0..MaxMessages
  BY WorkflowAssumption DEF Receive, IInv, TypeOK
<1>4. Alone'
  <2>1. ~overlapped' => due' = {} /\ \A a \in Actor \ {m} : pc[a] = "idle"
    BY DEF Receive
  <2> QED
    BY <1>1, <2>1 DEF Alone, Apart
<1>5. ActorOK(m)'
  BY <1>1 DEF ActorOK
<1> QED
  BY <1>1, <1>2, <1>3, <1>4, <1>5, ReadingStep DEF Receive, Settling, IInv, TypeOK

LEMMA ResolveIInv ==
  ASSUME IInv, NEW m \in Msg, Resolve(m)
  PROVE  IInv'
<1> DEFINE s == ActiveSession
<1>1. /\ m \in Actor /\ pc[m] = "received" /\ TypeOK
      /\ UNCHANGED <<session, made, due, budget, overlapped>>
  BY DEF Resolve, Actor, IInv
<1>2. \A t : ~Settling(m, t)
  BY <1>1 DEF Settling
<1>3. ASSUME HandlerTypes', Apart(m), ActorOK(m)'
      PROVE  IInv'
  BY <1>1, <1>2, <1>3, StaysAlone, ReadingStep DEF budget, IInv, TypeOK
<1>4. CASE Idle(m)
  BY <1>1, <1>3, <1>4, IdleEffect DEF ActorOK
<1>5. CASE pc' = [pc EXCEPT ![m] = "creating"] /\ UNCHANGED <<asks, id, copy, result, seen>>
  <2>1. HandlerTypes' /\ Apart(m) /\ pc'[m] = "creating"
    BY <1>1, <1>5, Types DEF HandlerTypes, Apart
  <2> QED
    BY <2>1, <1>3 DEF ActorOK
<1>6. ASSUME NEW st \in {"EXPIRED", "CANCELLED"}, Active # {}, Terminate(m, s, st)
      PROVE  IInv'
  <2>1. s \in DOMAIN session /\ st \in Terminal
    BY <1>6, ActiveSessionIs DEF Terminal
  <2>2. /\ HandlerTypes' /\ Apart(m)
        /\ pc'[m] = "saving" /\ id'[m] = s /\ result'[m].status = st
    BY <1>1, <1>6, <2>1, TerminateEffect
  <2>3. ActorOK(m)'
    BY <1>1, <2>1, <2>2 DEF ActorOK, Had
  <2> QED
    BY <1>3, <2>2, <2>3
<1>7. CASE /\ Active # {}
           /\ pc' = [pc EXCEPT ![m] = "handling"]
           /\ id' = [id EXCEPT ![m] = ActiveSession]
           /\ copy' = [copy EXCEPT ![m] = session[ActiveSession]]
           /\ UNCHANGED <<asks, result, seen>>
  <2>1. s \in DOMAIN session /\ s \in 0..MaxSessions /\ session[s].status = "ACTIVE" /\ session[s] \in Session
    BY <1>1, <1>7, ActiveSessionIs, Types DEF Active, Ids
  <2> HIDE DEF s
  <2>2. HandlerTypes' /\ Apart(m) /\ pc'[m] = "handling" /\ id'[m] = s /\ copy'[m] = session[s]
    BY <1>1, <1>7, <2>1, Types DEF HandlerTypes, Apart, s
  <2>3. session[s].step > MakeAt => WasMade(s)
    BY <1>1, <2>1, Types DEF IInv, SessionOK
  <2>4. ActorOK(m)'
    BY <1>1, <2>1, <2>2, <2>3 DEF ActorOK, Current, WasMade
  <2> QED
    BY <1>3, <2>2, <2>4
<1> QED
  BY <1>4, <1>5, <1>6, <1>7 DEF Resolve

(* What an answer leads to without making anything. *)
LEMMA ReturnsIInv ==
  ASSUME IInv, NEW m \in Msg, pc[m] = "handling",
         NEW st \in {"ACTIVE", "COMPLETED", "CANCELLED"}, NEW step \in Step, NEW data \in SUBSET Step,
         Returns(m, st, step, data), made' = made,
         st = "ACTIVE" /\ ~overlapped => 1..(step - 1) \subseteq data,
         st = "COMPLETED" \/ (st = "ACTIVE" /\ step > MakeAt) => copy[m].step > MakeAt,
         st = "ACTIVE" /\ copy[m].step > MakeAt => step > MakeAt
  PROVE  IInv'
<1>1. /\ m \in Actor /\ TypeOK /\ st \in {"ACTIVE"} \union Terminal
      /\ UNCHANGED <<session, due, budget, overlapped>> /\ ActorOK(m)
  BY DEF Actor, Terminal, IInv, Returns
<1>2. /\ HandlerTypes' /\ Apart(m)
      /\ pc'[m] = "saving" /\ id'[m] = id[m]
      /\ result'[m].status = st /\ result'[m].step = step /\ result'[m].data = data
  BY <1>1, ReturnsEffect
<1>3. ActorOK(m)'
  <2>1. Had(result[m])' => WasMade(id[m])'
    BY <1>1, <1>2 DEF ActorOK, Had, WasMade
  <2>2. ~overlapped => session[id[m]].step = copy[m].step
    BY <1>1 DEF ActorOK, Current
  <2> QED
    BY <1>1, <1>2, <2>1, <2>2 DEF ActorOK, Whole
<1>4. \A t : ~Settling(m, t)
  BY DEF Settling
<1>5. Alone'
  BY <1>1, <1>2, StaysAlone
<1> QED
  BY <1>1, <1>2, <1>3, <1>4, <1>5, ReadingStep DEF budget, IInv, TypeOK

(* A copy has its types, and without overlaps every earlier answer. *)
LEMMA HandledCopy ==
  ASSUME IInv, NEW m \in Msg, pc[m] = "handling"
  PROVE  /\ copy[m].step \in Step /\ copy[m].data \in SUBSET Step
         /\ NextData(copy[m]) \in SUBSET Step
         /\ ~overlapped => 1..(copy[m].step - 1) \subseteq copy[m].data
         /\ id[m] \in DOMAIN session /\ id[m] \in Ids
<1>1. m \in Actor /\ copy[m] \in Session
  BY Types DEF IInv, HandlerTypes, Actor
<1>2. copy[m].step \in Step /\ copy[m].data \in SUBSET Step
  BY <1>1 DEF Session
<1>3. NextData(copy[m]) \in SUBSET Step
  BY <1>2 DEF NextData
<1>4. id[m] \in DOMAIN session /\ id[m] \in Ids
  BY <1>1, Types DEF IInv, ActorOK
<1>5. ~overlapped => Whole(session[id[m]]) /\ Current(copy[m], session[id[m]])
  BY <1>1, <1>4 DEF IInv, ActorOK, SessionOK
<1> QED
  BY <1>2, <1>3, <1>4, <1>5 DEF Whole, Current

LEMMA AnsweredIInv ==
  ASSUME IInv, NEW m \in Msg, Reprompt(m) \/ Answer(m) \/ Finish(m) \/ Decline(m)
  PROVE  IInv'
<1>1. /\ pc[m] = "handling"
      /\ copy[m].step \in Step /\ copy[m].data \in SUBSET Step /\ NextData(copy[m]) \in SUBSET Step
      /\ ~overlapped => 1..(copy[m].step - 1) \subseteq copy[m].data
  BY HandledCopy DEF Reprompt, Answer, Finish, Decline
<1>2. CASE Reprompt(m)
  BY <1>1, <1>2, ReturnsIInv DEF Reprompt
<1>3. CASE Answer(m)
  <2>1. PICK k \in Step : k = copy[m].step + 1
    BY <1>1, <1>3, WorkflowAssumption DEF Answer, Step
  <2>2. ~overlapped => 1..(k - 1) \subseteq NextData(copy[m])
    BY <1>1, <2>1 DEF NextData, Step
  <2>3. Returns(m, "ACTIVE", k, NextData(copy[m])) /\ made' = made /\ copy[m].step # MakeAt
    BY <1>3, <2>1 DEF Answer
  <2>4. k > MakeAt <=> copy[m].step > MakeAt
    BY <1>1, <2>1, <2>3, WorkflowAssumption DEF Step
  <2> QED
    BY <1>1, <2>2, <2>3, <2>4, ReturnsIInv
<1>4. CASE Finish(m)
  BY <1>1, <1>4, ReturnsIInv DEF Finish
<1>5. CASE Decline(m)
  BY <1>1, <1>5, ReturnsIInv DEF Decline
<1> QED
  BY <1>2, <1>3, <1>4, <1>5

(* Something is made, of every answer without overlaps, and in a session that
   had nothing whole before; the handler tells of what is whole, and of what is
   not it goes back or throws. *)
LEMMA MakesIInv ==
  ASSUME IInv, NEW m \in Msg, pc[m] = "handling", copy[m].step = MakeAt, NEW as \in {"whole", "broken"},
         Makes(m, as), HandlerTypes', Apart(m), UNCHANGED <<session, due, budget, overlapped>>,
         \/ pc'[m] = "idle" /\ as = "broken"
         \/ /\ pc'[m] = "saving" /\ id'[m] = id[m]
            /\ Had(result[m])' <=> as = "whole"
            /\ result'[m].status = "ACTIVE" /\ ~overlapped => Whole(result'[m])
  PROVE  IInv'
<1>0. PICK s, thing : s = id[m] /\ thing = [of |-> NextData(copy[m]), as |-> as]
  OBVIOUS
<1>1. /\ m \in Actor /\ TypeOK /\ made' = [made EXCEPT ![s] = Append(@, thing)]
  BY <1>0 DEF Makes, Actor, IInv
<1>2. /\ NextData(copy[m]) \in SUBSET Step /\ s \in DOMAIN session /\ s \in Ids
      /\ ~overlapped => 1..(MakeAt - 1) \subseteq copy[m].data
  BY <1>0, HandledCopy
<1>3. thing \in [of : SUBSET Step, as : {"whole", "broken"}] /\ thing.as = as
  BY <1>0, <1>2
<1>4. ~overlapped => 1..MakeAt \subseteq thing.of
  BY <1>0, <1>2, WorkflowAssumption DEF NextData, Step
<1>5. made \in [Ids -> Seq([of : SUBSET Step, as : {"whole", "broken"}])]
  BY <1>1 DEF TypeOK
<1>6. /\ made' \in [Ids -> Seq([of : SUBSET Step, as : {"whole", "broken"}])]
      /\ made'[s] = Append(made[s], thing) /\ \A t \in Ids \ {s} : made'[t] = made[t]
  <2> DEFINE Thing == [of : SUBSET Step, as : {"whole", "broken"}]
  <2>1. made \in [Ids -> Seq(Thing)] /\ thing \in Thing
    BY <1>3, <1>5
  <2> HIDE DEF Thing
  <2>2. Append(made[s], thing) \in Seq(Thing)
    BY <1>2, <2>1, AppendProperties
  <2>3. made' \in [Ids -> Seq(Thing)]
    BY <1>1, <1>2, <2>1, <2>2
  <2> QED
    BY <1>1, <1>2, <2>1, <2>3 DEF Thing
<1>7. /\ Len(made'[s]) = Len(made[s]) + 1 /\ Len(made[s]) \in Nat
      /\ DOMAIN made[s] = 1..Len(made[s]) /\ DOMAIN made'[s] = 1..(Len(made[s]) + 1)
      /\ \A n \in DOMAIN made[s] : made'[s][n] = made[s][n]
      /\ made'[s][Len(made[s]) + 1] = thing
  BY <1>2, <1>3, <1>5, <1>6, AppendProperties, LenProperties
<1>8. TypeOK'
  BY <1>1, <1>6 DEF TypeOK, HandlerTypes, budget
<1>9. OneActive' /\ due' \subseteq DOMAIN session'
  BY DEF IInv, OneActive, Active
<1>10. Alone'
  BY <1>1, StaysAlone
<1>11. /\ \A t \in Ids : WasMade(t) => WasMade(t)'
       /\ as = "whole" => WasMade(s)'
       /\ as = "broken" /\ WasMade(s)' => WasMade(s)
  <2>1. \A t \in Ids \ {s} : WasMade(t)' <=> WasMade(t)
    BY <1>6 DEF WasMade
  <2>2. WasMade(s) => WasMade(s)'
    BY <1>7 DEF WasMade
  <2>3. as = "whole" => WasMade(s)'
    BY <1>3, <1>7 DEF WasMade
  <2>4. as = "broken" /\ WasMade(s)' => WasMade(s)
    BY <1>3, <1>7 DEF WasMade
  <2> QED
    BY <2>1, <2>2, <2>3, <2>4
<1>12. ~overlapped => Current(copy[m], session[s])
  BY <1>0, <1>1 DEF IInv, ActorOK
<1>13. \A b \in Actor : ActorOK(b)'
  <2>1. ActorOK(m)'
    <3>1. ~overlapped => ~(session[s].step > MakeAt)
      BY <1>12, WorkflowAssumption DEF Current
    <3>2. CASE pc'[m] = "idle"
      BY <3>2 DEF ActorOK
    <3>3. CASE pc'[m] = "saving" /\ id'[m] = s
      BY <1>0, <1>2, <1>11, <3>1, <3>3 DEF ActorOK
    <3> QED
      BY <1>0, <3>2, <3>3
  <2>2. ASSUME NEW b \in Actor \ {m} PROVE ActorOK(b)'
    <3>1. ActorOK(b) /\ DOMAIN session \subseteq Ids
      BY <1>1, Types DEF IInv
    <3>2. id'[b] = id[b] /\ Had(result[b])' = Had(result[b])
      BY DEF Apart, Had
    <3> QED
      BY <1>1, <1>11, <3>1, <3>2 DEF ActorOK, Apart
  <2> QED
    BY <2>1, <2>2
<1>14. ~overlapped /\ crashes = 0 => ~WasMade(s) /\ session[s].status = "ACTIVE"
  <2> SUFFICES ASSUME ~overlapped, crashes = 0
               PROVE  ~WasMade(s) /\ session[s].status = "ACTIVE"
    OBVIOUS
  <2>1. session[s].status = "ACTIVE" /\ ~(session[s].step > MakeAt)
    BY <1>12, WorkflowAssumption DEF Current
  <2>2. \A a \in Actor : ~Settling(a, s)
    BY <1>1 DEF IInv, Alone, Settling
  <2> QED
    BY <1>2, <2>1, <2>2 DEF IInv, SessionOK
<1>15. \A t \in Ids : SessionOK(t)'
  <2>1. SessionOK(s)'
    <3>1. SessionOK(s)
      BY <1>2 DEF IInv
    <3>2. as = "whole" => Settling(m, s)'
      BY <1>0 DEF Settling
    <3>3. ~overlapped => \A n \in DOMAIN made'[s] : 1..MakeAt \subseteq made'[s][n].of
      BY <1>4, <1>7, <3>1 DEF SessionOK
    <3>4. ~overlapped /\ crashes = 0 => \A n \in DOMAIN made'[s] : made'[s][n].as = "whole" => n = Len(made'[s])
      BY <1>7, <1>14 DEF WasMade
    <3>5. ~overlapped /\ crashes = 0 /\ WasMade(s)' => Settling(m, s)'
      BY <1>11, <1>14, <3>2
    <3> QED
      BY <1>1, <1>2, <1>11, <1>14, <3>1, <3>3, <3>4, <3>5 DEF SessionOK, budget
  <2>2. ASSUME NEW t \in Ids \ {s} PROVE SessionOK(t)'
    <3>1. SessionOK(t) /\ made'[t] = made[t] /\ WasMade(t)' = WasMade(t)
      BY <1>6 DEF IInv, WasMade
    <3>2. (\E b \in Actor : Settling(b, t)) => \E b \in Actor : Settling(b, t)'
      BY DEF Apart, Settling, Had
    <3> QED
      BY <1>1, <3>1, <3>2 DEF SessionOK, budget
  <2> QED
    BY <2>1, <2>2
<1> QED
  BY <1>8, <1>9, <1>10, <1>13, <1>15 DEF IInv

LEMMA MakeIInv ==
  ASSUME IInv, NEW m \in Msg, Make(m)
  PROVE  IInv'
<1>1. /\ m \in Actor /\ TypeOK /\ pc[m] = "handling" /\ copy[m].step = MakeAt /\ Makes(m, "whole")
  BY DEF Make, Actor, IInv
<1>2. /\ NextData(copy[m]) \in SUBSET Step
      /\ ~overlapped => 1..(MakeAt - 1) \subseteq copy[m].data
  BY <1>1, HandledCopy
<1>3. PICK st \in {"COMPLETED", "ACTIVE"}, step \in Step :
         /\ Returns(m, st, step, NextData(copy[m]))
         /\ st = "ACTIVE" => step = MakeAt + 1
  <2>1. MakeAt \in Step /\ (MakeAt < NumSteps => MakeAt + 1 \in Step)
    BY WorkflowAssumption DEF Step
  <2> QED
    BY <2>1 DEF Make
<1>4. /\ HandlerTypes' /\ Apart(m)
      /\ pc'[m] = "saving" /\ id'[m] = id[m]
      /\ result'[m].status = st /\ result'[m].step = step /\ result'[m].data = NextData(copy[m])
  BY <1>1, <1>2, <1>3, ReturnsEffect DEF Terminal
<1>5. Had(result[m])'
  BY <1>3, <1>4, WorkflowAssumption DEF Had, Step
<1>6. st = "ACTIVE" /\ ~overlapped => Whole(result'[m])
  BY <1>1, <1>2, <1>3, <1>4, WorkflowAssumption DEF Whole, NextData, Step
<1>7. UNCHANGED <<session, due, budget, overlapped>>
  BY <1>3 DEF Returns
<1> QED
  BY <1>1, <1>4, <1>5, <1>6, <1>7, MakesIInv

LEMMA MakeFailsIInv ==
  ASSUME IInv, NEW m \in Msg, MakeFails(m)
  PROVE  IInv'
<1>1. /\ m \in Actor /\ TypeOK /\ pc[m] = "handling" /\ copy[m].step = MakeAt
      /\ made' = made \/ Makes(m, "broken")
      /\ GoesBack(m) \/ Throws(m)
  BY DEF MakeFails, Actor, IInv
<1>2. /\ copy[m].data \in SUBSET Step /\ NextData(copy[m]) \in SUBSET Step
      /\ ~overlapped => 1..(MakeAt - 1) \subseteq copy[m].data
  BY <1>1, HandledCopy
<1>3. CASE Throws(m)
  <2>1. /\ HandlerTypes' /\ Apart(m) /\ pc'[m] = "idle" /\ UNCHANGED <<session, due, budget, overlapped>>
    BY <1>1, <1>3, IdleEffect DEF Throws
  <2>2. CASE made' = made
    BY <1>1, <2>1, <2>2, StaysAlone, ReadingStep DEF ActorOK, Settling, budget, IInv, TypeOK
  <2>3. CASE Makes(m, "broken")
    BY <1>1, <2>1, <2>3, MakesIInv
  <2> QED
    BY <1>1, <2>2, <2>3
<1>4. CASE GoesBack(m)
  <2>1. PICK k \in 1..MakeAt, data \in {copy[m].data, NextData(copy[m])} :
            Returns(m, "ACTIVE", k, IF k < MakeAt THEN data \ {k} ELSE data)
    BY <1>4 DEF GoesBack
  <2>2. PICK left : left = (IF k < MakeAt THEN data \ {k} ELSE data)
    OBVIOUS
  <2>3. left \in SUBSET Step /\ k \in Step /\ ~(k > MakeAt) /\ Returns(m, "ACTIVE", k, left)
    BY <1>2, <2>1, <2>2, WorkflowAssumption DEF Step
  <2>4. ~overlapped => 1..(k - 1) \subseteq left
    BY <1>1, <1>2, <2>1, <2>2, WorkflowAssumption DEF NextData, Step
  <2>5. CASE made' = made
    BY <1>1, <2>3, <2>4, <2>5, ReturnsIInv, WorkflowAssumption
  <2>6. CASE Makes(m, "broken")
    <3>1. /\ HandlerTypes' /\ Apart(m)
          /\ pc'[m] = "saving" /\ id'[m] = id[m]
          /\ result'[m].status = "ACTIVE" /\ result'[m].step = k /\ result'[m].data = left
      BY <1>1, <2>3, ReturnsEffect
    <3>2. ~Had(result[m])' /\ (~overlapped => Whole(result'[m]))
      BY <2>3, <2>4, <3>1 DEF Had, Whole
    <3>3. UNCHANGED <<session, due, budget, overlapped>>
      BY <2>3 DEF Returns
    <3> QED
      BY <1>1, <2>6, <3>1, <3>2, <3>3, MakesIInv
  <2> QED
    BY <1>1, <2>5, <2>6
<1> QED
  BY <1>1, <1>3, <1>4

(* A session is added when none is active, or nothing is. *)
LEMMA CreateIInv ==
  ASSUME IInv, NEW m \in Msg, Create(m)
  PROVE  IInv'
<1>1. /\ m \in Actor /\ TypeOK /\ pc[m] = "creating" /\ Idle(m)
      /\ UNCHANGED <<made, due, budget, overlapped>>
  BY DEF Create, Actor, IInv
<1>2. HandlerTypes' /\ Apart(m) /\ pc'[m] = "idle"
  BY <1>1, IdleEffect
<1>3. ActorOK(m)' /\ Alone' /\ \A t : ~Settling(m, t)
  BY <1>1, <1>2, StaysAlone DEF ActorOK, Settling
<1>4. CASE session' = session
  BY <1>1, <1>2, <1>3, <1>4, ReadingStep DEF budget, IInv, TypeOK
<1>5. CASE Active = {} /\ Len(session) < MaxSessions /\ session' = Append(session, NewSession)
  <2>1. /\ session' \in Seq(Session) /\ Len(session') = Len(session) + 1
        /\ DOMAIN session = 1..Len(session) /\ DOMAIN session' = 1..(Len(session) + 1)
        /\ \A t \in DOMAIN session : session'[t] = session[t]
        /\ session'[Len(session) + 1] = NewSession
        /\ Len(session) \in Nat
    BY <1>1, <1>5, Constants, Types, AppendProperties
  <2>2. TypeOK'
    <3>1. Len(session') <= MaxSessions
      BY <1>5, <2>1, WorkflowAssumption
    <3>2. UNCHANGED <<made, due, messages, stales, sweeps, crashes, overlapped>>
      BY <1>1 DEF budget
    <3> QED
      BY <1>1, <1>2, <2>1, <3>1, <3>2 DEF TypeOK, HandlerTypes
  <2>3. OneActive' /\ due' \subseteq DOMAIN session'
    BY <1>1, <1>5, <2>1 DEF IInv, OneActive, Active
  <2>4. \A b \in Actor \ {m} : ActorOK(b)'
    BY <1>1, <1>2, <2>1 DEF IInv, ActorOK, Apart, WasMade, Had
  <2>5. ASSUME NEW t \in Ids PROVE SessionOK(t)'
    <3>1. SessionOK(t) /\ ((\E b \in Actor : Settling(b, t)) => \E b \in Actor : Settling(b, t)')
      BY <1>2, <1>3 DEF IInv, Apart, Settling, Had
    <3>2. t \in DOMAIN session' => t \in DOMAIN session \/ session'[t] = NewSession
      BY <2>1
    <3>3. NewSession.status = "ACTIVE" /\ ~(NewSession.step > MakeAt)
      BY WorkflowAssumption DEF NewSession
    <3> QED
      BY <1>1, <2>1, <3>1, <3>2, <3>3, Constants DEF SessionOK, WasMade, budget
  <2> QED
    BY <1>3, <2>2, <2>3, <2>4, <2>5 DEF IInv
<1> QED
  BY <1>4, <1>5 DEF Create, MayInsert

LEMMA RereadIInv ==
  ASSUME IInv, NEW a \in Actor, Reread(a)
  PROVE  IInv'
<1>1. /\ TypeOK /\ pc[a] = "saving" /\ id[a] \in DOMAIN session
      /\ UNCHANGED <<session, made, due, budget, overlapped>>
  BY DEF Reread, IInv, ActorOK
<1>2. ASSUME HandlerTypes', Apart(a), ActorOK(a)',
             \A s \in DOMAIN session :
                Settling(a, s) /\ session[s].status = "ACTIVE" => Settling(a, s)'
      PROVE  IInv'
  BY <1>1, <1>2, StaysAlone, ReadingStep DEF budget, IInv, TypeOK
<1>3. CASE /\ session[id[a]].status = "ACTIVE"
           /\ pc' = [pc EXCEPT ![a] = "updating"]
           /\ seen' = [seen EXCEPT ![a] = session[id[a]]]
           /\ UNCHANGED <<asks, id, copy, result>>
  <2>1. /\ HandlerTypes' /\ Apart(a)
        /\ pc'[a] = "updating" /\ seen'[a] = session[id[a]] /\ id'[a] = id[a] /\ result'[a] = result[a]
    BY <1>1, <1>3, Types DEF HandlerTypes, Apart
  <2>2. ActorOK(a)'
    BY <1>1, <1>3, <2>1 DEF IInv, ActorOK, Current, WasMade, Had
  <2>3. \A s \in DOMAIN session : Settling(a, s) => Settling(a, s)'
    BY <2>1 DEF Settling, Had
  <2> QED
    BY <1>2, <2>1, <2>2, <2>3
<1>4. CASE session[id[a]].status # "ACTIVE" /\ Idle(a)
  BY <1>1, <1>2, <1>4, IdleEffect DEF ActorOK, Settling
<1> QED
  BY <1>3, <1>4 DEF Reread

(* What is written: a terminal status, or the step and the answers that the
   handler found; without overlaps exactly those. *)
LEMMA UpdatedRow ==
  ASSUME NEW r \in [status : {"ACTIVE"} \union Terminal, step : Step, data : SUBSET Step],
         NEW read \in Session, NEW current \in Session
  PROVE  LET new == Updated(r, read, current)
         IN  /\ new \in Session
             /\ new.status = IF r.status = "ACTIVE" THEN current.status ELSE r.status
             /\ r.status # "ACTIVE" => new.step = current.step /\ new.data = current.data
             /\ r.status = "ACTIVE" => new.step \in {r.step, current.step}
             /\ r.status = "ACTIVE" /\ Current(read, current) => new.step = r.step /\ new.data = r.data
<1>1. CASE r.status = "ACTIVE"
  BY <1>1 DEF Updated, Column, Session, Current
<1>2. CASE r.status # "ACTIVE"
  BY <1>2 DEF Updated, Session
<1> QED
  BY <1>1, <1>2

LEMMA UpdateIInv ==
  ASSUME IInv, NEW a \in Actor, Update(a)
  PROVE  IInv'
<1>0. PICK s, new : s = id[a] /\ new = Updated(result[a], seen[a], session[s])
  OBVIOUS
<1>1. /\ TypeOK /\ pc[a] = "updating" /\ Idle(a) /\ ActorOK(a)
      /\ s \in DOMAIN session /\ s \in Ids /\ session[s] \in Session
      /\ result[a] \in [status : {"ACTIVE"} \union Terminal, step : Step, data : SUBSET Step]
      /\ seen[a] \in Session
      /\ session' = [session EXCEPT ![s] = new]
      /\ UNCHANGED <<made, due, budget, overlapped>>
  BY <1>0, Types DEF Update, IInv, ActorOK, HandlerTypes
<1>2. HandlerTypes' /\ Apart(a) /\ pc'[a] = "idle"
  BY <1>1, IdleEffect
<1>3. /\ new \in Session
      /\ new.status = IF result[a].status = "ACTIVE" THEN session[s].status ELSE result[a].status
      /\ result[a].status # "ACTIVE" => new.step = session[s].step /\ new.data = session[s].data
      /\ result[a].status = "ACTIVE" => new.step \in {result[a].step, session[s].step}
      /\ result[a].status = "ACTIVE" /\ Current(seen[a], session[s])
            => new.step = result[a].step /\ new.data = result[a].data
  BY <1>0, <1>1, UpdatedRow
<1>4. /\ session' \in Seq(Session) /\ Len(session') = Len(session) /\ DOMAIN session' = DOMAIN session
      /\ session'[s] = new /\ \A t \in DOMAIN session \ {s} : session'[t] = session[t]
  BY <1>1, <1>3, ExceptSeq, Types
<1>5. TypeOK'
  BY <1>1, <1>2, <1>4 DEF TypeOK, HandlerTypes, budget
<1>6. OneActive' /\ due' \subseteq DOMAIN session' /\ Alone'
  <2>1. Active' \subseteq Active
    BY <1>1, <1>3, <1>4 DEF Active
  <2> QED
    BY <1>1, <1>2, <1>4, <2>1, StaysAlone DEF IInv, OneActive
<1>7. \A b \in Actor : ActorOK(b)'
  <2>1. ActorOK(a)'
    BY <1>2 DEF ActorOK
  <2>2. ASSUME NEW b \in Actor \ {a} PROVE ActorOK(b)'
    <3>1. ActorOK(b) /\ (~overlapped => pc[b] = "idle")
      BY <1>1 DEF IInv, Alone
    <3>2. \A t : WasMade(t)' = WasMade(t)
      BY <1>1 DEF WasMade
    <3>3. Had(result[b])' = Had(result[b])
      BY <1>2 DEF Apart, Had
    <3> QED
      BY <1>1, <1>2, <1>4, <3>1, <3>2, <3>3 DEF ActorOK, Apart
  <2> QED
    BY <2>1, <2>2
<1>8. ~overlapped =>
        /\ Current(seen[a], session[s]) /\ result[a].status = "ACTIVE" => Whole(result[a])
        /\ session[s].status = "ACTIVE"
        /\ \A b \in Actor : \A t : Settling(b, t) => b = a
  BY <1>0, <1>1 DEF IInv, ActorOK, Current, Alone, Settling
<1>9. ~overlapped => Current(seen[a], session[s])
  BY <1>0, <1>1 DEF ActorOK
<1>10. SessionOK(s)'
  <2>1. SessionOK(s)
    BY <1>1 DEF IInv
  <2>2. new.status = "COMPLETED" \/ new.step > MakeAt => WasMade(s)
    BY <1>0, <1>1, <1>3, <2>1 DEF ActorOK, SessionOK, Had
  <2>3. ~overlapped => Whole(new)
    BY <1>1, <1>3, <1>8, <1>9, <2>1 DEF SessionOK, Whole
  <2>4. ~overlapped /\ crashes = 0 /\ WasMade(s) => new.status = "COMPLETED" \/ new.step > MakeAt
    <3> SUFFICES ASSUME ~overlapped, crashes = 0, WasMade(s)
                 PROVE  new.status = "COMPLETED" \/ new.step > MakeAt
      OBVIOUS
    <3>1. session[s].step > MakeAt \/ Settling(a, s)
      BY <1>8, <2>1 DEF SessionOK
    <3>2. CASE Settling(a, s)
      BY <1>3, <1>9, <3>2 DEF Settling, Had
    <3>3. CASE session[s].step > MakeAt
      <4>1. result[a].status = "ACTIVE" => result[a].step > MakeAt
        BY <1>0, <1>1, <3>3 DEF ActorOK
      <4> QED
        BY <1>3, <3>3, <4>1
    <3> QED
      BY <3>1, <3>2, <3>3
  <2>5. WasMade(s)' = WasMade(s)
    BY <1>1 DEF WasMade
  <2> QED
    BY <1>1, <1>4, <2>1, <2>2, <2>3, <2>4, <2>5 DEF SessionOK, budget
<1>11. ASSUME NEW t \in Ids \ {s} PROVE SessionOK(t)'
  <2>1. SessionOK(t)
    BY DEF IInv
  <2>2. (\E b \in Actor : Settling(b, t)) => \E b \in Actor : Settling(b, t)'
    BY <1>0, <1>2 DEF Apart, Settling, Had
  <2>3. WasMade(t)' = WasMade(t)
    BY <1>1 DEF WasMade
  <2> QED
    BY <1>1, <1>4, <2>1, <2>2, <2>3 DEF SessionOK, budget
<1> QED
  BY <1>5, <1>6, <1>7, <1>10, <1>11 DEF IInv

-----------------------------------------------------------------------------
LEMMA SweepReadsIInv ==
  ASSUME IInv, SweepReads
  PROVE  IInv'
<1>0. session \in Seq(Session) /\ Len(session) <= MaxSessions /\ sweeps \in 0..MaxSweeps
  BY DEF IInv, TypeOK
<1>1. /\ due' \subseteq DOMAIN session /\ due' \subseteq Ids /\ sweeps' \in 0..MaxSweeps
      /\ UNCHANGED <<session, made, handler, messages, stales, crashes>>
      /\ overlapped' = (overlapped \/ \E a \in Actor : pc[a] # "idle")
  <2>1. DOMAIN session \subseteq Ids
    BY <1>0, WorkflowAssumption DEF Ids
  <2>2. due' = {s \in Active : IsExpired(session[s])} /\ Active \subseteq DOMAIN session
    BY DEF SweepReads, Active
  <2>3. sweeps < MaxSweeps /\ sweeps' = sweeps + 1
    BY DEF SweepReads
  <2>4. sweeps' \in 0..MaxSweeps
    BY <1>0, <2>3, WorkflowAssumption
  <2> QED
    BY <2>1, <2>2, <2>4 DEF SweepReads
<1>2. TypeOK'
  BY <1>1 DEF IInv, TypeOK, handler
<1>3. OneActive' /\ due' \subseteq DOMAIN session'
  BY <1>1 DEF IInv, OneActive, Active
<1>4. Alone'
  BY <1>1 DEF Alone, handler, Actor
<1>5. \A a \in Actor : ActorOK(a)'
  BY <1>1 DEF IInv, ActorOK, handler, WasMade, Had
<1>6. ASSUME NEW s \in Ids PROVE SessionOK(s)'
  <2>1. SessionOK(s) /\ \A a \in Actor : Settling(a, s)' <=> Settling(a, s)
    BY <1>1 DEF IInv, Settling, handler, Had
  <2> QED
    BY <1>1, <2>1 DEF SessionOK, WasMade
<1> QED
  BY <1>2, <1>3, <1>4, <1>5, <1>6 DEF IInv

LEMMA SweepExpiresIInv ==
  ASSUME IInv, SweepExpires
  PROVE  IInv'
<1>1. PICK s \in due : due' = due \ {s} /\ Terminate(Sweep, s, "EXPIRED")
  BY DEF SweepExpires
<1>2. /\ Sweep \in Actor /\ s \in DOMAIN session /\ TypeOK /\ pc[Sweep] = "idle"
      /\ UNCHANGED <<session, made, budget, overlapped>>
  BY <1>1 DEF SweepExpires, Actor, IInv
<1>3. /\ HandlerTypes' /\ Apart(Sweep)
      /\ pc'[Sweep] = "saving" /\ id'[Sweep] = s /\ result'[Sweep].status = "EXPIRED"
  BY <1>1, <1>2, TerminateEffect DEF Terminal
<1>4. ActorOK(Sweep)'
  BY <1>2, <1>3 DEF ActorOK, Had
<1>5. Alone'
  <2>1. ~overlapped => \A m \in Msg : pc[m] = "idle"
    BY <1>1 DEF IInv, Alone
  <2>2. ~overlapped => \A a \in Actor \ {Sweep} : pc'[a] = "idle"
    BY <1>3, <2>1 DEF Apart, Actor
  <2>3. Sweep \notin Msg /\ overlapped' = overlapped
    BY <1>2, Constants
  <2> QED
    BY <2>2, <2>3 DEF Alone, Actor
<1>6. \A t : ~Settling(Sweep, t)
  BY <1>2 DEF Settling
<1> QED
  BY <1>1, <1>2, <1>3, <1>4, <1>5, <1>6, ReadingStep DEF budget, IInv, TypeOK

(* Going stale leaves status, step and answers alone. *)
LEMMA GoesStaleIInv ==
  ASSUME IInv, GoesStale
  PROVE  IInv'
<1>1. PICK s \in Active : session' = [session EXCEPT ![s].fresh = FALSE]
  BY DEF GoesStale
<1>2. /\ s \in DOMAIN session /\ session[s] \in Session /\ session \in Seq(Session)
      /\ stales' \in 0..MaxStale
      /\ UNCHANGED <<made, handler, due, messages, sweeps, crashes, overlapped>>
  <2>1. s \in DOMAIN session /\ session[s] \in Session /\ session \in Seq(Session)
    BY Types DEF Active, IInv
  <2>2. stales' \in 0..MaxStale
    BY WorkflowAssumption DEF GoesStale, IInv, TypeOK
  <2> QED
    BY <2>1, <2>2 DEF GoesStale
<1>3. PICK new \in Session : /\ new = [session[s] EXCEPT !.fresh = FALSE]
                             /\ new.status = session[s].status /\ new.step = session[s].step
                             /\ new.data = session[s].data
  <2> DEFINE new == [session[s] EXCEPT !.fresh = FALSE]
  <2>1. /\ new \in Session
        /\ new.status = session[s].status /\ new.step = session[s].step
        /\ new.data = session[s].data
    BY <1>2 DEF Session
  <2> QED
    BY <2>1
<1>4. /\ session' \in Seq(Session) /\ Len(session') = Len(session) /\ DOMAIN session' = DOMAIN session
      /\ session'[s] = new /\ \A t \in DOMAIN session \ {s} : session'[t] = session[t]
  BY <1>1, <1>2, <1>3, ExceptSeq
<1>5. \A t \in DOMAIN session :
        /\ session'[t].status = session[t].status /\ session'[t].step = session[t].step
        /\ session'[t].data = session[t].data
  BY <1>3, <1>4
<1>6. TypeOK'
  BY <1>2, <1>4 DEF IInv, TypeOK, handler
<1>7. OneActive' /\ due' \subseteq DOMAIN session' /\ Alone'
  BY <1>2, <1>4, <1>5 DEF IInv, OneActive, Active, Alone, handler
<1>8. ASSUME NEW a \in Actor PROVE ActorOK(a)'
  BY <1>2, <1>4, <1>5 DEF IInv, ActorOK, Current, handler, WasMade, Had
<1>9. ASSUME NEW t \in Ids PROVE SessionOK(t)'
  <2>1. SessionOK(t) /\ \A a \in Actor : Settling(a, t)' <=> Settling(a, t)
    BY <1>2 DEF IInv, Settling, handler, Had
  <2> QED
    BY <1>2, <1>4, <1>5, <2>1 DEF SessionOK, Whole, WasMade
<1> QED
  BY <1>6, <1>7, <1>8, <1>9 DEF IInv

(* Handlers that stop leave the others and every row as they are. *)
LEMMA StopIInv ==
  ASSUME IInv, NEW A \in SUBSET Actor, Stop(A)
  PROVE  IInv'
<1>1. /\ due' \subseteq due /\ crashes' \in 0..MaxCrashes /\ crashes' # 0
      /\ UNCHANGED <<session, made, messages, stales, sweeps, overlapped>>
  BY WorkflowAssumption DEF Stop, IInv, TypeOK
<1>2. HandlerTypes'
  BY Types, Constants, WorkflowAssumption DEF Stop, HandlerTypes, IInv
<1>3. \A a \in Actor :
        \/ pc'[a] = "idle"
        \/ /\ pc'[a] = pc[a] /\ id'[a] = id[a] /\ copy'[a] = copy[a]
           /\ result'[a] = result[a] /\ seen'[a] = seen[a]
  BY DEF Stop
<1>4. TypeOK'
  BY <1>1, <1>2 DEF IInv, TypeOK, HandlerTypes
<1>5. OneActive' /\ due' \subseteq DOMAIN session' /\ Alone'
  BY <1>1, <1>3 DEF IInv, OneActive, Active, Alone, Actor
<1>6. ASSUME NEW a \in Actor PROVE ActorOK(a)'
  <2>1. ActorOK(a) /\ \A t : WasMade(t)' = WasMade(t)
    BY <1>1 DEF IInv, WasMade
  <2>2. CASE pc'[a] = "idle"
    BY <2>2 DEF ActorOK
  <2>3. CASE /\ pc'[a] = pc[a] /\ id'[a] = id[a] /\ copy'[a] = copy[a]
             /\ result'[a] = result[a] /\ seen'[a] = seen[a]
    <3>1. Had(result[a])' = Had(result[a])
      BY <2>3 DEF Had
    <3> QED
      BY <1>1, <2>1, <2>3, <3>1 DEF ActorOK
  <2> QED
    BY <1>3, <2>2, <2>3
<1>7. \A s \in Ids : SessionOK(s)'
  BY <1>1 DEF IInv, SessionOK, WasMade
<1> QED
  BY <1>4, <1>5, <1>6, <1>7 DEF IInv

LEMMA NextIInv == IInv /\ [Next]_vars => IInv'
<1> SUFFICES ASSUME IInv, [Next]_vars PROVE IInv'
  OBVIOUS
<1>1. CASE Next
  BY <1>1, ReceiveIInv, ResolveIInv, CreateIInv, AnsweredIInv, MakeIInv, MakeFailsIInv, RereadIInv, UpdateIInv,
     SweepReadsIInv, SweepExpiresIInv, GoesStaleIInv, StopIInv
  DEF Next, Handle, Save, Crash, Fail
<1>2. CASE UNCHANGED vars
  <2>1. \A s \in Ids, a \in Actor : Settling(a, s)' <=> Settling(a, s)
    BY <1>2 DEF vars, handler, Settling, Had
  <2>2. \A s \in Ids : SessionOK(s)'
    BY <1>2, <2>1 DEF IInv, SessionOK, WasMade, vars, budget
  <2>3. \A a \in Actor : ActorOK(a)'
    BY <1>2 DEF IInv, ActorOK, WasMade, Had, vars, handler
  <2> QED
    BY <1>2, <2>2, <2>3 DEF IInv, TypeOK, OneActive, Active, Alone, vars, handler, budget
<1> QED
  BY <1>1, <1>2

LEMMA SpecIInv == Spec => []IInv
  BY InitIInv, NextIInv, PTL DEF Spec

(* Sessions, handlers and what was made have their types, and no handler works
   on a step the workflow does not have. *)
THEOREM SessionTypes == Spec => []TypeOK
  BY SpecIInv, PTL DEF IInv

LEMMA IInvMade == IInv => CompletedWasMade /\ MadeAtMostOnce /\ CancelledMadeNothing
<1> SUFFICES ASSUME IInv PROVE CompletedWasMade /\ MadeAtMostOnce /\ CancelledMadeNothing
  OBVIOUS
<1>1. CompletedWasMade
  BY Types DEF IInv, SessionOK, CompletedWasMade
<1>2. MadeAtMostOnce
  <2> SUFFICES ASSUME ~overlapped, crashes = 0, NEW s \in Ids, NEW n \in DOMAIN made[s], made[s][n].as = "whole"
               PROVE  n = Len(made[s])
    BY DEF MadeAtMostOnce
  <2>1. SessionOK(s) /\ WasMade(s)
    BY DEF IInv, WasMade
  <2> QED
    BY <2>1 DEF SessionOK
<1>3. CancelledMadeNothing
  <2> SUFFICES ASSUME ~overlapped, crashes = 0, NEW s \in DOMAIN session, WasMade(s),
                      session[s].status \in {"CANCELLED", "EXPIRED"}, session[s].step <= MakeAt
               PROVE  FALSE
    BY DEF CancelledMadeNothing
  <2>1. SessionOK(s) /\ session[s].step \in Int
    BY Types, WorkflowAssumption DEF IInv, Session, Step
  <2> QED
    BY <2>1, WorkflowAssumption DEF SessionOK
<1> QED
  BY <1>1, <1>2, <1>3

(* A session that is completed, or asks what is to become of its thing, made it to
   the end, whatever overlaps, fails or dies; what is made without overlaps is made
   of every answer (handleMessage, updateSession). *)
THEOREM SessionMade == Spec => []CompletedWasMade
  BY IInvMade, SpecIInv, PTL

(* Without overlaps and crashes a session that made its thing makes nothing more;
   only what failed, and may have left something, is tried again. *)
THEOREM SessionMadeOnce == Spec => []MadeAtMostOnce
  BY IInvMade, SpecIInv, PTL

(* Nor has one made it to the end that was cancelled, declined or expired before it
   could ask about it. *)
THEOREM SessionCancelled == Spec => []CancelledMadeNothing
  BY IInvMade, SpecIInv, PTL

-----------------------------------------------------------------------------
(* The chat as a whole: the part that moves keeps its invariant, the other
   rests. *)
PartsIInv ==
    /\ part = "session" => IInv
    /\ part = "document" => Documents!IInv /\ Documents!ReviewIInv

LEMMA InitPartsIInv == PartsInit => PartsIInv
  BY DocumentAssumption, InitIInv, Documents!InitIInv, Documents!InitReview DEF PartsInit, PartsIInv

LEMMA PartsStep ==
  ASSUME [PartsNext]_parts
  PROVE  /\ part' = part
         /\ part = "session" => [Next]_vars /\ UNCHANGED documentState
         /\ part = "document" => [Documents!Next]_(Documents!vars)
<1>1. CASE SessionMoves(Next)
  BY <1>1 DEF SessionMoves
<1>2. CASE DocumentMoves(Documents!Next)
  BY <1>2 DEF DocumentMoves
<1>3. CASE UNCHANGED parts
  BY <1>3 DEF parts, documentState, Documents!vars, Documents!data, Documents!sessions, Documents!callVars,
              Documents!budget
<1> QED
  BY <1>1, <1>2, <1>3 DEF PartsNext

LEMMA NextPartsIInv == PartsIInv /\ [PartsNext]_parts => PartsIInv'
<1> SUFFICES ASSUME PartsIInv, [PartsNext]_parts PROVE PartsIInv'
  OBVIOUS
<1>1. ASSUME part = "session" PROVE IInv'
  BY <1>1, PartsStep, NextIInv DEF PartsIInv
<1>2. ASSUME part = "document" PROVE Documents!IInv' /\ Documents!ReviewIInv'
  <2>1. Documents!IInv /\ Documents!ReviewIInv /\ [Documents!Next]_(Documents!vars)
    BY <1>2, PartsStep DEF PartsIInv
  <2>2. Documents!IInv'
    BY <2>1, DocumentAssumption, Documents!NextIInv
  <2> QED
    BY <2>1, <2>2, DocumentAssumption, Documents!NextReview
<1> QED
  BY <1>1, <1>2, PartsStep DEF PartsIInv

LEMMA PartsSpecIInv == PartsSpec => []PartsIInv
  BY InitPartsIInv, NextPartsIInv, PTL DEF PartsSpec

(* PartsTypeOK, for every instance: what the chat keeps has its type; no handler
   works on a step a workflow does not have, and whatever is asked about is a
   suggestion there is. *)
THEOREM SessionsTypes == PartsSpec => []PartsTypeOK
<1>1. PartsIInv => PartsTypeOK
  BY DocumentAssumption, Documents!IInvTypes DEF PartsIInv, PartsTypeOK, IInv
<1> QED
  BY <1>1, PartsSpecIInv, PTL

(* MadeAsRecorded, for every instance: a completed session made its thing to the
   end; without overlaps and crashes nothing is made after that, and a session that
   was cancelled, declined or expired before made it at most half way, in attempts
   that failed (handleMessage, updateSession). *)
THEOREM SessionsMade == PartsSpec => []MadeAsRecorded
<1>1. PartsIInv => MadeAsRecorded
  BY IInvMade DEF PartsIInv, MadeAsRecorded
<1> QED
  BY <1>1, PartsSpecIInv, PTL

(* DecidedAsApplied, for every instance: a suggestion marked EXECUTED has all its
   transactions; without overlaps, failures and crashes a queue that is through
   has nothing pending (executeApprovedSuggestion, onSuggestionResolved). *)
THEOREM SessionsDecided == PartsSpec => []DecidedAsApplied
<1>1. Documents!IInv /\ Documents!ReviewIInv => Documents!ExecutedWasApplied /\ Documents!ReviewedMeansDecided
  BY DocumentAssumption, Documents!ReviewDecides DEF Documents!IInv
<1>2. PartsIInv => DecidedAsApplied
  BY <1>1 DEF PartsIInv, DecidedAsApplied
<1> QED
  BY <1>2, PartsSpecIInv, PTL

(* DecidedChangesNothing, for every instance: without overlaps a suggestion that
   was executed, rejected or failed is not written for again. *)
THEOREM SessionsSettled == PartsSpec => DecidedChangesNothing
<1>1. PartsIInv /\ [PartsNext]_parts =>
        [~documentOverlapped' =>
            \A s \in DOMAIN status : status[s] \in Documents!Terminal => written'[s] = written[s]]_(Documents!vars)
  <2> SUFFICES ASSUME PartsIInv, [PartsNext]_parts, ~ UNCHANGED Documents!vars, ~documentOverlapped',
                      NEW s \in DOMAIN status, status[s] \in Documents!Terminal
               PROVE  written'[s] = written[s]
    OBVIOUS
  <2>1. part = "document"
    BY DEF PartsNext, SessionMoves, DocumentMoves, parts, documentState, Documents!vars, Documents!data,
           Documents!sessions, Documents!callVars, Documents!budget
  <2>2. Documents!IInv /\ [Documents!Next]_(Documents!vars)
    BY <2>1, PartsStep DEF PartsIInv
  <2> QED
    BY <2>2, DocumentAssumption, Documents!SettledStays
<1> QED
  BY <1>1, PartsSpecIInv, PTL DEF PartsSpec, DecidedChangesNothing, Documents!DecidedChangesNothing
=============================================================================
