-------------------------- MODULE Background_proofs --------------------------
(***************************************************************************)
(* Proofs about what runs behind the chat: the outbox, for any number of   *)
(* events and workers and any number of crashes and failed updates; the    *)
(* interview, for any topics and any number of messages; what people are   *)
(* told about tasks, for any tasks, people and failures; the migrations,   *)
(* for any number of processes, files and deaths; and all of them.         *)
(***************************************************************************)
EXTENDS Background, TLAPS

(* A worker past its first UPDATE has a current row, one of its batch. *)
BusyHasRow ==
    \A w \in Worker : pc[w] \notin {"idle", "loop"} => current[w] \in batch[w]

(* A row that a tick may select has attempts left. *)
PendingHasAttemptsLeft ==
    \A e \in EventId : status[e] = "PENDING" => attempts[e] < MaxAttempts

(* A row object, however stale, has attempts left too, and its attempts never
   exceed the failures there were. *)
SeenBounded ==
    \A w \in Worker : \A e \in batch[w] :
        seen[w][e] < MaxAttempts /\ seen[w][e] <= caught[e]

(* What a worker knows of the row it is processing. *)
CurrentRow ==
    \A w \in Worker :
        /\ pc[w] = "threw" => seen[w][current[w]] + 1 <= caught[current[w]]
        /\ pc[w] = "handled" => current[w] \in handled
        /\ pc[w] \in {"running", "handled"} =>
              (current[w] \in Routed => current[w] \in invoked)

IInv ==
    /\ TypeOK
    /\ BusyHasRow
    /\ PendingHasAttemptsLeft
    /\ SeenBounded
    /\ CurrentRow
    /\ CompletedWasHandled
    /\ AttemptsNotOvercounted

-----------------------------------------------------------------------------
LEMMA InitIInv == Init => IInv
  BY OutboxAssumption
  DEF Init, IInv, TypeOK, BusyHasRow, PendingHasAttemptsLeft, SeenBounded,
      CurrentRow, CompletedWasHandled, AttemptsNotOvercounted, EventId,
      RowStatus, WorkerState

(* Every step keeps the inductive invariant. *)
LEMMA NextIInv == IInv /\ [Next]_vars => IInv'
<1> SUFFICES ASSUME IInv, [Next]_vars PROVE IInv'
  OBVIOUS
<1> USE OutboxAssumption DEF rows, workers, history, faults
<1>0. 0 \notin EventId /\ MaxAttempts \in Nat \ {0} /\ MaxCaught \in Nat
  BY DEF EventId
<1>1. ASSUME NEW e \in EventId, Publish(e)
      PROVE  IInv'
  <2>1. TypeOK'
    BY <1>0, <1>1 DEF Publish, IInv,
         TypeOK, RowStatus, WorkerState
  <2>2. BusyHasRow'
    BY <1>0, <1>1 DEF Publish, IInv,
         BusyHasRow, TypeOK, WorkerState
  <2>3. PendingHasAttemptsLeft'
    BY <1>0, <1>1 DEF Publish, IInv,
         PendingHasAttemptsLeft, TypeOK, SeenBounded, BusyHasRow
  <2>4. SeenBounded'
    BY <1>0, <1>1 DEF Publish, IInv,
         SeenBounded, TypeOK, PendingHasAttemptsLeft, AttemptsNotOvercounted
  <2>5. CurrentRow'
    BY <1>0, <1>1 DEF Publish, IInv,
         CurrentRow, TypeOK, BusyHasRow, SeenBounded
  <2>6. CompletedWasHandled'
    BY <1>0, <1>1 DEF Publish, IInv,
         CompletedWasHandled, TypeOK, CurrentRow, BusyHasRow
  <2>7. AttemptsNotOvercounted'
    BY <1>0, <1>1 DEF Publish, IInv,
         AttemptsNotOvercounted, TypeOK, CurrentRow, BusyHasRow, SeenBounded
  <2> QED
    BY <2>1, <2>2, <2>3, <2>4, <2>5, <2>6, <2>7 DEF IInv
<1>2. ASSUME NEW w \in Worker, NEW ids \in SUBSET PendingIds, Read(w, ids)
      PROVE  IInv'
  <2>1. TypeOK'
    BY <1>0, <1>2 DEF Read, PendingIds, IInv,
         TypeOK, RowStatus, WorkerState
  <2>2. BusyHasRow'
    BY <1>0, <1>2 DEF Read, PendingIds, IInv,
         BusyHasRow, TypeOK, WorkerState
  <2>3. PendingHasAttemptsLeft'
    BY <1>0, <1>2 DEF Read, PendingIds, IInv,
         PendingHasAttemptsLeft, TypeOK, SeenBounded, BusyHasRow
  <2>4. SeenBounded'
    BY <1>0, <1>2 DEF Read, PendingIds, IInv,
         SeenBounded, TypeOK, PendingHasAttemptsLeft, AttemptsNotOvercounted
  <2>5. CurrentRow'
    BY <1>0, <1>2 DEF Read, PendingIds, IInv,
         CurrentRow, TypeOK, BusyHasRow, SeenBounded
  <2>6. CompletedWasHandled'
    BY <1>0, <1>2 DEF Read, PendingIds, IInv,
         CompletedWasHandled, TypeOK, CurrentRow, BusyHasRow
  <2>7. AttemptsNotOvercounted'
    BY <1>0, <1>2 DEF Read, PendingIds, IInv,
         AttemptsNotOvercounted, TypeOK, CurrentRow, BusyHasRow, SeenBounded
  <2> QED
    BY <2>1, <2>2, <2>3, <2>4, <2>5, <2>6, <2>7 DEF IInv
<1>3. ASSUME NEW w \in Worker, Claim(w)
      PROVE  IInv'
  <2>1. TypeOK'
    BY <1>0, <1>3 DEF Claim, IsNextRow, IInv,
         TypeOK, RowStatus, WorkerState
  <2>2. BusyHasRow'
    BY <1>0, <1>3 DEF Claim, IsNextRow, IInv,
         BusyHasRow, TypeOK, WorkerState
  <2>3. PendingHasAttemptsLeft'
    BY <1>0, <1>3 DEF Claim, IsNextRow, IInv,
         PendingHasAttemptsLeft, TypeOK, SeenBounded, BusyHasRow
  <2>4. SeenBounded'
    BY <1>0, <1>3 DEF Claim, IsNextRow, IInv,
         SeenBounded, TypeOK, PendingHasAttemptsLeft, AttemptsNotOvercounted
  <2>5. CurrentRow'
    BY <1>0, <1>3 DEF Claim, IsNextRow, IInv,
         CurrentRow, TypeOK, BusyHasRow, SeenBounded
  <2>6. CompletedWasHandled'
    BY <1>0, <1>3 DEF Claim, IsNextRow, IInv,
         CompletedWasHandled, TypeOK, CurrentRow, BusyHasRow
  <2>7. AttemptsNotOvercounted'
    BY <1>0, <1>3 DEF Claim, IsNextRow, IInv,
         AttemptsNotOvercounted, TypeOK, CurrentRow, BusyHasRow, SeenBounded
  <2> QED
    BY <2>1, <2>2, <2>3, <2>4, <2>5, <2>6, <2>7 DEF IInv
<1>4. ASSUME NEW w \in Worker, Invoke(w) PROVE IInv'
  BY <1>0, <1>4
  DEF Invoke, IInv, TypeOK, BusyHasRow, PendingHasAttemptsLeft, SeenBounded,
      CurrentRow, CompletedWasHandled, AttemptsNotOvercounted, WorkerState
<1>5. ASSUME NEW w \in Worker, HandlerReturns(w) PROVE IInv'
  BY <1>0, <1>5
  DEF HandlerReturns, IInv, TypeOK, BusyHasRow, PendingHasAttemptsLeft, SeenBounded,
      CurrentRow, CompletedWasHandled, AttemptsNotOvercounted, WorkerState
<1>6. ASSUME NEW w \in Worker, HandlerThrows(w)
      PROVE  IInv'
  <2>1. TypeOK'
    BY <1>0, <1>6 DEF HandlerThrows, CountCaught, IInv,
         TypeOK, RowStatus, WorkerState
  <2>2. BusyHasRow'
    BY <1>0, <1>6 DEF HandlerThrows, CountCaught, IInv,
         BusyHasRow, TypeOK, WorkerState
  <2>3. PendingHasAttemptsLeft'
    BY <1>0, <1>6 DEF HandlerThrows, CountCaught, IInv,
         PendingHasAttemptsLeft, TypeOK, SeenBounded, BusyHasRow
  <2>4. SeenBounded'
    BY <1>0, <1>6 DEF HandlerThrows, CountCaught, IInv,
         SeenBounded, TypeOK, PendingHasAttemptsLeft, AttemptsNotOvercounted
  <2>5. CurrentRow'
    BY <1>0, <1>6 DEF HandlerThrows, CountCaught, IInv,
         CurrentRow, TypeOK, BusyHasRow, SeenBounded
  <2>6. CompletedWasHandled'
    BY <1>0, <1>6 DEF HandlerThrows, CountCaught, IInv,
         CompletedWasHandled, TypeOK, CurrentRow, BusyHasRow
  <2>7. AttemptsNotOvercounted'
    BY <1>0, <1>6 DEF HandlerThrows, CountCaught, IInv,
         AttemptsNotOvercounted, TypeOK, CurrentRow, BusyHasRow, SeenBounded
  <2> QED
    BY <2>1, <2>2, <2>3, <2>4, <2>5, <2>6, <2>7 DEF IInv
<1>7. ASSUME NEW w \in Worker, Complete(w)
      PROVE  IInv'
  <2>1. TypeOK'
    <3>1. current[w] \in EventId
      BY <1>0, <1>7 DEF Complete, IInv, TypeOK, BusyHasRow
    <3>2. [seen[w] EXCEPT ![current[w]] = 0] \in [EventId -> 0..MaxAttempts]
      BY <1>0, <3>1 DEF IInv, TypeOK
    <3>3. seen' \in [Worker -> [EventId -> 0..MaxAttempts]]
      BY <1>7, <3>2 DEF Complete, NextInBatch, IInv, TypeOK
    <3> QED
      BY <1>0, <1>7, <3>1, <3>3
      DEF Complete, NextInBatch, IInv, TypeOK, RowStatus, WorkerState
  <2>2. BusyHasRow'
    BY <1>0, <1>7 DEF Complete, NextInBatch, IInv,
         BusyHasRow, TypeOK, WorkerState
  <2>3. PendingHasAttemptsLeft'
    BY <1>0, <1>7 DEF Complete, NextInBatch, IInv,
         PendingHasAttemptsLeft, TypeOK, SeenBounded, BusyHasRow
  <2>4. SeenBounded'
    BY <1>0, <1>7 DEF Complete, NextInBatch, IInv,
         SeenBounded, TypeOK, PendingHasAttemptsLeft, AttemptsNotOvercounted
  <2>5. CurrentRow'
    BY <1>0, <1>7 DEF Complete, NextInBatch, IInv,
         CurrentRow, TypeOK, BusyHasRow, SeenBounded
  <2>6. CompletedWasHandled'
    BY <1>0, <1>7 DEF Complete, NextInBatch, IInv,
         CompletedWasHandled, TypeOK, CurrentRow, BusyHasRow
  <2>7. AttemptsNotOvercounted'
    BY <1>0, <1>7 DEF Complete, NextInBatch, IInv,
         AttemptsNotOvercounted, TypeOK, CurrentRow, BusyHasRow, SeenBounded
  <2> QED
    BY <2>1, <2>2, <2>3, <2>4, <2>5, <2>6, <2>7 DEF IInv
<1>8. ASSUME NEW w \in Worker, RecordFailure(w)
      PROVE  IInv'
  <2>1. TypeOK'
    <3>1. current[w] \in EventId /\ current[w] \in batch[w]
      BY <1>0, <1>8 DEF RecordFailure, IInv, TypeOK, BusyHasRow
    <3>2. [seen[w] EXCEPT ![current[w]] = 0] \in [EventId -> 0..MaxAttempts]
      BY <1>0, <3>1 DEF IInv, TypeOK
    <3>3. seen' \in [Worker -> [EventId -> 0..MaxAttempts]]
      BY <1>8, <3>2 DEF RecordFailure, NextInBatch, IInv, TypeOK
    <3>4. AttemptsAfterFailure(w) \in 0..MaxAttempts
      BY <1>0, <3>1 DEF AttemptsAfterFailure, IInv, TypeOK, SeenBounded
    <3>5. attempts' \in [EventId -> 0..MaxAttempts]
      BY <1>8, <3>1, <3>4 DEF RecordFailure, IInv, TypeOK
    <3> QED
      BY <1>0, <1>8, <3>1, <3>3, <3>5
      DEF RecordFailure, NextInBatch, StatusAfterFailure, IInv, TypeOK,
          RowStatus, WorkerState
  <2>2. BusyHasRow'
    BY <1>0, <1>8 DEF RecordFailure, NextInBatch, AttemptsAfterFailure,
         StatusAfterFailure, IInv,
         BusyHasRow, TypeOK, WorkerState
  <2>3. PendingHasAttemptsLeft'
    BY <1>0, <1>8 DEF RecordFailure, NextInBatch, AttemptsAfterFailure,
         StatusAfterFailure, IInv,
         PendingHasAttemptsLeft, TypeOK, SeenBounded, BusyHasRow
  <2>4. SeenBounded'
    BY <1>0, <1>8 DEF RecordFailure, NextInBatch, AttemptsAfterFailure,
         StatusAfterFailure, IInv,
         SeenBounded, TypeOK, PendingHasAttemptsLeft, AttemptsNotOvercounted
  <2>5. CurrentRow'
    BY <1>0, <1>8 DEF RecordFailure, NextInBatch, AttemptsAfterFailure,
         StatusAfterFailure, IInv,
         CurrentRow, TypeOK, BusyHasRow, SeenBounded
  <2>6. CompletedWasHandled'
    BY <1>0, <1>8 DEF RecordFailure, NextInBatch, AttemptsAfterFailure,
         StatusAfterFailure, IInv,
         CompletedWasHandled, TypeOK, CurrentRow, BusyHasRow
  <2>7. AttemptsNotOvercounted'
    BY <1>0, <1>8 DEF RecordFailure, NextInBatch, AttemptsAfterFailure,
         StatusAfterFailure, IInv,
         AttemptsNotOvercounted, TypeOK, CurrentRow, BusyHasRow, SeenBounded
  <2> QED
    BY <2>1, <2>2, <2>3, <2>4, <2>5, <2>6, <2>7 DEF IInv
<1>9. ASSUME NEW w \in Worker, UpdateFails(w)
      PROVE  IInv'
  <2>1. CASE pc[w] \in {"loop", "threw"} /\ Stop(w) /\ UNCHANGED caught
    <3>1. TypeOK'
      BY <1>0, <1>9, <2>1 DEF UpdateFails, Stop, IInv, TypeOK, WorkerState
    <3>2. BusyHasRow'
      BY <1>0, <1>9, <2>1 DEF UpdateFails, Stop, IInv, BusyHasRow, TypeOK, WorkerState
    <3>3. PendingHasAttemptsLeft'
      BY <1>0, <1>9, <2>1 DEF UpdateFails, Stop, IInv, PendingHasAttemptsLeft, TypeOK
    <3>4. SeenBounded'
      BY <1>0, <1>9, <2>1 DEF UpdateFails, Stop, IInv, SeenBounded, TypeOK
    <3>5. CurrentRow'
      BY <1>0, <1>9, <2>1 DEF UpdateFails, Stop, IInv, CurrentRow, TypeOK, BusyHasRow, SeenBounded
    <3>6. CompletedWasHandled'
      BY <1>0, <1>9, <2>1 DEF UpdateFails, Stop, IInv, CompletedWasHandled, TypeOK
    <3>7. AttemptsNotOvercounted'
      BY <1>0, <1>9, <2>1 DEF UpdateFails, Stop, IInv, AttemptsNotOvercounted, TypeOK
    <3> QED
      BY <3>1, <3>2, <3>3, <3>4, <3>5, <3>6, <3>7 DEF IInv
  <2>2. CASE /\ pc[w] = "handled"
             /\ pc' = [pc EXCEPT ![w] = "threw"]
             /\ CountCaught(w)
             /\ UNCHANGED <<batch, seen, current>>
    <3>1. TypeOK'
      BY <1>0, <1>9, <2>2 DEF UpdateFails, CountCaught, IInv, TypeOK, WorkerState, BusyHasRow
    <3>2. BusyHasRow'
      BY <1>0, <1>9, <2>2 DEF UpdateFails, CountCaught, IInv, BusyHasRow, TypeOK, WorkerState
    <3>3. PendingHasAttemptsLeft'
      BY <1>0, <1>9, <2>2 DEF UpdateFails, CountCaught, IInv, PendingHasAttemptsLeft, TypeOK
    <3>4. SeenBounded'
      BY <1>0, <1>9, <2>2 DEF UpdateFails, CountCaught, IInv, SeenBounded, TypeOK, BusyHasRow
    <3>5. CurrentRow'
      BY <1>0, <1>9, <2>2 DEF UpdateFails, CountCaught, IInv, CurrentRow, TypeOK, BusyHasRow, SeenBounded
    <3>6. CompletedWasHandled'
      BY <1>0, <1>9, <2>2 DEF UpdateFails, CountCaught, IInv, CompletedWasHandled, TypeOK
    <3>7. AttemptsNotOvercounted'
      BY <1>0, <1>9, <2>2 DEF UpdateFails, CountCaught, IInv, AttemptsNotOvercounted, TypeOK
    <3> QED
      BY <3>1, <3>2, <3>3, <3>4, <3>5, <3>6, <3>7 DEF IInv
  <2> QED
    BY <1>9, <2>1, <2>2 DEF UpdateFails
<1>10. ASSUME Crash PROVE IInv'
  BY <1>0, <1>10
  DEF Crash, IInv, TypeOK, BusyHasRow, PendingHasAttemptsLeft, SeenBounded,
      CurrentRow, CompletedWasHandled, AttemptsNotOvercounted, WorkerState
<1>11. ASSUME UNCHANGED vars PROVE IInv'
  BY <1>0, <1>11
  DEF vars, IInv, TypeOK, BusyHasRow, PendingHasAttemptsLeft, SeenBounded,
      CurrentRow, CompletedWasHandled, AttemptsNotOvercounted, WorkerState
<1>12. BatchOf(PendingIds) \in SUBSET PendingIds
  BY DEF BatchOf
<1>13. ASSUME NEW w \in Worker, BeginBatch(w) PROVE IInv'
  BY <1>2, <1>12, <1>13 DEF BeginBatch
<1>14. ASSUME NEW w \in Worker, BeginById(w) PROVE IInv'
  BY <1>2, <1>14 DEF BeginById
<1> QED
  BY <1>1, <1>3, <1>4, <1>5, <1>6, <1>7, <1>8, <1>9, <1>10, <1>11, <1>13, <1>14
  DEF Next, Step

(* The inductive invariant holds in every reachable state of the outbox. *)
THEOREM OutboxInvariant == Spec => []IInv
<1>1. QED
  BY InitIInv, NextIInv, PTL DEF Spec

(* Types: in particular `attempts' never passes MAX_ATTEMPTS, although it is
   written from stale row objects. *)
THEOREM OutboxTypes == Spec => []TypeOK
  BY OutboxInvariant, PTL DEF IInv

(* No row is COMPLETED without a dispatch that returned. *)
THEOREM OutboxCompleted == Spec => []CompletedWasHandled
  BY OutboxInvariant, PTL DEF IInv

(* No failure is counted that did not happen; FAILED means MAX_ATTEMPTS of
   them. *)
THEOREM OutboxAttempts == Spec => []AttemptsNotOvercounted
  BY OutboxInvariant, PTL DEF IInv

-----------------------------------------------------------------------------
(* The interview (Discovery). *)
Answers == [Interview!Slot -> Interview!Slot \union {Interview!NoSlot}]
Stage == 0..3
Flag == BOOLEAN
Profile ==
    [status : {"ACTIVE", "PAUSED", "COMPLETED"}, stage : Stage, due : Flag, data : Answers, scored : Flag]
FieldNo == 0..Fields-1
EntityNo == 0..MaxEntities-1
Talk ==
    [step : {"none", "MENU", "COLLECT"}, topic : Topic \union {Interview!NoTopic},
     field : FieldNo, entity : EntityNo, more : Flag]
Asked == Interview!Slot \union {Interview!NoSlot, Interview!Menu, Interview!More}

OpsOf(c) ==
    CASE c = "chat" -> {"record", "resume", "pause", "score"}
      [] c = "document" -> {"bump", "score", "mark"}
      [] c = "reminder" -> {"remind"}

(* Who is asked for an answer was asked the question of the session. *)
AskedFor(t, a) ==
    t.step = "COLLECT" => t.topic \in Topic /\ (~t.more => a = Interview!Question(t))

InPlace(d) == \A s \in Interview!Slot : d[s] \in {s, Interview!NoSlot}

Shaped(w) == w = [op |-> w.op, seen |-> w.seen, slot |-> w.slot, talk |-> w.talk, asked |-> w.asked]

(* An operation under way has a whole copy, its answers in place. *)
WorkOK(c) ==
    /\ work[c].op \in {"none"} \union OpsOf(c) /\ Shaped(work[c])
    /\ Interview!Busy(c) =>
        /\ work[c].seen \in Profile /\ InPlace(work[c].seen.data)
        /\ work[c].talk \in Talk /\ work[c].asked \in Asked
        /\ AskedFor(work[c].talk, work[c].asked)
    /\ work[c].op = "record" => work[c].slot = asked /\ asked \in Interview!Slot

(* While nothing overlapped one operation at most is under way, what it writes
   is what it read, and an answer is missing only while it is written. *)
Alone ==
    /\ \A c, d \in Interview!Client : Interview!Busy(c) /\ Interview!Busy(d) => c = d
    /\ \A c \in Interview!Client : work[c].op \in {"record", "bump"} => work[c].seen.data = row.data
    /\ \A s \in told : row.data[s] = s \/ (work["chat"].op = "record" /\ work["chat"].slot = s)

InterviewTypes ==
    /\ row \in Profile /\ talk \in Talk /\ asked \in Asked /\ told \subseteq Interview!Slot
    /\ messages \in 0..MaxMessages /\ others \in 0..MaxOthers
    /\ interviewRows \in BOOLEAN /\ overlapped \in BOOLEAN

InterviewIInv ==
    /\ InterviewTypes
    /\ work = [c \in Interview!Client |-> work[c]]
    /\ InPlace(row.data)
    /\ AskedFor(talk, asked)
    /\ \A c \in Interview!Client : WorkOK(c)
    /\ ~overlapped => Alone

-----------------------------------------------------------------------------
LEMMA InterviewStands == InterviewIInv => Interview!TypeOK /\ Interview!AnswersStandWhereAsked
<1> SUFFICES ASSUME InterviewIInv PROVE Interview!TypeOK /\ Interview!AnswersStandWhereAsked
  OBVIOUS
<1>0. Interview!TypeOK
  <2>1. \A c \in Interview!Client : work[c].op \in {"none", "record", "bump", "resume", "pause", "remind", "score", "mark"}
    BY DEF InterviewIInv, WorkOK, OpsOf, Interview!Client
  <2> QED
    BY <2>1 DEF InterviewIInv, InterviewTypes, Interview!TypeOK, Profile, Talk, Asked, Answers, Stage, Flag, FieldNo, EntityNo
<1>1. \A s \in Interview!Slot : row.data[s] \in {s, Interview!NoSlot}
  BY DEF InterviewIInv, InPlace
<1>2. ~overlapped /\ ~Interview!Busy("chat") => \A s \in told : row.data[s] = s
  BY DEF InterviewIInv, Alone, Interview!Busy
<1> QED
  BY <1>0, <1>1, <1>2 DEF Interview!AnswersStandWhereAsked

LEMMA StageFlag == {0, 1, 2, 3} \subseteq Stage /\ TRUE \in Flag /\ FALSE \in Flag
  BY DEF Stage, Flag

LEMMA InitInterview == Interview!DiscoveryAssumption /\ Interview!Init => InterviewIInv
<1> SUFFICES ASSUME Interview!DiscoveryAssumption, Interview!Init PROVE InterviewIInv
  OBVIOUS
<1>1. Fields \in Nat \ {0} /\ MaxEntities \in Nat \ {0} /\ MaxMessages \in Nat /\ MaxOthers \in Nat
  BY DEF Interview!DiscoveryAssumption
<1>2. Interview!NewRow \in Profile /\ InPlace(Interview!NewRow.data)
  <2>1. [s \in Interview!Slot |-> Interview!NoSlot] \in Answers
    BY DEF Answers
  <2>2. Interview!NewRow \in Profile
    BY <2>1, StageFlag DEF Interview!NewRow, Profile
  <2>3. InPlace(Interview!NewRow.data)
    BY DEF Interview!NewRow, InPlace
  <2> QED
    BY <2>2, <2>3
<1>3. Interview!NoTalk \in Talk /\ Interview!NoTalk.step = "none"
  <2>1. 0 \in FieldNo /\ 0 \in EntityNo
    BY <1>1 DEF FieldNo, EntityNo
  <2> QED
    BY <2>1, StageFlag DEF Interview!NoTalk, Interview!AtMenu, Talk
<1>4. \A c \in Interview!Client : work[c].op = "none"
  BY DEF Interview!Init, Interview!None
<1>5. InterviewTypes
  <2>1. row \in Profile /\ talk \in Talk
    BY <1>2, <1>3 DEF Interview!Init
  <2>3. /\ asked \in Asked /\ told \subseteq Interview!Slot
        /\ messages \in 0..MaxMessages /\ others \in 0..MaxOthers
    BY <1>1 DEF Interview!Init, Asked
  <2>4. interviewRows \in BOOLEAN /\ overlapped \in BOOLEAN
    BY DEF Interview!Init
  <2> QED
    BY <2>1, <2>3, <2>4 DEF InterviewTypes
<1>6. \A c \in Interview!Client : WorkOK(c)
  <2>1. \A c \in Interview!Client : work[c] = Interview!None
    BY DEF Interview!Init
  <2>2. Shaped(Interview!None)
    BY DEF Interview!None, Shaped
  <2> QED
    BY <1>4, <2>1, <2>2 DEF WorkOK, Interview!Busy
<1>7. Alone
  BY <1>4 DEF Alone, Interview!Busy, Interview!Init
<1> QED
  BY <1>2, <1>3, <1>5, <1>6, <1>7 DEF InterviewIInv, Interview!Init, AskedFor

(* What an operation makes of the copy it read. *)
LEMMA ChangedIs ==
  ASSUME NEW w, w.seen \in Profile, InPlace(w.seen.data),
         w.op \in {"record", "bump", "resume", "pause", "remind", "score"},
         w.op = "record" => w.slot = asked /\ asked \in Interview!Slot
  PROVE  /\ Interview!Changed(w) \in Profile /\ InPlace(Interview!Changed(w).data)
         /\ w.op # "record" => Interview!Changed(w).data = w.seen.data
         /\ w.op = "record" => Interview!Changed(w).data = [w.seen.data EXCEPT ![w.slot] = w.slot]
<1>1. ASSUME NEW p \in Profile PROVE Interview!Touched(p) \in Profile /\ Interview!Touched(p).data = p.data
  BY StageFlag DEF Interview!Touched, Profile
<1>2. ASSUME NEW p \in Profile PROVE Interview!Resumed(p) \in Profile /\ Interview!Resumed(p).data = p.data
  <2>1. [p EXCEPT !.status = "ACTIVE", !.stage = 0] \in Profile
    BY StageFlag DEF Profile
  <2>2. [p EXCEPT !.status = "ACTIVE", !.stage = 0].data = p.data
    BY DEF Profile
  <2> QED
    BY <1>1, <2>1, <2>2 DEF Interview!Resumed
<1>3. ASSUME NEW p \in Profile PROVE Interview!Paused(p) \in Profile /\ Interview!Paused(p).data = p.data
  BY StageFlag DEF Interview!Paused, Profile
<1>4. ASSUME NEW p \in Profile PROVE Interview!Reminded(p) \in Profile /\ Interview!Reminded(p).data = p.data
  <2>1. CASE p.status # "ACTIVE" \/ p.stage >= 3
    BY <2>1 DEF Interview!Reminded
  <2>2. CASE p.status = "ACTIVE" /\ p.stage = 0
    <3>1. Interview!Reminded(p) = [p EXCEPT !.stage = 1, !.due = TRUE]
      BY <2>2 DEF Interview!Reminded
    <3>2. [p EXCEPT !.stage = 1, !.due = TRUE] \in Profile /\ [p EXCEPT !.stage = 1, !.due = TRUE].data = p.data
      BY StageFlag DEF Profile
    <3> QED
      BY <3>1, <3>2
  <2>3. CASE p.status = "ACTIVE" /\ p.stage = 1
    <3>1. Interview!Reminded(p) = [p EXCEPT !.stage = 2, !.due = FALSE]
      BY <2>3 DEF Interview!Reminded
    <3>2. [p EXCEPT !.stage = 2, !.due = FALSE] \in Profile /\ [p EXCEPT !.stage = 2, !.due = FALSE].data = p.data
      BY StageFlag DEF Profile
    <3> QED
      BY <3>1, <3>2
  <2>4. CASE p.status = "ACTIVE" /\ p.stage = 2
    BY <1>3, <2>4 DEF Interview!Reminded
  <2>5. p.stage \in 0..3
    BY DEF Profile, Stage
  <2> QED
    BY <2>1, <2>2, <2>3, <2>4, <2>5
<1>5. ASSUME NEW p \in Profile PROVE Interview!Scored(p) \in Profile /\ Interview!Scored(p).data = p.data
  <2> DEFINE q == [p EXCEPT !.scored = Interview!Complete(p)]
  <2>1. Interview!Complete(p) \in Flag
    BY DEF Interview!Complete, Flag
  <2>2. q \in Profile /\ q.data = p.data
    BY <2>1 DEF Profile
  <2> HIDE DEF q
  <2>3. Interview!Completed(q) \in Profile /\ Interview!Completed(q).data = q.data
    BY <2>2, StageFlag DEF Interview!Completed, Profile
  <2>4. Interview!Scored(p) = IF q.scored /\ p.status = "ACTIVE" THEN Interview!Completed(q) ELSE q
    BY DEF Interview!Scored, q
  <2> QED
    BY <2>2, <2>3, <2>4
<1>6. CASE w.op = "record"
  <2> DEFINE p == Interview!Answered(w.seen, w.slot, asked)
  <2>1. p \in Profile /\ p.data = [w.seen.data EXCEPT ![w.slot] = w.slot]
    BY <1>6 DEF Interview!Answered, Profile, Answers
  <2>2. InPlace(p.data)
    BY <1>6, <2>1 DEF InPlace, Profile, Answers
  <2> HIDE DEF p
  <2>3. Interview!Changed(w) = Interview!Touched(p)
    BY <1>6 DEF Interview!Changed, p
  <2> QED
    BY <1>1, <1>6, <2>1, <2>2, <2>3
<1>7. CASE w.op = "bump"
  <2>1. Interview!Changed(w) = Interview!Touched(w.seen)
    BY <1>7 DEF Interview!Changed
  <2> QED
    BY <1>1, <1>7, <2>1
<1>8. CASE w.op = "resume"
  <2>1. Interview!Changed(w) = Interview!Resumed(w.seen)
    BY <1>8 DEF Interview!Changed
  <2> QED
    BY <1>2, <1>8, <2>1
<1>9. CASE w.op = "pause"
  <2>1. Interview!Changed(w) = Interview!Paused(w.seen)
    BY <1>9 DEF Interview!Changed
  <2> QED
    BY <1>3, <1>9, <2>1
<1>10. CASE w.op = "remind"
  <2>1. Interview!Changed(w) = Interview!Reminded(w.seen)
    BY <1>10 DEF Interview!Changed
  <2> QED
    BY <1>4, <1>10, <2>1
<1>11. CASE w.op = "score"
  <2>1. Interview!Changed(w) = Interview!Scored(w.seen)
    BY <1>11 DEF Interview!Changed
  <2> QED
    BY <1>5, <1>11, <2>1
<1> QED
  BY <1>6, <1>7, <1>8, <1>9, <1>10, <1>11

(* ... and what it saves. *)
LEMMA SaveIs ==
  ASSUME NEW w, row \in Profile, Interview!Changed(w) \in Profile
  PROVE  /\ Interview!Save(w) \in Profile
         /\ Interview!Save(w).data = IF w.op \in {"record", "bump"} THEN Interview!Changed(w).data ELSE row.data
<1> DEFINE p == Interview!Changed(w)
<1>1. p \in Profile
  OBVIOUS
<1>2. Interview!Save(w) =
    [row EXCEPT !.status = IF p.status # w.seen.status THEN p.status ELSE @,
                !.stage  = IF p.stage # w.seen.stage THEN p.stage ELSE @,
                !.due    = IF p.due # w.seen.due \/ (Interview!Rescheduled(w.op) /\ p.status = "ACTIVE")
                           THEN p.due ELSE @,
                !.scored = IF p.scored # w.seen.scored THEN p.scored ELSE @,
                !.data   = IF w.op \in {"record", "bump"} THEN p.data ELSE @]
  BY DEF Interview!Save
<1> HIDE DEF p
<1>3. Interview!Save(w) \in Profile /\ Interview!Save(w).data = IF w.op \in {"record", "bump"} THEN p.data ELSE row.data
  BY <1>1, <1>2 DEF Profile
<1> QED
  BY <1>3 DEF p

(* An operation begins. *)
LEMMA StartsInterview ==
  ASSUME InterviewIInv, NEW c \in Interview!Client, NEW op \in OpsOf(c) \ {"mark"}, NEW slot,
         NEW next \in Talk, NEW question \in Asked, AskedFor(next, question),
         ~Interview!Busy(c), Interview!Starts(c, op, slot, next, question),
         op = "record" => slot = asked /\ asked \in Interview!Slot /\ told' = told \union {asked},
         op # "record" => told' = told,
         UNCHANGED <<row, interviewRows, talk, asked>>,
         messages' \in 0..MaxMessages, others' \in 0..MaxOthers
  PROVE  InterviewIInv'
<1> DEFINE new == [op |-> op, seen |-> row, slot |-> slot, talk |-> next, asked |-> question]
<1>1. /\ row \in Profile /\ talk \in Talk /\ asked \in Asked /\ told \subseteq Interview!Slot
      /\ interviewRows \in BOOLEAN /\ overlapped \in BOOLEAN
  BY DEF InterviewIInv, InterviewTypes
<1>2. /\ work' = [work EXCEPT ![c] = new]
      /\ overlapped' = (overlapped \/ \E d \in Interview!Client \ {c} : Interview!Busy(d))
  BY DEF Interview!Starts
<1>3. new.op = op /\ new.seen = row /\ new.slot = slot /\ new.talk = next /\ new.asked = question
      /\ Shaped(new)
  BY DEF Shaped
<1> HIDE DEF new
<1>4. /\ work' = [d \in Interview!Client |-> work'[d]]
      /\ work'[c] = new /\ \A d \in Interview!Client \ {c} : work'[d] = work[d]
  BY <1>2 DEF InterviewIInv
<1>5. op # "none"
  BY DEF OpsOf, Interview!Client
<1>6. ASSUME NEW d \in Interview!Client PROVE WorkOK(d)'
  <2>1. CASE d = c
    <3>1. InPlace(row.data)
      BY DEF InterviewIInv
    <3> QED
      BY <1>1, <1>3, <1>4, <2>1, <3>1 DEF WorkOK, Interview!Busy
  <2>2. CASE d # c
    <3>1. WorkOK(d) /\ work'[d] = work[d]
      BY <1>4, <2>2 DEF InterviewIInv
    <3> QED
      BY <3>1 DEF WorkOK, Interview!Busy
  <2> QED
    BY <2>1, <2>2
<1>7. ASSUME ~overlapped' PROVE Alone'
  <2>1. Alone /\ \A d \in Interview!Client \ {c} : ~Interview!Busy(d)
    BY <1>2, <1>7 DEF InterviewIInv
  <2>2. \A d \in Interview!Client \ {c} : ~Interview!Busy(d)' /\ work'[d].op = "none"
    BY <1>4, <2>1 DEF Interview!Busy
  <2>3. \A a, b \in Interview!Client : Interview!Busy(a)' /\ Interview!Busy(b)' => a = b
    BY <2>2
  <2>4. \A d \in Interview!Client : work'[d].op \in {"record", "bump"} => work'[d].seen.data = row'.data
    BY <1>3, <1>4, <2>2
  <2>5. "chat" \in Interview!Client /\ work["chat"].op = "none"
    BY <2>1 DEF Interview!Busy, Interview!Client
  <2>6. \A s \in told : row.data[s] = s
    BY <2>1, <2>5 DEF Alone
  <2>7. ASSUME NEW s \in told' PROVE row'.data[s] = s \/ (work'["chat"].op = "record" /\ work'["chat"].slot = s)
    <3>1. CASE s \in told
      BY <2>6, <3>1
    <3>2. CASE s \notin told
      <4>1. op = "record" /\ s = slot
        BY <2>7, <3>2
      <4>2. c = "chat"
        BY <4>1 DEF OpsOf, Interview!Client
      <4> QED
        BY <1>3, <1>4, <4>1, <4>2
    <3> QED
      BY <3>1, <3>2
  <2> QED
    BY <2>3, <2>4, <2>7 DEF Alone
<1>8. interviewRows' \in BOOLEAN /\ overlapped' \in BOOLEAN
  BY <1>1, <1>2
<1>9. told' \subseteq Interview!Slot
  BY <1>1
<1>10. InPlace(row'.data) /\ AskedFor(talk', asked')
  BY DEF InterviewIInv
<1>11. row' \in Profile /\ talk' \in Talk /\ asked' \in Asked
  BY <1>1
<1> QED
  BY <1>4, <1>6, <1>7, <1>8, <1>9, <1>10, <1>11 DEF InterviewIInv, InterviewTypes

(* An operation saves. *)
LEMMA SavesInterview ==
  ASSUME Interview!DiscoveryAssumption, InterviewIInv, NEW c \in Interview!Client, Interview!Saves(c)
  PROVE  InterviewIInv'
<1> DEFINE w == work[c]
<1>0. /\ row \in Profile /\ talk \in Talk /\ asked \in Asked /\ told \subseteq Interview!Slot
      /\ interviewRows \in BOOLEAN /\ overlapped \in BOOLEAN /\ InPlace(row.data) /\ AskedFor(talk, asked)
      /\ messages \in 0..MaxMessages /\ others \in 0..MaxOthers
  BY DEF InterviewIInv, InterviewTypes
<1>1. /\ Interview!Busy(c) /\ w.op # "mark" /\ row' = Interview!Save(w)
      /\ UNCHANGED <<interviewRows, told, overlapped, messages, others>>
  BY DEF Interview!Saves
<1>2. /\ w.op \in OpsOf(c) \ {"none", "mark"} /\ w.seen \in Profile /\ InPlace(w.seen.data)
      /\ w.talk \in Talk /\ w.asked \in Asked /\ AskedFor(w.talk, w.asked)
      /\ w.op = "record" => w.slot = asked /\ asked \in Interview!Slot
      /\ Shaped(w)
  BY <1>1 DEF InterviewIInv, WorkOK, Interview!Busy
<1>3. /\ w.op \in {"record", "bump", "resume", "pause", "remind", "score"}
      /\ w.op \in {"record", "resume", "pause"} => c = "chat"
      /\ w.op = "bump" => c = "document"
      /\ w.op = "remind" => c = "reminder"
      /\ w.op = "score" => c \in {"chat", "document"}
  BY <1>2 DEF OpsOf, Interview!Client
<1> HIDE DEF w
<1>4. /\ Interview!Changed(w) \in Profile /\ InPlace(Interview!Changed(w).data)
      /\ w.op # "record" => Interview!Changed(w).data = w.seen.data
      /\ w.op = "record" => Interview!Changed(w).data = [w.seen.data EXCEPT ![w.slot] = w.slot]
  BY <1>2, <1>3, ChangedIs
<1>5. /\ Interview!Save(w) \in Profile
      /\ Interview!Save(w).data = IF w.op \in {"record", "bump"} THEN Interview!Changed(w).data ELSE row.data
  BY <1>0, <1>4, SaveIs
<1>6. row' \in Profile /\ InPlace(row'.data)
  BY <1>0, <1>1, <1>4, <1>5
(* What comes of the operation, and of the conversation. *)
<1>7. /\ work' = [d \in Interview!Client |-> work'[d]] /\ \A d \in Interview!Client \ {c} : work'[d] = work[d]
      /\ \/ /\ w.op \in {"record", "bump"} /\ work'[c] = [w EXCEPT !.op = "score", !.seen = Interview!Changed(w)]
            /\ UNCHANGED <<talk, asked>>
         \/ /\ w.op \notin {"record", "bump"} /\ c = "document" /\ work'[c] = [w EXCEPT !.op = "mark"]
            /\ UNCHANGED <<talk, asked>>
         \/ /\ w.op \notin {"record", "bump"} /\ work'[c] = Interview!None
            /\ IF c = "chat" THEN talk' = w.talk /\ asked' = w.asked ELSE UNCHANGED <<talk, asked>>
  BY DEF Interview!Saves, InterviewIInv, w
<1>8. talk' \in Talk /\ asked' \in Asked /\ AskedFor(talk', asked')
  BY <1>0, <1>2, <1>7
<1>9. c # "chat" => UNCHANGED <<talk, asked>>
  BY <1>7
<1>10. w.op \in {"record", "bump"} =>
          /\ work'[c].op = "score" /\ work'[c].seen = Interview!Changed(w)
          /\ work'[c].talk = w.talk /\ work'[c].asked = w.asked /\ Shaped(work'[c])
  <2> SUFFICES ASSUME w.op \in {"record", "bump"}
               PROVE  /\ work'[c].op = "score" /\ work'[c].seen = Interview!Changed(w) /\ Shaped(work'[c])
                      /\ work'[c].talk = w.talk /\ work'[c].asked = w.asked
    OBVIOUS
  <2> DEFINE p == Interview!Changed(w)
  <2>1. work'[c] = [w EXCEPT !.op = "score", !.seen = p]
    BY <1>7
  <2> HIDE DEF p
  <2>2. w = [op |-> w.op, seen |-> w.seen, slot |-> w.slot, talk |-> w.talk, asked |-> w.asked]
    BY <1>2 DEF Shaped
  <2>3. work'[c] = [op |-> "score", seen |-> p, slot |-> w.slot, talk |-> w.talk, asked |-> w.asked]
    BY ONLY <2>1, <2>2
  <2> QED
    BY <2>3 DEF p, Shaped
<1>11. WorkOK(c)'
  <2>1. CASE w.op \in {"record", "bump"}
    <3>1. "score" \in OpsOf(c)
      BY <1>3, <2>1 DEF OpsOf
    <3> QED
      BY <1>2, <1>4, <1>10, <2>1, <3>1 DEF WorkOK, Interview!Busy
  <2>2. CASE w.op \notin {"record", "bump"} /\ c = "document" /\ work'[c] = [w EXCEPT !.op = "mark"]
    <3>1. /\ work'[c].op = "mark" /\ work'[c].seen = w.seen
          /\ work'[c].talk = w.talk /\ work'[c].asked = w.asked /\ Shaped(work'[c])
      <4>1. w = [op |-> w.op, seen |-> w.seen, slot |-> w.slot, talk |-> w.talk, asked |-> w.asked]
        BY <1>2 DEF Shaped
      <4>2. work'[c] = [w EXCEPT !.op = "mark"]
        BY <2>2
      <4>3. work'[c] = [op |-> "mark", seen |-> w.seen, slot |-> w.slot, talk |-> w.talk, asked |-> w.asked]
        BY ONLY <4>1, <4>2
      <4> QED
        BY <4>3 DEF Shaped
    <3>2. "mark" \in OpsOf(c)
      BY <2>2 DEF OpsOf
    <3> QED
      BY <1>2, <3>1, <3>2 DEF WorkOK, Interview!Busy
  <2>3. CASE work'[c] = Interview!None
    <3>1. work'[c].op = "none" /\ Shaped(work'[c])
      BY <2>3 DEF Interview!None, Shaped
    <3> QED
      BY <3>1 DEF WorkOK, Interview!Busy
  <2> QED
    BY <1>7, <2>1, <2>2, <2>3
<1>12. ASSUME NEW d \in Interview!Client \ {c} PROVE WorkOK(d)'
  <2>1. WorkOK(d) /\ work'[d] = work[d]
    BY <1>7 DEF InterviewIInv
  <2>2. work[d].op = "record" => d = "chat"
    BY <2>1 DEF WorkOK, OpsOf, Interview!Client
  <2>3. work[d].op = "record" => asked' = asked
    BY <1>9, <2>2
  <2> QED
    BY <2>1, <2>3 DEF WorkOK, Interview!Busy
<1>13. ASSUME ~overlapped' PROVE Alone'
  <2>1. Alone
    BY <1>1, <1>13 DEF InterviewIInv
  <2>2. \A d \in Interview!Client \ {c} : ~Interview!Busy(d) /\ work[d].op = "none"
    BY <1>1, <2>1 DEF Alone, Interview!Busy
  <2>3. \A d \in Interview!Client \ {c} : ~Interview!Busy(d)' /\ work'[d].op = "none"
    BY <1>7, <2>2 DEF Interview!Busy
  <2>4. work'[c].op \notin {"record", "bump"}
    <3>1. CASE work'[c] = [w EXCEPT !.op = "mark"]
      <4>1. work[c] = w
        BY DEF w
      <4>2. [w EXCEPT !.op = "mark"].op = "mark"
        BY <1>2 DEF Shaped
      <4> QED
        BY <3>1, <4>2
    <3>2. CASE work'[c] = Interview!None
      BY <3>2 DEF Interview!None
    <3> QED
      BY <1>7, <1>10, <3>1, <3>2
  <2>5. ASSUME NEW s \in told PROVE row'.data[s] = s
    <3>1. s \in Interview!Slot
      BY <1>0
    <3>2. CASE w.op = "record"
      <4>1. w.seen.data = row.data /\ row.data \in [Interview!Slot -> Interview!Slot \union {Interview!NoSlot}] /\ w.slot \in Interview!Slot
        BY <1>0, <1>2, <2>1, <3>2 DEF Alone, w, Profile, Answers
      <4>2. row'.data = [row.data EXCEPT ![w.slot] = w.slot]
        BY <1>1, <1>4, <1>5, <3>2, <4>1
      <4>3. s = w.slot \/ row.data[s] = s
        BY <1>3, <2>1, <3>2 DEF Alone, w
      <4> QED
        BY <3>1, <4>1, <4>2, <4>3
    <3>3. CASE w.op # "record"
      <4>1. row'.data = row.data
        BY <1>1, <1>4, <1>5, <2>1, <3>3 DEF Alone, w
      <4>2. work["chat"].op # "record"
        BY <2>2, <3>3 DEF w, Interview!Client
      <4> QED
        BY <2>1, <4>1, <4>2 DEF Alone
    <3> QED
      BY <3>2, <3>3
  <2> QED
    BY <1>1, <2>3, <2>4, <2>5 DEF Alone
<1>14. \A d \in Interview!Client : WorkOK(d)'
  BY <1>11, <1>12
<1> QED
  BY <1>0, <1>1, <1>6, <1>7, <1>8, <1>13, <1>14 DEF InterviewIInv, InterviewTypes

(* markCompletedIfReady. *)
LEMMA MarkInterview == ASSUME InterviewIInv, Interview!Mark PROVE InterviewIInv'
<1>1. /\ row' \in Profile /\ row'.data = row.data
      /\ work' = [work EXCEPT !["document"] = Interview!None]
      /\ UNCHANGED <<interviewRows, talk, asked, told, overlapped, messages, others>>
  <2>1. row \in Profile
    BY DEF InterviewIInv, InterviewTypes
  <2>2. Interview!Completed(row) \in Profile /\ Interview!Completed(row).data = row.data
    BY <2>1, StageFlag DEF Interview!Completed, Profile
  <2> QED
    BY <2>1, <2>2 DEF Interview!Mark
<1>2. /\ work' = [d \in Interview!Client |-> work'[d]] /\ work'["document"].op = "none" /\ Shaped(work'["document"])
      /\ \A d \in Interview!Client \ {"document"} : work'[d] = work[d]
  BY <1>1 DEF InterviewIInv, Interview!Client, Interview!None, Shaped
<1>3. ASSUME NEW d \in Interview!Client PROVE WorkOK(d)'
  <2>1. CASE d = "document"
    BY <1>2, <2>1 DEF WorkOK, Interview!Busy
  <2>2. CASE d # "document"
    <3>1. WorkOK(d) /\ work'[d] = work[d]
      BY <1>2, <2>2 DEF InterviewIInv
    <3> QED
      BY <1>1, <3>1 DEF WorkOK, Interview!Busy
  <2> QED
    BY <2>1, <2>2
<1>4. ASSUME Alone PROVE Alone'
  <2>1. \A d \in Interview!Client : work'[d].op = "none" \/ work'[d] = work[d]
    BY <1>2
  <2>2. work'["chat"] = work["chat"]
    BY <1>2 DEF Interview!Client
  <2> QED
    BY <1>1, <1>4, <2>1, <2>2 DEF Alone, Interview!Busy
<1> QED
  BY <1>1, <1>2, <1>3, <1>4 DEF InterviewIInv, InterviewTypes

(* The conversation goes on without an operation. *)
LEMMA TalkInterview ==
  ASSUME InterviewIInv, ~Interview!Busy("chat"), talk' \in Talk, asked' \in Asked, AskedFor(talk', asked'),
         messages' \in 0..MaxMessages, UNCHANGED <<row, interviewRows, work, told, overlapped, others>>
  PROVE  InterviewIInv'
<1>1. ASSUME NEW d \in Interview!Client PROVE WorkOK(d)'
  <2>1. WorkOK(d)
    BY DEF InterviewIInv
  <2>2. work[d].op # "record"
    BY <2>1 DEF WorkOK, OpsOf, Interview!Client, Interview!Busy
  <2> QED
    BY <2>1, <2>2 DEF WorkOK, Interview!Busy
<1>2. ~overlapped' => Alone'
  BY DEF InterviewIInv, Alone, Interview!Busy
<1> QED
  BY <1>1, <1>2 DEF InterviewIInv, InterviewTypes

(* A session that is in a topic asks one of its questions. *)
LEMMA QuestionIs ==
  ASSUME NEW t \in Talk, t.topic \in Topic
  PROVE  Interview!Question(t) \in Interview!Slot /\ Interview!Question(t) \in Asked
<1>1. t.field \in 0..Fields-1 /\ t.entity \in 0..MaxEntities-1
  BY DEF Talk, FieldNo, EntityNo
<1>2. Interview!Question(t) \in Interview!Slot
  BY <1>1 DEF Interview!Question, Interview!Slot
<1> QED
  BY <1>2 DEF Asked

LEMMA AskIs ==
  ASSUME NEW t \in Talk, t.step \in {"MENU", "COLLECT"}, t.step = "COLLECT" => t.topic \in Topic
  PROVE  Interview!Ask(t) \in Asked /\ AskedFor(t, Interview!Ask(t))
<1>1. CASE t.step = "MENU"
  BY <1>1 DEF Interview!Ask, Asked, AskedFor
<1>2. CASE t.step = "COLLECT" /\ t.more
  BY <1>2 DEF Interview!Ask, Asked, AskedFor
<1>3. CASE t.step = "COLLECT" /\ ~t.more
  BY <1>3, QuestionIs DEF Interview!Ask, AskedFor
<1> QED
  BY <1>1, <1>2, <1>3

LEMMA AtMenuIs == Interview!DiscoveryAssumption => Interview!AtMenu \in Talk /\ Interview!AtMenu.step = "MENU" /\ Interview!NoTalk \in Talk /\ Interview!NoTalk.step = "none"
<1> SUFFICES ASSUME Interview!DiscoveryAssumption PROVE Interview!AtMenu \in Talk /\ Interview!AtMenu.step = "MENU" /\ Interview!NoTalk \in Talk /\ Interview!NoTalk.step = "none"
  OBVIOUS
<1>1. 0 \in FieldNo /\ 0 \in EntityNo
  BY DEF FieldNo, EntityNo, Interview!DiscoveryAssumption
<1> QED
  BY <1>1, StageFlag DEF Interview!AtMenu, Interview!NoTalk, Talk

LEMMA AfterIs ==
  ASSUME Interview!DiscoveryAssumption, NEW t \in Talk, t.step = "COLLECT", t.topic \in Topic
  PROVE  /\ Interview!After(t) \in Talk /\ Interview!After(t).step \in {"MENU", "COLLECT"}
         /\ Interview!After(t).step = "COLLECT" => Interview!After(t).topic \in Topic
<1> DEFINE n == [t EXCEPT !.field = @ + 1]
           e == [t EXCEPT !.field = 0, !.more = TRUE]
<1>1. Interview!After(t) = IF n.field < Fields THEN n ELSE IF t.topic \in Repeatable THEN e ELSE Interview!AtMenu
  BY DEF Interview!After
<1>2. t.field \in Nat /\ Fields \in Nat /\ 0 \in FieldNo
  BY DEF Talk, FieldNo, Interview!DiscoveryAssumption
<1>3. n.field = t.field + 1 /\ n.step = "COLLECT" /\ n.topic \in Topic
  BY DEF Talk
<1>4. n.field < Fields => n \in Talk
  <2> SUFFICES ASSUME n.field < Fields PROVE n \in Talk
    OBVIOUS
  <2>1. t.field + 1 \in FieldNo
    BY <1>2, <1>3 DEF FieldNo
  <2>2. [t EXCEPT !.field = t.field + 1] \in Talk
    BY <2>1 DEF Talk
  <2> QED
    BY <2>2
<1>5. e \in Talk /\ e.step = "COLLECT" /\ e.topic \in Topic
  BY <1>2, StageFlag DEF Talk
<1> HIDE DEF n, e
<1> QED
  BY <1>1, <1>3, <1>4, <1>5, AtMenuIs

-----------------------------------------------------------------------------
(* What the person says. *)
LEMMA SaysInterview ==
  ASSUME Interview!DiscoveryAssumption, InterviewIInv, ~Interview!Busy("chat"), messages' \in 0..MaxMessages,
         \/ Interview!Pause \/ Interview!AskProgress \/ (\E b \in Topic : Interview!PickTopic(b))
         \/ Interview!Answer \/ Interview!Skip \/ Interview!Command \/ Interview!AnotherYes \/ Interview!AnotherNo
  PROVE  InterviewIInv'
<1> USE DEF Interview!Message
<1>1. /\ talk \in Talk /\ asked \in Asked /\ AskedFor(talk, asked)
      /\ others \in 0..MaxOthers
  BY DEF InterviewIInv, InterviewTypes
<1>2. "chat" \in Interview!Client /\ {"record", "resume", "pause", "score"} \subseteq OpsOf("chat") \ {"mark"}
  BY DEF Interview!Client, OpsOf
<1>3. ASSUME NEW op \in {"resume", "pause", "score"}, NEW slot, NEW next \in Talk, NEW question \in Asked,
             AskedFor(next, question), Interview!Starts("chat", op, slot, next, question), told' = told,
             UNCHANGED <<row, interviewRows, talk, asked, others>>
      PROVE  InterviewIInv'
  <2>1. op # "record"
    BY <1>3
  <2> QED
    BY <1>1, <1>2, <1>3, <2>1, StartsInterview
<1>4. Interview!AtMenu \in Talk /\ Interview!AtMenu.step = "MENU" /\ Interview!NoTalk \in Talk /\ Interview!NoTalk.step = "none" /\ Interview!NoSlot \in Asked /\ Interview!Menu \in Asked
  BY AtMenuIs DEF Asked
<1>5. CASE Interview!Pause
  <2>1. AskedFor(Interview!NoTalk, Interview!NoSlot)
    BY <1>4 DEF AskedFor
  <2> QED
    BY <1>3, <1>4, <1>5, <2>1 DEF Interview!Pause
<1>6. CASE Interview!AskProgress
  <2>1. AskedFor(Interview!AtMenu, Interview!Menu)
    BY <1>4 DEF AskedFor
  <2> QED
    BY <1>3, <1>4, <1>6, <2>1 DEF Interview!AskProgress
<1>7. ASSUME NEW b \in Topic, Interview!PickTopic(b) PROVE InterviewIInv'
  <2> DEFINE t == [talk EXCEPT !.step = "COLLECT", !.more = FALSE,
                               !.topic = IF talk.topic = Interview!NoTopic THEN b ELSE @]
  <2>1. t \in Talk /\ t.topic \in Topic
    BY <1>1, StageFlag DEF Talk
  <2>2. /\ Interview!Starts("chat", "resume", Interview!NoSlot, t, Interview!Question(t)) /\ told' = told
        /\ UNCHANGED <<row, interviewRows, talk, asked, others>>
    BY <1>7 DEF Interview!PickTopic
  <2> HIDE DEF t
  <2>3. Interview!Question(t) \in Asked /\ AskedFor(t, Interview!Question(t))
    BY <2>1, QuestionIs DEF AskedFor
  <2> QED
    BY <1>3, <2>1, <2>2, <2>3
<1>8. CASE Interview!Answer
  <2> DEFINE t == Interview!After(talk)
  <2>1. talk.step = "COLLECT" /\ ~talk.more /\ talk.topic \in Topic /\ asked = Interview!Question(talk)
    BY <1>1, <1>8 DEF Interview!Answer, AskedFor
  <2>2. t \in Talk /\ Interview!Ask(t) \in Asked /\ AskedFor(t, Interview!Ask(t))
    BY <1>1, <2>1, AfterIs, AskIs
  <2>3. /\ Interview!Starts("chat", "record", Interview!Question(talk), t, Interview!Ask(t)) /\ told' = told \union {asked}
        /\ UNCHANGED <<row, interviewRows, talk, asked, others>>
    BY <1>8 DEF Interview!Answer
  <2>4. asked \in Interview!Slot
    BY <1>1, <2>1, QuestionIs
  <2> HIDE DEF t
  <2> QED
    BY <1>1, <1>2, <2>1, <2>2, <2>3, <2>4, StartsInterview
<1>9. CASE Interview!Skip
  <2> DEFINE t == Interview!After(talk)
  <2>1. talk.step = "COLLECT" /\ talk.topic \in Topic
    BY <1>1, <1>9 DEF Interview!Skip, AskedFor
  <2>2. t \in Talk /\ Interview!Ask(t) \in Asked /\ AskedFor(t, Interview!Ask(t))
    BY <1>1, <2>1, AfterIs, AskIs
  <2>3. UNCHANGED <<row, interviewRows, told, others>>
    BY <1>9 DEF Interview!Skip
  <2>4. CASE t.step = "MENU"
    <3>1. Interview!Starts("chat", "score", Interview!NoSlot, t, Interview!Ask(t)) /\ UNCHANGED <<talk, asked>>
      BY <1>9, <2>4 DEF Interview!Skip
    <3> HIDE DEF t
    <3> QED
      BY <1>3, <2>2, <2>3, <3>1
  <2>5. CASE t.step # "MENU"
    <3>1. talk' = t /\ asked' = Interview!Ask(t) /\ UNCHANGED <<work, overlapped>>
      BY <1>9, <2>5 DEF Interview!Skip
    <3> HIDE DEF t
    <3>2. talk' \in Talk /\ asked' \in Asked /\ AskedFor(talk', asked')
      BY <2>2, <3>1
    <3> QED
      BY <2>3, <3>1, <3>2, TalkInterview
  <2> QED
    BY <2>4, <2>5
<1>10. CASE Interview!Command
  <2>1. talk' = talk /\ asked' = asked
    BY <1>1, <1>10 DEF Interview!Command, AskedFor
  <2> QED
    BY <1>1, <1>10, <2>1, TalkInterview DEF Interview!Command
<1>11. CASE Interview!AnotherYes
  <2> DEFINE t == [talk EXCEPT !.entity = @ + 1, !.field = 0, !.more = FALSE]
  <2>1. talk.step = "COLLECT" /\ talk.topic \in Topic /\ talk.entity + 1 < MaxEntities
    BY <1>1, <1>11 DEF Interview!AnotherYes, AskedFor
  <2>2. talk.entity + 1 \in EntityNo /\ 0 \in FieldNo
    BY <1>1, <2>1 DEF Talk, EntityNo, FieldNo, Interview!DiscoveryAssumption
  <2>3. t \in Talk /\ t.topic \in Topic
    BY <1>1, <2>1, <2>2, StageFlag DEF Talk
  <2>4. talk' = t /\ asked' = Interview!Question(t) /\ UNCHANGED <<row, interviewRows, work, told, overlapped, others>>
    BY <1>11 DEF Interview!AnotherYes
  <2> HIDE DEF t
  <2>5. talk' \in Talk /\ asked' \in Asked /\ AskedFor(talk', asked')
    BY <2>3, <2>4, QuestionIs DEF AskedFor
  <2> QED
    BY <2>4, <2>5, TalkInterview
<1>12. CASE Interview!AnotherNo
  <2> DEFINE t == [talk EXCEPT !.step = "MENU"]
  <2>1. t \in Talk /\ t.step = "MENU"
    BY <1>1 DEF Talk
  <2>2. /\ Interview!Starts("chat", "score", Interview!NoSlot, t, Interview!Menu) /\ told' = told
        /\ UNCHANGED <<row, interviewRows, talk, asked, others>>
    BY <1>12 DEF Interview!AnotherNo
  <2> HIDE DEF t
  <2>3. AskedFor(t, Interview!Menu)
    BY <2>1 DEF AskedFor
  <2> QED
    BY <1>3, <1>4, <2>1, <2>2, <2>3
<1> QED
  BY <1>5, <1>6, <1>7, <1>8, <1>9, <1>10, <1>11, <1>12

(* What documents and the cron do to the profile. *)
LEMMA OthersInterview ==
  ASSUME Interview!DiscoveryAssumption, InterviewIInv, Interview!Contribute \/ Interview!RemindNow \/ Interview!RemindDue
  PROVE  InterviewIInv'
<1>1. /\ messages \in 0..MaxMessages /\ others \in 0..MaxOthers /\ MaxOthers \in Nat
      /\ Interview!NoTalk \in Talk /\ Interview!NoTalk.step = "none" /\ Interview!NoSlot \in Asked
  BY AtMenuIs DEF InterviewIInv, InterviewTypes, Asked, Interview!DiscoveryAssumption
<1>2. AskedFor(Interview!NoTalk, Interview!NoSlot)
  BY <1>1 DEF AskedFor
<1>3. /\ "document" \in Interview!Client /\ "bump" \in OpsOf("document") \ {"mark"}
      /\ "reminder" \in Interview!Client /\ "remind" \in OpsOf("reminder") \ {"mark"}
  BY DEF Interview!Client, OpsOf
<1>4. messages' = messages /\ others' \in 0..MaxOthers
  BY <1>1 DEF Interview!Contribute, Interview!RemindNow, Interview!RemindDue
<1>5. CASE Interview!Contribute
  BY <1>1, <1>2, <1>3, <1>4, <1>5, StartsInterview DEF Interview!Contribute
<1>6. CASE Interview!RemindNow \/ Interview!RemindDue
  BY <1>1, <1>2, <1>3, <1>4, <1>6, StartsInterview DEF Interview!RemindNow, Interview!RemindDue
<1> QED
  BY <1>5, <1>6

LEMMA NextInterview == Interview!DiscoveryAssumption /\ InterviewIInv /\ [Interview!Next]_(Interview!discoveryVars) => InterviewIInv'
<1> SUFFICES ASSUME Interview!DiscoveryAssumption, InterviewIInv, [Interview!Next]_(Interview!discoveryVars) PROVE InterviewIInv'
  OBVIOUS
<1>1. messages \in 0..MaxMessages /\ MaxMessages \in Nat
  BY DEF InterviewIInv, InterviewTypes, Interview!DiscoveryAssumption
<1>2. CASE Interview!Open
  <2>1. Interview!AtMenu \in Talk /\ Interview!AtMenu.step = "MENU" /\ Interview!Menu \in Asked
    BY AtMenuIs DEF Asked
  <2>2. talk' \in Talk /\ asked' \in Asked /\ AskedFor(talk', asked')
    BY <1>2, <2>1 DEF Interview!Open, AskedFor
  <2> QED
    BY <1>1, <1>2, <2>2, TalkInterview DEF Interview!Open
<1>3. CASE \/ Interview!Pause \/ Interview!AskProgress \/ (\E b \in Topic : Interview!PickTopic(b))
           \/ Interview!Answer \/ Interview!Skip \/ Interview!Command \/ Interview!AnotherYes \/ Interview!AnotherNo
  <2>1. Interview!Message
    BY <1>3 DEF Interview!Pause, Interview!AskProgress, Interview!PickTopic, Interview!Answer, Interview!Skip, Interview!Command, Interview!AnotherYes, Interview!AnotherNo
  <2>2. ~Interview!Busy("chat") /\ messages' \in 0..MaxMessages
    BY <1>1, <2>1 DEF Interview!Message
  <2> QED
    BY <1>3, <2>2, SaysInterview
<1>4. CASE \E c \in Interview!Client : Interview!Saves(c)
  BY <1>4, SavesInterview
<1>5. CASE Interview!Mark
  BY <1>5, MarkInterview
<1>6. CASE Interview!Contribute \/ Interview!RemindNow \/ Interview!RemindDue
  BY <1>6, OthersInterview
<1>7. CASE UNCHANGED Interview!discoveryVars
  <2>1. UNCHANGED <<row, interviewRows, talk, asked, work, told, overlapped, messages, others>>
    BY <1>7 DEF Interview!discoveryVars
  <2>2. ASSUME NEW c \in Interview!Client PROVE WorkOK(c)'
    BY <2>1 DEF InterviewIInv, WorkOK, Interview!Busy
  <2>3. ~overlapped' => Alone'
    BY <2>1 DEF InterviewIInv, Alone, Interview!Busy
  <2> QED
    BY <2>1, <2>2, <2>3 DEF InterviewIInv, InterviewTypes
<1> QED
  BY <1>2, <1>3, <1>4, <1>5, <1>6, <1>7 DEF Interview!Next

-----------------------------------------------------------------------------
(* What people are told about tasks (TaskNotices). *)
RowT ==
    [state : {"none", "open", "done"}, to : Person \union {Nobody}, by : Person \union {Nobody},
     routing : Notices!Routing, deadline : {"none", "ahead", "passed"}, reminded : Flag]
Message == [kind : {"prompt", "assigned", "rejected", "completed"}, task : Task]
Counts == [Person -> Nat]
HandT ==
    [at : {"idle", "rows", "assignee", "assigner", "mark"}, task : Task \union {Nobody}, row : RowT]
ItemT == [task : Task, row : RowT]
Origins == {"nowhere", "chat", "dashboard"}
Tells == {"nothing", "prompt", "assigned", "rejected", "completed"}
CallT == [task : Task \union {Nobody}, read : RowT, patch : RowT, from : Origins, tells : Tells]

NoticeTypes ==
    /\ noticesRow \in [Task -> RowT]
    /\ pending \subseteq Message
    /\ knows \in [Task -> SUBSET Person]
    /\ breach \in [Task -> Counts]
    /\ tick \in HandT
    /\ todo \subseteq ItemT
    /\ calls \in [Notices!Call -> CallT]
    /\ changes \in 0..MaxChanges
    /\ noticesFaults \in 0..MaxFaults
    /\ missed \subseteq Task /\ admin \subseteq Task /\ handed \subseteq Task /\ raced \subseteq Task /\ noticesOverlapped \subseteq Task

(* The cron has each of its rows once, and all of them were due. *)
HeldRow(r) == r.state = "open" /\ r.deadline = "passed" /\ r.reminded = FALSE
Hands ==
    /\ tick.at \in {"idle", "rows"} => tick.task = Nobody
    /\ tick.at = "idle" => todo = {}
    /\ tick.at \notin {"idle", "rows"} =>
        /\ tick.task \in Task
        /\ HeldRow(tick.row)
        /\ \A x \in todo : x.task # tick.task
    /\ \A x \in todo : HeldRow(x.row)
    /\ \A x, y \in todo : x.task = y.task => x = y

(* What a call writes is made from what it read. *)
Replies(x) ==
    /\ x.patch.reminded = x.read.reminded /\ x.patch.deadline = x.read.deadline
    /\ x.patch.to \in Person /\ x.patch.state \in {"open", "done"} /\ x.read.state = "open" /\ x.read.to \in Person
    /\ \/ x.tells = "completed" /\ x.patch.state = "done"
       \/ x.tells \in {"nothing", "rejected"} /\ x.patch.to = x.read.to
       \/ x.tells = "assigned" /\ x.patch.routing = "DELEGATED" /\ x.read.routing = "AWAITING"
       \/ x.tells = "prompt" /\ x.patch.routing = "AWAITING"

Saves(x) == x.read.state # "none" /\ x.patch \in Notices!Patches(x.read)

Sound(x) ==
    /\ x.from = "chat" => x.task \in Task /\ Replies(x)
    /\ x.from = "dashboard" => x.task \in Task /\ Saves(x)

Begun == \A c \in Notices!Call : Sound(calls[c])

(* A task that was made has somebody, and is not unmade. *)
Addressed ==
    /\ \A n \in Task : noticesRow[n].state # "none" => noticesRow[n].to \in Person
    /\ \A c \in Notices!Call : calls[c].from # "nowhere" => noticesRow[calls[c].task].state # "none"

(* Who has an open task knows it or is about to be told. *)
Told(n) ==
    noticesRow[n].state = "open" /\ noticesRow[n].to \in Reachable =>
        noticesRow[n].to \in knows[n] \/ [kind |-> Notices!Announcement(noticesRow[n]), task |-> n] \in pending

(* Of a task that nobody changed under the cron or the dashboard: *)
Marks(n) ==
    /\ noticesRow[n].state = "none" => noticesRow[n].reminded = FALSE
    /\ noticesRow[n].reminded = TRUE => noticesRow[n].deadline = "passed"

AtRest(n) ==
    n \notin Notices!InHand =>
        \A p \in Person : breach[n][p] <= IF noticesRow[n].reminded = TRUE THEN 1 + noticesFaults ELSE noticesFaults

Waits(n) ==
    \A x \in todo : x.task = n => x.row = noticesRow[n] /\ \A p \in Person : breach[n][p] <= noticesFaults

Above(p) ==
    IF tick.at = "assignee" \/ (tick.at = "assigner" /\ p # tick.row.to) THEN noticesFaults ELSE 1 + noticesFaults

Holds(n) ==
    tick.task = n =>
        /\ tick.row = noticesRow[n]
        /\ \A p \in Person : breach[n][p] <= Above(p)
        /\ tick.at \in {"assigner", "mark"} /\ tick.row.to \in Reachable => breach[n][tick.row.to] > 0
        /\ tick.at = "mark" /\ tick.row.by \in Reachable => breach[n][tick.row.by] > 0

SameButDeadline(r, q) ==
    /\ r.state = q.state /\ r.to = q.to /\ r.by = q.by /\ r.routing = q.routing /\ r.reminded = q.reminded
    /\ r.deadline = q.deadline \/ (r.deadline = "ahead" /\ q.deadline = "passed")
    /\ r.reminded = TRUE => r.deadline = "passed"

Edits(n) ==
    \A c \in Notices!Call : calls[c].from = "dashboard" /\ calls[c].task = n =>
        n \notin Notices!InHand /\ SameButDeadline(calls[c].read, noticesRow[n])

Stands(n) ==
    noticesRow[n].reminded = TRUE /\ n \notin admin \union handed =>
        \A p \in {noticesRow[n].to, noticesRow[n].by} \intersect Reachable : breach[n][p] > 0

Quiet(n) ==
    /\ Marks(n)
    /\ AtRest(n)
    /\ Waits(n)
    /\ Holds(n)
    /\ Edits(n)
    /\ Stands(n)

NoticesIInv ==
    /\ NoticeTypes
    /\ Hands
    /\ Begun
    /\ Addressed
    /\ \A n \in Task \ (missed \union admin \union raced) : Told(n)
    /\ \A n \in Task \ noticesOverlapped : Quiet(n)

-----------------------------------------------------------------------------
LEMMA FlagIs == TRUE \in Flag /\ FALSE \in Flag /\ \A b \in Flag : b = TRUE \/ b = FALSE
  BY DEF Flag

LEMMA NoticesHold ==
  ASSUME NoticesIInv
  PROVE  Notices!TypeOK /\ Notices!AssigneeKnows /\ Notices!ToldOnce /\ Notices!MarkedWasTold
<1>1. Notices!TypeOK
  <2>1. RowT = Notices!Row
    BY DEF RowT, Notices!Row, Flag
  <2>2. noticesRow \in [Task -> Notices!Row] /\ pending \subseteq Message /\ knows \in [Task -> SUBSET Person]
    BY <2>1 DEF NoticesIInv, NoticeTypes
  <2>3. tick \in [at : {"idle", "rows", "assignee", "assigner", "mark"},
                 task : Task \union {Nobody}, row : Notices!Row]
    BY <2>1 DEF NoticesIInv, NoticeTypes, HandT
  <2>4. todo \subseteq [task : Task, row : Notices!Row]
    BY <2>1 DEF NoticesIInv, NoticeTypes, ItemT
  <2>5. calls \in [Notices!Call ->
            [task : Task \union {Nobody}, read : Notices!Row, patch : Notices!Row, from : Origins, tells : Tells]]
    BY <2>1 DEF NoticesIInv, NoticeTypes, CallT
  <2>6. /\ breach \in [Task -> [Person -> Nat]] /\ changes \in 0..MaxChanges /\ noticesFaults \in 0..MaxFaults
        /\ {missed, admin, handed, raced, noticesOverlapped} \subseteq SUBSET Task
    BY DEF NoticesIInv, NoticeTypes, Counts
  <2> QED
    BY <2>2, <2>3, <2>4, <2>5, <2>6 DEF Notices!TypeOK, Message, Origins, Tells
<1>2. Notices!AssigneeKnows
  <2> SUFFICES ASSUME NEW n \in Task \ (missed \union admin \union raced),
                      noticesRow[n].state = "open", noticesRow[n].to \in Reachable, \A x \in pending : x.task # n
               PROVE  noticesRow[n].to \in knows[n]
    BY DEF Notices!AssigneeKnows
  <2>1. [kind |-> Notices!Announcement(noticesRow[n]), task |-> n] \notin pending
    OBVIOUS
  <2> QED
    BY <2>1 DEF NoticesIInv, Told
<1>3. ASSUME NEW n \in Task \ noticesOverlapped, NEW p \in Person PROVE breach[n][p] <= 1 + noticesFaults
  <2>1. Quiet(n) /\ Hands /\ noticesFaults \in Nat /\ breach[n][p] \in Nat
    BY DEF NoticesIInv, NoticeTypes, Counts
  <2>2. CASE n \notin Notices!InHand
    BY <2>1, <2>2 DEF Quiet, AtRest
  <2>3. CASE n = tick.task
    BY <2>1, <2>3 DEF Quiet, Holds, Above
  <2>4. CASE \E x \in todo : x.task = n
    BY <2>1, <2>4 DEF Quiet, Waits
  <2> QED
    BY <2>2, <2>3, <2>4 DEF Notices!InHand
<1>4. Notices!MarkedWasTold
  <2> SUFFICES ASSUME NEW n \in Task \ (noticesOverlapped \union admin \union handed), noticesRow[n].reminded
               PROVE  \A p \in {noticesRow[n].to, noticesRow[n].by} \intersect Reachable : breach[n][p] > 0
    BY DEF Notices!MarkedWasTold
  <2>1. noticesRow[n].reminded \in Flag
    BY DEF NoticesIInv, NoticeTypes, RowT
  <2> QED
    BY <2>1, FlagIs DEF NoticesIInv, Quiet, Stands
<1> QED
  BY <1>1, <1>2, <1>3, <1>4 DEF Notices!ToldOnce

LEMMA Blank == Notices!NoticesAssumption => Notices!NoRow \in RowT /\ Notices!Idle \in HandT /\ Notices!NoCall \in CallT /\ Notices!Untold \in Counts
<1> SUFFICES ASSUME Notices!NoticesAssumption PROVE Notices!NoRow \in RowT /\ Notices!Idle \in HandT /\ Notices!NoCall \in CallT /\ Notices!Untold \in Counts
  OBVIOUS
<1>1. Notices!NoRow \in RowT
  BY FlagIs DEF Notices!NoRow, RowT, Notices!Routing
<1>2. Notices!Untold \in Counts
  BY DEF Notices!Untold, Counts
<1>3. Notices!Idle \in HandT
  BY <1>1 DEF Notices!Idle, HandT
<1>4. Notices!NoCall \in CallT
  BY <1>1 DEF Notices!NoCall, CallT, Origins, Tells
<1> QED
  BY <1>1, <1>2, <1>3, <1>4

LEMMA WithDeadlineIs ==
  ASSUME NEW q \in RowT, NEW d \in {"none", "ahead", "passed"}
  PROVE  LET w == Notices!WithDeadline(q, d)
         IN  /\ w \in RowT /\ w.by = q.by /\ w.routing = q.routing /\ w.to = q.to /\ w.state = q.state /\ w.deadline = d
             /\ d = "passed" => w.reminded = q.reminded
             /\ d # "passed" => w.reminded = FALSE
<1> DEFINE w == Notices!WithDeadline(q, d)
<1>1. q.reminded \in Flag
  BY DEF RowT
<1>2. (d = "passed" /\ q.reminded) \in Flag
  BY <1>1, FlagIs DEF Flag
<1>3. w = [q EXCEPT !.deadline = d, !.reminded = (d = "passed" /\ q.reminded)]
  BY DEF Notices!WithDeadline, RowT
<1>4. /\ w \in RowT /\ w.by = q.by /\ w.routing = q.routing /\ w.to = q.to /\ w.state = q.state /\ w.deadline = d
      /\ w.reminded = (d = "passed" /\ q.reminded)
  BY <1>2, <1>3 DEF RowT
<1>5. q.reminded = TRUE \/ q.reminded = FALSE
  BY <1>1, FlagIs
<1>6. /\ d = "passed" => w.reminded = q.reminded
      /\ d # "passed" => w.reminded = FALSE
  BY <1>4, <1>5
<1> HIDE DEF w
<1> QED
  BY <1>4, <1>6 DEF w

(* What the dashboard may write. *)
LEMMA PatchIs ==
  ASSUME NEW q \in RowT, NEW r \in Notices!Patches(q)
  PROVE  /\ r \in RowT /\ r.by = q.by /\ r.routing = q.routing
         /\ r.to = q.to \/ r.to \in Person
         /\ r.state \in {"open", "done"}
         /\ r.reminded = TRUE => q.reminded = TRUE
         /\ r.deadline # q.deadline /\ r.deadline # "passed" => r.reminded = FALSE
<1> DEFINE Base == {q} \union {Notices!WithDeadline(q, d) : d \in {"none", "ahead", "passed"}}
           Heads == IF q.routing = "AWAITING" THEN {q.to} ELSE Person
<1>1. CASE r = [q EXCEPT !.state = "open", !.reminded = FALSE]
  BY <1>1, FlagIs DEF RowT
<1>2. CASE \E w \in Base, p \in Heads, x \in {"open", "done"} : r = [w EXCEPT !.to = p, !.state = x]
  <2>1. PICK w \in Base, p \in Heads, x \in {"open", "done"} : r = [w EXCEPT !.to = p, !.state = x]
    BY <1>2
  <2>2. p = q.to \/ p \in Person
    OBVIOUS
  <2>3. /\ w \in RowT /\ w.by = q.by /\ w.routing = q.routing
        /\ w.reminded = TRUE => q.reminded = TRUE
        /\ w.deadline # q.deadline /\ w.deadline # "passed" => w.reminded = FALSE
    <3>1. CASE w = q
      BY <3>1
    <3>2. CASE \E d \in {"none", "ahead", "passed"} : w = Notices!WithDeadline(q, d)
      <4>1. PICK d \in {"none", "ahead", "passed"} : w = Notices!WithDeadline(q, d)
        BY <3>2
      <4>2. /\ w \in RowT /\ w.by = q.by /\ w.routing = q.routing /\ w.deadline = d
            /\ d = "passed" => w.reminded = q.reminded
            /\ d # "passed" => w.reminded = FALSE
        BY <4>1, WithDeadlineIs
      <4> QED
        BY <4>2
    <3> QED
      BY <3>1, <3>2
  <2>4. q.to \in Person \union {Nobody}
    BY DEF RowT
  <2> HIDE DEF Base, Heads
  <2>5. r \in RowT /\ r.by = w.by /\ r.routing = w.routing /\ r.to = p /\ r.state = x /\ r.deadline = w.deadline /\ r.reminded = w.reminded
    BY <2>1, <2>2, <2>3, <2>4 DEF RowT
  <2> QED
    BY <2>2, <2>3, <2>5
<1>3. r \in Notices!Saved(q) \/ r = [q EXCEPT !.state = "open", !.reminded = FALSE]
  BY DEF Notices!Patches
<1> DEFINE New(w, p, x) == [w EXCEPT !.to = p, !.state = x]
<1>4. Notices!Saved(q) = {New(w, p, x) : w \in Base, p \in Heads, x \in {"open", "done"}}
  BY DEF Notices!Saved
<1> HIDE DEF Base, Heads, New
<1>5. ASSUME r \in Notices!Saved(q)
      PROVE  \E w \in Base, p \in Heads, x \in {"open", "done"} : r = New(w, p, x)
  BY <1>4, <1>5
<1> USE DEF New
<1> QED
  BY <1>1, <1>2, <1>3, <1>5

LEMMA InitNotices == Notices!NoticesAssumption /\ Notices!Init => NoticesIInv
<1> SUFFICES ASSUME Notices!NoticesAssumption, Notices!Init PROVE NoticesIInv
  OBVIOUS
<1>1. NoticeTypes
  BY Blank DEF Notices!Init, NoticeTypes, Notices!NoticesAssumption
<1>2. Hands /\ Begun /\ Addressed
  BY DEF Notices!Init, Hands, Begun, Sound, Addressed, Notices!Idle, Notices!NoRow, Notices!NoCall
<1>3. ASSUME NEW n \in Task PROVE Told(n) /\ Quiet(n)
  <2>1. noticesRow[n] = Notices!NoRow /\ breach[n] = Notices!Untold /\ Notices!NoRow.state = "none" /\ Notices!NoRow.reminded = FALSE
    BY DEF Notices!Init, Notices!NoRow
  <2>2. n # Nobody /\ todo = {} /\ tick.task = Nobody /\ \A c \in Notices!Call : calls[c].from = "nowhere"
    BY DEF Notices!Init, Notices!NoticesAssumption, Notices!Idle, Notices!NoCall
  <2>3. \A p \in Person : breach[n][p] <= noticesFaults
    BY <2>1 DEF Notices!Untold, Notices!Init
  <2> QED
    BY <2>1, <2>2, <2>3 DEF Told, Quiet, Marks, AtRest, Waits, Holds, Edits, Stands
<1> QED
  BY <1>1, <1>2, <1>3 DEF NoticesIInv

(* A step that leaves what the cron and the dashboard hold, or marks the task
   as changed under them. *)
LEMMA TouchesQuiet ==
  ASSUME Notices!NoticesAssumption, NoticesIInv, NEW n \in Task, n \notin noticesOverlapped', noticesOverlapped \subseteq noticesOverlapped',
         UNCHANGED <<tick, todo>>, breach'[n] = breach[n],
         \A c \in Notices!Call : calls'[c].from = "dashboard" /\ calls'[c].task = n => calls'[c] = calls[c],
         noticesFaults' \in Nat, noticesFaults' >= noticesFaults,
         n \in admin => n \in admin', n \in handed => n \in handed',
         \/ noticesRow'[n] = noticesRow[n]
         \/ /\ n \notin Notices!InHand
            /\ \A c \in Notices!Call : calls'[c].from = "dashboard" => calls'[c].task # n
            /\ noticesRow'[n].state = "none" => noticesRow[n].state = "none"
            /\ noticesRow'[n].reminded = noticesRow[n].reminded
            /\ noticesRow'[n].reminded = TRUE =>
                /\ noticesRow'[n].deadline = noticesRow[n].deadline
                /\ n \in handed' \/ (noticesRow'[n].to = noticesRow[n].to /\ noticesRow'[n].by = noticesRow[n].by)
         \/ /\ noticesRow[n].deadline = "ahead" /\ noticesRow'[n].deadline = "passed"
            /\ noticesRow'[n].state = noticesRow[n].state /\ noticesRow'[n].to = noticesRow[n].to /\ noticesRow'[n].by = noticesRow[n].by
            /\ noticesRow'[n].routing = noticesRow[n].routing /\ noticesRow'[n].reminded = noticesRow[n].reminded
  PROVE  Quiet(n)'
<1>1. /\ Marks(n) /\ AtRest(n) /\ Waits(n) /\ Holds(n) /\ Edits(n) /\ Stands(n)
      /\ noticesFaults \in Nat /\ breach[n] \in Counts /\ n \in Task \ noticesOverlapped /\ Hands
  BY DEF NoticesIInv, NoticeTypes, Quiet
<1>2. /\ tick' = tick /\ todo' = todo /\ breach'[n] = breach[n] /\ Notices!InHand' = Notices!InHand
  BY DEF Notices!InHand
<1>3. \A p \in Person : breach[n][p] \in Nat
  BY <1>1 DEF Counts
<1>4. ASSUME noticesRow[n].deadline = "ahead" PROVE n \notin Notices!InHand
  <2>1. ASSUME NEW x \in todo, x.task = n PROVE FALSE
    BY <1>1, <1>4, <2>1 DEF Waits, Hands, HeldRow
  <2>2. ASSUME tick.task = n PROVE FALSE
    <3>1. CASE tick.at \in {"idle", "rows"}
      BY <1>1, <1>4, <2>2, <3>1 DEF Hands, Notices!NoticesAssumption
    <3>2. CASE tick.at \notin {"idle", "rows"}
      BY <1>1, <1>4, <2>2, <3>2 DEF Hands, Holds, HeldRow
    <3> QED
      BY <3>1, <3>2
  <2> QED
    BY <2>1, <2>2 DEF Notices!InHand
<1>5. Marks(n)'
  BY <1>1 DEF Marks
<1>6. AtRest(n)'
  BY <1>1, <1>2, <1>3 DEF AtRest
<1>7. Waits(n)'
  <2> SUFFICES ASSUME NEW x \in todo, x.task = n
               PROVE  x.row = noticesRow'[n] /\ \A p \in Person : breach[n][p] <= noticesFaults'
    BY <1>2 DEF Waits
  <2>1. n \in Notices!InHand
    BY DEF Notices!InHand
  <2>2. x.row = noticesRow[n] /\ \A p \in Person : breach[n][p] <= noticesFaults
    BY <1>1 DEF Waits
  <2> QED
    BY <1>1, <1>3, <1>4, <2>1, <2>2
<1>8. Holds(n)'
  <2> SUFFICES ASSUME tick.task = n PROVE Holds(n)'
    BY <1>2 DEF Holds
  <2>1. noticesRow'[n] = noticesRow[n]
    BY <1>4 DEF Notices!InHand
  <2>2. ASSUME NEW p \in Person PROVE breach[n][p] <= Above(p)'
    BY <1>1, <1>2, <1>3 DEF Holds, Above
  <2> QED
    BY <1>1, <1>2, <2>1, <2>2 DEF Holds
<1>9. Edits(n)'
  <2> SUFFICES ASSUME NEW c \in Notices!Call, calls'[c].from = "dashboard", calls'[c].task = n
               PROVE  n \notin Notices!InHand' /\ SameButDeadline(calls'[c].read, noticesRow'[n])
    BY DEF Edits
  <2>1. n \notin Notices!InHand /\ SameButDeadline(calls[c].read, noticesRow[n]) /\ calls'[c] = calls[c]
    BY <1>1 DEF Edits
  <2> QED
    BY <1>2, <2>1 DEF SameButDeadline
<1>10. Stands(n)'
  BY <1>1, <1>2 DEF Stands, Marks
<1> QED
  BY <1>5, <1>6, <1>7, <1>8, <1>9, <1>10 DEF Quiet

LEMMA StaysAddressed ==
  ASSUME NoticeTypes, Addressed, Begun, calls' = calls,
         \A k \in Task : /\ noticesRow'[k].state = "none" => noticesRow[k].state = "none"
                         /\ noticesRow'[k].to = noticesRow[k].to \/ noticesRow'[k].to \in Person,
         \A k \in Task : noticesRow[k].state = "none" /\ noticesRow'[k].state # "none" => noticesRow'[k].to \in Person
  PROVE  Addressed'
<1>1. ASSUME NEW k \in Task, noticesRow'[k].state # "none" PROVE noticesRow'[k].to \in Person
  BY <1>1 DEF Addressed
<1>2. ASSUME NEW c \in Notices!Call, calls[c].from # "nowhere" PROVE noticesRow'[calls[c].task].state # "none"
  <2>1. calls[c].task \in Task
    BY <1>2 DEF NoticeTypes, Begun, Sound, CallT, Origins
  <2> QED
    BY <1>2, <2>1 DEF Addressed
<1> QED
  BY <1>1, <1>2 DEF Addressed

LEMMA Resolved == Notices!NoticesAssumption => \A m \in Notices!Mention : Notices!Resolve(m) \subseteq Person
  BY DEF Notices!Resolve, Notices!Workers, Notices!Named

LEMMA NewRows ==
  ASSUME Notices!NoticesAssumption, NEW by \in Person, NEW p \in Person, NEW d \in {"none", "ahead"}
  PROVE  /\ Notices!NewRow(by, p, d) \in RowT /\ Notices!NewRow(by, p, d).to = p
         /\ Notices!NewRow(by, p, d).state = "open" /\ Notices!NewRow(by, p, d).reminded = FALSE
<1>1. Notices!RoutingFor(by, p) \in Notices!Routing
  BY DEF Notices!RoutingFor, Notices!Routing
<1>2. Notices!NoRow \in RowT /\ Notices!NoRow.reminded = FALSE
  BY FlagIs DEF Notices!NoRow, RowT, Notices!Routing
<1> DEFINE g == Notices!RoutingFor(by, p)
           R == [Notices!NoRow EXCEPT !.state = "open", !.to = p, !.by = by, !.routing = g, !.deadline = d]
<1>3. Notices!NewRow(by, p, d) = R
  BY DEF Notices!NewRow
<1>4. g \in Notices!Routing
  BY <1>1
<1> HIDE DEF g
<1>5. R \in RowT /\ R.to = p /\ R.state = "open" /\ R.reminded = FALSE
  BY <1>2, <1>4 DEF RowT
<1> HIDE DEF R
<1> QED
  BY <1>3, <1>5

LEMMA AssignNotices ==
  ASSUME Notices!NoticesAssumption, NoticesIInv, NEW by \in Person, NEW m \in Notices!Mention,
         NEW d \in {"none", "ahead"}, Notices!Assign(by, m, d)
  PROVE  NoticesIInv'
<1> DEFINE New(p) == Notices!NewRow(by, p, d)
           Ann(k, p) == [kind |-> Notices!Announcement(New(p)), task |-> k]
<1>0. ASSUME NEW p \in Person
      PROVE  New(p) \in RowT /\ New(p).to = p /\ New(p).state = "open" /\ New(p).reminded = FALSE
  <2>1. /\ Notices!NewRow(by, p, d) \in RowT /\ Notices!NewRow(by, p, d).to = p
        /\ Notices!NewRow(by, p, d).state = "open" /\ Notices!NewRow(by, p, d).reminded = FALSE
    BY NewRows
  <2> QED
    BY <2>1
<1>1. PICK N \in SUBSET {n \in Task : noticesRow[n].state = "none"} :
        \E to \in [N -> Notices!Resolve(m)] :
            /\ noticesRow' = [n \in Task |-> IF n \in N THEN New(to[n]) ELSE noticesRow[n]]
            /\ pending' = pending \union {Ann(n, to[n]) : n \in N}
  BY DEF Notices!Assign
<1>2. PICK to \in [N -> Notices!Resolve(m)] :
            /\ noticesRow' = [n \in Task |-> IF n \in N THEN New(to[n]) ELSE noticesRow[n]]
            /\ pending' = pending \union {Ann(n, to[n]) : n \in N}
  BY <1>1
<1>3. \A n \in N : to[n] \in Person
  BY Resolved
<1> HIDE DEF New
<1>4. ASSUME NEW n \in N PROVE New(to[n]) \in RowT /\ New(to[n]).state = "open" /\ New(to[n]).reminded = FALSE
  BY <1>0, <1>3
<1>5. /\ UNCHANGED <<tick, todo, noticesFaults, missed, knows, breach, calls, admin, handed, raced, noticesOverlapped>>
      /\ changes < MaxChanges /\ changes' = changes + 1
  BY DEF Notices!Assign, Notices!people, Notices!ghosts
<1>6. NoticeTypes'
  <2>1. noticesRow' \in [Task -> RowT]
    BY <1>2, <1>4 DEF NoticesIInv, NoticeTypes
  <2>2. \A n \in N : Ann(n, to[n]) \in Message
    BY DEF Message, Notices!Announcement
  <2>3. changes' \in 0..MaxChanges
    BY <1>5 DEF NoticesIInv, NoticeTypes, Notices!NoticesAssumption
  <2>4. noticesOverlapped' \subseteq Task /\ pending' \subseteq Message
    BY <1>2, <1>5, <2>2 DEF NoticesIInv, NoticeTypes
  <2> QED
    BY <1>5, <2>1, <2>3, <2>4 DEF NoticesIInv, NoticeTypes
<1>7. Hands' /\ Begun' /\ Addressed'
  <2>1. ASSUME NEW k \in Task
        PROVE  /\ noticesRow'[k].state = "none" => noticesRow[k].state = "none"
               /\ noticesRow'[k].to = noticesRow[k].to \/ noticesRow'[k].to \in Person
               /\ noticesRow[k].state = "none" /\ noticesRow'[k].state # "none" => noticesRow'[k].to \in Person
    <3>1. CASE k \in N
      BY <1>2, <1>3, <1>4, <1>0, <3>1
    <3>2. CASE k \notin N
      BY <1>2, <3>2
    <3> QED
      BY <3>1, <3>2
  <2>2. Addressed'
    BY <1>5, <2>1, StaysAddressed DEF NoticesIInv
  <2> QED
    BY <1>5, <2>2 DEF NoticesIInv, Hands, Begun
<1>8. ASSUME NEW n \in Task \ (missed' \union admin' \union raced') PROVE Told(n)'
  <2>1. Told(n) /\ pending \subseteq pending' /\ knows' = knows
    BY <1>2, <1>5 DEF NoticesIInv
  <2>2. CASE n \in N
    <3>1. noticesRow'[n] = New(to[n]) /\ Ann(n, to[n]) \in pending'
      BY <1>2, <2>2
    <3> QED
      BY <3>1 DEF Told, Notices!Announcement
  <2>3. CASE n \notin N
    <3>1. noticesRow'[n] = noticesRow[n]
      BY <1>2, <2>3
    <3> QED
      BY <2>1, <3>1 DEF Told, Notices!Announcement
  <2> QED
    BY <2>2, <2>3
<1>9. ASSUME NEW n \in Task \ noticesOverlapped' PROVE Quiet(n)'
  <2>1. noticesFaults' \in Nat /\ noticesFaults' >= noticesFaults /\ noticesFaults' = noticesFaults /\ Marks(n)
    BY <1>5 DEF NoticesIInv, NoticeTypes, Quiet
  <2>2. n \in N => noticesRow'[n] = New(to[n]) /\ noticesRow[n].state = "none"
    BY <1>2, <1>5
  <2>3. n \in N => noticesRow'[n].state = "open" /\ noticesRow'[n].reminded = FALSE /\ noticesRow[n].reminded = FALSE
    BY <1>4, <2>1, <2>2 DEF Marks
  <2>4. n \notin N => noticesRow'[n] = noticesRow[n]
    BY <1>2
  <2>5. ASSUME n \in N
        PROVE  /\ n \notin Notices!InHand
               /\ \A c \in Notices!Call : calls'[c].from = "dashboard" => calls'[c].task # n
    <3>1. noticesRow[n].state = "none"
      BY <2>2, <2>5
    <3>2. \A c \in Notices!Call : calls[c].from = "dashboard" => calls[c].task # n
      BY <3>1 DEF NoticesIInv, Addressed
    <3>3. ASSUME NEW x \in todo, x.task = n PROVE FALSE
      <4>1. x.row = noticesRow[n] /\ HeldRow(x.row)
        BY <1>5, <3>3 DEF NoticesIInv, Hands, Quiet, Waits
      <4> QED
        BY <3>1, <4>1 DEF HeldRow
    <3>4. ASSUME tick.task = n PROVE FALSE
      <4>1. n # Nobody /\ Holds(n) /\ Hands
        BY <1>5 DEF NoticesIInv, Quiet, Notices!NoticesAssumption
      <4> QED
        BY <3>1, <3>4, <4>1 DEF Hands, Holds, HeldRow
    <3> QED
      BY <1>5, <3>2, <3>3, <3>4 DEF Notices!InHand
  <2>6. noticesOverlapped \subseteq noticesOverlapped' /\ n \in Task /\ n \notin noticesOverlapped'
    BY <1>5
  <2>7. CASE n \in N
    BY <1>5, <2>1, <2>2, <2>3, <2>5, <2>6, <2>7, TouchesQuiet
  <2>8. CASE n \notin N
    BY <1>5, <2>1, <2>4, <2>6, <2>8, TouchesQuiet
  <2> QED
    BY <2>7, <2>8
<1> QED
  BY <1>6, <1>7, <1>8, <1>9 DEF NoticesIInv

(* A call begins: what it read fits what it is to write. *)
LEMMA BeginNotices ==
  ASSUME Notices!NoticesAssumption, NoticesIInv, NEW c \in Notices!Call, NEW n \in Task, NEW patch \in RowT,
         NEW from \in {"chat", "dashboard"}, NEW tells \in Tells, noticesRow[n].state # "none",
         Notices!Begin(c, n, patch, from, tells),
         Sound([task |-> n, read |-> noticesRow[n], patch |-> patch, from |-> from, tells |-> tells])
  PROVE  NoticesIInv'
<1> DEFINE x == [task |-> n, read |-> noticesRow[n], patch |-> patch, from |-> from, tells |-> tells]
<1>1. /\ UNCHANGED <<noticesRow, pending, Notices!people, tick, todo, noticesFaults, missed, admin, handed, raced>>
      /\ calls' = [calls EXCEPT ![c] = x] /\ calls \in [Notices!Call -> CallT] /\ noticesRow[n] \in RowT
      /\ changes < MaxChanges /\ changes' = changes + 1
      /\ noticesOverlapped' = noticesOverlapped \union ({n} \intersect Notices!InHand)
  BY DEF Notices!Begin, NoticesIInv, NoticeTypes
<1>2. x \in CallT /\ x.task = n /\ x.read = noticesRow[n] /\ x.from = from
  BY <1>1 DEF CallT, Origins
<1>3. Sound(x)
  OBVIOUS
<1> HIDE DEF x
<1>4. calls' \in [Notices!Call -> CallT] /\ calls'[c] = x /\ \A d \in Notices!Call \ {c} : calls'[d] = calls[d]
  BY <1>1, <1>2
<1>5. NoticeTypes'
  <2>1. changes' \in 0..MaxChanges /\ noticesOverlapped' \subseteq Task
    BY <1>1 DEF NoticesIInv, NoticeTypes, Notices!NoticesAssumption
  <2> QED
    BY <1>1, <1>4, <2>1 DEF NoticesIInv, NoticeTypes, Notices!people
<1>6. Hands' /\ Begun' /\ Addressed'
  <2>1. Hands'
    BY <1>1 DEF NoticesIInv, Hands
  <2>2. Begun'
    BY <1>3, <1>4 DEF NoticesIInv, Begun
  <2>3. Addressed'
    BY <1>1, <1>2, <1>4 DEF NoticesIInv, Addressed
  <2> QED
    BY <2>1, <2>2, <2>3
<1>7. ASSUME NEW k \in Task \ (missed' \union admin' \union raced') PROVE Told(k)'
  BY <1>1 DEF NoticesIInv, Told, Notices!people, Notices!Announcement
<1>8. ASSUME NEW k \in Task \ noticesOverlapped' PROVE Quiet(k)'
  <2>1. /\ Quiet(k) /\ (k = n => k \notin Notices!InHand)
        /\ noticesRow' = noticesRow /\ breach' = breach /\ tick' = tick /\ todo' = todo /\ noticesFaults' = noticesFaults
        /\ admin' = admin /\ handed' = handed /\ Notices!InHand' = Notices!InHand
    BY <1>1 DEF NoticesIInv, Notices!people, Notices!InHand
  <2>2. Edits(k)'
    <3> SUFFICES ASSUME NEW d \in Notices!Call, calls'[d].from = "dashboard", calls'[d].task = k
                 PROVE  k \notin Notices!InHand /\ SameButDeadline(calls'[d].read, noticesRow[k])
      BY <2>1 DEF Edits
    <3>1. CASE d = c
      BY <1>2, <1>4, <2>1, <3>1 DEF SameButDeadline, Quiet, Marks
    <3>2. CASE d # c
      BY <1>4, <2>1, <3>2 DEF Quiet, Edits
    <3> QED
      BY <3>1, <3>2
  <2>3. Marks(k)' /\ AtRest(k)' /\ Waits(k)' /\ Stands(k)'
    BY <2>1 DEF Quiet, Marks, AtRest, Waits, Stands, Notices!InHand
  <2>4. Holds(k)'
    <3>1. \A p : Above(p)' = Above(p)
      BY <2>1 DEF Above
    <3> QED
      BY <2>1, <3>1 DEF Quiet, Holds
  <2> QED
    BY <2>2, <2>3, <2>4 DEF Quiet
<1> QED
  BY <1>5, <1>6, <1>7, <1>8 DEF NoticesIInv

LEMMA AnswerNotices ==
  ASSUME Notices!NoticesAssumption, NoticesIInv, NEW c \in Notices!Call, NEW n \in Task, Notices!Answer(c, n)
  PROVE  NoticesIInv'
<1> DEFINE R == noticesRow[n]
<1>1. R.state = "open" /\ R \in RowT /\ R.to \in Person
  BY DEF Notices!Answer, NoticesIInv, NoticeTypes, Addressed
<1>2. ASSUME NEW g \in Notices!Routing, NEW p \in Person, NEW b \in Person \union {Nobody}
      PROVE  LET q == [R EXCEPT !.to = p, !.by = b, !.routing = g]
             IN  /\ q \in RowT /\ q.reminded = R.reminded /\ q.deadline = R.deadline /\ q.to = p
                 /\ q.state = "open" /\ q.routing = g
  BY <1>1 DEF RowT
<1>3. ASSUME NEW g \in Notices!Routing, NEW p \in Person, NEW b \in Person \union {Nobody}, NEW k \in Tells,
             \/ k \in {"nothing", "rejected"} /\ p = R.to
             \/ k = "assigned" /\ g = "DELEGATED" /\ R.routing = "AWAITING"
             \/ k = "prompt" /\ g = "AWAITING",
             Notices!Begin(c, n, [R EXCEPT !.to = p, !.by = b, !.routing = g], "chat", k)
      PROVE  NoticesIInv'
  <2> DEFINE q == [R EXCEPT !.to = p, !.by = b, !.routing = g]
  <2>1. /\ q \in RowT /\ q.reminded = R.reminded /\ q.deadline = R.deadline /\ q.to = p
        /\ q.state = "open" /\ q.routing = g
    BY <1>1 DEF RowT
  <2>5. Notices!Begin(c, n, q, "chat", k)
    BY <1>3
  <2> HIDE DEF q
  <2> DEFINE x == [task |-> n, read |-> R, patch |-> q, from |-> "chat", tells |-> k]
  <2>2. x.task = n /\ x.read = R /\ x.patch = q /\ x.from = "chat" /\ x.tells = k
    OBVIOUS
  <2> HIDE DEF x
  <2>3. Sound(x)
    BY <1>1, <1>3, <2>1, <2>2 DEF Sound, Replies
  <2>4. R.state # "none"
    BY <1>1
  <2> QED
    BY <2>1, <2>3, <2>4, <2>5, BeginNotices DEF x
<1>4. /\ \A g \in Notices!Routing : [R EXCEPT !.routing = g] = [R EXCEPT !.to = R.to, !.by = R.by, !.routing = g]
      /\ \A g \in Notices!Routing, p \in Person : [R EXCEPT !.to = p, !.routing = g] = [R EXCEPT !.to = p, !.by = R.by, !.routing = g]
      /\ R.by \in Person \union {Nobody}
  BY <1>1 DEF RowT
<1>5. {"MANAGER_SELF", "DELEGATED", "AWAITING", "REJECTED"} \subseteq Notices!Routing
  BY DEF Notices!Routing
<1>6. {"nothing", "assigned", "prompt", "rejected"} \subseteq Tells
  BY DEF Tells
<1>7. CASE Notices!Keep(c, n)
  <2>1. Notices!Begin(c, n, [R EXCEPT !.routing = "MANAGER_SELF"], "chat", "nothing")
    BY <1>7 DEF Notices!Keep
  <2>2. Notices!Begin(c, n, [R EXCEPT !.to = R.to, !.by = R.by, !.routing = "MANAGER_SELF"], "chat", "nothing")
    BY <1>4, <1>5, <2>1
  <2> QED
    BY <1>1, <1>3, <1>4, <1>5, <1>6, <2>2
<1>8. ASSUME NEW m \in Notices!Mention, Notices!Delegate(c, n, m) PROVE NoticesIInv'
  <2>1. PICK w \in Notices!Resolve(m) :
          Notices!Begin(c, n, [R EXCEPT !.to = w, !.by = R.to, !.routing = "DELEGATED"], "chat", "assigned")
    BY <1>8 DEF Notices!Delegate
  <2>2. w \in Person /\ R.routing = "AWAITING"
    BY <1>8 DEF Notices!Delegate, Notices!Workers
  <2> QED
    BY <1>1, <1>3, <1>5, <1>6, <2>1, <2>2
<1>9. ASSUME NEW head \in Person, Notices!Transfer(c, n, head) PROVE NoticesIInv'
  <2>1. Notices!Begin(c, n, [R EXCEPT !.to = head, !.routing = "AWAITING"], "chat", "prompt")
    BY <1>9 DEF Notices!Transfer
  <2>2. Notices!Begin(c, n, [R EXCEPT !.to = head, !.by = R.by, !.routing = "AWAITING"], "chat", "prompt")
    BY <1>4, <1>5, <2>1
  <2> QED
    BY <1>3, <1>4, <1>5, <1>6, <2>2
<1>10. CASE Notices!Reject(c, n)
  <2>1. Notices!Begin(c, n, [R EXCEPT !.routing = "REJECTED"], "chat", "rejected")
    BY <1>10 DEF Notices!Reject
  <2>2. Notices!Begin(c, n, [R EXCEPT !.to = R.to, !.by = R.by, !.routing = "REJECTED"], "chat", "rejected")
    BY <1>4, <1>5, <2>1
  <2> QED
    BY <1>1, <1>3, <1>4, <1>5, <1>6, <2>2
<1> QED
  BY <1>7, <1>8, <1>9, <1>10 DEF Notices!Answer

LEMMA CompleteNotices ==
  ASSUME Notices!NoticesAssumption, NoticesIInv, NEW c \in Notices!Call, NEW n \in Task, Notices!Complete(c, n)
  PROVE  NoticesIInv'
<1> DEFINE R == noticesRow[n]
           q == [R EXCEPT !.state = "done"]
           x == [task |-> n, read |-> R, patch |-> q, from |-> "chat", tells |-> "completed"]
<1>1. R.state = "open" /\ R \in RowT /\ R.to \in Person /\ Notices!Begin(c, n, q, "chat", "completed")
  BY DEF Notices!Complete, NoticesIInv, NoticeTypes, Addressed
<1>2. q \in RowT /\ q.state = "done" /\ q.to = R.to /\ q.reminded = R.reminded /\ q.deadline = R.deadline
  BY <1>1 DEF RowT
<1> HIDE DEF q
<1>3. x.task = n /\ x.read = R /\ x.patch = q /\ x.from = "chat" /\ x.tells = "completed"
  OBVIOUS
<1> HIDE DEF x
<1>4. Sound(x) /\ "completed" \in Tells /\ R.state # "none"
  BY <1>1, <1>2, <1>3 DEF Sound, Replies, Tells
<1> QED
  BY <1>1, <1>2, <1>4, BeginNotices DEF x

LEMMA AnnounceNotices ==
  ASSUME Notices!NoticesAssumption, NoticesIInv, NEW x \in pending, Notices!Announce(x)
  PROVE  NoticesIInv'
<1>1. /\ UNCHANGED <<noticesRow, breach, tick, todo, calls, changes, admin, handed, raced, noticesOverlapped>>
      /\ pending' = pending \ {x} /\ x \in Message
  BY DEF Notices!Announce, NoticesIInv, NoticeTypes, Notices!ghosts
<1>2. \/ /\ knows' = IF Notices!StillFits(x) /\ Notices!IsForAssignee(x) /\ noticesRow[x.task].to \in Reachable
                    THEN [knows EXCEPT ![x.task] = @ \union {noticesRow[x.task].to}] ELSE knows
         /\ UNCHANGED <<noticesFaults, missed>>
      \/ Notices!IsForAssignee(x) /\ Notices!Fault /\ missed' = missed \union {x.task} /\ UNCHANGED knows
  BY DEF Notices!Announce
<1>3. x.task \in Task
  BY <1>1 DEF Message
<1>4. noticesFaults' \in 0..MaxFaults /\ noticesFaults' >= noticesFaults /\ missed' \subseteq Task /\ missed \subseteq missed'
  BY <1>2, <1>3 DEF Notices!Fault, NoticesIInv, NoticeTypes, Notices!NoticesAssumption
<1>5. knows' \in [Task -> SUBSET Person] /\ \A n \in Task : knows[n] \subseteq knows'[n]
  <2>1. ASSUME noticesRow[x.task].to \in Reachable PROVE noticesRow[x.task].to \in Person
    BY <2>1 DEF Notices!NoticesAssumption
  <2> QED
    BY <1>2, <1>3, <2>1 DEF NoticesIInv, NoticeTypes
<1>6. NoticeTypes'
  BY <1>1, <1>4, <1>5 DEF NoticesIInv, NoticeTypes
<1>7. Hands' /\ Begun' /\ Addressed'
  BY <1>1 DEF NoticesIInv, Hands, Begun, Addressed
<1>8. ASSUME NEW n \in Task \ (missed' \union admin' \union raced') PROVE Told(n)'
  <2>1. Told(n)
    BY <1>1, <1>4 DEF NoticesIInv
  <2>2. CASE [kind |-> Notices!Announcement(noticesRow[n]), task |-> n] = x
    <3>1. x.task = n /\ x.kind = Notices!Announcement(noticesRow[n])
      BY <2>2
    <3>2. noticesRow[n].state = "open" => Notices!StillFits(x) /\ Notices!IsForAssignee(x)
      BY <3>1 DEF Notices!StillFits, Notices!IsForAssignee, Notices!Announcement
    <3>3. noticesRow[n].state = "open" /\ noticesRow[n].to \in Reachable => noticesRow[n].to \in knows'[n]
      BY <1>2, <1>3, <3>1, <3>2 DEF NoticesIInv, NoticeTypes
    <3> QED
      BY <1>1, <3>3 DEF Told
  <2>3. CASE [kind |-> Notices!Announcement(noticesRow[n]), task |-> n] # x
    BY <1>1, <1>5, <2>1, <2>3 DEF Told, Notices!Announcement
  <2> QED
    BY <2>2, <2>3
<1>9. ASSUME NEW n \in Task \ noticesOverlapped' PROVE Quiet(n)'
  <2>1. noticesFaults' \in Nat
    BY <1>4 DEF Notices!NoticesAssumption
  <2> QED
    BY <1>1, <1>4, <2>1, TouchesQuiet
<1> QED
  BY <1>6, <1>7, <1>8, <1>9 DEF NoticesIInv

LEMMA PassesNotices ==
  ASSUME Notices!NoticesAssumption, NoticesIInv, NEW n \in Task, Notices!DeadlinePasses(n)
  PROVE  NoticesIInv'
<1>1. /\ UNCHANGED <<pending, Notices!people, tick, todo, calls, changes, noticesFaults, missed, admin, handed, raced, noticesOverlapped>>
      /\ noticesRow \in [Task -> RowT] /\ noticesRow[n] \in RowT /\ noticesRow[n].deadline = "ahead"
      /\ noticesRow' = [noticesRow EXCEPT ![n].deadline = "passed"]
  BY DEF Notices!DeadlinePasses, NoticesIInv, NoticeTypes, Notices!ghosts
<1>2. noticesRow' \in [Task -> RowT] /\ \A k \in Task \ {n} : noticesRow'[k] = noticesRow[k]
  <2>1. [noticesRow[n] EXCEPT !.deadline = "passed"] \in RowT
    BY <1>1 DEF RowT
  <2>2. noticesRow' = [noticesRow EXCEPT ![n] = [noticesRow[n] EXCEPT !.deadline = "passed"]]
    BY <1>1
  <2> QED
    BY <1>1, <2>1, <2>2
<1>3. /\ noticesRow'[n].state = noticesRow[n].state /\ noticesRow'[n].to = noticesRow[n].to /\ noticesRow'[n].by = noticesRow[n].by
      /\ noticesRow'[n].routing = noticesRow[n].routing /\ noticesRow'[n].reminded = noticesRow[n].reminded /\ noticesRow'[n].deadline = "passed"
  BY <1>1 DEF RowT
<1>4. NoticeTypes'
  BY <1>1, <1>2 DEF NoticesIInv, NoticeTypes, Notices!people
<1>5. Hands' /\ Begun' /\ Addressed'
  <2>1. Addressed'
    BY <1>1, <1>2, <1>3, StaysAddressed DEF NoticesIInv
  <2> QED
    BY <1>1, <2>1 DEF NoticesIInv, Hands, Begun
<1>6. ASSUME NEW k \in Task \ (missed' \union admin' \union raced') PROVE Told(k)'
  <2>1. Told(k) /\ pending' = pending /\ knows' = knows
    BY <1>1 DEF NoticesIInv, Notices!people
  <2>2. noticesRow'[k].state = noticesRow[k].state /\ noticesRow'[k].to = noticesRow[k].to /\ noticesRow'[k].routing = noticesRow[k].routing
    BY <1>2, <1>3
  <2> QED
    BY <2>1, <2>2 DEF Told, Notices!Announcement
<1>7. ASSUME NEW k \in Task \ noticesOverlapped' PROVE Quiet(k)'
  <2>1. noticesFaults' \in Nat /\ noticesFaults' >= noticesFaults /\ UNCHANGED <<tick, todo, calls, breach>>
    BY <1>1 DEF NoticesIInv, NoticeTypes, Notices!people
  <2> QED
    BY <1>1, <1>2, <1>3, <2>1, TouchesQuiet
<1> QED
  BY <1>4, <1>5, <1>6, <1>7 DEF NoticesIInv

LEMMA EditNotices ==
  ASSUME Notices!NoticesAssumption, NoticesIInv, NEW c \in Notices!Call, NEW n \in Task, Notices!Edit(c, n)
  PROVE  NoticesIInv'
<1> DEFINE R == noticesRow[n]
<1>1. R.state # "none" /\ R \in RowT
  BY DEF Notices!Edit, NoticesIInv, NoticeTypes
<1>2. PICK r \in Notices!Patches(R) :
        Notices!Begin(c, n, r, "dashboard", IF r.state = "done" /\ R.state = "open" THEN "completed" ELSE "nothing")
  BY DEF Notices!Edit
<1> DEFINE k == IF r.state = "done" /\ R.state = "open" THEN "completed" ELSE "nothing"
           x == [task |-> n, read |-> R, patch |-> r, from |-> "dashboard", tells |-> k]
<1>3. k \in Tells /\ Notices!Begin(c, n, r, "dashboard", k)
  BY <1>2 DEF Tells
<1> HIDE DEF k
<1>4. x.task = n /\ x.read = R /\ x.patch = r /\ x.from = "dashboard"
  OBVIOUS
<1>5. r \in RowT
  BY <1>1, PatchIs
<1> HIDE DEF x
<1>6. Sound(x)
  BY <1>1, <1>4 DEF Sound, Saves
<1> QED
  BY <1>1, <1>3, <1>5, <1>6, BeginNotices DEF x

-----------------------------------------------------------------------------
(* Only the columns that were changed are written. *)
Merged(r, q, p) == [f \in DOMAIN r |-> IF p[f] # q[f] THEN p[f] ELSE r[f]]

LEMMA MergedIs ==
  ASSUME NEW r \in RowT, NEW q \in RowT, NEW p \in RowT
  PROVE  /\ Merged(r, q, p) \in RowT
         /\ Merged(r, q, p).state = IF p.state # q.state THEN p.state ELSE r.state
         /\ Merged(r, q, p).to = IF p.to # q.to THEN p.to ELSE r.to
         /\ Merged(r, q, p).by = IF p.by # q.by THEN p.by ELSE r.by
         /\ Merged(r, q, p).routing = IF p.routing # q.routing THEN p.routing ELSE r.routing
         /\ Merged(r, q, p).deadline = IF p.deadline # q.deadline THEN p.deadline ELSE r.deadline
         /\ Merged(r, q, p).reminded = IF p.reminded # q.reminded THEN p.reminded ELSE r.reminded
<1> DEFINE M == Merged(r, q, p)
<1>1. DOMAIN r = {"state", "to", "by", "routing", "deadline", "reminded"}
  BY DEF RowT
<1>2. M = [state |-> IF p.state # q.state THEN p.state ELSE r.state,
           to |-> IF p.to # q.to THEN p.to ELSE r.to,
           by |-> IF p.by # q.by THEN p.by ELSE r.by,
           routing |-> IF p.routing # q.routing THEN p.routing ELSE r.routing,
           deadline |-> IF p.deadline # q.deadline THEN p.deadline ELSE r.deadline,
           reminded |-> IF p.reminded # q.reminded THEN p.reminded ELSE r.reminded]
  BY <1>1 DEF Merged
<1> QED
  BY <1>2 DEF RowT

(* What every write does. *)
LEMMA WriteIs ==
  ASSUME Notices!NoticesAssumption, NoticesIInv, NEW c \in Notices!Call,
         calls[c].from \in {"chat", "dashboard"}, Notices!Write(c, calls[c])
  PROVE  LET x == calls[c]
             n == x.task
             New == Merged(noticesRow[n], x.read, x.patch)
         IN  /\ n \in Task /\ noticesRow[n] \in RowT /\ x.read \in RowT /\ x.patch \in RowT /\ New \in RowT
             /\ noticesRow[n].state # "none" /\ noticesRow[n].to \in Person /\ x.tells \in Tells
             /\ x.from = "chat" => Replies(x)
             /\ x.from = "dashboard" => Saves(x)
             /\ New.state # "none" /\ New.to \in Person
             /\ noticesRow' \in [Task -> RowT] /\ noticesRow'[n] = New
             /\ \A k \in Task \ {n} : noticesRow'[k] = noticesRow[k]
             /\ Notices!Updated(x) = New
             /\ pending' = IF x.tells = "nothing" THEN pending ELSE pending \union {[kind |-> x.tells, task |-> n]}
             /\ pending' \subseteq Message /\ pending \subseteq pending'
             /\ noticesOverlapped' = noticesOverlapped \union ({n} \intersect (Notices!InHand \union Notices!HeldBeside(c)))
             /\ noticesOverlapped' \subseteq Task
             /\ calls' \in [Notices!Call -> CallT] /\ calls'[c] = Notices!NoCall
             /\ \A d \in Notices!Call \ {c} : calls'[d] = calls[d]
             /\ Begun' /\ Addressed' /\ Hands'
             /\ UNCHANGED <<tick, todo, changes, noticesFaults, missed>>
<1> DEFINE x == calls[c]
           n == x.task
           R == noticesRow[n]
           New == Merged(R, x.read, x.patch)
<1>1. x \in CallT /\ Sound(x) /\ pending \subseteq Message /\ noticesRow \in [Task -> RowT] /\ calls \in [Notices!Call -> CallT]
      /\ noticesOverlapped \subseteq Task
  BY DEF NoticesIInv, NoticeTypes, Begun
<1>2. x.read \in RowT /\ x.patch \in RowT /\ x.tells \in Tells
  BY <1>1 DEF CallT
<1>3. /\ n \in Task /\ (x.from = "chat" => Replies(x)) /\ (x.from = "dashboard" => Saves(x))
  BY <1>1 DEF Sound
<1>4. R \in RowT /\ R.state # "none" /\ R.to \in Person
  BY <1>1, <1>3 DEF NoticesIInv, Addressed
<1>5. DOMAIN R = DOMAIN x.patch
  BY <1>2, <1>4 DEF RowT
<1>6. Notices!Updated(x) = New
  BY DEF Notices!Updated, Notices!Moved, Merged
<1>7. /\ noticesRow' = [noticesRow EXCEPT ![n] = New]
      /\ pending' = IF x.tells = "nothing" THEN pending ELSE pending \union {[kind |-> x.tells, task |-> n]}
      /\ noticesOverlapped' = noticesOverlapped \union ({n} \intersect (Notices!InHand \union Notices!HeldBeside(c)))
      /\ calls' = [calls EXCEPT ![c] = Notices!NoCall]
      /\ UNCHANGED <<tick, todo, changes, noticesFaults, missed>>
  BY <1>6 DEF Notices!Write
<1>8. /\ New \in RowT
      /\ New.state = IF x.patch.state # x.read.state THEN x.patch.state ELSE R.state
      /\ New.to = IF x.patch.to # x.read.to THEN x.patch.to ELSE R.to
  BY <1>2, <1>4, MergedIs
<1>9. x.patch.state \in {"open", "done"} /\ (x.patch.to = x.read.to \/ x.patch.to \in Person)
  <2>1. CASE x.from = "chat"
    BY <1>3, <2>1 DEF Replies
  <2>2. CASE x.from = "dashboard"
    BY <1>2, <1>3, <2>2, PatchIs DEF Saves
  <2> QED
    BY <2>1, <2>2
<1> HIDE DEF New
<1>10. New.state # "none" /\ New.to \in Person
  BY <1>4, <1>8, <1>9
<1>11. /\ noticesRow' \in [Task -> RowT] /\ noticesRow'[n] = New
       /\ \A k \in Task \ {n} : noticesRow'[k] = noticesRow[k]
  BY <1>1, <1>3, <1>7, <1>8
<1>12. pending' \subseteq Message /\ pending \subseteq pending'
  BY <1>1, <1>2, <1>3, <1>7 DEF Message, Tells
<1>13. noticesOverlapped' \subseteq Task
  BY <1>1, <1>3, <1>7
<1>14. /\ calls' \in [Notices!Call -> CallT] /\ calls'[c] = Notices!NoCall
       /\ \A d \in Notices!Call \ {c} : calls'[d] = calls[d]
  BY <1>1, <1>7, Blank
<1>15. Sound(Notices!NoCall) /\ Notices!NoCall.from = "nowhere"
  BY DEF Sound, Notices!NoCall
<1>16. Begun'
  BY <1>14, <1>15 DEF NoticesIInv, Begun
<1>17. Hands'
  BY <1>7 DEF NoticesIInv, Hands
<1>18. Addressed'
  <2>1. ASSUME NEW k \in Task, noticesRow'[k].state # "none" PROVE noticesRow'[k].to \in Person
    BY <1>10, <1>11, <2>1 DEF NoticesIInv, Addressed
  <2>2. ASSUME NEW d \in Notices!Call, calls'[d].from # "nowhere" PROVE noticesRow'[calls'[d].task].state # "none"
    <3>1. d # c /\ calls'[d] = calls[d]
      BY <1>14, <1>15, <2>2
    <3>2. calls[d].task \in Task /\ noticesRow[calls[d].task].state # "none"
      BY <2>2, <3>1 DEF NoticesIInv, NoticeTypes, Addressed, Begun, Sound, CallT, Origins
    <3> QED
      BY <1>10, <1>11, <3>1, <3>2
  <2> QED
    BY <2>1, <2>2 DEF Addressed
<1> QED
  BY <1>2, <1>3, <1>4, <1>6, <1>7, <1>8, <1>10, <1>11, <1>12, <1>13, <1>14, <1>16, <1>17, <1>18 DEF New

(* The tasks the write does not touch keep what they had. *)
LEMMA Untouched ==
  ASSUME Notices!NoticesAssumption, NoticesIInv, NEW c \in Notices!Call, NEW k \in Task, k \notin noticesOverlapped',
         calls[c].from \in {"chat", "dashboard"}, Notices!Write(c, calls[c]), k # calls[c].task,
         breach'[k] = breach[k], k \in admin => k \in admin', k \in handed => k \in handed'
  PROVE  Quiet(k)'
<1>1. /\ noticesRow'[k] = noticesRow[k] /\ noticesOverlapped \subseteq noticesOverlapped' /\ calls'[c] = Notices!NoCall
      /\ \A d \in Notices!Call \ {c} : calls'[d] = calls[d]
      /\ UNCHANGED <<tick, todo>> /\ noticesFaults' = noticesFaults
  BY WriteIs
<1>2. noticesFaults' \in Nat /\ noticesFaults' >= noticesFaults
  BY <1>1 DEF NoticesIInv, NoticeTypes
<1>3. Notices!NoCall.from # "dashboard"
  BY DEF Notices!NoCall
<1>4. \A d \in Notices!Call : calls'[d].from = "dashboard" /\ calls'[d].task = k => calls'[d] = calls[d]
  BY <1>1, <1>3
<1> QED
  BY <1>1, <1>2, <1>4, TouchesQuiet

(* Nobody else at the dashboard holds the row that was written. *)
LEMMA HeldByNobody ==
  ASSUME Notices!NoticesAssumption, NoticesIInv, NEW c \in Notices!Call,
         calls[c].from \in {"chat", "dashboard"}, Notices!Write(c, calls[c]), calls[c].task \notin noticesOverlapped'
  PROVE  /\ calls[c].task \notin Notices!InHand /\ calls[c].task \notin noticesOverlapped
         /\ \A d \in Notices!Call : calls'[d].from = "dashboard" => calls'[d].task # calls[c].task
<1>1. /\ noticesOverlapped' = noticesOverlapped \union ({calls[c].task} \intersect (Notices!InHand \union Notices!HeldBeside(c)))
      /\ calls'[c] = Notices!NoCall /\ \A d \in Notices!Call \ {c} : calls'[d] = calls[d]
  BY WriteIs
<1>2. Notices!NoCall.from # "dashboard"
  BY DEF Notices!NoCall
<1>3. calls[c].task \notin Notices!HeldBeside(c)
  BY <1>1
<1> QED
  BY <1>1, <1>2, <1>3 DEF Notices!HeldBeside

LEMMA WriteAnswerNotices ==
  ASSUME Notices!NoticesAssumption, NoticesIInv, NEW c \in Notices!Call, Notices!WriteAnswer(c, calls[c])
  PROVE  NoticesIInv'
<1>0. PICK x : x = calls[c]
  OBVIOUS
<1> DEFINE n == x.task
           R == noticesRow[n]
           Q == x.read
           P == x.patch
           New == Merged(R, Q, P)
<1>1. /\ x.from = "chat" /\ Notices!Write(c, x) /\ UNCHANGED <<breach, admin>>
      /\ knows' = IF x.tells = "completed" THEN knows ELSE [knows EXCEPT ![n] = @ \union {Q.to}]
      /\ handed' = IF R.reminded /\ Notices!Differ(R, Notices!Updated(x), {"to", "by"}) THEN handed \union {n} ELSE handed
      /\ raced' = IF Notices!Differ(R, Q, {"to", "routing"}) THEN raced \union {n} ELSE raced
  BY <1>0 DEF Notices!WriteAnswer
<1>2. /\ n \in Task /\ R \in RowT /\ Q \in RowT /\ P \in RowT /\ New \in RowT
      /\ R.state # "none" /\ x.tells \in Tells /\ Replies(x) /\ New.state # "none"
      /\ noticesRow' \in [Task -> RowT] /\ noticesRow'[n] = New
      /\ \A k \in Task \ {n} : noticesRow'[k] = noticesRow[k]
      /\ Notices!Updated(x) = New
      /\ pending' = IF x.tells = "nothing" THEN pending ELSE pending \union {[kind |-> x.tells, task |-> n]}
      /\ pending' \subseteq Message /\ pending \subseteq pending'
      /\ noticesOverlapped' \subseteq Task
      /\ calls' \in [Notices!Call -> CallT] /\ calls'[c] = Notices!NoCall
      /\ \A d \in Notices!Call \ {c} : calls'[d] = calls[d]
      /\ Begun' /\ Addressed' /\ Hands'
      /\ UNCHANGED <<tick, todo, changes, noticesFaults, missed>>
  BY <1>0, <1>1, WriteIs
<1>3. /\ New.state = IF P.state # Q.state THEN P.state ELSE R.state
      /\ New.to = IF P.to # Q.to THEN P.to ELSE R.to
      /\ New.by = IF P.by # Q.by THEN P.by ELSE R.by
      /\ New.routing = IF P.routing # Q.routing THEN P.routing ELSE R.routing
      /\ New.deadline = R.deadline /\ New.reminded = R.reminded
  <2>1. P.reminded = Q.reminded /\ P.deadline = Q.deadline
    BY <1>2 DEF Replies
  <2>2. /\ New.deadline = IF P.deadline # Q.deadline THEN P.deadline ELSE R.deadline
        /\ New.reminded = IF P.reminded # Q.reminded THEN P.reminded ELSE R.reminded
        /\ New.state = IF P.state # Q.state THEN P.state ELSE R.state
        /\ New.to = IF P.to # Q.to THEN P.to ELSE R.to
        /\ New.by = IF P.by # Q.by THEN P.by ELSE R.by
        /\ New.routing = IF P.routing # Q.routing THEN P.routing ELSE R.routing
    BY <1>2, MergedIs
  <2> HIDE DEF New, P, Q, R
  <2> QED
    BY <2>1, <2>2
<1>4. R.reminded = TRUE => n \in handed' \/ (New.to = R.to /\ New.by = R.by)
  BY <1>1, <1>2 DEF Notices!Differ
<1>5. n \notin raced' => R.to = Q.to /\ R.routing = Q.routing
  BY <1>1 DEF Notices!Differ
<1>6. n \notin raced' /\ New.state = "open" =>
          \/ New.to = Q.to /\ x.tells # "completed"
          \/ [kind |-> Notices!Announcement(New), task |-> n] \in pending'
  <2> SUFFICES ASSUME R.to = Q.to, R.routing = Q.routing, New.state = "open"
               PROVE  \/ New.to = Q.to /\ x.tells # "completed"
                      \/ [kind |-> Notices!Announcement(New), task |-> n] \in pending'
    BY <1>5
  <2>1. /\ P.to \in Person /\ P.state \in {"open", "done"} /\ Q.state = "open"
        /\ \/ x.tells = "completed" /\ P.state = "done"
           \/ x.tells \in {"nothing", "rejected"} /\ P.to = Q.to
           \/ x.tells = "assigned" /\ P.routing = "DELEGATED" /\ Q.routing = "AWAITING"
           \/ x.tells = "prompt" /\ P.routing = "AWAITING"
    BY <1>2 DEF Replies
  <2> HIDE DEF New, P, Q, R
  <2>2. CASE x.tells = "completed" /\ P.state = "done"
    BY <1>3, <2>1, <2>2
  <2>3. CASE x.tells \in {"nothing", "rejected"} /\ P.to = Q.to
    BY <1>3, <2>3
  <2>4. CASE x.tells = "assigned" /\ P.routing = "DELEGATED" /\ Q.routing = "AWAITING"
    <3>1. New.routing = "DELEGATED"
      BY <1>3, <2>4
    <3> QED
      BY <1>2, <2>4, <3>1 DEF Notices!Announcement
  <2>5. CASE x.tells = "prompt" /\ P.routing = "AWAITING"
    <3>1. New.routing = "AWAITING"
      BY <1>3, <2>5
    <3> QED
      BY <1>2, <2>5, <3>1 DEF Notices!Announcement
  <2> QED
    BY <2>1, <2>2, <2>3, <2>4, <2>5
<1>7. knows' \in [Task -> SUBSET Person] /\ \A k \in Task : knows[k] \subseteq knows'[k] /\ (x.tells # "completed" => Q.to \in knows'[n])
  <2>1. x.tells # "completed" => Q.to \in Person
    <3>1. Q.to \in Person \union {Nobody}
      BY <1>2 DEF RowT
    <3> QED
      BY <1>2, <3>1 DEF Replies
  <2> QED
    BY <1>1, <1>2, <2>1 DEF NoticesIInv, NoticeTypes
<1>8. NoticeTypes'
  <2>1. handed' \subseteq Task /\ raced' \subseteq Task
    BY <1>1, <1>2 DEF NoticesIInv, NoticeTypes
  <2> QED
    BY <1>1, <1>2, <1>7, <2>1 DEF NoticesIInv, NoticeTypes
<1>9. ASSUME NEW k \in Task \ (missed' \union admin' \union raced') PROVE Told(k)'
  <2>1. Told(k)
    BY <1>1, <1>2 DEF NoticesIInv
  <2>2. CASE k # n
    BY <1>2, <1>7, <2>1, <2>2 DEF Told, Notices!Announcement
  <2>3. CASE k = n
    BY <1>2, <1>6, <1>7, <2>3 DEF Told, Notices!Announcement
  <2> QED
    BY <2>2, <2>3
<1>10. handed \subseteq handed'
  BY <1>1
<1>11. ASSUME NEW k \in Task \ noticesOverlapped', k # n PROVE Quiet(k)'
  BY <1>1, <1>10, <1>11, <1>0, Untouched
<1>12. ASSUME n \notin noticesOverlapped' PROVE Quiet(n)'
  <2>1. /\ n \notin Notices!InHand /\ n \notin noticesOverlapped
        /\ \A d \in Notices!Call : calls'[d].from = "dashboard" => calls'[d].task # n
    BY <1>1, <1>12, <1>0, HeldByNobody
  <2>2. noticesFaults' \in Nat /\ noticesFaults' >= noticesFaults /\ noticesOverlapped \subseteq noticesOverlapped'
    <3>1. noticesOverlapped \subseteq noticesOverlapped'
      BY <1>1 DEF Notices!Write
    <3>2. noticesFaults' = noticesFaults /\ noticesFaults \in Nat
      BY <1>2 DEF NoticesIInv, NoticeTypes
    <3> QED
      BY <3>1, <3>2
  <2>3. /\ noticesRow'[n].state = "none" => noticesRow[n].state = "none"
        /\ noticesRow'[n].reminded = noticesRow[n].reminded /\ noticesRow'[n].deadline = noticesRow[n].deadline
        /\ noticesRow'[n].reminded = TRUE => n \in handed' \/ (noticesRow'[n].to = noticesRow[n].to /\ noticesRow'[n].by = noticesRow[n].by)
    BY <1>2, <1>3, <1>4
  <2>4. n \in Task /\ UNCHANGED <<tick, todo>> /\ breach'[n] = breach[n] /\ admin' = admin
    BY <1>1, <1>2
  <2> HIDE DEF New, P, Q, R, n
  <2> QED
    BY <1>10, <1>12, <2>1, <2>2, <2>3, <2>4, TouchesQuiet
<1>13. \A k \in Task \ noticesOverlapped' : Quiet(k)'
  BY <1>11, <1>12
<1> HIDE DEF New, P, Q, R, n
<1> QED
  BY <1>2, <1>8, <1>9, <1>13 DEF NoticesIInv

LEMMA WriteEditNotices ==
  ASSUME Notices!NoticesAssumption, NoticesIInv, NEW c \in Notices!Call, Notices!WriteEdit(c, calls[c])
  PROVE  NoticesIInv'
<1>0. PICK x : x = calls[c]
  OBVIOUS
<1> DEFINE n == x.task
           R == noticesRow[n]
           Q == x.read
           P == x.patch
           New == Merged(R, Q, P)
<1>1. /\ x.from = "dashboard" /\ Notices!Write(c, x) /\ UNCHANGED <<knows, raced>>
      /\ breach' = IF Notices!StartsAnew(x) THEN [breach EXCEPT ![n] = Notices!Untold] ELSE breach
      /\ handed' = IF Notices!StartsAnew(x) THEN handed \ {n} ELSE handed
      /\ admin' = IF P.to # Q.to \/ P.state # Q.state THEN admin \union {n} ELSE admin
  BY <1>0 DEF Notices!WriteEdit, Notices!Moved
<1>2. /\ n \in Task /\ R \in RowT /\ Q \in RowT /\ P \in RowT /\ New \in RowT
      /\ R.state # "none" /\ P \in Notices!Patches(Q) /\ New.state # "none"
      /\ noticesRow' \in [Task -> RowT] /\ noticesRow'[n] = New
      /\ \A k \in Task \ {n} : noticesRow'[k] = noticesRow[k]
      /\ pending' \subseteq Message /\ pending \subseteq pending'
      /\ noticesOverlapped' \subseteq Task
      /\ calls' \in [Notices!Call -> CallT] /\ calls'[c] = Notices!NoCall
      /\ \A d \in Notices!Call \ {c} : calls'[d] = calls[d]
      /\ Begun' /\ Addressed' /\ Hands'
      /\ UNCHANGED <<tick, todo, changes, noticesFaults, missed>>
  BY <1>0, <1>1, WriteIs DEF Saves
<1>3. /\ P.by = Q.by /\ P.routing = Q.routing
      /\ P.reminded = TRUE => Q.reminded = TRUE
      /\ P.deadline # Q.deadline /\ P.deadline # "passed" => P.reminded = FALSE
  <2>1. Q \in RowT /\ P \in Notices!Patches(Q)
    BY <1>2
  <2> HIDE DEF P, Q
  <2> QED
    BY <2>1, PatchIs
<1>4. /\ New.state = IF P.state # Q.state THEN P.state ELSE R.state
      /\ New.to = IF P.to # Q.to THEN P.to ELSE R.to
      /\ New.by = R.by /\ New.routing = R.routing
      /\ New.deadline = IF P.deadline # Q.deadline THEN P.deadline ELSE R.deadline
      /\ New.reminded = IF P.reminded # Q.reminded THEN P.reminded ELSE R.reminded
  <2>1. /\ New.state = IF P.state # Q.state THEN P.state ELSE R.state
        /\ New.to = IF P.to # Q.to THEN P.to ELSE R.to
        /\ New.by = IF P.by # Q.by THEN P.by ELSE R.by
        /\ New.routing = IF P.routing # Q.routing THEN P.routing ELSE R.routing
        /\ New.deadline = IF P.deadline # Q.deadline THEN P.deadline ELSE R.deadline
        /\ New.reminded = IF P.reminded # Q.reminded THEN P.reminded ELSE R.reminded
    BY <1>2, MergedIs
  <2> HIDE DEF New, P, Q, R
  <2> QED
    BY <1>3, <2>1
<1>5. n # Nobody /\ breach \in [Task -> Counts] /\ Notices!Untold \in Counts
  BY <1>2, Blank DEF NoticesIInv, NoticeTypes, Notices!NoticesAssumption
<1>6. NoticeTypes'
  <2>1. breach' \in [Task -> Counts] /\ admin' \subseteq Task /\ handed' \subseteq Task
    BY <1>1, <1>2, <1>5 DEF NoticesIInv, NoticeTypes
  <2> QED
    BY <1>1, <1>2, <2>1 DEF NoticesIInv, NoticeTypes
<1>7. ASSUME NEW k \in Task \ (missed' \union admin' \union raced') PROVE Told(k)'
  <2>1. Told(k) /\ knows' = knows
    BY <1>1, <1>2 DEF NoticesIInv
  <2>2. CASE k # n
    BY <1>2, <2>1, <2>2 DEF Told, Notices!Announcement
  <2>3. CASE k = n
    <3>1. New.to = R.to /\ New.state = R.state /\ New.routing = R.routing
      BY <1>1, <1>4, <2>3
    <3> HIDE DEF New
    <3> QED
      BY <1>2, <2>1, <2>3, <3>1 DEF Told, Notices!Announcement
  <2> QED
    BY <2>2, <2>3
<1>8. ASSUME NEW k \in Task \ noticesOverlapped', k # n PROVE Quiet(k)'
  <2>1. breach'[k] = breach[k] /\ (k \in admin => k \in admin') /\ (k \in handed => k \in handed')
    BY <1>1, <1>2, <1>5, <1>8
  <2> QED
    BY <1>1, <1>8, <2>1, <1>0, Untouched
<1>9. ASSUME n \notin noticesOverlapped' PROVE Quiet(n)'
  <2>1. /\ n \notin Notices!InHand /\ n \notin noticesOverlapped
        /\ \A d \in Notices!Call : calls'[d].from = "dashboard" => calls'[d].task # n
    BY <1>1, <1>9, <1>0, HeldByNobody
  <2>2. Quiet(n) /\ SameButDeadline(Q, R)
    BY <1>0, <1>1, <1>2, <2>1 DEF NoticesIInv, Quiet, Edits
  <2>3. Q.reminded = R.reminded /\ (R.reminded = TRUE => R.deadline = "passed")
    BY <2>2 DEF SameButDeadline, Quiet, Marks
  <2>4. New.reminded = P.reminded
    BY <1>4, <2>3
  <2>5. P.reminded = TRUE => R.reminded = TRUE /\ New.deadline = "passed"
    BY <1>3, <1>4, <2>3
  <2>6. ASSUME Notices!StartsAnew(x) PROVE P.reminded = FALSE
    <3>1. P.reminded \in Flag /\ Q.reminded \in Flag
      BY <1>2 DEF RowT
    <3>2. (P.reminded = TRUE \/ P.reminded = FALSE) /\ (Q.reminded = TRUE \/ Q.reminded = FALSE)
      BY <3>1, FlagIs
    <3>3. \/ P.reminded # Q.reminded
          \/ P.deadline # Q.deadline /\ P.deadline # "passed"
          \/ ~P.reminded
      BY <2>6, Zenon DEF Notices!StartsAnew, Notices!Moved
    <3>4. CASE P.reminded # Q.reminded
      BY <1>3, <3>2, <3>4
    <3>5. CASE P.deadline # Q.deadline /\ P.deadline # "passed"
      BY <1>3, <3>5
    <3>6. CASE ~P.reminded
      BY <3>2, <3>6, Zenon
    <3> QED
      BY <3>3, <3>4, <3>5, <3>6
  <2>7. ASSUME ~Notices!StartsAnew(x) PROVE P.reminded = R.reminded
    <3>1. P.reminded = Q.reminded
      BY <2>7, Zenon DEF Notices!StartsAnew, Notices!Moved
    <3> QED
      BY <2>3, <3>1
  <2>8. /\ tick' = tick /\ todo' = todo /\ noticesFaults' = noticesFaults /\ noticesFaults \in Nat /\ Notices!InHand' = Notices!InHand
        /\ breach[n] \in Counts
    BY <1>2, <1>5 DEF Notices!InHand, NoticesIInv, NoticeTypes
  <2> HIDE DEF New, P, Q
  <2>9. Marks(n)'
    BY <1>2, <2>4, <2>5 DEF Marks
  <2>10. AtRest(n)'
    <3> SUFFICES ASSUME NEW p \in Person
                 PROVE  breach'[n][p] <= IF New.reminded = TRUE THEN 1 + noticesFaults ELSE noticesFaults
      BY <1>2, <2>8 DEF AtRest
    <3>1. breach[n][p] <= IF R.reminded = TRUE THEN 1 + noticesFaults ELSE noticesFaults
      BY <2>1, <2>2 DEF Quiet, AtRest
    <3>2. CASE Notices!StartsAnew(x)
      BY <1>1, <1>2, <1>5, <2>8, <3>2 DEF Notices!Untold
    <3>3. CASE ~Notices!StartsAnew(x)
      BY <1>1, <2>4, <2>7, <3>1, <3>3
    <3> QED
      BY <3>2, <3>3
  <2>11. Waits(n)' /\ Holds(n)'
    BY <2>1, <2>8 DEF Waits, Holds, Notices!InHand
  <2>12. Edits(n)'
    BY <2>1 DEF Edits
  <2>13. Stands(n)'
    <3> SUFFICES ASSUME New.reminded = TRUE, n \notin admin', n \notin handed'
                 PROVE  \A p \in {New.to, New.by} \intersect Reachable : breach'[n][p] > 0
      BY <1>2 DEF Stands
    <3>1. ~Notices!StartsAnew(x) /\ R.reminded = TRUE
      BY <2>4, <2>5, <2>6
    <3>2. New.to = R.to /\ New.by = R.by /\ breach' = breach /\ n \notin admin \union handed
      BY <1>1, <1>4, <3>1
    <3> QED
      BY <2>2, <3>1, <3>2 DEF Quiet, Stands
  <2> QED
    BY <2>9, <2>10, <2>11, <2>12, <2>13 DEF Quiet
<1> QED
  BY <1>2, <1>6, <1>7, <1>8, <1>9 DEF NoticesIInv

-----------------------------------------------------------------------------
(* The cron. *)
LEMMA HeldAre == \A n : n \in Notices!InHand <=> n = tick.task \/ \E x \in todo : x.task = n
  BY DEF Notices!InHand

(* Of a task that is not in the hands of this step. *)
LEMMA CronQuiet ==
  ASSUME NoticesIInv, NEW n \in Task, n \notin noticesOverlapped, n # tick.task, n # tick'.task,
         UNCHANGED <<todo, calls, admin, handed>>, noticesFaults' \in Nat, noticesFaults' >= noticesFaults,
         noticesRow'[n] = noticesRow[n], breach'[n] = breach[n]
  PROVE  Quiet(n)'
<1>1. /\ Quiet(n) /\ noticesFaults \in Nat /\ breach[n] \in Counts
      /\ (n \in Notices!InHand' <=> n \in Notices!InHand)
  BY DEF NoticesIInv, NoticeTypes, Notices!InHand
<1>2. \A p \in Person : breach[n][p] \in Nat
  BY <1>1 DEF Counts
<1>3. Marks(n)' /\ Edits(n)' /\ Stands(n)' /\ Holds(n)'
  BY <1>1 DEF Quiet, Marks, Edits, Stands, Holds
<1>4. AtRest(n)'
  BY <1>1, <1>2 DEF Quiet, AtRest
<1>5. Waits(n)'
  BY <1>1, <1>2 DEF Quiet, Waits
<1> QED
  BY <1>3, <1>4, <1>5 DEF Quiet

(* The row in the cron's hands is written about here. *)
LEMMA InHands ==
  ASSUME Notices!NoticesAssumption, NoticesIInv, tick.at \notin {"idle", "rows"}
  PROVE  /\ tick.task \in Task /\ tick.row \in RowT /\ tick.row.state = "open"
         /\ tick.row.reminded = FALSE /\ tick.row.deadline = "passed"
         /\ \A x \in todo : x.task # tick.task
         /\ noticesRow \in [Task -> RowT] /\ breach \in [Task -> Counts] /\ noticesFaults \in Nat
         /\ tick \in HandT /\ tick.at \in {"assignee", "assigner", "mark"}
<1>1. tick \in HandT /\ noticesRow \in [Task -> RowT] /\ breach \in [Task -> Counts] /\ noticesFaults \in Nat
  BY DEF NoticesIInv, NoticeTypes, Notices!NoticesAssumption
<1>2. tick.row \in RowT /\ tick.at \in {"assignee", "assigner", "mark"}
  BY <1>1 DEF HandT
<1>3. tick.task \in Task /\ HeldRow(tick.row) /\ \A x \in todo : x.task # tick.task
  BY DEF NoticesIInv, Hands
<1> QED
  BY <1>1, <1>2, <1>3 DEF HeldRow

LEMMA TickNotices ==
  ASSUME Notices!NoticesAssumption, NoticesIInv, Notices!Tick
  PROVE  NoticesIInv'
<1>1. /\ UNCHANGED <<noticesRow, pending, Notices!people, calls, changes, noticesFaults, missed, admin, handed, raced>>
      /\ tick.at = "idle" /\ tick' = [Notices!Idle EXCEPT !.at = "rows"]
      /\ todo' = {[task |-> n, row |-> noticesRow[n]] : n \in {m \in Task : Notices!Due(m)}}
      /\ noticesOverlapped' = noticesOverlapped \union
            {n \in Task : Notices!Due(n) /\ \E c \in Notices!Call : calls[c].task = n /\ calls[c].from = "dashboard"}
      /\ noticesRow \in [Task -> RowT]
  BY DEF Notices!Tick, NoticesIInv, NoticeTypes
<1>2. tick'.at = "rows" /\ tick'.task = Nobody /\ tick' \in HandT
  BY <1>1, Blank DEF Notices!Idle, HandT
<1>3. \A n \in Task : Notices!Due(n) => HeldRow(noticesRow[n])
  <2>1. \A n \in Task : noticesRow[n].reminded \in Flag
    BY <1>1 DEF RowT
  <2>2. \A n \in Task : noticesRow[n].reminded = TRUE \/ noticesRow[n].reminded = FALSE
    BY <2>1, FlagIs
  <2> QED
    BY <2>2 DEF Notices!Due, HeldRow
<1>4. NoticeTypes'
  <2>1. todo' \subseteq ItemT
    BY <1>1 DEF ItemT
  <2> QED
    BY <1>1, <1>2, <2>1 DEF NoticesIInv, NoticeTypes, Notices!people
<1>5. Hands' /\ Begun' /\ Addressed'
  <2>1. Hands'
    BY <1>1, <1>2, <1>3 DEF Hands
  <2> QED
    BY <1>1, <2>1 DEF NoticesIInv, Begun, Addressed
<1>6. ASSUME NEW k \in Task \ (missed' \union admin' \union raced') PROVE Told(k)'
  BY <1>1 DEF NoticesIInv, Told, Notices!people, Notices!Announcement
<1>7. ASSUME NEW k \in Task \ noticesOverlapped' PROVE Quiet(k)'
  <2>1. /\ Quiet(k) /\ noticesRow' = noticesRow /\ breach' = breach /\ calls' = calls /\ noticesFaults' = noticesFaults
        /\ admin' = admin /\ handed' = handed /\ k # Nobody
    BY <1>1 DEF NoticesIInv, Notices!people, Notices!NoticesAssumption
  <2>2. k \notin Notices!InHand
    BY <1>1, <2>1 DEF NoticesIInv, Hands, Notices!InHand
  <2>3. k \in Notices!InHand' => Notices!Due(k)
    BY <1>1, <1>2, <2>1 DEF Notices!InHand
  <2>4. Marks(k)' /\ Stands(k)'
    BY <2>1 DEF Quiet, Marks, Stands
  <2>5. AtRest(k)'
    BY <2>1, <2>2 DEF Quiet, AtRest
  <2>6. Waits(k)'
    <3> SUFFICES ASSUME NEW x \in todo', x.task = k
                 PROVE  x.row = noticesRow[k] /\ \A p \in Person : breach[k][p] <= noticesFaults
      BY <2>1 DEF Waits
    <3>1. x.row = noticesRow[k] /\ Notices!Due(k)
      BY <1>1
    <3> QED
      BY <1>3, <2>1, <2>2, <3>1 DEF Quiet, AtRest, HeldRow
  <2>7. Holds(k)' /\ Edits(k)'
    BY <1>1, <1>2, <2>1, <2>3 DEF Holds, Edits, Quiet
  <2> QED
    BY <2>4, <2>5, <2>6, <2>7 DEF Quiet
<1> QED
  BY <1>4, <1>5, <1>6, <1>7 DEF NoticesIInv

LEMMA TakeRowNotices ==
  ASSUME Notices!NoticesAssumption, NoticesIInv, NEW x \in todo, Notices!TakeRow(x)
  PROVE  NoticesIInv'
<1>1. /\ UNCHANGED <<noticesRow, pending, Notices!people, calls, changes, noticesFaults, missed, admin, handed, raced, noticesOverlapped>>
      /\ tick.at = "rows" /\ todo' = todo \ {x} /\ tick' = [at |-> "assignee", task |-> x.task, row |-> x.row]
      /\ x \in ItemT /\ todo \subseteq ItemT
  BY DEF Notices!TakeRow, NoticesIInv, NoticeTypes, Notices!ghosts
<1>2. tick'.at = "assignee" /\ tick'.task = x.task /\ tick'.row = x.row /\ tick' \in HandT /\ x.task \in Task
  <2>1. x.task \in Task /\ x.row \in RowT
    BY <1>1 DEF ItemT
  <2>2. tick' \in HandT
    BY <1>1, <2>1 DEF HandT
  <2> QED
    BY <1>1, <2>1, <2>2
<1>3. NoticeTypes'
  BY <1>1, <1>2 DEF NoticesIInv, NoticeTypes, Notices!people
<1>4. Hands' /\ Begun' /\ Addressed'
  <2>1. Hands'
    BY <1>1, <1>2 DEF NoticesIInv, Hands
  <2> QED
    BY <1>1, <2>1 DEF NoticesIInv, Begun, Addressed
<1>5. ASSUME NEW k \in Task \ (missed' \union admin' \union raced') PROVE Told(k)'
  BY <1>1 DEF NoticesIInv, Told, Notices!people, Notices!Announcement
<1>6. ASSUME NEW k \in Task \ noticesOverlapped' PROVE Quiet(k)'
  <2>1. /\ Quiet(k) /\ noticesRow' = noticesRow /\ breach' = breach /\ calls' = calls /\ noticesFaults' = noticesFaults
        /\ admin' = admin /\ handed' = handed /\ k # Nobody /\ tick.task = Nobody
    BY <1>1 DEF NoticesIInv, Notices!people, Notices!NoticesAssumption, Hands
  <2>2. k \in Notices!InHand' <=> k \in Notices!InHand
    BY <1>1, <1>2, <2>1 DEF Notices!InHand
  <2>3. Marks(k)' /\ Stands(k)' /\ AtRest(k)' /\ Edits(k)'
    BY <2>1, <2>2 DEF Quiet, Marks, Stands, AtRest, Edits
  <2>4. Waits(k)'
    BY <1>1, <2>1 DEF Quiet, Waits
  <2>5. Holds(k)'
    BY <1>1, <1>2, <2>1 DEF Quiet, Waits, Holds, Above
  <2> QED
    BY <2>3, <2>4, <2>5 DEF Quiet
<1> QED
  BY <1>3, <1>4, <1>5, <1>6 DEF NoticesIInv

(* The two messages. *)
LEMMA TellNotices ==
  ASSUME Notices!NoticesAssumption, NoticesIInv, Notices!TellAssignee \/ Notices!TellAssigner
  PROVE  NoticesIInv'
<1>1. /\ UNCHANGED <<noticesRow, pending, knows, todo, calls, changes, noticesFaults, missed, admin, handed, raced, noticesOverlapped>>
      /\ tick.at \in {"assignee", "assigner"}
      /\ tick' = [tick EXCEPT !.at = IF tick.at = "assignee" THEN "assigner" ELSE "mark"]
      /\ \/ breach' = breach
         \/ \E p \in Reachable : breach' = [breach EXCEPT ![tick.task][p] = @ + 1]
  BY DEF Notices!TellAssignee, Notices!TellAssigner, Notices!Tell, Notices!ghosts
<1> DEFINE n == tick.task
<1>2. /\ n \in Task /\ tick.row \in RowT /\ breach \in [Task -> Counts] /\ noticesFaults \in Nat /\ tick \in HandT
      /\ Reachable \subseteq Person
  BY <1>1, InHands DEF Notices!NoticesAssumption
<1>3. /\ tick'.task = n /\ tick'.row = tick.row /\ tick' \in HandT
      /\ tick'.at = IF tick.at = "assignee" THEN "assigner" ELSE "mark"
  BY <1>1, <1>2 DEF HandT
<1>4. breach' \in [Task -> Counts] /\ \A k \in Task : k # n => breach'[k] = breach[k]
  <2>1. ASSUME NEW p \in Person PROVE [breach[n] EXCEPT ![p] = @ + 1] \in Counts
    BY <1>2 DEF Counts
  <2>2. CASE breach' = breach
    BY <1>2, <2>2
  <2>3. ASSUME NEW p \in Reachable, breach' = [breach EXCEPT ![n][p] = @ + 1]
        PROVE  breach' \in [Task -> Counts] /\ \A k \in Task : k # n => breach'[k] = breach[k]
    <3> DEFINE C == [breach[n] EXCEPT ![p] = @ + 1]
    <3>1. breach' = [breach EXCEPT ![n] = C]
      BY <1>2, <2>3
    <3>2. C \in Counts
      BY <1>2, <2>1
    <3> HIDE DEF C
    <3> QED
      BY <1>2, <3>1, <3>2
  <2> QED
    BY <1>1, <2>2, <2>3
<1>5. NoticeTypes'
  BY <1>1, <1>3, <1>4 DEF NoticesIInv, NoticeTypes
<1>6. Hands' /\ Begun' /\ Addressed'
  <2>1. Hands'
    BY <1>1, <1>3 DEF NoticesIInv, Hands
  <2> QED
    BY <1>1, <2>1 DEF NoticesIInv, Begun, Addressed
<1>7. ASSUME NEW k \in Task \ (missed' \union admin' \union raced') PROVE Told(k)'
  BY <1>1 DEF NoticesIInv, Told, Notices!Announcement
<1>8. ASSUME NEW k \in Task \ noticesOverlapped', k # n PROVE Quiet(k)'
  BY <1>1, <1>2, <1>3, <1>4, <1>8, CronQuiet
<1>9. ASSUME NEW k \in Task \ noticesOverlapped', k = n PROVE Quiet(k)'
  <2>1. Quiet(k) /\ breach[k] \in Counts /\ k \in Notices!InHand /\ k \in Notices!InHand'
    BY <1>1, <1>2, <1>3, <1>9 DEF NoticesIInv, Notices!InHand
  <2>2. \A p \in Person : breach[k][p] \in Nat /\ breach[k][p] <= Above(p)
    BY <1>9, <2>1 DEF Quiet, Holds, Counts
  <2>3. /\ tick.row = noticesRow[k] /\ noticesRow'[k] = noticesRow[k]
        /\ tick.at = "assigner" /\ tick.row.to \in Reachable => breach[k][tick.row.to] > 0
    BY <1>1, <1>9, <2>1 DEF Quiet, Holds
  <2>4. CASE Notices!TellAssignee
    <3>1. tick.at = "assignee" /\ breach' = IF tick.row.to \in Reachable THEN [breach EXCEPT ![k][tick.row.to] = @ + 1] ELSE breach
      BY <1>9, <2>4 DEF Notices!TellAssignee, Notices!Tell
    <3>2. \A p \in Person : breach[k][p] <= noticesFaults
      BY <2>2, <3>1 DEF Above
    <3>3. ASSUME NEW p \in Person
          PROVE  breach'[k][p] = IF p = tick.row.to /\ p \in Reachable THEN breach[k][p] + 1 ELSE breach[k][p]
      BY <1>2, <2>1, <3>1 DEF Counts
    <3>4. \A p \in Person : breach'[k][p] <= Above(p)'
      BY <1>1, <1>2, <1>3, <2>2, <3>1, <3>2, <3>3 DEF Above
    <3>5. tick.row.to \in Reachable => breach'[k][tick.row.to] > 0
      BY <1>2, <2>2, <3>3
    <3>6. Holds(k)'
      BY <1>1, <1>3, <2>3, <3>1, <3>4, <3>5 DEF Holds
    <3>7. \A p \in Person : breach'[k][p] >= breach[k][p]
      BY <2>2, <3>3
    <3>8. Stands(k)'
      BY <2>3, <1>1, <1>2, InHands DEF Stands
    <3> QED
      BY <1>1, <1>9, <2>1, <2>3, <3>6, <3>8, InHands DEF Quiet, Marks, AtRest, Waits, Edits
  <2>5. CASE Notices!TellAssigner
    <3> DEFINE once == tick.row.by # tick.row.to /\ tick.row.by \in Reachable
    <3>1. tick.at = "assigner" /\ breach' = IF once THEN [breach EXCEPT ![k][tick.row.by] = @ + 1] ELSE breach
      BY <1>9, <2>5 DEF Notices!TellAssigner, Notices!Tell
    <3>2. \A p \in Person : breach[k][p] <= 1 + noticesFaults /\ (p # tick.row.to => breach[k][p] <= noticesFaults)
      BY <1>2, <2>2, <3>1 DEF Above
    <3>3. ASSUME NEW p \in Person
          PROVE  breach'[k][p] = IF p = tick.row.by /\ once THEN breach[k][p] + 1 ELSE breach[k][p]
      BY <1>2, <2>1, <3>1 DEF Counts
    <3>4. \A p \in Person : breach'[k][p] <= Above(p)'
      BY <1>1, <1>2, <1>3, <2>2, <3>1, <3>2, <3>3 DEF Above
    <3>5. /\ tick.row.to \in Reachable => breach'[k][tick.row.to] > 0
          /\ tick.row.by \in Reachable => breach'[k][tick.row.by] > 0
      BY <1>2, <2>2, <2>3, <3>1, <3>3
    <3>6. Holds(k)'
      BY <1>1, <1>3, <2>3, <3>1, <3>4, <3>5 DEF Holds
    <3>8. Stands(k)'
      BY <2>3, <1>1, <1>2, InHands DEF Stands
    <3> QED
      BY <1>1, <1>9, <2>1, <2>3, <3>6, <3>8, InHands DEF Quiet, Marks, AtRest, Waits, Edits
  <2> QED
    BY <2>4, <2>5
<1> QED
  BY <1>5, <1>6, <1>7, <1>8, <1>9 DEF NoticesIInv

LEMMA MarkNotices ==
  ASSUME Notices!NoticesAssumption, NoticesIInv, Notices!Mark
  PROVE  NoticesIInv'
<1>0. PICK n : n = tick.task
  OBVIOUS
<1>1. /\ UNCHANGED <<pending, Notices!people, todo, calls, changes, noticesFaults, missed, admin, handed, raced, noticesOverlapped>>
      /\ tick.at = "mark" /\ tick' = [Notices!Idle EXCEPT !.at = "rows"] /\ noticesRow' = [noticesRow EXCEPT ![n].reminded = TRUE]
  BY <1>0 DEF Notices!Mark, Notices!NextRow, Notices!ghosts
<1>2. /\ n \in Task /\ tick.row \in RowT /\ tick.row.deadline = "passed" /\ tick.row.state = "open" /\ \A x \in todo : x.task # n
      /\ noticesRow \in [Task -> RowT] /\ breach \in [Task -> Counts] /\ noticesFaults \in Nat
  BY <1>0, <1>1, InHands
<1>3. tick'.at = "rows" /\ tick'.task = Nobody /\ tick' \in HandT
  BY <1>1, Blank DEF Notices!Idle, HandT
<1>4. /\ noticesRow' \in [Task -> RowT] /\ \A k \in Task : k # n => noticesRow'[k] = noticesRow[k]
      /\ noticesRow'[n].state = noticesRow[n].state /\ noticesRow'[n].to = noticesRow[n].to /\ noticesRow'[n].by = noticesRow[n].by
      /\ noticesRow'[n].routing = noticesRow[n].routing /\ noticesRow'[n].deadline = noticesRow[n].deadline /\ noticesRow'[n].reminded = TRUE
  <2> DEFINE R == [noticesRow[n] EXCEPT !.reminded = TRUE]
  <2>1. /\ R \in RowT /\ R.state = noticesRow[n].state /\ R.to = noticesRow[n].to /\ R.by = noticesRow[n].by
        /\ R.routing = noticesRow[n].routing /\ R.deadline = noticesRow[n].deadline /\ R.reminded = TRUE
    BY <1>2, FlagIs DEF RowT
  <2>2. noticesRow' = [noticesRow EXCEPT ![n] = R]
    BY <1>1, <1>2
  <2> HIDE DEF R
  <2> QED
    BY <1>2, <2>1, <2>2
<1>5. NoticeTypes'
  BY <1>1, <1>3, <1>4 DEF NoticesIInv, NoticeTypes, Notices!people
<1>6. Hands' /\ Begun' /\ Addressed'
  <2>1. Hands'
    BY <1>1, <1>3 DEF NoticesIInv, Hands
  <2>2. \A k \in Task : noticesRow'[k].state = noticesRow[k].state /\ noticesRow'[k].to = noticesRow[k].to
    BY <1>4
  <2>3. Addressed'
    BY <1>1, <2>2, StaysAddressed DEF NoticesIInv
  <2> QED
    BY <1>1, <2>1, <2>3 DEF NoticesIInv, Begun
<1>7. ASSUME NEW k \in Task \ (missed' \union admin' \union raced') PROVE Told(k)'
  <2>1. Told(k) /\ pending' = pending /\ knows' = knows
    BY <1>1 DEF NoticesIInv, Notices!people
  <2>2. noticesRow'[k].state = noticesRow[k].state /\ noticesRow'[k].to = noticesRow[k].to /\ noticesRow'[k].routing = noticesRow[k].routing
    BY <1>4
  <2> QED
    BY <2>1, <2>2 DEF Told, Notices!Announcement
<1>8. n # Nobody
  BY <1>2 DEF Notices!NoticesAssumption
<1>9. ASSUME NEW k \in Task \ noticesOverlapped', k # n PROVE Quiet(k)'
  <2>1. k # tick'.task /\ noticesFaults' \in Nat /\ noticesFaults' >= noticesFaults /\ breach'[k] = breach[k]
    BY <1>1, <1>2, <1>3 DEF Notices!NoticesAssumption, Notices!people
  <2> QED
    BY <1>0, <1>1, <1>4, <1>9, <2>1, CronQuiet
<1>10. ASSUME n \notin noticesOverlapped' PROVE Quiet(n)'
  <2>1. Quiet(n) /\ breach' = breach /\ noticesFaults' = noticesFaults /\ calls' = calls /\ todo' = todo /\ n \in Notices!InHand
    BY <1>0, <1>1, <1>2, <1>10 DEF NoticesIInv, Notices!people, Notices!InHand
  <2>2. /\ tick.row = noticesRow[n] /\ \A p \in Person : breach[n][p] <= 1 + noticesFaults
        /\ noticesRow[n].to \in Reachable => breach[n][noticesRow[n].to] > 0
        /\ noticesRow[n].by \in Reachable => breach[n][noticesRow[n].by] > 0
    BY <1>0, <1>1, <2>1 DEF Quiet, Holds, Above
  <2>3. Marks(n)' /\ Stands(n)'
    BY <1>2, <1>4, <2>1, <2>2 DEF Quiet, Marks, Stands
  <2>4. AtRest(n)'
    BY <1>4, <2>1, <2>2 DEF AtRest
  <2>5. Waits(n)' /\ Holds(n)' /\ Edits(n)'
    BY <1>1, <1>2, <1>3, <1>8, <2>1 DEF Waits, Holds, Edits, Quiet
  <2> QED
    BY <2>3, <2>4, <2>5 DEF Quiet
<1> QED
  BY <1>5, <1>6, <1>7, <1>9, <1>10 DEF NoticesIInv

LEMMA RowFailsNotices ==
  ASSUME Notices!NoticesAssumption, NoticesIInv, Notices!RowFails
  PROVE  NoticesIInv'
<1>0. PICK n : n = tick.task
  OBVIOUS
<1>1. /\ UNCHANGED <<noticesRow, pending, Notices!people, todo, calls, changes, missed, admin, handed, raced, noticesOverlapped>>
      /\ tick.at \notin {"idle", "rows"} /\ tick' = [Notices!Idle EXCEPT !.at = "rows"]
      /\ noticesFaults < MaxFaults /\ noticesFaults' = noticesFaults + 1
  BY DEF Notices!RowFails, Notices!NextRow, Notices!Fault, Notices!ghosts
<1>2. /\ n \in Task /\ \A x \in todo : x.task # n
      /\ breach \in [Task -> Counts] /\ noticesFaults \in Nat /\ MaxFaults \in Nat
  BY <1>0, <1>1, InHands DEF Notices!NoticesAssumption
<1>3. tick'.at = "rows" /\ tick'.task = Nobody /\ tick' \in HandT
  BY <1>1, Blank DEF Notices!Idle, HandT
<1>4. NoticeTypes'
  <2>1. noticesFaults' \in 0..MaxFaults
    BY <1>1, <1>2
  <2> QED
    BY <1>1, <1>3, <2>1 DEF NoticesIInv, NoticeTypes, Notices!people
<1>5. Hands' /\ Begun' /\ Addressed'
  <2>1. Hands'
    BY <1>1, <1>3 DEF NoticesIInv, Hands
  <2> QED
    BY <1>1, <2>1 DEF NoticesIInv, Begun, Addressed
<1>6. ASSUME NEW k \in Task \ (missed' \union admin' \union raced') PROVE Told(k)'
  BY <1>1 DEF NoticesIInv, Told, Notices!Announcement, Notices!people
<1>7. n # Nobody
  BY <1>2 DEF Notices!NoticesAssumption
<1>8. ASSUME NEW k \in Task \ noticesOverlapped', k # n PROVE Quiet(k)'
  <2>1. k # tick'.task /\ noticesFaults' \in Nat /\ noticesFaults' >= noticesFaults /\ breach'[k] = breach[k] /\ noticesRow'[k] = noticesRow[k]
    BY <1>1, <1>2, <1>3 DEF Notices!NoticesAssumption, Notices!people
  <2> QED
    BY <1>0, <1>1, <1>8, <2>1, CronQuiet
<1>9. ASSUME n \notin noticesOverlapped' PROVE Quiet(n)'
  <2>1. Quiet(n) /\ noticesRow' = noticesRow /\ breach' = breach /\ calls' = calls /\ todo' = todo /\ n \in Notices!InHand
    BY <1>0, <1>1, <1>2, <1>9 DEF NoticesIInv, Notices!people, Notices!InHand
  <2>2. \A p \in Person : breach[n][p] \in Nat /\ breach[n][p] <= 1 + noticesFaults
    BY <1>0, <1>2, <2>1 DEF Quiet, Holds, Above, Counts
  <2>3. Marks(n)' /\ Stands(n)'
    BY <1>1, <2>1 DEF Quiet, Marks, Stands
  <2>4. AtRest(n)'
    BY <1>1, <1>2, <2>1, <2>2 DEF AtRest
  <2>5. Waits(n)' /\ Holds(n)' /\ Edits(n)'
    BY <1>1, <1>2, <1>3, <1>7, <2>1 DEF Waits, Holds, Edits, Quiet
  <2> QED
    BY <2>3, <2>4, <2>5 DEF Quiet
<1> QED
  BY <1>4, <1>5, <1>6, <1>8, <1>9 DEF NoticesIInv

LEMMA TickEndsNotices ==
  ASSUME Notices!NoticesAssumption, NoticesIInv, Notices!TickEnds
  PROVE  NoticesIInv'
<1>1. /\ UNCHANGED <<noticesRow, pending, Notices!people, todo, calls, changes, noticesFaults, missed, admin, handed, raced, noticesOverlapped>>
      /\ tick.at = "rows" /\ tick' = Notices!Idle /\ todo = {}
  BY DEF Notices!TickEnds, Notices!ghosts
<1>2. tick'.at = "idle" /\ tick'.task = Nobody /\ tick' \in HandT /\ tick.task = Nobody
  BY <1>1, Blank DEF Notices!Idle, NoticesIInv, Hands
<1>3. NoticeTypes' /\ Hands' /\ Begun' /\ Addressed'
  <2>1. NoticeTypes'
    BY <1>1, <1>2 DEF NoticesIInv, NoticeTypes, Notices!people
  <2>2. Hands'
    BY <1>1, <1>2 DEF NoticesIInv, Hands
  <2> QED
    BY <1>1, <2>1, <2>2 DEF NoticesIInv, Begun, Addressed
<1>4. ASSUME NEW k \in Task \ (missed' \union admin' \union raced') PROVE Told(k)'
  BY <1>1 DEF NoticesIInv, Told, Notices!Announcement, Notices!people
<1>5. ASSUME NEW k \in Task \ noticesOverlapped' PROVE Quiet(k)'
  <2>1. /\ k # tick'.task /\ k # tick.task /\ noticesFaults' \in Nat /\ noticesFaults' >= noticesFaults
        /\ breach'[k] = breach[k] /\ noticesRow'[k] = noticesRow[k]
    BY <1>1, <1>2 DEF Notices!NoticesAssumption, Notices!people, NoticesIInv, NoticeTypes
  <2> QED
    BY <1>1, <2>1, CronQuiet
<1> QED
  BY <1>3, <1>4, <1>5 DEF NoticesIInv

LEMMA RestartNotices ==
  ASSUME Notices!NoticesAssumption, NoticesIInv, Notices!Restart
  PROVE  NoticesIInv'
<1>1. /\ UNCHANGED <<noticesRow, Notices!people, changes, admin, handed, raced, noticesOverlapped>>
      /\ tick' = Notices!Idle /\ todo' = {} /\ calls' = [c \in Notices!Call |-> Notices!NoCall] /\ pending' = {}
      /\ missed' = missed \union {x.task : x \in {y \in pending : Notices!IsForAssignee(y)}}
      /\ noticesFaults < MaxFaults /\ noticesFaults' = noticesFaults + 1 /\ MaxFaults \in Nat /\ noticesFaults \in Nat
  BY DEF Notices!Restart, Notices!Fault, NoticesIInv, NoticeTypes, Notices!NoticesAssumption, Notices!ghosts
<1>2. /\ tick'.at = "idle" /\ tick'.task = Nobody /\ tick' \in HandT /\ calls' \in [Notices!Call -> CallT]
      /\ \A c \in Notices!Call : calls'[c].from = "nowhere"
  BY <1>1, Blank DEF Notices!Idle, Notices!NoCall
<1>3. NoticeTypes' /\ Hands' /\ Begun' /\ Addressed'
  <2>1. missed' \subseteq Task /\ noticesFaults' \in 0..MaxFaults
    BY <1>1 DEF NoticesIInv, NoticeTypes, Message
  <2>2. NoticeTypes'
    BY <1>1, <1>2, <2>1 DEF NoticesIInv, NoticeTypes, Notices!people
  <2>3. Hands' /\ Begun' /\ Addressed'
    BY <1>1, <1>2 DEF NoticesIInv, Hands, Begun, Sound, Addressed
  <2> QED
    BY <2>2, <2>3
<1>4. ASSUME NEW k \in Task \ (missed' \union admin' \union raced') PROVE Told(k)'
  <2> DEFINE y == [kind |-> Notices!Announcement(noticesRow[k]), task |-> k]
  <2>1. Told(k) /\ y \notin pending
    <3>1. y.task = k /\ Notices!IsForAssignee(y)
      BY DEF Notices!IsForAssignee, Notices!Announcement
    <3> QED
      BY <1>1, <3>1 DEF NoticesIInv
  <2> QED
    BY <1>1, <2>1 DEF Told, Notices!people
<1>5. ASSUME NEW k \in Task \ noticesOverlapped' PROVE Quiet(k)'
  <2>1. /\ Quiet(k) /\ noticesRow' = noticesRow /\ breach' = breach /\ k # Nobody /\ k \in Task \ noticesOverlapped
    BY <1>1 DEF NoticesIInv, Notices!people, Notices!NoticesAssumption
  <2>2. \A p \in Person : breach[k][p] \in Nat /\ breach[k][p] <= 1 + noticesFaults
    <3>1. \A p \in Person : breach[k][p] \in Nat
      BY <2>1 DEF NoticesIInv, NoticeTypes, Counts
    <3> QED
      BY <2>1, <3>1, NoticesHold DEF Notices!ToldOnce
  <2>3. Marks(k)' /\ Stands(k)'
    BY <1>1, <2>1 DEF Quiet, Marks, Stands
  <2>4. AtRest(k)'
    BY <1>1, <2>1, <2>2 DEF AtRest
  <2>5. Waits(k)' /\ Holds(k)' /\ Edits(k)'
    BY <1>1, <1>2, <2>1 DEF Waits, Holds, Edits
  <2> QED
    BY <2>3, <2>4, <2>5 DEF Quiet
<1> QED
  BY <1>3, <1>4, <1>5 DEF NoticesIInv

LEMMA NextNotices == Notices!NoticesAssumption /\ NoticesIInv /\ [Notices!Next]_(Notices!vars) => NoticesIInv'
<1> SUFFICES ASSUME Notices!NoticesAssumption, NoticesIInv, [Notices!Next]_(Notices!vars) PROVE NoticesIInv'
  OBVIOUS
<1>1. CASE UNCHANGED Notices!vars
  <2>1. UNCHANGED <<noticesRow, pending, knows, breach, tick, todo, calls, changes, noticesFaults, missed, admin, handed, raced, noticesOverlapped>>
    BY <1>1 DEF Notices!vars, Notices!people, Notices!ghosts
  <2>2. NoticeTypes' /\ Hands' /\ Begun' /\ Addressed'
    BY <2>1 DEF NoticesIInv, NoticeTypes, Hands, Begun, Addressed
  <2>3. ASSUME NEW k \in Task \ (missed' \union admin' \union raced') PROVE Told(k)'
    BY <2>1 DEF NoticesIInv, Told, Notices!Announcement
  <2>4. ASSUME NEW k \in Task \ noticesOverlapped' PROVE Quiet(k)'
    <3>1. noticesFaults' \in Nat /\ noticesFaults' >= noticesFaults
      BY <2>1 DEF NoticesIInv, NoticeTypes, Notices!NoticesAssumption
    <3> QED
      BY <2>1, <3>1, TouchesQuiet
  <2> QED
    BY <2>2, <2>3, <2>4 DEF NoticesIInv
<1>2. CASE \E by \in Person, m \in Notices!Mention, d \in {"none", "ahead"} : Notices!Assign(by, m, d)
  BY <1>2, AssignNotices
<1>3. CASE \E c \in Notices!Call, n \in Task : Notices!Answer(c, n) \/ Notices!Complete(c, n) \/ Notices!Edit(c, n)
  BY <1>3, AnswerNotices, CompleteNotices, EditNotices
<1>4. CASE \E c \in Notices!Call : Notices!WriteAnswer(c, calls[c]) \/ Notices!WriteEdit(c, calls[c])
  BY <1>4, WriteAnswerNotices, WriteEditNotices
<1>5. CASE \E x \in pending : Notices!Announce(x)
  BY <1>5, AnnounceNotices
<1>6. CASE \E n \in Task : Notices!DeadlinePasses(n)
  BY <1>6, PassesNotices
<1>7. CASE Notices!Tick
  BY <1>7, TickNotices
<1>8. CASE Notices!TickSteps
  BY <1>8, TakeRowNotices, TellNotices, MarkNotices, RowFailsNotices, TickEndsNotices DEF Notices!TickSteps
<1>9. CASE Notices!Restart
  BY <1>9, RestartNotices
<1> QED
  BY <1>1, <1>2, <1>3, <1>4, <1>5, <1>6, <1>7, <1>8, <1>9 DEF Notices!Next

-----------------------------------------------------------------------------
(* The migrations (Migrations). *)
(* A process that works on a file is not one that only tries, and the files
   before it are recorded. *)
Reached(p) ==
    /\ proc[p].at \in {"check", "run", "record"} => proc[p].file >= 1
    /\ proc[p].at \in {"run", "record"} => proc[p].file \in Gate!Files(p) /\ ~dry[p]
    /\ proc[p].at = "record" => proc[p].file \in applied
    /\ proc[p].at \in {"check", "run", "record"} /\ ~dry[p] => 1..(proc[p].file - 1) \subseteq recorded
    /\ proc[p].at = "up" /\ ~dry[p] => Gate!Files(p) \subseteq recorded

GateIInv ==
    /\ Gate!TypeOK
    /\ proc \in [Gate!Process -> [at : {"stopped", "status", "check", "run", "record", "up"}, file : Nat, fresh : BOOLEAN]]
    /\ recorded \subseteq applied
    /\ \A p \in Gate!Process : Reached(p)
    /\ \A f \in applied \ byHand : 1..(f - 1) \subseteq applied

LEMMA GateHolds == GateIInv => Gate!TypeOK /\ Gate!ServesOnWholeSchema
  BY DEF GateIInv, Gate!ServesOnWholeSchema, Reached, Gate!Process

LEMMA FilesAre ==
  Gate!MigrationsAssumption => \A p \in Gate!Process : Image[p] \in Nat /\ Gate!Files(p) = 1..Image[p] /\ Gate!Files(p) \subseteq Gate!AllFiles
  BY DEF Gate!MigrationsAssumption, Gate!Files, Gate!AllFiles

LEMMA InitGate == Gate!MigrationsAssumption /\ Gate!Init => GateIInv
<1> SUFFICES ASSUME Gate!MigrationsAssumption, Gate!Init PROVE GateIInv
  OBVIOUS
<1>1. \A p \in Gate!Process : proc[p] = Gate!Stopped
  BY DEF Gate!Init
<1>2. auto \in [Gate!Process -> BOOLEAN] /\ dry \in [Gate!Process -> BOOLEAN]
  BY DEF Gate!Init
<1>3. \A p \in Gate!Process : proc[p].at = "stopped" /\ proc[p].file = 0 /\ proc[p].fresh = FALSE
  BY <1>1 DEF Gate!Stopped
<1>4. Gate!TypeOK
  <2>1. \A p \in Gate!Process : 0 \in 0..Image[p] + 1
    BY FilesAre
  <2>2. gateFaults \in 0..MaxGateFaults
    BY DEF Gate!Init, Gate!MigrationsAssumption
  <2> QED
    BY <1>2, <1>3, <2>1, <2>2 DEF Gate!Init, Gate!TypeOK
<1>5. \A p \in Gate!Process : Reached(p)
  BY <1>3 DEF Reached
<1>6. proc \in [Gate!Process -> [at : {"stopped", "status", "check", "run", "record", "up"}, file : Nat, fresh : BOOLEAN]]
  BY DEF Gate!Init, Gate!Stopped
<1> QED
  BY <1>4, <1>5, <1>6 DEF GateIInv, Gate!Init

(* One process moves to another place. *)
LEMMA GoesGate ==
  ASSUME Gate!MigrationsAssumption, GateIInv, NEW p \in Gate!Process,
         NEW s \in [at : {"stopped", "status", "check", "run", "record", "up"}, file : Nat, fresh : BOOLEAN],
         Gate!Goes(p, s), s.file <= Image[p] + 1, UNCHANGED <<auto, dry>>,
         applied \subseteq applied', applied' \subseteq Gate!AllFiles,
         recorded \subseteq recorded', recorded' \subseteq applied',
         byHand' = byHand, jobs' \subseteq Job, gateFaults' \in 0..MaxGateFaults,
         \A f \in applied' \ byHand : 1..(f - 1) \subseteq applied',
         s.at \in {"check", "run", "record"} => s.file >= 1,
         s.at \in {"run", "record"} => s.file \in Gate!Files(p) /\ ~dry[p],
         s.at = "record" => s.file \in applied',
         s.at \in {"check", "run", "record"} /\ ~dry[p] => 1..(s.file - 1) \subseteq recorded',
         s.at = "up" /\ ~dry[p] => Gate!Files(p) \subseteq recorded'
  PROVE  GateIInv'
<1>1. proc' = [proc EXCEPT ![p] = s] /\ Image[p] \in Nat
  BY FilesAre DEF Gate!Goes
<1>2. proc' \in [Gate!Process -> [at : {"stopped", "status", "check", "run", "record", "up"}, file : Nat, fresh : BOOLEAN]]
  BY <1>1 DEF GateIInv
<1>3. proc'[p] = s /\ \A q \in Gate!Process \ {p} : proc'[q] = proc[q]
  BY <1>1 DEF GateIInv
<1>4. ASSUME NEW q \in Gate!Process PROVE Reached(q)'
  <2>1. Reached(q) /\ Gate!Files(q)' = Gate!Files(q)
    BY DEF GateIInv, Gate!Files
  <2>2. CASE q = p
    BY <1>3, <2>1, <2>2 DEF Reached
  <2>3. CASE q # p
    <3>1. proc'[q] = proc[q]
      BY <1>3, <2>3
    <3> QED
      BY <2>1, <3>1 DEF Reached
  <2> QED
    BY <2>2, <2>3
<1>5. Gate!TypeOK'
  <2>1. ASSUME NEW q \in Gate!Process
        PROVE  /\ proc'[q].at \in {"stopped", "status", "check", "run", "record", "up"}
               /\ proc'[q].file \in 0..Image[q] + 1 /\ proc'[q].fresh \in BOOLEAN
    <3>1. CASE q = p
      BY <1>1, <1>3, <3>1
    <3>2. CASE q # p
      BY <1>3, <3>2 DEF GateIInv, Gate!TypeOK
    <3> QED
      BY <3>1, <3>2
  <2> QED
    BY <2>1 DEF Gate!TypeOK, GateIInv
<1> QED
  BY <1>2, <1>4, <1>5 DEF GateIInv

LEMMA NextGate == Gate!MigrationsAssumption /\ GateIInv /\ [Gate!Next]_(Gate!migrationVars) => GateIInv'
<1> SUFFICES ASSUME Gate!MigrationsAssumption, GateIInv, [Gate!Next]_(Gate!migrationVars) PROVE GateIInv'
  OBVIOUS
<1> DEFINE Place == [at : {"stopped", "status", "check", "run", "record", "up"}, file : Nat, fresh : BOOLEAN]
<1>1. /\ applied \subseteq Gate!AllFiles /\ recorded \subseteq applied /\ jobs \subseteq Job /\ gateFaults \in 0..MaxGateFaults
      /\ MaxGateFaults \in Nat /\ \A f \in applied \ byHand : 1..(f - 1) \subseteq applied
  BY DEF GateIInv, Gate!TypeOK, Gate!MigrationsAssumption
<1>2. \A p \in Gate!Process : /\ proc[p] \in Place /\ Reached(p) /\ Image[p] \in Nat /\ Gate!Files(p) = 1..Image[p]
                         /\ Gate!Files(p) \subseteq Gate!AllFiles /\ proc[p].file \in 0..Image[p] + 1
  BY FilesAre DEF GateIInv, Gate!TypeOK
<1>3. /\ Gate!Stopped \in Place /\ Gate!Stopped.at = "stopped" /\ Gate!Stopped.file = 0
      /\ \A k \in {"status", "up"} : /\ [Gate!Stopped EXCEPT !.at = k] \in Place
                                     /\ [Gate!Stopped EXCEPT !.at = k].at = k /\ [Gate!Stopped EXCEPT !.at = k].file = 0
  BY DEF Gate!Stopped
<1>4. \A f \in Nat : Gate!AtFile(f) \in Place /\ Gate!AtFile(f).at = "check" /\ Gate!AtFile(f).file = f
  BY DEF Gate!AtFile
<1>5. ASSUME NEW p \in Gate!Process, Gate!Goes(p, Gate!Stopped), UNCHANGED <<applied, recorded, auto, dry, byHand, jobs>>,
             gateFaults' \in 0..MaxGateFaults
      PROVE  GateIInv'
  BY <1>1, <1>2, <1>3, <1>5, GoesGate
<1>6. ASSUME NEW p \in Gate!Process, NEW f \in Nat, f >= 1, f <= Image[p] + 1, ~dry[p] => 1..(f - 1) \subseteq recorded',
             Gate!Goes(p, Gate!AtFile(f)), UNCHANGED <<applied, auto, dry, byHand, gateFaults>>,
             jobs' \subseteq Job, recorded \subseteq recorded', recorded' \subseteq applied
      PROVE  GateIInv'
  BY <1>1, <1>2, <1>4, <1>6, GoesGate
<1>7. ASSUME NEW p \in Gate!Process, Gate!Start(p) PROVE GateIInv'
  <2>1. CASE p \in Server
    <3> DEFINE S == [Gate!Stopped EXCEPT !.at = "status"]
    <3>1. Gate!Goes(p, S) /\ UNCHANGED <<applied, recorded, auto, dry, byHand, gateFaults, jobs>>
      BY <1>7, <2>1 DEF Gate!Start
    <3>2. S \in Place /\ S.at = "status" /\ S.file = 0
      BY <1>3
    <3> HIDE DEF S
    <3> QED
      BY <1>1, <1>2, <3>1, <3>2, GoesGate
  <2>2. CASE p \notin Server
    <3>1. /\ Gate!Goes(p, Gate!AtFile(1)) /\ UNCHANGED <<applied, recorded, auto, dry, byHand, gateFaults>>
          /\ jobs' \subseteq Job /\ 1..(1 - 1) = {} /\ 1 <= Image[p] + 1
      BY <1>1, <1>2, <1>7, <2>2 DEF Gate!Start, Gate!Process
    <3> QED
      BY <1>1, <1>6, <3>1
  <2> QED
    BY <2>1, <2>2
<1>8. ASSUME NEW p \in Gate!Process, Gate!ReadStatus(p) PROVE GateIInv'
  <2>1. UNCHANGED <<applied, recorded, auto, dry, byHand, jobs, gateFaults>>
    BY <1>8 DEF Gate!ReadStatus
  <2>2. CASE Gate!Files(p) \subseteq recorded
    <3> DEFINE S == [Gate!Stopped EXCEPT !.at = "up"]
    <3>1. Gate!Goes(p, S)
      BY <1>8, <2>2 DEF Gate!ReadStatus
    <3>2. S \in Place /\ S.at = "up" /\ S.file = 0
      BY <1>3
    <3> HIDE DEF S
    <3> QED
      BY <1>1, <1>2, <2>1, <2>2, <3>1, <3>2, GoesGate
  <2>3. CASE ~(Gate!Files(p) \subseteq recorded) /\ auto[p]
    <3>1. Gate!Goes(p, Gate!AtFile(1)) /\ 1..(1 - 1) = {} /\ 1 <= Image[p] + 1
      BY <1>2, <1>8, <2>3 DEF Gate!ReadStatus
    <3> QED
      BY <1>1, <1>6, <2>1, <3>1
  <2>4. CASE ~(Gate!Files(p) \subseteq recorded) /\ ~auto[p]
    <3>1. Gate!Goes(p, Gate!Stopped)
      BY <1>8, <2>4 DEF Gate!ReadStatus
    <3> QED
      BY <1>1, <1>5, <2>1, <3>1
  <2> QED
    BY <2>2, <2>3, <2>4
<1>9. ASSUME NEW p \in Gate!Process, Gate!Check(p) PROVE GateIInv'
  <2> DEFINE f == proc[p].file
  <2>1. /\ UNCHANGED <<applied, recorded, auto, dry, byHand, jobs, gateFaults>> /\ proc[p].at = "check"
        /\ f \in Nat /\ f >= 1 /\ f <= Image[p] + 1 /\ (~dry[p] => 1..(f - 1) \subseteq recorded)
    BY <1>2, <1>9 DEF Gate!Check, Reached
  <2>2. CASE f \notin Gate!Files(p)
    <3>1. 1..(f - 1) = Gate!Files(p)
      BY <1>2, <2>1, <2>2
    <3>2. CASE p \in Server
      <4> DEFINE S == [Gate!Stopped EXCEPT !.at = "up"]
      <4>1. Gate!Goes(p, S)
        BY <1>9, <2>2, <3>2 DEF Gate!Check
      <4>2. S \in Place /\ S.at = "up" /\ S.file = 0
        BY <1>3
      <4> HIDE DEF S, f
      <4> QED
        BY <1>1, <1>2, <2>1, <3>1, <4>1, <4>2, GoesGate
    <3>3. CASE p \notin Server
      <4>1. Gate!Goes(p, Gate!Stopped)
        BY <1>9, <2>2, <3>3 DEF Gate!Check
      <4> QED
        BY <1>1, <1>5, <2>1, <4>1
    <3> QED
      BY <3>2, <3>3
  <2>3. CASE f \in Gate!Files(p) /\ (f \in recorded \/ dry[p])
    <3>1. Gate!Goes(p, Gate!AtFile(f + 1))
      BY <1>9, <2>3 DEF Gate!Check
    <3>2. f + 1 \in Nat /\ f + 1 >= 1 /\ f + 1 <= Image[p] + 1 /\ (~dry[p] => 1..((f + 1) - 1) \subseteq recorded)
      <4>1. 1..((f + 1) - 1) = 1..(f - 1) \union {f}
        BY <2>1
      <4>2. f + 1 <= Image[p] + 1
        BY <1>2, <2>1, <2>3
      <4> QED
        BY <2>1, <2>3, <4>1, <4>2
    <3> QED
      BY <1>1, <1>6, <2>1, <3>1, <3>2
  <2>4. CASE f \in Gate!Files(p) /\ f \notin recorded /\ ~dry[p]
    <3> DEFINE S == [at |-> "run", file |-> f, fresh |-> f \notin applied]
    <3>1. Gate!Goes(p, S)
      BY <1>9, <2>4 DEF Gate!Check
    <3>2. S \in Place /\ S.at = "run" /\ S.file = f
      BY <2>1
    <3> HIDE DEF S
    <3> QED
      BY <1>1, <1>2, <2>1, <2>4, <3>1, <3>2, GoesGate
  <2> QED
    BY <2>2, <2>3, <2>4
<1>10. ASSUME NEW p \in Gate!Process, Gate!Apply(p) PROVE GateIInv'
  <2> DEFINE f == proc[p].file
             S == [proc[p] EXCEPT !.at = "record"]
  <2>1. /\ UNCHANGED <<recorded, auto, dry, byHand, jobs, gateFaults>> /\ applied' = applied \union {f} /\ Gate!Goes(p, S)
        /\ f \in Gate!Files(p) /\ ~dry[p] /\ f >= 1 /\ f \in Nat /\ f <= Image[p] + 1 /\ 1..(f - 1) \subseteq recorded
    BY <1>2, <1>10 DEF Gate!Apply, Reached
  <2>2. S \in Place /\ S.at = "record" /\ S.file = f
    BY <1>2
  <2>3. \A g \in applied' \ byHand : 1..(g - 1) \subseteq applied'
    BY <1>1, <2>1
  <2> HIDE DEF S, f
  <2> QED
    BY <1>1, <1>2, <2>1, <2>2, <2>3, GoesGate
<1>11. ASSUME NEW p \in Gate!Process, Gate!Collide(p) PROVE GateIInv'
  BY <1>1, <1>5, <1>11 DEF Gate!Collide, Gate!AfterFailure
<1>12. ASSUME NEW p \in Gate!Process, Gate!FileFails(p) \/ Gate!Die(p) PROVE GateIInv'
  BY <1>1, <1>5, <1>12 DEF Gate!FileFails, Gate!Die, Gate!AfterFailure
<1>13. ASSUME NEW p \in Gate!Process, Gate!Record(p) PROVE GateIInv'
  <2> DEFINE f == proc[p].file
  <2>1. /\ UNCHANGED <<applied, auto, dry, byHand, jobs, gateFaults>> /\ recorded' = recorded \union {f}
        /\ f \in Gate!Files(p) /\ f \in applied /\ ~dry[p] /\ f >= 1 /\ f \in Nat /\ 1..(f - 1) \subseteq recorded
    BY <1>2, <1>13 DEF Gate!Record, Reached
  <2>2. CASE f \in recorded
    <3>1. Gate!Goes(p, Gate!Stopped) /\ recorded' = recorded
      BY <1>13, <2>1, <2>2 DEF Gate!Record, Gate!AfterFailure
    <3> QED
      BY <1>1, <1>5, <2>1, <3>1
  <2>3. CASE f \notin recorded
    <3>1. Gate!Goes(p, Gate!AtFile(f + 1))
      BY <1>13, <2>3 DEF Gate!Record
    <3>2. f + 1 \in Nat /\ f + 1 >= 1 /\ f + 1 <= Image[p] + 1 /\ 1..((f + 1) - 1) \subseteq recorded'
      <4>1. 1..((f + 1) - 1) = 1..(f - 1) \union {f}
        BY <2>1
      <4>2. f + 1 <= Image[p] + 1
        BY <1>2, <2>1
      <4> QED
        BY <2>1, <4>1, <4>2
    <3> QED
      BY <1>1, <1>6, <2>1, <3>1, <3>2
  <2> QED
    BY <2>2, <2>3
<1>14. ASSUME NEW f \in Gate!AllFiles, Gate!RunOne(f) PROVE GateIInv'
  <2>1. /\ byHand' = byHand \union {f} /\ applied' = applied \union {f}
        /\ UNCHANGED <<recorded, proc, auto, dry, jobs, gateFaults>>
    BY <1>14 DEF Gate!RunOne
  <2>2. \A p \in Gate!Process : Reached(p)'
    BY <2>1 DEF GateIInv, Reached, Gate!Files
  <2>3. \A g \in applied' \ byHand' : 1..(g - 1) \subseteq applied'
    BY <1>1, <2>1
  <2>4. Gate!TypeOK'
    BY <2>1, <1>14 DEF GateIInv, Gate!TypeOK
  <2> QED
    BY <1>1, <2>1, <2>2, <2>3, <2>4 DEF GateIInv
<1>15. CASE UNCHANGED Gate!migrationVars
  BY <1>15 DEF Gate!migrationVars, GateIInv, Gate!TypeOK, Reached, Gate!Files
<1> QED
  BY <1>7, <1>8, <1>9, <1>10, <1>11, <1>12, <1>13, <1>14, <1>15 DEF Gate!Next, Gate!Step

-----------------------------------------------------------------------------
(* All of it: the part that moves keeps its invariant, the others rest. *)
PartsIInv ==
    /\ IInv
    /\ part = "interview" => InterviewIInv
    /\ part = "notices" => NoticesIInv
    /\ part = "gate" => GateIInv

LEMMA InitPartsIInv == PartsInit => PartsIInv
  BY InitIInv, InitInterview, InterviewAssumption, InitNotices, NoticesPartAssumption,
     InitGate, GateAssumption
  DEF PartsInit, PartsIInv

LEMMA PartsStep ==
  ASSUME [PartsNext]_parts
  PROVE  /\ part' = part
         /\ [Next]_vars
         /\ part = "interview" => [Interview!Next]_(Interview!discoveryVars)
         /\ part = "notices" => [Notices!Next]_(Notices!vars)
         /\ part = "gate" => [Gate!Next]_(Gate!migrationVars)
<1>1. CASE OutboxMoves(Next)
  BY <1>1 DEF OutboxMoves
<1>2. CASE InterviewMoves(Interview!Next)
  BY <1>2 DEF InterviewMoves
<1>3. CASE NoticesMoves(Notices!Next)
  BY <1>3 DEF NoticesMoves
<1>4. CASE GateMoves(Gate!Next)
  BY <1>4 DEF GateMoves
<1>5. CASE UNCHANGED parts
  BY <1>5 DEF parts, interviewState, noticesState, gateState,
      Interview!discoveryVars, Notices!vars, Notices!people, Notices!ghosts, Gate!migrationVars
<1> QED
  BY <1>1, <1>2, <1>3, <1>4, <1>5 DEF PartsNext

LEMMA NextPartsIInv == PartsIInv /\ [PartsNext]_parts => PartsIInv'
<1> SUFFICES ASSUME PartsIInv, [PartsNext]_parts PROVE PartsIInv'
  OBVIOUS
<1>1. IInv'
  BY PartsStep, NextIInv DEF PartsIInv
<1>2. ASSUME part = "interview" PROVE InterviewIInv'
  BY <1>2, PartsStep, NextInterview, InterviewAssumption DEF PartsIInv
<1>3. ASSUME part = "notices" PROVE NoticesIInv'
  BY <1>3, PartsStep, NextNotices, NoticesPartAssumption DEF PartsIInv
<1>4. ASSUME part = "gate" PROVE GateIInv'
  BY <1>4, PartsStep, NextGate, GateAssumption DEF PartsIInv
<1> QED
  BY <1>1, <1>2, <1>3, <1>4, PartsStep DEF PartsIInv

LEMMA PartsSpecIInv == PartsSpec => []PartsIInv
  BY InitPartsIInv, NextPartsIInv, PTL DEF PartsSpec

(* Types of all four: rows, copies, places and counters. *)
THEOREM BackgroundTypes == PartsSpec => []PartsTypeOK
<1>1. PartsIInv => PartsTypeOK
  BY InterviewStands, NoticesHold, GateHolds DEF PartsIInv, PartsTypeOK, IInv
<1> QED
  BY <1>1, PartsSpecIInv, PTL

(* AnswersStandWhereAsked: however many topics, messages, reminders and
   documents, an answer is under its own question or nowhere, and without an
   overlap none is lost (BusinessDiscoveryService). *)
THEOREM BackgroundAnswers == PartsSpec => []AnswersStandWhereAsked
<1>1. PartsIInv => AnswersStandWhereAsked
  BY InterviewStands DEF PartsIInv, AnswersStandWhereAsked
<1> QED
  BY <1>1, PartsSpecIInv, PTL

(* PeopleAreTold, for every instance, with answers, edits, ticks and restarts in
   any order: whoever has a task knows it, unless a message failed, the dashboard
   moved the task or a call answered for it after it had gone to somebody else;
   nobody hears twice of one missed deadline but for a failure or an edit under the
   cron; and a marked row stands for people who were told (TasksService,
   TaskDeadlineCronService). *)
THEOREM BackgroundTells == PartsSpec => []PeopleAreTold
<1>1. PartsIInv => PeopleAreTold
  BY NoticesHold DEF PartsIInv, PeopleAreTold
<1> QED
  BY <1>1, PartsSpecIInv, PTL

(* ServesOnWholeSchema: however many servers, jobs and people at the console
   migrate at once and die, a server that is up has its whole schema, and a file
   took effect after those before it (migration-runner.mjs). *)
THEOREM BackgroundServes == PartsSpec => []ServesOnWholeSchema
<1>1. PartsIInv => ServesOnWholeSchema
  BY GateHolds DEF PartsIInv, ServesOnWholeSchema
<1> QED
  BY <1>1, PartsSpecIInv, PTL

(* In the composition, too, no event is COMPLETED that was not handled, and no
   failure is counted that did not happen (DomainEventDispatcherService). *)
THEOREM BackgroundEvents == PartsSpec => [](CompletedWasHandled /\ AttemptsNotOvercounted)
<1>1. PartsIInv => CompletedWasHandled /\ AttemptsNotOvercounted
  BY DEF PartsIInv, IInv
<1> QED
  BY <1>1, PartsSpecIInv, PTL
==============================================================================
