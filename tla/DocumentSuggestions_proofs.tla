---------------------- MODULE DocumentSuggestions_proofs ----------------------
(***************************************************************************)
(* Proofs about documents and their suggestions, for any numbers of calls, *)
(* of suggestions and of transactions a suggestion takes, and any failures *)
(* and crashes: what is marked EXECUTED was applied in full, however calls *)
(* overlap; without overlaps what was decided is not taken up again, and,  *)
(* when nothing fails either, a queue that is through has nothing pending. *)
(***************************************************************************)
EXTENDS DocumentSuggestions, SequenceTheorems, FiniteSetTheorems, TLAPS

PC == {"idle", "registering", "parsing", "extracted", "generating", "queueing", "starting", "asking",
       "checking", "opening", "telling", "contributing", "leaving", "reading", "writing", "executing",
       "rejecting", "listing", "marking", "advancing", "persisting", "completing", "ending",
       "failing", "failed"}
Job == [kind : Kind, about : 0..MaxSuggestions, session : Nat]
Sight == [queue : Queue, verdict : {"none", "APPROVED", "REJECTED"}]

DataTypes ==
    /\ document \in DocumentStatus
    /\ extracted \in BOOLEAN
    /\ status \in Seq(SuggestionStatus) /\ Len(status) <= MaxSuggestions
    /\ written \in [Id -> Nat]
    /\ queue \in Queue
    /\ session \in [id : Nat, about : 0..MaxSuggestions]
    /\ opened \in Nat
CallTypes ==
    /\ pc \in [Call -> PC]
    /\ job \in [Call -> Job \union {NoJob}]
    /\ made \in [Call -> Seq(Id)]
    /\ seen \in [Call -> Sight]
BudgetTypes ==
    /\ calls \in 0..MaxCalls
    /\ lapses \in Nat /\ faults \in Nat /\ crashes \in Nat /\ stranded \in Nat
    /\ lapses + faults + crashes + stranded <= MaxMishaps
    /\ overlapped \in BOOLEAN

(* The ids that are kept anywhere are those of suggestions. *)
Known(ids) == \A n \in 1..Len(ids) : ids[n] <= Len(status)
Kept ==
    /\ Known(queue.ids)
    /\ session.about <= Len(status)
    /\ session # NoSession => session.about # 0

Deciding == {"reading", "writing", "executing", "rejecting", "listing", "marking", "advancing", "persisting"}

(* What a call knows: its suggestion, what it read of the queue, and, while it
   executes, that the suggestion has the writes it made. *)
CallOK(c) ==
    /\ job[c].about <= Len(status)
    /\ Known(made[c])
    /\ Known(seen[c].queue.ids)
    /\ pc[c] \in Deciding => job[c].kind \in {"yes", "no", "reject"} /\ job[c].about # 0
    /\ pc[c] \in {"advancing", "persisting"} => job[c].kind \in {"yes", "no"}
    /\ pc[c] \in {"queueing", "starting"} => job[c].kind = "process"
    /\ pc[c] \in {"asking", "checking", "opening"} => NextAbout(c) \in 1..Len(status)
    /\ pc[c] \in {"idle", "reading", "rejecting"} => made[c] = <<>>
    /\ pc[c] = "writing" => Len(made[c]) <= written[job[c].about]
    /\ pc[c] = "executing" => Writes <= written[job[c].about]
    /\ pc[c] = "failing" => job[c].kind # "yes"
    /\ pc[c] = "failed" /\ job[c].kind = "yes" => job[c].about # 0

(* Without overlaps one call is at work, and what it writes for is pending. *)
Alone ==
    ~overlapped =>
        /\ \A c, d \in Call : pc[c] # "idle" /\ pc[d] # "idle" => c = d
        /\ \A c \in Call : pc[c] = "writing" => status[job[c].about] = "PENDING"

IInv ==
    /\ DataTypes /\ CallTypes /\ BudgetTypes
    /\ Kept
    /\ \A c \in Call : CallOK(c)
    /\ ExecutedWasApplied
    /\ Alone

-----------------------------------------------------------------------------
LEMMA NothingTypes ==
  ASSUME SuggestionAssumption
  PROVE  /\ NoQueue \in Queue /\ NoQueue.ids = <<>>
         /\ Nothing \in Sight /\ Nothing.queue = NoQueue
         /\ NoSession \in [id : Nat, about : 0..MaxSuggestions] /\ NoSession.about = 0
         /\ NoJob.kind = "none" /\ NoJob.about = 0
<1>1. <<>> \in Seq(Id)
  BY EmptySeq
<1>2. NoQueue \in Queue /\ NoQueue.ids = <<>>
  BY <1>1 DEF NoQueue, Queue
<1>3. Nothing \in Sight /\ Nothing.queue = NoQueue
  BY <1>2 DEF Nothing, Sight
<1>4. NoSession \in [id : Nat, about : 0..MaxSuggestions] /\ NoSession.about = 0
  BY DEF NoSession, SuggestionAssumption
<1> QED
  BY <1>2, <1>3, <1>4 DEF NoJob

LEMMA InitIInv == SuggestionAssumption /\ Init => IInv
<1> SUFFICES ASSUME SuggestionAssumption, Init PROVE IInv
  OBVIOUS
<1> USE DEF Init
<1>1. status \in Seq(SuggestionStatus) /\ Len(status) = 0 /\ 0 <= MaxSuggestions
  BY EmptySeq DEF SuggestionAssumption
<1>2. \A c \in Call : made[c] \in Seq(Id) /\ made[c] = <<>> /\ Len(made[c]) = 0
  BY EmptySeq
<1>3. DataTypes
  BY <1>1, NothingTypes DEF DataTypes, DocumentStatus
<1>4. CallTypes
  <2>1. pc \in [Call -> PC] /\ job \in [Call -> Job \union {NoJob}]
    BY DEF PC
  <2>2. made \in [Call -> Seq(Id)] /\ seen \in [Call -> Sight]
    BY NothingTypes, EmptySeq
  <2> QED
    BY <2>1, <2>2 DEF CallTypes
<1>5. BudgetTypes
  <2>1. MaxCalls \in Nat /\ MaxMishaps \in Nat
    BY DEF SuggestionAssumption
  <2>2. calls \in 0..MaxCalls /\ lapses + faults + crashes + stranded <= MaxMishaps
    BY <2>1
  <2>3. overlapped \in BOOLEAN
    OBVIOUS
  <2> QED
    BY <2>2, <2>3 DEF BudgetTypes
<1>6. Kept
  BY <1>1, NothingTypes, EmptySeq DEF Kept, Known
<1>7. ASSUME NEW c \in Call PROVE CallOK(c)
  BY <1>1, <1>2, NothingTypes, EmptySeq DEF CallOK, Known, Deciding
<1>8. ExecutedWasApplied
  BY <1>1 DEF ExecutedWasApplied
<1>9. Alone
  BY DEF Alone
<1> QED
  BY <1>3, <1>4, <1>5, <1>6, <1>7, <1>8, <1>9 DEF IInv

(* A call that is not touched, while ids are added and writes made. *)
Grows ==
    /\ Len(status) <= Len(status')
    /\ \A s \in Id : written[s] <= written'[s]

LEMMA OtherCall ==
  ASSUME SuggestionAssumption, DataTypes, CallTypes, DataTypes', NEW d \in Call, CallOK(d), Grows,
         pc'[d] = pc[d], job'[d] = job[d], made'[d] = made[d], seen'[d] = seen[d]
  PROVE  CallOK(d)'
<1>1. Len(status) \in Nat /\ Len(status') \in Nat /\ Len(status) <= Len(status')
  BY LenProperties DEF DataTypes, Grows
<1>2. made[d] \in Seq(Id) /\ seen[d].queue.ids \in Seq(Id) /\ job[d].about \in 0..MaxSuggestions
  BY NothingTypes DEF CallTypes, Sight, Queue, Job, SuggestionAssumption
<1>3. ASSUME NEW ids \in Seq(Id), Known(ids) PROVE Known(ids)'
  <2>1. \A n \in 1..Len(ids) : ids[n] \in Nat
    <3>1. \A n \in 1..Len(ids) : ids[n] \in Id
      BY ElementOfSeq
    <3> QED
      BY <3>1 DEF Id
  <2> QED
    BY <1>1, <1>3, <2>1 DEF Known
<1>4. Known(made[d])' /\ Known(seen[d].queue.ids)'
  BY <1>2, <1>3 DEF CallOK, Known
<1>5. job[d].about <= Len(status')
  BY <1>1, <1>2 DEF CallOK
<1>6. pc[d] \in {"asking", "checking", "opening"} => NextAbout(d)' \in 1..Len(status')
  <2>1. NextAbout(d)' = NextAbout(d)
    BY DEF NextAbout
  <2>2. ASSUME NEW n \in 1..Len(status) PROVE n \in 1..Len(status')
    BY <1>1
  <2> QED
    BY <2>1, <2>2 DEF CallOK
<1>7. ASSUME job[d].about # 0
      PROVE  /\ written[job[d].about] <= written'[job[d].about]
             /\ written[job[d].about] \in Nat /\ written'[job[d].about] \in Nat
  <2>1. job[d].about \in Id
    BY <1>2, <1>7 DEF Id, SuggestionAssumption
  <2> QED
    BY <2>1 DEF Grows, DataTypes
<1>8. pc[d] = "writing" => Len(made[d]) <= written'[job[d].about]
  <2>1. Len(made[d]) \in Nat
    BY <1>2, LenProperties
  <2> QED
    BY <1>7, <2>1 DEF CallOK, Deciding
<1>9. pc[d] = "executing" => Writes <= written'[job[d].about]
  BY <1>7 DEF CallOK, Deciding, SuggestionAssumption
<1> QED
  BY <1>4, <1>5, <1>6, <1>8, <1>9 DEF CallOK

(* A step of one call that is under way. *)
LEMMA CallStep ==
  ASSUME SuggestionAssumption, IInv, DataTypes', CallTypes', BudgetTypes', Grows, Kept',
         NEW c \in Call, pc[c] # "idle", overlapped' = overlapped,
         \A d \in Call \ {c} : /\ pc'[d] = pc[d] /\ job'[d] = job[d]
                               /\ made'[d] = made[d] /\ seen'[d] = seen[d],
         CallOK(c)',
         ExecutedWasApplied',
         ~overlapped /\ pc'[c] = "writing" => status'[job'[c].about] = "PENDING"
  PROVE  IInv'
<1>1. \A d \in Call : CallOK(d)'
  BY OtherCall DEF IInv
<1>2. Alone'
  <2>1. ASSUME ~overlapped, NEW d \in Call, pc'[d] # "idle" PROVE d = c
    BY <2>1 DEF IInv, Alone
  <2> QED
    BY <2>1 DEF Alone
<1> QED
  BY <1>1, <1>2 DEF IInv

LEMMA GotoTypes ==
  ASSUME CallTypes, NEW c \in Call, NEW state \in PC, Goto(c, state)
  PROVE  /\ pc' \in [Call -> PC] /\ pc'[c] = state
         /\ \A d \in Call \ {c} : pc'[d] = pc[d]
  BY DEF CallTypes, Goto

LEMMA LeaveTypes ==
  ASSUME SuggestionAssumption, CallTypes, NEW C \in SUBSET Call, Leave(C)
  PROVE  /\ CallTypes'
         /\ \A c \in C : pc'[c] = "idle" /\ job'[c] = NoJob /\ made'[c] = <<>> /\ seen'[c] = Nothing
         /\ \A d \in Call \ C : /\ pc'[d] = pc[d] /\ job'[d] = job[d]
                               /\ made'[d] = made[d] /\ seen'[d] = seen[d]
<1>1. pc' \in [Call -> PC] /\ job' \in [Call -> Job \union {NoJob}]
  BY DEF CallTypes, Leave, PC
<1>2. made' \in [Call -> Seq(Id)]
  BY EmptySeq DEF CallTypes, Leave
<1>3. seen' \in [Call -> Sight]
  BY NothingTypes DEF CallTypes, Leave
<1> QED
  BY <1>1, <1>2, <1>3 DEF CallTypes, Leave

LEMMA IdleOK ==
  ASSUME SuggestionAssumption, DataTypes', NEW c \in Call,
         pc'[c] = "idle", job'[c] = NoJob, made'[c] = <<>>, seen'[c] = Nothing
  PROVE  CallOK(c)'
<1>1. Len(status') \in Nat /\ Len(<<>>) = 0
  BY LenProperties, EmptySeq DEF DataTypes
<1>2. job'[c].about = 0 /\ seen'[c].queue.ids = <<>>
  BY NothingTypes
<1> QED
  BY <1>1, <1>2 DEF CallOK, Known, Deciding

-----------------------------------------------------------------------------
(* A call goes on and changes nothing but the document. *)
LEMMA QuietGoto ==
  ASSUME SuggestionAssumption, IInv, NEW c \in Call, NEW state \in PC, pc[c] # "idle", Goto(c, state),
         document' \in DocumentStatus, extracted' \in BOOLEAN,
         UNCHANGED <<status, written, queue, sessions, job, made, seen, budget>>,
         state \notin {"idle", "reading", "writing", "executing", "rejecting"},
         state \in {"failing", "failed"} => job[c].kind # "yes",
         state \in Deciding => job[c].kind \in {"yes", "no", "reject"} /\ job[c].about # 0,
         state \in {"advancing", "persisting"} => job[c].kind \in {"yes", "no"},
         state \in {"queueing", "starting"} => job[c].kind = "process",
         state \in {"asking", "checking", "opening"} => NextAbout(c) \in 1..Len(status)
  PROVE  IInv'
<1> USE DEF sessions, budget
<1>1. DataTypes'
  BY DEF IInv, DataTypes
<1>2. CallTypes' /\ pc'[c] = state /\ \A d \in Call \ {c} : pc'[d] = pc[d]
  BY GotoTypes DEF IInv, CallTypes
<1>3. BudgetTypes' /\ Kept' /\ ExecutedWasApplied'
  BY DEF IInv, BudgetTypes, Kept, Known, ExecutedWasApplied
<1>4. Grows
  BY LenProperties DEF IInv, DataTypes, Grows
<1>5. CallOK(c)'
  <2>1. NextAbout(c)' = NextAbout(c)
    BY DEF NextAbout
  <2> QED
    BY <1>2, <2>1 DEF IInv, CallOK, Known
<1> QED
  BY <1>1, <1>2, <1>3, <1>4, <1>5, CallStep

(* A call ends. *)
LEMMA LeaveStep ==
  ASSUME SuggestionAssumption, IInv, NEW c \in Call, pc[c] # "idle", Leave({c}),
         DataTypes', BudgetTypes', Grows, Kept', ExecutedWasApplied', overlapped' = overlapped
  PROVE  IInv'
<1>1. /\ CallTypes' /\ pc'[c] = "idle" /\ job'[c] = NoJob /\ made'[c] = <<>> /\ seen'[c] = Nothing
      /\ \A d \in Call \ {c} : /\ pc'[d] = pc[d] /\ job'[d] = job[d]
                              /\ made'[d] = made[d] /\ seen'[d] = seen[d]
  BY LeaveTypes DEF IInv
<1>2. CallOK(c)'
  BY <1>1, IdleOK
<1> QED
  BY <1>1, <1>2, CallStep

LEMMA QuietLeave ==
  ASSUME SuggestionAssumption, IInv, NEW c \in Call, pc[c] # "idle", Leave({c}),
         document' \in DocumentStatus, UNCHANGED <<extracted, status, written, queue, overlapped>>,
         session' \in {session, NoSession}, UNCHANGED opened, BudgetTypes'
  PROVE  IInv'
<1>1. DataTypes'
  BY NothingTypes DEF IInv, DataTypes
<1>2. Kept'
  <2>1. Len(status) \in Nat
    BY LenProperties DEF IInv, DataTypes
  <2> QED
    BY <2>1, NothingTypes DEF IInv, Kept, Known
<1>3. Grows
  BY LenProperties DEF IInv, DataTypes, Grows
<1>4. ExecutedWasApplied'
  BY DEF IInv, ExecutedWasApplied
<1> QED
  BY <1>1, <1>2, <1>3, <1>4, LeaveStep

(* One more mishap, of whichever kind. *)
LEMMA MishapTypes ==
  ASSUME SuggestionAssumption, BudgetTypes, MayMishap, UNCHANGED <<calls, overlapped>>,
         \/ lapses' = lapses + 1 /\ UNCHANGED <<faults, crashes, stranded>>
         \/ faults' = faults + 1 /\ UNCHANGED <<lapses, crashes, stranded>>
         \/ crashes' = crashes + 1 /\ UNCHANGED <<lapses, faults, stranded>>
         \/ stranded' = stranded + 1 /\ UNCHANGED <<lapses, faults, crashes>>
  PROVE  BudgetTypes'
<1>1. MaxMishaps \in Nat
  BY DEF SuggestionAssumption
<1>2. /\ lapses' \in Nat /\ faults' \in Nat /\ crashes' \in Nat /\ stranded' \in Nat
      /\ lapses' + faults' + crashes' + stranded' <= MaxMishaps
  BY <1>1 DEF BudgetTypes, MayMishap
<1>3. calls' \in 0..MaxCalls /\ overlapped' \in BOOLEAN
  BY DEF BudgetTypes
<1> QED
  BY <1>2, <1>3 DEF BudgetTypes

(* The steps that only go on or end. *)
LEMMA QuietIInv ==
  ASSUME SuggestionAssumption, IInv, NEW c \in Call,
         \/ CreateJob(c) \/ CreateExtraction(c) \/ Extracted(c) \/ Suggested(c)
         \/ Ask(c) \/ CheckSession(c) \/ Tell(c) \/ Return(c)
         \/ RefreshDocument(c) \/ CompleteDocument(c) \/ EndSession(c) \/ Strand(c)
  PROVE  IInv'
<1> USE DEF data, sessions, budget, PC, DocumentStatus
<1>1. /\ CallOK(c) /\ document \in DocumentStatus /\ extracted \in BOOLEAN
      /\ BudgetTypes /\ seen[c].verdict \in {"none", "APPROVED", "REJECTED"}
  BY DEF IInv, DataTypes, CallTypes, Sight
<1>2. UNCHANGED budget => BudgetTypes' /\ overlapped' = overlapped
  BY <1>1 DEF BudgetTypes
<1>3. CASE CreateJob(c)
  BY <1>1, <1>3, QuietGoto DEF CreateJob, Deciding
<1>4. CASE CreateExtraction(c)
  BY <1>1, <1>4, QuietGoto DEF CreateExtraction, Deciding
<1>5. CASE Extracted(c)
  <2>1. CASE job[c].kind = "process"
    BY <1>1, <1>5, <2>1, QuietGoto DEF Extracted, Deciding
  <2>2. CASE job[c].kind # "process"
    BY <1>1, <1>2, <1>5, <2>2, QuietLeave DEF Extracted
  <2> QED
    BY <2>1, <2>2
<1>6. CASE Suggested(c)
  <2>1. CASE job[c].kind = "process"
    BY <1>1, <1>6, <2>1, QuietGoto DEF Suggested, Deciding
  <2>2. CASE job[c].kind # "process"
    BY <1>1, <1>2, <1>6, <2>2, QuietLeave DEF Suggested
  <2> QED
    BY <2>1, <2>2
<1>7. ASSUME Finished(c), pc[c] # "idle", UNCHANGED <<data, sessions, budget>> PROVE IInv'
  <2>1. PICK state \in {"ending", "contributing", "leaving"} :
          Goto(c, state) /\ UNCHANGED <<job, made, seen>>
    BY <1>7 DEF Finished
  <2> QED
    BY <1>1, <1>7, <2>1, QuietGoto DEF Deciding
<1>8. CASE Ask(c)
  BY <1>1, <1>7, <1>8, QuietGoto DEF Ask, Deciding, CallOK
<1>9. CASE CheckSession(c)
  BY <1>1, <1>7, <1>9, QuietGoto DEF CheckSession, Deciding, CallOK
<1>10. CASE Tell(c)
  BY <1>7, <1>10 DEF Tell
<1>11. CASE Return(c)
  BY <1>1, <1>2, <1>11, QuietLeave DEF Return
<1>12. CASE RefreshDocument(c)
  <2>1. CASE job[c].kind = "reject"
    BY <1>1, <1>2, <1>12, <2>1, QuietLeave DEF RefreshDocument
  <2>2. CASE job[c].kind # "reject"
    BY <1>1, <1>12, <2>2, QuietGoto DEF RefreshDocument, Deciding, CallOK
  <2> QED
    BY <2>1, <2>2
<1>13. CASE CompleteDocument(c)
  BY <1>1, <1>13, QuietGoto DEF CompleteDocument, Deciding
<1>14. CASE EndSession(c)
  BY <1>1, <1>2, <1>14, QuietLeave DEF EndSession
<1>15. CASE Strand(c)
  <2>1. BudgetTypes'
    BY <1>1, <1>15, MishapTypes DEF Strand
  <2> QED
    BY <1>1, <1>15, <2>1, QuietLeave DEF Strand, Uncaught
<1> QED
  BY <1>3, <1>4, <1>5, <1>6, <1>8, <1>9, <1>10, <1>11, <1>12, <1>13, <1>14, <1>15

(* A suggestion is created, pending and without writes. *)
LEMMA CreateSuggestionIInv ==
  ASSUME SuggestionAssumption, IInv, NEW c \in Call, CreateSuggestion(c)
  PROVE  IInv'
<1> USE DEF IInv, sessions, budget
<1> DEFINE n == Len(status)
<1>1. /\ status' = Append(status, "PENDING") /\ n < MaxSuggestions /\ n \in Nat
      /\ pc[c] = "generating"
      /\ UNCHANGED <<document, extracted, written, queue, session, opened, pc, job, seen, budget>>
  BY LenProperties DEF CreateSuggestion, DataTypes
<1>2. /\ status' \in Seq(SuggestionStatus) /\ Len(status') = n + 1
      /\ \A s \in 1..n : status'[s] = status[s]
      /\ status'[n + 1] = "PENDING"
  <2>1. "PENDING" \in SuggestionStatus
    BY DEF SuggestionStatus
  <2> QED
    BY <1>1, <2>1, AppendProperties DEF DataTypes
<1>3. DataTypes'
  BY <1>1, <1>2 DEF DataTypes, SuggestionAssumption
<1>4. /\ made' = [made EXCEPT ![c] = Append(@, n + 1)]
      /\ made[c] \in Seq(Id) /\ n + 1 \in Id
  BY <1>1 DEF CreateSuggestion, CallTypes, Id, SuggestionAssumption
<1>5. /\ made'[c] \in Seq(Id) /\ Len(made'[c]) = Len(made[c]) + 1 /\ Len(made[c]) \in Nat
      /\ \A i \in 1..Len(made[c]) : made'[c][i] = made[c][i]
      /\ made'[c][Len(made[c]) + 1] = n + 1
  BY <1>4, AppendProperties, LenProperties DEF CallTypes
<1>6. CallTypes' /\ \A d \in Call \ {c} : made'[d] = made[d]
  BY <1>1, <1>4, <1>5 DEF CallTypes
<1>7. Grows
  BY <1>1, <1>2, <1>3 DEF Grows, DataTypes
<1>8. ASSUME NEW ids \in Seq(Id), Known(ids) PROVE \A i \in 1..Len(ids) : ids[i] <= n + 1
  <2>1. \A i \in 1..Len(ids) : ids[i] \in Id
    BY ElementOfSeq
  <2> QED
    BY <1>1, <1>8, <2>1 DEF Known, Id
<1>9. Kept'
  <2>1. queue.ids \in Seq(Id) /\ Known(queue.ids)
    BY DEF DataTypes, Queue, Kept
  <2>2. \A i \in 1..Len(queue.ids) : queue.ids[i] <= n + 1
    BY <1>8, <2>1
  <2>3. session.about \in Nat /\ session.about <= n
    BY DEF DataTypes, Kept, SuggestionAssumption
  <2>4. session.about <= n + 1
    BY <1>1, <2>3
  <2> QED
    BY <1>1, <1>2, <2>2, <2>4 DEF Kept, Known
<1>10. CallOK(c)'
  <2>1. seen[c].queue.ids \in Seq(Id) /\ job[c].about \in Nat
    BY NothingTypes DEF CallTypes, Sight, Queue, Job, SuggestionAssumption
  <2>2. \A i \in 1..Len(made'[c]) : made'[c][i] <= n + 1
    <3>1. \A i \in 1..Len(made[c]) : made[c][i] <= n + 1
      BY <1>4, <1>8 DEF CallOK
    <3> QED
      BY <1>1, <1>5, <3>1
  <2>3. \A i \in 1..Len(seen[c].queue.ids) : seen[c].queue.ids[i] <= n + 1
    BY <1>8, <2>1 DEF CallOK
  <2>4. job[c].about <= n + 1
    BY <1>1, <2>1 DEF CallOK
  <2> QED
    BY <1>1, <1>2, <2>2, <2>3, <2>4 DEF CallOK, Known, Deciding
<1>11. ExecutedWasApplied'
  <2>1. ASSUME NEW s \in 1..(n + 1), status'[s] = "EXECUTED" PROVE written'[s] >= Writes
    <3>1. s \in 1..n
      BY <1>1, <1>2, <2>1
    <3> QED
      BY <1>1, <1>2, <2>1, <3>1, LenProperties DEF ExecutedWasApplied, DataTypes
  <2> QED
    BY <1>2, <2>1, LenProperties DEF ExecutedWasApplied
<1>12. pc[c] # "idle" /\ pc'[c] # "writing" /\ overlapped' = overlapped /\ BudgetTypes'
  BY <1>1 DEF BudgetTypes
<1> QED
  BY <1>1, <1>3, <1>6, <1>7, <1>9, <1>10, <1>11, <1>12, CallStep

(* The queue is begun with what the processing made; its first is looked up. *)
LEMMA QueueIInv ==
  ASSUME SuggestionAssumption, IInv, NEW c \in Call, InitializeQueue(c) \/ StartQueue(c)
  PROVE  IInv'
<1> USE DEF IInv, data, sessions, budget
<1>1. CallOK(c) /\ made[c] \in Seq(Id) /\ BudgetTypes
  BY DEF CallTypes
<1>2. CASE InitializeQueue(c)
  <2>1. /\ pc[c] = "queueing" /\ Goto(c, "starting")
        /\ UNCHANGED <<document, extracted, status, written, session, opened, job, made, seen, budget>>
    BY <1>2 DEF InitializeQueue
  <2>2. queue' \in Queue /\ queue'.ids = made[c]
    <3>1. (made[c] = <<>>) \in BOOLEAN
      OBVIOUS
    <3> QED
      BY <1>1, <1>2, <3>1 DEF InitializeQueue, Queue
  <2>3. DataTypes' /\ Kept'
    BY <1>1, <2>1, <2>2 DEF DataTypes, Kept, Known, CallOK
  <2>4. CallTypes' /\ pc'[c] = "starting" /\ \A d \in Call \ {c} : pc'[d] = pc[d]
    BY <2>1, GotoTypes DEF CallTypes, PC
  <2>5. CallOK(c)'
    BY <1>1, <2>1, <2>4 DEF CallOK, Known, Deciding
  <2>6. Grows /\ BudgetTypes' /\ ExecutedWasApplied'
    BY <1>1, <2>1, LenProperties DEF Grows, BudgetTypes, ExecutedWasApplied, DataTypes
  <2> QED
    BY <2>1, <2>3, <2>4, <2>5, <2>6, CallStep
<1>3. CASE StartQueue(c)
  <2>1. /\ pc[c] = "starting" /\ job[c].kind = "process"
        /\ UNCHANGED <<data, sessions, made, seen, budget>>
    BY <1>1, <1>3 DEF StartQueue, CallOK
  <2>2. CASE Goto(c, "contributing") /\ UNCHANGED job
    <3>1. document \in DocumentStatus /\ extracted \in BOOLEAN
      BY DEF DataTypes
    <3> QED
      BY <2>1, <2>2, <3>1, QuietGoto DEF PC, Deciding
  <2>3. CASE /\ queue.index \in DOMAIN queue.ids /\ Goto(c, "asking")
             /\ job' = [job EXCEPT ![c].about = queue.ids[queue.index]]
    <3> DEFINE next == queue.ids[queue.index]
    <3>1. queue.index \in 1..Len(queue.ids) /\ queue.ids \in Seq(Id)
      BY <2>3, LenProperties DEF DataTypes, Queue
    <3>2. next \in Id /\ next <= Len(status)
      BY <3>1, ElementOfSeq DEF Kept, Known
    <3>3. next \in 1..Len(status) /\ next \in 0..MaxSuggestions /\ Len(status) \in Nat
      BY <3>2, LenProperties DEF Id, DataTypes, SuggestionAssumption
    <3>4. job[c] \in Job
      BY <2>1, NothingTypes DEF CallTypes
    <3>5. /\ job'[c] = [job[c] EXCEPT !.about = next]
          /\ \A d \in Call \ {c} : job'[d] = job[d]
          /\ job' \in [Call -> Job \union {NoJob}]
      <4>1. [job[c] EXCEPT !.about = next] \in Job
        BY <3>3, <3>4 DEF Job
      <4>2. job' = [job EXCEPT ![c] = [job[c] EXCEPT !.about = next]]
        BY <2>3 DEF CallTypes
      <4> QED
        BY <4>1, <4>2 DEF CallTypes
    <3>6. job'[c].about = next /\ job'[c].kind = "process"
      BY <2>1, <3>4, <3>5 DEF Job
    <3>7. pc' \in [Call -> PC] /\ pc'[c] = "asking" /\ \A d \in Call \ {c} : pc'[d] = pc[d]
      BY <2>3, GotoTypes DEF PC
    <3>8. CallTypes' /\ DataTypes' /\ Kept' /\ ExecutedWasApplied' /\ Grows /\ BudgetTypes'
      <4>1. CallTypes'
        BY <2>1, <3>5, <3>7 DEF CallTypes
      <4>2. DataTypes' /\ Kept'
        BY <2>1 DEF DataTypes, Kept, Known
      <4>3. ExecutedWasApplied' /\ BudgetTypes'
        BY <1>1, <2>1 DEF ExecutedWasApplied, BudgetTypes
      <4>4. Grows
        BY <2>1, LenProperties DEF DataTypes, Grows
      <4> QED
        BY <4>1, <4>2, <4>3, <4>4
    <3>9. CallOK(c)'
      <4>1. NextAbout(c)' = next
        BY <3>6 DEF NextAbout
      <4> QED
        BY <1>1, <2>1, <3>3, <3>6, <3>7, <4>1 DEF CallOK, Known, Deciding
    <3> QED
      BY <2>1, <3>5, <3>7, <3>8, <3>9, CallStep
  <2> QED
    BY <1>3, <2>2, <2>3 DEF StartQueue
<1> QED
  BY <1>2, <1>3

(* A suggestion gets its next status. *)
LEMMA StatusTypes ==
  ASSUME SuggestionAssumption, IInv, NEW s \in 1..Len(status), NEW e \in SuggestionStatus,
         status' = [status EXCEPT ![s] = e], e = "EXECUTED" => Writes <= written[s],
         UNCHANGED <<extracted, written, queue, sessions>>, document' \in DocumentStatus
  PROVE  /\ DataTypes' /\ Kept' /\ ExecutedWasApplied' /\ Grows
         /\ Len(status') = Len(status)
<1> USE DEF IInv, sessions
<1>1. /\ status' \in Seq(SuggestionStatus) /\ Len(status') = Len(status) /\ Len(status) \in Nat
      /\ \A i \in 1..Len(status) : status'[i] = IF i = s THEN e ELSE status[i]
  BY ExceptSeq, LenProperties DEF DataTypes
<1>2. DataTypes'
  BY <1>1 DEF DataTypes
<1>3. Kept'
  BY <1>1 DEF Kept, Known
<1>4. ExecutedWasApplied'
  <2>1. s \in Id /\ written[s] \in Nat /\ Writes \in Nat
    <3>1. s \in Id
      BY <1>1 DEF DataTypes, Id, SuggestionAssumption
    <3>2. written[s] \in Nat
      BY <3>1 DEF DataTypes
    <3> QED
      BY <3>1, <3>2 DEF SuggestionAssumption
  <2>2. DOMAIN status' = 1..Len(status) /\ DOMAIN status = 1..Len(status)
    BY <1>1, LenProperties DEF DataTypes
  <2> QED
    BY <1>1, <2>1, <2>2 DEF ExecutedWasApplied
<1>5. Grows
  BY <1>1 DEF Grows, DataTypes
<1> QED
  BY <1>1, <1>2, <1>3, <1>4, <1>5

LEMMA AboutTypes ==
  ASSUME SuggestionAssumption, IInv, NEW c \in Call, pc[c] \in Deciding
  PROVE  /\ job[c].about \in 1..Len(status) /\ job[c].about \in Id /\ Len(status) \in Nat
         /\ written[job[c].about] \in Nat
<1>1. job[c].about \in 0..MaxSuggestions /\ Len(status) \in Nat
  BY NothingTypes, LenProperties DEF IInv, CallTypes, Job, DataTypes, SuggestionAssumption
<1>2. job[c].about <= Len(status) /\ job[c].about # 0
  BY DEF IInv, CallOK
<1>3. job[c].about \in 1..Len(status) /\ job[c].about \in Id
  BY <1>1, <1>2 DEF Id, SuggestionAssumption
<1> QED
  BY <1>1, <1>3 DEF IInv, DataTypes

(* What is thrown is caught. *)
LEMMA CatchIInv ==
  ASSUME SuggestionAssumption, IInv, NEW c \in Call, pc[c] # "idle", Catch(c),
         UNCHANGED <<data, sessions, overlapped>>, BudgetTypes'
  PROVE  IInv'
<1> USE DEF data, sessions
<1>1. document \in DocumentStatus /\ extracted \in BOOLEAN
  BY DEF IInv, DataTypes
<1>2. CASE Leave({c})
  BY <1>1, <1>2, QuietLeave
<1>3. ASSUME NEW state \in {"failing", "failed"}, Goto(c, state), UNCHANGED <<job, made, seen>>,
             state = "failing" => job[c].kind # "yes", state = "failed" => pc[c] \in Deciding
      PROVE  IInv'
  <2>1. DataTypes' /\ Kept' /\ ExecutedWasApplied' /\ Grows
    BY LenProperties DEF IInv, DataTypes, Kept, Known, ExecutedWasApplied, Grows
  <2>2. CallTypes' /\ pc'[c] = state /\ \A d \in Call \ {c} : pc'[d] = pc[d]
    BY <1>3, GotoTypes DEF IInv, CallTypes, PC
  <2>3. CallOK(c)'
    BY <1>3, <2>2 DEF IInv, CallOK, Known, Deciding
  <2> QED
    BY <1>3, <2>1, <2>2, <2>3, CallStep
<1> QED
  BY <1>2, <1>3 DEF Catch, Execution, Deciding

LEMMA ThrowIInv ==
  ASSUME SuggestionAssumption, IInv, NEW c \in Call, Throw(c)
  PROVE  IInv'
<1>1. BudgetTypes'
  BY MishapTypes DEF IInv, Throw
<1> QED
  BY <1>1, CatchIInv DEF Throw

(* The catch block marks what failed. *)
LEMMA MarkFailedIInv ==
  ASSUME SuggestionAssumption, IInv, NEW c \in Call, FailJob(c) \/ MarkFailed(c)
  PROVE  IInv'
<1> USE DEF sessions
<1>1. document \in DocumentStatus /\ extracted \in BOOLEAN /\ "FAILED" \in DocumentStatus
  BY DEF IInv, DataTypes, DocumentStatus
<1>2. UNCHANGED budget => BudgetTypes' /\ overlapped' = overlapped
  BY DEF IInv, BudgetTypes, budget
<1>3. CASE FailJob(c) /\ job[c].kind # "yes"
  BY <1>1, <1>3, QuietGoto DEF FailJob, data, PC, Deciding
<1>4. CASE MarkFailed(c) /\ job[c].kind # "yes"
  BY <1>1, <1>2, <1>4, QuietLeave DEF MarkFailed
<1>5. CASE MarkFailed(c) /\ job[c].kind = "yes"
  <2>1. job[c].about \in 1..Len(status)
    <3>1. job[c].about \in Nat /\ Len(status) \in Nat
      BY NothingTypes, LenProperties DEF IInv, CallTypes, Job, DataTypes, SuggestionAssumption
    <3>2. job[c].about <= Len(status) /\ job[c].about # 0
      BY <1>5 DEF IInv, CallOK, MarkFailed
    <3> QED
      BY <3>1, <3>2
  <2>2. status' = [status EXCEPT ![job[c].about] = "FAILED"] /\ UNCHANGED document
    BY <1>5 DEF MarkFailed
  <2>3. "FAILED" \in SuggestionStatus /\ "FAILED" # "EXECUTED"
    BY DEF SuggestionStatus
  <2>4. UNCHANGED <<extracted, written, queue, sessions>> /\ Leave({c}) /\ pc[c] # "idle" /\ UNCHANGED budget
    BY <1>5 DEF MarkFailed
  <2>5. DataTypes' /\ Kept' /\ ExecutedWasApplied' /\ Grows
    BY <1>1, <2>1, <2>2, <2>3, <2>4, StatusTypes
  <2> QED
    BY <1>2, <2>4, <2>5, LeaveStep
<1>6. job[c].kind = "yes" => ~FailJob(c)
  BY DEF FailJob, IInv, CallOK
<1> QED
  BY <1>3, <1>4, <1>5, <1>6

(* The session of the next suggestion is opened, unless there is one. *)
LEMMA OpenSessionIInv ==
  ASSUME SuggestionAssumption, IInv, NEW c \in Call, OpenSession(c)
  PROVE  IInv'
<1> USE DEF IInv, data, sessions, budget
<1>1. /\ pc[c] = "opening" /\ CallOK(c) /\ NextAbout(c) \in 1..Len(status)
      /\ UNCHANGED <<data, budget>>
  BY DEF OpenSession, CallOK
<1>2. BudgetTypes'
  BY <1>1 DEF BudgetTypes
<1>3. CASE session # NoSession
  BY <1>1, <1>2, <1>3, CatchIInv DEF OpenSession
<1>4. CASE session = NoSession
  <2>1. /\ session' = [id |-> opened + 1, about |-> NextAbout(c)] /\ opened' = opened + 1
        /\ Goto(c, "telling")
        /\ UNCHANGED <<job, made, seen>>
    BY <1>4 DEF OpenSession
  <2>2. NextAbout(c) \in 0..MaxSuggestions /\ NextAbout(c) # 0 /\ NextAbout(c) <= Len(status)
    BY <1>1, LenProperties DEF DataTypes, SuggestionAssumption
  <2>3. /\ session' \in [id : Nat, about : 0..MaxSuggestions] /\ opened' \in Nat
        /\ session'.about = NextAbout(c)
    BY <2>1, <2>2 DEF DataTypes
  <2>4. DataTypes' /\ Kept' /\ ExecutedWasApplied' /\ Grows
    BY <1>1, <2>1, <2>2, <2>3, LenProperties DEF DataTypes, Kept, Known, ExecutedWasApplied, Grows
  <2>5. CallTypes' /\ pc'[c] = "telling" /\ \A d \in Call \ {c} : pc'[d] = pc[d]
    BY <2>1, GotoTypes DEF CallTypes, PC
  <2>6. CallOK(c)'
    BY <1>1, <2>1, <2>5 DEF CallOK, Known, Deciding
  <2> QED
    BY <1>1, <1>2, <2>1, <2>4, <2>5, <2>6, CallStep
<1> QED
  BY <1>3, <1>4

(* YES: only a pending suggestion is taken up. *)
LEMMA ReadSuggestionIInv ==
  ASSUME SuggestionAssumption, IInv, NEW c \in Call, ReadSuggestion(c)
  PROVE  IInv'
<1> USE DEF IInv, data, sessions, budget
<1>1. /\ pc[c] = "reading" /\ CallOK(c)
      /\ UNCHANGED <<data, sessions, budget>>
  BY DEF ReadSuggestion
<1>2. DataTypes' /\ Kept' /\ ExecutedWasApplied' /\ Grows /\ BudgetTypes'
  BY <1>1, LenProperties DEF DataTypes, Kept, Known, ExecutedWasApplied, Grows, BudgetTypes
<1>3. CASE Executable(job[c].about)
  <2>1. Goto(c, "writing") /\ UNCHANGED <<job, made, seen>>
    BY <1>3 DEF ReadSuggestion
  <2>2. CallTypes' /\ pc'[c] = "writing" /\ \A d \in Call \ {c} : pc'[d] = pc[d]
    BY <2>1, GotoTypes DEF CallTypes, PC
  <2>3. CallOK(c)'
    <3>1. made[c] = <<>> /\ Len(<<>>) = 0
      BY <1>1, EmptySeq DEF CallOK
    <3>2. Len(made[c]) <= written[job[c].about]
      BY <1>1, <3>1, AboutTypes DEF Deciding
    <3> QED
      BY <1>1, <2>1, <2>2, <3>2 DEF CallOK, Known, Deciding
  <2>4. status'[job'[c].about] = "PENDING"
    BY <1>1, <1>3, <2>1 DEF Executable
  <2> QED
    BY <1>1, <1>2, <2>1, <2>2, <2>3, <2>4, CallStep
<1>4. CASE ~Executable(job[c].about)
  <2>1. Leave({c})
    BY <1>4 DEF ReadSuggestion
  <2> QED
    BY <1>1, <1>2, <2>1, LeaveStep
<1> QED
  BY <1>3, <1>4

(* A transaction of the execution; after the last the suggestion has them all. *)
LEMMA WriteIInv ==
  ASSUME SuggestionAssumption, IInv, NEW c \in Call, Write(c)
  PROVE  IInv'
<1> USE DEF IInv, sessions, budget
<1> DEFINE s == job[c].about
<1>1. /\ pc[c] = "writing" /\ CallOK(c)
      /\ written' = [written EXCEPT ![s] = @ + 1]
      /\ made' = [made EXCEPT ![c] = Append(@, s)]
      /\ UNCHANGED <<document, extracted, status, queue, session, opened, job, seen, budget>>
  BY DEF Write
<1>2. s \in 1..Len(status) /\ s \in Id /\ written[s] \in Nat /\ Len(status) \in Nat /\ Writes \in Nat
  BY <1>1, AboutTypes DEF Deciding, SuggestionAssumption
<1>3. /\ written' \in [Id -> Nat] /\ written'[s] = written[s] + 1
      /\ \A r \in Id : written[r] <= written'[r]
  BY <1>1, <1>2 DEF DataTypes
<1>4. DataTypes' /\ Kept' /\ Grows /\ BudgetTypes'
  BY <1>1, <1>2, <1>3 DEF DataTypes, Kept, Known, Grows, BudgetTypes
<1>5. ExecutedWasApplied'
  <2>1. \A r \in Id : written[r] \in Nat /\ written'[r] \in Nat /\ written[r] <= written'[r]
    BY <1>3 DEF DataTypes
  <2>2. DOMAIN status \subseteq Id
    BY <1>2, LenProperties DEF DataTypes, Id, SuggestionAssumption
  <2> QED
    BY <1>1, <1>2, <2>1, <2>2 DEF ExecutedWasApplied
<1>6. /\ made[c] \in Seq(Id) /\ Len(made[c]) \in Nat
      /\ made'[c] = Append(made[c], s) /\ made'[c] \in Seq(Id) /\ Len(made'[c]) = Len(made[c]) + 1
      /\ \A i \in 1..Len(made'[c]) : made'[c][i] <= Len(status)
  <2>1. made[c] \in Seq(Id) /\ Len(made[c]) \in Nat /\ made'[c] = Append(made[c], s)
    BY <1>1, LenProperties DEF CallTypes
  <2>2. /\ made'[c] \in Seq(Id) /\ Len(made'[c]) = Len(made[c]) + 1
        /\ \A i \in 1..Len(made[c]) : made'[c][i] = made[c][i]
        /\ made'[c][Len(made[c]) + 1] = s
    BY <1>2, <2>1, AppendProperties
  <2>3. \A i \in 1..Len(made[c]) : made[c][i] <= Len(status)
    BY <1>1 DEF CallOK, Known
  <2> QED
    BY <1>2, <2>1, <2>2, <2>3
<1>7. PICK state \in {"executing", "writing"} :
        Goto(c, state) /\ (state = "executing" => Len(made[c]) + 1 = Writes)
  BY DEF Write, LastWrite
<1>8. /\ CallTypes' /\ pc'[c] = state
      /\ \A d \in Call \ {c} : pc'[d] = pc[d] /\ made'[d] = made[d]
  <2>1. made' \in [Call -> Seq(Id)] /\ \A d \in Call \ {c} : made'[d] = made[d]
    BY <1>1, <1>6 DEF CallTypes
  <2>2. pc' \in [Call -> PC] /\ pc'[c] = state /\ \A d \in Call \ {c} : pc'[d] = pc[d]
    BY <1>7, GotoTypes DEF PC
  <2> QED
    BY <1>1, <2>1, <2>2 DEF CallTypes
<1>9. CallOK(c)'
  <2>1. Len(made'[c]) <= written'[s] /\ (state = "executing" => Writes <= written'[s])
    BY <1>1, <1>2, <1>3, <1>6, <1>7 DEF CallOK
  <2> QED
    BY <1>1, <1>6, <1>7, <1>8, <2>1 DEF CallOK, Known, Deciding
<1>10. ~overlapped => status'[job'[c].about] = "PENDING"
  BY <1>1 DEF Alone
<1> QED
  BY <1>1, <1>4, <1>5, <1>8, <1>9, <1>10, CallStep

(* EXECUTED after the last transaction, REJECTED after a NO. *)
LEMMA SettleIInv ==
  ASSUME SuggestionAssumption, IInv, NEW c \in Call, MarkExecuted(c) \/ Reject(c)
  PROVE  IInv'
<1> USE DEF IInv, sessions, budget
<1> DEFINE s == job[c].about
<1>1. /\ pc[c] \in {"executing", "rejecting"} /\ pc[c] \in Deciding /\ CallOK(c)
      /\ Goto(c, "listing")
      /\ UNCHANGED <<document, extracted, written, queue, session, opened, job, made, seen, budget>>
  BY DEF MarkExecuted, Reject, Deciding
<1>2. PICK e \in SuggestionStatus : /\ status' = [status EXCEPT ![s] = e]
                                    /\ e = "EXECUTED" => pc[c] = "executing"
  BY DEF MarkExecuted, Reject, SuggestionStatus
<1>3. s \in 1..Len(status)
  BY <1>1, AboutTypes
<1>4. e = "EXECUTED" => Writes <= written[s]
  BY <1>1, <1>2 DEF CallOK
<1>5. document' \in DocumentStatus
  BY <1>1 DEF DataTypes
<1>6. DataTypes' /\ Kept' /\ ExecutedWasApplied' /\ Grows /\ Len(status') = Len(status)
  BY <1>1, <1>2, <1>3, <1>4, <1>5, StatusTypes
<1>7. CallTypes' /\ pc'[c] = "listing" /\ \A d \in Call \ {c} : pc'[d] = pc[d]
  BY <1>1, GotoTypes DEF CallTypes, PC
<1>8. CallOK(c)'
  BY <1>1, <1>6, <1>7 DEF CallOK, Known, Deciding
<1>9. BudgetTypes'
  BY <1>1 DEF BudgetTypes
<1> QED
  BY <1>1, <1>6, <1>7, <1>8, <1>9, CallStep

LEMMA SightTypes ==
  ASSUME SuggestionAssumption, IInv, NEW c \in Call,
         NEW q \in Queue, NEW v \in {"none", "APPROVED", "REJECTED"}
  PROVE  /\ [seen[c] EXCEPT !.queue = q] \in Sight /\ [seen[c] EXCEPT !.queue = q].queue = q
         /\ [seen[c] EXCEPT !.verdict = v] \in Sight
         /\ [seen[c] EXCEPT !.verdict = v].queue = seen[c].queue
         /\ \A x : [seen EXCEPT ![c] = x][c] = x /\ \A d \in Call \ {c} : [seen EXCEPT ![c] = x][d] = seen[d]
         /\ \A x \in Sight : [seen EXCEPT ![c] = x] \in [Call -> Sight]
<1>1. seen \in [Call -> Sight] /\ seen[c] \in Sight
  BY DEF IInv, CallTypes
<1> QED
  BY <1>1 DEF Sight

(* The suggestions are listed, for the document, and the queue is read. *)
LEMMA ReadIInv ==
  ASSUME SuggestionAssumption, IInv, NEW c \in Call, ListSuggestions(c) \/ ReadQueue(c)
  PROVE  IInv'
<1> USE DEF IInv, data, sessions, budget
<1>1. /\ CallOK(c) /\ pc[c] # "idle" /\ pc[c] \in Deciding
      /\ UNCHANGED <<data, sessions, budget>>
  BY DEF ListSuggestions, ReadQueue, Deciding
<1>2. DataTypes' /\ Kept' /\ ExecutedWasApplied' /\ Grows /\ BudgetTypes'
  BY <1>1, LenProperties DEF DataTypes, Kept, Known, ExecutedWasApplied, Grows, BudgetTypes
<1>3. ASSUME NEW state \in {"marking", "persisting"}, NEW x \in Sight, Known(x.queue.ids),
             Goto(c, state), seen' = [seen EXCEPT ![c] = x], UNCHANGED <<job, made>>,
             state = "persisting" => job[c].kind \in {"yes", "no"}
      PROVE  IInv'
  <2>1. /\ seen'[c] = x /\ seen' \in [Call -> Sight]
        /\ \A d \in Call \ {c} : seen'[d] = seen[d]
    BY <1>3, SightTypes, NothingTypes DEF CallTypes
  <2>2. pc' \in [Call -> PC] /\ pc'[c] = state /\ \A d \in Call \ {c} : pc'[d] = pc[d]
    BY <1>3, GotoTypes DEF PC
  <2>3. CallTypes'
    BY <1>3, <2>1, <2>2 DEF CallTypes
  <2>4. CallOK(c)'
    <3>1. job[c].kind \in {"yes", "no", "reject"} /\ job[c].about # 0
      BY <1>1 DEF CallOK
    <3> QED
      BY <1>1, <1>3, <2>1, <2>2, <3>1 DEF CallOK, Known
  <2> QED
    BY <1>1, <1>2, <1>3, <2>1, <2>2, <2>3, <2>4, CallStep
<1>4. CASE ListSuggestions(c)
  <2>1. Verdict \in {"none", "APPROVED", "REJECTED"}
    BY DEF Verdict
  <2>2. seen' = [seen EXCEPT ![c] = [seen[c] EXCEPT !.verdict = Verdict]]
    BY <1>4 DEF ListSuggestions, CallTypes
  <2>3. /\ [seen[c] EXCEPT !.verdict = Verdict] \in Sight
        /\ [seen[c] EXCEPT !.verdict = Verdict].queue = seen[c].queue
    BY <2>1, SightTypes, NothingTypes
  <2>4. Known([seen[c] EXCEPT !.verdict = Verdict].queue.ids)
    BY <1>1, <2>3 DEF CallOK
  <2>5. Goto(c, "marking") /\ UNCHANGED <<job, made>>
    BY <1>4 DEF ListSuggestions
  <2> QED
    BY <1>3, <2>2, <2>3, <2>4, <2>5
<1>5. CASE ReadQueue(c)
  <2>1. CASE queue.exists
    <3>1. seen' = [seen EXCEPT ![c] = [seen[c] EXCEPT !.queue = queue]]
      BY <1>5, <2>1 DEF ReadQueue, CallTypes
    <3>2. /\ [seen[c] EXCEPT !.queue = queue] \in Sight
          /\ [seen[c] EXCEPT !.queue = queue].queue = queue
      BY SightTypes DEF DataTypes
    <3>3. Known([seen[c] EXCEPT !.queue = queue].queue.ids)
      BY <3>2 DEF Kept
    <3>4. Goto(c, "persisting") /\ UNCHANGED <<job, made>> /\ job[c].kind \in {"yes", "no"}
      BY <1>1, <1>5, <2>1 DEF ReadQueue, CallOK
    <3> QED
      BY <1>3, <3>1, <3>2, <3>3, <3>4
  <2>2. CASE ~queue.exists
    <3>1. Leave({c})
      BY <1>5, <2>2 DEF ReadQueue
    <3> QED
      BY <1>1, <1>2, <3>1, LeaveStep
  <2> QED
    BY <2>1, <2>2
<1> QED
  BY <1>4, <1>5

(* The queue as it was read, one further, is written; if it goes on, its next
   suggestion is there to be asked about. *)
LEMMA AdvancedTypes ==
  ASSUME NEW q \in Queue
  PROVE  /\ Advanced(q) \in Queue /\ Advanced(q).ids = q.ids
         /\ ~Advanced(q).completed => Advanced(q).index \in 1..Len(q.ids)
<1>1. q.ids \in Seq(Id) /\ q.index \in Nat \ {0} /\ Len(q.ids) \in Nat
  BY LenProperties DEF Queue
<1>2. CASE q.index >= Len(q.ids)
  BY <1>2 DEF Advanced, Queue
<1>3. CASE ~(q.index >= Len(q.ids))
  <2>1. Advanced(q) = [q EXCEPT !.index = q.index + 1]
    BY <1>3 DEF Advanced
  <2>2. q.index + 1 \in Nat \ {0} /\ q.index + 1 \in 1..Len(q.ids)
    BY <1>1, <1>3
  <2> QED
    BY <2>1, <2>2 DEF Queue
<1> QED
  BY <1>2, <1>3

LEMMA AdvanceQueueIInv ==
  ASSUME SuggestionAssumption, IInv, NEW c \in Call, AdvanceQueue(c)
  PROVE  IInv'
<1> USE DEF IInv, sessions, budget
<1> DEFINE next == Advanced(seen[c].queue)
<1>1. /\ pc[c] = "persisting" /\ CallOK(c) /\ job[c].kind \in {"yes", "no"}
      /\ queue' = next
      /\ UNCHANGED <<document, extracted, status, written, session, opened, job, made, budget>>
  BY DEF AdvanceQueue, CallOK
<1>2. /\ next \in Queue /\ next.ids = seen[c].queue.ids
      /\ ~next.completed => next.index \in 1..Len(next.ids)
  BY AdvancedTypes DEF CallTypes, Sight
<1>3. seen' = [seen EXCEPT ![c] = [seen[c] EXCEPT !.queue = next]]
  BY DEF AdvanceQueue, CallTypes
<1>4. /\ seen' \in [Call -> Sight] /\ seen'[c].queue = next
      /\ \A d \in Call \ {c} : seen'[d] = seen[d]
  <2> DEFINE x == [seen[c] EXCEPT !.queue = next]
  <2>1. x \in Sight /\ x.queue = next
    <3>1. seen[c] \in Sight
      BY DEF CallTypes
    <3> HIDE DEF next
    <3> QED
      BY <1>2, <3>1 DEF Sight
  <2>2. seen' = [seen EXCEPT ![c] = x]
    BY <1>3
  <2>3. seen'[c] = x /\ seen' \in [Call -> Sight] /\ \A d \in Call \ {c} : seen'[d] = seen[d]
    BY <2>1, <2>2 DEF CallTypes
  <2> QED
    BY <2>1, <2>3
<1>5. PICK state \in {"completing", "asking"} : Goto(c, state) /\ (state = "asking" => ~next.completed)
  BY DEF AdvanceQueue
<1>6. pc' \in [Call -> PC] /\ pc'[c] = state /\ \A d \in Call \ {c} : pc'[d] = pc[d]
  BY <1>5, GotoTypes DEF PC
<1>7. Known(next.ids)
  BY <1>1, <1>2 DEF CallOK
<1>8. DataTypes' /\ CallTypes' /\ BudgetTypes' /\ Kept' /\ Grows /\ ExecutedWasApplied'
  BY <1>1, <1>2, <1>4, <1>6, <1>7, LenProperties
  DEF DataTypes, CallTypes, BudgetTypes, Kept, Known, Grows, ExecutedWasApplied
<1>9. CallOK(c)'
  <2>1. state = "asking" => NextAbout(c)' \in 1..Len(status)
    <3>1. NextAbout(c)' = next.ids[next.index]
      BY <1>1, <1>4 DEF NextAbout
    <3>2. next.ids \in Seq(Id) /\ Len(status) \in Nat
      BY <1>2, LenProperties DEF Queue, DataTypes
    <3>3. state = "asking" => next.ids[next.index] \in Id /\ next.ids[next.index] <= Len(status)
      BY <1>2, <1>5, <1>7, <3>2, ElementOfSeq DEF Known
    <3> QED
      BY <3>1, <3>2, <3>3 DEF Id
  <2> QED
    BY <1>1, <1>4, <1>5, <1>6, <1>7, <2>1 DEF CallOK, Known, Deciding
<1> QED
  BY <1>1, <1>4, <1>5, <1>6, <1>8, <1>9, CallStep

-----------------------------------------------------------------------------
(* A call begins. *)
LEMMA BeginIInv ==
  ASSUME SuggestionAssumption, IInv, NEW c \in Call, NEW j \in Job,
         NEW state \in {"registering", "parsing", "generating", "asking", "rejecting", "reading"},
         Begin(c, state, j), document' \in DocumentStatus,
         j.about <= Len(status),
         state \in {"reading", "rejecting"} => j.kind \in {"yes", "no", "reject"} /\ j.about # 0,
         state = "asking" => j.kind = "approve" /\ j.about # 0
  PROVE  IInv'
<1> USE DEF IInv, sessions
<1>1. /\ pc[c] = "idle" /\ calls < MaxCalls /\ calls' = calls + 1 /\ CallOK(c)
      /\ overlapped' = (overlapped \/ \E d \in Call \ {c} : pc[d] # "idle")
      /\ UNCHANGED <<extracted, status, written, queue, session, opened, made, seen, lapses, faults, crashes, stranded>>
  BY DEF Begin
<1>2. DataTypes' /\ Kept' /\ ExecutedWasApplied' /\ Grows
  BY <1>1, LenProperties DEF DataTypes, Kept, Known, ExecutedWasApplied, Grows
<1>3. BudgetTypes'
  <2>1. overlapped' \in BOOLEAN
    BY <1>1
  <2>2. calls' \in 0..MaxCalls
    BY <1>1 DEF BudgetTypes, SuggestionAssumption
  <2> QED
    BY <1>1, <2>1, <2>2 DEF BudgetTypes
<1>4. pc' \in [Call -> PC] /\ pc'[c] = state /\ \A d \in Call \ {c} : pc'[d] = pc[d]
  BY GotoTypes DEF Begin, PC
<1>5. job' \in [Call -> Job \union {NoJob}] /\ job'[c] = j /\ \A d \in Call \ {c} : job'[d] = job[d]
  BY DEF Begin, CallTypes
<1>6. CallTypes'
  BY <1>1, <1>4, <1>5 DEF CallTypes
<1>7. CallOK(c)'
  <2>1. state = "asking" => NextAbout(c)' \in 1..Len(status)
    <3>1. j.about \in Nat /\ Len(status) \in Nat
      BY LenProperties DEF Job, DataTypes, SuggestionAssumption
    <3>2. state = "asking" => NextAbout(c)' = j.about
      BY <1>5 DEF NextAbout
    <3> QED
      BY <3>1, <3>2
  <2> QED
    BY <1>1, <1>4, <1>5, <2>1 DEF CallOK, Known, Deciding
<1>8. \A d \in Call : CallOK(d)'
  BY <1>1, <1>2, <1>4, <1>5, <1>7, OtherCall
<1>9. Alone'
  <2>1. ~overlapped' => ~overlapped /\ \A d \in Call \ {c} : pc[d] = "idle"
    BY <1>1
  <2> QED
    BY <1>4, <2>1 DEF Alone
<1> QED
  BY <1>2, <1>3, <1>6, <1>8, <1>9

LEMMA CallsIInv ==
  ASSUME SuggestionAssumption, IInv, NEW c \in Call,
         \/ \E kind \in {"process", "store"} : Process(c, kind)
         \/ GenerateAgain(c)
         \/ \E kind \in {"approve", "reject"}, s \in Id : Request(c, kind, s)
         \/ \E kind \in {"yes", "no"} : Reply(c, kind)
  PROVE  IInv'
<1> USE DEF IInv
<1>1. Len(status) \in Nat /\ DOMAIN status = 1..Len(status) /\ document \in DocumentStatus
  BY LenProperties DEF DataTypes
<1>2. ASSUME NEW kind \in Kind, NEW a \in 0..MaxSuggestions, NEW n \in Nat
      PROVE  [kind |-> kind, about |-> a, session |-> n] \in Job
  BY DEF Job
<1>3. ASSUME NEW kind
      PROVE  [NoJob EXCEPT !.kind = kind] = [kind |-> kind, about |-> 0, session |-> 0]
  BY DEF NoJob
<1>4. 0 \in 0..MaxSuggestions /\ 0 <= Len(status)
  BY <1>1 DEF SuggestionAssumption
<1>5. ASSUME NEW kind \in {"process", "store"}, Process(c, kind) PROVE IInv'
  <2> DEFINE j == [kind |-> kind, about |-> 0, session |-> 0]
  <2>1. j \in Job /\ j.about = 0
    BY <1>2, <1>4 DEF Kind
  <2>2. document' \in DocumentStatus
    BY <1>5 DEF Process, DocumentStatus
  <2>3. CASE kind = "store"
    <3>1. Begin(c, "registering", j)
      BY <1>3, <1>5, <2>3 DEF Process
    <3> QED
      BY <1>4, <2>1, <2>2, <3>1, BeginIInv
  <2>4. CASE kind = "process"
    <3>1. Begin(c, "parsing", j)
      BY <1>3, <1>5, <2>4 DEF Process
    <3> QED
      BY <1>4, <2>1, <2>2, <3>1, BeginIInv
  <2> QED
    BY <2>3, <2>4
<1>6. CASE GenerateAgain(c)
  <2> DEFINE j == [kind |-> "generate", about |-> 0, session |-> 0]
  <2>1. j \in Job /\ j.about = 0
    BY <1>2, <1>4 DEF Kind
  <2>2. document' \in DocumentStatus /\ Begin(c, "generating", j)
    BY <1>1, <1>3, <1>6 DEF GenerateAgain
  <2> QED
    BY <1>4, <2>1, <2>2, BeginIInv
<1>7. ASSUME NEW kind \in {"approve", "reject"}, NEW s \in Id, Request(c, kind, s) PROVE IInv'
  <2> DEFINE j == [kind |-> kind, about |-> s, session |-> 0]
  <2>1. s \in 0..MaxSuggestions /\ s # 0 /\ s <= Len(status)
    <3>1. s \in 1..Len(status)
      BY <1>1, <1>7 DEF Request
    <3> QED
      BY <1>1, <3>1 DEF Id, SuggestionAssumption
  <2>2. j \in Job
    BY <1>2, <2>1 DEF Kind
  <2>3. document' \in DocumentStatus /\ j.kind = kind /\ j.about = s
    BY <1>1, <1>7 DEF Request
  <2>4. CASE kind = "approve"
    <3>1. Begin(c, "asking", j)
      BY <1>7, <2>4 DEF Request
    <3> QED
      BY <2>1, <2>2, <2>3, <2>4, <3>1, BeginIInv
  <2>5. CASE kind = "reject"
    <3>1. Begin(c, "rejecting", j)
      BY <1>7, <2>5 DEF Request
    <3> QED
      BY <2>1, <2>2, <2>3, <2>5, <3>1, BeginIInv
  <2> QED
    BY <2>4, <2>5
<1>8. ASSUME NEW kind \in {"yes", "no"}, Reply(c, kind) PROVE IInv'
  <2> DEFINE j == [kind |-> kind, about |-> session.about, session |-> session.id]
  <2>1. /\ session.about \in 0..MaxSuggestions /\ session.id \in Nat
        /\ session.about # 0 /\ session.about <= Len(status)
    BY <1>8 DEF Reply, DataTypes, Kept
  <2>2. j \in Job /\ j.kind = kind /\ j.about = session.about /\ document' \in DocumentStatus
    BY <1>1, <1>2, <1>8, <2>1 DEF Kind, Reply
  <2>3. CASE kind = "yes"
    <3>1. Begin(c, "reading", j)
      BY <1>8, <2>3 DEF Reply
    <3> QED
      BY <2>1, <2>2, <2>3, <3>1, BeginIInv
  <2>4. CASE kind = "no"
    <3>1. Begin(c, "rejecting", j)
      BY <1>8, <2>4 DEF Reply
    <3> QED
      BY <2>1, <2>2, <2>4, <3>1, BeginIInv
  <2> QED
    BY <2>3, <2>4
<1> QED
  BY <1>5, <1>6, <1>7, <1>8

(* The process dies and every call with it; a session lapses. *)
LEMMA MishapIInv ==
  ASSUME SuggestionAssumption, IInv, Crash \/ Lapse
  PROVE  IInv'
<1> USE DEF IInv, data, sessions, callVars
<1>1. UNCHANGED <<data, opened, calls, overlapped>> /\ session' \in {session, NoSession} /\ BudgetTypes'
  BY MishapTypes DEF Crash, Lapse
<1>2. DataTypes' /\ ExecutedWasApplied' /\ Grows
  BY <1>1, NothingTypes, LenProperties DEF DataTypes, ExecutedWasApplied, Grows
<1>3. Kept'
  <2>1. Len(status) \in Nat
    BY LenProperties DEF DataTypes
  <2> QED
    BY <1>1, <2>1, NothingTypes DEF Kept, Known
<1>4. CASE Crash
  <2>1. Leave(Call)
    BY <1>4 DEF Crash
  <2>2. /\ CallTypes'
        /\ \A c \in Call : pc'[c] = "idle" /\ job'[c] = NoJob /\ made'[c] = <<>> /\ seen'[c] = Nothing
    BY <2>1, LeaveTypes
  <2>3. \A c \in Call : CallOK(c)'
    BY <1>2, <2>2, IdleOK
  <2>4. Alone'
    BY <2>2 DEF Alone
  <2> QED
    BY <1>1, <1>2, <1>3, <2>2, <2>3, <2>4
<1>5. CASE Lapse
  <2>1. UNCHANGED callVars
    BY <1>5 DEF Lapse
  <2>2. CallTypes'
    BY <2>1 DEF CallTypes
  <2>3. \A c \in Call : CallOK(c)'
    BY <1>2, <2>1, OtherCall
  <2>4. Alone'
    BY <1>1, <2>1 DEF Alone
  <2> QED
    BY <1>1, <1>2, <1>3, <2>2, <2>3, <2>4
<1> QED
  BY <1>4, <1>5

-----------------------------------------------------------------------------
LEMMA NextIInv == SuggestionAssumption /\ IInv /\ [Next]_vars => IInv'
<1> SUFFICES ASSUME SuggestionAssumption, IInv, [Next]_vars PROVE IInv'
  OBVIOUS
<1>1. ASSUME NEW c \in Call, Step(c) PROVE IInv'
  <2>1. CASE \/ CreateJob(c) \/ CreateExtraction(c) \/ Extracted(c) \/ Suggested(c)
             \/ Ask(c) \/ CheckSession(c) \/ Tell(c) \/ Return(c)
             \/ RefreshDocument(c) \/ CompleteDocument(c) \/ EndSession(c)
    BY <2>1, QuietIInv
  <2>2. CASE CreateSuggestion(c)
    BY <2>2, CreateSuggestionIInv
  <2>3. CASE InitializeQueue(c) \/ StartQueue(c)
    BY <2>3, QueueIInv
  <2>4. CASE OpenSession(c)
    BY <2>4, OpenSessionIInv
  <2>5. CASE ReadSuggestion(c)
    BY <2>5, ReadSuggestionIInv
  <2>6. CASE Write(c)
    BY <2>6, WriteIInv
  <2>7. CASE MarkExecuted(c) \/ Reject(c)
    BY <2>7, SettleIInv
  <2>8. CASE ListSuggestions(c) \/ ReadQueue(c)
    BY <2>8, ReadIInv
  <2>9. CASE AdvanceQueue(c)
    BY <2>9, AdvanceQueueIInv
  <2>10. CASE FailJob(c) \/ MarkFailed(c)
    BY <2>10, MarkFailedIInv
  <2> QED
    BY <1>1, <2>1, <2>2, <2>3, <2>4, <2>5, <2>6, <2>7, <2>8, <2>9, <2>10 DEF Step
<1>2. ASSUME NEW c \in Call, Throw(c) \/ Strand(c) PROVE IInv'
  BY <1>2, ThrowIInv, QuietIInv
<1>3. CASE Crash \/ Lapse
  BY <1>3, MishapIInv
<1>4. CASE UNCHANGED vars
  <2>1. UNCHANGED <<data, sessions, callVars, budget>>
    BY <1>4 DEF vars
  <2>2. DataTypes' /\ CallTypes' /\ BudgetTypes' /\ Kept' /\ ExecutedWasApplied'
    BY <2>1 DEF data, sessions, callVars, budget, IInv, DataTypes, CallTypes, BudgetTypes, Kept, Known,
                ExecutedWasApplied
  <2>3. ASSUME NEW c \in Call PROVE CallOK(c)'
    <3>1. Grows
      BY <2>1, LenProperties DEF data, IInv, DataTypes, Grows
    <3> QED
      BY <2>1, <2>2, <3>1, OtherCall DEF IInv, callVars
  <2>4. Alone'
    BY <2>1 DEF IInv, data, callVars, budget, Alone
  <2> QED
    BY <2>2, <2>3, <2>4 DEF IInv
<1> QED
  BY <1>1, <1>2, <1>3, <1>4, CallsIInv DEF Next

LEMMA SpecIInv == SuggestionAssumption /\ Spec => []IInv
<1>1. SuggestionAssumption => (Init => IInv)
  BY InitIInv
<1>2. SuggestionAssumption => (IInv /\ [Next]_vars => IInv')
  BY NextIInv
<1> SUFFICES ASSUME SuggestionAssumption PROVE Spec => []IInv
  OBVIOUS
<1> QED
  BY <1>1, <1>2, PTL DEF Spec

LEMMA IInvTypes == SuggestionAssumption /\ IInv => TypeOK
<1> SUFFICES ASSUME SuggestionAssumption, IInv PROVE TypeOK
  OBVIOUS
<1>1. calls \in 0..MaxCalls /\ overlapped \in BOOLEAN
  BY DEF IInv, BudgetTypes
<1>2. /\ lapses \in 0..MaxMishaps /\ faults \in 0..MaxMishaps
      /\ crashes \in 0..MaxMishaps /\ stranded \in 0..MaxMishaps
  BY DEF IInv, BudgetTypes, SuggestionAssumption
<1>3. ASSUME NEW c \in Call
      PROVE  /\ job[c] \in [kind : Kind, about : 0..MaxSuggestions, session : Nat] \union {NoJob}
             /\ made[c] \in Seq(Id)
             /\ seen[c] \in [queue : Queue, verdict : {"none", "APPROVED", "REJECTED"}]
             /\ pc[c] = "asking" => NextAbout(c) \in DOMAIN status
  <2>1. DOMAIN status = 1..Len(status)
    BY LenProperties DEF IInv, DataTypes
  <2> QED
    BY <2>1 DEF IInv, CallTypes, CallOK, Job, Sight
<1> QED
  BY <1>1, <1>2, <1>3 DEF TypeOK, IInv, DataTypes

(* Documents, suggestions, queues and sessions have their types; in particular
   whatever is asked about is a suggestion there is. *)
THEOREM DocumentTypes == SuggestionAssumption /\ Spec => []TypeOK
<1> SUFFICES ASSUME SuggestionAssumption PROVE Spec => []TypeOK
  OBVIOUS
<1>1. IInv => TypeOK
  BY IInvTypes
<1> QED
  BY <1>1, SpecIInv, PTL

(* "The suggested action has been applied by the backend": a suggestion marked
   EXECUTED has all its transactions, whatever overlapped, failed or died
   (executeApprovedSuggestion). *)
THEOREM DocumentExecuted == SuggestionAssumption /\ Spec => []ExecutedWasApplied
<1>1. IInv => ExecutedWasApplied
  BY DEF IInv
<1> QED
  BY <1>1, SpecIInv, PTL

LEMMA SettledStays ==
  ASSUME SuggestionAssumption, IInv, [Next]_vars, ~overlapped',
         NEW s \in DOMAIN status, status[s] \in Terminal
  PROVE  written'[s] = written[s]
<1>1. CASE UNCHANGED written
  BY <1>1
<1>2. ASSUME NEW c \in Call, Write(c) PROVE written'[s] = written[s]
  <2>1. /\ pc[c] = "writing" /\ ~overlapped
        /\ written' = [written EXCEPT ![job[c].about] = @ + 1]
    BY <1>2 DEF Write, budget
  <2>2. status[job[c].about] = "PENDING"
    <3>1. Alone
      BY DEF IInv
    <3> QED
      BY <2>1, <3>1 DEF Alone
  <2>3. s # job[c].about
    BY <2>2 DEF Terminal
  <2>4. s \in Id
    <3>1. DOMAIN status = 1..Len(status) /\ Len(status) \in Nat /\ Len(status) <= MaxSuggestions
      BY LenProperties DEF IInv, DataTypes
    <3> QED
      BY <3>1 DEF Id, SuggestionAssumption
  <2> QED
    BY <2>1, <2>3, <2>4 DEF IInv, DataTypes
<1>3. ASSUME NEW c \in Call, Step(c), ~Write(c) PROVE UNCHANGED written
  BY <1>3 DEF Step, data, CreateJob, CreateExtraction, Extracted, CreateSuggestion, Suggested, InitializeQueue,
              StartQueue, Ask, CheckSession, OpenSession, Tell, Return, ReadSuggestion, MarkExecuted,
              Reject, ListSuggestions, RefreshDocument, ReadQueue, AdvanceQueue, CompleteDocument, EndSession,
              FailJob, MarkFailed
<1>4. ASSUME NEW c \in Call,
             \/ \E kind \in {"process", "store"} : Process(c, kind)
             \/ GenerateAgain(c)
             \/ \E kind \in {"approve", "reject"}, r \in Id : Request(c, kind, r)
             \/ \E kind \in {"yes", "no"} : Reply(c, kind)
             \/ Throw(c) \/ Strand(c)
      PROVE  UNCHANGED written
  BY <1>4 DEF Process, GenerateAgain, Request, Reply, Begin, Throw, Strand, data
<1>5. CASE Crash \/ Lapse \/ UNCHANGED vars
  BY <1>1, <1>5 DEF Crash, Lapse, vars, data
<1>6. CASE \E c \in Call : Step(c)
  BY <1>1, <1>2, <1>3, <1>6
<1> QED
  BY <1>1, <1>4, <1>5, <1>6 DEF Next

(* Without overlaps a suggestion that was executed, rejected or failed is not
   written for again (executeApprovedSuggestion takes up pending ones only). *)
THEOREM DocumentDecided == SuggestionAssumption /\ Spec => DecidedChangesNothing
<1> SUFFICES ASSUME SuggestionAssumption PROVE Spec => DecidedChangesNothing
  OBVIOUS
<1>1. IInv /\ [Next]_vars =>
        [~overlapped' => \A s \in DOMAIN status : status[s] \in Terminal => written'[s] = written[s]]_vars
  BY SettledStays
<1> QED
  BY <1>1, SpecIInv, PTL DEF Spec, DecidedChangesNothing

-----------------------------------------------------------------------------
(* Why a queue that is through has nothing pending: as long as calls do not
   overlap and nothing fails, the queue passes an id only for a suggestion whose
   session was answered, and no suggestion gets a session after that. *)
Quiet == ~overlapped /\ faults = 0 /\ crashes = 0

Replying(c) == job[c].kind \in {"yes", "no"}

(* The reply decides suggestion s; or it has moved the queue and still has to
   ask the next one and to end its session. *)
Resolving(c, s) == Replying(c) /\ pc[c] \in Deciding /\ job[c].about = s
Moving == {"completing", "asking", "checking", "opening", "telling", "ending"}
MovingOn(c) == Replying(c) /\ pc[c] \in Moving

(* Suggestions no reply will move the queue for again. *)
Spent ==
    {s \in DOMAIN status :
        /\ status[s] # "PENDING"
        /\ session.about = s => \E c \in Call : MovingOn(c) /\ job[c].session = session.id
        /\ \A c \in Call : ~Resolving(c, s)}

Passed == IF queue.completed THEN Len(queue.ids) ELSE queue.index - 1
QueueIds == {queue.ids[n] : n \in DOMAIN queue.ids}

ReplyOK(c) ==
    /\ Replying(c) /\ pc[c] \in Deciding /\ session # NoSession => session.id = job[c].session
    /\ pc[c] \in {"listing", "marking", "advancing", "persisting"} => status[job[c].about] # "PENDING"
    /\ pc[c] = "persisting" => seen[c].queue = queue
    /\ pc[c] \in {"checking", "opening"} => status[NextAbout(c)] = "PENDING"
    /\ pc[c] = "opening" => session = NoSession
    /\ pc[c] \notin {"failing", "failed"}

ReviewIInv ==
    Quiet =>
        /\ \A c \in Call : ReplyOK(c)
        /\ DOMAIN status \subseteq QueueIds => Passed <= Cardinality(Spent)

LEMMA QuietBefore ==
  ASSUME SuggestionAssumption, IInv, [Next]_vars, Quiet'
  PROVE  Quiet /\ UNCHANGED <<faults, crashes>>
<1>1. faults \in Nat /\ crashes \in Nat /\ overlapped \in BOOLEAN
  BY DEF IInv, BudgetTypes
<1>2. ASSUME NEW c \in Call, Step(c) PROVE UNCHANGED budget
  BY <1>2 DEF Step, CreateJob, CreateExtraction, Extracted, CreateSuggestion, Suggested, InitializeQueue,
     StartQueue, Ask, CheckSession, OpenSession, Tell, Return, ReadSuggestion, Write, MarkExecuted, Reject,
     ListSuggestions, RefreshDocument, ReadQueue, AdvanceQueue, CompleteDocument, EndSession, FailJob, MarkFailed
<1>3. ASSUME NEW c \in Call,
             \/ \E kind \in {"process", "store"} : Process(c, kind)
             \/ GenerateAgain(c)
             \/ \E kind \in {"approve", "reject"}, s \in Id : Request(c, kind, s)
             \/ \E kind \in {"yes", "no"} : Reply(c, kind)
      PROVE  Quiet /\ UNCHANGED <<faults, crashes>>
  BY <1>1, <1>3 DEF Process, GenerateAgain, Request, Reply, Begin, Quiet
<1>4. ASSUME NEW c \in Call, Throw(c) PROVE FALSE
  BY <1>1, <1>4 DEF Throw, Quiet
<1>5. ~ Crash
  BY <1>1 DEF Crash, Quiet
<1>6. CASE Lapse \/ UNCHANGED vars \/ \E c \in Call : Strand(c)
  <2>1. UNCHANGED <<faults, crashes, overlapped>>
    BY <1>6 DEF Lapse, Strand, vars, budget
  <2> QED
    BY <2>1 DEF Quiet
<1>7. CASE \E c \in Call : Step(c)
  BY <1>2, <1>7 DEF budget, Quiet
<1> QED
  BY <1>3, <1>4, <1>5, <1>6, <1>7 DEF Next

(* The queue rests, and nothing that was spent comes back. *)
LEMMA CountStays ==
  ASSUME IInv, ReviewIInv, Quiet, queue' = queue, DOMAIN status' = DOMAIN status, Spent \subseteq Spent', IInv',
         SuggestionAssumption
  PROVE  DOMAIN status' \subseteq QueueIds' => Passed' <= Cardinality(Spent')
<1> SUFFICES ASSUME DOMAIN status' \subseteq QueueIds' PROVE Passed' <= Cardinality(Spent')
  OBVIOUS
<1>1. Passed' = Passed /\ QueueIds' = QueueIds
  BY DEF Passed, QueueIds
<1>2. Passed <= Cardinality(Spent)
  BY <1>1 DEF ReviewIInv
<1>3. IsFiniteSet(Spent')
  <2>1. DOMAIN status' = 1..Len(status') /\ Len(status') \in Nat
    BY LenProperties DEF IInv, DataTypes
  <2>2. Spent' \subseteq 1..Len(status')
    BY <2>1 DEF Spent
  <2>3. IsFiniteSet(1..Len(status'))
    BY <2>1, FS_Interval
  <2> QED
    BY <2>2, <2>3, FS_Subset
<1>4. Cardinality(Spent) <= Cardinality(Spent') /\ Cardinality(Spent) \in Nat /\ Cardinality(Spent') \in Nat
  BY <1>3, FS_Subset, FS_CardinalityType
<1>5. Passed \in Int
  BY LenProperties DEF IInv, DataTypes, Queue, Passed
<1> QED
  BY <1>1, <1>2, <1>4, <1>5

(* A step of the one call at work that leaves the queue alone. *)
LEMMA ActorStep ==
  ASSUME SuggestionAssumption, IInv, IInv', ReviewIInv, Quiet, NEW c \in Call,
         \A d \in Call \ {c} : pc[d] = "idle" /\ pc'[d] = "idle",
         queue' = queue, DOMAIN status' = DOMAIN status,
         \A s \in DOMAIN status : status[s] # "PENDING" => status'[s] # "PENDING",
         Replying(c)' /\ pc'[c] \in Deciding =>
            \/ Replying(c) /\ pc[c] \in Deciding /\ job'[c].about = job[c].about
            \/ ~MovingOn(c) /\ job'[c].about = session.about,
         \/ session'.about = session.about /\ session'.id = session.id
            /\ (MovingOn(c) /\ job[c].session = session.id => MovingOn(c)' /\ job'[c].session = job[c].session)
         \/ session'.about \notin DOMAIN status
         \/ status[session'.about] = "PENDING",
         ReplyOK(c)'
  PROVE  ReviewIInv'
<1>1. Spent \subseteq Spent'
  <2> SUFFICES ASSUME NEW s \in Spent PROVE s \in Spent'
    OBVIOUS
  <2>1. s \in DOMAIN status' /\ status'[s] # "PENDING" /\ s \in DOMAIN status /\ status[s] # "PENDING"
    BY DEF Spent
  <2>2. ASSUME NEW d \in Call, Resolving(d, s)' PROVE FALSE
    <3>1. d = c
      BY <2>2 DEF Resolving, Deciding
    <3>2. job[c].about # s \/ ~(Replying(c) /\ pc[c] \in Deciding)
      BY DEF Spent, Resolving
    <3>3. ~MovingOn(c) /\ session.about = s
      BY <2>2, <3>1, <3>2 DEF Resolving
    <3>4. PICK e \in Call : MovingOn(e)
      BY <3>3 DEF Spent
    <3> QED
      BY <3>3, <3>4 DEF MovingOn, Moving
  <2>3. ASSUME session'.about = s PROVE \E e \in Call : (MovingOn(e) /\ job[e].session = session.id)'
    <3>1. /\ session'.about = session.about /\ session'.id = session.id
          /\ (MovingOn(c) /\ job[c].session = session.id => MovingOn(c)' /\ job'[c].session = job[c].session)
      BY <2>1, <2>3
    <3>2. PICK e \in Call : MovingOn(e) /\ job[e].session = session.id
      BY <2>3, <3>1 DEF Spent
    <3>3. e = c
      BY <3>2 DEF MovingOn, Moving
    <3> QED
      BY <3>1, <3>2, <3>3
  <2> QED
    BY <2>1, <2>2, <2>3 DEF Spent
<1>2. \A d \in Call : ReplyOK(d)'
  BY DEF ReplyOK, Deciding
<1> QED
  BY <1>1, <1>2, CountStays DEF ReviewIInv

LEMMA AtWork ==
  ASSUME IInv, Quiet, NEW c \in Call, pc[c] # "idle", NEW d \in Call \ {c}
  PROVE  pc[d] = "idle"
  BY DEF IInv, Alone, Quiet

(* The call goes on; sessions, suggestions and queue rest. *)
LEMMA GoesOn ==
  ASSUME SuggestionAssumption, IInv, IInv', ReviewIInv, Quiet, NEW c \in Call, pc[c] # "idle",
         NEW state \in PC, Goto(c, state), UNCHANGED <<queue, status, session, job>>,
         Replying(c) /\ state \in Deciding => pc[c] \in Deciding,
         Replying(c) /\ pc[c] \in Moving => state \in Moving,
         ReplyOK(c)'
  PROVE  ReviewIInv'
<1>1. pc'[c] = state /\ \A d \in Call \ {c} : pc'[d] = pc[d]
  BY GotoTypes DEF IInv
<1>2. \A d \in Call \ {c} : pc[d] = "idle" /\ pc'[d] = "idle"
  BY <1>1, AtWork
<1>3. Replying(c)' = Replying(c) /\ (MovingOn(c) => MovingOn(c)')
  BY <1>1 DEF Replying, MovingOn, Moving
<1> QED
  BY <1>1, <1>2, <1>3, ActorStep

(* The call ends, and its session if it was to end that. *)
LEMMA Ends ==
  ASSUME SuggestionAssumption, IInv, IInv', ReviewIInv, Quiet, NEW c \in Call, pc[c] # "idle",
         Leave({c}), UNCHANGED <<queue, status>>,
         \/ session' = session /\ (MovingOn(c) => session.id # job[c].session)
         \/ session' = NoSession
  PROVE  ReviewIInv'
<1>1. /\ pc'[c] = "idle" /\ job'[c] = NoJob
      /\ \A d \in Call \ {c} : pc'[d] = pc[d]
  BY LeaveTypes DEF IInv
<1>2. \A d \in Call \ {c} : pc[d] = "idle" /\ pc'[d] = "idle"
  BY <1>1, AtWork
<1>3. ~Replying(c)'
  BY <1>1, NothingTypes DEF Replying
<1>4. ReplyOK(c)'
  BY <1>1, <1>3 DEF ReplyOK, Deciding
<1>5. session' = NoSession => session'.about \notin DOMAIN status
  <2>1. DOMAIN status = 1..Len(status)
    BY LenProperties DEF IInv, DataTypes
  <2> QED
    BY <2>1, NothingTypes
<1> QED
  BY <1>2, <1>3, <1>4, <1>5, ActorStep

LEMMA FinishedMoves ==
  ASSUME NEW c \in Call, Finished(c)
  PROVE  \E state \in {"ending", "contributing", "leaving"} :
            Goto(c, state) /\ (Replying(c) => state = "ending")
  BY DEF Finished, Replying

(* Steps that touch neither the suggestions nor the queue. *)
LEMMA QuietReview ==
  ASSUME SuggestionAssumption, IInv, IInv', ReviewIInv, Quiet, NEW c \in Call,
         \/ CreateJob(c) \/ CreateExtraction(c) \/ Extracted(c) \/ Suggested(c) \/ StartQueue(c)
         \/ Ask(c) \/ CheckSession(c) \/ Tell(c) \/ Return(c) \/ Strand(c)
         \/ ReadSuggestion(c) \/ Write(c) \/ ListSuggestions(c) \/ RefreshDocument(c)
         \/ ReadQueue(c) \/ CompleteDocument(c) \/ EndSession(c)
  PROVE  ReviewIInv'
<1> USE DEF data, sessions
<1>1. ReplyOK(c) /\ CallOK(c) /\ job[c] \in Job \union {NoJob}
  BY DEF ReviewIInv, IInv, CallTypes
<1>2. \A state \in PC : Goto(c, state) => pc'[c] = state
  BY GotoTypes DEF IInv
<1>3. CASE CreateJob(c)
  BY <1>3, <1>2, GoesOn DEF CreateJob, ReplyOK, PC, Deciding, Moving
<1>4. CASE CreateExtraction(c)
  BY <1>4, <1>2, GoesOn DEF CreateExtraction, ReplyOK, PC, Deciding, Moving
<1>5. CASE Extracted(c)
  <2>1. CASE job[c].kind = "process"
    BY <1>5, <1>2, <2>1, GoesOn DEF Extracted, ReplyOK, PC, Deciding, Moving
  <2>2. CASE job[c].kind # "process"
    BY <1>5, <2>2, Ends DEF Extracted, MovingOn, Moving
  <2> QED
    BY <2>1, <2>2
<1>6. CASE Suggested(c)
  <2>1. CASE job[c].kind = "process"
    BY <1>6, <1>2, <2>1, GoesOn DEF Suggested, ReplyOK, PC, Deciding, Moving
  <2>2. CASE job[c].kind # "process"
    BY <1>6, <2>2, Ends DEF Suggested, MovingOn, Moving
  <2> QED
    BY <2>1, <2>2
<1>7. CASE Ask(c)
  <2>1. CASE status[NextAbout(c)] = "PENDING"
    <3>1. NextAbout(c)' = NextAbout(c) /\ Goto(c, "checking") /\ UNCHANGED <<queue, status, session, job>>
      BY <1>7, <2>1 DEF Ask, NextAbout
    <3>2. ReplyOK(c)'
      BY <1>2, <2>1, <3>1 DEF ReplyOK, Deciding, PC
    <3> QED
      BY <1>7, <3>1, <3>2, GoesOn DEF Ask, PC, Deciding, Moving
  <2>2. CASE status[NextAbout(c)] # "PENDING"
    <3>1. PICK state \in {"ending", "contributing", "leaving"} : Goto(c, state) /\ (Replying(c) => state = "ending")
      BY <1>7, <2>2, FinishedMoves DEF Ask
    <3>2. UNCHANGED <<queue, status, session, job>>
      BY <1>7, <2>2 DEF Ask, Finished
    <3> QED
      BY <1>7, <1>2, <3>1, <3>2, GoesOn DEF Ask, ReplyOK, PC, Deciding, Moving
  <2> QED
    BY <2>1, <2>2
<1>8. CASE CheckSession(c)
  <2>1. CASE session = NoSession
    <3>1. /\ NextAbout(c)' = NextAbout(c) /\ Goto(c, "opening") /\ UNCHANGED <<queue, status, session, job>>
          /\ pc[c] = "checking"
      BY <1>8, <2>1 DEF CheckSession, NextAbout
    <3>2. ReplyOK(c)'
      BY <1>1, <1>2, <2>1, <3>1 DEF ReplyOK, Deciding, PC
    <3> QED
      BY <3>1, <3>2, GoesOn DEF PC, Deciding, Moving
  <2>2. CASE session # NoSession
    <3>1. PICK state \in {"ending", "contributing", "leaving"} : Goto(c, state) /\ (Replying(c) => state = "ending")
      BY <1>8, <2>2, FinishedMoves DEF CheckSession
    <3>2. UNCHANGED <<queue, status, session, job>>
      BY <1>8, <2>2 DEF CheckSession, Finished
    <3> QED
      BY <1>8, <1>2, <3>1, <3>2, GoesOn DEF CheckSession, ReplyOK, PC, Deciding, Moving
  <2> QED
    BY <2>1, <2>2
<1>9. CASE Tell(c)
  <2>1. PICK state \in {"ending", "contributing", "leaving"} : Goto(c, state) /\ (Replying(c) => state = "ending")
    BY <1>9, FinishedMoves DEF Tell
  <2>2. UNCHANGED <<queue, status, session, job>>
    BY <1>9 DEF Tell, Finished
  <2> QED
    BY <1>9, <1>2, <2>1, <2>2, GoesOn DEF Tell, ReplyOK, PC, Deciding, Moving
<1>10. CASE Return(c) \/ Strand(c)
  BY <1>10, Ends DEF Return, Strand, Uncaught, MovingOn, Moving
<1>11. CASE ReadSuggestion(c)
  <2>1. CASE Executable(job[c].about)
    BY <1>1, <1>11, <1>2, <2>1, GoesOn DEF ReadSuggestion, ReplyOK, PC, Deciding, Moving, Replying
  <2>2. CASE ~Executable(job[c].about)
    BY <1>11, <2>2, Ends DEF ReadSuggestion, MovingOn, Moving
  <2> QED
    BY <2>1, <2>2
<1>12. CASE Write(c)
  <2>1. PICK state \in {"writing", "executing"} : Goto(c, state)
    BY <1>12 DEF Write
  <2> QED
    BY <1>1, <1>12, <1>2, <2>1, GoesOn DEF Write, ReplyOK, PC, Deciding, Moving, Replying
<1>13. CASE ListSuggestions(c)
  BY <1>1, <1>13, <1>2, GoesOn DEF ListSuggestions, ReplyOK, PC, Deciding, Moving, Replying
<1>14. CASE RefreshDocument(c)
  <2>1. CASE job[c].kind = "reject"
    BY <1>14, <2>1, Ends DEF RefreshDocument, MovingOn, Moving
  <2>2. CASE job[c].kind # "reject"
    BY <1>1, <1>14, <1>2, <2>2, GoesOn DEF RefreshDocument, ReplyOK, PC, Deciding, Moving, Replying
  <2> QED
    BY <2>1, <2>2
<1>15. CASE ReadQueue(c)
  <2>1. CASE queue.exists
    <3>1. seen'[c].queue = queue
      BY <1>15, <2>1 DEF ReadQueue, IInv, CallTypes, Sight
    <3> QED
      BY <1>1, <1>15, <1>2, <2>1, <3>1, GoesOn DEF ReadQueue, ReplyOK, PC, Deciding, Moving, Replying
  <2>2. CASE ~queue.exists
    BY <1>15, <2>2, Ends DEF ReadQueue, MovingOn, Moving
  <2> QED
    BY <2>1, <2>2
<1>16. CASE CompleteDocument(c)
  BY <1>16, <1>2, GoesOn DEF CompleteDocument, ReplyOK, PC, Deciding, Moving
<1>17. CASE EndSession(c)
  BY <1>17, Ends DEF EndSession
<1>18. CASE StartQueue(c)
  <2>1. job[c].kind = "process" /\ pc[c] = "starting"
    BY <1>18, <1>1 DEF StartQueue, CallOK
  <2>2. CASE ~queue.completed /\ queue.index \in DOMAIN queue.ids
    <3>1. pc'[c] = "asking" /\ job'[c].kind = "process" /\ UNCHANGED <<queue, status, session>>
      BY <1>18, <1>2, <1>1, <2>1, <2>2 DEF StartQueue, PC, IInv, CallTypes, Job, NoJob
    <3>2. \A d \in Call \ {c} : pc[d] = "idle" /\ pc'[d] = "idle"
      BY <1>18, <2>1, <2>2, AtWork, GotoTypes DEF StartQueue, IInv, PC
    <3>3. ~Replying(c)' /\ ~MovingOn(c) /\ ReplyOK(c)'
      BY <2>1, <3>1 DEF Replying, MovingOn, Moving, ReplyOK, Deciding
    <3> QED
      BY <3>1, <3>2, <3>3, ActorStep
  <2>3. CASE ~(~queue.completed /\ queue.index \in DOMAIN queue.ids)
    BY <1>18, <1>2, <2>1, <2>3, GoesOn DEF StartQueue, ReplyOK, PC, Deciding, Moving, Replying
  <2> QED
    BY <2>2, <2>3
<1> QED
  BY <1>3, <1>4, <1>5, <1>6, <1>7, <1>8, <1>9, <1>10, <1>11, <1>12, <1>13, <1>14, <1>15, <1>16, <1>17, <1>18

(* A suggestion is decided. *)
LEMMA SettleReview ==
  ASSUME SuggestionAssumption, IInv, IInv', ReviewIInv, Quiet, NEW c \in Call, MarkExecuted(c) \/ Reject(c)
  PROVE  ReviewIInv'
<1>1. PICK v \in {"EXECUTED", "REJECTED"} : status' = [status EXCEPT ![job[c].about] = v]
  BY DEF MarkExecuted, Reject
<1>2. Goto(c, "listing") /\ UNCHANGED <<queue, session, job>> /\ pc[c] \in Deciding /\ pc[c] # "idle"
  BY DEF MarkExecuted, Reject, data, sessions, Deciding
<1>3. pc'[c] = "listing" /\ \A d \in Call \ {c} : pc[d] = "idle" /\ pc'[d] = "idle"
  BY <1>2, GotoTypes, AtWork DEF IInv, PC
<1>4. DOMAIN status' = DOMAIN status /\ \A s \in DOMAIN status : status[s] # "PENDING" => status'[s] # "PENDING"
  BY <1>1 DEF IInv, DataTypes
<1>5. job[c].about \in DOMAIN status
  <2>1. DOMAIN status = 1..Len(status) /\ Len(status) \in Nat
    BY LenProperties DEF IInv, DataTypes
  <2>2. job[c].about \in Nat /\ job[c].about <= Len(status) /\ job[c].about # 0
    BY <1>2, AboutTypes DEF IInv, CallOK
  <2> QED
    BY <2>1, <2>2
<1>6. ReplyOK(c) /\ ~MovingOn(c)
  BY <1>2 DEF ReviewIInv, MovingOn, Moving, Deciding
<1>7. ReplyOK(c)'
  BY <1>1, <1>2, <1>3, <1>5, <1>6 DEF ReplyOK, Replying
<1> QED
  BY <1>2, <1>3, <1>4, <1>6, <1>7, ActorStep DEF Replying

(* A session is opened for a pending suggestion. *)
LEMMA OpenReview ==
  ASSUME SuggestionAssumption, IInv, IInv', ReviewIInv, Quiet, NEW c \in Call, OpenSession(c)
  PROVE  ReviewIInv'
<1>1. session = NoSession /\ status[NextAbout(c)] = "PENDING"
  BY DEF ReviewIInv, ReplyOK, OpenSession
<1>2. /\ session' = [id |-> opened + 1, about |-> NextAbout(c)] /\ Goto(c, "telling")
      /\ UNCHANGED <<queue, status, job>> /\ pc[c] = "opening"
  BY <1>1 DEF OpenSession, data
<1>3. pc'[c] = "telling" /\ \A d \in Call \ {c} : pc[d] = "idle" /\ pc'[d] = "idle"
  BY <1>2, GotoTypes, AtWork DEF IInv, PC
<1>4. ReplyOK(c)'
  BY <1>3 DEF ReplyOK, Deciding
<1>5. status[session'.about] = "PENDING"
  BY <1>1, <1>2
<1>6. pc'[c] \notin Deciding
  BY <1>3 DEF Deciding
<1> QED
  BY <1>2, <1>3, <1>4, <1>5, <1>6, ActorStep

(* A new suggestion is in no queue yet. *)
LEMMA CreateReview ==
  ASSUME SuggestionAssumption, IInv, IInv', ReviewIInv, Quiet, NEW c \in Call, CreateSuggestion(c)
  PROVE  ReviewIInv'
<1>1. /\ status' = Append(status, "PENDING") /\ UNCHANGED <<queue, session, pc, job>> /\ pc[c] = "generating"
  BY DEF CreateSuggestion, sessions
<1>2. Len(status') = Len(status) + 1 /\ Len(status) \in Nat /\ DOMAIN status' = 1..Len(status')
  BY <1>1, AppendProperties, LenProperties DEF IInv, DataTypes, SuggestionStatus
<1>3. ~(DOMAIN status' \subseteq QueueIds')
  <2>1. DOMAIN queue.ids = 1..Len(queue.ids) /\ \A n \in 1..Len(queue.ids) : queue.ids[n] <= Len(status)
    BY LenProperties DEF IInv, DataTypes, Queue, Kept, Known
  <2>2. Len(status) + 1 \notin QueueIds'
    BY <1>1, <1>2, <2>1 DEF QueueIds
  <2>3. Len(status) + 1 \in DOMAIN status'
    BY <1>2
  <2> QED
    BY <2>2, <2>3
<1>4. \A d \in Call : ReplyOK(d)'
  BY <1>1, AtWork DEF ReplyOK, Deciding
<1> QED
  BY <1>3, <1>4 DEF ReviewIInv

(* A queue starts with nothing passed. *)
LEMMA InitializeReview ==
  ASSUME SuggestionAssumption, IInv, IInv', ReviewIInv, Quiet, NEW c \in Call, InitializeQueue(c)
  PROVE  ReviewIInv'
<1>1. /\ queue' = [ids |-> made[c], index |-> 1, completed |-> made[c] = <<>>, exists |-> TRUE]
      /\ Goto(c, "starting") /\ UNCHANGED <<status, session, job>> /\ pc[c] = "queueing"
  BY DEF InitializeQueue, sessions
<1>2. pc'[c] = "starting" /\ \A d \in Call \ {c} : pc'[d] = "idle"
  BY <1>1, GotoTypes, AtWork DEF IInv, PC
<1>3. \A d \in Call : ReplyOK(d)'
  BY <1>2 DEF ReplyOK, Deciding
<1>4. Passed' = 0
  <2>1. queue'.ids = made[c] /\ queue'.index = 1 /\ queue'.completed = (made[c] = <<>>) /\ Len(<<>>) = 0
    BY <1>1, EmptySeq
  <2>2. CASE made[c] = <<>>
    BY <2>1, <2>2 DEF Passed
  <2>3. CASE made[c] # <<>>
    <3>1. ~queue'.completed
      BY <2>1, <2>3
    <3> QED
      BY <2>1, <3>1 DEF Passed
  <2> QED
    BY <2>2, <2>3
<1>5. Cardinality(Spent') \in Nat
  <2>1. DOMAIN status' = 1..Len(status') /\ Len(status') \in Nat
    BY LenProperties DEF IInv, DataTypes
  <2>2. IsFiniteSet(1..Len(status')) /\ Spent' \subseteq 1..Len(status')
    BY <2>1, FS_Interval DEF Spent
  <2> QED
    BY <2>2, FS_Subset, FS_CardinalityType
<1> QED
  BY <1>3, <1>4, <1>5 DEF ReviewIInv

(* The queue moves on, for the suggestion the reply decided. *)
LEMMA AdvanceReview ==
  ASSUME SuggestionAssumption, IInv, IInv', ReviewIInv, Quiet, NEW c \in Call, AdvanceQueue(c)
  PROVE  ReviewIInv'
<1> DEFINE s == job[c].about
           next == Advanced(queue)
<1>1. ReplyOK(c) /\ CallOK(c) /\ pc[c] = "persisting"
  BY DEF ReviewIInv, IInv, AdvanceQueue
<1>2. seen[c].queue = queue /\ Replying(c) /\ status[s] # "PENDING" /\ (session # NoSession => session.id = job[c].session)
  BY <1>1 DEF ReplyOK, CallOK, Replying, Deciding
<1>3. /\ queue' = next /\ UNCHANGED <<status, session, job>>
      /\ Goto(c, IF next.completed THEN "completing" ELSE "asking")
  BY <1>2 DEF AdvanceQueue, sessions
<1>4. pc'[c] \in {"completing", "asking"} /\ \A d \in Call \ {c} : pc[d] = "idle" /\ pc'[d] = "idle"
  BY <1>1, <1>3, GotoTypes, AtWork DEF IInv, PC
<1>5. \A d \in Call : ReplyOK(d)'
  BY <1>4 DEF ReplyOK, Deciding
<1>6. s \in DOMAIN status
  <2>1. DOMAIN status = 1..Len(status) /\ Len(status) \in Nat
    BY LenProperties DEF IInv, DataTypes
  <2>2. s \in Nat /\ s <= Len(status) /\ s # 0
    BY <1>1, AboutTypes DEF IInv, CallOK, Deciding
  <2> QED
    BY <2>1, <2>2
<1>7. s \notin Spent
  BY <1>1, <1>2 DEF Spent, Resolving, Deciding
<1>8. Spent \union {s} \subseteq Spent'
  <2>1. \A d \in Call, t \in DOMAIN status : ~Resolving(d, t)'
    BY <1>4 DEF Resolving, Deciding
  <2>2. MovingOn(c)'
    BY <1>2, <1>3, <1>4 DEF MovingOn, Moving, Replying
  <2>3. \A t \in DOMAIN status : session.about = t => session # NoSession
    <3>1. DOMAIN status = 1..Len(status)
      BY LenProperties DEF IInv, DataTypes
    <3> QED
      BY <3>1, NothingTypes
  <2>4. \A t \in DOMAIN status : session'.about = t => \E d \in Call : (MovingOn(d) /\ job[d].session = session.id)'
    BY <1>2, <1>3, <2>2, <2>3
  <2> QED
    BY <1>2, <1>3, <1>6, <2>1, <2>4 DEF Spent
<1>9. /\ IsFiniteSet(Spent) /\ IsFiniteSet(Spent')
  <2>1. /\ DOMAIN status = 1..Len(status) /\ Len(status) \in Nat
    BY LenProperties DEF IInv, DataTypes
  <2>2. IsFiniteSet(1..Len(status)) /\ Spent \subseteq 1..Len(status) /\ Spent' \subseteq 1..Len(status)
    BY <1>3, <2>1, FS_Interval DEF Spent
  <2> QED
    BY <2>2, FS_Subset
<1>10. /\ Cardinality(Spent) + 1 <= Cardinality(Spent')
       /\ Cardinality(Spent) \in Nat /\ Cardinality(Spent') \in Nat
  <2>1. Cardinality(Spent \union {s}) = Cardinality(Spent) + 1 /\ IsFiniteSet(Spent \union {s})
    BY <1>7, <1>9, FS_AddElement
  <2>2. Cardinality(Spent \union {s}) <= Cardinality(Spent')
    BY <1>8, <1>9, FS_Subset
  <2> QED
    BY <1>9, <2>1, <2>2, FS_CardinalityType
<1>11. DOMAIN status' \subseteq QueueIds' => Passed <= Cardinality(Spent)
  <2>1. queue'.ids = queue.ids
    BY <1>3 DEF Advanced, IInv, DataTypes, Queue
  <2> QED
    BY <1>3, <2>1 DEF QueueIds, ReviewIInv
<1>12. Passed \in Int /\ Passed' \in Int /\ Passed' <= Passed + 1
  <2>1. queue \in Queue /\ Len(queue.ids) \in Nat /\ queue.index \in Nat
    BY LenProperties DEF IInv, DataTypes, Queue
  <2>2. CASE queue.index >= Len(queue.ids)
    <3>1. queue'.completed = TRUE /\ queue'.ids = queue.ids
      BY <1>3, <2>1, <2>2 DEF Advanced, Queue
    <3> QED
      BY <2>1, <2>2, <3>1 DEF Passed
  <2>3. CASE ~(queue.index >= Len(queue.ids))
    <3>1. queue'.completed = queue.completed /\ queue'.ids = queue.ids /\ queue'.index = queue.index + 1
      BY <1>3, <2>1, <2>3 DEF Advanced, Queue
    <3> QED
      BY <2>1, <2>3, <3>1 DEF Passed
  <2> QED
    BY <2>2, <2>3
<1>13. DOMAIN status' \subseteq QueueIds' => Passed' <= Cardinality(Spent')
  BY <1>10, <1>11, <1>12
<1> QED
  BY <1>5, <1>13 DEF ReviewIInv

(* A call begins alone; a reply takes up the session there is. *)
LEMMA BeginReview ==
  ASSUME SuggestionAssumption, IInv, IInv', ReviewIInv, Quiet, Quiet', NEW c \in Call,
         \/ \E kind \in {"process", "store"} : Process(c, kind)
         \/ GenerateAgain(c)
         \/ \E kind \in {"approve", "reject"}, s \in Id : Request(c, kind, s)
         \/ \E kind \in {"yes", "no"} : Reply(c, kind)
  PROVE  ReviewIInv'
<1>1. PICK state \in {"registering", "parsing", "generating", "asking", "rejecting", "reading"}, j \in Job :
         /\ Begin(c, state, j)
         /\ j.kind \in {"yes", "no"} => j.about = session.about /\ j.session = session.id
  <2>1. session \in [id : Nat, about : 0..MaxSuggestions] /\ MaxSuggestions \in Nat
    BY DEF IInv, DataTypes, SuggestionAssumption
  <2>2. ASSUME NEW kind \in {"process", "store"}, Process(c, kind)
        PROVE  \E state \in {"registering", "parsing"}, j \in Job : Begin(c, state, j) /\ j.kind = kind
    <3>1. [NoJob EXCEPT !.kind = kind] \in Job /\ [NoJob EXCEPT !.kind = kind].kind = kind
      BY <2>1 DEF NoJob, Job, Kind
    <3> QED
      BY <2>2, <3>1 DEF Process
  <2>3. ASSUME GenerateAgain(c) PROVE \E j \in Job : Begin(c, "generating", j) /\ j.kind = "generate"
    <3>1. [NoJob EXCEPT !.kind = "generate"] \in Job /\ [NoJob EXCEPT !.kind = "generate"].kind = "generate"
      BY <2>1 DEF NoJob, Job, Kind
    <3> QED
      BY <2>3, <3>1 DEF GenerateAgain
  <2>4. ASSUME NEW kind \in {"approve", "reject"}, NEW s \in Id, Request(c, kind, s)
        PROVE  \E state \in {"asking", "rejecting"}, j \in Job : Begin(c, state, j) /\ j.kind = kind
    <3>1. [kind |-> kind, about |-> s, session |-> 0] \in Job
      BY <2>1 DEF Job, Kind, Id
    <3> QED
      BY <2>4, <3>1 DEF Request
  <2>5. ASSUME NEW kind \in {"yes", "no"}, Reply(c, kind)
        PROVE  \E state \in {"reading", "rejecting"}, j \in Job :
                  Begin(c, state, j) /\ j.about = session.about /\ j.session = session.id
    <3>1. [kind |-> kind, about |-> session.about, session |-> session.id] \in Job
      BY <2>1 DEF Job, Kind
    <3> QED
      BY <2>5, <3>1 DEF Reply
  <2>6. CASE \E kind \in {"process", "store"} : Process(c, kind)
    BY <2>2, <2>6
  <2>7. CASE GenerateAgain(c)
    BY <2>3, <2>7
  <2>8. CASE \E kind \in {"approve", "reject"}, s \in Id : Request(c, kind, s)
    BY <2>4, <2>8
  <2>9. CASE \E kind \in {"yes", "no"} : Reply(c, kind)
    BY <2>5, <2>9
  <2> QED
    BY <2>6, <2>7, <2>8, <2>9
<1>2. /\ pc[c] = "idle" /\ pc'[c] = state /\ job'[c] = j /\ UNCHANGED <<status, queue, session>>
      /\ \A d \in Call \ {c} : pc[d] = "idle" /\ pc'[d] = "idle"
  <2>1. \A d \in Call \ {c} : pc[d] = "idle"
    BY <1>1 DEF Begin, Quiet
  <2> QED
    BY <1>1, <2>1, GotoTypes DEF Begin, IInv, CallTypes, PC, sessions
<1>3. ReplyOK(c)'
  BY <1>1, <1>2 DEF ReplyOK, Replying, Deciding
<1>4. ~MovingOn(c)
  BY <1>2 DEF MovingOn, Moving
<1> QED
  BY <1>1, <1>2, <1>3, <1>4, ActorStep DEF Replying

LEMMA NextReview ==
  ASSUME SuggestionAssumption, IInv, IInv', ReviewIInv, [Next]_vars
  PROVE  ReviewIInv'
<1> SUFFICES ASSUME Quiet' PROVE ReviewIInv'
  BY DEF ReviewIInv
<1>1. Quiet /\ UNCHANGED <<faults, crashes>>
  BY QuietBefore
<1>2. ASSUME NEW c \in Call, Step(c) PROVE ReviewIInv'
  <2>1. CASE CreateSuggestion(c)
    BY <1>1, <2>1, CreateReview
  <2>2. CASE InitializeQueue(c)
    BY <1>1, <2>2, InitializeReview
  <2>3. CASE OpenSession(c)
    BY <1>1, <2>3, OpenReview
  <2>4. CASE MarkExecuted(c) \/ Reject(c)
    BY <1>1, <2>4, SettleReview
  <2>5. CASE AdvanceQueue(c)
    BY <1>1, <2>5, AdvanceReview
  <2>6. CASE \/ CreateJob(c) \/ CreateExtraction(c) \/ Extracted(c) \/ Suggested(c) \/ StartQueue(c)
             \/ Ask(c) \/ CheckSession(c) \/ Tell(c) \/ Return(c)
             \/ ReadSuggestion(c) \/ Write(c) \/ ListSuggestions(c) \/ RefreshDocument(c)
             \/ ReadQueue(c) \/ CompleteDocument(c) \/ EndSession(c)
    BY <1>1, <2>6, QuietReview
  <2>7. CASE FailJob(c) \/ MarkFailed(c)
    BY <1>1, <2>7 DEF FailJob, MarkFailed, ReviewIInv, ReplyOK
  <2> QED
    BY <1>2, <2>1, <2>2, <2>3, <2>4, <2>5, <2>6, <2>7 DEF Step
<1>3. ASSUME NEW c \in Call, Strand(c) PROVE ReviewIInv'
  BY <1>1, <1>3, QuietReview
<1>4. ASSUME NEW c \in Call,
             \/ \E kind \in {"process", "store"} : Process(c, kind)
             \/ GenerateAgain(c)
             \/ \E kind \in {"approve", "reject"}, s \in Id : Request(c, kind, s)
             \/ \E kind \in {"yes", "no"} : Reply(c, kind)
      PROVE  ReviewIInv'
  BY <1>1, <1>4, BeginReview
<1>5. CASE Lapse \/ UNCHANGED vars
  <2>1. /\ UNCHANGED <<queue, status, pc, job, seen>>
        /\ session' = NoSession \/ session' = session
    BY <1>5 DEF Lapse, vars, data, sessions, callVars
  <2>2. \A c \in Call : ReplyOK(c)
    BY <1>1 DEF ReviewIInv
  <2>3. ASSUME NEW c \in Call PROVE ReplyOK(c)'
    <3>1. ReplyOK(c) /\ NextAbout(c)' = NextAbout(c)
      BY <2>1, <2>2 DEF NextAbout
    <3> QED
      BY <2>1, <3>1 DEF ReplyOK, Replying
  <2>4. Spent \subseteq Spent'
    <3>1. \A c \in Call, s \in DOMAIN status :
            /\ Resolving(c, s)' <=> Resolving(c, s)
            /\ MovingOn(c)' <=> MovingOn(c)
      BY <2>1 DEF Resolving, MovingOn, Moving, Replying
    <3>2. \A s \in DOMAIN status : s # 0
      BY LenProperties DEF IInv, DataTypes
    <3> QED
      BY <2>1, <3>1, <3>2, NothingTypes DEF Spent
  <2> QED
    BY <1>1, <2>1, <2>3, <2>4, CountStays DEF ReviewIInv
<1>6. CASE Crash \/ \E c \in Call : Throw(c)
  BY <1>1, <1>6 DEF Crash, Throw, IInv, BudgetTypes
<1> QED
  BY <1>2, <1>3, <1>4, <1>5, <1>6 DEF Next

LEMMA InitReview == SuggestionAssumption /\ Init => ReviewIInv
<1> SUFFICES ASSUME SuggestionAssumption, Init PROVE ReviewIInv
  OBVIOUS
<1>1. \A c \in Call : ReplyOK(c)
  BY DEF Init, ReplyOK, Deciding
<1>2. Passed = 0
  BY DEF Init, Passed, NoQueue
<1>3. Spent = {}
  BY EmptySeq, LenProperties DEF Init, Spent
<1> QED
  BY <1>1, <1>2, <1>3, FS_EmptySet DEF ReviewIInv

(* When the queue is through, it passed an id for every suggestion. *)
LEMMA ReviewDecides == SuggestionAssumption /\ IInv /\ ReviewIInv => ReviewedMeansDecided
<1> SUFFICES ASSUME SuggestionAssumption, IInv, ReviewIInv, Quiet, queue.completed, DOMAIN status = QueueIds,
                    NEW s \in DOMAIN status
             PROVE  status[s] # "PENDING"
  BY DEF ReviewedMeansDecided, Quiet, QueueIds
<1>1. /\ DOMAIN status = 1..Len(status) /\ Len(status) \in Nat
      /\ DOMAIN queue.ids = 1..Len(queue.ids) /\ Len(queue.ids) \in Nat
  BY LenProperties DEF IInv, DataTypes, Queue
<1>2. Len(queue.ids) <= Cardinality(Spent)
  BY DEF ReviewIInv, Passed
<1>3. Spent \subseteq DOMAIN status /\ IsFiniteSet(DOMAIN status)
  BY <1>1, FS_Interval DEF Spent
<1>4. Cardinality(DOMAIN status) <= Len(queue.ids)
  <2>1. ASSUME NEW n \in Nat PROVE IsFiniteSet(1..n) /\ Cardinality(1..n) = n
    <3>1. Cardinality(1..n) = IF 1 > n THEN 0 ELSE n - 1 + 1
      BY FS_Interval
    <3> QED
      BY <3>1, FS_Interval
  <2>2. queue.ids \in Surjection(1..Len(queue.ids), DOMAIN status)
    <3>1. queue.ids \in [1..Len(queue.ids) -> DOMAIN status]
      <4>1. \A n \in 1..Len(queue.ids) : queue.ids[n] \in DOMAIN status
        BY <1>1 DEF QueueIds
      <4>2. queue.ids \in [1..Len(queue.ids) -> Id]
        BY <1>1, LenProperties DEF IInv, DataTypes, Queue
      <4> QED
        BY <4>1, <4>2
    <3>2. \A t \in DOMAIN status : \E n \in 1..Len(queue.ids) : queue.ids[n] = t
      BY <1>1 DEF QueueIds
    <3> QED
      BY <3>1, <3>2 DEF Surjection
  <2> QED
    BY <1>1, <2>1, <2>2, FS_Surjection
<1>5. /\ Cardinality(Spent) <= Cardinality(DOMAIN status)
      /\ Cardinality(Spent) = Cardinality(DOMAIN status) => Spent = DOMAIN status
  BY <1>3, FS_Subset
<1>6. Cardinality(Spent) \in Nat /\ Cardinality(DOMAIN status) \in Nat
  BY <1>3, FS_Subset, FS_CardinalityType
<1>7. Spent = DOMAIN status
  BY <1>1, <1>2, <1>4, <1>5, <1>6
<1> QED
  BY <1>7 DEF Spent

(* Without overlaps, failures and crashes a queue that is through has no pending
   suggestion left, for any number of suggestions and whatever is asked over REST
   or lapses meanwhile (onSuggestionResolved). *)
THEOREM DocumentReviewed == SuggestionAssumption /\ Spec => []ReviewedMeansDecided
<1> SUFFICES ASSUME SuggestionAssumption PROVE Spec => []ReviewedMeansDecided
  OBVIOUS
<1>1. Init => IInv /\ ReviewIInv
  BY InitIInv, InitReview
<1>2. IInv /\ ReviewIInv /\ [Next]_vars => (IInv /\ ReviewIInv)'
  BY NextIInv, NextReview
<1>3. IInv /\ ReviewIInv => ReviewedMeansDecided
  BY ReviewDecides
<1> QED
  BY <1>1, <1>2, <1>3, PTL DEF Spec
=============================================================================
