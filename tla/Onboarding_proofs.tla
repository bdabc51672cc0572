-------------------------- MODULE Onboarding_proofs --------------------------
(***************************************************************************)
(* Proofs about signing up on the web, for any number of windows, calls,   *)
(* companies and employees, any loss and any restart.  A window waits for  *)
(* one call, which is about the company its page has; what a page shows    *)
(* stays so; and of the set-up calls that read what they write later at    *)
(* most one is at work, as long as none overlapped.                        *)
(***************************************************************************)
EXTENDS Onboarding, TLAPS

SignAt == {"otp", "verify", "verified", "register", "factory", "assign", "department", "insert", "publish"}
SetupAt ==
    {"status", "count", "stock", "stockStatus", "skipStock", "import", "rows", "merge", "skip", "complete",
     "send", "close"}
CallAt == {"none"} \union SignAt \union SetupAt
Inside == {"import", "count", "rows", "merge", "send", "close"}
PageAt == {"phone", "otp", "inventory", "team", "ready"}
StepState == {"PENDING", "COMPLETED", "SKIPPED"}
Flag == BOOLEAN
People == SUBSET Employee

StartPage == [at : PageAt, token : Factory \union {NoFactory}, waits : Flag, done : Flag]
StartCall ==
    [at : CallAt, by : Window \union {NoWindow}, f : Factory \union {NoFactory}, seen : People, flag : Flag, shown : Flag,
     next : {"stay", "team"}]
SetupRow == [inventory : StepState, stocked : Flag, team : StepState, completed : Flag, pending : People]

RegistryTypes ==
    /\ otp \in [sent : BOOLEAN, tries : 0..MaxVerifyAttempts, hot : BOOLEAN] /\ verified \in BOOLEAN
    /\ link \in [f : Factory \union {NoFactory}, role : {"none", "OWNER", "WORKER"}] /\ link.f \in factories \union {NoFactory}
    /\ factories \subseteq Factory /\ departments \subseteq factories /\ published \subseteq factories

Types ==
    /\ page \in [Window -> StartPage] /\ call \in [Call -> StartCall] /\ RegistryTypes
    /\ setup \in [Factory -> SetupRow] /\ staff \in [Factory -> SUBSET Employee]
    /\ welcomed \in [Employee -> Nat] /\ waived \subseteq Employee /\ halfway \subseteq Employee
    /\ broken \in BOOLEAN /\ served \in 0..MaxCalls /\ faults \in 0..MaxFaults

(* What a page shows. *)
PageFits(p) ==
    /\ p.at \in {"inventory", "team", "ready"} => p.token # NoFactory
    /\ p.token # NoFactory => p.token = link.f /\ p.token \in departments /\ p.token \in published
    /\ p.at = "ready" => setup[p.token].completed = TRUE
    /\ p.at = "inventory" /\ p.done = TRUE =>
        setup[p.token].inventory # "PENDING" \/ setup[p.token].stocked = TRUE
PageOK(w) == PageFits(page[w])

(* What a call is about. *)
CallFits(r) ==
    /\ r.at = "none" => r.by = NoWindow
    /\ r.at = "assign" => r.f \in factories
    /\ r.at \in {"department", "insert", "publish"} \union SetupAt => r.f = link.f /\ r.f # NoFactory
    /\ r.at = "publish" => r.f \in departments
    /\ r.at \in SetupAt /\ r.by # NoWindow =>
        page[r.by].at \in {"inventory", "team"} /\ page[r.by].token = r.f
    /\ r.at \in {"import", "rows", "merge"} /\ r.by # NoWindow => page[r.by].at = "team"
    /\ r.at = "count" /\ r.shown = TRUE => setup[r.f].inventory # "PENDING"
WaitedFor(c) ==
    call[c].by # NoWindow => page[call[c].by].waits = TRUE /\ \A d \in Call \ {c} : call[d].by # call[c].by
CallOK(c) == CallFits(call[c]) /\ WaitedFor(c)

(* The set-up call at work has what the row says, and who is in it. *)
Alone(c) == \A d \in Call \ {c} : call[d].at \notin Inside
SeenOK(c) ==
    /\ call[c].at \in Inside => Alone(c)
    /\ call[c].at \in {"rows", "send", "close"} => call[c].seen = setup[call[c].f].pending
    /\ call[c].at = "merge" =>
        /\ setup[call[c].f].pending \subseteq call[c].seen
        /\ call[c].seen \subseteq staff[call[c].f] \ halfway
        /\ \A e \in call[c].seen : welcomed[e] = 0
    /\ call[c].at = "close" => \A e \in call[c].seen : welcomed[e] = 1 \/ e \in waived

(* Who was added is accounted for; who joined with a failed row is not welcomed. *)
At(what, f) == {c \in Call : call[c].at = what /\ call[c].f = f}
StaffOK(f) ==
    /\ \A g \in Factory \ {f} : staff[f] \intersect staff[g] = {}
    /\ ~(staff[f] \subseteq halfway) /\ At("merge", f) = {} => setup[f].team # "PENDING"
    /\ setup[f].pending \subseteq staff[f] \ halfway
    /\ At("close", f) = {} => \A e \in setup[f].pending : welcomed[e] = 0
    /\ \A e \in staff[f] \ halfway :
        welcomed[e] = 1 \/ e \in setup[f].pending \/ e \in waived \/ \E c \in At("merge", f) : e \in call[c].seen
WelcomeOK(e) ==
    /\ welcomed[e] <= 1
    /\ (e \in halfway \/ \A f \in Factory : e \notin staff[f]) => welcomed[e] = 0
    /\ e \in halfway => \E f \in Factory : e \in staff[f]

Accounts ==
    (\A c \in Call : SeenOK(c)) /\ (\A f \in Factory : StaffOK(f)) /\ (\A e \in Employee : WelcomeOK(e))

IInv ==
    /\ Types
    /\ \A w \in Window : PageOK(w)
    /\ \A c \in Call : CallOK(c)
    /\ broken = FALSE => Accounts

(* What is never taken back. *)
StartGrows ==
    /\ link.f # NoFactory => link'.f = link.f
    /\ departments \subseteq departments' /\ published \subseteq published' /\ factories \subseteq factories'
    /\ \A f \in Factory :
        /\ setup[f].completed = TRUE => setup'[f].completed = TRUE
        /\ setup[f].inventory # "PENDING" => setup'[f].inventory # "PENDING"
        /\ setup[f].stocked = TRUE => setup'[f].stocked = TRUE

LEMMA StartConstants ==
  OnboardingAssumption =>
  /\ NoWindow \notin Window /\ NoFactory \notin Factory /\ MaxVerifyAttempts \in Nat /\ MaxVerifyAttempts > 0
  /\ MaxCalls \in Nat /\ MaxFaults \in Nat /\ SkipOtp \in BOOLEAN
  BY DEF OnboardingAssumption

LEMMA StartNothing ==
  /\ NoCall \in StartCall /\ NoCall.at = "none" /\ NoCall.by = NoWindow
  /\ Fresh \in StartPage /\ Fresh.at = "phone" /\ Fresh.token = NoFactory
  /\ Fresh.waits = FALSE /\ NoSetup \in SetupRow /\ NoSetup.pending = {}
<1>1. {} \in People /\ FALSE \in Flag
  BY DEF People, Flag
<1> QED
  BY <1>1 DEF NoCall, Fresh, NoSetup, StartCall, StartPage, SetupRow, CallAt, PageAt, StepState

(* The values of a handle of one call and its page. *)
LEMMA StartValues ==
  ASSUME OnboardingAssumption, IInv
  PROVE  /\ \A c \in Call : call[c] \in StartCall /\ CallFits(call[c])
         /\ \A c \in Call : call[c].by # NoWindow =>
               /\ call[c].by \in Window /\ page[call[c].by] \in StartPage /\ PageFits(page[call[c].by])
               /\ page[call[c].by].waits = TRUE
         /\ \A c \in Call : call[c].at \in SetupAt => call[c].f \in Factory
         /\ \A w \in Window : page[w] \in StartPage /\ PageFits(page[w])
<1>1. \A c \in Call : call[c] \in StartCall /\ CallFits(call[c]) /\ WaitedFor(c)
  BY DEF IInv, Types, CallOK
<1>2. \A w \in Window : page[w] \in StartPage /\ PageFits(page[w])
  BY DEF IInv, Types, PageOK
<1>3. \A c \in Call : call[c].by \in Window \union {NoWindow} /\ call[c].f \in Factory \union {NoFactory}
  BY <1>1 DEF StartCall
<1> QED
  BY <1>1, <1>2, <1>3 DEF WaitedFor, CallFits

LEMMA PageKeeps ==
  ASSUME NEW p \in StartPage, PageFits(p), StartGrows
  PROVE  PageFits(p)'
<1>1. p.token # NoFactory => p.token \in Factory
  BY DEF StartPage
<1> QED
  BY <1>1 DEF PageFits, StartGrows

LEMMA CallKeeps ==
  ASSUME NEW r \in StartCall, CallFits(r), StartGrows,
         r.by # NoWindow => page'[r.by].at = page[r.by].at /\ page'[r.by].token = page[r.by].token
  PROVE  CallFits(r)'
<1>1. r.f # NoFactory => r.f \in Factory
  BY DEF StartCall
<1> QED
  BY <1>1 DEF CallFits, StartGrows, SetupAt

(* A call is answered: its window, if it still waits, has page p now. *)
LEMMA Answered ==
  ASSUME OnboardingAssumption, IInv, StartGrows, NEW c \in Call, NEW p \in StartPage, Replies(c, p),
         call[c].by # NoWindow => PageFits(p)'
  PROVE  /\ page' \in [Window -> StartPage] /\ call' \in [Call -> StartCall]
         /\ \A w \in Window : PageOK(w)'
         /\ \A d \in Call : CallOK(d)'
         /\ call'[c] = NoCall /\ \A d \in Call \ {c} : call'[d] = call[d]
<1>1. /\ call' \in [Call -> StartCall] /\ call'[c] = NoCall /\ \A d \in Call \ {c} : call'[d] = call[d]
  BY StartNothing DEF Replies, IInv, Types
<1>2. PICK q : q = [p EXCEPT !.waits = FALSE]
  OBVIOUS
<1>3. FALSE \in Flag
  BY DEF Flag
<1>4. q \in StartPage /\ q.at = p.at /\ q.token = p.token /\ q.done = p.done
  BY <1>2, <1>3 DEF StartPage
<1>5. page \in [Window -> StartPage]
  BY DEF IInv, Types
<1>6. /\ page' \in [Window -> StartPage]
      /\ \A w \in Window : IF w = call[c].by THEN page'[w] = q ELSE page'[w] = page[w]
  <2>1. CASE call[c].by \in Window
    BY <1>2, <1>4, <1>5, <2>1 DEF Replies
  <2>2. CASE call[c].by \notin Window
    BY <1>5, <2>2 DEF Replies
  <2> QED
    BY <2>1, <2>2
<1>7. ASSUME NEW w \in Window PROVE PageOK(w)'
  <2>1. CASE w = call[c].by
    <3>1. PageFits(q)'
      BY <1>4, <2>1, StartConstants DEF PageFits
    <3> QED
      BY <1>6, <2>1, <3>1 DEF PageOK, PageFits
  <2>2. CASE w # call[c].by
    <3>1. PICK o \in StartPage : o = page[w] /\ PageFits(o)
      BY StartValues
    <3>2. PageFits(o)'
      BY <3>1, PageKeeps
    <3> QED
      BY <1>6, <2>2, <3>1, <3>2 DEF PageOK, PageFits
  <2> QED
    BY <2>1, <2>2
<1>8. ASSUME NEW d \in Call PROVE CallOK(d)'
  <2>1. CASE d = c
    BY <1>1, <2>1, StartNothing DEF CallOK, CallFits, WaitedFor, SetupAt
  <2>2. CASE d # c
    <3>1. PICK r \in StartCall : r = call[d] /\ r = call'[d] /\ CallFits(r)
      BY <1>1, <2>2, StartValues
    <3>2. r.by # NoWindow => r.by \in Window /\ r.by # call[c].by /\ page'[r.by] = page[r.by]
      <4>1. WaitedFor(c)
        BY DEF IInv, CallOK
      <4>2. call[d].by # NoWindow => call[d].by # call[c].by
        BY <2>2, <4>1 DEF WaitedFor
      <4>3. call[d].by # NoWindow => call[d].by \in Window
        BY StartValues
      <4> QED
        BY <1>6, <3>1, <4>2, <4>3
    <3>3. CallFits(r)'
      BY <3>1, <3>2, CallKeeps
    <3>4. WaitedFor(d)'
      <4>1. WaitedFor(d)
        BY DEF IInv, CallOK
      <4> QED
        BY <1>1, <2>2, <3>1, <3>2, <4>1, StartNothing DEF WaitedFor
    <3> QED
      BY <3>1, <3>3, <3>4 DEF CallOK, CallFits
  <2> QED
    BY <2>1, <2>2
<1> QED
  BY <1>1, <1>6, <1>7, <1>8

(* A call goes on and its window waits. *)
LEMMA GoesOn ==
  ASSUME OnboardingAssumption, IInv, StartGrows, NEW c \in Call, NEW r \in StartCall, call' = [call EXCEPT ![c] = r],
         page' = page, r.by = call[c].by, CallFits(r)'
  PROVE  /\ page' \in [Window -> StartPage] /\ call' \in [Call -> StartCall]
         /\ \A w \in Window : PageOK(w)'
         /\ \A d \in Call : CallOK(d)'
         /\ call'[c] = r /\ \A d \in Call \ {c} : call'[d] = call[d]
<1>1. /\ call' \in [Call -> StartCall] /\ call'[c] = r /\ \A d \in Call \ {c} : call'[d] = call[d]
      /\ page' \in [Window -> StartPage]
  BY DEF IInv, Types
<1>2. ASSUME NEW w \in Window PROVE PageOK(w)'
  <2>1. PICK o \in StartPage : o = page[w] /\ PageFits(o)
    BY StartValues
  <2>2. PageFits(o)'
    BY <2>1, PageKeeps
  <2> QED
    BY <2>1, <2>2 DEF PageOK, PageFits
<1>3. ASSUME NEW d \in Call PROVE CallOK(d)'
  <2>1. WaitedFor(d)'
    <3>1. WaitedFor(d) /\ call'[d].by = call[d].by /\ \A b \in Call : call'[b].by = call[b].by
      BY <1>1 DEF IInv, CallOK
    <3> QED
      BY <3>1 DEF WaitedFor
  <2>2. CASE d = c
    BY <1>1, <2>1, <2>2 DEF CallOK, CallFits
  <2>3. CASE d # c
    <3>1. PICK o \in StartCall : o = call[d] /\ o = call'[d] /\ CallFits(o)
      BY <1>1, <2>3, StartValues
    <3>2. CallFits(o)'
      BY <3>1, CallKeeps
    <3> QED
      BY <2>1, <3>1, <3>2 DEF CallOK, CallFits
  <2> QED
    BY <2>2, <2>3
<1> QED
  BY <1>1, <1>2, <1>3

(* A step of one call that adds, welcomes and waives nobody. *)
LEMMA AccountsOf ==
  ASSUME OnboardingAssumption, IInv, NEW c \in Call,
         \A d \in Call \ {c} : call'[d] = call[d],
         call[c].at \notin {"merge", "close"}, call'[c].at \notin {"merge", "close"},
         broken' = FALSE => broken = FALSE,
         call'[c].at \in Inside /\ broken' = FALSE => \A d \in Call \ {c} : call[d].at \notin Inside,
         call'[c].at \in {"rows", "send"} /\ broken' = FALSE => call'[c].seen = setup'[call'[c].f].pending,
         UNCHANGED <<staff, halfway, welcomed, waived>>,
         \A f \in Factory : setup'[f].pending = setup[f].pending,
         \A f \in Factory : staff[f] # {} /\ setup[f].team # "PENDING" => setup'[f].team # "PENDING"
  PROVE  broken' = FALSE => Accounts'
<1> SUFFICES ASSUME broken' = FALSE PROVE Accounts'
  OBVIOUS
<1>1. (\A d \in Call : SeenOK(d)) /\ (\A f \in Factory : StaffOK(f)) /\ (\A e \in Employee : WelcomeOK(e))
  BY DEF IInv, Accounts
<1>2. \A f : At("merge", f)' = At("merge", f) /\ At("close", f)' = At("close", f)
  BY DEF At
<1>3. ASSUME NEW d \in Call PROVE SeenOK(d)'
  <2>1. CASE d = c
    BY <2>1 DEF SeenOK, Alone
  <2>2. CASE d # c
    <3>1. SeenOK(d) /\ call'[d] = call[d] /\ (call[d].at \in SetupAt => call[d].f \in Factory)
      BY <1>1, <2>2, StartValues
    <3>2. call[d].at \in {"rows", "send", "close", "merge"} => setup'[call[d].f].pending = setup[call[d].f].pending
      BY <3>1 DEF SetupAt
    <3>3. call[d].at \in Inside => Alone(d)'
      BY <2>2, <3>1 DEF SeenOK, Alone
    <3> QED
      BY <3>1, <3>2, <3>3 DEF SeenOK
  <2> QED
    BY <2>1, <2>2
<1>4. ASSUME NEW f \in Factory PROVE StaffOK(f)'
  <2>1. StaffOK(f)
    BY <1>1
  <2>2. \A b \in At("merge", f) : call'[b] = call[b]
    BY DEF At
  <2> QED
    BY <1>2, <2>1, <2>2 DEF StaffOK
<1>5. \A e \in Employee : WelcomeOK(e)'
  BY <1>1 DEF WelcomeOK
<1> QED
  BY <1>3, <1>4, <1>5 DEF Accounts

(* A step that leaves what the calls are at. *)
LEMMA AccountsSame ==
  ASSUME OnboardingAssumption, IInv,
         \A d \in Call : call'[d].at = call[d].at /\ call'[d].f = call[d].f /\ call'[d].seen = call[d].seen,
         UNCHANGED <<setup, staff, halfway, welcomed, waived, broken>>
  PROVE  broken' = FALSE => Accounts'
<1> SUFFICES ASSUME broken' = FALSE PROVE Accounts'
  OBVIOUS
<1>1. (\A d \in Call : SeenOK(d)) /\ (\A f \in Factory : StaffOK(f)) /\ (\A e \in Employee : WelcomeOK(e))
  BY DEF IInv, Accounts
<1>2. \A f : At("merge", f)' = At("merge", f) /\ At("close", f)' = At("close", f)
  BY DEF At
<1>3. \A d \in Call : SeenOK(d)'
  BY <1>1 DEF SeenOK, Alone
<1>4. ASSUME NEW f \in Factory PROVE StaffOK(f)'
  <2>1. StaffOK(f) /\ \A b \in At("merge", f) : b \in Call
    BY <1>1 DEF At
  <2> QED
    BY <1>2, <2>1 DEF StaffOK
<1>5. \A e \in Employee : WelcomeOK(e)'
  BY <1>1 DEF WelcomeOK
<1> QED
  BY <1>3, <1>4, <1>5 DEF Accounts

(* The other rows, as a step of the wizard leaves them. *)
StartRest == <<otp, verified, link, factories, departments, published, setup, staff, halfway, welcomed, waived>>

LEMMA StartStays == UNCHANGED <<link, factories, departments, published, setup>> => StartGrows
  BY DEF StartGrows

(* A page turns while nothing is asked from it. *)
LEMMA TurnIs ==
  ASSUME OnboardingAssumption, IInv, NEW w \in Window, page[w].waits = FALSE, NEW p \in StartPage, PageFits(p),
         page' = [page EXCEPT ![w] = p], UNCHANGED <<call, StartRest, broken, served, faults>>
  PROVE  IInv'
<1>1. /\ page' \in [Window -> StartPage] /\ page'[w] = p /\ \A v \in Window \ {w} : page'[v] = page[v]
      /\ UNCHANGED StartRest
  BY DEF IInv, Types
<1>2. Types'
  BY <1>1 DEF IInv, Types, RegistryTypes, StartRest
<1>3. StartGrows
  BY StartStays DEF StartRest
<1>4. ASSUME NEW v \in Window PROVE PageOK(v)'
  <2>1. PICK o \in StartPage : o = page'[v] /\ PageFits(o)
    BY <1>1, StartValues
  <2>2. PageFits(o)'
    BY <1>3, <2>1, PageKeeps
  <2> QED
    BY <2>1, <2>2 DEF PageOK, PageFits
<1>5. ASSUME NEW c \in Call PROVE CallOK(c)'
  <2>1. PICK r \in StartCall : r = call[c] /\ r = call'[c] /\ CallFits(r)
    BY StartValues
  <2>2. r.by # NoWindow => r.by \in Window /\ r.by # w /\ page'[r.by] = page[r.by]
    <3>1. r.by # NoWindow => r.by \in Window /\ page[r.by].waits = TRUE
      BY <2>1, StartValues
    <3> QED
      BY <1>1, <3>1
  <2>3. CallFits(r)'
    BY <1>3, <2>1, <2>2, CallKeeps
  <2>4. WaitedFor(c)'
    <3>1. WaitedFor(c)
      BY DEF IInv, CallOK
    <3> QED
      BY <2>1, <2>2, <3>1 DEF WaitedFor
  <2> QED
    BY <2>1, <2>3, <2>4 DEF CallOK, CallFits
<1>6. broken' = FALSE => Accounts'
  BY AccountsSame DEF StartRest
<1> QED
  BY <1>2, <1>4, <1>5, <1>6 DEF IInv

(* A window asks. *)
LEMMA AsksIs ==
  ASSUME OnboardingAssumption, IInv, NEW w \in Window, NEW c \in Call, NEW what, NEW flag \in BOOLEAN, Asks(w, c, what, flag),
         what \in {"otp", "verify", "register", "status", "stock", "skipStock", "import", "skip", "complete"},
         what \in SetupAt => page[w].at \in {"inventory", "team"},
         what = "import" => page[w].at = "team"
  PROVE  IInv'
<1>1. /\ page[w].waits = FALSE /\ call[c] = NoCall /\ served' \in 0..MaxCalls
      /\ UNCHANGED <<StartRest, faults>>
  <2>1. page[w].waits \in BOOLEAN
    BY StartValues DEF StartPage, Flag
  <2> QED
    BY <2>1, StartConstants DEF Asks, Rows, StartRest, IInv, Types
<1>2. PICK p : p = [page[w] EXCEPT !.waits = TRUE]
  OBVIOUS
<1>3. TRUE \in Flag /\ flag \in Flag /\ page[w] \in StartPage /\ PageFits(page[w])
  BY StartValues DEF Flag
<1>4. p \in StartPage /\ p.at = page[w].at /\ p.token = page[w].token /\ p.done = page[w].done /\ p.waits = TRUE
  BY <1>2, <1>3 DEF StartPage
<1>5. page' \in [Window -> StartPage] /\ page'[w] = p /\ \A v \in Window \ {w} : page'[v] = page[v]
  BY <1>2, <1>4 DEF Asks, IInv, Types
<1>6. PICK r : r = [NoCall EXCEPT !.at = what, !.by = w, !.f = page[w].token, !.flag = flag]
  OBVIOUS
<1>7. what \in CallAt /\ w \in Window \union {NoWindow} /\ page[w].token \in Factory \union {NoFactory} /\ NoCall \in StartCall
  BY <1>3, StartNothing DEF CallAt, SignAt, SetupAt, StartPage
<1>8. r \in StartCall /\ r.at = what /\ r.by = w /\ r.f = page[w].token
  BY <1>3, <1>6, <1>7 DEF StartCall
<1>9. call' \in [Call -> StartCall] /\ call'[c] = r /\ \A d \in Call \ {c} : call'[d] = call[d]
  BY <1>6, <1>8 DEF Asks, IInv, Types
<1>10. StartGrows
  BY <1>1, StartStays DEF StartRest
<1>11. broken' \in BOOLEAN /\ (broken' = FALSE => broken = FALSE)
  BY DEF Asks, IInv, Types
<1>12. Types'
  BY <1>1, <1>5, <1>9, <1>11 DEF IInv, Types, RegistryTypes, StartRest
<1>13. ASSUME NEW v \in Window PROVE PageOK(v)'
  <2>1. PICK o \in StartPage : o = page'[v] /\ PageFits(o)
    <3>1. CASE v = w
      <4>1. PageFits(p)
        BY <1>3, <1>4 DEF PageFits
      <4> QED
        BY <1>4, <1>5, <3>1, <4>1
    <3>2. CASE v # w
      BY <1>5, <3>2, StartValues
    <3> QED
      BY <3>1, <3>2
  <2>2. PageFits(o)'
    BY <1>10, <2>1, PageKeeps
  <2> QED
    BY <2>1, <2>2 DEF PageOK, PageFits
<1>14. ASSUME NEW d \in Call PROVE CallOK(d)'
  <2>1. CASE d = c
    <3>1. what \in SetupAt => page[w].token = link.f /\ page[w].token # NoFactory
      BY <1>3 DEF PageFits
    <3>2. CallFits(r)'
      <4>1. what \notin {"none", "assign", "department", "insert", "publish", "rows", "merge", "count"}
        OBVIOUS
      <4>2. link' = link /\ page'[w].at = page[w].at /\ page'[w].token = page[w].token
        BY <1>1, <1>4, <1>5 DEF StartRest
      <4> QED
        BY <1>8, <3>1, <4>1, <4>2 DEF CallFits
    <3>3. WaitedFor(c)'
      <4>1. \A b \in Call : call[b].by # w
        BY <1>1, StartValues, StartConstants
      <4> QED
        BY <1>4, <1>5, <1>8, <1>9, <4>1 DEF WaitedFor
    <3> QED
      BY <1>9, <2>1, <3>2, <3>3 DEF CallOK, CallFits
  <2>2. CASE d # c
    <3>1. PICK o \in StartCall : o = call[d] /\ o = call'[d] /\ CallFits(o)
      BY <1>9, <2>2, StartValues
    <3>2. o.by # NoWindow => o.by \in Window /\ o.by # w /\ page'[o.by] = page[o.by]
      BY <1>1, <1>5, <3>1, StartValues
    <3>3. CallFits(o)'
      BY <1>10, <3>1, <3>2, CallKeeps
    <3>4. WaitedFor(d)'
      <4>1. WaitedFor(d)
        BY DEF IInv, CallOK
      <4> QED
        BY <1>8, <1>9, <2>2, <3>1, <3>2, <4>1 DEF WaitedFor
    <3> QED
      BY <3>1, <3>3, <3>4 DEF CallOK, CallFits
  <2> QED
    BY <2>1, <2>2
<1>15. broken' = FALSE => Accounts'
  <2>1. call[c].at = "none" /\ call'[c].at = what
    BY <1>1, <1>8, <1>9, StartNothing
  <2>2. what \in Inside /\ broken' = FALSE => \A d \in Call \ {c} : call[d].at \notin Inside
    BY DEF Asks, Slow, Inside
  <2> QED
    BY <1>1, <1>9, <1>11, <2>1, <2>2, AccountsOf DEF StartRest
<1> QED
  BY <1>12, <1>13, <1>14, <1>15 DEF IInv

LEMMA PhonePageStep == ASSUME OnboardingAssumption, IInv, NEW w \in Window, PhonePage(w) PROVE IInv'
<1>1. PICK c \in Call : Continue(w, c)
  BY DEF PhonePage
<1> QED
  BY <1>1, AsksIs DEF Continue, SetupAt

LEMMA OtpPageStep == ASSUME OnboardingAssumption, IInv, NEW w \in Window, OtpPage(w) PROVE IInv'
<1>1. ASSUME NEW c \in Call, Resend(w, c) PROVE IInv'
  BY <1>1, AsksIs DEF Resend, SetupAt
<1>2. ASSUME NEW c \in Call, NEW right \in BOOLEAN, EnterCode(w, c, right) PROVE IInv'
  BY <1>2, AsksIs DEF EnterCode, SetupAt
<1>3. CASE ChangeNumber(w)
  <2>1. PICK p : p = [page[w] EXCEPT !.at = "phone"]
    OBVIOUS
  <2>2. page[w] \in StartPage /\ PageFits(page[w]) /\ "phone" \in PageAt
    BY StartValues DEF PageAt
  <2>3. p \in StartPage /\ p.at = "phone" /\ p.token = page[w].token
    BY <2>1, <2>2 DEF StartPage
  <2>4. PageFits(p)
    BY <2>2, <2>3 DEF PageFits
  <2>5. page[w].waits = FALSE
    BY <1>3, <2>2 DEF ChangeNumber, StartPage, Flag
  <2>6. page' = [page EXCEPT ![w] = p]
    BY <1>3, <2>1 DEF ChangeNumber
  <2> QED
    BY <1>3, <2>3, <2>4, <2>5, <2>6, TurnIs DEF ChangeNumber, Rows, StartRest
<1> QED
  BY <1>1, <1>2, <1>3 DEF OtpPage

LEMMA TurnStep ==
  ASSUME OnboardingAssumption, IInv, NEW w \in Window, NEW from \in {"inventory", "team"}, NEW to \in {"inventory", "team"},
         Turn(w, from, to)
  PROVE  IInv'
<1>1. PICK p : p = [page[w] EXCEPT !.at = to, !.done = FALSE]
  OBVIOUS
<1>2. page[w] \in StartPage /\ PageFits(page[w]) /\ to \in PageAt /\ FALSE \in Flag
  BY StartValues DEF PageAt, Flag
<1>3. p \in StartPage /\ p.at = to /\ p.done = FALSE /\ p.token = page[w].token
  BY <1>1, <1>2 DEF StartPage
<1>4. PageFits(p)
  BY <1>2, <1>3 DEF PageFits, Turn
<1>5. page[w].waits = FALSE
  BY <1>2 DEF Turn, StartPage, Flag
<1>6. page' = [page EXCEPT ![w] = p]
  BY <1>1 DEF Turn
<1> QED
  BY <1>3, <1>4, <1>5, <1>6, TurnIs DEF Turn, Rows, StartRest

LEMMA ResetAllStep == ASSUME OnboardingAssumption, IInv, NEW w \in Window, ResetAll(w) PROVE IInv'
<1>1. page[w].waits = FALSE /\ PageFits(Fresh)
  BY StartValues, StartNothing DEF ResetAll, StartPage, Flag, PageFits
<1> QED
  BY <1>1, StartNothing, TurnIs DEF ResetAll, Rows, StartRest

LEMMA SetupPageStep ==
  ASSUME OnboardingAssumption, IInv, NEW w \in Window, InventoryPage(w) \/ TeamPage(w) \/ ReadyPage(w)
  PROVE  IInv'
<1>1. ASSUME NEW c \in Call, Refresh(w, c) PROVE IInv'
  BY <1>1, AsksIs DEF Refresh
<1>2. ASSUME NEW c \in Call, ConfirmStock(w, c) \/ SkipStock(w, c) PROVE IInv'
  BY <1>2, AsksIs DEF ConfirmStock, SkipStock
<1>3. ASSUME NEW c \in Call, ConfirmImport(w, c) PROVE IInv'
  BY <1>3, AsksIs DEF ConfirmImport
<1>4. ASSUME NEW c \in Call, NEW notify \in BOOLEAN, Finish(w, c, notify) PROVE IInv'
  <2>1. page[w].at = "team"
    BY <1>4 DEF Finish
  <2>2. CASE Asks(w, c, "complete", notify)
    BY <2>1, <2>2, AsksIs
  <2>3. CASE Asks(w, c, "skip", notify)
    BY <2>1, <2>3, AsksIs
  <2> QED
    BY <1>4, <2>2, <2>3 DEF Finish
<1> QED
  BY <1>1, <1>2, <1>3, <1>4, TurnStep, ResetAllStep DEF InventoryPage, TeamPage, ReadyPage

(* The window waits no more, its call runs on. *)
LEMMA LoseStep == ASSUME OnboardingAssumption, IInv, NEW w \in Window, Lose(w) PROVE IInv'
<1>1. /\ faults' \in 0..MaxFaults /\ UNCHANGED <<StartRest, broken, served>>
  BY StartConstants DEF Lose, Rows, StartRest, IInv, Types
<1>2. PICK p : p = [page[w] EXCEPT !.waits = FALSE]
  OBVIOUS
<1>3. page[w] \in StartPage /\ PageFits(page[w]) /\ FALSE \in Flag
  BY StartValues DEF Flag
<1>4. p \in StartPage /\ p.at = page[w].at /\ p.token = page[w].token /\ p.done = page[w].done
  BY <1>2, <1>3 DEF StartPage
<1>5. page' \in [Window -> StartPage] /\ page'[w] = p /\ \A v \in Window \ {w} : page'[v] = page[v]
  BY <1>2, <1>4 DEF Lose, IInv, Types
<1>6. ASSUME NEW c \in Call
      PROVE  /\ call'[c] \in StartCall
             /\ IF call[c].by = w THEN call'[c].by = NoWindow ELSE call'[c].by = call[c].by
             /\ call'[c].at = call[c].at /\ call'[c].f = call[c].f /\ call'[c].seen = call[c].seen
             /\ call'[c].shown = call[c].shown
  <2>1. PICK r : r = [call[c] EXCEPT !.by = NoWindow]
    OBVIOUS
  <2>2. call[c] \in StartCall /\ NoWindow \in Window \union {NoWindow}
    BY StartValues
  <2>3. /\ r \in StartCall /\ r.by = NoWindow /\ r.at = call[c].at /\ r.f = call[c].f /\ r.seen = call[c].seen
        /\ r.shown = call[c].shown
    BY <2>1, <2>2 DEF StartCall
  <2>4. call'[c] = IF call[c].by = w THEN r ELSE call[c]
    BY <2>1 DEF Lose
  <2> QED
    BY <2>2, <2>3, <2>4
<1>7. call' \in [Call -> StartCall]
  <2>1. call' = [c \in Call |-> call'[c]]
    BY DEF Lose
  <2> QED
    BY <1>6, <2>1
<1>8. Types'
  BY <1>1, <1>5, <1>7 DEF IInv, Types, RegistryTypes, StartRest
<1>9. StartGrows
  BY <1>1, StartStays DEF StartRest
<1>10. ASSUME NEW v \in Window PROVE PageOK(v)'
  <2>1. PICK o \in StartPage : o = page'[v] /\ PageFits(o)
    <3>1. CASE v = w
      <4>1. PageFits(p)
        BY <1>3, <1>4 DEF PageFits
      <4> QED
        BY <1>4, <1>5, <3>1, <4>1
    <3>2. CASE v # w
      BY <1>5, <3>2, StartValues
    <3> QED
      BY <3>1, <3>2
  <2>2. PageFits(o)'
    BY <1>9, <2>1, PageKeeps
  <2> QED
    BY <2>1, <2>2 DEF PageOK, PageFits
<1>11. ASSUME NEW c \in Call PROVE CallOK(c)'
  <2>1. PICK r \in StartCall : r = call'[c]
    BY <1>6
  <2>2. CallFits(r) /\ (r.by # NoWindow => r.by \in Window /\ r.by # w /\ page'[r.by] = page[r.by])
    <3>1. CallFits(call[c]) /\ (call[c].by # NoWindow => call[c].by \in Window)
      BY StartValues
    <3>2. call[c].at = "none" => w # call[c].by
      BY <3>1, StartConstants DEF CallFits
    <3>3. r.by # NoWindow => r.by = call[c].by /\ r.by # w
      BY <1>6, <2>1
    <3>4. r.at = call[c].at /\ r.f = call[c].f /\ r.shown = call[c].shown /\ (call[c].by = NoWindow => r.by = NoWindow)
      BY <1>6, <2>1, StartConstants
    <3> QED
      BY <1>5, <3>1, <3>3, <3>4 DEF CallFits
  <2>3. CallFits(r)'
    BY <1>9, <2>2, CallKeeps
  <2>4. WaitedFor(c)'
    <3>1. WaitedFor(c)
      BY DEF IInv, CallOK
    <3>2. \A d \in Call : call'[d].by = call[d].by \/ call'[d].by = NoWindow
      BY <1>6
    <3> QED
      BY <2>1, <2>2, <3>1, <3>2, <1>6 DEF WaitedFor
  <2> QED
    BY <2>1, <2>3, <2>4 DEF CallOK, CallFits
<1>12. broken' = FALSE => Accounts'
  BY <1>1, <1>6, AccountsSame DEF StartRest
<1> QED
  BY <1>8, <1>10, <1>11, <1>12 DEF IInv

LEMMA CrashStep == ASSUME OnboardingAssumption, IInv, Crash PROVE IInv'
<1>1. /\ faults' \in 0..MaxFaults /\ broken' = TRUE /\ UNCHANGED <<StartRest, served>>
      /\ call' = [c \in Call |-> NoCall]
  BY StartConstants DEF Crash, Rows, StartRest, IInv, Types
<1>2. call' \in [Call -> StartCall] /\ \A c \in Call : call'[c] = NoCall
  BY <1>1, StartNothing
<1>3. StartGrows
  BY <1>1, StartStays DEF StartRest
<1>4. ASSUME NEW w \in Window
      PROVE  page'[w] \in StartPage /\ PageOK(w)'
  <2>1. PICK p : p = [page[w] EXCEPT !.waits = FALSE]
    OBVIOUS
  <2>2. page[w] \in StartPage /\ PageFits(page[w]) /\ FALSE \in Flag
    BY StartValues DEF Flag
  <2>3. p \in StartPage /\ p.at = page[w].at /\ p.token = page[w].token /\ p.done = page[w].done
    BY <2>1, <2>2 DEF StartPage
  <2>4. page'[w] = p
    BY <2>1 DEF Crash
  <2>5. PageFits(p)
    BY <2>2, <2>3 DEF PageFits
  <2>6. PageFits(p)'
    BY <1>3, <2>3, <2>5, PageKeeps
  <2> QED
    BY <2>3, <2>4, <2>6 DEF PageOK, PageFits
<1>5. page' \in [Window -> StartPage]
  <2>1. page' = [w \in Window |-> page'[w]]
    BY DEF Crash
  <2> QED
    BY <1>4, <2>1
<1>6. Types'
  BY <1>1, <1>2, <1>5 DEF IInv, Types, RegistryTypes, StartRest
<1>7. \A c \in Call : CallOK(c)'
  BY <1>2, StartNothing DEF CallOK, CallFits, WaitedFor, SetupAt
<1> QED
  BY <1>1, <1>4, <1>6, <1>7 DEF IInv

LEMMA StartLapseStep == ASSUME OnboardingAssumption, IInv, Lapse PROVE IInv'
<1>1. UNCHANGED <<page, call, link, factories, departments, published, setup, staff, halfway, welcomed, waived, broken, served, faults>>
  BY DEF Lapse, SetupRows
<1>2. otp' \in [sent : BOOLEAN, tries : 0..MaxVerifyAttempts, hot : BOOLEAN] /\ verified' \in BOOLEAN
  <2>1. otp \in [sent : BOOLEAN, tries : 0..MaxVerifyAttempts, hot : BOOLEAN] /\ verified \in BOOLEAN
    BY DEF IInv, Types, RegistryTypes
  <2>2. NoOtp \in [sent : BOOLEAN, tries : 0..MaxVerifyAttempts, hot : BOOLEAN]
    BY StartConstants DEF NoOtp
  <2> QED
    BY <2>1, <2>2 DEF Lapse
<1>3. Types'
  BY <1>1, <1>2 DEF IInv, Types, RegistryTypes
<1>4. \A w \in Window : PageOK(w)'
  BY <1>1 DEF IInv, PageOK, PageFits
<1>5. \A c \in Call : CallOK(c)'
  BY <1>1 DEF IInv, CallOK, CallFits, WaitedFor
<1>6. broken' = FALSE => Accounts'
  BY <1>1, AccountsSame
<1> QED
  BY <1>3, <1>4, <1>5, <1>6 DEF IInv

-----------------------------------------------------------------------------
LEMMA PageOfCall ==
  ASSUME OnboardingAssumption, IInv, NEW c \in Call
  PROVE  /\ Page(c) \in StartPage /\ PageFits(Page(c))
         /\ call[c].by # NoWindow => Page(c) = page[call[c].by]
<1>1. PageFits(Fresh)
  BY StartNothing DEF PageFits
<1> QED
  BY <1>1, StartValues, StartNothing, StartConstants DEF Page

(* A call is answered, which accounts for nobody. *)
LEMMA ReplyIs ==
  ASSUME OnboardingAssumption, IInv, NEW c \in Call, NEW p \in StartPage, Replies(c, p), call[c].by # NoWindow => PageFits(p)',
         StartGrows, RegistryTypes', setup' \in [Factory -> SetupRow],
         call[c].at \notin {"merge", "close"},
         UNCHANGED <<staff, halfway, welcomed, waived, broken, served, faults>>,
         \A f \in Factory : setup'[f].pending = setup[f].pending,
         \A f \in Factory : staff[f] # {} /\ setup[f].team # "PENDING" => setup'[f].team # "PENDING"
  PROVE  IInv'
<1>1. /\ page' \in [Window -> StartPage] /\ call' \in [Call -> StartCall]
      /\ \A w \in Window : PageOK(w)'
      /\ \A d \in Call : CallOK(d)'
      /\ call'[c] = NoCall /\ \A d \in Call \ {c} : call'[d] = call[d]
  BY Answered
<1>2. Types'
  BY <1>1 DEF IInv, Types
<1>3. call'[c].at = "none"
  BY <1>1, StartNothing
<1>4. broken' = FALSE => Accounts'
  BY <1>1, <1>3, AccountsOf DEF Inside
<1> QED
  BY <1>1, <1>2, <1>4 DEF IInv

LEMMA FailsIs ==
  ASSUME OnboardingAssumption, IInv, NEW c \in Call, Fails(c),
         StartGrows, RegistryTypes', setup' \in [Factory -> SetupRow],
         call[c].at \notin {"merge", "close"},
         UNCHANGED <<staff, halfway, welcomed, waived, broken, served, faults>>,
         \A f \in Factory : setup'[f].pending = setup[f].pending,
         \A f \in Factory : staff[f] # {} /\ setup[f].team # "PENDING" => setup'[f].team # "PENDING"
  PROVE  IInv'
<1>1. PICK p \in StartPage : p = Page(c) /\ PageFits(p)
  BY PageOfCall
<1>2. PageFits(p)'
  BY <1>1, PageKeeps
<1> QED
  BY <1>1, <1>2, ReplyIs DEF Fails

(* A call goes on, which accounts for nobody. *)
LEMMA GotoIs ==
  ASSUME OnboardingAssumption, IInv, NEW c \in Call, NEW r \in StartCall, call' = [call EXCEPT ![c] = r], page' = page,
         r.by = call[c].by, CallFits(r)',
         StartGrows, RegistryTypes', setup' \in [Factory -> SetupRow], broken' \in BOOLEAN,
         call[c].at \notin {"merge", "close"}, r.at \notin {"merge", "close"},
         broken' = FALSE => broken = FALSE,
         r.at \in Inside /\ broken' = FALSE => \A d \in Call \ {c} : call[d].at \notin Inside,
         r.at \in {"rows", "send"} /\ broken' = FALSE => r.seen = setup'[r.f].pending,
         UNCHANGED <<staff, halfway, welcomed, waived, served, faults>>,
         \A f \in Factory : setup'[f].pending = setup[f].pending,
         \A f \in Factory : staff[f] # {} /\ setup[f].team # "PENDING" => setup'[f].team # "PENDING"
  PROVE  IInv'
<1>1. /\ page' \in [Window -> StartPage] /\ call' \in [Call -> StartCall]
      /\ \A w \in Window : PageOK(w)'
      /\ \A d \in Call : CallOK(d)'
      /\ call'[c] = r /\ \A d \in Call \ {c} : call'[d] = call[d]
  BY GoesOn
<1>2. Types'
  BY <1>1 DEF IInv, Types
<1>3. broken' = FALSE => Accounts'
  BY <1>1, AccountsOf
<1> QED
  BY <1>1, <1>2, <1>3 DEF IInv

(* Steps of a registration, which leave the set-up alone. *)
LEMMA SignReply ==
  ASSUME OnboardingAssumption, IInv, NEW c \in Call, call[c].at \in SignAt, NEW p \in StartPage, Replies(c, p),
         call[c].by # NoWindow => PageFits(p)', StartGrows, RegistryTypes',
         UNCHANGED <<setup, staff, halfway, welcomed, waived, broken, served, faults>>
  PROVE  IInv'
<1>1. setup \in [Factory -> SetupRow] /\ call[c].at \notin {"merge", "close"}
  BY DEF IInv, Types, SignAt
<1> QED
  BY <1>1, ReplyIs

LEMMA SignFails ==
  ASSUME OnboardingAssumption, IInv, NEW c \in Call, call[c].at \in SignAt, Fails(c), StartGrows, RegistryTypes',
         UNCHANGED <<setup, staff, halfway, welcomed, waived, broken, served, faults>>
  PROVE  IInv'
<1>1. setup \in [Factory -> SetupRow] /\ call[c].at \notin {"merge", "close"}
  BY DEF IInv, Types, SignAt
<1> QED
  BY <1>1, FailsIs

LEMMA SignGoto ==
  ASSUME OnboardingAssumption, IInv, NEW c \in Call, call[c].at \in SignAt, NEW r \in StartCall, call' = [call EXCEPT ![c] = r],
         page' = page, r.by = call[c].by, r.at \in SignAt, CallFits(r)', StartGrows, RegistryTypes',
         UNCHANGED <<setup, staff, halfway, welcomed, waived, broken, served, faults>>
  PROVE  IInv'
<1>1. setup \in [Factory -> SetupRow] /\ broken \in BOOLEAN /\ call[c].at \notin {"merge", "close"}
      /\ r.at \notin {"merge", "close"} /\ r.at \notin Inside
  BY DEF IInv, Types, SignAt, Inside
<1>2. r.at \notin {"rows", "send"}
  BY <1>1 DEF Inside
<1> QED
  BY <1>1, <1>2, GotoIs

LEMMA SendOtpStep ==
  ASSUME OnboardingAssumption, IInv, NEW c \in Call, NEW delivered \in BOOLEAN, SendOtp(c, delivered)
  PROVE  IInv'
<1>1. /\ UNCHANGED <<verified, link, factories, departments, published, setup, staff, halfway, welcomed, waived, broken,
                     served, faults>>
      /\ call[c].at \in SignAt
  BY DEF SendOtp, SetupRows, SignAt
<1>2. StartGrows
  BY <1>1, StartStays
<1>3. RegistryTypes'
  <2>2. [sent |-> TRUE, tries |-> 0, hot |-> TRUE] \in [sent : BOOLEAN, tries : 0..MaxVerifyAttempts, hot : BOOLEAN]
    BY StartConstants
  <2>3. otp \in [sent : BOOLEAN, tries : 0..MaxVerifyAttempts, hot : BOOLEAN]
    BY DEF IInv, Types, RegistryTypes
  <2>4. otp' = otp \/ otp' = [sent |-> TRUE, tries |-> 0, hot |-> TRUE]
    BY DEF SendOtp
  <2>1. otp' \in [sent : BOOLEAN, tries : 0..MaxVerifyAttempts, hot : BOOLEAN]
    BY <2>2, <2>3, <2>4
  <2> QED
    BY <1>1, <2>1 DEF IInv, Types, RegistryTypes
<1>4. CASE Fails(c)
  BY <1>1, <1>2, <1>3, <1>4, SignFails
<1>5. CASE Replies(c, [Page(c) EXCEPT !.at = "otp"])
  <2>1. PICK p : p = [Page(c) EXCEPT !.at = "otp"]
    OBVIOUS
  <2>2. Page(c) \in StartPage /\ PageFits(Page(c)) /\ "otp" \in PageAt
    BY PageOfCall DEF PageAt
  <2>3. p \in StartPage /\ p.at = "otp" /\ p.token = Page(c).token
    BY <2>1, <2>2 DEF StartPage
  <2>4. PageFits(p)
    BY <2>2, <2>3 DEF PageFits
  <2>5. PageFits(p)'
    BY <1>2, <2>3, <2>4, PageKeeps
  <2> QED
    BY <1>1, <1>2, <1>3, <1>5, <2>1, <2>3, <2>5, SignReply
<1> QED
  BY <1>4, <1>5 DEF SendOtp

LEMMA VerifyOtpStep == ASSUME OnboardingAssumption, IInv, NEW c \in Call, VerifyOtp(c) PROVE IInv'
<1>1. /\ UNCHANGED <<verified, link, factories, departments, published, setup, staff, halfway, welcomed, waived, broken,
                     served, faults>>
      /\ call[c].at \in SignAt
  BY DEF VerifyOtp, SetupRows, SignAt
<1>2. StartGrows
  BY <1>1, StartStays
<1>3. RegistryTypes'
  <2>1. otp \in [sent : BOOLEAN, tries : 0..MaxVerifyAttempts, hot : BOOLEAN]
    BY DEF IInv, Types, RegistryTypes
  <2>2. NoOtp \in [sent : BOOLEAN, tries : 0..MaxVerifyAttempts, hot : BOOLEAN]
    BY StartConstants DEF NoOtp
  <2>3. otp.tries < MaxVerifyAttempts =>
            [otp EXCEPT !.tries = @ + 1] \in [sent : BOOLEAN, tries : 0..MaxVerifyAttempts, hot : BOOLEAN]
    BY <2>1, StartConstants
  <2>4. otp' \in [sent : BOOLEAN, tries : 0..MaxVerifyAttempts, hot : BOOLEAN]
    BY <2>1, <2>2, <2>3 DEF VerifyOtp
  <2> QED
    BY <1>1, <2>4 DEF IInv, Types, RegistryTypes
<1>4. CASE Fails(c)
  BY <1>1, <1>2, <1>3, <1>4, SignFails
<1>5. CASE Goto(c, "verified")
  <2>1. PICK r : r = [call[c] EXCEPT !.at = "verified"]
    OBVIOUS
  <2>2. call[c] \in StartCall /\ "verified" \in CallAt
    BY StartValues DEF CallAt, SignAt
  <2>3. r \in StartCall /\ r.at = "verified" /\ r.by = call[c].by
    BY <2>1, <2>2 DEF StartCall
  <2>4. CallFits(r)'
    BY <2>3 DEF CallFits, SetupAt
  <2> QED
    BY <1>1, <1>2, <1>3, <1>5, <2>1, <2>3, <2>4, SignGoto DEF Goto, SignAt
<1> QED
  BY <1>4, <1>5 DEF VerifyOtp

LEMMA VerifiedStep == ASSUME OnboardingAssumption, IInv, NEW c \in Call, Verified(c) PROVE IInv'
<1>1. /\ UNCHANGED <<otp, link, factories, departments, published, setup, staff, halfway, welcomed, waived, broken,
                     served, faults>>
      /\ call[c].at \in SignAt /\ verified' = TRUE
  BY DEF Verified, SetupRows, SignAt
<1>2. StartGrows
  BY <1>1, StartStays
<1>3. RegistryTypes'
  BY <1>1 DEF IInv, Types, RegistryTypes
<1>4. CASE Fails(c)
  BY <1>1, <1>2, <1>3, <1>4, SignFails
<1>5. CASE Goto(c, "register")
  <2>1. PICK r : r = [call[c] EXCEPT !.at = "register"]
    OBVIOUS
  <2>2. call[c] \in StartCall /\ "register" \in CallAt
    BY StartValues DEF CallAt, SignAt
  <2>3. r \in StartCall /\ r.at = "register" /\ r.by = call[c].by
    BY <2>1, <2>2 DEF StartCall
  <2>4. CallFits(r)'
    BY <2>3 DEF CallFits, SetupAt
  <2> QED
    BY <1>1, <1>2, <1>3, <1>5, <2>1, <2>3, <2>4, SignGoto DEF Goto, SignAt
<1> QED
  BY <1>4, <1>5 DEF Verified

LEMMA RegisterStep == ASSUME OnboardingAssumption, IInv, NEW c \in Call, Register(c) PROVE IInv'
<1>1. /\ UNCHANGED <<StartRest, broken, served, faults>> /\ call[c].at \in SignAt
  BY DEF Register, Rows, StartRest, SignAt
<1>2. StartGrows /\ UNCHANGED <<setup, staff, halfway, welcomed, waived, broken, served, faults>>
  BY <1>1, StartStays DEF StartRest
<1>3. RegistryTypes'
  BY <1>1 DEF IInv, Types, RegistryTypes, StartRest
<1>4. CASE Fails(c)
  BY <1>1, <1>2, <1>3, <1>4, SignFails
<1>5. CASE link.f # NoFactory /\ call' = [call EXCEPT ![c].at = "department", ![c].f = link.f] /\ UNCHANGED page
  <2>1. PICK r : r = [call[c] EXCEPT !.at = "department", !.f = link.f]
    OBVIOUS
  <2>2. call[c] \in StartCall /\ "department" \in CallAt /\ link.f \in Factory \union {NoFactory}
    BY StartValues DEF CallAt, SignAt, IInv, Types, RegistryTypes
  <2>3. r \in StartCall /\ r.at = "department" /\ r.by = call[c].by /\ r.f = link.f
    BY <2>1, <2>2 DEF StartCall
  <2>4. link' = link
    BY <1>1 DEF StartRest
  <2>5. CallFits(r)'
    BY <1>5, <2>3, <2>4 DEF CallFits, SetupAt
  <2>6. call' = [call EXCEPT ![c] = r]
    BY <1>5, <2>1
  <2> QED
    BY <1>1, <1>2, <1>3, <1>5, <2>3, <2>5, <2>6, SignGoto DEF SignAt
<1>6. CASE Goto(c, "factory")
  <2>1. PICK r : r = [call[c] EXCEPT !.at = "factory"]
    OBVIOUS
  <2>2. call[c] \in StartCall /\ "factory" \in CallAt
    BY StartValues DEF CallAt, SignAt
  <2>3. r \in StartCall /\ r.at = "factory" /\ r.by = call[c].by
    BY <2>1, <2>2 DEF StartCall
  <2>4. CallFits(r)'
    BY <2>3 DEF CallFits, SetupAt
  <2> QED
    BY <1>1, <1>2, <1>3, <1>6, <2>1, <2>3, <2>4, SignGoto DEF Goto, SignAt
<1> QED
  BY <1>4, <1>5, <1>6 DEF Register

LEMMA CreateFactoryStep == ASSUME OnboardingAssumption, IInv, NEW c \in Call, CreateFactory(c) PROVE IInv'
<1>1. PICK f \in Factory \ factories :
        factories' = factories \union {f} /\ call' = [call EXCEPT ![c].at = "assign", ![c].f = f]
  BY DEF CreateFactory
<1>2. /\ UNCHANGED <<page, otp, verified, link, departments, published, setup, staff, halfway, welcomed, waived, broken,
                     served, faults>>
      /\ call[c].at \in SignAt
  BY DEF CreateFactory, SetupRows, SignAt
<1>3. StartGrows
  BY <1>1, <1>2 DEF StartGrows
<1>4. RegistryTypes'
  BY <1>1, <1>2 DEF IInv, Types, RegistryTypes
<1>5. PICK r : r = [call[c] EXCEPT !.at = "assign", !.f = f]
  OBVIOUS
<1>6. call[c] \in StartCall /\ "assign" \in CallAt /\ f \in Factory \union {NoFactory}
  BY StartValues DEF CallAt, SignAt
<1>7. r \in StartCall /\ r.at = "assign" /\ r.by = call[c].by /\ r.f = f
  BY <1>5, <1>6 DEF StartCall
<1>8. CallFits(r)'
  BY <1>1, <1>7 DEF CallFits, SetupAt
<1>9. call' = [call EXCEPT ![c] = r]
  BY <1>1, <1>5
<1> QED
  BY <1>2, <1>3, <1>4, <1>7, <1>8, <1>9, SignGoto DEF SignAt

LEMMA AssignOwnerStep == ASSUME OnboardingAssumption, IInv, NEW c \in Call, AssignOwner(c) PROVE IInv'
<1>1. /\ UNCHANGED <<otp, verified, factories, departments, published, setup, staff, halfway, welcomed, waived, broken,
                     served, faults>>
      /\ call[c].at = "assign" /\ call[c].at \in SignAt
  BY DEF AssignOwner, SetupRows, SignAt
<1>2. call[c].f \in factories /\ call[c] \in StartCall
  BY <1>1, StartValues DEF CallFits
<1>3. CASE Fails(c) /\ UNCHANGED link
  <2>1. StartGrows
    BY <1>1, <1>3, StartStays
  <2>2. RegistryTypes'
    BY <1>1, <1>3 DEF IInv, Types, RegistryTypes
  <2> QED
    BY <1>1, <1>3, <2>1, <2>2, SignFails
<1>4. CASE link.f = NoFactory /\ link' = [f |-> call[c].f, role |-> "OWNER"] /\ Goto(c, "department")
  <2>1. StartGrows
    BY <1>1, <1>4 DEF StartGrows
  <2>2. call[c].f \in Factory /\ call[c].f # NoFactory
    BY <1>2, StartConstants DEF IInv, Types, RegistryTypes
  <2>3. RegistryTypes'
    BY <1>1, <1>2, <1>4, <2>2 DEF IInv, Types, RegistryTypes
  <2>4. PICK r : r = [call[c] EXCEPT !.at = "department"]
    OBVIOUS
  <2>5. "department" \in CallAt
    BY DEF CallAt, SignAt
  <2>6. r \in StartCall /\ r.at = "department" /\ r.by = call[c].by /\ r.f = call[c].f
    BY <1>2, <2>4, <2>5 DEF StartCall
  <2>7. CallFits(r)'
    BY <1>4, <2>2, <2>6 DEF CallFits, SetupAt
  <2> QED
    BY <1>1, <1>4, <2>1, <2>3, <2>4, <2>6, <2>7, SignGoto DEF Goto, SignAt
<1> QED
  BY <1>3, <1>4 DEF AssignOwner

LEMMA FindDepartmentStep == ASSUME OnboardingAssumption, IInv, NEW c \in Call, FindDepartment(c) PROVE IInv'
<1>1. /\ UNCHANGED <<StartRest, broken, served, faults>> /\ call[c].at \in SignAt /\ call[c].at = "department"
  BY DEF FindDepartment, Rows, StartRest, SignAt
<1>2. StartGrows /\ UNCHANGED <<setup, staff, halfway, welcomed, waived, broken, served, faults>>
  BY <1>1, StartStays DEF StartRest
<1>3. RegistryTypes'
  BY <1>1 DEF IInv, Types, RegistryTypes, StartRest
<1>4. call[c] \in StartCall /\ call[c].f = link.f /\ call[c].f # NoFactory
  BY <1>1, StartValues DEF CallFits
<1>5. PICK next \in {"publish", "insert"} : Goto(c, next) /\ (next = "publish" => call[c].f \in departments)
  BY DEF FindDepartment
<1>6. PICK r : r = [call[c] EXCEPT !.at = next]
  OBVIOUS
<1>7. next \in CallAt
  BY DEF CallAt, SignAt
<1>8. r \in StartCall /\ r.at = next /\ r.by = call[c].by /\ r.f = call[c].f
  BY <1>4, <1>6, <1>7 DEF StartCall
<1>9. CallFits(r)'
  <2>1. link' = link /\ departments' = departments
    BY <1>1 DEF StartRest
  <2> QED
    BY <1>4, <1>5, <1>8, <2>1 DEF CallFits, SetupAt
<1> QED
  BY <1>1, <1>2, <1>3, <1>5, <1>6, <1>8, <1>9, SignGoto DEF Goto, SignAt

LEMMA CreateDepartmentStep == ASSUME OnboardingAssumption, IInv, NEW c \in Call, CreateDepartment(c) PROVE IInv'
<1>1. /\ UNCHANGED <<otp, verified, link, factories, published, setup, staff, halfway, welcomed, waived, broken,
                     served, faults>>
      /\ call[c].at \in SignAt /\ call[c].at = "insert"
  BY DEF CreateDepartment, SetupRows, SignAt
<1>2. call[c] \in StartCall /\ call[c].f = link.f /\ call[c].f # NoFactory
  BY <1>1, StartValues DEF CallFits
<1>3. CASE Fails(c) /\ UNCHANGED departments
  <2>1. StartGrows
    BY <1>1, <1>3, StartStays
  <2>2. RegistryTypes'
    BY <1>1, <1>3 DEF IInv, Types, RegistryTypes
  <2> QED
    BY <1>1, <1>3, <2>1, <2>2, SignFails
<1>4. CASE departments' = departments \union {call[c].f} /\ Goto(c, "publish")
  <2>1. StartGrows
    BY <1>1, <1>4 DEF StartGrows
  <2>2. call[c].f \in factories
    BY <1>2 DEF IInv, Types, RegistryTypes
  <2>3. RegistryTypes'
    BY <1>1, <1>4, <2>2 DEF IInv, Types, RegistryTypes
  <2>4. PICK r : r = [call[c] EXCEPT !.at = "publish"]
    OBVIOUS
  <2>5. "publish" \in CallAt
    BY DEF CallAt, SignAt
  <2>6. r \in StartCall /\ r.at = "publish" /\ r.by = call[c].by /\ r.f = call[c].f
    BY <1>2, <2>4, <2>5 DEF StartCall
  <2>7. CallFits(r)'
    BY <1>1, <1>2, <1>4, <2>6 DEF CallFits, SetupAt
  <2> QED
    BY <1>1, <1>4, <2>1, <2>3, <2>4, <2>6, <2>7, SignGoto DEF Goto, SignAt
<1> QED
  BY <1>3, <1>4 DEF CreateDepartment

LEMMA PublishRegisteredStep == ASSUME OnboardingAssumption, IInv, NEW c \in Call, PublishRegistered(c) PROVE IInv'
<1>1. /\ UNCHANGED <<otp, verified, link, factories, departments, setup, staff, halfway, welcomed, waived, broken,
                     served, faults>>
      /\ call[c].at \in SignAt /\ call[c].at = "publish"
      /\ published' = published \union {call[c].f}
  BY DEF PublishRegistered, SetupRows, SignAt
<1>2. call[c] \in StartCall /\ call[c].f = link.f /\ call[c].f # NoFactory /\ call[c].f \in departments
  BY <1>1, StartValues DEF CallFits
<1>3. StartGrows
  BY <1>1 DEF StartGrows
<1>4. RegistryTypes'
  BY <1>1, <1>2 DEF IInv, Types, RegistryTypes
<1>5. PICK p : p = [Page(c) EXCEPT !.at = "inventory", !.token = call[c].f, !.done = FALSE]
  OBVIOUS
<1>6. /\ Page(c) \in StartPage /\ "inventory" \in PageAt /\ FALSE \in Flag
      /\ call[c].f \in Factory \union {NoFactory}
  BY <1>2, PageOfCall DEF PageAt, Flag, StartCall
<1>7. p \in StartPage /\ p.at = "inventory" /\ p.token = call[c].f /\ p.done = FALSE
  BY <1>5, <1>6 DEF StartPage
<1>8. PageFits(p)'
  BY <1>1, <1>2, <1>7 DEF PageFits
<1>9. Replies(c, p)
  BY <1>5 DEF PublishRegistered
<1> QED
  BY <1>1, <1>3, <1>4, <1>7, <1>8, <1>9, SignReply

-----------------------------------------------------------------------------
(* Steps of the set-up, which leave the registration alone. *)
SetupFrame == UNCHANGED <<otp, verified, link, factories, departments, published, served, faults>>

LEMMA SetupFrameIs ==
  ASSUME OnboardingAssumption, IInv, SetupFrame
  PROVE  RegistryTypes' /\ UNCHANGED <<link, factories, departments, published, served, faults>>
  BY DEF SetupFrame, IInv, Types, RegistryTypes

(* One column of one factory is written. *)
Columns(f, s) == setup' = [setup EXCEPT ![f] = s]

LEMMA ColumnsAre ==
  ASSUME OnboardingAssumption, IInv, NEW f \in Factory, NEW s \in SetupRow, Columns(f, s)
  PROVE  /\ setup' \in [Factory -> SetupRow] /\ setup'[f] = s /\ \A g \in Factory \ {f} : setup'[g] = setup[g]
         /\ setup[f] \in SetupRow
  BY DEF Columns, IInv, Types

(* What a set-up call is about, where it goes from one step to the next. *)
LEMMA SetupCall ==
  ASSUME OnboardingAssumption, IInv, NEW c \in Call, call[c].at \in SetupAt
  PROVE  /\ call[c] \in StartCall /\ call[c].f \in Factory /\ call[c].f = link.f /\ call[c].f # NoFactory
         /\ setup[call[c].f] \in SetupRow
         /\ call[c].by # NoWindow =>
               /\ page[call[c].by].at \in {"inventory", "team"} /\ page[call[c].by].token = call[c].f
               /\ Page(c) = page[call[c].by]
               /\ call[c].at \in {"import", "rows", "merge"} => page[call[c].by].at = "team"
<1>1. CallFits(call[c]) /\ call[c] \in StartCall /\ call[c].f \in Factory
  BY StartValues
<1> QED
  BY <1>1, PageOfCall, StartConstants DEF CallFits, IInv, Types

LEMMA SetupFits ==
  ASSUME OnboardingAssumption, IInv, NEW c \in Call, call[c].at \in SetupAt, NEW r \in StartCall, r.at \in SetupAt,
         r.by = call[c].by, r.f = call[c].f, UNCHANGED <<page, link>>,
         r.at \in {"import", "rows", "merge"} => call[c].at \in {"import", "rows", "merge"},
         r.at = "count" /\ r.shown = TRUE => setup'[r.f].inventory # "PENDING"
  PROVE  CallFits(r)'
  BY SetupCall DEF CallFits, SetupAt

LEMMA RefusedStep == ASSUME OnboardingAssumption, IInv, NEW c \in Call, Refused(c) PROVE IInv'
<1>1. SetupFrame /\ UNCHANGED <<setup, staff, halfway, welcomed, waived, broken>> /\ Fails(c)
      /\ call[c].at \notin {"merge", "close"}
  BY DEF Refused, Rows, SetupFrame
<1>2. StartGrows
  BY <1>1, SetupFrameIs, StartStays
<1>3. setup \in [Factory -> SetupRow]
  BY DEF IInv, Types
<1> QED
  BY <1>1, <1>2, <1>3, SetupFrameIs, FailsIs

LEMMA ImportStockStep ==
  ASSUME OnboardingAssumption, IInv, NEW c \in Call, NEW added \in BOOLEAN, ImportStock(c, added)
  PROVE  IInv'
<1>1. SetupFrame /\ UNCHANGED <<staff, halfway, welcomed, waived, broken>> /\ call[c].at = "stock" /\ call[c].at \in SetupAt
  BY DEF ImportStock, Registry, SetupFrame, SetupAt
<1>2. PICK f \in Factory : f = call[c].f /\ call[c] \in StartCall /\ setup[f] \in SetupRow
  BY <1>1, SetupCall
<1>3. CASE Fails(c) /\ UNCHANGED setup
  <2>1. StartGrows
    BY <1>1, <1>3, SetupFrameIs, StartStays
  <2>2. setup \in [Factory -> SetupRow]
    BY DEF IInv, Types
  <2> QED
    BY <1>1, <1>3, <2>1, <2>2, SetupFrameIs, FailsIs
<1>4. CASE Goto(c, "stockStatus") /\ setup' = [setup EXCEPT ![call[c].f].stocked = @ \/ added]
  <2>1. PICK v \in Flag : v = (setup[f].stocked \/ added)
    BY DEF Flag
  <2>2. PICK s : s = [setup[f] EXCEPT !.stocked = v]
    OBVIOUS
  <2>3. s \in SetupRow /\ s.stocked = v /\ s.pending = setup[f].pending /\ s.team = setup[f].team
        /\ s.completed = setup[f].completed /\ s.inventory = setup[f].inventory
    BY <1>2, <2>1, <2>2 DEF SetupRow
  <2>4. Columns(f, s)
    BY <1>2, <1>4, <2>1, <2>2 DEF Columns
  <2>5. setup[f].stocked = TRUE => s.stocked = TRUE
    BY <2>1, <2>3
  <2>6. StartGrows
    BY <2>3, <2>4, <2>5, <1>1, ColumnsAre, SetupFrameIs DEF StartGrows
  <2>7. PICK r : r = [call[c] EXCEPT !.at = "stockStatus"]
    OBVIOUS
  <2>8. "stockStatus" \in CallAt
    BY DEF CallAt, SetupAt
  <2>9. r \in StartCall /\ r.at = "stockStatus" /\ r.by = call[c].by /\ r.f = call[c].f
    BY <1>2, <2>7, <2>8 DEF StartCall
  <2>10. CallFits(r)'
    BY <1>1, <1>4, <2>9, SetupFits, SetupFrameIs DEF Goto, SetupAt
  <2>11. r.at \notin Inside /\ broken \in BOOLEAN
    BY <2>9 DEF Inside, IInv, Types
  <2>12. \A g \in Factory : setup'[g].pending = setup[g].pending /\ setup'[g].team = setup[g].team
    BY <2>3, <2>4, ColumnsAre
  <2> QED
    BY <1>1, <1>4, <2>3, <2>4, <2>6, <2>7, <2>9, <2>10, <2>11, <2>12, ColumnsAre, SetupFrameIs, GotoIs DEF Goto
<1> QED
  BY <1>3, <1>4 DEF ImportStock

(* The window that heard of it asks for the status. *)
LEMMA ThenStatusIs ==
  ASSUME OnboardingAssumption, IInv, NEW c \in Call, call[c].at \in SetupAt \ {"merge", "close"}, NEW next \in {"stay", "team"},
         ThenStatus(c, next),
         SetupFrame, UNCHANGED <<staff, halfway, welcomed, waived, broken>>, StartGrows, setup' \in [Factory -> SetupRow],
         \A f \in Factory : setup'[f].pending = setup[f].pending /\ setup'[f].team = setup[f].team
  PROVE  IInv'
<1>1. CASE Fails(c)
  BY <1>1, SetupFrameIs, FailsIs
<1>2. CASE call' = [call EXCEPT ![c].at = "status", ![c].next = next] /\ UNCHANGED page
  <2>1. PICK r : r = [call[c] EXCEPT !.at = "status", !.next = next]
    OBVIOUS
  <2>2. "status" \in CallAt /\ call[c] \in StartCall
    BY StartValues DEF CallAt, SetupAt
  <2>3. r \in StartCall /\ r.at = "status" /\ r.by = call[c].by /\ r.f = call[c].f
    BY <2>1, <2>2 DEF StartCall
  <2>4. CallFits(r)'
    BY <1>2, <2>3, SetupFits, SetupFrameIs DEF SetupAt
  <2>5. r.at \notin Inside /\ broken \in BOOLEAN
    BY <2>3 DEF Inside, IInv, Types
  <2>6. call' = [call EXCEPT ![c] = r]
    BY <1>2, <2>1
  <2> QED
    BY <1>2, <2>3, <2>4, <2>5, <2>6, SetupFrameIs, GotoIs
<1> QED
  BY <1>1, <1>2 DEF ThenStatus

LEMMA InventoryWrittenStep ==
  ASSUME OnboardingAssumption, IInv, NEW c \in Call, StockStatus(c) \/ SkipInventory(c)
  PROVE  IInv'
<1>1. /\ SetupFrame /\ UNCHANGED <<staff, halfway, welcomed, waived, broken>>
      /\ call[c].at \in SetupAt \ {"merge", "close"}
  BY DEF StockStatus, SkipInventory, Registry, SetupFrame, SetupAt
<1>2. PICK f \in Factory : f = call[c].f /\ setup[f] \in SetupRow
  BY <1>1, SetupCall
<1>3. PICK v \in StepState, next \in {"stay", "team"} :
        /\ v # "PENDING" /\ setup' = [setup EXCEPT ![call[c].f].inventory = v]
        /\ ThenStatus(c, next)
  BY DEF StockStatus, SkipInventory, StepState
<1>4. PICK s : s = [setup[f] EXCEPT !.inventory = v]
  OBVIOUS
<1>5. s \in SetupRow /\ s.inventory = v /\ s.pending = setup[f].pending /\ s.team = setup[f].team
      /\ s.completed = setup[f].completed /\ s.stocked = setup[f].stocked
  BY <1>2, <1>3, <1>4 DEF SetupRow
<1>6. Columns(f, s)
  BY <1>2, <1>3, <1>4 DEF Columns
<1>7. StartGrows
  BY <1>1, <1>3, <1>5, <1>6, ColumnsAre, SetupFrameIs DEF StartGrows
<1>8. \A g \in Factory : setup'[g].pending = setup[g].pending /\ setup'[g].team = setup[g].team
  BY <1>5, <1>6, ColumnsAre
<1> QED
  BY <1>1, <1>3, <1>5, <1>6, <1>7, <1>8, ColumnsAre, ThenStatusIs

LEMMA GetStatusStep == ASSUME OnboardingAssumption, IInv, NEW c \in Call, GetStatus(c) PROVE IInv'
<1>1. /\ SetupFrame /\ UNCHANGED <<page, setup, staff, halfway, welcomed, waived>>
      /\ call[c].at = "status" /\ call[c].at \in SetupAt
      /\ broken' = (broken \/ \E d \in Call \ {c} : call[d].at \in Slow)
  BY DEF GetStatus, Rows, SetupFrame, SetupAt
<1>2. PICK f \in Factory : f = call[c].f /\ call[c] \in StartCall /\ setup[f] \in SetupRow
  BY <1>1, SetupCall
<1>3. PICK flag \in Flag, sh \in Flag : /\ flag = (setup[f].team = "COMPLETED") /\ sh = (setup[f].inventory # "PENDING")
  BY DEF Flag
<1>4. PICK r : r = [call[c] EXCEPT !.at = "count", !.flag = flag, !.shown = sh]
  OBVIOUS
<1>5. "count" \in CallAt
  BY DEF CallAt, SetupAt
<1>6. r \in StartCall /\ r.at = "count" /\ r.by = call[c].by /\ r.f = call[c].f /\ r.shown = sh
  BY <1>2, <1>4, <1>5 DEF StartCall
<1>7. call' = [call EXCEPT ![c] = r]
  BY <1>2, <1>3, <1>4 DEF GetStatus
<1>8. CallFits(r)'
  BY <1>1, <1>2, <1>3, <1>6, SetupFits, SetupFrameIs DEF SetupAt
<1>9. StartGrows /\ setup \in [Factory -> SetupRow]
  BY <1>1, SetupFrameIs, StartStays DEF IInv, Types
<1>10. /\ broken' \in BOOLEAN /\ (broken' = FALSE => broken = FALSE)
       /\ broken' = FALSE => \A d \in Call \ {c} : call[d].at \notin Inside
  BY <1>1 DEF Slow, Inside, IInv, Types
<1> QED
  BY <1>1, <1>6, <1>7, <1>8, <1>9, <1>10, SetupFrameIs, GotoIs

LEMMA CountEmployeesStep == ASSUME OnboardingAssumption, IInv, NEW c \in Call, CountEmployees(c) PROVE IInv'
<1>1. /\ SetupFrame /\ UNCHANGED <<staff, halfway, welcomed, waived, broken>>
      /\ call[c].at = "count" /\ call[c].at \in SetupAt
  BY DEF CountEmployees, Registry, SetupFrame, SetupAt
<1>2. PICK f \in Factory : f = call[c].f /\ call[c] \in StartCall /\ setup[f] \in SetupRow
  BY <1>1, SetupCall
<1>3. PICK tm : tm = IF call[c].flag /\ staff[f] = {} THEN "PENDING" ELSE setup[f].team
  OBVIOUS
<1>4. tm \in StepState /\ (staff[f] # {} => tm = setup[f].team)
  BY <1>2, <1>3 DEF StepState, SetupRow
<1>5. PICK s : s = [setup[f] EXCEPT !.team = tm]
  OBVIOUS
<1>6. s \in SetupRow /\ s.team = tm /\ s.pending = setup[f].pending /\ s.inventory = setup[f].inventory
      /\ s.completed = setup[f].completed /\ s.stocked = setup[f].stocked
  BY <1>2, <1>4, <1>5 DEF SetupRow
<1>7. Columns(f, s)
  BY <1>2, <1>3, <1>5 DEF Columns, CountEmployees
<1>8. StartGrows
  BY <1>1, <1>6, <1>7, ColumnsAre, SetupFrameIs DEF StartGrows
<1>9. \A g \in Factory : setup'[g].pending = setup[g].pending /\ (staff[g] # {} => setup'[g].team = setup[g].team)
  BY <1>4, <1>6, <1>7, ColumnsAre
<1>10. PICK o \in StartPage : o = Page(c) /\ PageFits(o) /\ (call[c].by # NoWindow => o.token = f)
  BY <1>1, <1>2, PageOfCall, SetupCall
<1>11. PICK p \in StartPage : Replies(c, p) /\ (call[c].by # NoWindow => PageFits(p)')
  <2>1. CASE call[c].next = "team"
    <3>1. PICK p : p = [o EXCEPT !.at = "team", !.done = FALSE]
      OBVIOUS
    <3>2. "team" \in PageAt /\ FALSE \in Flag
      BY DEF PageAt, Flag
    <3>3. p \in StartPage /\ p.at = "team" /\ p.token = o.token
      BY <3>1, <3>2 DEF StartPage
    <3>4. Replies(c, p)
      BY <1>10, <2>1, <3>1 DEF CountEmployees
    <3>5. call[c].by # NoWindow => PageFits(p)'
      <4>1. o.token # NoFactory => o.token = link.f /\ o.token \in departments /\ o.token \in published
        BY <1>10 DEF PageFits
      <4> QED
        BY <1>1, <1>2, <1>10, <3>3, <4>1, SetupFrameIs, StartConstants DEF PageFits
    <3> QED
      BY <3>3, <3>4, <3>5
  <2>2. CASE call[c].next # "team"
    <3>1. PICK dn \in Flag : dn = StepDone(c, o.at, tm)
      <4>1. call[c].shown \in BOOLEAN /\ setup[f].stocked \in BOOLEAN
        BY <1>2 DEF StartCall, SetupRow, Flag
      <4> QED
        BY <1>2, <4>1 DEF StepDone, Flag
    <3>2. PICK p : p = [o EXCEPT !.done = dn]
      OBVIOUS
    <3>3. p \in StartPage /\ p.at = o.at /\ p.token = o.token /\ p.done = dn
      BY <3>1, <3>2 DEF StartPage
    <3>4. Replies(c, p)
      BY <1>2, <1>3, <1>10, <2>2, <3>1, <3>2 DEF CountEmployees
    <3>5. call[c].by # NoWindow /\ o.at = "inventory" /\ dn = TRUE =>
            setup'[f].inventory # "PENDING" \/ setup'[f].stocked = TRUE
      <4>1. call[c].shown = TRUE => setup[f].inventory # "PENDING"
        BY <1>1, <1>2, StartValues DEF CallFits
      <4>2. call[c].shown \in BOOLEAN /\ setup[f].stocked \in BOOLEAN
        BY <1>2 DEF StartCall, SetupRow, Flag
      <4>3. setup'[f].inventory = setup[f].inventory /\ setup'[f].stocked = setup[f].stocked
        BY <1>6, <1>7, ColumnsAre
      <4> QED
        BY <1>2, <3>1, <4>1, <4>2, <4>3 DEF StepDone
    <3>6. call[c].by # NoWindow => PageFits(p)'
      <4>1. o.token # NoFactory => o.token = link.f /\ o.token \in departments /\ o.token \in published
        BY <1>10 DEF PageFits
      <4>2. call[c].by # NoWindow => o.at \in {"inventory", "team"}
        BY <1>1, <1>10, SetupCall
      <4> QED
        BY <1>1, <1>2, <1>10, <3>3, <3>5, <4>1, <4>2, SetupFrameIs, StartConstants DEF PageFits
    <3> QED
      BY <3>3, <3>4, <3>6
  <2> QED
    BY <2>1, <2>2
<1> QED
  BY <1>1, <1>8, <1>9, <1>11, <1>7, <1>6, ColumnsAre, SetupFrameIs, ReplyIs

LEMMA ImportTeamStep == ASSUME OnboardingAssumption, IInv, NEW c \in Call, ImportTeam(c) PROVE IInv'
<1>1. /\ UNCHANGED <<page, otp, verified, link, factories, published, setup, staff, halfway, welcomed, waived, broken,
                     served, faults>>
      /\ call[c].at = "import" /\ call[c].at \in SetupAt /\ departments' = departments \union {call[c].f}
  BY DEF ImportTeam, SetupRows, SetupAt
<1>2. PICK f \in Factory : f = call[c].f /\ f = link.f /\ call[c] \in StartCall /\ setup[f] \in SetupRow
  BY <1>1, SetupCall
<1>3. RegistryTypes'
  <2>1. f \in factories
    BY <1>2, StartConstants DEF IInv, Types, RegistryTypes
  <2> QED
    BY <1>1, <1>2, <2>1 DEF IInv, Types, RegistryTypes
<1>4. StartGrows /\ setup \in [Factory -> SetupRow] /\ broken \in BOOLEAN
  BY <1>1 DEF StartGrows, IInv, Types
<1>5. PICK r : r = [call[c] EXCEPT !.at = "rows", !.seen = setup[f].pending]
  OBVIOUS
<1>6. "rows" \in CallAt /\ setup[f].pending \in People
  BY <1>2 DEF CallAt, SetupAt, SetupRow
<1>7. r \in StartCall /\ r.at = "rows" /\ r.by = call[c].by /\ r.f = call[c].f /\ r.seen = setup[f].pending
  BY <1>2, <1>5, <1>6 DEF StartCall
<1>8. call' = [call EXCEPT ![c] = r]
  BY <1>2, <1>5 DEF ImportTeam
<1>9. CallFits(r)'
  BY <1>1, <1>7, SetupFits DEF SetupAt
<1>10. broken = FALSE => \A d \in Call \ {c} : call[d].at \notin Inside
  BY <1>1 DEF IInv, Accounts, SeenOK, Alone, Inside
<1> QED
  BY <1>1, <1>2, <1>3, <1>4, <1>7, <1>8, <1>9, <1>10, GotoIs

LEMMA SkipTeamStep == ASSUME OnboardingAssumption, IInv, NEW c \in Call, SkipTeam(c) PROVE IInv'
<1>1. /\ SetupFrame /\ UNCHANGED <<staff, halfway, welcomed, waived, broken>>
      /\ call[c].at = "skip" /\ call[c].at \in SetupAt
  BY DEF SkipTeam, Registry, SetupFrame, SetupAt
<1>2. PICK f \in Factory : f = call[c].f /\ call[c] \in StartCall /\ setup[f] \in SetupRow
  BY <1>1, SetupCall
<1>3. PICK s : s = [setup[f] EXCEPT !.team = "SKIPPED"]
  OBVIOUS
<1>4. s \in SetupRow /\ s.team = "SKIPPED" /\ s.pending = setup[f].pending /\ s.inventory = setup[f].inventory
      /\ s.completed = setup[f].completed /\ s.stocked = setup[f].stocked
  BY <1>2, <1>3 DEF SetupRow, StepState
<1>5. Columns(f, s)
  BY <1>2, <1>3 DEF Columns, SkipTeam
<1>6. StartGrows
  BY <1>1, <1>4, <1>5, ColumnsAre, SetupFrameIs DEF StartGrows
<1>7. \A g \in Factory : setup'[g].pending = setup[g].pending
                        /\ (setup[g].team # "PENDING" => setup'[g].team # "PENDING")
  BY <1>4, <1>5, ColumnsAre
<1>8. CASE Fails(c)
  BY <1>1, <1>4, <1>5, <1>6, <1>7, <1>8, ColumnsAre, SetupFrameIs, FailsIs
<1>9. CASE Goto(c, "complete")
  <2>1. PICK r : r = [call[c] EXCEPT !.at = "complete"]
    OBVIOUS
  <2>2. "complete" \in CallAt
    BY DEF CallAt, SetupAt
  <2>3. r \in StartCall /\ r.at = "complete" /\ r.by = call[c].by /\ r.f = call[c].f
    BY <1>2, <2>1, <2>2 DEF StartCall
  <2>4. CallFits(r)'
    BY <1>1, <1>9, <2>3, SetupFits, SetupFrameIs DEF Goto, SetupAt
  <2>5. r.at \notin Inside /\ broken \in BOOLEAN
    BY <2>3 DEF Inside, IInv, Types
  <2> QED
    BY <1>1, <1>4, <1>5, <1>6, <1>7, <1>9, <2>1, <2>3, <2>4, <2>5, ColumnsAre, SetupFrameIs, GotoIs DEF Goto
<1> QED
  BY <1>8, <1>9 DEF SkipTeam

LEMMA CompleteStep == ASSUME OnboardingAssumption, IInv, NEW c \in Call, Complete(c) PROVE IInv'
<1>1. /\ SetupFrame /\ UNCHANGED <<page, setup, staff, halfway, welcomed, waived>>
      /\ call[c].at = "complete" /\ call[c].at \in SetupAt
      /\ broken' = (broken \/ \E d \in Call \ {c} : call[d].at \in Slow)
  BY DEF Complete, Rows, SetupFrame, SetupAt
<1>2. PICK f \in Factory : f = call[c].f /\ call[c] \in StartCall /\ setup[f] \in SetupRow
  BY <1>1, SetupCall
<1>3. PICK r : r = [call[c] EXCEPT !.at = "send", !.seen = setup[f].pending]
  OBVIOUS
<1>4. "send" \in CallAt /\ setup[f].pending \in People
  BY <1>2 DEF CallAt, SetupAt, SetupRow
<1>5. r \in StartCall /\ r.at = "send" /\ r.by = call[c].by /\ r.f = call[c].f /\ r.seen = setup[f].pending
  BY <1>2, <1>3, <1>4 DEF StartCall
<1>6. call' = [call EXCEPT ![c] = r]
  BY <1>2, <1>3 DEF Complete
<1>7. CallFits(r)'
  BY <1>1, <1>5, SetupFits, SetupFrameIs DEF SetupAt
<1>8. StartGrows /\ setup \in [Factory -> SetupRow]
  BY <1>1, SetupFrameIs, StartStays DEF IInv, Types
<1>9. /\ broken' \in BOOLEAN /\ (broken' = FALSE => broken = FALSE)
      /\ broken' = FALSE => \A d \in Call \ {c} : call[d].at \notin Inside
  BY <1>1 DEF Slow, Inside, IInv, Types
<1> QED
  BY <1>1, <1>2, <1>5, <1>6, <1>7, <1>8, <1>9, SetupFrameIs, GotoIs

(* What the accounts say while a call is at work and none overlapped. *)
LEMMA AtWork ==
  ASSUME OnboardingAssumption, IInv, broken = FALSE, NEW c \in Call, call[c].at \in Inside, NEW f \in Factory, f = call[c].f
  PROVE  /\ \A d \in Call \ {c} : call[d].at \notin Inside
         /\ SeenOK(c) /\ StaffOK(f) /\ (\A e \in Employee : WelcomeOK(e))
         /\ call[c].at # "merge" => \A g \in Factory : At("merge", g) = {}
         /\ call[c].at # "close" => \A g \in Factory : At("close", g) = {}
<1>1. SeenOK(c) /\ StaffOK(f) /\ \A e \in Employee : WelcomeOK(e)
  BY DEF IInv, Accounts
<1>2. \A d \in Call \ {c} : call[d].at \notin Inside
  BY <1>1 DEF SeenOK, Alone
<1> QED
  BY <1>1, <1>2 DEF At, Inside

(* The rows of the file are in; the welcomes of the new employees are due. *)
LEMMA ImportRowsStep ==
  ASSUME OnboardingAssumption, IInv, NEW c \in Call, NEW added \in SUBSET Employee, NEW failed \in SUBSET Employee,
         NEW skipped \in BOOLEAN, ImportRows(c, added, failed, skipped)
  PROVE  IInv'
<1>1. /\ SetupFrame /\ UNCHANGED <<setup, welcomed, waived, broken>>
      /\ call[c].at = "rows" /\ call[c].at \in SetupAt /\ call[c].at \in Inside
  BY DEF ImportRows, Registry, SetupFrame, SetupAt, Inside
<1>2. PICK f \in Factory : f = call[c].f /\ call[c] \in StartCall /\ setup[f] \in SetupRow
  BY <1>1, SetupCall
<1>3. /\ staff' = [staff EXCEPT ![f] = @ \union added \union failed] /\ staff \in [Factory -> SUBSET Employee]
      /\ halfway' = halfway \union failed /\ halfway \subseteq Employee /\ added \intersect failed = {}
      /\ \A e \in added \union failed : \A g \in Factory : e \notin staff[g]
  BY <1>2 DEF ImportRows, IInv, Types
<1>4. StartGrows /\ setup \in [Factory -> SetupRow] /\ broken \in BOOLEAN
  BY <1>1, SetupFrameIs, StartStays DEF IInv, Types
<1>5. /\ staff' \in [Factory -> SUBSET Employee] /\ staff'[f] = staff[f] \union added \union failed
      /\ \A g \in Factory \ {f} : staff'[g] = staff[g]
      /\ halfway' \subseteq Employee
  BY <1>3
<1>6. ASSUME broken' = FALSE
      PROVE  /\ broken = FALSE /\ \A d \in Call \ {c} : call[d].at \notin Inside
             /\ SeenOK(c) /\ (\A g \in Factory : StaffOK(g)) /\ (\A e \in Employee : WelcomeOK(e))
             /\ \A g \in Factory : At("merge", g) = {} /\ At("close", g) = {}
             /\ staff'[f] \ halfway' = (staff[f] \ halfway) \union added
             /\ \A g \in Factory \ {f} : staff'[g] \ halfway' = staff[g] \ halfway
             /\ \A g \in Factory : \A h \in Factory \ {g} : staff'[g] \intersect staff'[h] = {}
             /\ \A e \in Employee : WelcomeOK(e)'
  <2>1. broken = FALSE
    BY <1>1, <1>6
  <2>2. /\ \A d \in Call \ {c} : call[d].at \notin Inside
        /\ SeenOK(c) /\ (\A e \in Employee : WelcomeOK(e))
        /\ \A g \in Factory : At("merge", g) = {} /\ At("close", g) = {}
    BY <1>1, <1>2, <2>1, AtWork
  <2>3. \A g \in Factory : StaffOK(g)
    BY <2>1 DEF IInv, Accounts
  <2>4. halfway \intersect added = {}
    BY <1>3, <2>2 DEF WelcomeOK
  <2>5. staff'[f] \ halfway' = (staff[f] \ halfway) \union added
    BY <1>3, <1>5, <2>4
  <2>6. \A g \in Factory \ {f} : staff'[g] \ halfway' = staff[g] \ halfway
    BY <1>3, <1>5
  <2>7. \A g \in Factory : \A h \in Factory \ {g} : staff[g] \intersect staff[h] = {}
    BY <2>3 DEF StaffOK
  <2>8. \A g \in Factory : \A h \in Factory \ {g} : staff'[g] \intersect staff'[h] = {}
    BY <1>3, <1>5, <2>7
  <2>9. ASSUME NEW e \in Employee PROVE WelcomeOK(e)'
    <3>1. WelcomeOK(e) /\ welcomed' = welcomed
      BY <1>1, <2>2
    <3>2. (\A g \in Factory : e \notin staff'[g]) => \A g \in Factory : e \notin staff[g]
      BY <1>5
    <3>3. e \in halfway' => e \in halfway \/ \A g \in Factory : e \notin staff[g]
      BY <1>3
    <3>4. e \in halfway' => \E g \in Factory : e \in staff'[g]
      BY <1>3, <1>5, <3>1 DEF WelcomeOK
    <3> QED
      BY <3>1, <3>2, <3>3, <3>4 DEF WelcomeOK
  <2> QED
    BY <2>1, <2>2, <2>3, <2>5, <2>6, <2>8, <2>9
<1>7. CASE added = {} /\ Fails(c)
  <2>1. PICK p \in StartPage : p = Page(c) /\ PageFits(p)
    BY PageOfCall
  <2>2. PageFits(p)'
    BY <1>4, <2>1, PageKeeps
  <2>3. /\ page' \in [Window -> StartPage] /\ call' \in [Call -> StartCall]
        /\ \A w \in Window : PageOK(w)'
        /\ \A d \in Call : CallOK(d)'
        /\ call'[c] = NoCall /\ \A d \in Call \ {c} : call'[d] = call[d]
    BY <1>4, <1>7, <2>1, <2>2, Answered DEF Fails
  <2>4. Types'
    BY <1>1, <1>5, <2>3, SetupFrameIs DEF IInv, Types
  <2>5. ASSUME broken' = FALSE PROVE Accounts'
    <3>1. \A d \in Call : call'[d].at \notin Inside
      BY <1>6, <2>3, <2>5, StartNothing DEF Inside
    <3>2. \A d \in Call : SeenOK(d)'
      BY <3>1 DEF SeenOK, Inside
    <3>3. \A g \in Factory : At("merge", g)' = {} /\ At("close", g)' = {}
      BY <3>1 DEF At, Inside
    <3>4. \A g \in Factory : staff'[g] \ halfway' = staff[g] \ halfway
      BY <1>6, <1>7, <2>5
    <3>5. ASSUME NEW g \in Factory PROVE StaffOK(g)'
      <4>1. StaffOK(g) /\ At("merge", g) = {} /\ At("close", g) = {}
        BY <1>6, <2>5
      <4>2. staff'[g] \subseteq halfway' <=> staff[g] \subseteq halfway
        BY <3>4
      <4> QED
        BY <1>1, <1>6, <2>5, <3>3, <3>4, <4>1, <4>2 DEF StaffOK
    <3> QED
      BY <1>6, <2>5, <3>2, <3>5 DEF Accounts
  <2> QED
    BY <2>3, <2>4, <2>5 DEF IInv
<1>8. CASE call' = [call EXCEPT ![c].at = "merge", ![c].seen = @ \union added] /\ UNCHANGED page
  <2>1. PICK r : r = [call[c] EXCEPT !.at = "merge", !.seen = @ \union added]
    OBVIOUS
  <2>2. "merge" \in CallAt /\ (call[c].seen \union added) \in People
    BY <1>2 DEF CallAt, SetupAt, StartCall, People
  <2>3. /\ r \in StartCall /\ r.at = "merge" /\ r.by = call[c].by /\ r.f = call[c].f
        /\ r.seen = call[c].seen \union added
    BY <1>2, <2>1, <2>2 DEF StartCall
  <2>4. CallFits(r)'
    BY <1>1, <1>8, <2>3, SetupFits, SetupFrameIs DEF SetupAt
  <2>5. call' = [call EXCEPT ![c] = r]
    BY <1>8, <2>1
  <2>6. /\ page' \in [Window -> StartPage] /\ call' \in [Call -> StartCall]
        /\ \A w \in Window : PageOK(w)'
        /\ \A d \in Call : CallOK(d)'
        /\ call'[c] = r /\ \A d \in Call \ {c} : call'[d] = call[d]
    BY <1>4, <1>8, <2>3, <2>4, <2>5, GoesOn
  <2>7. Types'
    BY <1>1, <1>5, <2>6, SetupFrameIs DEF IInv, Types
  <2>8. ASSUME broken' = FALSE PROVE Accounts'
    <3>1. StaffOK(f) /\ call[c].seen = setup[f].pending
      BY <1>1, <1>2, <1>6, <2>8 DEF SeenOK
    <3>2. \A d \in Call \ {c} : call'[d].at \notin Inside
      BY <1>6, <2>6, <2>8
    <3>3. ASSUME NEW d \in Call PROVE SeenOK(d)'
      <4>1. CASE d = c
        <5>1. \A e \in r.seen : welcomed[e] = 0
          <6>1. \A e \in setup[f].pending : welcomed[e] = 0
            BY <1>6, <2>8, <3>1 DEF StaffOK
          <6>2. \A e \in added : welcomed[e] = 0
            BY <1>3, <1>6, <2>8 DEF WelcomeOK
          <6> QED
            BY <2>3, <3>1, <6>1, <6>2
        <5>2. setup[f].pending \subseteq r.seen /\ r.seen \subseteq staff'[f] \ halfway'
          BY <1>6, <2>3, <2>8, <3>1 DEF StaffOK
        <5> QED
          BY <1>1, <1>2, <2>3, <2>6, <3>2, <4>1, <5>1, <5>2 DEF SeenOK, Alone
      <4>2. CASE d # c
        BY <3>2, <4>2 DEF SeenOK, Inside
      <4> QED
        BY <4>1, <4>2
    <3>4. ASSUME NEW g \in Factory PROVE StaffOK(g)'
      <4>1. StaffOK(g) /\ At("merge", g) = {} /\ At("close", g) = {}
        BY <1>6, <2>8
      <4>2. \A h \in Factory \ {g} : staff'[g] \intersect staff'[h] = {}
        BY <1>6, <2>8
      <4>3. At("close", g)' = {}
        BY <2>3, <2>6, <3>2 DEF At, Inside
      <4>4. CASE g = f
        <5>1. c \in At("merge", f)'
          BY <1>2, <2>3, <2>6 DEF At
        <5>2. setup'[f].pending \subseteq staff'[f] \ halfway' /\ \A e \in setup'[f].pending : welcomed'[e] = 0
          BY <1>1, <1>6, <2>8, <4>1, <4>4 DEF StaffOK
        <5>3. \A e \in staff'[f] \ halfway' : \/ welcomed'[e] = 1 \/ e \in setup'[f].pending \/ e \in waived'
                                              \/ e \in call'[c].seen
          BY <1>1, <1>6, <2>3, <2>6, <2>8, <4>1, <4>4 DEF StaffOK
        <5> QED
          BY <4>2, <4>3, <4>4, <5>1, <5>2, <5>3 DEF StaffOK
      <4>5. CASE g # f
        <5>1. At("merge", g)' = {}
          BY <1>2, <2>3, <2>6, <3>2, <4>5 DEF At, Inside
        <5>2. staff'[g] \ halfway' = staff[g] \ halfway /\ (staff'[g] \subseteq halfway' <=> staff[g] \subseteq halfway)
          <6>1. staff'[g] \ halfway' = staff[g] \ halfway
            BY <1>6, <2>8, <4>5
          <6>2. staff'[g] \subseteq halfway' <=> staff[g] \subseteq halfway
            BY <6>1
          <6> QED
            BY <6>1, <6>2
        <5>3. \A e \in staff'[g] \ halfway' : welcomed'[e] = 1 \/ e \in setup'[g].pending \/ e \in waived'
          BY <1>1, <4>1, <5>2 DEF StaffOK
        <5>4. ~(staff'[g] \subseteq halfway') => setup'[g].team # "PENDING"
          BY <1>1, <4>1, <5>2 DEF StaffOK
        <5>5. setup'[g].pending \subseteq staff'[g] \ halfway' /\ \A e \in setup'[g].pending : welcomed'[e] = 0
          BY <1>1, <4>1, <5>2 DEF StaffOK
        <5> QED
          BY <4>2, <5>3, <5>4, <5>5 DEF StaffOK
      <4> QED
        BY <4>4, <4>5
    <3> QED
      BY <1>6, <2>8, <3>3, <3>4 DEF Accounts
  <2> QED
    BY <2>6, <2>7, <2>8 DEF IInv
<1> QED
  BY <1>7, <1>8 DEF ImportRows

(* What the import writes at its end: the team is there, and the welcomes due are
   those it read and those of whom it added. *)
LEMMA MergeWelcomesStep == ASSUME OnboardingAssumption, IInv, NEW c \in Call, MergeWelcomes(c) PROVE IInv'
<1>1. /\ SetupFrame /\ UNCHANGED <<staff, halfway, welcomed, waived, broken>>
      /\ call[c].at = "merge" /\ call[c].at \in SetupAt /\ call[c].at \in Inside
  BY DEF MergeWelcomes, Registry, SetupFrame, SetupAt, Inside
<1>2. PICK f \in Factory : f = call[c].f /\ call[c] \in StartCall /\ setup[f] \in SetupRow
  BY <1>1, SetupCall
<1>3. PICK s : s = [setup[f] EXCEPT !.team = "COMPLETED", !.pending = call[c].seen]
  OBVIOUS
<1>4. "COMPLETED" \in StepState /\ call[c].seen \in People
  BY <1>2 DEF StepState, StartCall
<1>5. s \in SetupRow /\ s.team = "COMPLETED" /\ s.pending = call[c].seen /\ s.inventory = setup[f].inventory
      /\ s.completed = setup[f].completed /\ s.stocked = setup[f].stocked
  BY <1>2, <1>3, <1>4 DEF SetupRow
<1>6. Columns(f, s)
  BY <1>2, <1>3 DEF Columns, MergeWelcomes
<1>7. StartGrows
  BY <1>1, <1>5, <1>6, ColumnsAre, SetupFrameIs DEF StartGrows
<1>8. PICK o \in StartPage : o = Page(c) /\ PageFits(o) /\ (call[c].by # NoWindow => o.token = f /\ o.at = "team")
  BY <1>1, <1>2, PageOfCall, SetupCall
<1>9. PICK dn \in Flag : dn = (staff[f] # {} \/ call[c].seen # {})
  BY DEF Flag
<1>10. PICK p : p = [o EXCEPT !.done = dn]
  OBVIOUS
<1>11. p \in StartPage /\ p.at = o.at /\ p.token = o.token
  BY <1>10 DEF StartPage
<1>12. Replies(c, p)
  BY <1>2, <1>8, <1>9, <1>10 DEF MergeWelcomes
<1>13. call[c].by # NoWindow => PageFits(p)'
  <2>1. o.token # NoFactory => o.token = link.f /\ o.token \in departments /\ o.token \in published
    BY <1>8 DEF PageFits
  <2> QED
    BY <1>1, <1>2, <1>8, <1>11, <2>1, SetupFrameIs, StartConstants DEF PageFits
<1>14. /\ page' \in [Window -> StartPage] /\ call' \in [Call -> StartCall]
       /\ \A w \in Window : PageOK(w)'
       /\ \A d \in Call : CallOK(d)'
       /\ call'[c] = NoCall /\ \A d \in Call \ {c} : call'[d] = call[d]
  BY <1>7, <1>11, <1>12, <1>13, Answered
<1>15. setup' \in [Factory -> SetupRow] /\ setup'[f] = s /\ \A g \in Factory \ {f} : setup'[g] = setup[g]
  BY <1>5, <1>6, ColumnsAre
<1>16. Types'
  BY <1>1, <1>14, <1>15, SetupFrameIs DEF IInv, Types
<1>17. ASSUME broken' = FALSE PROVE Accounts'
  <2>1. broken = FALSE
    BY <1>1, <1>17
  <2>2. /\ \A d \in Call \ {c} : call[d].at \notin Inside
        /\ SeenOK(c) /\ StaffOK(f) /\ (\A e \in Employee : WelcomeOK(e))
        /\ \A g \in Factory : At("close", g) = {}
    BY <1>1, <1>2, <2>1, AtWork
  <2>3. \A d \in Call : call'[d].at \notin Inside
    BY <1>14, <2>2, StartNothing DEF Inside
  <2>4. \A d \in Call : SeenOK(d)'
    BY <2>3 DEF SeenOK, Inside
  <2>5. \A g \in Factory : At("merge", g)' = {} /\ At("close", g)' = {}
    BY <2>3 DEF At, Inside
  <2>6. setup[f].pending \subseteq call[c].seen /\ call[c].seen \subseteq staff[f] \ halfway
        /\ \A e \in call[c].seen : welcomed[e] = 0
    BY <1>1, <1>2, <2>2 DEF SeenOK
  <2>7. ASSUME NEW g \in Factory PROVE StaffOK(g)'
    <3>1. StaffOK(g)
      BY <2>1 DEF IInv, Accounts
    <3>2. CASE g = f
      <4>1. \A b \in At("merge", f) : b = c
        BY <1>1, <2>2 DEF At, Inside
      <4> QED
        BY <1>1, <1>5, <1>15, <2>5, <2>6, <3>1, <3>2, <4>1 DEF StaffOK
    <3>3. CASE g # f
      <4>1. At("merge", g) = {}
        BY <1>2, <2>2, <3>3 DEF At, Inside
      <4> QED
        BY <1>1, <1>15, <2>2, <2>5, <3>1, <3>3, <4>1 DEF StaffOK
    <3> QED
      BY <3>2, <3>3
  <2>8. \A e \in Employee : WelcomeOK(e)'
    BY <1>1, <2>2 DEF WelcomeOK
  <2> QED
    BY <2>4, <2>7, <2>8 DEF Accounts
<1> QED
  BY <1>14, <1>16, <1>17 DEF IInv

(* The welcomes due are sent, or the owner waives them; then complete writes. *)
LEMMA SendWelcomesStep == ASSUME OnboardingAssumption, IInv, NEW c \in Call, SendWelcomes(c) PROVE IInv'
<1>1. /\ SetupFrame /\ UNCHANGED <<page, setup, staff, halfway, broken>>
      /\ call[c].at = "send" /\ call[c].at \in SetupAt /\ call[c].at \in Inside
  BY DEF SendWelcomes, Goto, Registry, SetupFrame, SetupAt, Inside
<1>2. PICK f \in Factory : f = call[c].f /\ call[c] \in StartCall /\ setup[f] \in SetupRow
  BY <1>1, SetupCall
<1>3. welcomed \in [Employee -> Nat] /\ waived \subseteq Employee /\ call[c].seen \subseteq Employee
  BY <1>2 DEF IInv, Types, StartCall, People
<1>4. /\ welcomed' \in [Employee -> Nat] /\ waived' \subseteq Employee /\ waived \subseteq waived'
      /\ \A e \in Employee \ call[c].seen : welcomed'[e] = welcomed[e]
      /\ \A e \in call[c].seen : \/ welcomed'[e] = welcomed[e] + 1
                                 \/ welcomed'[e] = welcomed[e] /\ e \in waived'
  <2>1. CASE call[c].flag = TRUE
    BY <1>3, <2>1 DEF SendWelcomes
  <2>2. CASE call[c].flag # TRUE
    <3>1. waived' = waived \union call[c].seen /\ UNCHANGED welcomed
      <4>1. call[c].flag \in BOOLEAN
        BY <1>2 DEF StartCall, Flag
      <4> QED
        BY <2>2, <4>1 DEF SendWelcomes
    <3> QED
      BY <1>3, <3>1
  <2> QED
    BY <2>1, <2>2
<1>5. StartGrows /\ setup \in [Factory -> SetupRow]
  BY <1>1, SetupFrameIs, StartStays DEF IInv, Types
<1>6. PICK r : r = [call[c] EXCEPT !.at = "close"]
  OBVIOUS
<1>7. "close" \in CallAt
  BY DEF CallAt, SetupAt
<1>8. r \in StartCall /\ r.at = "close" /\ r.by = call[c].by /\ r.f = call[c].f /\ r.seen = call[c].seen
  BY <1>2, <1>6, <1>7 DEF StartCall
<1>9. call' = [call EXCEPT ![c] = r]
  BY <1>6 DEF SendWelcomes, Goto
<1>10. CallFits(r)'
  BY <1>1, <1>8, SetupFits, SetupFrameIs DEF SetupAt
<1>11. /\ page' \in [Window -> StartPage] /\ call' \in [Call -> StartCall]
       /\ \A w \in Window : PageOK(w)'
       /\ \A d \in Call : CallOK(d)'
       /\ call'[c] = r /\ \A d \in Call \ {c} : call'[d] = call[d]
  BY <1>1, <1>5, <1>8, <1>9, <1>10, GoesOn
<1>12. Types'
  BY <1>1, <1>4, <1>5, <1>11, SetupFrameIs DEF IInv, Types
<1>13. ASSUME broken' = FALSE PROVE Accounts'
  <2>1. broken = FALSE
    BY <1>1, <1>13
  <2>2. /\ \A d \in Call \ {c} : call[d].at \notin Inside
        /\ SeenOK(c) /\ StaffOK(f) /\ (\A e \in Employee : WelcomeOK(e))
        /\ \A g \in Factory : At("merge", g) = {} /\ At("close", g) = {}
    BY <1>1, <1>2, <2>1, AtWork
  <2>3. \A d \in Call \ {c} : call'[d].at \notin Inside
    BY <1>11, <2>2
  <2>4. call[c].seen = setup[f].pending /\ setup[f].pending \subseteq staff[f] \ halfway
        /\ \A e \in setup[f].pending : welcomed[e] = 0
    BY <1>1, <1>2, <2>2 DEF SeenOK, StaffOK
  <2>5. \A e \in call[c].seen : welcomed'[e] = 1 \/ (welcomed'[e] = 0 /\ e \in waived')
    BY <1>3, <1>4, <2>4
  <2>6. ASSUME NEW d \in Call PROVE SeenOK(d)'
    <3>1. CASE d = c
      BY <1>1, <1>2, <1>8, <1>11, <2>3, <2>4, <2>5, <3>1 DEF SeenOK, Alone
    <3>2. CASE d # c
      BY <2>3, <3>2 DEF SeenOK, Inside
    <3> QED
      BY <3>1, <3>2
  <2>7. \A g \in Factory : At("merge", g)' = {}
    BY <1>8, <1>11, <2>3 DEF At, Inside
  <2>8. c \in At("close", f)'
    BY <1>2, <1>8, <1>11 DEF At
  <2>9. ASSUME NEW g \in Factory PROVE StaffOK(g)'
    <3>1. StaffOK(g) /\ staff[g] \subseteq Employee
      BY <2>1 DEF IInv, Types, Accounts
    <3>2. CASE g = f
      <4>1. \A e \in staff[f] \ halfway : welcomed'[e] = 1 \/ e \in setup[f].pending \/ e \in waived'
        BY <1>4, <2>2, <2>4, <2>5, <3>1, <3>2 DEF StaffOK
      <4> QED
        BY <1>1, <2>7, <2>8, <2>2, <3>1, <3>2, <4>1 DEF StaffOK
    <3>3. CASE g # f
      <4>1. staff[g] \intersect call[c].seen = {} /\ setup[g].pending \subseteq staff[g] \ halfway
        BY <2>4, <3>1, <3>3 DEF StaffOK
      <4>2. \A e \in staff[g] : welcomed'[e] = welcomed[e]
        BY <1>4, <3>1, <4>1
      <4> QED
        BY <1>1, <1>4, <2>2, <2>7, <3>1, <4>1, <4>2 DEF StaffOK
    <3> QED
      BY <3>2, <3>3
  <2>10. ASSUME NEW e \in Employee PROVE WelcomeOK(e)'
    <3>1. CASE e \in call[c].seen
      BY <1>1, <2>4, <2>5, <3>1 DEF WelcomeOK
    <3>2. CASE e \notin call[c].seen
      BY <1>1, <1>4, <2>2, <3>2 DEF WelcomeOK
    <3> QED
      BY <3>1, <3>2
  <2> QED
    BY <2>6, <2>9, <2>10 DEF Accounts
<1> QED
  BY <1>11, <1>12, <1>13 DEF IInv

(* complete writes: the set-up is complete and no welcome is due. *)
LEMMA CloseStep == ASSUME OnboardingAssumption, IInv, NEW c \in Call, Close(c) PROVE IInv'
<1>1. /\ SetupFrame /\ UNCHANGED <<staff, halfway, welcomed, waived, broken>>
      /\ call[c].at = "close" /\ call[c].at \in SetupAt /\ call[c].at \in Inside
  BY DEF Close, Registry, SetupFrame, SetupAt, Inside
<1>2. PICK f \in Factory : f = call[c].f /\ call[c] \in StartCall /\ setup[f] \in SetupRow
  BY <1>1, SetupCall
<1>3. PICK s : s = [setup[f] EXCEPT !.completed = TRUE, !.pending = {}]
  OBVIOUS
<1>4. TRUE \in Flag /\ {} \in People
  BY DEF Flag, People
<1>5. s \in SetupRow /\ s.completed = TRUE /\ s.pending = {} /\ s.inventory = setup[f].inventory
      /\ s.team = setup[f].team /\ s.stocked = setup[f].stocked
  BY <1>2, <1>3, <1>4 DEF SetupRow
<1>6. Columns(f, s)
  BY <1>2, <1>3 DEF Columns, Close
<1>7. StartGrows
  BY <1>1, <1>5, <1>6, ColumnsAre, SetupFrameIs DEF StartGrows
<1>8. PICK o \in StartPage : o = Page(c) /\ PageFits(o) /\ (call[c].by # NoWindow => o.token = f)
  BY <1>1, <1>2, PageOfCall, SetupCall
<1>9. PICK p : p = [o EXCEPT !.at = "ready"]
  OBVIOUS
<1>10. "ready" \in PageAt
  BY DEF PageAt
<1>11. p \in StartPage /\ p.at = "ready" /\ p.token = o.token
  BY <1>9, <1>10 DEF StartPage
<1>12. Replies(c, p)
  BY <1>8, <1>9 DEF Close
<1>15. setup' \in [Factory -> SetupRow] /\ setup'[f] = s /\ \A g \in Factory \ {f} : setup'[g] = setup[g]
  BY <1>5, <1>6, ColumnsAre
<1>13. call[c].by # NoWindow => PageFits(p)'
  <2>1. o.token # NoFactory => o.token = link.f /\ o.token \in departments /\ o.token \in published
    BY <1>8 DEF PageFits
  <2> QED
    BY <1>1, <1>2, <1>5, <1>8, <1>11, <1>15, <2>1, SetupFrameIs, StartConstants DEF PageFits
<1>14. /\ page' \in [Window -> StartPage] /\ call' \in [Call -> StartCall]
       /\ \A w \in Window : PageOK(w)'
       /\ \A d \in Call : CallOK(d)'
       /\ call'[c] = NoCall /\ \A d \in Call \ {c} : call'[d] = call[d]
  BY <1>7, <1>11, <1>12, <1>13, Answered
<1>16. Types'
  BY <1>1, <1>14, <1>15, SetupFrameIs DEF IInv, Types
<1>17. ASSUME broken' = FALSE PROVE Accounts'
  <2>1. broken = FALSE
    BY <1>1, <1>17
  <2>2. /\ \A d \in Call \ {c} : call[d].at \notin Inside
        /\ SeenOK(c) /\ StaffOK(f) /\ (\A e \in Employee : WelcomeOK(e))
        /\ \A g \in Factory : At("merge", g) = {}
    BY <1>1, <1>2, <2>1, AtWork
  <2>3. \A d \in Call : call'[d].at \notin Inside
    BY <1>14, <2>2, StartNothing DEF Inside
  <2>4. \A d \in Call : SeenOK(d)'
    BY <2>3 DEF SeenOK, Inside
  <2>5. \A g \in Factory : At("merge", g)' = {} /\ At("close", g)' = {}
    BY <2>3 DEF At, Inside
  <2>6. \A e \in setup[f].pending : welcomed[e] = 1 \/ e \in waived
    BY <1>1, <1>2, <2>2 DEF SeenOK
  <2>7. ASSUME NEW g \in Factory PROVE StaffOK(g)'
    <3>1. StaffOK(g)
      BY <2>1 DEF IInv, Accounts
    <3>2. CASE g = f
      BY <1>1, <1>5, <1>15, <2>2, <2>5, <2>6, <3>1, <3>2 DEF StaffOK
    <3>3. CASE g # f
      <4>1. At("close", g) = {}
        BY <1>2, <2>2, <3>3 DEF At, Inside
      <4> QED
        BY <1>1, <1>15, <2>2, <2>5, <3>1, <3>3, <4>1 DEF StaffOK
    <3> QED
      BY <3>2, <3>3
  <2>8. \A e \in Employee : WelcomeOK(e)'
    BY <1>1, <2>2 DEF WelcomeOK
  <2> QED
    BY <2>4, <2>7, <2>8 DEF Accounts
<1> QED
  BY <1>14, <1>16, <1>17 DEF IInv

-----------------------------------------------------------------------------
LEMMA InitIInv == OnboardingAssumption /\ Init => IInv
<1> SUFFICES ASSUME OnboardingAssumption, Init PROVE IInv
  OBVIOUS
<1>1. /\ page = [w \in Window |-> Fresh] /\ call = [c \in Call |-> NoCall]
      /\ setup = [f \in Factory |-> NoSetup] /\ staff = [f \in Factory |-> {}]
      /\ halfway = {} /\ welcomed = [e \in Employee |-> 0] /\ waived = {} /\ broken = FALSE /\ served = 0 /\ faults = 0
  BY DEF Init
<1>2. RegistryTypes
  <2>1. otp \in [sent : BOOLEAN, tries : 0..MaxVerifyAttempts, hot : BOOLEAN] /\ verified \in BOOLEAN
    <3>1. otp = NoOtp /\ verified = FALSE
      BY DEF Init
    <3>2. MaxVerifyAttempts \in Nat
      BY StartConstants
    <3>3. NoOtp \in [sent : BOOLEAN, tries : 0..MaxVerifyAttempts, hot : BOOLEAN]
      BY <3>2 DEF NoOtp
    <3> QED
      BY <3>1, <3>3
  <2>2. link \in [f : Factory \union {NoFactory}, role : {"none", "OWNER", "WORKER"}] /\ link.f \in factories \union {NoFactory}
        /\ factories \subseteq Factory
    <3>1. CASE link = [f |-> NoFactory, role |-> "none"] /\ factories = {}
      BY <3>1
    <3>2. CASE \E f \in Factory, r \in {"OWNER", "WORKER"} : link = [f |-> f, role |-> r] /\ factories = {f}
      BY <3>2
    <3> QED
      BY <3>1, <3>2 DEF Init
  <2>3. departments \subseteq factories /\ published \subseteq factories
    BY DEF Init
  <2> QED
    BY <2>1, <2>2, <2>3 DEF RegistryTypes
<1>3. Types
  <2>1. page \in [Window -> StartPage] /\ call \in [Call -> StartCall] /\ setup \in [Factory -> SetupRow]
    BY <1>1, StartNothing
  <2>2. staff \in [Factory -> SUBSET Employee] /\ welcomed \in [Employee -> Nat] /\ waived \subseteq Employee
        /\ halfway \subseteq Employee
    BY <1>1
  <2>3. served \in 0..MaxCalls /\ faults \in 0..MaxFaults
    BY <1>1, StartConstants
  <2> QED
    BY <1>1, <1>2, <2>1, <2>2, <2>3 DEF Types
<1>4. \A w \in Window : PageOK(w)
  BY <1>1, StartNothing DEF PageOK, PageFits
<1>5. \A c \in Call : CallOK(c)
  BY <1>1, StartNothing DEF CallOK, CallFits, WaitedFor, SetupAt
<1>6. \A c \in Call : SeenOK(c)
  BY <1>1, StartNothing DEF SeenOK, Inside
<1>7. \A f \in Factory : StaffOK(f)
  BY <1>1, StartNothing DEF StaffOK
<1>8. \A e \in Employee : WelcomeOK(e)
  BY <1>1 DEF WelcomeOK
<1> QED
  BY <1>3, <1>4, <1>5, <1>6, <1>7, <1>8 DEF IInv, Accounts

(* Every step of the web's registration and set-up keeps their invariant. *)
LEMMA NextIInv == OnboardingAssumption /\ IInv /\ [Next]_onboardingVars => IInv'
<1> SUFFICES ASSUME OnboardingAssumption, IInv, [Next]_onboardingVars PROVE IInv'
  OBVIOUS
<1>1. ASSUME NEW w \in Window, Use(w) PROVE IInv'
  BY <1>1, PhonePageStep, OtpPageStep, TurnStep, ResetAllStep, SetupPageStep, LoseStep
  DEF Use, InventoryPage, TeamPage, ReadyPage
<1>2. ASSUME NEW c \in Call, Serve(c) PROVE IInv'
  BY <1>2, SendOtpStep, VerifyOtpStep, VerifiedStep, RegisterStep, CreateFactoryStep, AssignOwnerStep,
     FindDepartmentStep, CreateDepartmentStep, PublishRegisteredStep, RefusedStep, GetStatusStep,
     CountEmployeesStep, ImportStockStep, InventoryWrittenStep, ImportTeamStep, ImportRowsStep,
     MergeWelcomesStep, SkipTeamStep, CompleteStep, SendWelcomesStep, CloseStep
  DEF Serve
<1>3. CASE UNCHANGED onboardingVars
  <2>1. UNCHANGED <<page, call, otp, verified, link, factories, departments, published, setup, staff, halfway, welcomed,
                    waived, broken, served, faults>>
    BY <1>3 DEF onboardingVars
  <2>2. Types'
    BY <2>1 DEF IInv, Types, RegistryTypes
  <2>3. \A w \in Window : PageOK(w)'
    BY <2>1 DEF IInv, PageOK, PageFits
  <2>4. \A c \in Call : CallOK(c)'
    BY <2>1 DEF IInv, CallOK, CallFits, WaitedFor
  <2>5. broken' = FALSE => Accounts'
    BY <2>1, AccountsSame
  <2> QED
    BY <2>2, <2>3, <2>4, <2>5 DEF IInv
<1> QED
  BY <1>1, <1>2, <1>3, CrashStep, StartLapseStep DEF Next

(* What the invariant says to the owner. *)
LEMMA IInvHolds ==
  ASSUME OnboardingAssumption, IInv
  PROVE  /\ RegisteredIsReady /\ ReadyMeansCompleted
         /\ StepsDoneAreSo /\ WelcomesAccounted
<1>1. \A w \in Window : page[w] \in StartPage /\ PageFits(page[w]) /\ page[w].done \in BOOLEAN
  BY StartValues DEF StartPage, Flag
<1>2. ASSUME broken = FALSE
      PROVE  (\A f \in Factory : StaffOK(f)) /\ \A e \in Employee : WelcomeOK(e)
  BY <1>2 DEF IInv, Accounts
<1>3. (\A c \in Call : call[c].at \notin Slow) => \A f \in Factory : At("merge", f) = {}
  BY DEF At, Slow
<1>4. broken \in BOOLEAN
  BY DEF IInv, Types
<1>5. RegisteredIsReady
  BY <1>1, StartConstants DEF RegisteredIsReady, PageFits
<1>6. ReadyMeansCompleted
  BY <1>1 DEF ReadyMeansCompleted, PageFits
<1>7. StepsDoneAreSo
  <2>1. ASSUME NEW w \in Window, page[w].at \in {"inventory", "team"} PROVE page[w].token \in Factory
    BY <1>1, <2>1, StartConstants DEF PageFits, StartPage
  <2> QED
    BY <1>1, <1>2, <1>3, <1>4, <2>1 DEF StepsDoneAreSo, PageFits, StaffOK
<1>8. WelcomesAccounted
  BY <1>2, <1>3, <1>4 DEF WelcomesAccounted, StaffOK, WelcomeOK
<1> QED
  BY <1>5, <1>6, <1>7, <1>8

LEMMA TypesHold == IInv => TypeOK
<1> SUFFICES ASSUME IInv PROVE TypeOK
  OBVIOUS
<1>1. page \in [Window -> StartPage] /\ call \in [Call -> StartCall] /\ setup \in [Factory -> SetupRow]
  BY DEF IInv, Types
<1>2. \A c \in Call : call[c].by \in Window \union {NoWindow} /\ call[c].f \in Factory \union {NoFactory}
  BY <1>1 DEF StartCall
<1> QED
  BY <1>1, <1>2 DEF IInv, Types, RegistryTypes, TypeOK, StartPage, SetupRow, PageAt, StepState, Flag, People

LEMMA SpecIInv == OnboardingAssumption /\ Spec => []IInv
<1>1. OnboardingAssumption => (IInv /\ [Next]_onboardingVars => IInv')
  BY NextIInv
<1>2. OnboardingAssumption => (Init => IInv)
  BY InitIInv
<1> SUFFICES ASSUME OnboardingAssumption PROVE Spec => []IInv
  OBVIOUS
<1> QED
  BY <1>1, <1>2, PTL DEF Spec

(* A wizard past the registration has its owner's one company, with a department
   and its event published, however registrations overlap (OnboardingService). *)
THEOREM WizardRegistered == OnboardingAssumption /\ Spec => []RegisteredIsReady
<1>1. OnboardingAssumption => (IInv => RegisteredIsReady)
  BY IInvHolds
<1> SUFFICES ASSUME OnboardingAssumption PROVE Spec => []RegisteredIsReady
  OBVIOUS
<1> QED
  BY <1>1, SpecIInv, PTL

(* Unless calls overlapped or were cut short, everybody an import reported as
   added is welcomed once, due a welcome or waived; only who joined with a row that
   failed is left without one, for good (OnboardingSetupService,
   TeamCsvImportService). *)
THEOREM WizardWelcomes == OnboardingAssumption /\ Spec => []WelcomesAccounted
<1>1. OnboardingAssumption => (IInv => WelcomesAccounted)
  BY IInvHolds
<1> SUFFICES ASSUME OnboardingAssumption PROVE Spec => []WelcomesAccounted
  OBVIOUS
<1> QED
  BY <1>1, SpecIInv, PTL
=============================================================================
