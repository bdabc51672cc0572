-------------------------------- MODULE DayBook -------------------------------
(***************************************************************************)
(* What a factory's day is told by: issues (IssueService), attendance      *)
(* (AttendanceService), the report drawn from both (ReportService), and    *)
(* what the removal of a user leaves of them (UserService.remove).         *)
(*                                                                         *)
(* A call reads a row, decides, and writes; other calls come in between.   *)
(* Only the unique index of attendance holds whatever overlaps.            *)
(***************************************************************************)
EXTENDS Naturals, Sequences, FiniteSets

CONSTANTS
    Caller,      \* requests and messages that may overlap
    Person,      \* users at the beginning
    Worker,      \* those who are workers; the others own or manage
    Nobody,
    MaxIssues, MaxCalls

VARIABLES
    users,       \* persons that were not removed
    issues,      \* issues by id: by whom and "open", "resolved" or "deleted"
    attendance,  \* attendance[p]: today's row, "none", "present" or "absent"
    said,        \* said[p]: what the call that marked p last was answered with
    closings,    \* closings[i]: how often issue i went from open to resolved
    announced,   \* announced[i]: how often the message about it was sent off
    call,        \* call[c]: operation, person, issue, what it sets, what it read
    contested,   \* what a call wrote that another had written since it began
    report,      \* the report given last, and what was true when it was given
    calls

dayVars == <<users, issues, attendance, said, closings, announced, call, contested, report, calls>>

Mark == {"present", "absent"}
Id == 1..MaxIssues

Counts == [workers : 0..Cardinality(Worker), present : 0..Cardinality(Person), open : 0..MaxIssues, resolved : 0..MaxIssues]
NoCounts == [workers |-> 0, present |-> 0, open |-> 0, resolved |-> 0]
Idle == [op |-> "idle", person |-> Nobody, issue |-> 0, set |-> "none", read |-> "none", at |-> "idle",
         counts |-> NoCounts, late |-> FALSE]

DayBookAssumption ==
    /\ Worker \subseteq Person /\ Nobody \notin Person /\ IsFiniteSet(Person)
    /\ MaxIssues \in Nat /\ MaxCalls \in Nat

Init ==
    /\ users = Person
    /\ issues = <<>>
    /\ attendance = [p \in Person |-> "none"] /\ said = [p \in Person |-> "none"]
    /\ closings = [i \in Id |-> 0] /\ announced = [i \in Id |-> 0]
    /\ call = [c \in Caller |-> Idle]
    /\ contested = {}
    /\ report = [given |-> NoCounts, true |-> NoCounts, late |-> FALSE]
    /\ calls = 0

-----------------------------------------------------------------------------
(* Calls                                                                   *)

Begin(c, op, p, i, set, at) ==
    /\ call[c] = Idle /\ calls < MaxCalls
    /\ calls' = calls + 1
    /\ call' = [call EXCEPT ![c] = [Idle EXCEPT !.op = op, !.person = p, !.issue = i, !.set = set, !.at = at]]
    /\ UNCHANGED <<users, issues, attendance, said, closings, announced, contested, report>>

(* An issue number may be that of a deleted one. *)
CreateIssue(c) == \E p \in users : Begin(c, "createIssue", p, 0, "none", "write")
ResolveIssue(c) == \E i \in DOMAIN issues : Begin(c, "resolveIssue", Nobody, i, "resolved", "read")
UpdateIssue(c) ==
    \E i \in DOMAIN issues, state \in {"open", "resolved"} : Begin(c, "update", Nobody, i, state, "read")
RemoveIssue(c) == \E i \in DOMAIN issues : Begin(c, "remove", Nobody, i, "deleted", "read")

(* From the chat, whoever it is; from the dashboard, which creates only. *)
MarkAttendance(c) == \E p \in users, m \in Mark : Begin(c, "markAttendance", p, 0, m, "read")
CreateAttendance(c) == \E p \in users, m \in Mark : Begin(c, "create", p, 0, m, "write")

RemoveUser(c) == \E p \in users : Begin(c, "removeUser", p, 0, "none", "write")

Report(c) == Begin(c, "getReport", Nobody, 0, "none", "workers")

(* What a call is about, and what it does to others that are about the same. *)
About(d) == <<call[d].person, call[d].issue>>
Reporter(i) == IF i = 0 THEN Nobody ELSE issues[i].by
Touches(c, d) ==
    \/ call[d].op = "getReport"
    \/ call[c].op = "removeUser" /\ call[c].person \in {call[d].person, Reporter(call[d].issue)}
    \/ About(c) = About(d) /\ "createIssue" \notin {call[c].op, call[d].op}

Written(c) ==
    /\ call' = [d \in Caller |-> IF d = c THEN Idle
                                 ELSE IF call[d] # Idle /\ Touches(c, d) THEN [call[d] EXCEPT !.late = TRUE]
                                 ELSE call[d]]
    /\ contested' = IF call[c].late THEN contested \union {About(c)} ELSE contested

Dropped(c) == call' = [call EXCEPT ![c] = Idle]
Reads(c, value) == call' = [call EXCEPT ![c].read = value, ![c].at = "write"]

-----------------------------------------------------------------------------
(* Issues                                                                  *)

Changes(c) == call[c].op \in {"resolveIssue", "update", "remove"}

(* findByPk: a resolved issue is resolved no more; it may be patched. *)
ReadIssue(c) ==
    LET row == issues[call[c].issue] IN
    /\ Changes(c) /\ call[c].at = "read"
    /\ IF row.state = "deleted" \/ (call[c].op = "resolveIssue" /\ row.state = "resolved")
       THEN Dropped(c)
       ELSE Reads(c, row.state)
    /\ UNCHANGED <<users, issues, attendance, said, closings, announced, contested, report, calls>>

StoreIssue(c) ==
    /\ call[c].op = "createIssue" /\ call[c].at = "write" /\ Len(issues) < MaxIssues
    /\ issues' = Append(issues, [by |-> call[c].person, state |-> "open"])
    /\ Written(c)
    /\ UNCHANGED <<users, attendance, said, closings, announced, report, calls>>

(* Who turned an issue it read as open to resolved sends the message about it
   off after the write, and does not wait for it. *)
Announces(c) == call[c].set = "resolved" /\ call[c].read = "open"

(* Only what differs from the row read is written; a row that is gone is not. *)
WriteIssue(c) ==
    LET i == call[c].issue
        writes == call[c].set # call[c].read /\ issues[i].state # "deleted"
    IN
    /\ Changes(c) /\ call[c].at = "write"
    /\ issues' = IF writes THEN [issues EXCEPT ![i].state = call[c].set] ELSE issues
    /\ closings' = IF writes /\ call[c].set = "resolved" /\ issues[i].state = "open"
                   THEN [closings EXCEPT ![i] = @ + 1] ELSE closings
    /\ announced' = IF Announces(c) THEN [announced EXCEPT ![i] = @ + 1] ELSE announced
    /\ Written(c)
    /\ UNCHANGED <<users, attendance, said, report, calls>>

-----------------------------------------------------------------------------
(* Attendance                                                              *)

ReadAttendance(c) ==
    /\ call[c].op = "markAttendance" /\ call[c].at = "read"
    /\ Reads(c, attendance[call[c].person])
    /\ UNCHANGED <<users, issues, attendance, said, closings, announced, contested, report, calls>>

(* A row that was there is updated, where it differs and if it is still there. *)
UpdateAttendance(c) ==
    LET p == call[c].person IN
    /\ call[c].op = "markAttendance" /\ call[c].at = "write" /\ call[c].read # "none"
    /\ attendance' = [attendance EXCEPT ![p] =
           IF call[c].set # call[c].read /\ @ # "none" THEN call[c].set ELSE @]
    /\ said' = [said EXCEPT ![p] = call[c].set]
    /\ Written(c)
    /\ UNCHANGED <<users, issues, closings, announced, report, calls>>

(* uq_attendance_user_factory_date refuses a second row. *)
Refused(c) == attendance[call[c].person] # "none"

InsertAttendance(c) ==
    LET p == call[c].person IN
    /\ call[c].at = "write"
    /\ call[c].op = "create" \/ (call[c].op = "markAttendance" /\ call[c].read = "none")
    /\ IF Refused(c)
       THEN UNCHANGED <<attendance, said, contested>> /\ Dropped(c)
       ELSE /\ attendance' = [attendance EXCEPT ![p] = call[c].set]
            /\ said' = [said EXCEPT ![p] = call[c].set]
            /\ Written(c)
    /\ UNCHANGED <<users, issues, closings, announced, report, calls>>

-----------------------------------------------------------------------------
(* The removal of a user: one transaction.                                 *)

RemoveRows(c) ==
    LET p == call[c].person IN
    /\ call[c].op = "removeUser" /\ call[c].at = "write"
    /\ IF p \notin users
       THEN UNCHANGED <<users, issues, attendance, said, contested>> /\ Dropped(c)
       ELSE /\ users' = users \ {p}
            /\ issues' = [i \in DOMAIN issues |->
                   IF issues[i].by = p THEN [issues[i] EXCEPT !.state = "deleted"] ELSE issues[i]]
            /\ attendance' = [attendance EXCEPT ![p] = "none"]
            /\ said' = [said EXCEPT ![p] = "none"]
            /\ Written(c)
    /\ UNCHANGED <<closings, announced, report, calls>>

-----------------------------------------------------------------------------
(* The report: one statement after the other.                              *)

InState(s) == {i \in DOMAIN issues : issues[i].state = s}
Present(group) == {p \in group : attendance[p] = "present"}
Now ==
    [workers |-> Cardinality(Worker \intersect users), present |-> Cardinality(Present(Person)),
     open |-> Cardinality(InState("open")), resolved |-> Cardinality(InState("resolved"))]

Count(c, what, next) ==
    /\ call[c].at = what
    /\ call' = [call EXCEPT ![c].counts[what] = Now[what], ![c].at = next]
    /\ UNCHANGED <<users, issues, attendance, said, closings, announced, contested, report, calls>>

GiveReport(c) ==
    /\ call[c].at = "resolved"
    /\ report' = [given |-> [call[c].counts EXCEPT !.resolved = Now.resolved], true |-> Now, late |-> call[c].late]
    /\ Dropped(c)
    /\ UNCHANGED <<users, issues, attendance, said, closings, announced, contested, calls>>

Next ==
    \E c \in Caller :
        \/ CreateIssue(c) \/ ResolveIssue(c) \/ UpdateIssue(c) \/ RemoveIssue(c)
        \/ MarkAttendance(c) \/ CreateAttendance(c) \/ RemoveUser(c) \/ Report(c)
        \/ ReadIssue(c) \/ StoreIssue(c) \/ WriteIssue(c)
        \/ ReadAttendance(c) \/ UpdateAttendance(c) \/ InsertAttendance(c) \/ RemoveRows(c)
        \/ Count(c, "workers", "present") \/ Count(c, "present", "open") \/ Count(c, "open", "resolved")
        \/ GiveReport(c)

Spec == Init /\ [][Next]_dayVars

-----------------------------------------------------------------------------
TypeOK ==
    /\ users \subseteq Person /\ contested \subseteq (Person \union {Nobody}) \X (0..MaxIssues)
    /\ issues \in Seq([by : Person, state : {"open", "resolved", "deleted"}]) /\ Len(issues) <= MaxIssues
    /\ attendance \in [Person -> Mark \union {"none"}] /\ said \in [Person -> Mark \union {"none"}]
    /\ closings \in [Id -> Nat] /\ announced \in [Id -> Nat]
    /\ \A c \in Caller : call[c].late \in BOOLEAN /\ call[c].counts \in Counts
    /\ report.given \in Counts /\ report.true \in Counts
    /\ calls \in 0..MaxCalls

(* The message to owners and managers that an issue was resolved is sent off once
   for each time it was, unless calls on it overlapped (whether it arrives, nobody
   asks); the attendance of a person is what the
   last call was answered with, again unless they overlapped; of a removed user
   nothing is left that was not written by a call the removal overtook; and a
   report nothing changed under counts every issue once and everybody who is
   present. *)
NothingLeftOf(p) ==
    /\ attendance[p] = "none"
    /\ \A i \in DOMAIN issues : issues[i].by = p => issues[i].state = "deleted"
DayBookHolds ==
    /\ \A i \in Id : announced[i] = closings[i] \/ <<Nobody, i>> \in contested
    /\ \A p \in Person : <<p, 0>> \notin contested =>
        /\ attendance[p] = said[p]
        /\ p \notin users => NothingLeftOf(p)
    /\ report.given = report.true \/ report.late
=============================================================================
