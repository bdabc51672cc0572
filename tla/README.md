# Munshi, in TLA+

Munshi is a WhatsApp-first assistant for small factories. The backend
(`src/backend`, NestJS, Sequelize, PostgreSQL) keeps tasks, inventory,
purchase requests, documents, departments and people; a Python service
(`src/ml`) understands texts and parses files; Zoho Inventory can be connected
as a second book of stock. The program's own difficulty lies where many callers
meet the same rows: WhatsApp messages, REST calls from the dashboard, cron
ticks that are not excluded from one another, a domain-event outbox, an HTTP
service that may or may not have done what it was asked. Almost every service
reads a row, checks it, awaits something and then writes; and what a message
means depends on which prompt, dialogue or list is open when it comes. These
modules model those steps one await at a time, TLC checks what the code keeps
and what it does not, and TLAPS proves the modules the rest leans on.

## 1. The system

Paths are below `src/backend/src` unless they begin with `src/`.

| Component | State | Operations | Talks to |
|---|---|---|---|
| Domain-event outbox, `services/domain-events` | rows of `domain_events`: status, attempts | publish, drain at boot, a batch every minute, immediate dispatch of low-stock events | hands events to the Zoho push handler and the alert handlers |
| Inventory ledger, `services/inventory/inventory-transaction.service.ts` | `current_quantity`, `inventory_transactions`, row locks, afterCommit hooks | stock in, stock out, adjustment, alone or inside a caller's transaction | publishes low-stock events after the commit |
| Inventory master data and vendors, `inventory.service.ts`, `services/vendors` | categories, locations, items, vendors | create, update, deactivate | unique indexes |
| Low-stock and sync-failure alerts, `inventory-low-stock-alert.*`, `low-stock-alert-context.service.ts` | contexts of the alerts sent | send to owners and heads, resolve a tap or a number | the outbox calls them; a purchase dialogue begins |
| Tasks with inventory lines, `services/tasks` | `tasks`, `task_inventory_lines` | create, complete (three entrances), reopen, remove | books its lines in the ledger, publishes push events |
| Task routing, `services/tasks` | assignee, assigner, owner, department, routing status | create, keep, delegate, transfer, reject, complete, dashboard update | heads of departments, WhatsApp texts |
| Notices of tasks, `tasks.service.ts` (cron and messages) | the reminded mark | assignment texts, hourly tick for missed deadlines | people |
| Task by message, `services/task-inventory-resolution`, its workflow handler | dialogue data, hints | parse, choose item and worker, quantity, confirm | ML extractor, ledger |
| Team: users, factories, departments, `onboarding` of workers, team CSV | accounts, memberships, departments and heads | add, change role, move, remove, import rows | tasks of the people concerned |
| Zoho push, `services/integrations/zoho/zoho-push-*`, `zoho-stock-push.handler.ts` | `integration_push_deliveries` | handler of the push event, retry ticks, escalation | Zoho; publishes `integration.sync_failed` |
| Zoho pull, `zoho-pull-sync.service.ts`, `zoho-scheduled-sync.*` | items, mappings, `integration_sync_runs` | manual and scheduled run | Zoho, the ledger; publishes `integration.sync_failed` |
| Zoho connection, `zoho-oauth.*`, `token-crypto.service.ts` | `integration_connections`, signed states, nonces in memory | authorize, callback, refresh, disconnect | push and pull |
| Purchase requests, `services/purchase-requests` | request, items, audit rows | create (also from a suggestion), update, approve, reject, assign, remove vendor, close | vendors |
| Workflow sessions, `services/workflow` | `workflow_sessions` | start, answer, cancel, hourly sweep | the handler makes a vendor, a task, an item at the end |
| Dialogues, `services/workflow/handlers` | the session's step and data | the questions of every dialogue, lists and choices by number | team, stock, requests |
| Documents, `services/documents` | document, extraction, suggestions, queue | process, store, generate, ask, apply, reject | ML service, a workflow session, the ledger |
| CSV import in the chat, `modules/whatsapp/inventory-bulk-import.service.ts` | prompts and reviews in memory | upload, review, confirm, cancel | ledger |
| Message desk, `modules/whatsapp/whatsapp.service.ts` | which prompt, dialogue and list is open | buttons, prompts, dialogues, commands, plain words, daily reminder | everything above |
| Understanding, `src/ml/bot_engine.py` | none | command parser, four pre-classifiers, corrections of the model's answer | the desk |
| Onboarding, `modules/onboarding` | OTPs, company, set-up page | OTP, register, imports, welcomes, skip, complete | users, departments, ledger |
| Business discovery, `services/business-discovery` | the interview's profile | questions, answers, pause, reminders, contributions | documents |
| Issues, attendance, reports | their rows of the day | create, resolve, mark, report; removal of a user | texts |
| Migrations, `src/backend/scripts/*migration*`, `docker-entrypoint.mjs` | `schema_migrations`, the schema | bootstrap at start, job, one file by hand | every server |
| Approvals, finance, admin pages, web site | stubs, reads, pages | | |

What is hard, and what makes each component correct:

- *Overlap.* Nothing but the ledger takes a lock, and nothing but a few unique
  indexes keeps two callers apart. The ledger must lose no update; elsewhere
  the question is what still holds although checks are stale.
- *Partial failure.* A stock transaction commits, and then events are published
  one by one; a thing is made, and then its session is completed; a company is
  created, and then its owner is linked. Both halves must agree afterwards, or
  it must be known which fault separated them.
- *Crashes.* Rows left `PROCESSING`, `PENDING`, `RUNNING` or `ACTIVE` by a
  process that died, prompts kept in memory, a migration applied and not
  recorded: does anything ever pick them up?
- *Lost answers and retries.* Zoho may have adjusted its stock although the
  call failed; a reminder is marked after it was sent; attempts must stay
  bounded and a push that is given up must be escalated.
- *Context.* A number answers the list that was last shown, a file the prompt
  that is open, a word the rule that is asked first. The list, the prompt and
  the team may have changed since.
- *Long legal sequences.* Approve, assign, approve again; transfer, delegate,
  reject, complete; register, fail, register again: the states these reach must
  be ones the code can handle.

## 2. Modules

Every module models one component. Definitions bear the names of the code where
they can; `PROJECT.json` maps each to its lines.

| Module | Models | Part of |
|---|---|---|
| `DomainEvents` | the outbox | `Background` |
| `Discovery` | the interview of an owner, its reminders and contributions | `Background` |
| `TaskNotices` | who is told of a task and of its missed deadline | `Background` |
| `Migrations` | a rollout of servers, a job, a console | `Background` |
| `StockBook` | abstract: a book to which a whole plan is added in one step or not at all | refined by `InventoryLedger`, used by `TaskCompletion` |
| `InventoryLedger` | ledger transactions at READ COMMITTED with row locks; implements `StockBook` (`BooksAtomically`) | `Stock` |
| `TaskCompletion` | tasks with lines, push events | `Stock` |
| `WorkflowSession` | sessions of one phone number | `Sessions` |
| `DocumentSuggestions` | one document, its suggestions and queue | `Sessions` |
| `PushDelivery` | handler, deliveries, retry ticks, Zoho | `ZohoTraffic` |
| `PullSync` | scheduled and manual pull | `ZohoTraffic` |
| `TaskRouting` | one task, people, departments, lists | `Tasks` |
| `Team` | accounts, memberships, departments, team imports | `Tasks` |
| `Dialogues` | the remaining dialogues, their lists and choices | `Tasks` |
| `MessageDesk` over `Understanding` | who claims a message, and what a text is taken to say | `Tasks` |
| `PurchaseRequest` | one request and its audit trail | `Office` |
| `Onboarding` | the registration wizard and the set-up pages | `Office` |
| `ZohoConnection` | consent, callback, refresh, disconnect | `Office` |
| `TaskByMessage` | a task in plain words, with items and workers guessed | `Office` |
| `ChatImport` | a CSV sent to the chat, its review and import | `Office` |
| `StockAlerts` | alerts, their contexts, orders begun from them | `Office` |
| `Registers` | categories, locations, items, vendors | `Office` |
| `DayBook` | issues, attendance, the report, the removal of a user | `Office` |

*Compositions.* `Background`, `Stock`, `Sessions`, `ZohoTraffic`, `Tasks` and
`Office` each EXTEND one component and INSTANCE others beside it. Components
that are put together share no row a property is about (what one asks of another
is an input of the latter), so `part` says which of them moves in a behaviour
and the others stay at their initial state: TLC explores the sum of the state
spaces, not their product, and each property is stated for the part it is about
(`part = "team" => ...`). Where components do share state they are one module,
or one uses the other (`TaskCompletion` books on `StockBook`, which
`InventoryLedger` implements; `MessageDesk` classifies with `Understanding`).
A composition declares the constants of its parts and assumes what they assume.

`MCBackground`, `MCStock`, `MCSessions`, `MCZoho`, `MCTasks` and `MCOffice` give
the constants of the compositions values for TLC and state no property that a
composition could state. `MCMessageDesk` and `MCTaskByMessage` do so for two
runs that expect a violation; the modules of the other four need only a cfg.

The eight `..._proofs` modules hold the theorems (section 4): one for each
composition, with the components it is built from, and one each for
`DocumentSuggestions` and `Onboarding`, which are instances in `Sessions` and
`Office`: those INSTANCE the proof module, so that its lemmas can be cited about
the instance.

How state and actions correspond to the code:

**DomainEvents.** `status`, `attempts` are the columns. A worker is a running
`processPendingBatch` or `processEventById`; `batch` and `seen` are the row
objects it read at the start, whose `attempts` the code writes back. `Claim`,
`Invoke`, `HandlerReturns` or `HandlerThrows`, `Complete` and `RecordFailure` are
the awaits of `processEventRecord`; `UpdateFails` is a step of its own, because
an UPDATE that fails after the handler succeeded lands in the same catch block.

**InventoryLedger.** A call is one transaction with a sequence of movements.
`committed` is what other transactions see, `written` what the lock holder
wrote. A movement locks (`FOR UPDATE`), reads, refuses or inserts and updates;
commit releases the locks and runs the afterCommit hooks one by one; a cycle of
waiting transactions is ended by PostgreSQL aborting one of them. Quantities
are integers, multiples of the 4-decimal unit the code rounds to.

**TaskCompletion.** A completion reads the row, counts the lines, runs the
stock transaction (one `StockBook` step together with the update of the row)
and then publishes a push event per movement. Inserting a task and inserting
its lines are two statements, so are deleting them.

**PushDelivery.** The handler looks for a delivery row, creates it (unique
index), and executes; a tick reads due rows and executes them one after the
other by the copies it read. The cron does not wait for its last tick, which may
hold fifty rows of up to thirty seconds each, so that ticks overlap: a row that
one has in hand or in its batch may be read by the next, and `shared` counts how
often. Executing refreshes the token, calls Zoho and applies the outcome. The
Zoho call may succeed, be refused for good, fail retryably, or succeed with its
answer lost. `next_retry_at` is `unset`, `later` or `reached`.

**PullSync.** A run fetches the catalogue and handles item after item, each in
a transaction of its own; mappings are looked up outside it. The cron's gate
looks at the latest scheduled run. Zoho may rename items at any time.

**ZohoConnection.** A state is signed, its nonce lives in the memory of the
process until used or until a restart; a callback exchanges the code, reads the
row and writes it; a refresh does the same around two calls to Zoho; disconnect
overtakes either.

**PurchaseRequest**, **TaskRouting.** Every operation is a read with its
checks (`pc = "checked"`, `"read"`, `"decided"`) and a write from what was
read. Sequelize writes only the columns whose value differs from the copy that
was read (`UpdateRow`): this decides what a stale write can destroy. `Listed` is
the query of `getTasks` for each role; that it returns no more than a hundred
rows is left out, as there is one task.

**Team.** A call is a list of the statements still to do (`doing`); each asks
or writes one row. An import row checks, then writes account, membership and
post one after the other; the removal of a department moves its tasks, its
workers and then the department.

**TaskNotices.** What somebody still has to be told is `pending`, what they
were told `knows`. An answer of a manager, a completion and an edit from the
dashboard read the row and check it (`Begin`, into `calls`), and after their
awaits write the columns in which they differ from what they read
(`WriteAnswer`, `WriteEdit`), whatever the row is by then. An announcement reads
the row again and says nothing if it moved on (`StillFits`). The tick reads the
tasks whose deadline passed, tells assignee and owner, and marks the row
(`todo`). `raced` remembers tasks answered for after they had gone to somebody
else, `overlapped` those changed while the cron or the dashboard held their row.

**WorkflowSession.** A handler resolves the active session, works on its copy,
and then `updateSession` reads the row again and writes what differs; terminal
states are written by id. One of the steps (`MakeAt`) makes the thing. The
attempt may fail half way (`MakeFails`): the handler throws, or goes back to this
or an earlier question, and what it had written by then stays, so that the next
CONFIRM makes another and a cancelled session may have left a part (`made` tells
whole things from broken ones). The steps after it ask what is to become of the
thing (`Finish`). A partial unique index admits one ACTIVE session per phone.

**DocumentSuggestions.** Processing, queueing, asking, replying, applying and
rejecting, one await at a time. A `catch` block is two writes, one after the
other (`FailJob`, `MarkFailed`), and either may throw as well: nothing catches
that, and what was to be marked stays as it is (`Strand`).

**Dialogues**, **TaskByMessage.** One message at a time moves the session's
step; lists that were shown are kept in its data, and the team, the stock and
the requests may change between two messages. What a text may match is given
by tables (`ItemFit`, `MemberFit`) in place of the fuzzy scores. `seen` is what
the last message showed: for a count whose worker the text does not name, or
names in vain, a dash (`None`), while CONFIRM makes the task the sender's.

**MessageDesk**, **Understanding.** A text is a set of phrases, each with the
regular expressions it matches (`Signals`); the classifiers are sequences of
rules and the first that matches answers. Where none does, the language model
may answer any intent. The desk asks in the order of `handleIncomingMessage`:
buttons, greeting and help, cancel, prompts, the dialogue, commands, numbers,
plain words.

**ChatImport.** A handler is a message under way; a file is downloaded between
the look at the prompt and what becomes of it. Prompts and reviews are memory
and lost in a restart; rows are booked one by one.

**Onboarding.** Browser windows with a page each; a call is a sequence of
its awaits, and may fail after any. Company, owner, department, event, set-up
row, items, employees and welcomes are written one after the other. A row of a
team import may fail after its employee has joined (`halfway`): the import
reports it as failed and keeps no welcome for it. The pages of
the inventory and the team show a step as complete (`done`) by the status the
window read last; the window asks again after an import, and after a skip goes
on to the next page, unless the answer never came. Going back while a call is
under way is `Lose` and then the turn of the page.

**Discovery.** The whole profile is read, changed and saved by every message,
reminder and contribution; `overlapped` remembers when two did so at once.

**StockAlerts.** A handler run works through the recipients it resolved; a
failed low-stock text is logged, a failed sync text is thrown. A tap resolves
the live contexts of a phone, a number picks from them, read again.

**Registers**, **DayBook.** A call is a list of questions, each a statement of
its own, and a write; unique indexes refuse a second row. History variables
remember which rows an overtaken call wrote.

**Migrations.** A process reads the status, goes through the pending files in
order, applies and records each, and a server comes up or is restarted; an
image knows a prefix of the files.

*Overlapping calls.* Most of this code is right for callers that take turns,
and for overlapping callers keeps less. The modules let calls overlap freely,
with a history variable (`overlapped`, `late`, `stale`, `contested`) that
remembers whether any did. A property with such a premise is one the code keeps
only for callers that take turns (over any number of calls, failures and, where
it says so, crashes); one without holds through every interleaving.

*What is assumed of PostgreSQL and Sequelize*: row locks last to the end of the
transaction, a transaction commits or rolls back as a whole, unique indexes
refuse the second row, a deadlock is broken by aborting one of its members, a
single statement is atomic.

## 3. Runs

Deadlock is not an error in the passing runs: when users make no more calls
(`MaxCalls` and the like are used up) and nothing is due, the system rests.

| Run | Parts and bounds | Shows |
|---|---|---|
| `background` | *outbox*: 2 workers, 2 events (one without handler), 2 attempts, 1 crash, 1 failed UPDATE. *interview*: 2 topics (one with several entities, at most 2), 2 questions each, 3 messages, 1 contribution, 2 clients and the reminder cron. *notices*: 1 task, an owner, a manager and a worker who goes by the manager's name (the owner heads the other department), 2 calls at once of 3 in all, an edit of 1 column, 1 failure or restart. *gate*: a new and an old server, a job, 1 file by hand, images of 2, 1 and 2 files, 1 fault | a row is COMPLETED only after a dispatch that returned; attempts are never overcounted although written from stale copies; without faults every event is settled for good. Answers stand under their questions and reminders stop. People are told of their tasks, but for those answered for after they had gone to somebody else, and of a missed deadline once. Servers run on their whole schema and come up |
| `stock` | *ledger*: 3 transactions over 2 items; two-line plans that lock in opposite orders, one that uses an item twice, adjustments; 2 faults. *task*: 2 calls, a delivery and a task with a refused TRANSFER line, 1 reopening, 1 fault | whole plans are booked or nothing (refinement of `StockBook`, in which the stock is the signed sum of the rows and never negative), no update is lost, alerts match threshold crossings, transactions end. What is pushed is what was booked; calls that do not overlap book once; an open task moved nothing |
| `sessions` | *session*: 2 handlers and the sweep, 4 messages, 2 sessions of 3 steps, the second of which makes the thing and may fail half way, 1 lapse, 1 crash. *document*: 2 overlapping calls of 3, 2 suggestions of 2 writes, 1 failure, lapse or crash. | nothing completed unmade; serial: nothing half-answered is made, nothing more once it was made whole, and a session cancelled before made at most what failed attempts left; stale sessions end. An executed suggestion was applied in full, a decided one changes nothing more; processing ends unless a catch block fails too. |
| `zoho` | *push*: 2 handler runs and 2 tickers, a mapped and an unmapped movement, 2 events handled, 3 attempts, one each of a row taken up by two ticks, disconnection, refresh failure, lost answer, death. *pull*: a cron and a user, 2 items and a local SKU, 2 runs, one mishap (rename, failure or crash) | extra adjustments of Zoho's stock have a cause; what is given up is escalated, and once unless two ticks shared it; without faults deliveries settle. Opening stock is booked once, COMPLETED is true, the interval is kept; without faults items arrive |
| `tasks` | *route*: 2 overlapping calls, an owner, two heads, a worker, 2 departments, 1 change of head. *team*: 3 people, 2 departments, 1 task, 2 overlapping calls of 3. *dialogue*: 7 messages, 2 people, 2 items, 1 change of team or lists. *desk*: 12 phrases, texts of one of them or of a deed and another, 3 messages, lapses or reminders, every role | a routed task keeps its owner whatever overlaps; serial: a waiting task is with the head of its department and a manager's task with a worker the manager may use; whoever may answer or complete a task finds it on their list, and a worker's list has nothing the worker may not complete. Departments have heads that may head them, nothing stays in a removed one, whoever was added has a post. What is made was answered, and people chosen by number are those shown. Every text is acted on by the first rule that should have it: progress is not taken for completion, an order not for a report |
| `office` | *request*: 2 overlapping calls of 5, 2 vendors. *start*: 2 windows, 2 calls of 5, 2 companies, 1 employee, 1 failure, an inventory that does or does not add items. *link*: 2 states, 2 callers, 4 calls, 1 lapse, 1 restart. *order*: 2 items, 2 workers, 2 hints that fit both or nearly, 4 messages, 1 change. *import*: 2 files (one with a SKU twice), 2 handlers, 4 messages, 1 restart. *alerts*: 2 low-stock events and a sync failure, 2 handlers, 2 calls, 2 messages, 1 fault. *registers*: 2 callers, 2 factories, 2 names in 2 spellings, 2 phones, 7 rows. *day*: 2 callers of 3 calls, 3 people, 2 issues | a vendor needs an approval and a decision is never taken back, whatever overlaps; serial: the audit trail replays to the row. A registered owner has a whole company, a page that says ready, or a step complete, is right, every employee an import reported as added is welcomed, due or waived. A state buys one exchange and the owner's word on the connection stands unless a refresh was under way. The task made is the one confirmed, the sender's if the message named nobody. Reviewed rows are booked once, cancelled ones never. Everybody an alert is for is told or their failure logged, and an order is for what was alerted. Registers keep their rows apart as far as indexes go; attendance, issues and report tell what happened |
| `outbox_at_least_once` | 1 worker, 1 event, 1 crash | *violation*: "at-least-once handler invocation" fails: a crash after the PROCESSING write leaves a row that nothing selects again |
| `completion_twice` | 2 calls, 1 task | *violation*: two completions that overlap book a task's movements twice |
| `documents_rejected` | 1 call at a time | *violation*: "No changes were made to your inventory" is told of a suggestion that was applied or half applied |
| `command_number` | 3 messages | *violation*: the number in `/complete 12` or `/resolve 5` is not taken |
| `team_role` | 1 call | *violation*: a chat CSV that names a manager makes a worker |
| `quantity_two` | 1 message after another | *violation*: the answer 2 to the question how many cancels the dialogue |

*Why the bounds are enough.* Every hazard in this code takes two actors: the
one that read and the one that wrote in between; two is what the runs have
(three transactions in the ledger, so that one can wait while two deadlock).
Two of each kind of data tell mapped from unmapped, routed from unrouted, own
from foreign, shown from chosen. Call bounds are the length of the longest
protocol plus what overlaps it: create, approve, assign, remove and one more
for a request; code, failed registration, second registration and set-up for a
company; item, worker, quantity and confirmation for a task in plain words. Where a bound
is short of the longest history (two calls on a task) the theorems of section 4
have none.
One fault is where recovery starts; MAX_ATTEMPTS of the outbox is 2 instead of 5
and that of pushes 3 instead of 4 because only the first, an intermediate and
the last failure differ. Each bound is a constant and a conjunct
`calls < MaxCalls` or alike of an action's guard. `tasks` and `office` use the
symmetry of the two calls, `office` that of the two windows, which differ by
nothing but their name; they check no liveness.

*Fairness.* What is under way goes on: an await settles (weak fairness of the
steps of a call that has begun). Crons tick, because the process schedules
them: the outbox batch, retry ticks, the session sweep, the scheduled pull, the
hourly look at deadlines, the reminders of the interview. Servers are restarted
(`backend/railway.toml` ON_FAILURE, docker-compose `unless-stopped`), so the steps of
`Migrations` are fair for every process. The clock runs. Users are never forced
to write or call, and faults are never forced to happen or to stop: liveness
that needs their absence says so in its premise
(`[](crashes = 0 /\ ...) => ...`). `InventoryLedger` assumes that PostgreSQL
grants a lock that is free.

## 4. Proofs

TLAPS proves the following for every value of the constants that satisfies the
assumptions of the modules. A theorem about a composition (`PartsSpec`) states
the very property its run checks; the theorems before it are about the component
alone (`Spec`). In a composition a step moves one part and leaves the others
(`PartsIInv`: the invariant of the part that moves), so that each of its
theorems is the component's, carried over.

**`Stock_proofs`**, the ledger. `IInv` is the lock discipline: an item nobody
holds shows what was committed (`UnlockedIsCommitted`), only open transactions
hold locks (`LocksAreOpen`), a transaction that read has a movement to write
whose lock it holds and whose quantity it still has, committed calls have hooks
to run. The types alone are not inductive: that a write leaves no negative
quantity needs the read quantity to be the one it overwrites. From it
`LedgerTypes` and `LedgerNoLostUpdate` (`NoLostUpdate`). `BookIInv` adds what an
open call's rows lead to: they are the beginning of its plan, the items they
name are locked by it, and what it wrote is what they make of the committed
quantity (`OpenRowsLead`); what is committed is what the ledger's rows lead to
(`CommittedFollowsLedger`). With it every commit is a `BookPlan` of `StockBook`
and every other step a stutter: `LedgerBooksAtomically` (`BooksAtomically`), the
refinement, for any plans, lock orders, deadlocks and faults. `AlertIInv` counts:
an open call registered one hook for each of its rows that crosses a threshold
(`HooksMatchRows`), hence `LedgerAlertsMatch` (`AlertsMatchCrossings`).

**`Stock_proofs`**, the completion of tasks. `StockTypes` (`PartsTypeOK`) and
`StockCompletionBooksOnce` (`CompletionBooksOnce`): what is pushed is what was
booked, and calls that do not overlap book a task once, an open task has moved
nothing. `TaskIInv` says where a task's lines are: none come any more once it
moved stock, and one that moved stock is open only after its lines were deleted
to remove it (`MovedOnce`). Movements of a task are counted in the book, whose
rows are typed by `BookTyped`.

**`Sessions_proofs`**. `SessionTypes`, `SessionMade`, `SessionMadeOnce`,
`SessionCancelled` for any numbers of steps, messages, sessions, sweeps and
crashes. `IInv`: a phone has one active session (the partial unique index; this
is why `ActiveSession` needs no order), without overlaps a row has the answers
of every step before its own, the copy of a handler that works alone is the row,
and a session whose thing was made to the end is past the step that makes it, or
is completed, or has a handler about to say so (`SessionOK`); attempts that
failed are in `made` before it and never after. `CompletedWasMade` promises a whole set of answers only
without overlaps: two handlers write the step and the answers column by column,
and TLC, given three steps and three handlers, makes a thing of fewer answers
than questions. Of the composition: `SessionsTypes` (`PartsTypeOK`),
`SessionsMade` (`MadeAsRecorded`), `SessionsDecided` (`DecidedAsApplied`) and
`SessionsSettled` (`DecidedChangesNothing`, an action property).

**`DocumentSuggestions_proofs`**. `DocumentTypes` (nobody is ever asked about a
suggestion that does not exist), `DocumentExecuted` (`ExecutedWasApplied`),
through every overlap, failure and crash, and `DocumentDecided`
(`DecidedChangesNothing`) without overlaps. `IInv`: the ids in queues, copies of
queues, sessions and calls are ids of suggestions, which only grow in number
(`Kept`, `CallOK`); an execution has made no more writes than its suggestion
has; and without overlaps one call is at work and what it writes for is pending
(`Alone`). `DocumentReviewed` (`ReviewedMeansDecided`) is about the queue: as
long as nothing overlaps or fails, it passes no more ids than there are
suggestions that are decided, are asked about no more and whose reply is through
(`Spent`); a suggestion that was spent stays so. When the queue is through, all
its ids were passed, and the number of suggestions bounds both sides
(`ReviewIInv`): nothing in it says which id was passed for which suggestion,
because the code advances the queue by one whatever was resolved.

**`ZohoTraffic_proofs`**, the push. `PushTypes`, `PushAdjusts`
(`ExtraAdjustmentsHaveACause`), `PushEscalates` (`EscalatedWhenGivenUp`), for any
movements, any numbers of runs of the event handler and of retry ticks, however
they overlap, and any failures; of the composition `TrafficAdjusts`
(`AdjustedAsRecorded`) and `TrafficTypes` (`PartsTypeOK`). Nobody owns a row,
since ticks that overlap read the same ones; `IInv` counts instead. A row is with
at most one worker more than ticks took it up while another had it (`HeldOK`).
Whoever has it may have Zoho adjust once more, unless the answer it holds says
delivered (`Owing`), and a row at rest that is not through stands for one
attempt more (`Open`): with the adjustments made these are never more than one,
and one for each lost answer, dead run and shared row (`AdjustedOK`). Escalations
are counted likewise with those who are about to publish one (`EscalatedOK`).
Each step changes a set of workers by at most one of them, which is where the
cardinalities come from.

**`ZohoTraffic_proofs`**, the pull. `TrafficOpensOnce`: opening stock is booked
once, with the item's mapping (one transaction with a unique index), and a run
that says COMPLETED left no usable item out, whichever runs overlap, fail or
die. `PullIInv`: of the items behind a run each is mapped or was counted as
failed, and the failures counted and the items ahead are no more than there are
items (`PullerOK`). `TrafficPulledOnce` (`PulledOnce`) adds that scheduled runs
keep their distance: runs are closed after they began, one about to begin is far
enough from all before it, and the one under way is the latest (`CronIInv`).

**`Office_proofs`**, purchase requests and the connection. `RequestTypes`,
`RequestVendor` (`VendorNeedsApproval`) and `RequestDecision` (`DecisionStands`),
for any number of calls, vendors and overlaps. `IInv` says of every checked call
that its operation was permitted on the copy it holds, of every copy as of the
row that it is approved, or names a vendor, only if the trail has an approval,
and that a decided row is not in an undecided state. The trail only grows, so
that what a stale copy says of it stays true; what is written is the copy's value
or the row's, column by column (`WrittenRow`), and no column by itself undoes a
decision. `RequestAudit` (`AuditTellsTheRow`): without overlaps a checked call is
alone and holds the row itself (`AuditIInv`), and one more event replays to what
it writes. `OfficeRequests` (`RequestIsAudited`) and `OfficeConnection`
(`ConnectedAsAsked`) are of the composition. `LinkIInv`, for any number of
overlapping callbacks, refreshes, disconnections and restarts: a state that can
still be used has been through no exchange and nobody has it
(`LinkStatesAreSpent`), a call's row exists and its tokens are of one consent
(`LinkCallOK`), a factory has at most one active row (`Admissible`, the partial
unique index), and, as long as no refresh wrote over a changed row, every row is
as the owner's last word wants it (`LinkWordKept`).

**`Office_proofs`**, imports, registers and the day. `OfficeImports`
(`ImportedAsReviewed`): a batch is with one handler until a second CONFIRM comes
for it (`importOverlapped`); the rows that handler has left differ in their SKU
and none of them is booked (`HandlerOK`); a prompt whose batch nobody is importing
has booked nothing (`PromptOK`), so CANCEL cancels nothing that was begun, and a
cancelled batch is never with a handler. `OfficeRegisters` (`RegistersHold`) has
two halves. `BookIInv`: what a call asked and found to be there (the row, the
category and the location of its factory) stays there, since nothing is ever
deleted, while that a name is free or a place open stays so only until another
call writes (`BookFresh`, of calls that are not `late`); a write that lands where
the question was stale is refused by an index or is one of the exceptions the
property names. `DayIInv`: what a call that was not overtaken read is still so
(`DayFresh`), whoever is removed overtakes the calls about them, and any write
overtakes a report that is being counted.

**`Office_proofs`**, alerts and tasks in plain words. `OfficeAlerts`
(`AlertsHold`): whom a call has passed was told, or the failure is in the log
(`AlertCallOK`); every alert recorded was told to its person (`AlertRecorded`);
and the list shown is the list of the day until an alert of that very person
comes or lapses (`AlertShown`: another's leaves the list alone, `AlertOfAnother`).
`OfficeOrders` (`MadeAsConfirmed`): what a session no longer doubts it knows
(`OrderKnown`), the prompt of a step shows the data of the session, where a dash
may stand for the sender (`OrderPrompt`, `OrderShows`), and what was named or
picked from the lists is that data, where only a count may have nobody (`OrderNamed`), so that a task
made at CONFIRM is what was shown and what was picked, whatever happened to stock,
items and team meanwhile. `OfficeTypes` is `PartsTypeOK`. The lists of both
components are defined by rank (the n-th element has n - 1 before it), not with
`SortSeq`, which the provers cannot expand; that the ranks of a finite set are
1..n, so that such a list is a sequence and has every element once, is the lemma
`Ranks`: there are as many ranks as members and no two members have the same.

**`Onboarding_proofs`**. `WizardRegistered` (`RegisteredIsReady`) and
`WizardWelcomes` (`WelcomesAccounted`), hence `OfficeSetup` (`SetupHolds`), for any
number of windows, calls, companies and employees, any loss and any crash. A
window waits for one call, which is about the company its page has (`PageOK`,
`CallOK`); what pages claim (registered, inventory done, completed) is never taken
back, so that a page may be stale only in what it does not claim. As long as
nothing overlapped or was cut short, one set-up call is at work, what it read is
still so (`SeenOK`), and every employee the imports reported as added is welcomed,
waived or due, and nobody who joined with a row that failed is welcomed (`Accounts`). What a page shows of the steps (`StepsDoneAreSo`) was
restated while the invariant was being looked for, which has no proof of more: a
status call that finds nobody in the team takes the team's step back, and one that
overlaps a call at work may, so the property excepts just these.

**`Tasks_proofs`**. `RoutingTypes`, `RoutingOwner` (`RoutedTaskHasItsOwner`, an
action property) through every overlap and change of head; `RoutingHead`,
`RoutingWorkers` and `TasksRouted` (`RoutedByTheHead`, with what the lists show)
without them. The owner of every copy and of every patch is that of the row
(`IInv`): no operation changes it, so no copy is ever stale in it. The others rest
on `Orderly`: without overlaps a call's copy is the row, the row and what will be
written of it wait for nobody below the rank of a manager, and as long as no
department changes hands they are in order with the departments.

`TasksTeam` (`TeamHolds`): an import's row, a removal and an assignment are lists
of statements of which some are done. `StaffIInv` says which facts the statements
still to do rest on (`StaffCallOK`), and, as long as no write came after its check
was stale, what those done have left: who heads what (`HeadOK`), that nobody's
place and no task's is gone (`PlacesOK`), that a removal has emptied what it has
passed (`EmptiedBy`), and that who is reported as added has a post (`AddedOK`).
`TasksMade` (`MadeAsAnswered`): a dialogue that asks a question has an answer of
that question's own to every question before it (`AnswersOK`), the round of an
order has a line for each item before it (`OrderOK`), and the list under an
assignment is the one shown (`SessionOK`). `TasksUnderstood` (`UnderstoodInOrder`,
an action property), for any phrases and any texts made of them: the first rule
that holds decides (`FirstHit`), so that what comes later in the order cannot
(`OperationalHit`, `DeterministicHit`), and nothing but a deed's own command
changes its row (`DeskProcessEffects`). `TasksTypes` is `PartsTypeOK`.

**`Background_proofs`**. The outbox: `OutboxTypes` (`attempts` never passes
MAX_ATTEMPTS), `OutboxCompleted` (`CompletedWasHandled`), `OutboxAttempts`
(`AttemptsNotOvercounted`) and, of the composition, `BackgroundEvents`. `IInv`
adds what a worker's position knows (`BusyHasRow`, `CurrentRow`: past the dispatch
its row is in `handled`, in the catch block one more failure was caught than its
copy has), that a PENDING row has attempts left, and that a copy, however stale,
has attempts left and never more than the failures caught so far
(`SeenBounded`): this makes writing from a stale copy harmless, and it is in none
of the properties. `BackgroundAnswers` (`AnswersStandWhereAsked`): what an
operation of the interview will write is an answer in its own place (`InPlace`,
`WorkOK`), and without overlaps what it writes is made of what is there
(`Alone`). `BackgroundTells` (`PeopleAreTold`): who has an open task knows of it
or has a message coming (`Told`), unless a call answered for it after it had gone
to somebody else (`raced`): where none did, whom an answer read of the task is
whom the row has when it is written; of a task nobody changed under the cron, each
person heard at most once of a missed deadline, once more per failure, wherever
the cron is with it (`AtRest`, `Waits`, `Holds`), and a mark stands for people
who heard (`Stands`). `BackgroundServes` (`ServesOnWholeSchema`): a process past
a file has recorded it, and what is recorded was applied (`GateIInv`).
`BackgroundTypes` is `PartsTypeOK`.

*Premises.* `OneInstance` (pull): one process runs the scheduled pull, which passes over a
connection with a RUNNING run (`zoho-scheduled-sync.service.ts:162`); `railway.toml`
and docker-compose start one backend. It is
a fact of the run's constants too. `FirstRows` (`RegistersAssumption`): the
registers start as calls that do not overlap leave them, names told apart and
items in places of their factory, before any location is renamed. In
`MessageDeskAssumption` a text with a task's number matches the expression for a
number as well: `has_task_id` of `deterministic_pre_classify` (`bot_engine.py:1718`)
repeats every alternative of `_HAS_TASK_ID_RE` (1020). The other named assumptions
say of the constants what they are (finite sets, numbers, tables over them, a
value that is none of the others). Those of a component that is an instance
(`SuggestionAssumption`, `ConnectionAssumption`, `OnboardingAssumption`,
`AlertsAssumption` and so on) are premises of the lemmas about it; the composition
assumes them of its instance, where TLC evaluates them.

*Model-checked only.* Liveness under fairness (`EventsSettle`,
`WhatIsDueHappens`, `CallsEnd`, `StaleSessionsEnd`, `ProcessingEnds`,
`EveryDeliverySettles`, `ItemsArrive`) and ENABLED are out of the prover's reach.
Every other property of a passing run, each invariant and each action property,
is the statement of a theorem. What a fold over a sequence computes is
nowhere proved by induction on its definition: the sums, replays and counts above
are functions on 0..Len, of which the proofs use the step from one value to the
next, and the induction is over the steps of the behaviour, or, for a count over a
prefix, one by `CountUp`, for a fact about numbers. The runs that expect a
violation are TLC's alone: the proofs say what is left of those promises.

## 5. Where the code and its words part

Six disagreements are runs that expect a violation, listed as findings. Others
were met while modelling; the modules contain the steps that lead to them and
the properties are stated so that they hold nonetheless.

- Tasks: a completion between the insert of the task and of its lines
  (`tasks.service.ts:1263`) takes the path without lines; the lines are never
  moved. No property states the contrary, since it is false of the code.
- Push: a lost answer is retried and Zoho adjusts twice; ticks that overlap take
  up the same row, and Zoho adjusts twice, DELIVERED is overwritten or the same
  delivery escalated twice with nothing lost and nobody dead (`shared` counts
  them; `zoho-push-retry.cron.ts:12` has no guard against itself); a
  handler that dies leaves PENDING for good; a refresh failure in the first
  attempt leaves a row no tick lists; an event handled while the connection is
  inactive is consumed without a trace. The first retry comes after 15 minutes
  (`computeNextRetryAt`), while `39-retry-processing-analysis.md` §4 puts the
  first retry on the next due tick. `adjustStock` asks for `metadata.org_id`
  (`zoho-inventory.client.ts:94`), which no code sets; the model takes it as
  set, as `36-zoho-client-analysis.md:90` does.
- Zoho connection: a refresh under way when the owner disconnects makes the
  connection ACTIVE again (`zoho-oauth.service.ts:207`).
- Pull: a run whose process died stays RUNNING and stops the scheduled pull;
  `runPullSync` itself does not look for a running one.
- Purchase requests: `removeVendor` makes a CLOSED request APPROVED although
  CLOSED is listed under "Terminal statuses"; approve is allowed on an assigned
  request; an update checked before an approval lands after it; no operation
  submits a DRAFT. A suggestion accepted twice makes two requests, and that it
  was accepted is logged outside the transaction.
- Routing: a transfer to a department headed by the owner leaves the task with
  the owner, who can neither answer it (only managers may,
  `tasks.service.ts:1024`) nor complete it ("is waiting for your decision", 986)
  nor give it to another on the dashboard; only the dashboard's completion ends
  it. The dashboard completes a rejected task; stale
  answers overwrite a delegation; a manager may complete a waiting task; a
  change on the dashboard tells nobody.
- Team: the chat's file drops the role; a row that fails late leaves a member
  without a post; `updateFactoryUser` and `removeFactoryUser` look at neither
  headships nor departments; a dialogue with a new worker asks the phone first
  (`worker-onboarding.handler.ts:127`, `:222`), and the name kept may be the
  answer to another question.
- Notices: a manager's "keep" that was read before a transfer and is written
  after it leaves the task with the other head, who is not asked and does not know;
  a transfer, reopening from the dashboard and a new assignee keep the
  reminded mark (`tasks.service.ts:1070`), so that the next manager is not told of
  a deadline missed before; an edit
  read before the tick's mark loses the reminder of the new deadline.
- Workflow: two confirmations handled at once make two things; a task whose lines
  fail, or a purchase request that fails late, stays in part while the session goes
  back to its confirmation (`task-inventory-creation.handler.ts:322`,
  `purchase-request-create.handler.ts:232`): the next CONFIRM makes another, and
  `/cancel` leaves what was made; the sweep may expire a session revived since it
  read; repeating a question does not refresh the session's age.
- Task by message: the quantity of a first message is not checked against the
  stock when the item is ambiguous, the stock not at all at creation; quantity 0
  leads to a confirmation that can only be refused; archived items are found by
  an exact SKU; a task whose lines could not be stored stays, and CONFIRM makes
  another; the message to confirm a count shows a dash where no worker was found,
  even if the text named one, and the task becomes the sender's.
- Documents: the next suggestion's session is opened while the previous one is
  still active, so it is refused and the queue waits for a REST call; at the end
  of the queue the document is APPROVED even if every suggestion was rejected;
  any resolved suggestion advances the queue; `storeExtraction` leaves the
  document PROCESSING when its job cannot be created, and so does a catch block
  whose own write fails (`document-processing.orchestrator.ts:143`,
  `documents.service.ts:208`).
- Chat import: a file sent to the upload prompt may be imported unreviewed if
  the prompt lapses during the download; CANCEL is acknowledged while the import
  runs; the plain word "cancel" leaves the upload prompt open
  (`whatsapp.service.ts:439`) although the prompts (454, 466, 675) promise it.
- Message desk: `/assign` without a mention is always answered by the
  department path, so the clarifying branch after it and the `CANCEL` branch of
  `processCommand` are never reached; a manager's progress report is refused;
  `/report` ignores its date; "resolve issue 5" in plain words never carries the
  number, while the misspelt "/completed 12" works; "rahul ko 5 …" may take the
  quantity for a task; a prompt for the team's file swallows answers meant for a
  dialogue opened by a button.
- Alerts: a bare number is taken as a choice although no list was shown, if
  several alerts are live; the list is read again and may differ from the one
  shown. A low-stock text that fails is not sent again, a sync-failure text is;
  only the first owner hears of the latter.
- Registers: renaming a location is not checked; `iLike` takes `%` and `_` as
  wildcards; "+91…" and "91…" are different phones; a refused vendor row is
  always reported as its name.
- Issues, attendance: two overlapping resolves announce twice; overlapping marks
  end in "already marked"; managers and owners may mark themselves and are
  counted against the workers; what an overtaken call writes for a removed user
  stays; the attendance reminder stops at the first failed template.
- Onboarding: overlapping registrations leave an empty company; a registration
  that failed after the code was verified needs a new code; an employee whose row
  of an import fails after they joined (a department that has its manager,
  `departments.service.ts:449`) is reported as failed, is a member all the same
  and is never welcomed; categories stay after
  a failed confirmation.
- Discovery: an answer typed at the menu is not saved, a reply to it goes on with
  the pending topic; the cron never sends the text it computes; after the last
  reminder the interview is not PAUSED although the text says so.
- Migrations: with `DRY_RUN=1` the bootstrap reports "migrated" and the server
  starts on the old schema; nothing excludes two migrators, which is harmless
  because the files use IF NOT EXISTS and one of two inserts fails;
  `run-one-migration` records nothing.

## 6. Not modelled, and what the models leave out

- The requests to Zoho themselves (paging, signatures), the parsing of files and
  payloads, the wording of texts, the extraction of hints from a text, the fuzzy
  scores: data and I/O; their outcomes are inputs.
- `MessageDesk` has a registered sender with a factory and one message at a
  time; overlapping messages are in the modules of what they reach.
- `Onboarding` leaves out the previews, the signature of the token and the call
  that marks the inventory from Zoho, which no page makes, and takes `verifyOtp`'s read and write as one step.
- `Team` takes the look-up of a department by name and its insert, and the
  routing of a task, as one step each, and `ChatImport` the look at the prompt and
  the start of the wait for a file: what could come in between is covered by the
  premises (`stale`) or touches none of the properties.
- `DayBook` counts an announcement when it is sent off, with the write; that it
  may fail afterwards, unawaited, is left out. It has one day and one factory, and leaves out the report's counts of
  tasks, which are read as the others are.
- `Migrations` takes a file as one transaction, and images as prefixes of the
  list of files.
- Approvals and finance are stubs; admin operations read; the web site and the
  audit and evaluation scripts keep no state of the program.

## 7. Plan

1. Compose `PushDelivery` with `DomainEvents`: the outbox as an abstract
   specification "an event is handed over at least once unless the process
   dies" that `DomainEvents` implements and `PushDelivery` assumes.
2. Widen `MessageDesk` to two messages that overlap, once the dialogues share
   its session.
