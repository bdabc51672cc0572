----------------------------- MODULE ChatImport -----------------------------
(***************************************************************************)
(* CSV imports in the chat with one owner or manager (WhatsappService,     *)
(* InventoryBulkImportService, InventoryImportService): the prompts kept   *)
(* in memory, the order in which they claim an incoming message, and the   *)
(* rows of a file going into the stock.                                    *)
(*                                                                         *)
(* Webhook calls overlap.  A document is judged by the prompts open before *)
(* its download and handled by those open after it; a review replaces      *)
(* whatever prompt it finds; an import of several rows is a transaction    *)
(* per row.  What happens within a workflow session is WorkflowSession's.  *)
(***************************************************************************)
EXTENDS Integers, Sequences, FiniteSets

CONSTANTS
    File, Sku, Place,   \* CSV files, items, and category/location pairs
    Contents,           \* Contents[f]: rows [sku, place, quantity] of file f
    Handler,            \* webhook calls that may overlap
    NoFile,
    MaxRows,            \* INVENTORY_CSV_MAX_ROWS
    MaxBatches, MaxMessages, MaxRestarts    \* bounds

ChatImportAssumption ==
    /\ NoFile \notin File
    /\ Contents \in [File -> Seq([sku : Sku, place : Place, quantity : Nat])]
    /\ {MaxRows, MaxBatches, MaxMessages, MaxRestarts} \subseteq Nat

VARIABLES
    inventory,  \* pendingByPhone of the inventory import: [phase, batch]
    team,       \* is the team import waiting for its CSV?
    session,    \* the workflow session
    batches,    \* imports begun so far: [file, missing, reviewed]
    places,     \* categories and locations that exist
    items,      \* inventory items: [place, quantity], NoItem if none
    booked,     \* booked[b][s]: stock-ins of batch b on item s
    doing,      \* doing[h]: the webhook call h is at
    overlapped, \* batches two calls imported at the same time
    cancelled,  \* batches whose owner read "No inventory changes were made"
    messages, restarts

chatVars ==
    <<inventory, team, session, batches, places, items, booked, doing, overlapped,
      cancelled, messages, restarts>>

Batch == 1..MaxBatches
Row == [sku : Sku, place : Place, quantity : Nat]
NoItem == [place |-> "none", quantity |-> 0]
Nothing == [phase |-> "none", batch |-> 0]
Idle == [at |-> "idle", file |-> NoFile, flag |-> "none", batch |-> 0, left |-> <<>>]
Text == {"/cancel", "cancel", "confirm", "/inventory_import_csv", "bulk csv", "onboard", "other"}

Init ==
    /\ inventory = Nothing
    /\ team = FALSE
    /\ session = "none"
    /\ batches = <<>>
    /\ places \in SUBSET Place
    /\ items = [s \in Sku |-> NoItem]
    /\ booked = [b \in Batch |-> [s \in Sku |-> 0]]
    /\ doing = [h \in Handler |-> Idle]
    /\ overlapped = {}
    /\ cancelled = {}
    /\ messages = 0
    /\ restarts = 0

(* parseInventoryCsvText refuses the whole file for an empty or too long list
   of rows and for an SKU that comes twice. *)
Parses(f) ==
    LET rows == Contents[f] IN
    /\ Len(rows) \in 1..MaxRows
    /\ \A i, j \in DOMAIN rows : rows[i].sku = rows[j].sku => i = j

PlacesOf(f) == {Contents[f][i].place : i \in DOMAIN Contents[f]}

Arrives(h) ==
    /\ doing[h] = Idle
    /\ messages < MaxMessages
    /\ messages' = messages + 1

Step(h, fields) == doing' = [doing EXCEPT ![h] = fields]
Done(h) == Step(h, Idle)

Importing(b) == {h \in Handler : doing[h].at \in {"provision", "rows"} /\ doing[h].batch = b}

-----------------------------------------------------------------------------
(* handleIncomingDocument: the flags are read before the media is fetched.  A
   file that is no CSV is answered at once and leaves nothing. *)
Document(h, f) ==
    /\ Arrives(h)
    /\ Step(h, [Idle EXCEPT !.at = "download", !.file = f,
                    !.flag = IF inventory.phase # "none" THEN inventory.phase
                             ELSE IF team THEN "team" ELSE "none"])
    /\ UNCHANGED <<inventory, team, session, batches, places, items, booked, overlapped,
                   cancelled, restarts>>

NewBatch(f, reviewed) ==
    batches' = Append(batches, [file |-> f, missing |-> PlacesOf(f) \ places, reviewed |-> reviewed])

(* importFromCsvBuffer, with the prompt that is open by now: a review for the
   upload prompt, the rows at once when there is none. *)
ImportFromBuffer(h, f) ==
    \/ /\ inventory.phase = "confirm" \/ ~Parses(f)
       /\ Done(h)
       /\ UNCHANGED batches
    \/ /\ inventory.phase = "upload" /\ Parses(f) /\ Len(batches) < MaxBatches
       /\ NewBatch(f, TRUE)
       /\ Step(h, [doing[h] EXCEPT !.at = "review", !.batch = Len(batches) + 1])
    \/ /\ inventory.phase = "none" /\ Parses(f) /\ Len(batches) < MaxBatches
       /\ NewBatch(f, FALSE)
       /\ Step(h, [doing[h] EXCEPT !.at = "rows", !.batch = Len(batches) + 1, !.left = Contents[f]])

(* The media arrives, or the download fails; the flags choose who gets it.
   The team import drops its prompt once the file parses and fits. *)
Downloaded(h) ==
    LET f == doing[h].file IN
    /\ doing[h].at = "download"
    /\ \/ Done(h) /\ UNCHANGED <<team, batches>>
       \/ /\ doing[h].flag \in {"upload", "none"}
          /\ ImportFromBuffer(h, f)
          /\ UNCHANGED team
       \/ /\ doing[h].flag = "team"
          /\ team' = (team /\ ~Parses(f))
          /\ Done(h)
          /\ UNCHANGED batches
    /\ UNCHANGED <<inventory, session, places, items, booked, overlapped, cancelled, messages, restarts>>

(* buildImportReview is through: the prompt becomes a review, whatever became
   of the prompt meanwhile. *)
SetReview(h) ==
    /\ doing[h].at = "review"
    /\ inventory' = [phase |-> "confirm", batch |-> doing[h].batch]
    /\ Done(h)
    /\ UNCHANGED <<team, session, batches, places, items, booked, overlapped, cancelled, messages, restarts>>

-----------------------------------------------------------------------------
(* ensureMasterData: what the review found missing is created in one
   transaction; the unique names or the database may refuse it. *)
Provision(h) ==
    LET b == doing[h].batch IN
    /\ doing[h].at = "provision"
    /\ \/ /\ places' = places \union batches[b].missing
          /\ Step(h, [doing[h] EXCEPT !.at = "rows", !.left = Contents[batches[b].file]])
       \/ Done(h) /\ UNCHANGED places
    /\ UNCHANGED <<inventory, team, session, batches, items, booked, overlapped, cancelled, messages, restarts>>

(* processRow, one transaction: an unknown place or an error fails the row and
   nothing else; a known item is updated, or skipped when nothing differs. *)
ProcessRow(h) ==
    LET row == Head(doing[h].left)
        s == row.sku
        b == doing[h].batch
        stockIn == [place |-> row.place, quantity |-> items[s].quantity + row.quantity]
    IN  /\ doing[h].at \in {"rows", "webRows"} /\ doing[h].left # <<>>
        /\ \/ /\ row.place \in places
              /\ items' = [items EXCEPT ![s] = stockIn]
              /\ booked' = [booked EXCEPT ![b][s] = IF row.quantity > 0 THEN @ + 1 ELSE @]
           \/ UNCHANGED <<items, booked>>
        /\ Step(h, [doing[h] EXCEPT !.left = Tail(@)])
        /\ UNCHANGED <<inventory, team, session, batches, places, overlapped, cancelled, messages, restarts>>

(* The last row is through and the prompt goes, whichever prompt it is. *)
ImportDone_KeepsReview(h) ==
    /\ doing[h].at = "rows" /\ doing[h].left = <<>>
    /\ Done(h)
    /\ UNCHANGED <<inventory, team, session, batches, places, items, booked, overlapped, cancelled, messages, restarts>>

ImportDone(h) ==
    /\ doing[h].at = "rows" /\ doing[h].left = <<>>
    /\ inventory' = Nothing
    /\ Done(h)
    /\ UNCHANGED <<team, session, batches, places, items, booked, overlapped, cancelled, messages, restarts>>

-----------------------------------------------------------------------------
(* handleReviewReply; CONFIRM leaves the review pending while it imports. *)
Confirm(h) ==
    /\ Step(h, [Idle EXCEPT !.at = "provision", !.batch = inventory.batch])
    /\ overlapped' = IF Importing(inventory.batch) = {} THEN overlapped
                     ELSE overlapped \union {inventory.batch}
    /\ UNCHANGED <<inventory, cancelled>>

ToldCancelled ==
    cancelled' = IF Importing(inventory.batch) = {}
                 THEN cancelled \union {inventory.batch} ELSE cancelled

ReviewReply(h, text) ==
    \/ text = "confirm" /\ Confirm(h)
    \/ text = "cancel" /\ inventory' = Nothing /\ ToldCancelled /\ UNCHANGED <<doing, overlapped>>
    \/ text \notin {"confirm", "cancel"} /\ UNCHANGED <<inventory, cancelled, doing, overlapped>>

(* processCommand, INVENTORY_IMPORT_CSV (owner or manager), and the session. *)
InventoryImportCsv ==
    /\ inventory' = [phase |-> "upload", batch |-> 0]
    /\ team' = FALSE
    /\ UNCHANGED session

(* A text with no prompt open: a lapsed session swallows it, the command goes
   through an open one, anything else answers the session or may start one. *)
FreeText(text) ==
    \/ /\ session = "lapsed"
       /\ session' = "none"
       /\ UNCHANGED <<inventory, team>>
    \/ /\ session # "lapsed"
       /\ text = "/inventory_import_csv" /\ InventoryImportCsv
    \/ /\ session # "lapsed"
       /\ text # "/inventory_import_csv" /\ session' \in {"none", "open"}
       /\ UNCHANGED <<inventory, team>>

(* handleIncomingMessage: buttons first, then /cancel, the review, the two
   upload prompts, and only then the session and the commands. *)
Message(h, text) ==
    /\ Arrives(h)
    /\ \/ /\ text = "bulk csv"
          /\ inventory' = Nothing /\ team' = TRUE
          /\ UNCHANGED <<session, doing, overlapped, cancelled>>
       \/ /\ text = "onboard"
          /\ session' = "open"
          /\ UNCHANGED <<inventory, team, doing, overlapped, cancelled>>
       \/ /\ text = "/cancel"
          /\ inventory' = Nothing /\ team' = FALSE /\ session' = "none"
          /\ UNCHANGED <<doing, overlapped, cancelled>>
       \/ /\ text \notin {"bulk csv", "onboard", "/cancel"} /\ inventory.phase = "confirm"
          /\ ReviewReply(h, text)
          /\ UNCHANGED <<team, session>>
       \/ /\ text \notin {"bulk csv", "onboard", "/cancel"} /\ inventory.phase # "confirm"
          /\ IF inventory.phase = "upload" \/ team
             THEN UNCHANGED <<inventory, team, session>>
             ELSE FreeText(text)
          /\ UNCHANGED <<doing, overlapped, cancelled>>
    /\ UNCHANGED <<batches, places, items, booked, restarts>>

-----------------------------------------------------------------------------
(* POST inventory/import/csv: the same rows, no prompt and no review. *)
WebImport(h, f) ==
    /\ Arrives(h)
    /\ Parses(f) /\ Len(batches) < MaxBatches
    /\ NewBatch(f, FALSE)
    /\ Step(h, [Idle EXCEPT !.at = "webRows", !.batch = Len(batches) + 1, !.left = Contents[f]])
    /\ UNCHANGED <<inventory, team, session, places, items, booked, overlapped, cancelled, restarts>>

WebImportDone(h) ==
    /\ doing[h].at = "webRows" /\ doing[h].left = <<>>
    /\ Done(h)
    /\ UNCHANGED <<inventory, team, session, batches, places, items, booked, overlapped, cancelled, messages, restarts>>

(* A prompt outlives its TTL (getPending drops it), the session its own; the
   process restarts, and only the database remains. *)
Lapse ==
    /\ \/ inventory # Nothing /\ inventory' = Nothing /\ UNCHANGED <<team, session>>
       \/ team /\ team' = FALSE /\ UNCHANGED <<inventory, session>>
       \/ session = "open" /\ session' = "lapsed" /\ UNCHANGED <<inventory, team>>
    /\ UNCHANGED <<batches, places, items, booked, doing, overlapped, cancelled, messages, restarts>>

Restart ==
    /\ restarts < MaxRestarts
    /\ restarts' = restarts + 1
    /\ inventory' = Nothing
    /\ team' = FALSE
    /\ doing' = [h \in Handler |-> Idle]
    /\ UNCHANGED <<session, batches, places, items, booked, overlapped, cancelled, messages>>

HandlerStep(h) == Downloaded(h) \/ SetReview(h) \/ Provision(h) \/ ProcessRow(h) \/ ImportDone(h) \/ WebImportDone(h)

Next ==
    \/ \E h \in Handler :
        \/ HandlerStep(h)
        \/ \E f \in File : Document(h, f) \/ WebImport(h, f)
        \/ \E text \in Text : Message(h, text)
    \/ Lapse
    \/ Restart

Spec == Init /\ [][Next]_chatVars

-----------------------------------------------------------------------------
TypeOK ==
    /\ inventory \in [phase : {"none", "upload", "confirm"}, batch : 0..MaxBatches]
    /\ (inventory.phase = "confirm") = (inventory.batch # 0)
    /\ team \in BOOLEAN /\ session \in {"none", "open", "lapsed"}
    /\ batches \in Seq([file : File, missing : SUBSET Place, reviewed : BOOLEAN])
    /\ Len(batches) <= MaxBatches
    /\ places \in SUBSET Place
    /\ \A s \in Sku : items[s].place \in Place \union {"none"} /\ items[s].quantity \in Nat
    /\ booked \in [Batch -> [Sku -> Nat]]
    /\ \A h \in Handler :
        /\ doing[h].at \in {"idle", "download", "review", "provision", "rows", "webRows"}
        /\ doing[h].file \in File \union {NoFile}
        /\ doing[h].batch \in 0..Len(batches)
        /\ doing[h].left \in Seq(Row)
    /\ overlapped \union cancelled \subseteq Batch

(* A row of a file enters the stock once per review, however often the owner
   answers CONFIRM, unless a second CONFIRM comes while the first imports. *)
ReviewedRowsBookOnce ==
    \A b \in DOMAIN batches \ overlapped : \A s \in Sku : booked[b][s] <= 1

(* Once the owner read "Import cancelled. No inventory changes were made." of
   an import that was not running, none of its rows is or comes into stock. *)
CancelledStaysOut ==
    \A b \in cancelled : \A s \in Sku : booked[b][s] = 0
=============================================================================
