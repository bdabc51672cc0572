------------------------------ MODULE Sessions -------------------------------
(***************************************************************************)
(* Sessions: the workflow sessions of the chat and the document            *)
(* suggestions that are decided in them.  A suggestion's question takes a  *)
(* session of its own type and shares no row with a workflow's, so each    *)
(* behaviour moves one of the two and the other rests.                     *)
(***************************************************************************)
EXTENDS WorkflowSession

CONSTANTS
    DocumentCall,   \* the calls and messages about documents
    Writes, PerRun, MaxCalls, MaxSuggestions, MaxMishaps

VARIABLES
    part,   \* the component that moves in this behaviour
    document, extracted, status, written, queue, documentSession, opened, documentPc, job,
    documentMade, documentSeen, calls, lapses, faults, documentCrashes, stranded, documentOverlapped

Documents ==
    INSTANCE DocumentSuggestions_proofs WITH
        Call <- DocumentCall, session <- documentSession, pc <- documentPc, made <- documentMade,
        seen <- documentSeen, crashes <- documentCrashes, overlapped <- documentOverlapped
documentState == <<document, extracted, status, written, queue, documentSession, opened, documentPc,
    job, documentMade, documentSeen, calls, lapses, faults, documentCrashes, stranded,
    documentOverlapped>>

ASSUME DocumentAssumption == Documents!SuggestionAssumption

parts == <<vars, part, documentState>>

PartsInit ==
    /\ part \in {"session", "document"}
    /\ Init
    /\ Documents!Init

SessionMoves(A) == part = "session" /\ A /\ UNCHANGED <<part, documentState>>
DocumentMoves(A) == part = "document" /\ A /\ UNCHANGED <<part, vars>>

PartsNext ==
    \/ SessionMoves(Next)
    \/ DocumentMoves(Documents!Next)

PartsSpec ==
    /\ PartsInit /\ [][PartsNext]_parts
    /\ WF_vars(part = "session" /\ SweepReads)
    /\ WF_vars(part = "session" /\ SweepExpires)
    /\ \A m \in Msg : WF_vars(part = "session" /\ Handle(m))
    /\ \A a \in Actor : WF_vars(part = "session" /\ Save(a))
    /\ \A c \in DocumentCall : WF_documentState(part = "document" /\ Documents!Step(c))

(* The values of the part that moves; the others stay as they began. *)
PartsTypeOK ==
    /\ part = "session" => TypeOK
    /\ part = "document" => Documents!TypeOK

(* A completed session made its thing, none makes anything more once it has
   made it, and one that was cancelled before has not (WorkflowSession). *)
MadeAsRecorded == part = "session" =>
    CompletedWasMade /\ MadeAtMostOnce /\ CancelledMadeNothing

(* A suggestion marked EXECUTED was applied, and a queue that is reviewed has no
   suggestion left to decide unless calls overlap or fail (DocumentSuggestions). *)
DecidedAsApplied == part = "document" =>
    Documents!ExecutedWasApplied /\ Documents!ReviewedMeansDecided

(* A suggestion that was decided changes the inventory no more, as long as
   calls do not overlap (DocumentSuggestions). *)
DecidedChangesNothing == Documents!DecidedChangesNothing

(* A document does not stay in PROCESSING while no process dies and nothing is
   thrown where nothing catches it (DocumentSuggestions). *)
ProcessingEnds == Documents!ProcessingEnds
==============================================================================
