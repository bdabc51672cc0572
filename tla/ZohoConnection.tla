--------------------------- MODULE ZohoConnection ---------------------------
(***************************************************************************)
(* The Zoho connection of one factory (ZohoOAuthService, ZohoOAuthState-   *)
(* Service): authorisation, the OAuth callback, token refresh by push and  *)
(* pull, disconnection.                                                    *)
(*                                                                         *)
(* Every call reads, awaits Zoho or the database and then writes whole     *)
(* columns from what it read, so that a refresh may overwrite what the     *)
(* owner decided meanwhile.  Nonces of OAuth states live in memory.  A     *)
(* token is represented by the consent (grant) it was issued under.        *)
(***************************************************************************)
EXTENDS Integers, Sequences, FiniteSets

CONSTANTS
    State,      \* signed OAuth states
    Caller,     \* calls that may overlap
    NoState,
    MaxGrants, MaxRows, MaxCalls, MaxAging, MaxRestarts  \* bounds

ConnectionAssumption ==
    /\ NoState \notin State
    /\ {MaxGrants, MaxRows, MaxCalls, MaxAging, MaxRestarts} \subseteq Nat

VARIABLES
    connection, \* integration_connections of the factory
    inventoryStep,  \* factories.onboarding_inventory_status
    nonce,      \* nonce[s]: the in-memory record of state s
    lapsed,     \* states older than ZOHO_OAUTH_STATE_TTL_MS
    exchanges,  \* exchanges[s]: authorisation codes exchanged under state s
    grants,     \* consents given at Zoho so far
    at, task,   \* where a call is, and the state it was called with
    target,     \* the row it will write (0: insert one)
    read,       \* the row a refresh read
    got,        \* the tokens it got: [access, refresh] as grants
    wish,       \* the grant the owner wants in force (0: none)
    revived,    \* a refresh wrote a row that was changed since it was read
    calls, aging, restarts

call == <<at, task, target, read, got>>
limits == <<calls, aging, restarts>>
connectionVars ==
    <<connection, inventoryStep, nonce, lapsed, exchanges, grants, call, wish, revived, limits>>

Row == [status : {"active", "disconnected"}, access : 0..MaxGrants, refresh : 0..MaxGrants,
        fresh : BOOLEAN, organisation : BOOLEAN]
NoRow == [status |-> "disconnected", access |-> 0, refresh |-> 0, fresh |-> FALSE, organisation |-> FALSE]
NoTokens == [access |-> 0, refresh |-> 0]
Active == {r \in DOMAIN connection : connection[r].status = "active"}

Init ==
    /\ connection = <<>>
    /\ inventoryStep \in {"pending", "skipped"}
    /\ nonce = [s \in State |-> "unknown"]
    /\ lapsed = {}
    /\ exchanges = [s \in State |-> 0]
    /\ grants = 0
    /\ at = [c \in Caller |-> "idle"]
    /\ task = [c \in Caller |-> NoState]
    /\ target = [c \in Caller |-> 0]
    /\ read = [c \in Caller |-> NoRow]
    /\ got = [c \in Caller |-> NoTokens]
    /\ wish = 0
    /\ revived = FALSE
    /\ calls = 0
    /\ aging = 0
    /\ restarts = 0

Goto(c, where) == at' = [at EXCEPT ![c] = where]

Return(c) ==
    /\ Goto(c, "idle")
    /\ task' = [task EXCEPT ![c] = NoState]
    /\ target' = [target EXCEPT ![c] = 0]
    /\ read' = [read EXCEPT ![c] = NoRow]
    /\ got' = [got EXCEPT ![c] = NoTokens]

Arrives(c) ==
    /\ at[c] = "idle"
    /\ calls < MaxCalls
    /\ calls' = calls + 1
    /\ UNCHANGED <<aging, restarts>>

(* The unique index: one active row per factory and provider. *)
Admissible(rows) ==
    \A r, q \in DOMAIN rows : rows[r].status = "active" /\ rows[q].status = "active" => r = q

-----------------------------------------------------------------------------
(* buildAuthorizeRedirectUrl, for an owner or a manager. *)
Authorize(s) ==
    /\ nonce[s] = "unknown"
    /\ s \notin lapsed /\ exchanges[s] = 0
    /\ nonce' = [nonce EXCEPT ![s] = "issued"]
    /\ UNCHANGED <<connection, inventoryStep, lapsed, exchanges, grants, call, wish, revived, limits>>

(* handleOAuthCallback: the state must be known, unused and within its TTL; it
   is used up even when the role check or the exchange then fails. *)
StateAccepted(s) == s \notin lapsed /\ nonce[s] = "issued"

Callback(c, s) ==
    /\ Arrives(c)
    /\ StateAccepted(s)
    /\ nonce' = [nonce EXCEPT ![s] = "used"]
    /\ Goto(c, "exchange")
    /\ task' = [task EXCEPT ![c] = s]
    /\ UNCHANGED <<connection, inventoryStep, lapsed, exchanges, grants, target, read, got, wish, revived>>

(* exchangeAuthorizationCode: a new consent; Zoho may leave the refresh token
   out, or refuse. *)
Exchange(c) ==
    /\ at[c] = "exchange"
    /\ exchanges' = [exchanges EXCEPT ![task[c]] = @ + 1]
    /\ \/ /\ grants < MaxGrants
          /\ grants' = grants + 1
          /\ \E refresh \in {0, grants + 1} :
                got' = [got EXCEPT ![c] = [access |-> grants + 1, refresh |-> refresh]]
          /\ Goto(c, "findActive")
          /\ UNCHANGED <<task, target, read>>
       \/ Return(c) /\ UNCHANGED grants
    /\ UNCHANGED <<connection, inventoryStep, nonce, lapsed, wish, revived, limits>>

(* persistActiveConnection: the active row, or the latest one to reactivate, *)
FindActive(c) ==
    /\ at[c] = "findActive"
    /\ IF Active # {}
       THEN \E r \in Active : target' = [target EXCEPT ![c] = r] /\ Goto(c, "persist")
       ELSE Goto(c, "findReactivatable") /\ UNCHANGED target
    /\ UNCHANGED <<connection, inventoryStep, nonce, lapsed, exchanges, grants, task, read, got, wish, revived, limits>>

FindReactivatable(c) ==
    LET old == {r \in DOMAIN connection : connection[r].status = "disconnected"} IN
    /\ at[c] = "findReactivatable"
    /\ IF old = {} THEN UNCHANGED target ELSE \E r \in old : target' = [target EXCEPT ![c] = r]
    /\ Goto(c, "persist")
    /\ UNCHANGED <<connection, inventoryStep, nonce, lapsed, exchanges, grants, task, read, got, wish, revived, limits>>

(* ... is overwritten, metadata included, or a row is inserted; and connecting
   completes the inventory step of a factory that is being set up. *)
Connected(tokens) ==
    [status |-> "active", access |-> tokens.access, refresh |-> tokens.refresh,
     fresh |-> TRUE, organisation |-> FALSE]

Written(r, row) ==
    IF r = 0 THEN Append(connection, row) ELSE [connection EXCEPT ![r] = row]

Persist(c) ==
    /\ at[c] = "persist"
    /\ LET rows == Written(target[c], Connected(got[c])) IN
        IF Admissible(rows) /\ Len(rows) <= MaxRows
        THEN /\ connection' = rows
             /\ wish' = got[c].access
             /\ Goto(c, "setup")
             /\ UNCHANGED <<task, target, read, got>>
        ELSE Return(c) /\ UNCHANGED <<connection, wish>>
    /\ UNCHANGED <<inventoryStep, nonce, lapsed, exchanges, grants, revived, limits>>

CompleteOnboardingInventoryIfPending(c) ==
    /\ at[c] = "setup"
    /\ inventoryStep' = IF inventoryStep = "pending" THEN "completed" ELSE inventoryStep
    /\ Return(c)
    /\ UNCHANGED <<connection, nonce, lapsed, exchanges, grants, wish, revived, limits>>

-----------------------------------------------------------------------------
(* disconnect: by id, or the active one; the row is found and then blanked. *)
Disconnect(c, r) ==
    /\ Arrives(c)
    /\ target' = [target EXCEPT ![c] = r]
    /\ Goto(c, "disconnect")
    /\ UNCHANGED <<connection, inventoryStep, nonce, lapsed, exchanges, grants, task, read, got, wish, revived>>

Blank_KeepsTokens(row) == [row EXCEPT !.status = "disconnected"]

Blank(row) == [NoRow EXCEPT !.organisation = row.organisation]

SetDisconnected(c) ==
    /\ at[c] = "disconnect"
    /\ connection' = [connection EXCEPT ![target[c]] = Blank(@)]
    /\ wish' = IF target[c] \in Active THEN 0 ELSE wish
    /\ Return(c)
    /\ UNCHANGED <<inventoryStep, nonce, lapsed, exchanges, grants, revived, limits>>

(* refreshConnectionIfNeeded: only an active row about to expire and with a
   refresh token goes to Zoho, *)
NeedsRefresh(row) == row.status = "active" /\ ~row.fresh

Refresh(c, r) ==
    /\ Arrives(c)
    /\ NeedsRefresh(connection[r]) /\ connection[r].refresh # 0
    /\ target' = [target EXCEPT ![c] = r]
    /\ read' = [read EXCEPT ![c] = connection[r]]
    /\ Goto(c, "refresh")
    /\ UNCHANGED <<connection, inventoryStep, nonce, lapsed, exchanges, grants, task, got, wish, revived>>

RefreshAccessToken(c) ==
    /\ at[c] = "refresh"
    /\ \/ /\ got' = [got EXCEPT ![c] = [access |-> read[c].refresh, refresh |-> read[c].refresh]]
          /\ Goto(c, "refreshed")
          /\ UNCHANGED <<task, target, read>>
       \/ Return(c)
    /\ UNCHANGED <<connection, inventoryStep, nonce, lapsed, exchanges, grants, wish, revived, limits>>

(* ... and then all columns are written from what was read before. *)
WriteRefreshed(c) ==
    /\ at[c] = "refreshed"
    /\ LET row == [status |-> "active", access |-> got[c].access, refresh |-> got[c].refresh,
                   fresh |-> TRUE, organisation |-> read[c].organisation]
           rows == [connection EXCEPT ![target[c]] = row]
       IN  IF Admissible(rows)
           THEN /\ connection' = rows
                /\ revived' = (revived \/ [connection[target[c]] EXCEPT !.fresh = FALSE] # read[c])
           ELSE UNCHANGED <<connection, revived>>
    /\ Return(c)
    /\ UNCHANGED <<inventoryStep, nonce, lapsed, exchanges, grants, wish, limits>>

-----------------------------------------------------------------------------
(* An access token is about to expire; a state passes its TTL; an operator
   enters the organisation that adjustStock asks for. *)
TokenAges ==
    /\ aging < MaxAging
    /\ \E r \in Active : connection[r].fresh /\ connection' = [connection EXCEPT ![r].fresh = FALSE]
    /\ aging' = aging + 1
    /\ UNCHANGED <<inventoryStep, nonce, lapsed, exchanges, grants, call, wish, revived, calls, restarts>>

StateLapses(s) ==
    /\ nonce[s] # "unknown" /\ s \notin lapsed
    /\ lapsed' = lapsed \union {s}
    /\ UNCHANGED <<connection, inventoryStep, nonce, exchanges, grants, call, wish, revived, limits>>

SetOrganisation(r) ==
    /\ ~connection[r].organisation
    /\ connection' = [connection EXCEPT ![r].organisation = TRUE]
    /\ UNCHANGED <<inventoryStep, nonce, lapsed, exchanges, grants, call, wish, revived, limits>>

(* The process restarts: calls and nonces are gone, the signed states are not. *)
Restart ==
    /\ restarts < MaxRestarts
    /\ restarts' = restarts + 1
    /\ nonce' = [s \in State |-> IF nonce[s] = "unknown" THEN "unknown" ELSE "forgotten"]
    /\ at' = [c \in Caller |-> "idle"]
    /\ task' = [c \in Caller |-> NoState]
    /\ target' = [c \in Caller |-> 0]
    /\ read' = [c \in Caller |-> NoRow]
    /\ got' = [c \in Caller |-> NoTokens]
    /\ UNCHANGED <<connection, inventoryStep, lapsed, exchanges, grants, wish, revived, calls, aging>>

ConnectionStep(c) ==
    \/ \E s \in State : Callback(c, s)
    \/ Exchange(c) \/ FindActive(c) \/ FindReactivatable(c) \/ Persist(c)
    \/ CompleteOnboardingInventoryIfPending(c)
    \/ \E r \in DOMAIN connection : Disconnect(c, r) \/ Refresh(c, r)
    \/ SetDisconnected(c) \/ RefreshAccessToken(c) \/ WriteRefreshed(c)

Next ==
    \/ \E c \in Caller : ConnectionStep(c)
    \/ \E s \in State : Authorize(s) \/ StateLapses(s)
    \/ \E r \in DOMAIN connection : SetOrganisation(r)
    \/ TokenAges
    \/ Restart

Spec == Init /\ [][Next]_connectionVars

-----------------------------------------------------------------------------
TypeOK ==
    /\ connection \in Seq(Row) /\ Len(connection) <= MaxRows
    /\ inventoryStep \in {"pending", "completed", "skipped"}
    /\ nonce \in [State -> {"unknown", "issued", "used", "forgotten"}]
    /\ lapsed \in SUBSET State
    /\ grants \in 0..MaxGrants
    /\ at \in [Caller -> {"idle", "exchange", "findActive", "findReactivatable", "persist", "setup",
                          "disconnect", "refresh", "refreshed"}]
    /\ task \in [Caller -> State \union {NoState}]
    /\ target \in [Caller -> 0..MaxRows]
    /\ read \in [Caller -> Row]
    /\ got \in [Caller -> [access : 0..MaxGrants, refresh : 0..MaxGrants]]
    /\ calls \in 0..MaxCalls /\ aging \in 0..MaxAging /\ restarts \in 0..MaxRestarts

(* A state that the owner was given lets one authorisation code through, at
   most, however callbacks overlap and the process restarts. *)
StateUsedOnce == \A s \in State : exchanges[s] <= 1

(* What is in force is what the owner last asked for: after a disconnection no
   row is active and no tokens are kept, after a consent its tokens are used.
   Only a refresh that wrote over a row changed since it was read breaks this. *)
OwnersWordStands ==
    ~revived =>
        /\ {connection[r].access : r \in Active} = IF wish = 0 THEN {} ELSE {wish}
        /\ \A r \in DOMAIN connection \ Active : connection[r].access = 0 /\ connection[r].refresh = 0
        /\ \A r \in Active : connection[r].refresh \in {0, wish}
=============================================================================
