---------------------------- MODULE AccountLinking ----------------------------
(***************************************************************************)
(* api/auth_qr_exchange.go, api/keys.go, internal/store/postgres.go and    *)
(* internal/store/mobile_bridge.go: how the hosted service links a web     *)
(* login (a Clerk user) with a Moodle account, directly or over the phone  *)
(* (the mobile bridge), and issues the API keys of the linked user.        *)
(*                                                                         *)
(* Linking is one transaction.  It may begin by looking its Clerk user up; *)
(* from its first write on it holds the user's row until it commits, so    *)
(* everything it writes is one step here, at the commit, whereas now() is  *)
(* the time at which the transaction began.  The other statements commit   *)
(* one by one.  Abstracted: the login at Moodle, encryption, names and     *)
(* scopes.                                                                 *)
(***************************************************************************)
EXTENDS Naturals

CONSTANTS Requests, Clerks, Bridges,
          Identities,   \* Moodle accounts: records with a site and an id
          MaxChanges,   \* bound: deleted keys and renewed Webex sessions
          None

ASSUME BoundIsNat == MaxChanges \in Nat

Sites == {m.site : m \in Identities}

VARIABLES users,     \* table users: a row is named by the request that inserted it
          accounts,  \* table moodle_accounts, by user and site
          keys,      \* table api_keys, by the request that issued it
          bridges,   \* table mobile_bridge_requests
          ask,       \* what a request asks for
          pc, answer,
          found,     \* the user a request works on
          began,     \* when its transaction began
          since,     \* history: the rows other links wrote since then
          clock, changes

tables == <<users, accounts, keys, bridges>>
vars == <<tables, ask, pc, answer, found, began, since, clock, changes>>

User == [identity : Identities, clerk : Clerks \cup {None}, by : Requests]
Account == [identity : Identities, at : Nat]
Key == [user : Requests, revoked : BOOLEAN]
Bridge == [clerk : Clerks, expired : BOOLEAN, user : Requests \cup {None}, key : Requests \cup {None}]
Ask == [kind : {"none", "link", "complete", "restore", "newkey"}, clerk : Clerks \cup {None},
        identity : Identities \cup {None}, bridge : Bridges \cup {None}]
NoAsk == [kind |-> "none", clerk |-> None, identity |-> None, bridge |-> None]

ASSUME NoneIsNothing ==
    None \notin Requests \cup Clerks \cup Identities \cup Bridges \cup User \cup Account \cup Key \cup Bridge

TypeOK ==
    /\ users \in [Requests -> User \cup {None}]
    /\ accounts \in [Requests -> [Sites -> Account \cup {None}]]
    /\ keys \in [Requests -> Key \cup {None}]
    /\ bridges \in [Bridges -> Bridge \cup {None}]
    /\ ask \in [Requests -> Ask]
    /\ pc \in [Requests -> {"idle", "checked", "begun", "linked", "keyed", "done"}]
    /\ answer \in [Requests -> {"none", "connected", "error"}]
    /\ found \in [Requests -> Requests \cup {None}]
    /\ \A u \in Requests : users[u] # None => \E s \in Sites : accounts[u][s] # None
    /\ \A r \in Requests : keys[r] # None => users[keys[r].user] # None
    /\ since \in [Requests -> SUBSET Requests]
    /\ began \in [Requests -> Nat] /\ clock \in Nat /\ changes \in 0..MaxChanges

Init ==
    /\ users = [u \in Requests |-> None]
    /\ accounts = [u \in Requests |-> [s \in Sites |-> None]]
    /\ keys = [r \in Requests |-> None]
    /\ bridges = [b \in Bridges |-> None]
    /\ ask = [r \in Requests |-> NoAsk]
    /\ pc = [r \in Requests |-> "idle"] /\ answer = [r \in Requests |-> "none"]
    /\ found = [r \in Requests |-> None]
    /\ since = [r \in Requests |-> {}]
    /\ began = [r \in Requests |-> 0] /\ clock = 0 /\ changes = 0

-----------------------------------------------------------------------------
(* Lookups *)

Rows == {u \in Requests : users[u] # None}
OfClerk(c) == {u \in Rows : users[u].clerk = c}
OfIdentity(m) == {u \in Rows : users[u].identity = m}
TheOrNone(S) == IF S = {} THEN None ELSE CHOOSE u \in S : TRUE

(* UserForClerkID, and the first statement of a link.                      *)
UserForClerkID(c) == TheOrNone(OfClerk(c))

Active(k) == keys[k] # None /\ ~keys[k].revoked

(* What mobileBridgeStatus tells the web client that started the bridge.   *)
BridgeStatus(b) ==
    IF bridges[b].user # None THEN "connected"
    ELSE IF bridges[b].expired THEN "expired" ELSE "pending"

(* A request ends and forgets its locals; the bridge it completed is kept, *)
(* as history, if it was answered so.                                      *)
Answer(r, a) ==
    /\ pc' = [pc EXCEPT ![r] = "done"] /\ answer' = [answer EXCEPT ![r] = a]
    /\ found' = [found EXCEPT ![r] = None] /\ since' = [since EXCEPT ![r] = {}]
    /\ ask' = [ask EXCEPT ![r] = IF a = "connected"
                                 THEN [@ EXCEPT !.clerk = None, !.identity = None] ELSE NoAsk]

Tick == clock' = clock + 1

-----------------------------------------------------------------------------
(* The bridge *)

Start(b, c) ==
    /\ bridges[b] = None
    /\ bridges' = [bridges EXCEPT ![b] = [clerk |-> c, expired |-> FALSE, user |-> None, key |-> None]]
    /\ UNCHANGED <<users, accounts, keys, ask, pc, answer, found, began, since, clock, changes>>

(* Ten minutes pass: nothing asks a completed bridge for its age.          *)
Expire(b) ==
    /\ bridges[b] # None /\ BridgeStatus(b) = "pending"
    /\ bridges' = [bridges EXCEPT ![b].expired = TRUE]
    /\ UNCHANGED <<users, accounts, keys, ask, pc, answer, found, began, since, clock, changes>>

(* The phone completes a bridge.  Unknown, completed, expired and foreign  *)
(* bridges are refused on what is read here, and nothing has happened.     *)
ReadBridge(r, b, m) ==
    /\ pc[r] = "idle"
    /\ bridges[b] # None /\ BridgeStatus(b) = "pending"
    /\ ask' = [ask EXCEPT ![r] = [NoAsk EXCEPT !.kind = "complete", !.clerk = bridges[b].clerk,
                                               !.identity = m, !.bridge = b]]
    /\ pc' = [pc EXCEPT ![r] = "checked"]
    /\ UNCHANGED <<tables, answer, found, began, since, clock, changes>>

-----------------------------------------------------------------------------
(* UpsertMoodleAccount *)

(* Slip for the mutants: the lookup is done without a Clerk user, too.     *)
LookUpAnyone(r, c) ==
    /\ found' = [found EXCEPT ![r] = UserForClerkID(c)]
    /\ Tick /\ began' = [began EXCEPT ![r] = clock + 1]
    /\ pc' = [pc EXCEPT ![r] = "begun"]

(* The transaction begins and looks the Clerk user up, if there is one.    *)
LookUp(r, c) ==
    /\ found' = [found EXCEPT ![r] = IF c = None THEN None ELSE UserForClerkID(c)]
    /\ Tick /\ began' = [began EXCEPT ![r] = clock + 1]
    /\ pc' = [pc EXCEPT ![r] = "begun"]

(* A QR code or credentials arrive, with or without a Clerk user, and      *)
(* Moodle accepts them: until the transaction begins, no table is read.    *)
AskToLink(r, c, m) ==
    /\ pc[r] = "idle"
    /\ ask' = [ask EXCEPT ![r] = [NoAsk EXCEPT !.kind = "link", !.clerk = c, !.identity = m]]
    /\ LookUp(r, c)
    /\ UNCHANGED <<tables, answer, since, changes>>

(* Moodle accepts the session that completes a bridge.                     *)
BeginCompletion(r) ==
    /\ pc[r] = "checked" /\ ask[r].kind = "complete"
    /\ LookUp(r, ask[r].clerk)
    /\ UNCHANGED <<tables, ask, answer, since, changes>>

(* The row the transaction writes: the Clerk user's, or else the Moodle    *)
(* account's, or else a new one.                                           *)
Target(r) ==
    IF found[r] # None THEN found[r]
    ELSE IF OfIdentity(ask[r].identity) # {} THEN TheOrNone(OfIdentity(ask[r].identity))
    ELSE r

(* unique (moodle_site_url, moodle_user_id) and unique (clerk_user_id)     *)
RespectsUnique(r) ==
    /\ OfIdentity(ask[r].identity) \subseteq {Target(r)}
    /\ ask[r].clerk # None => OfClerk(ask[r].clerk) \subseteq {Target(r)}

(* The Clerk user of the row stays when the request has none.              *)
WriteUser(r) ==
    users' = [users EXCEPT ![Target(r)] =
        [identity |-> ask[r].identity, by |-> r,
         clerk |-> IF ask[r].clerk = None /\ users[Target(r)] # None
                   THEN users[Target(r)].clerk ELSE ask[r].clerk]]

(* Slip: the session of a site that is stored already is kept.             *)
StoreSessionOnce(r) ==
    LET u == Target(r)  s == ask[r].identity.site
    IN  accounts' = IF accounts[u][s] # None THEN accounts
                    ELSE [accounts EXCEPT ![u][s] = [identity |-> ask[r].identity, at |-> began[r]]]

StoreSession(r) ==
    accounts' = [accounts EXCEPT ![Target(r)][ask[r].identity.site] =
                    [identity |-> ask[r].identity, at |-> began[r]]]

Link(r) ==
    /\ pc[r] = "begun" /\ RespectsUnique(r)
    /\ WriteUser(r) /\ StoreSession(r)
    /\ found' = [found EXCEPT ![r] = Target(r)]
    /\ since' = [q \in Requests |-> IF pc[q] = "begun" THEN since[q] \cup {Target(r)} ELSE since[q]]
    /\ pc' = [pc EXCEPT ![r] = "linked"]
    /\ UNCHANGED <<keys, bridges, ask, answer, began, clock, changes>>

-----------------------------------------------------------------------------
(* API keys *)

(* authClerkSession: a new key for the row of a Clerk user who has one.    *)
Restore(r, c) ==
    /\ pc[r] = "idle" /\ UserForClerkID(c) # None
    /\ ask' = [ask EXCEPT ![r] = [NoAsk EXCEPT !.kind = "restore", !.clerk = c]]
    /\ found' = [found EXCEPT ![r] = UserForClerkID(c)]
    /\ pc' = [pc EXCEPT ![r] = "linked"]
    /\ UNCHANGED <<tables, answer, began, since, clock, changes>>

(* POST /api/keys with an active key, whose user may ask to revoke.        *)
Authenticate(r, k, revoke) ==
    /\ pc[r] = "idle" /\ Active(k)
    /\ ask' = [ask EXCEPT ![r] = [NoAsk EXCEPT !.kind = "newkey"]]
    /\ found' = [found EXCEPT ![r] = keys[k].user]
    /\ pc' = [pc EXCEPT ![r] = IF revoke THEN "checked" ELSE "linked"]
    /\ UNCHANGED <<tables, answer, began, since, clock, changes>>

RevokeActiveKeys(r) ==
    /\ pc[r] = "checked" /\ ask[r].kind = "newkey"
    /\ keys' = [k \in Requests |->
                   IF Active(k) /\ keys[k].user = found[r] THEN [keys[k] EXCEPT !.revoked = TRUE] ELSE keys[k]]
    /\ pc' = [pc EXCEPT ![r] = "linked"]
    /\ UNCHANGED <<users, accounts, bridges, ask, answer, found, began, since, clock, changes>>

(* The last step, but for a bridge; the answer may get lost.               *)
CreateAPIKey(r) ==
    /\ pc[r] = "linked"
    /\ keys' = [keys EXCEPT ![r] = [user |-> found[r], revoked |-> FALSE]]
    /\ \/ /\ ask[r].kind = "complete"
          /\ pc' = [pc EXCEPT ![r] = "keyed"] /\ UNCHANGED <<answer, ask, found, since>>
       \/ /\ ask[r].kind # "complete"
          /\ Answer(r, "connected") \/ Answer(r, "error")
    /\ UNCHANGED <<users, accounts, bridges, began, clock, changes>>

(* DELETE /api/keys                                                        *)
RevokeAPIKey(k) ==
    /\ Active(k) /\ changes < MaxChanges
    /\ changes' = changes + 1
    /\ keys' = [keys EXCEPT ![k].revoked = TRUE]
    /\ UNCHANGED <<users, accounts, bridges, ask, pc, answer, found, began, since, clock>>

-----------------------------------------------------------------------------
(* Completing the bridge *)

Settle(r) == bridges' = [bridges EXCEPT ![ask[r].bridge].user = found[r], ![ask[r].bridge].key = r]

(* Slips: the update is not conditional; nobody looks at its row count.    *)
CompleteAnyway(r) ==
    /\ pc[r] = "keyed"
    /\ Settle(r) /\ Answer(r, "connected")
    /\ UNCHANGED <<users, accounts, keys, began, clock, changes>>

CompleteUncounted(r) ==
    /\ pc[r] = "keyed"
    /\ IF BridgeStatus(ask[r].bridge) = "pending" THEN Settle(r) ELSE UNCHANGED bridges
    /\ Answer(r, "connected")
    /\ UNCHANGED <<users, accounts, keys, began, clock, changes>>

(* CompleteMobileBridgeRequest: only a bridge still pending.               *)
Complete(r) ==
    /\ pc[r] = "keyed"
    /\ IF BridgeStatus(ask[r].bridge) = "pending"
       THEN Settle(r) /\ (Answer(r, "connected") \/ Answer(r, "error"))
       ELSE Answer(r, "error") /\ UNCHANGED bridges
    /\ UNCHANGED <<users, accounts, keys, began, clock, changes>>

(* Moodle refuses the session, a statement fails or violates a constraint, *)
(* a commit's acknowledgement is lost, or the function dies: what has been *)
(* committed stays.                                                        *)
Fail(r) ==
    /\ pc[r] \notin {"idle", "done"}
    /\ Answer(r, "error")
    /\ UNCHANGED <<tables, began, clock, changes>>

-----------------------------------------------------------------------------
Latest(u) == CHOOSE s \in Sites :
    /\ accounts[u][s] # None
    /\ \A t \in Sites : accounts[u][t] # None => accounts[u][t].at <= accounts[u][s].at

(* UpsertWebexSession: a renewed Webex session is written to the account   *)
(* updated last, which counts as an update of that account.                *)
UpsertWebexSession(u) ==
    /\ users[u] # None /\ changes < MaxChanges
    /\ changes' = changes + 1
    /\ Tick /\ accounts' = [accounts EXCEPT ![u][Latest(u)].at = clock + 1]
    /\ UNCHANGED <<users, keys, bridges, ask, pc, answer, found, began, since>>

Next ==
    \/ \E b \in Bridges : (\E c \in Clerks : Start(b, c)) \/ Expire(b)
    \/ \E r \in Requests :
          \/ \E m \in Identities : \/ \E c \in Clerks \cup {None} : AskToLink(r, c, m)
                                   \/ \E b \in Bridges : ReadBridge(r, b, m)
          \/ \E c \in Clerks : Restore(r, c)
          \/ \E k \in Requests, revoke \in BOOLEAN : Authenticate(r, k, revoke)
          \/ BeginCompletion(r)
          \/ Link(r) \/ RevokeActiveKeys(r) \/ CreateAPIKey(r)
          \/ Complete(r) \/ Fail(r)
          \/ RevokeAPIKey(r) \/ UpsertWebexSession(r)

Spec == Init /\ [][Next]_vars
-----------------------------------------------------------------------------
(* Properties *)

(* Requests of a user are served with the session of the account that was  *)
(* updated last.  It is the session of the Moodle account the user's row   *)
(* names, unless that session was stored, or renewed, while the link that  *)
(* named it was under way.                                                 *)
SessionMatchesUser ==
    \A u \in Rows : LET latest == accounts[u][Latest(u)] IN
        latest.identity = users[u].identity \/ latest.at > began[users[u].by]

(* A user's row, and with it all its keys, is moved to another Moodle      *)
(* account only by the Clerk user it belongs to, unless it was given to    *)
(* another Clerk user after the mover had looked it up.                    *)
RowsMoveWithTheirClerk ==
    [][ \A u \in Rows : users'[u].identity # users[u].identity =>
            LET r == users'[u].by IN
            /\ ask[r].clerk # None
            /\ ask[r].clerk = users[u].clerk \/ u \in since[r] ]_vars

(* A bridge is settled once, before it expires, and for good: what the     *)
(* polling client was told it is told again, and the key it is given is    *)
(* one of the user it is told.                                             *)
BridgeSettlesOnce ==
    [][ \A b \in Bridges : bridges[b] # None =>
            /\ BridgeStatus(b) # "pending" =>
                  bridges'[b] = bridges[b]
            /\ bridges'[b].user # bridges[b].user => keys'[bridges'[b].key].user = bridges'[b].user ]_vars

(* The phone is told "connected" only if the client that started the       *)
(* bridge gets the key issued for this very completion.                    *)
ConnectedReachesTheClient ==
    \A r \in Requests : ask[r].kind = "complete" /\ answer[r] = "connected" =>
        BridgeStatus(ask[r].bridge) = "connected" /\ bridges[ask[r].bridge].key = r
=============================================================================
