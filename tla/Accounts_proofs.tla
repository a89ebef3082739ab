--------------------------- MODULE Accounts_proofs ---------------------------
(***************************************************************************)
(* Proofs about AccountLinking, for any requests, Clerk users, bridges and *)
(* Moodle accounts: whose session a user is served with, who may move a    *)
(* row, and what a completed bridge hands over.                            *)
(***************************************************************************)
EXTENDS AccountLinking, Integers, WellFoundedInduction, TLAPS

(* Where a request stands, and what it works on.                           *)
PlacedAt(r) ==
    /\ pc[r] = "idle" => answer[r] = "none"
    /\ answer[r] # "none" => pc[r] = "done"
    /\ pc[r] \in {"checked", "begun"} => ask[r].kind \in {"link", "complete", "newkey"}
    /\ pc[r] = "begun" => ask[r].kind \in {"link", "complete"}
    /\ pc[r] \in {"checked", "begun"} /\ ask[r].kind # "newkey" => ask[r].identity \in Identities
    /\ pc[r] \in {"linked", "keyed"} => found[r] \in Rows
    /\ pc[r] = "checked" /\ ask[r].kind = "newkey" => found[r] \in Rows
    /\ ask[r].kind = "complete" => ask[r].bridge \in Bridges /\ bridges[ask[r].bridge] # None
    /\ pc[r] = "keyed" => ask[r].kind = "complete" /\ keys[r] # None /\ keys[r].user = found[r]
    /\ users[r] # None => pc[r] \in {"linked", "keyed", "done"}

Placed == \A r \in Requests : PlacedAt(r)

(* A link that found a row found it with its Clerk user, who has it still  *)
(* unless another link wrote it since.                                     *)
FoundIsOwn ==
    \A r \in Requests : pc[r] = "begun" /\ found[r] # None =>
        /\ found[r] \in Rows /\ ask[r].clerk # None
        /\ users[found[r]].clerk = ask[r].clerk \/ found[r] \in since[r]

(* Transactions begin at different times, none in the future, and a        *)
(* session carries the time of one that is over, or of its renewal.        *)
Stamps ==
    /\ \A r \in Requests : began[r] <= clock
    /\ \A q, r \in Requests : q # r /\ pc[q] = "begun" /\ pc[r] = "begun" => began[q] # began[r]
    /\ \A u \in Requests, s \in Sites : accounts[u][s] # None =>
        /\ accounts[u][s].at <= clock
        /\ \A r \in Requests : pc[r] = "begun" => accounts[u][s].at # began[r]
        /\ \A t \in Sites \ {s} : accounts[u][t] # None => accounts[u][t].at # accounts[u][s].at

(* A row has a session for the account it names, stored by the link that   *)
(* named it or renewed since.                                              *)
RowsHaveTheirSession ==
    \A u \in Rows :
        LET own == accounts[u][users[u].identity.site]
        IN  /\ own # None /\ own.identity = users[u].identity
            /\ own.at >= began[users[u].by]
            /\ pc[users[u].by] \in {"linked", "keyed", "done"}

IInv == TypeOK /\ Placed /\ FoundIsOwn /\ Stamps /\ RowsHaveTheirSession /\ ConnectedReachesTheClient

-----------------------------------------------------------------------------
(* A set of numbers has a smallest one, so a row that has sessions has one *)
(* that was updated last.                                                  *)
LEMMA Smallest ==
  ASSUME NEW T \in SUBSET Nat, T # {}
  PROVE  \E n \in T : \A m \in T : n <= m
  <1>1. PICK n \in T : \A m \in T : ~(<<m, n>> \in OpToRel(<, Nat))
    BY WFMin, NatLessThanWellFounded, Zenon
  <1>2. \A m \in T : ~(m < n)
    BY <1>1 DEF OpToRel
  <1> QED
    BY <1>2

LEMMA LatestExists ==
  ASSUME TypeOK, Stamps, NEW u \in Requests, users[u] # None
  PROVE  /\ Latest(u) \in Sites /\ accounts[u][Latest(u)] \in Account /\ accounts[u][Latest(u)] # None
         /\ \A t \in Sites : accounts[u][t] # None => accounts[u][t].at <= accounts[u][Latest(u)].at
  <1> DEFINE Stored == {s \in Sites : accounts[u][s] # None}
             Ages == {clock - accounts[u][s].at : s \in Stored}
  <1>1. Stored # {} /\ \A s \in Stored : accounts[u][s] \in Account /\ accounts[u][s].at \in Nat /\ accounts[u][s].at <= clock
    BY DEF TypeOK, Stamps, Account
  <1>a. clock \in Nat
    BY DEF TypeOK
  <1>b. \A s \in Stored : clock - accounts[u][s].at \in Nat
    BY <1>1, <1>a
  <1>2. Ages \in SUBSET Nat /\ Ages # {}
    BY <1>1, <1>b
  <1>3. PICK n \in Ages : \A m \in Ages : n <= m
    BY <1>2, Smallest
  <1>4. PICK s \in Stored : n = clock - accounts[u][s].at
    BY <1>3
  <1>5. ASSUME NEW t \in Stored PROVE accounts[u][t].at <= accounts[u][s].at
    <2>1. clock - accounts[u][s].at <= clock - accounts[u][t].at
      BY <1>3, <1>4
    <2>2. clock \in Nat /\ accounts[u][s].at \in Nat /\ accounts[u][t].at \in Nat
      BY <1>1, <1>a
    <2> HIDE DEF Stored, Ages
    <2> QED
      BY <2>1, <2>2
  <1>6. \E x \in Sites : /\ accounts[u][x] # None
                         /\ \A t \in Sites : accounts[u][t] # None => accounts[u][t].at <= accounts[u][x].at
    BY <1>5
  <1> HIDE DEF Stored, Ages
  <1>7. /\ Latest(u) \in Sites /\ accounts[u][Latest(u)] # None
        /\ \A t \in Sites : accounts[u][t] # None => accounts[u][t].at <= accounts[u][Latest(u)].at
    BY <1>6 DEF Latest
  <1> QED
    BY <1>7 DEF TypeOK

(* The invariant says whose session is served.                             *)
LEMMA ServedSession ==
  ASSUME TypeOK, Stamps, RowsHaveTheirSession
  PROVE  SessionMatchesUser
  <1> SUFFICES ASSUME NEW u \in Rows
               PROVE  accounts[u][Latest(u)].identity = users[u].identity \/ accounts[u][Latest(u)].at > began[users[u].by]
    BY DEF SessionMatchesUser
  <1> DEFINE own == users[u].identity.site
  <1>1. u \in Requests /\ users[u] \in User /\ users[u] # None
    BY DEF Rows, TypeOK
  <1>2. own \in Sites /\ users[u].by \in Requests
    BY <1>1 DEF User, Sites
  <1>3. /\ Latest(u) \in Sites /\ accounts[u][Latest(u)] \in Account /\ accounts[u][Latest(u)] # None
        /\ accounts[u][own] # None => accounts[u][own].at <= accounts[u][Latest(u)].at
    BY <1>1, <1>2, LatestExists
  <1>4. accounts[u][own] # None /\ accounts[u][own].identity = users[u].identity /\ accounts[u][own].at >= began[users[u].by]
    BY DEF RowsHaveTheirSession
  <1>5. CASE Latest(u) = own
    BY <1>4, <1>5
  <1>6. CASE Latest(u) # own
    <2>1. accounts[u][own].at # accounts[u][Latest(u)].at
      BY <1>1, <1>2, <1>3, <1>4, <1>6 DEF Stamps
    <2>2. accounts[u][own].at \in Nat /\ accounts[u][Latest(u)].at \in Nat /\ began[users[u].by] \in Nat
      BY <1>1, <1>2, <1>3, <1>4 DEF TypeOK, Account
    <2> QED
      BY <1>3, <1>4, <2>1, <2>2
  <1> QED
    BY <1>5, <1>6

LEMMA InitHolds == Init => IInv
  <1> SUFFICES ASSUME Init PROVE IInv
    OBVIOUS
  <1>1. TypeOK
    BY BoundIsNat DEF Init, TypeOK, NoAsk, Ask
  <1>2. Placed /\ FoundIsOwn /\ ConnectedReachesTheClient
    BY DEF Init, Placed, PlacedAt, FoundIsOwn, ConnectedReachesTheClient, NoAsk
  <1>3. Stamps /\ RowsHaveTheirSession
    BY DEF Init, Stamps, RowsHaveTheirSession, Rows
  <1> QED
    BY <1>1, <1>2, <1>3 DEF IInv

-----------------------------------------------------------------------------
(* Steps *)

LEMMA NoAskIn == NoAsk \in Ask
  BY DEF NoAsk, Ask

LEMMA Chosen ==
  ASSUME NEW S PROVE TheOrNone(S) = None \/ TheOrNone(S) \in S
  BY DEF TheOrNone

LEMMA AnswerGives ==
  ASSUME TypeOK, NEW r \in Requests, NEW a \in {"connected", "error"}, Answer(r, a)
  PROVE  /\ pc' = [pc EXCEPT ![r] = "done"] /\ pc' \in [Requests -> {"idle", "checked", "begun", "linked", "keyed", "done"}]
         /\ answer' = [answer EXCEPT ![r] = a] /\ answer' \in [Requests -> {"none", "connected", "error"}]
         /\ found' \in [Requests -> Requests \cup {None}] /\ since' \in [Requests -> SUBSET Requests]
         /\ ask' \in [Requests -> Ask]
         /\ \A q \in Requests \ {r} : ask'[q] = ask[q] /\ found'[q] = found[q] /\ since'[q] = since[q]
         /\ ask'[r].kind = "complete" => a = "connected" /\ ask[r].kind = "complete" /\ ask'[r].bridge = ask[r].bridge
  <1>1. PICK x \in Ask : x = ask[r]
    BY DEF TypeOK
  <1>2. PICK y : y = IF a = "connected" THEN [x EXCEPT !.clerk = None, !.identity = None] ELSE NoAsk
    OBVIOUS
  <1>3. y \in Ask /\ (y.kind = "complete" => a = "connected" /\ x.kind = "complete" /\ y.bridge = x.bridge)
    BY <1>1, <1>2, NoAskIn DEF Ask, NoAsk
  <1>4. ask' = [ask EXCEPT ![r] = y]
    BY <1>1, <1>2 DEF Answer
  <1>5. ask' \in [Requests -> Ask] /\ ask'[r] = y /\ \A q \in Requests \ {r} : ask'[q] = ask[q]
    BY <1>3, <1>4 DEF TypeOK
  <1> QED
    BY <1>1, <1>3, <1>5 DEF Answer, TypeOK

LEMMA TargetIs ==
  ASSUME IInv, NEW r \in Requests, pc[r] = "begun"
  PROVE  /\ Target(r) \in Requests
         /\ \/ found[r] # None /\ Target(r) = found[r] /\ Target(r) \in Rows
            \/ Target(r) \in Rows /\ users[Target(r)].identity = ask[r].identity
            \/ users[Target(r)] = None /\ Target(r) = r
  <1>1. CASE found[r] # None
    BY <1>1 DEF IInv, FoundIsOwn, Target, Rows
  <1>2. CASE found[r] = None /\ OfIdentity(ask[r].identity) # {}
    <2>1. Target(r) \in OfIdentity(ask[r].identity)
      BY <1>2 DEF Target, TheOrNone
    <2> QED
      BY <2>1 DEF OfIdentity, Rows
  <1>3. CASE found[r] = None /\ OfIdentity(ask[r].identity) = {}
    BY <1>3 DEF IInv, Placed, PlacedAt, Target
  <1> QED
    BY <1>1, <1>2, <1>3

(* What a link does to the row u and the session of the site s.            *)
Links(r, u, s) ==
    /\ u = Target(r) /\ pc[r] = "begun" /\ s = ask[r].identity.site /\ ask[r].identity \in Identities
    /\ users' \in [Requests -> User \cup {None}]
    /\ users'[u] \in User /\ users'[u] # None /\ users'[u].identity = ask[r].identity /\ users'[u].by = r
    /\ \A q \in Requests \ {u} : users'[q] = users[q] /\ accounts'[q] = accounts[q]
    /\ accounts' \in [Requests -> [Sites -> Account \cup {None}]]
    /\ accounts'[u][s] = [identity |-> ask[r].identity, at |-> began[r]] /\ accounts'[u][s] # None
    /\ \A t \in Sites \ {s} : accounts'[u][t] = accounts[u][t]
    /\ found' = [found EXCEPT ![r] = u] /\ pc' = [pc EXCEPT ![r] = "linked"]
    /\ since' = [q \in Requests |-> IF pc[q] = "begun" THEN since[q] \cup {u} ELSE since[q]]
    /\ UNCHANGED <<keys, bridges, ask, answer, began, clock, changes>>

LEMMA LinkGives ==
  ASSUME IInv, NEW r \in Requests, Link(r)
  PROVE  \E u \in Requests : \E s \in Sites : Links(r, u, s)
  <1> USE DEF IInv
  <1>1. pc[r] = "begun" /\ WriteUser(r) /\ StoreSession(r)
    BY DEF Link
  <1>2. ask[r].identity \in Identities /\ ask[r].clerk \in Clerks \cup {None} /\ began[r] \in Nat
    BY <1>1 DEF Placed, PlacedAt, TypeOK, Ask
  <1>3. PICK u \in Requests : u = Target(r)
    BY <1>1, TargetIs
  <1>4. PICK s \in Sites : s = ask[r].identity.site
    BY <1>2 DEF Sites
  <1>5. PICK row : row = [identity |-> ask[r].identity, by |-> r,
                          clerk |-> IF ask[r].clerk = None /\ users[u] # None THEN users[u].clerk ELSE ask[r].clerk]
    OBVIOUS
  <1>6. row \in User
    BY <1>2, <1>5 DEF User, TypeOK
  <1>7. PICK session : session = [identity |-> ask[r].identity, at |-> began[r]]
    OBVIOUS
  <1>8. session \in Account
    BY <1>2, <1>7 DEF Account
  <1>9. users' = [users EXCEPT ![u] = row] /\ accounts' = [accounts EXCEPT ![u][s] = session]
    BY <1>1, <1>3, <1>4, <1>5, <1>7 DEF WriteUser, StoreSession
  <1>10. row # None /\ session # None
    BY <1>6, <1>8, NoneIsNothing
  <1>11. /\ users' \in [Requests -> User \cup {None}] /\ users'[u] = row
         /\ \A q \in Requests \ {u} : users'[q] = users[q]
    BY <1>6, <1>9 DEF TypeOK
  <1>12. /\ accounts' \in [Requests -> [Sites -> Account \cup {None}]] /\ accounts'[u][s] = session
         /\ \A q \in Requests \ {u} : accounts'[q] = accounts[q]
         /\ \A t \in Sites \ {s} : accounts'[u][t] = accounts[u][t]
    BY <1>8, <1>9 DEF TypeOK
  <1>13. row.identity = ask[r].identity /\ row.by = r
    BY <1>5
  <1>14. /\ found' = [found EXCEPT ![r] = u] /\ pc' = [pc EXCEPT ![r] = "linked"]
         /\ since' = [q \in Requests |-> IF pc[q] = "begun" THEN since[q] \cup {u} ELSE since[q]]
         /\ UNCHANGED <<keys, bridges, ask, answer, began, clock, changes>>
    BY <1>3 DEF Link
  <1>15. Links(r, u, s)
    BY <1>1, <1>2, <1>3, <1>4, <1>6, <1>7, <1>10, <1>11, <1>12, <1>13, <1>14 DEF Links
  <1> QED
    BY <1>15

(* A transaction begins.                                                   *)
LEMMA LookUpGives ==
  ASSUME IInv, NEW r \in Requests, NEW c \in Clerks \cup {None}, LookUp(r, c)
  PROVE  /\ found' \in [Requests -> Requests \cup {None}] /\ \A q \in Requests \ {r} : found'[q] = found[q]
         /\ found'[r] # None => found'[r] \in Rows /\ c # None /\ users[found'[r]].clerk = c
         /\ clock' = clock + 1 /\ clock' \in Nat /\ began' = [began EXCEPT ![r] = clock + 1] /\ began' \in [Requests -> Nat]
         /\ pc' = [pc EXCEPT ![r] = "begun"]
  <1>1. found'[r] # None => found'[r] \in Rows /\ c # None /\ users[found'[r]].clerk = c
    BY Chosen DEF IInv, TypeOK, LookUp, UserForClerkID, OfClerk
  <1>2. (IF c = None THEN None ELSE UserForClerkID(c)) \in Requests \cup {None}
    BY Chosen DEF UserForClerkID, OfClerk, Rows
  <1> QED
    BY <1>1, <1>2 DEF IInv, TypeOK, LookUp, Tick

LEMMA BridgeIs ==
  ASSUME TypeOK, NEW b \in Bridges, bridges[b] # None
  PROVE  bridges[b] \in Bridge
  BY DEF TypeOK

LEMMA TypeStep ==
  ASSUME IInv, [Next]_vars
  PROVE  TypeOK'
  <1> USE DEF IInv, tables
  <1>0. ASSUME NEW r \in Requests, NEW c \in Clerks \cup {None}, LookUp(r, c), ask' \in [Requests -> Ask],
               UNCHANGED <<tables, answer, since, changes>>
        PROVE  TypeOK'
    <2>1. found' \in [Requests -> Requests \cup {None}] /\ clock' \in Nat /\ began' \in [Requests -> Nat]
          /\ pc' = [pc EXCEPT ![r] = "begun"]
      BY <1>0, LookUpGives
    <2>2. pc' \in [Requests -> {"idle", "checked", "begun", "linked", "keyed", "done"}]
      BY <2>1 DEF TypeOK
    <2> QED
      BY <1>0, <2>1, <2>2 DEF TypeOK
  <1>1. ASSUME NEW b \in Bridges, NEW c \in Clerks, Start(b, c) PROVE TypeOK'
    <2>1. [clerk |-> c, expired |-> FALSE, user |-> None, key |-> None] \in Bridge
      BY DEF Bridge
    <2> QED
      BY <1>1, <2>1 DEF Start, TypeOK
  <1>2. ASSUME NEW b \in Bridges, Expire(b) PROVE TypeOK'
    <2>1. PICK x \in Bridge : x = bridges[b]
      BY <1>2, BridgeIs DEF Expire
    <2>2. [x EXCEPT !.expired = TRUE] \in Bridge
      BY DEF Bridge
    <2>3. bridges' = [bridges EXCEPT ![b] = [x EXCEPT !.expired = TRUE]]
      BY <1>2, <2>1 DEF Expire
    <2> QED
      BY <1>2, <2>2, <2>3 DEF Expire, TypeOK
  <1>3. ASSUME NEW r \in Requests, NEW b \in Bridges, NEW m \in Identities, ReadBridge(r, b, m) PROVE TypeOK'
    <2>1. bridges[b] \in Bridge
      BY <1>3, BridgeIs DEF ReadBridge
    <2>2. [NoAsk EXCEPT !.kind = "complete", !.clerk = bridges[b].clerk, !.identity = m, !.bridge = b] \in Ask
      BY <2>1 DEF NoAsk, Ask, Bridge
    <2> QED
      BY <1>3, <2>2 DEF ReadBridge, TypeOK
  <1>4. ASSUME NEW r \in Requests, NEW c \in Clerks \cup {None}, NEW m \in Identities, AskToLink(r, c, m) PROVE TypeOK'
    <2>1. [NoAsk EXCEPT !.kind = "link", !.clerk = c, !.identity = m] \in Ask
      BY DEF NoAsk, Ask
    <2>2. ask' \in [Requests -> Ask]
      BY <1>4, <2>1 DEF AskToLink, TypeOK
    <2>3. LookUp(r, c) /\ UNCHANGED <<tables, answer, since, changes>>
      BY <1>4 DEF AskToLink
    <2> QED
      BY <1>0, <2>2, <2>3
  <1>5. ASSUME NEW r \in Requests, BeginCompletion(r) PROVE TypeOK'
    <2>1. LookUp(r, ask[r].clerk) /\ UNCHANGED <<tables, ask, answer, since, changes>>
      BY <1>5 DEF BeginCompletion
    <2>2. ask[r].clerk \in Clerks \cup {None}
      BY DEF TypeOK, Ask
    <2>3. ask' \in [Requests -> Ask]
      BY <2>1 DEF TypeOK
    <2> QED
      BY <1>0, <2>1, <2>2, <2>3
  <1>6. ASSUME NEW r \in Requests, Link(r) PROVE TypeOK'
    <2>1. PICK u \in Requests, s \in Sites : Links(r, u, s)
      BY <1>6, LinkGives
    <2>2. /\ found' \in [Requests -> Requests \cup {None}] /\ since' \in [Requests -> SUBSET Requests]
          /\ pc' \in [Requests -> {"idle", "checked", "begun", "linked", "keyed", "done"}]
          /\ UNCHANGED <<keys, bridges, ask, answer, began, clock, changes>>
          /\ users' \in [Requests -> User \cup {None}] /\ accounts' \in [Requests -> [Sites -> Account \cup {None}]]
      BY <2>1 DEF Links, TypeOK
    <2>3. ASSUME NEW q \in Requests, users'[q] # None PROVE \E t \in Sites : accounts'[q][t] # None
      <3>1. CASE q = u
        BY <2>1, <3>1 DEF Links
      <3>2. CASE q # u
        <4>1. users[q] # None /\ accounts'[q] = accounts[q]
          BY <2>1, <2>3, <3>2 DEF Links
        <4> QED
          BY <4>1 DEF TypeOK
      <3> QED
        BY <3>1, <3>2
    <2>4. \A q \in Requests : keys[q] # None => users'[keys[q].user] # None
      BY <2>1 DEF Links, TypeOK, Key
    <2> QED
      BY <2>2, <2>3, <2>4 DEF TypeOK
  <1>7. ASSUME NEW r \in Requests, NEW c \in Clerks, Restore(r, c) PROVE TypeOK'
    <2>1. [NoAsk EXCEPT !.kind = "restore", !.clerk = c] \in Ask
      BY DEF NoAsk, Ask
    <2>2. UserForClerkID(c) \in Requests \cup {None}
      BY Chosen DEF UserForClerkID, OfClerk, Rows
    <2> QED
      BY <1>7, <2>1, <2>2 DEF Restore, TypeOK
  <1>8. ASSUME NEW r \in Requests, NEW k \in Requests, NEW revoke \in BOOLEAN, Authenticate(r, k, revoke) PROVE TypeOK'
    <2>1. [NoAsk EXCEPT !.kind = "newkey"] \in Ask
      BY DEF NoAsk, Ask
    <2>2. keys[k].user \in Requests
      BY <1>8 DEF Authenticate, Active, TypeOK, Key
    <2> QED
      BY <1>8, <2>1, <2>2 DEF Authenticate, TypeOK
  <1>9. ASSUME NEW k \in Requests, keys[k] # None
        PROVE  [keys[k] EXCEPT !.revoked = TRUE] \in Key /\ [keys[k] EXCEPT !.revoked = TRUE].user = keys[k].user
    <2>1. keys[k] \in Key
      BY <1>9 DEF TypeOK
    <2> QED
      BY <2>1 DEF Key
  <1>10. ASSUME NEW r \in Requests, RevokeActiveKeys(r) PROVE TypeOK'
    <2>1. keys' \in [Requests -> Key \cup {None}] /\ UNCHANGED users
          /\ \A k \in Requests : keys'[k] # None => keys[k] # None /\ keys'[k].user = keys[k].user
      BY <1>9, <1>10 DEF RevokeActiveKeys, Active, TypeOK
    <2> QED
      BY <1>10, <2>1 DEF RevokeActiveKeys, TypeOK
  <1>11. ASSUME NEW k \in Requests, RevokeAPIKey(k) PROVE TypeOK'
    <2>1. keys' = [keys EXCEPT ![k] = [keys[k] EXCEPT !.revoked = TRUE]] /\ keys[k] # None
      BY <1>11 DEF RevokeAPIKey, Active
    <2>2. keys' \in [Requests -> Key \cup {None}]
          /\ \A q \in Requests : keys'[q] # None => keys[q] # None /\ keys'[q].user = keys[q].user
      BY <1>9, <2>1 DEF TypeOK
    <2>3. changes' \in 0..MaxChanges
      BY <1>11, BoundIsNat DEF RevokeAPIKey, TypeOK
    <2> QED
      BY <1>11, <2>2, <2>3 DEF RevokeAPIKey, TypeOK
  <1>12. ASSUME NEW r \in Requests, CreateAPIKey(r) PROVE TypeOK'
    <2>1. found[r] \in Requests /\ users[found[r]] # None
      BY <1>12 DEF CreateAPIKey, Placed, PlacedAt, Rows
    <2>2. [user |-> found[r], revoked |-> FALSE] \in Key
      BY <2>1 DEF Key
    <2>3. /\ keys' \in [Requests -> Key \cup {None}] /\ UNCHANGED <<users, accounts, bridges, began, clock, changes>>
          /\ \A k \in Requests : keys'[k] # None => users[keys'[k].user] # None
      BY <1>12, <2>1, <2>2 DEF CreateAPIKey, TypeOK
    <2>4. CASE pc' = [pc EXCEPT ![r] = "keyed"] /\ UNCHANGED <<answer, ask, found, since>>
      BY <2>3, <2>4 DEF TypeOK
    <2>5. ASSUME NEW a \in {"connected", "error"}, Answer(r, a) PROVE TypeOK'
      BY <2>3, <2>5, AnswerGives DEF TypeOK
    <2> QED
      BY <1>12, <2>4, <2>5 DEF CreateAPIKey
  <1>13. ASSUME NEW r \in Requests, NEW a \in {"connected", "error"}, Answer(r, a),
                bridges' \in [Bridges -> Bridge \cup {None}], UNCHANGED <<users, accounts, keys, began, clock, changes>>
         PROVE  TypeOK'
    BY <1>13, AnswerGives DEF TypeOK
  <1>14. ASSUME NEW r \in Requests, Complete(r) PROVE TypeOK'
    <2>1. bridges' \in [Bridges -> Bridge \cup {None}]
      <3>1. CASE UNCHANGED bridges
        BY <3>1 DEF TypeOK
      <3>2. CASE Settle(r)
        <4>1. PICK b \in Bridges : b = ask[r].bridge /\ bridges[b] # None /\ found[r] \in Requests
          BY <1>14 DEF Complete, Placed, PlacedAt, Rows
        <4>2. bridges[b] \in Bridge
          BY <4>1, BridgeIs
        <4>3. [bridges[b] EXCEPT !.user = found[r], !.key = r] \in Bridge
          BY <4>1, <4>2 DEF Bridge
        <4>4. bridges' = [bridges EXCEPT ![b] = [bridges[b] EXCEPT !.user = found[r], !.key = r]]
          BY <3>2, <4>1 DEF Settle, TypeOK
        <4> QED
          BY <4>3, <4>4 DEF TypeOK
      <3> QED
        BY <1>14, <3>1, <3>2 DEF Complete
    <2>2. (Answer(r, "connected") \/ Answer(r, "error")) /\ UNCHANGED <<users, accounts, keys, began, clock, changes>>
      BY <1>14 DEF Complete
    <2> QED
      BY <1>13, <2>1, <2>2
  <1>15. ASSUME NEW r \in Requests, Fail(r) PROVE TypeOK'
    <2>1. Answer(r, "error") /\ UNCHANGED <<tables, began, clock, changes>>
      BY <1>15 DEF Fail
    <2>2. bridges' \in [Bridges -> Bridge \cup {None}]
      BY <2>1 DEF TypeOK
    <2> QED
      BY <1>13, <2>1, <2>2
  <1>16. ASSUME NEW u \in Requests, UpsertWebexSession(u) PROVE TypeOK'
    <2>1. PICK s \in Sites : s = Latest(u) /\ accounts[u][s] \in Account /\ accounts[u][s] # None
      BY <1>16, LatestExists DEF UpsertWebexSession
    <2>2. clock' = clock + 1 /\ clock' \in Nat
      BY <1>16 DEF UpsertWebexSession, Tick, TypeOK
    <2>3. [accounts[u][s] EXCEPT !.at = clock + 1] \in Account
      BY <2>1, <2>2 DEF Account
    <2>4. accounts' = [accounts EXCEPT ![u][s] = [accounts[u][s] EXCEPT !.at = clock + 1]]
      BY <1>16, <2>1 DEF UpsertWebexSession, TypeOK
    <2>5. accounts' \in [Requests -> [Sites -> Account \cup {None}]]
      BY <2>3, <2>4 DEF TypeOK
    <2>6. accounts'[u][s] # None
      BY <2>3, <2>4, NoneIsNothing DEF TypeOK
    <2>7. \A q \in Requests : users[q] # None => \E t \in Sites : accounts'[q][t] # None
      BY <2>4, <2>6 DEF TypeOK
    <2>8. changes' \in 0..MaxChanges
      BY <1>16, BoundIsNat DEF UpsertWebexSession, TypeOK
    <2> QED
      BY <1>16, <2>2, <2>5, <2>7, <2>8 DEF UpsertWebexSession, TypeOK
  <1>17. CASE UNCHANGED vars
    BY <1>17 DEF vars, TypeOK
  <1> QED
    BY <1>1, <1>2, <1>3, <1>4, <1>5, <1>6, <1>7, <1>8, <1>10, <1>11, <1>12, <1>14, <1>15, <1>16, <1>17 DEF Next

-----------------------------------------------------------------------------
(* Where requests stand *)

Same(q) == pc'[q] = pc[q] /\ answer'[q] = answer[q] /\ ask'[q] = ask[q] /\ found'[q] = found[q]

(* What no step takes away.                                                *)
Lasting ==
    /\ Rows \subseteq Rows'
    /\ \A b \in Bridges : bridges[b] # None => bridges'[b] # None
    /\ \A q \in Requests : keys[q] # None /\ pc[q] = "keyed" => keys'[q] # None /\ keys'[q].user = keys[q].user

LEMMA Stays ==
  ASSUME NEW q \in Requests, PlacedAt(q), Same(q), Lasting, users'[q] # None => users[q] # None \/ pc[q] = "linked"
  PROVE  PlacedAt(q)'
  BY DEF PlacedAt, Same, Lasting, Rows

LEMMA PlacedByOne ==
  ASSUME Placed, NEW r \in Requests, \A q \in Requests \ {r} : Same(q), Lasting, UNCHANGED users, PlacedAt(r)'
  PROVE  Placed'
  BY Stays DEF Placed

LEMMA PlacedStep ==
  ASSUME IInv, [Next]_vars
  PROVE  Placed'
  <1> USE DEF IInv, tables
  <1>0. ASSUME NEW r \in Requests, NEW c \in Clerks \cup {None}, LookUp(r, c), UNCHANGED <<tables, answer, since, changes>>,
               \A q \in Requests \ {r} : ask'[q] = ask[q], ask'[r].kind \in {"link", "complete"}, ask'[r].identity \in Identities,
               ask'[r].kind = "complete" => ask'[r].bridge \in Bridges /\ bridges[ask'[r].bridge] # None,
               pc[r] \in {"idle", "checked"}
        PROVE  Placed'
    <2>1. (\A q \in Requests \ {r} : found'[q] = found[q]) /\ pc' = [pc EXCEPT ![r] = "begun"]
      BY <1>0, LookUpGives
    <2>2. (\A q \in Requests \ {r} : Same(q)) /\ Lasting
      BY <1>0, <2>1 DEF Same, Lasting, Rows, TypeOK
    <2>3. pc'[r] = "begun" /\ users[r] = None /\ answer[r] = "none"
      BY <1>0, <2>1 DEF TypeOK, Placed, PlacedAt
    <2>4. PlacedAt(r)'
      BY <1>0, <2>3 DEF PlacedAt
    <2> QED
      BY <1>0, <2>2, <2>4, PlacedByOne
  <1>1. ASSUME Lasting, UNCHANGED <<users, pc, answer, ask, found>> PROVE Placed'
    BY <1>1, Stays DEF Same, Placed
  <1>2. ASSUME NEW b \in Bridges, \/ \E c \in Clerks : Start(b, c)
                                  \/ Expire(b)
        PROVE  Placed'
    <2>1. \A x \in Bridges : bridges[x] # None => bridges'[x] # None
      <3>1. CASE \E c \in Clerks : Start(b, c)
        BY <3>1 DEF Start, TypeOK
      <3>2. CASE Expire(b)
        <4>1. PICK x \in Bridge : x = bridges[b]
          BY <3>2, BridgeIs DEF Expire
        <4>2. [x EXCEPT !.expired = TRUE] \in Bridge
          BY DEF Bridge
        <4>3. bridges' = [bridges EXCEPT ![b] = [x EXCEPT !.expired = TRUE]]
          BY <3>2, <4>1 DEF Expire
        <4> QED
          BY <4>2, <4>3, NoneIsNothing DEF TypeOK
      <3> QED
        BY <1>2, <3>1, <3>2
    <2>2. UNCHANGED <<users, keys, pc, answer, ask, found>>
      BY <1>2 DEF Start, Expire
    <2> QED
      BY <1>1, <2>1, <2>2 DEF Lasting, Rows
  <1>3. ASSUME NEW r \in Requests, NEW b \in Bridges, NEW m \in Identities, ReadBridge(r, b, m) PROVE Placed'
    <2>1. PICK a : a = [NoAsk EXCEPT !.kind = "complete", !.clerk = bridges[b].clerk, !.identity = m, !.bridge = b]
      OBVIOUS
    <2>2. a.kind = "complete" /\ a.identity = m /\ a.bridge = b
      BY <2>1 DEF NoAsk
    <2>3. /\ pc[r] = "idle" /\ pc' = [pc EXCEPT ![r] = "checked"] /\ ask' = [ask EXCEPT ![r] = a] /\ bridges[b] # None
          /\ UNCHANGED <<tables, answer, found>>
      BY <1>3, <2>1 DEF ReadBridge
    <2>4. (\A q \in Requests \ {r} : Same(q)) /\ Lasting
      BY <2>3 DEF Same, Lasting, Rows, TypeOK
    <2>5. pc'[r] = "checked" /\ ask'[r] = a /\ users[r] = None /\ answer[r] = "none"
      BY <2>3 DEF TypeOK, Placed, PlacedAt
    <2>6. PlacedAt(r)'
      BY <2>2, <2>3, <2>5 DEF PlacedAt
    <2> QED
      BY <2>3, <2>4, <2>6, PlacedByOne
  <1>4. ASSUME NEW r \in Requests, NEW c \in Clerks \cup {None}, NEW m \in Identities, AskToLink(r, c, m) PROVE Placed'
    <2>1. PICK a : a = [NoAsk EXCEPT !.kind = "link", !.clerk = c, !.identity = m]
      OBVIOUS
    <2>2. a.kind = "link" /\ a.identity = m
      BY <2>1 DEF NoAsk
    <2>3. /\ pc[r] = "idle" /\ ask' = [ask EXCEPT ![r] = a] /\ LookUp(r, c) /\ UNCHANGED <<tables, answer, since, changes>>
      BY <1>4, <2>1 DEF AskToLink
    <2>4. ask'[r] = a /\ \A q \in Requests \ {r} : ask'[q] = ask[q]
      BY <2>3 DEF TypeOK
    <2> QED
      BY <1>0, <2>2, <2>3, <2>4
  <1>5. ASSUME NEW r \in Requests, BeginCompletion(r) PROVE Placed'
    <2>1. pc[r] = "checked" /\ ask[r].kind = "complete" /\ LookUp(r, ask[r].clerk) /\ UNCHANGED <<tables, ask, answer, since, changes>>
      BY <1>5 DEF BeginCompletion
    <2>2. ask[r].clerk \in Clerks \cup {None} /\ ask[r].identity \in Identities /\ ask[r].bridge \in Bridges /\ bridges[ask[r].bridge] # None
      BY <2>1 DEF TypeOK, Ask, Placed, PlacedAt
    <2> QED
      BY <1>0, <2>1, <2>2
  <1>6. ASSUME NEW r \in Requests, Link(r) PROVE Placed'
    <2>1. PICK u \in Requests, s \in Sites : Links(r, u, s)
      BY <1>6, LinkGives
    <2>2. Lasting /\ \A q \in Requests \ {r} : Same(q)
      BY <2>1 DEF Links, Lasting, Rows, Same, TypeOK
    <2>3. pc'[r] = "linked" /\ found'[r] = u /\ u \in Rows'
      BY <2>1 DEF Links, Rows, TypeOK
    <2>4. PlacedAt(r)'
      BY <2>1, <2>3 DEF Links, PlacedAt, Placed
    <2>5. ASSUME NEW q \in Requests \ {r} PROVE PlacedAt(q)'
      <3>1. u # q \/ users[q] # None
        BY <2>1, <2>5, TargetIs DEF Links, Rows
      <3>2. users'[q] # None => users[q] # None
        BY <2>1, <3>1 DEF Links
      <3> QED
        BY <2>2, <3>2, Stays DEF Placed
    <2> QED
      BY <2>4, <2>5 DEF Placed
  <1>7. ASSUME NEW r \in Requests, NEW k \in {"restore", "newkey"}, NEW label \in {"checked", "linked"}, NEW u \in Rows,
               pc[r] = "idle", ask'[r].kind = k, label = "checked" => k = "newkey",
               \A q \in Requests \ {r} : ask'[q] = ask[q],
               found' = [found EXCEPT ![r] = u], pc' = [pc EXCEPT ![r] = label], UNCHANGED <<tables, answer>>
        PROVE  Placed'
    <2>1. (\A q \in Requests \ {r} : Same(q)) /\ Lasting
      BY <1>7 DEF Same, Lasting, Rows, TypeOK
    <2>2. pc'[r] = label /\ found'[r] = u /\ answer[r] = "none" /\ users[r] = None
      BY <1>7 DEF TypeOK, Placed, PlacedAt
    <2>3. PlacedAt(r)'
      BY <1>7, <2>2 DEF PlacedAt, Rows
    <2> QED
      BY <1>7, <2>1, <2>3, PlacedByOne
  <1>8. ASSUME NEW r \in Requests, NEW c \in Clerks, Restore(r, c) PROVE Placed'
    <2>1. PICK u \in Rows : u = UserForClerkID(c)
      BY <1>8, Chosen DEF Restore, UserForClerkID, OfClerk
    <2>2. [NoAsk EXCEPT !.kind = "restore", !.clerk = c].kind = "restore"
      BY DEF NoAsk
    <2>3. ask'[r].kind = "restore" /\ \A q \in Requests \ {r} : ask'[q] = ask[q]
      BY <1>8, <2>2 DEF Restore, TypeOK
    <2> QED
      BY <1>7, <1>8, <2>1, <2>3 DEF Restore
  <1>9. ASSUME NEW r \in Requests, NEW k \in Requests, NEW revoke \in BOOLEAN, Authenticate(r, k, revoke) PROVE Placed'
    <2>1. PICK u \in Rows : u = keys[k].user
      BY <1>9 DEF Authenticate, Active, TypeOK, Key, Rows
    <2>2. [NoAsk EXCEPT !.kind = "newkey"].kind = "newkey"
      BY DEF NoAsk
    <2>3. ask'[r].kind = "newkey" /\ \A q \in Requests \ {r} : ask'[q] = ask[q]
      BY <1>9, <2>2 DEF Authenticate, TypeOK
    <2>4. \E label \in {"checked", "linked"} : pc' = [pc EXCEPT ![r] = label]
      BY <1>9 DEF Authenticate
    <2> QED
      BY <1>7, <1>9, <2>1, <2>3, <2>4 DEF Authenticate
  <1>10. ASSUME NEW k \in Requests, keys[k] # None
         PROVE  [keys[k] EXCEPT !.revoked = TRUE] # None /\ [keys[k] EXCEPT !.revoked = TRUE].user = keys[k].user
    <2>1. keys[k] \in Key
      BY <1>10 DEF TypeOK
    <2>2. [keys[k] EXCEPT !.revoked = TRUE] \in Key
      BY <2>1 DEF Key
    <2> QED
      BY <2>1, <2>2, NoneIsNothing DEF Key
  <1>11. ASSUME NEW r \in Requests, RevokeActiveKeys(r) PROVE Placed'
    <2>1. /\ pc[r] = "checked" /\ ask[r].kind = "newkey" /\ pc' = [pc EXCEPT ![r] = "linked"]
          /\ UNCHANGED <<users, bridges, ask, answer, found>>
      BY <1>11 DEF RevokeActiveKeys
    <2>2. \A q \in Requests : keys[q] # None => keys'[q] # None /\ keys'[q].user = keys[q].user
      BY <1>10, <1>11 DEF RevokeActiveKeys
    <2>3. (\A q \in Requests \ {r} : Same(q)) /\ Lasting
      BY <2>1, <2>2 DEF Same, Lasting, Rows, TypeOK
    <2>4. pc'[r] = "linked"
      BY <2>1 DEF TypeOK
    <2>5. PlacedAt(r)'
      BY <2>1, <2>4 DEF PlacedAt, Placed, Rows
    <2> QED
      BY <2>1, <2>3, <2>5, PlacedByOne
  <1>12. ASSUME NEW k \in Requests, RevokeAPIKey(k) PROVE Placed'
    <2>1. /\ keys' = [keys EXCEPT ![k] = [keys[k] EXCEPT !.revoked = TRUE]] /\ keys[k] # None
          /\ UNCHANGED <<users, bridges, pc, answer, ask, found>>
      BY <1>12 DEF RevokeAPIKey, Active
    <2>2. \A q \in Requests : keys[q] # None => keys'[q] # None /\ keys'[q].user = keys[q].user
      BY <1>10, <2>1 DEF TypeOK
    <2> QED
      BY <1>1, <2>1, <2>2 DEF Lasting, Rows
  <1>13. ASSUME NEW r \in Requests, NEW a \in {"connected", "error"}, Answer(r, a), Lasting, UNCHANGED users,
                pc[r] \notin {"idle", "done"}
         PROVE  Placed'
    <2>1. /\ \A q \in Requests \ {r} : Same(q)
          /\ pc'[r] = "done" /\ (ask'[r].kind = "complete" => ask[r].kind = "complete" /\ ask'[r].bridge = ask[r].bridge)
      BY <1>13, AnswerGives DEF Same, TypeOK
    <2>2. PlacedAt(r)'
      BY <1>13, <2>1 DEF PlacedAt, Placed, Lasting
    <2> QED
      BY <1>13, <2>1, <2>2, PlacedByOne
  <1>14. ASSUME NEW r \in Requests, CreateAPIKey(r) PROVE Placed'
    <2>1. PICK key : key = [user |-> found[r], revoked |-> FALSE]
      OBVIOUS
    <2>2. /\ pc[r] = "linked" /\ keys' = [keys EXCEPT ![r] = key] /\ UNCHANGED <<users, bridges>>
          /\ key \in Key /\ key.user = found[r] /\ found[r] \in Rows
      BY <1>14, <2>1 DEF CreateAPIKey, Placed, PlacedAt, Rows, Key
    <2>3. Lasting /\ keys'[r] = key /\ key # None
      BY <2>2, NoneIsNothing DEF Lasting, Rows, TypeOK
    <2>4. CASE ask[r].kind = "complete"
      <3>1. pc' = [pc EXCEPT ![r] = "keyed"] /\ UNCHANGED <<answer, ask, found>>
        BY <1>14, <2>4 DEF CreateAPIKey
      <3>2. \A q \in Requests \ {r} : Same(q)
        BY <3>1 DEF Same, TypeOK
      <3>3. pc'[r] = "keyed"
        BY <3>1 DEF TypeOK
      <3>4. PlacedAt(r)'
        BY <2>2, <2>3, <2>4, <3>1, <3>3 DEF PlacedAt, Placed, Rows
      <3> QED
        BY <2>2, <2>3, <3>2, <3>4, PlacedByOne
    <2>5. CASE ask[r].kind # "complete"
      <3>1. Answer(r, "connected") \/ Answer(r, "error")
        BY <1>14, <2>5 DEF CreateAPIKey
      <3> QED
        BY <1>13, <2>2, <2>3, <3>1
    <2> QED
      BY <2>4, <2>5
  <1>15. ASSUME NEW r \in Requests, Complete(r) PROVE Placed'
    <2>1. \A b \in Bridges : bridges[b] # None => bridges'[b] # None
      <3>1. CASE UNCHANGED bridges
        BY <3>1
      <3>2. CASE Settle(r)
        <4>1. PICK b \in Bridges : b = ask[r].bridge /\ bridges[b] # None /\ found[r] \in Requests
          BY <1>15 DEF Complete, Placed, PlacedAt, Rows
        <4>2. bridges[b] \in Bridge
          BY <4>1, BridgeIs
        <4>3. [bridges[b] EXCEPT !.user = found[r], !.key = r] \in Bridge
          BY <4>1, <4>2 DEF Bridge
        <4>4. bridges' = [bridges EXCEPT ![b] = [bridges[b] EXCEPT !.user = found[r], !.key = r]]
          BY <3>2, <4>1 DEF Settle, TypeOK
        <4> QED
          BY <4>3, <4>4, NoneIsNothing DEF TypeOK
      <3> QED
        BY <1>15, <3>1, <3>2 DEF Complete
    <2>2. (Answer(r, "connected") \/ Answer(r, "error")) /\ UNCHANGED <<users, keys>> /\ pc[r] = "keyed"
      BY <1>15 DEF Complete
    <2>3. Lasting
      BY <2>1, <2>2 DEF Lasting, Rows
    <2> QED
      BY <1>13, <2>2, <2>3
  <1>16. ASSUME NEW r \in Requests, Fail(r) PROVE Placed'
    <2>1. Answer(r, "error") /\ UNCHANGED <<users, keys, bridges>> /\ pc[r] \notin {"idle", "done"}
      BY <1>16 DEF Fail
    <2>2. Lasting
      BY <2>1 DEF Lasting, Rows
    <2> QED
      BY <1>13, <2>1, <2>2
  <1>17. ASSUME NEW u \in Requests, UpsertWebexSession(u) PROVE Placed'
    BY <1>1, <1>17 DEF UpsertWebexSession, Lasting, Rows
  <1>18. CASE UNCHANGED vars
    BY <1>1, <1>18 DEF vars, Lasting, Rows
  <1> QED
    BY <1>2, <1>3, <1>4, <1>5, <1>6, <1>8, <1>9, <1>11, <1>12, <1>14, <1>15, <1>16, <1>17, <1>18 DEF Next

-----------------------------------------------------------------------------
(* Rows, sessions and times *)

(* A step that begins no transaction and writes no row.                    *)
LEMMA FoundStays ==
  ASSUME TypeOK, FoundIsOwn, UNCHANGED users,
         \A q \in Requests : pc'[q] = "begun" =>
             pc[q] = "begun" /\ found'[q] = found[q] /\ ask'[q] = ask[q] /\ since[q] \subseteq since'[q]
  PROVE  FoundIsOwn'
  BY DEF FoundIsOwn, Rows, TypeOK

LEMMA StampsStay ==
  ASSUME Stamps, UNCHANGED <<accounts, began, clock>>, \A q \in Requests : pc'[q] = "begun" => pc[q] = "begun"
  PROVE  Stamps'
  BY DEF Stamps

LEMMA SessionsStay ==
  ASSUME TypeOK, RowsHaveTheirSession, UNCHANGED <<users, accounts>>,
         \A q \in Requests : pc[q] \in {"linked", "keyed", "done"} =>
             pc'[q] \in {"linked", "keyed", "done"} /\ began'[q] = began[q]
  PROVE  RowsHaveTheirSession'
  BY DEF RowsHaveTheirSession, Rows, TypeOK, User

(* The steps other than those that begin a transaction, link or renew.     *)
Quiet ==
    /\ UNCHANGED <<users, accounts, began, clock>>
    /\ \A q \in Requests :
        /\ pc'[q] = "begun" => pc[q] = "begun" /\ found'[q] = found[q] /\ ask'[q] = ask[q] /\ since'[q] = since[q]
        /\ pc[q] \in {"linked", "keyed", "done"} => pc'[q] \in {"linked", "keyed", "done"}

LEMMA QuietSteps ==
  ASSUME IInv, NEW r \in Requests,
         \/ \E b \in Bridges : (\E c \in Clerks : Start(b, c)) \/ Expire(b) \/ (\E m \in Identities : ReadBridge(r, b, m))
         \/ \E c \in Clerks : Restore(r, c)
         \/ \E k \in Requests, revoke \in BOOLEAN : Authenticate(r, k, revoke)
         \/ RevokeActiveKeys(r) \/ CreateAPIKey(r) \/ Complete(r) \/ Fail(r) \/ RevokeAPIKey(r)
  PROVE  Quiet
  <1> USE DEF IInv, tables
  <1>1. ASSUME NEW label \in {"checked", "linked", "keyed"}, pc' = [pc EXCEPT ![r] = label],
               pc[r] = "idle" \/ label # "checked",
               UNCHANGED <<users, accounts, began, clock, since>>, \A q \in Requests \ {r} : ask'[q] = ask[q] /\ found'[q] = found[q]
        PROVE  Quiet
    BY <1>1 DEF Quiet, TypeOK
  <1>2. ASSUME NEW a \in {"connected", "error"}, Answer(r, a), UNCHANGED <<users, accounts, began, clock>> PROVE Quiet
    <2>1. /\ pc' = [pc EXCEPT ![r] = "done"]
          /\ \A q \in Requests \ {r} : ask'[q] = ask[q] /\ found'[q] = found[q] /\ since'[q] = since[q]
      BY <1>2, AnswerGives
    <2> QED
      BY <1>2, <2>1 DEF Quiet, TypeOK
  <1>3. ASSUME UNCHANGED <<users, accounts, began, clock, pc, found, ask, since>> PROVE Quiet
    BY <1>3 DEF Quiet
  <1>4. ASSUME NEW b \in Bridges, (\E c \in Clerks : Start(b, c)) \/ Expire(b) PROVE Quiet
    BY <1>3, <1>4 DEF Start, Expire
  <1>5. ASSUME NEW b \in Bridges, NEW m \in Identities, ReadBridge(r, b, m) PROVE Quiet
    <2>1. \A q \in Requests \ {r} : ask'[q] = ask[q]
      BY <1>5 DEF ReadBridge, TypeOK
    <2> QED
      BY <1>1, <1>5, <2>1 DEF ReadBridge
  <1>6. ASSUME NEW c \in Clerks, Restore(r, c) PROVE Quiet
    <2>1. \A q \in Requests \ {r} : ask'[q] = ask[q] /\ found'[q] = found[q]
      BY <1>6 DEF Restore, TypeOK
    <2> QED
      BY <1>1, <1>6, <2>1 DEF Restore
  <1>7. ASSUME NEW k \in Requests, NEW revoke \in BOOLEAN, Authenticate(r, k, revoke) PROVE Quiet
    <2>1. \A q \in Requests \ {r} : ask'[q] = ask[q] /\ found'[q] = found[q]
      BY <1>7 DEF Authenticate, TypeOK
    <2>2. \E label \in {"checked", "linked"} : pc' = [pc EXCEPT ![r] = label]
      BY <1>7 DEF Authenticate
    <2> QED
      BY <1>1, <1>7, <2>1, <2>2 DEF Authenticate
  <1>8. CASE RevokeActiveKeys(r)
    BY <1>1, <1>8 DEF RevokeActiveKeys
  <1>9. CASE CreateAPIKey(r)
    BY <1>1, <1>2, <1>9 DEF CreateAPIKey
  <1>10. CASE Complete(r)
    BY <1>2, <1>10 DEF Complete
  <1>11. CASE Fail(r)
    BY <1>2, <1>11 DEF Fail
  <1>12. CASE RevokeAPIKey(r)
    BY <1>3, <1>12 DEF RevokeAPIKey
  <1> QED
    BY <1>4, <1>5, <1>6, <1>7, <1>8, <1>9, <1>10, <1>11, <1>12

LEMMA QuietKeeps ==
  ASSUME IInv, Quiet
  PROVE  FoundIsOwn' /\ Stamps' /\ RowsHaveTheirSession'
  BY FoundStays, StampsStay, SessionsStay DEF IInv, Quiet

LEMMA BeginKeeps ==
  ASSUME IInv, NEW r \in Requests, NEW c \in Clerks \cup {None}, LookUp(r, c), pc[r] \in {"idle", "checked"},
         UNCHANGED <<users, accounts, since>>, ask'[r].clerk = c, \A q \in Requests \ {r} : ask'[q] = ask[q]
  PROVE  FoundIsOwn' /\ Stamps' /\ RowsHaveTheirSession'
  <1> USE DEF IInv
  <1>1. /\ \A q \in Requests \ {r} : found'[q] = found[q]
        /\ found'[r] # None => found'[r] \in Rows /\ c # None /\ users[found'[r]].clerk = c
        /\ clock' = clock + 1 /\ clock \in Nat /\ began' = [began EXCEPT ![r] = clock + 1] /\ pc' = [pc EXCEPT ![r] = "begun"]
    BY LookUpGives DEF TypeOK
  <1>2. FoundIsOwn'
    BY <1>1 DEF FoundIsOwn, Rows, TypeOK
  <1>3. RowsHaveTheirSession'
    BY <1>1, SessionsStay DEF TypeOK
  <1>4. \A q \in Requests : began'[q] = (IF q = r THEN clock + 1 ELSE began[q]) /\ began[q] \in Nat
    BY <1>1 DEF TypeOK
  <1>5. \A u \in Requests, s \in Sites : accounts[u][s] # None => accounts[u][s].at \in Nat
    BY DEF TypeOK, Account
  <1>6. \A q \in Requests : pc'[q] = "begun" <=> q = r \/ pc[q] = "begun"
    BY <1>1 DEF TypeOK
  <1>7. Stamps'
    <2>1. \A q \in Requests : began'[q] <= clock'
      BY <1>1, <1>4 DEF Stamps
    <2>2. \A p, q \in Requests : p # q /\ pc'[p] = "begun" /\ pc'[q] = "begun" => began'[p] # began'[q]
      BY <1>1, <1>4, <1>6 DEF Stamps
    <2>3. \A u \in Requests, s \in Sites : accounts[u][s] # None =>
              /\ accounts[u][s].at <= clock'
              /\ \A q \in Requests : pc'[q] = "begun" => accounts[u][s].at # began'[q]
              /\ \A t \in Sites \ {s} : accounts[u][t] # None => accounts[u][t].at # accounts[u][s].at
      BY <1>1, <1>4, <1>5, <1>6 DEF Stamps
    <2> QED
      BY <2>1, <2>2, <2>3 DEF Stamps
  <1> QED
    BY <1>2, <1>3, <1>7

LEMMA LinkKeeps ==
  ASSUME IInv, NEW r \in Requests, Link(r)
  PROVE  FoundIsOwn' /\ Stamps' /\ RowsHaveTheirSession'
  <1> USE DEF IInv
  <1>1. PICK u \in Requests, s \in Sites : Links(r, u, s)
    BY LinkGives
  <1>2. /\ pc[r] = "begun" /\ UNCHANGED <<ask, began, clock>> /\ s = ask[r].identity.site
        /\ users'[u] # None /\ users'[u].identity = ask[r].identity /\ users'[u].by = r
        /\ \A q \in Requests \ {u} : users'[q] = users[q] /\ accounts'[q] = accounts[q]
        /\ accounts'[u][s] # None /\ accounts'[u][s].identity = ask[r].identity /\ accounts'[u][s].at = began[r]
        /\ \A t \in Sites \ {s} : accounts'[u][t] = accounts[u][t]
    BY <1>1 DEF Links
  <1>3. \A q \in Requests : /\ pc'[q] = (IF q = r THEN "linked" ELSE pc[q])
                            /\ q # r => found'[q] = found[q]
                            /\ pc[q] = "begun" => since'[q] = since[q] \cup {u}
    BY <1>1 DEF Links, TypeOK
  <1>4. FoundIsOwn'
    <2>1. ASSUME NEW q \in Requests, pc'[q] = "begun", found'[q] # None
          PROVE  /\ found'[q] \in Requests /\ users'[found'[q]] # None /\ ask[q].clerk # None
                 /\ users'[found'[q]].clerk = ask[q].clerk \/ found'[q] \in since'[q]
      <3>1. /\ q # r /\ pc[q] = "begun" /\ found'[q] = found[q] /\ found[q] \in Rows /\ since'[q] = since[q] \cup {u}
            /\ ask[q].clerk # None /\ (users[found[q]].clerk = ask[q].clerk \/ found[q] \in since[q])
        BY <1>3, <2>1 DEF FoundIsOwn
      <3>2. CASE found[q] = u
        BY <1>2, <3>1, <3>2
      <3>3. CASE found[q] # u
        BY <1>2, <3>1, <3>3 DEF Rows
      <3> QED
        BY <3>2, <3>3
    <2> QED
      BY <1>2, <2>1 DEF FoundIsOwn, Rows
  <1>5. Stamps'
    <2>1. \A q \in Requests : began[q] <= clock
      BY DEF Stamps
    <2>2. \A p, q \in Requests : p # q /\ pc'[p] = "begun" /\ pc'[q] = "begun" => began[p] # began[q]
      BY <1>3 DEF Stamps
    <2>3. ASSUME NEW v \in Requests, NEW x \in Sites, accounts'[v][x] # None
          PROVE  /\ accounts'[v][x].at <= clock
                 /\ \A q \in Requests : pc'[q] = "begun" => accounts'[v][x].at # began[q]
                 /\ \A t \in Sites \ {x} : accounts'[v][t] # None => accounts'[v][t].at # accounts'[v][x].at
      <3>1. CASE v # u
        BY <1>2, <1>3, <2>3, <3>1 DEF Stamps
      <3>2. CASE v = u /\ x = s
        BY <1>2, <1>3, <3>2 DEF Stamps
      <3>3. CASE v = u /\ x # s
        BY <1>2, <1>3, <2>3, <3>3 DEF Stamps
      <3> QED
        BY <3>1, <3>2, <3>3
    <2> QED
      BY <1>2, <2>1, <2>2, <2>3 DEF Stamps
  <1>6. RowsHaveTheirSession'
    <2>1. ASSUME NEW v \in Requests, users'[v] # None
          PROVE  LET own == accounts'[v][users'[v].identity.site]
                 IN  /\ own # None /\ own.identity = users'[v].identity /\ own.at >= began[users'[v].by]
                     /\ pc'[users'[v].by] \in {"linked", "keyed", "done"}
      <3>1. CASE v = u
        <4>1. began[r] \in Nat
          BY DEF TypeOK
        <4> QED
          BY <1>2, <1>3, <3>1, <4>1
      <3>2. CASE v # u
        <4>1. users'[v] = users[v] /\ accounts'[v] = accounts[v] /\ v \in Rows /\ users[v] \in User
          BY <1>2, <2>1, <3>2 DEF Rows, TypeOK
        <4>2. users[v].by \in Requests /\ pc[users[v].by] \in {"linked", "keyed", "done"}
          BY <4>1 DEF RowsHaveTheirSession, User
        <4> QED
          BY <1>2, <1>3, <4>1, <4>2 DEF RowsHaveTheirSession
      <3> QED
        BY <3>1, <3>2
    <2> QED
      BY <1>2, <2>1 DEF RowsHaveTheirSession, Rows
  <1> QED
    BY <1>4, <1>5, <1>6

LEMMA RenewalKeeps ==
  ASSUME IInv, NEW u \in Requests, UpsertWebexSession(u)
  PROVE  FoundIsOwn' /\ Stamps' /\ RowsHaveTheirSession'
  <1> USE DEF IInv
  <1>1. PICK s \in Sites : s = Latest(u) /\ accounts[u][s] \in Account /\ accounts[u][s] # None
    BY LatestExists DEF UpsertWebexSession
  <1>2. /\ clock' = clock + 1 /\ clock \in Nat /\ UNCHANGED <<users, ask, pc, found, began, since>>
        /\ accounts' = [accounts EXCEPT ![u][s].at = clock + 1]
    BY <1>1 DEF UpsertWebexSession, Tick, TypeOK
  <1>3. /\ \A q \in Requests \ {u} : accounts'[q] = accounts[q]
        /\ \A t \in Sites \ {s} : accounts'[u][t] = accounts[u][t]
        /\ accounts'[u][s].at = clock + 1 /\ accounts'[u][s].identity = accounts[u][s].identity
        /\ accounts'[u][s] # None
    <2>0. PICK old \in Account : old = accounts[u][s]
      BY <1>1
    <2>1. PICK x : x = [old EXCEPT !.at = clock + 1]
      OBVIOUS
    <2>2. x \in Account /\ x.at = clock + 1 /\ x.identity = old.identity
      BY <1>2, <2>0, <2>1 DEF Account
    <2>3. accounts' = [accounts EXCEPT ![u][s] = x] /\ x # None
      BY <1>2, <2>0, <2>1, <2>2, NoneIsNothing DEF TypeOK
    <2> QED
      BY <2>0, <2>2, <2>3 DEF TypeOK
  <1>4. FoundIsOwn'
    BY <1>2, FoundStays
  <1>5. \A v \in Requests, t \in Sites : accounts[v][t] # None => accounts[v][t].at \in Nat
    BY DEF TypeOK, Account
  <1>6. Stamps'
    <2>1. \A q \in Requests : began[q] \in Nat /\ began[q] <= clock'
      BY <1>2 DEF Stamps, TypeOK
    <2>2. ASSUME NEW v \in Requests, NEW x \in Sites, accounts'[v][x] # None
          PROVE  /\ accounts'[v][x].at <= clock'
                 /\ \A q \in Requests : pc[q] = "begun" => accounts'[v][x].at # began[q]
                 /\ \A t \in Sites \ {x} : accounts'[v][t] # None => accounts'[v][t].at # accounts'[v][x].at
      <3>1. CASE v # u
        BY <1>2, <1>3, <1>5, <2>2, <3>1 DEF Stamps
      <3>2. CASE v = u /\ x = s
        BY <1>2, <1>3, <1>5, <2>1, <3>2 DEF Stamps
      <3>3. CASE v = u /\ x # s
        BY <1>2, <1>3, <1>5, <2>2, <3>3 DEF Stamps
      <3> QED
        BY <3>1, <3>2, <3>3
    <2>3. \A p, q \in Requests : p # q /\ pc[p] = "begun" /\ pc[q] = "begun" => began[p] # began[q]
      BY DEF Stamps
    <2> QED
      BY <1>2, <2>1, <2>2, <2>3 DEF Stamps
  <1>7. RowsHaveTheirSession'
    <2>1. ASSUME NEW v \in Rows
          PROVE  LET own == accounts'[v][users[v].identity.site]
                 IN  /\ own # None /\ own.identity = users[v].identity /\ own.at >= began[users[v].by]
                     /\ pc[users[v].by] \in {"linked", "keyed", "done"}
      <3>1. PICK t \in Sites : t = users[v].identity.site
        BY DEF Rows, TypeOK, User, Sites
      <3>2. /\ accounts[v][t] # None /\ accounts[v][t].identity = users[v].identity
            /\ accounts[v][t].at >= began[users[v].by] /\ pc[users[v].by] \in {"linked", "keyed", "done"}
            /\ v \in Requests /\ users[v].by \in Requests
        BY <3>1 DEF RowsHaveTheirSession, Rows, TypeOK, User
      <3>3. CASE v = u /\ t = s
        <4>1. began[users[v].by] \in Nat /\ began[users[v].by] <= clock
          BY <3>2 DEF Stamps, TypeOK
        <4> QED
          BY <1>2, <1>3, <3>1, <3>2, <3>3, <4>1
      <3>4. CASE ~(v = u /\ t = s)
        BY <1>3, <3>1, <3>2, <3>4
      <3> QED
        BY <3>3, <3>4
    <2> QED
      BY <1>2, <2>1 DEF RowsHaveTheirSession, Rows
  <1> QED
    BY <1>4, <1>6, <1>7

LEMMA RowsStep ==
  ASSUME IInv, [Next]_vars
  PROVE  FoundIsOwn' /\ Stamps' /\ RowsHaveTheirSession'
  <1>1. ASSUME NEW r \in Requests, NEW c \in Clerks \cup {None}, NEW m \in Identities, AskToLink(r, c, m)
        PROVE  FoundIsOwn' /\ Stamps' /\ RowsHaveTheirSession'
    <2>1. [NoAsk EXCEPT !.kind = "link", !.clerk = c, !.identity = m].clerk = c
      BY DEF NoAsk
    <2>2. ask'[r].clerk = c /\ \A q \in Requests \ {r} : ask'[q] = ask[q]
      BY <1>1, <2>1 DEF AskToLink, IInv, TypeOK
    <2>3. LookUp(r, c) /\ pc[r] = "idle" /\ UNCHANGED <<users, accounts, since>>
      BY <1>1 DEF AskToLink, tables
    <2> QED
      BY <2>2, <2>3, BeginKeeps
  <1>2. ASSUME NEW r \in Requests, BeginCompletion(r)
        PROVE  FoundIsOwn' /\ Stamps' /\ RowsHaveTheirSession'
    <2>1. PICK c \in Clerks \cup {None} : c = ask[r].clerk
      BY DEF IInv, TypeOK, Ask
    <2>2. LookUp(r, c) /\ pc[r] = "checked" /\ UNCHANGED <<users, accounts, since, ask>>
      BY <1>2, <2>1 DEF BeginCompletion, tables
    <2> QED
      BY <2>1, <2>2, BeginKeeps
  <1>3. ASSUME NEW r \in Requests,
         \/ \E b \in Bridges : (\E c \in Clerks : Start(b, c)) \/ Expire(b) \/ (\E m \in Identities : ReadBridge(r, b, m))
         \/ \E c \in Clerks : Restore(r, c)
         \/ \E k \in Requests, revoke \in BOOLEAN : Authenticate(r, k, revoke)
         \/ RevokeActiveKeys(r) \/ CreateAPIKey(r) \/ Complete(r) \/ Fail(r) \/ RevokeAPIKey(r)
        PROVE  FoundIsOwn' /\ Stamps' /\ RowsHaveTheirSession'
    BY <1>3, QuietSteps, QuietKeeps
  <1>4. CASE UNCHANGED vars
    <2>1. Quiet
      BY <1>4 DEF vars, tables, Quiet
    <2> QED
      BY <2>1, QuietKeeps
  <1>5. ASSUME NEW b \in Bridges, (\E c \in Clerks : Start(b, c)) \/ Expire(b)
        PROVE  FoundIsOwn' /\ Stamps' /\ RowsHaveTheirSession'
    <2>1. Quiet
      BY <1>5 DEF Quiet, Start, Expire
    <2> QED
      BY <2>1, QuietKeeps
  <1>6. ASSUME NEW r \in Requests, Link(r)
        PROVE  FoundIsOwn' /\ Stamps' /\ RowsHaveTheirSession'
    BY <1>6, LinkKeeps
  <1>7. ASSUME NEW r \in Requests, UpsertWebexSession(r)
        PROVE  FoundIsOwn' /\ Stamps' /\ RowsHaveTheirSession'
    BY <1>7, RenewalKeeps
  <1>8. CASE Next
    BY <1>1, <1>2, <1>3, <1>5, <1>6, <1>7, <1>8 DEF Next
  <1> QED
    BY <1>4, <1>8

-----------------------------------------------------------------------------
(* Bridges *)

(* What a step does to a bridge.                                           *)
LEMMA BridgeStep ==
  ASSUME IInv, [Next]_vars, NEW b \in Bridges, bridges[b] # None
  PROVE  \/ bridges'[b] = bridges[b]
         \/ BridgeStatus(b) = "pending" /\ bridges'[b].user = bridges[b].user
         \/ \E r \in Requests : /\ Complete(r) /\ BridgeStatus(b) = "pending" /\ b = ask[r].bridge
                                /\ bridges'[b].user = found[r] /\ bridges'[b].key = r
  <1> USE DEF IInv
  <1>1. ASSUME NEW x \in Bridges, NEW c \in Clerks, Start(x, c) PROVE bridges'[b] = bridges[b]
    BY <1>1 DEF Start, TypeOK
  <1>2. ASSUME NEW x \in Bridges, Expire(x)
        PROVE  bridges'[b] = bridges[b] \/ (BridgeStatus(b) = "pending" /\ bridges'[b].user = bridges[b].user)
    <2>1. CASE x = b
      <3>1. PICK old \in Bridge : old = bridges[b]
        BY BridgeIs
      <3>2. bridges'[b] = [old EXCEPT !.expired = TRUE]
        BY <1>2, <2>1, <3>1 DEF Expire, TypeOK
      <3>3. bridges'[b].user = old.user
        BY <3>1, <3>2 DEF Bridge
      <3> QED
        BY <1>2, <2>1, <3>1, <3>3 DEF Expire
    <2>2. CASE x # b
      BY <1>2, <2>2 DEF Expire, TypeOK
    <2> QED
      BY <2>1, <2>2
  <1>3. ASSUME NEW r \in Requests, Complete(r), bridges'[b] # bridges[b]
        PROVE  BridgeStatus(b) = "pending" /\ b = ask[r].bridge /\ bridges'[b].user = found[r] /\ bridges'[b].key = r
    <2>1. Settle(r) /\ BridgeStatus(ask[r].bridge) = "pending"
      BY <1>3 DEF Complete
    <2>2. PICK x \in Bridges : x = ask[r].bridge /\ bridges[x] # None
      BY <1>3 DEF Complete, Placed, PlacedAt
    <2>3. PICK old \in Bridge : old = bridges[x]
      BY <2>2, BridgeIs
    <2>4. PICK new : new = [old EXCEPT !.user = found[r], !.key = r]
      OBVIOUS
    <2>5. new.user = found[r] /\ new.key = r
      BY <2>3, <2>4 DEF Bridge
    <2>6. bridges' = [bridges EXCEPT ![x] = new]
      BY <2>1, <2>2, <2>3, <2>4 DEF Settle, TypeOK
    <2>7. x = b /\ bridges'[b] = new
      BY <1>3, <2>6 DEF TypeOK
    <2> QED
      BY <2>1, <2>2, <2>5, <2>7
  <1>4. ASSUME NEW r \in Requests,
               \/ \E m \in Identities : \/ \E c \in Clerks \cup {None} : AskToLink(r, c, m)
                                        \/ \E x \in Bridges : ReadBridge(r, x, m)
               \/ \E c \in Clerks : Restore(r, c)
               \/ \E k \in Requests, revoke \in BOOLEAN : Authenticate(r, k, revoke)
               \/ BeginCompletion(r) \/ Link(r) \/ RevokeActiveKeys(r) \/ CreateAPIKey(r) \/ Fail(r)
               \/ RevokeAPIKey(r) \/ UpsertWebexSession(r)
        PROVE  UNCHANGED bridges
    BY <1>4 DEF AskToLink, ReadBridge, Restore, Authenticate, BeginCompletion, Link, RevokeActiveKeys, CreateAPIKey, Fail,
         RevokeAPIKey, UpsertWebexSession, tables
  <1>5. CASE UNCHANGED vars
    BY <1>5 DEF vars, tables
  <1>6. CASE Next
    BY <1>1, <1>2, <1>3, <1>4, <1>6 DEF Next
  <1> QED
    BY <1>5, <1>6

(* Who is told "connected" was told so before, or settles its bridge now.  *)
LEMMA NewlyConnected ==
  ASSUME IInv, [Next]_vars, NEW q \in Requests, ask'[q].kind = "complete", answer'[q] = "connected"
  PROVE  /\ ask[q].kind = "complete" /\ ask'[q].bridge = ask[q].bridge
         /\ answer[q] = "connected" \/ (Complete(q) /\ Settle(q))
  <1> DEFINE Goal == /\ ask[q].kind = "complete" /\ ask'[q].bridge = ask[q].bridge
                     /\ answer[q] = "connected" \/ (Complete(q) /\ Settle(q))
  <1> USE DEF IInv
  <1>1. ASSUME ask'[q] = ask[q], answer'[q] = answer[q] PROVE Goal
    BY <1>1
  <1>2. ASSUME NEW r \in Requests, UNCHANGED answer, pc[r] # "done", \A x \in Requests \ {r} : ask'[x] = ask[x] PROVE Goal
    <2>1. answer[r] = "none"
      BY <1>2 DEF TypeOK, Placed, PlacedAt
    <2> QED
      BY <1>1, <1>2, <2>1
  <1>3. ASSUME NEW r \in Requests, NEW a \in {"connected", "error"}, Answer(r, a),
               r = q /\ a = "connected" /\ ask[r].kind = "complete" => Complete(q) /\ Settle(q)
        PROVE  Goal
    <2>1. /\ answer' = [answer EXCEPT ![r] = a] /\ \A x \in Requests \ {r} : ask'[x] = ask[x]
          /\ ask'[r].kind = "complete" => a = "connected" /\ ask[r].kind = "complete" /\ ask'[r].bridge = ask[r].bridge
      BY <1>3, AnswerGives
    <2>2. CASE r = q
      BY <1>3, <2>1, <2>2
    <2>3. CASE r # q
      BY <1>1, <2>1, <2>3 DEF TypeOK
    <2> QED
      BY <2>2, <2>3
  <1>4. ASSUME NEW b \in Bridges, (\E c \in Clerks : Start(b, c)) \/ Expire(b) PROVE Goal
    BY <1>1, <1>4 DEF Start, Expire
  <1>5. ASSUME NEW r \in Requests,
               \/ \E m \in Identities : \/ \E c \in Clerks \cup {None} : AskToLink(r, c, m)
                                        \/ \E x \in Bridges : ReadBridge(r, x, m)
               \/ \E c \in Clerks : Restore(r, c)
               \/ \E k \in Requests, revoke \in BOOLEAN : Authenticate(r, k, revoke)
        PROVE  UNCHANGED answer /\ pc[r] = "idle" /\ \A x \in Requests \ {r} : ask'[x] = ask[x]
    BY <1>5 DEF AskToLink, ReadBridge, Restore, Authenticate, TypeOK
  <1>6. ASSUME NEW r \in Requests,
               \/ BeginCompletion(r) \/ Link(r) \/ RevokeActiveKeys(r) \/ RevokeAPIKey(r) \/ UpsertWebexSession(r)
        PROVE  Goal
    BY <1>1, <1>6 DEF BeginCompletion, Link, RevokeActiveKeys, RevokeAPIKey, UpsertWebexSession
  <1>7. ASSUME NEW r \in Requests, CreateAPIKey(r) PROVE Goal
    BY <1>1, <1>3, <1>7 DEF CreateAPIKey
  <1>8. ASSUME NEW r \in Requests, Complete(r) PROVE Goal
    <2>1. CASE Settle(r)
      BY <1>3, <1>8, <2>1 DEF Complete
    <2>2. CASE ~Settle(r)
      <3>1. Answer(r, "error")
        BY <1>8, <2>2 DEF Complete
      <3> QED
        BY <1>3, <3>1
    <2> QED
      BY <2>1, <2>2
  <1>9. ASSUME NEW r \in Requests, Fail(r) PROVE Goal
    <2>1. Answer(r, "error")
      BY <1>9 DEF Fail
    <2> QED
      BY <1>3, <2>1
  <1>10. CASE UNCHANGED vars
    BY <1>1, <1>10 DEF vars
  <1>11. ASSUME NEW r \in Requests,
               \/ \E m \in Identities : \/ \E c \in Clerks \cup {None} : AskToLink(r, c, m)
                                        \/ \E x \in Bridges : ReadBridge(r, x, m)
               \/ \E c \in Clerks : Restore(r, c)
               \/ \E k \in Requests, revoke \in BOOLEAN : Authenticate(r, k, revoke)
        PROVE  Goal
    <2>1. UNCHANGED answer /\ pc[r] = "idle" /\ \A x \in Requests \ {r} : ask'[x] = ask[x]
      BY <1>5, <1>11
    <2> QED
      BY <1>2, <2>1
  <1>12. CASE Next
    BY <1>4, <1>6, <1>7, <1>8, <1>9, <1>11, <1>12 DEF Next
  <1> QED
    BY <1>10, <1>12

LEMMA ConnectedStep ==
  ASSUME IInv, [Next]_vars
  PROVE  ConnectedReachesTheClient'
  <1> USE DEF IInv
  <1> SUFFICES ASSUME NEW q \in Requests, ask'[q].kind = "complete", answer'[q] = "connected"
               PROVE  bridges'[ask'[q].bridge].user # None /\ bridges'[ask'[q].bridge].key = q
    BY DEF ConnectedReachesTheClient, BridgeStatus
  <1>1. PICK b \in Bridges : b = ask[q].bridge /\ ask'[q].bridge = b /\ bridges[b] # None
    BY NewlyConnected DEF Placed, PlacedAt
  <1>2. CASE answer[q] = "connected"
    <2>1. BridgeStatus(b) = "connected" /\ bridges[b].key = q
      BY <1>1, <1>2, NewlyConnected DEF ConnectedReachesTheClient
    <2>2. bridges'[b] = bridges[b] /\ bridges[b].user # None
      BY <1>1, <2>1, BridgeStep DEF BridgeStatus
    <2> QED
      BY <1>1, <2>1, <2>2
  <1>3. CASE Complete(q) /\ Settle(q)
    <2>1. PICK old \in Bridge : old = bridges[b]
      BY <1>1, BridgeIs
    <2>2. PICK new : new = [old EXCEPT !.user = found[q], !.key = q]
      OBVIOUS
    <2>3. new.user = found[q] /\ new.key = q /\ found[q] # None
      BY <1>3, <2>1, <2>2, NoneIsNothing DEF Bridge, Complete, Placed, PlacedAt, Rows
    <2>4. bridges' = [bridges EXCEPT ![b] = new]
      BY <1>1, <1>3, <2>1, <2>2 DEF Settle, TypeOK
    <2>5. bridges'[b] = new
      BY <2>4 DEF TypeOK
    <2> QED
      BY <1>1, <2>3, <2>5
  <1> QED
    BY <1>2, <1>3, NewlyConnected

-----------------------------------------------------------------------------
LEMMA Invariance == Spec => []IInv
  <1>1. IInv /\ [Next]_vars => IInv'
    BY TypeStep, PlacedStep, RowsStep, ConnectedStep DEF IInv
  <1> QED
    BY InitHolds, <1>1, PTL DEF Spec

(* MoodleCredentialsForUserID (oauth.go): however links overlap, a user is *)
(* served with the session of the Moodle account the user's row names,     *)
(* unless one stored or renewed during the link that named it is newer.    *)
THEOREM ServedWithOwnSession == Spec => []SessionMatchesUser
  <1>1. IInv => SessionMatchesUser
    BY ServedSession DEF IInv
  <1> QED
    BY Invariance, <1>1, PTL

(* CompleteMobileBridgeRequest (mobile_bridge.go): a phone that is told    *)
(* "connected" has given its key to the client that started the bridge.    *)
THEOREM ConnectedIsTrue == Spec => []ConnectedReachesTheClient
  <1>1. IInv => ConnectedReachesTheClient
    BY DEF IInv
  <1> QED
    BY Invariance, <1>1, PTL

(* CompleteMobileBridgeRequest: of all who complete a bridge one settles   *)
(* it, while it is pending, with a key of the user it names.               *)
THEOREM BridgesSettleOnce == Spec => BridgeSettlesOnce
  <1>1. ASSUME IInv, [Next]_vars, NEW b \in Bridges, bridges[b] # None
        PROVE  /\ BridgeStatus(b) # "pending" => bridges'[b] = bridges[b]
               /\ bridges'[b].user # bridges[b].user => keys'[bridges'[b].key].user = bridges'[b].user
    <2>1. CASE \E r \in Requests : /\ Complete(r) /\ BridgeStatus(b) = "pending" /\ b = ask[r].bridge
                                   /\ bridges'[b].user = found[r] /\ bridges'[b].key = r
      BY <1>1, <2>1 DEF IInv, Placed, PlacedAt, Complete
    <2> QED
      BY <1>1, <2>1, BridgeStep
  <1>2. IInv /\ [Next]_vars => [\A b \in Bridges : bridges[b] # None =>
            /\ BridgeStatus(b) # "pending" => bridges'[b] = bridges[b]
            /\ bridges'[b].user # bridges[b].user => keys'[bridges'[b].key].user = bridges'[b].user]_vars
    BY <1>1
  <1> QED
    BY Invariance, <1>2, PTL DEF Spec, BridgeSettlesOnce

(* UpsertMoodleAccount (postgres.go): a row goes to another Moodle account *)
(* only by a link of its own Clerk user, as the link or its overlap saw.   *)
THEOREM RowsStayWithTheirClerk == Spec => RowsMoveWithTheirClerk
  <1>1. ASSUME IInv, [Next]_vars, NEW u \in Rows, users'[u].identity # users[u].identity
        PROVE  LET r == users'[u].by
               IN  ask[r].clerk # None /\ (ask[r].clerk = users[u].clerk \/ u \in since[r])
    <2>1. PICK r \in Requests : Link(r)
      BY <1>1 DEF Next, vars, tables, Start, Expire, AskToLink, ReadBridge, Restore, Authenticate, BeginCompletion,
           RevokeActiveKeys, CreateAPIKey, Complete, Fail, RevokeAPIKey, UpsertWebexSession
    <2>2. PICK v \in Requests, s \in Sites : Links(r, v, s)
      BY <1>1, <2>1, LinkGives
    <2>3. u = v
      BY <1>1, <2>2 DEF Links, Rows
    <2>4. users'[u].by = r /\ users'[u].identity = ask[r].identity /\ pc[r] = "begun" /\ u = Target(r)
      BY <2>2, <2>3 DEF Links
    <2>5. found[r] # None /\ u = found[r]
      BY <1>1, <2>4, TargetIs DEF Rows
    <2> QED
      BY <1>1, <2>4, <2>5 DEF IInv, FoundIsOwn
  <1>2. IInv /\ [Next]_vars => [\A u \in Rows : users'[u].identity # users[u].identity =>
            LET r == users'[u].by IN
            /\ ask[r].clerk # None
            /\ ask[r].clerk = users[u].clerk \/ u \in since[r]]_vars
    BY <1>1
  <1> QED
    BY Invariance, <1>2, PTL DEF Spec, RowsMoveWithTheirClerk

-----------------------------------------------------------------------------
(* The recordings, which are asked of Webex for a linked account.          *)

CONSTANTS Credentials, Meetings, Recordings, MaxAge, MaxSteps, MaxPages

VARIABLES account, cache, alive, worked, opened, mine, login, page, step, meetings, items, got

WX == INSTANCE Webex

(* None is none of the values.                                             *)
WebexNoneIsNew == None \notin WX!Sessions \cup Credentials \cup [listing : WX!Listings, at : Nat]

Opening == {"idle", "cache", "open", "refused", "login", "flow", "store"}
Listing == {"meetings", "next", "recordings", "streams"}

WebexTypeOK ==
    /\ account \in WX!Accounts /\ cache \in [listing : WX!Listings, at : Nat] \cup {None} /\ clock \in Nat
    /\ alive \in SUBSET WX!Sessions /\ worked \in SUBSET Credentials /\ opened \in [Requests -> Nat]
    /\ ask \in [Requests -> WX!Asks] /\ pc \in [Requests -> Opening \cup Listing \cup {"save", "done"}]
    /\ answer \in [Requests -> {"none", "ok", "refused", "error"}]
    /\ mine \in [Requests -> WX!Accounts] /\ login \in [Requests -> {"no", "now", "done"}]
    /\ page \in [Requests -> WX!Pages] /\ step \in [Requests -> Nat]
    /\ meetings \in [Requests -> SUBSET Meetings] /\ items \in [Requests -> SUBSET Recordings]
    /\ got \in [Requests -> WX!Listings]

(* How far a request is with its session.                                  *)
Signed(r) ==
    /\ opened[r] <= 1 /\ (login[r] = "no" \/ pc[r] = "login" => opened[r] = 0)
    /\ pc[r] \in {"login", "store"} => login[r] = "now" /\ mine[r].creds \in Credentials
    /\ login[r] = "now" => pc[r] \in {"login", "flow", "store", "done"}
    /\ pc[r] \in {"idle", "cache"} => login[r] = "no"
    /\ ask[r] = "signin" => login[r] = "now" \/ (pc[r] = "done" /\ login[r] = "done")
    /\ pc[r] \in {"flow", "store"} /\ login[r] = "now" => mine[r].session # None /\ mine[r].creds \in worked
    /\ mine[r].session # None => mine[r].session[1] \in worked
    /\ pc[r] # "done" => answer[r] = "none"
    /\ answer[r] = "refused" => mine[r].creds = None \/ login[r] # "no"

(* How far it is with its listing.                                         *)
Listed(r) ==
    /\ pc[r] \in Opening => meetings[r] = {} /\ items[r] = {} /\ got[r] = WX!Empty
    /\ pc[r] \in Listing => /\ got[r].found = got[r].done \cup meetings[r]
                            /\ got[r].offered = got[r].listed \cup got[r].dropped \cup items[r]
    /\ pc[r] \in {"meetings", "next"} => items[r] = {}
    /\ pc[r] = "save" \/ answer[r] = "ok" => WX!Whole(got[r])

Stored == WX!StoredHaveWorked /\ (cache # None => WX!Whole(cache.listing))

WebexInv == WebexTypeOK /\ Stored /\ \A r \in Requests : Signed(r) /\ Listed(r)

(* What is added to a listing.                                             *)
LEMMA AddsFound ==
    ASSUME NEW g \in WX!Listings, NEW some \in SUBSET Meetings
    PROVE  /\ WX!Found(g, some) \in WX!Listings
           /\ WX!Found(g, some).done = g.done /\ WX!Found(g, some).offered = g.offered /\ WX!Found(g, some).listed = g.listed /\ WX!Found(g, some).dropped = g.dropped
           /\ WX!Found(g, some).found = g.found \cup some
  BY DEF WX!Listings, WX!Found

LEMMA AddsDone ==
    ASSUME NEW g \in WX!Listings, NEW m \in Meetings
    PROVE  /\ WX!LookedInto(g, m) \in WX!Listings
           /\ WX!LookedInto(g, m).found = g.found /\ WX!LookedInto(g, m).offered = g.offered /\ WX!LookedInto(g, m).listed = g.listed /\ WX!LookedInto(g, m).dropped = g.dropped
           /\ WX!LookedInto(g, m).done = g.done \cup {m}
  BY DEF WX!Listings, WX!LookedInto

LEMMA AddsOffered ==
    ASSUME NEW g \in WX!Listings, NEW some \in SUBSET Recordings
    PROVE  /\ WX!Offered(g, some) \in WX!Listings
           /\ WX!Offered(g, some).found = g.found /\ WX!Offered(g, some).done = g.done /\ WX!Offered(g, some).listed = g.listed /\ WX!Offered(g, some).dropped = g.dropped
           /\ WX!Offered(g, some).offered = g.offered \cup some
  BY DEF WX!Listings, WX!Offered

LEMMA AddsLook ==
    ASSUME NEW g \in WX!Listings, NEW i \in Recordings, NEW b \in BOOLEAN
    PROVE  /\ WX!LookedAt(g, i, b) \in WX!Listings
           /\ WX!LookedAt(g, i, b).found = g.found /\ WX!LookedAt(g, i, b).done = g.done /\ WX!LookedAt(g, i, b).offered = g.offered
           /\ WX!LookedAt(g, i, b).listed \cup WX!LookedAt(g, i, b).dropped = g.listed \cup g.dropped \cup {i}
  BY DEF WX!Listings, WX!LookedAt

(* A step of a request leaves what the others have alone.                  *)
LEMMA WebexOthers ==
    ASSUME WebexTypeOK, NEW r \in Requests, NEW q \in Requests, q # r, WX!Step(r)
    PROVE  /\ ask'[q] = ask[q] /\ pc'[q] = pc[q] /\ answer'[q] = answer[q] /\ mine'[q] = mine[q] /\ login'[q] = login[q]
           /\ opened'[q] = opened[q] /\ meetings'[q] = meetings[q] /\ items'[q] = items[q] /\ got'[q] = got[q]
           /\ worked \subseteq worked'
  <1> DEFINE WebexSame == /\ ask'[q] = ask[q] /\ pc'[q] = pc[q] /\ answer'[q] = answer[q] /\ mine'[q] = mine[q] /\ login'[q] = login[q]
                     /\ opened'[q] = opened[q] /\ meetings'[q] = meetings[q] /\ items'[q] = items[q] /\ got'[q] = got[q]
                     /\ worked \subseteq worked'
  <1> SUFFICES WebexSame
    OBVIOUS
  <1>1. ASSUME NEW b \in BOOLEAN, WX!AskToList(r, b) PROVE WebexSame
    BY <1>1 DEF WX!AskToList, WebexTypeOK, WX!Goes, WX!Answers, WX!own, WX!walk, WX!listing, WX!web
  <1>2. ASSUME NEW b \in BOOLEAN, WX!Store(r, b) PROVE WebexSame
    BY <1>2 DEF WX!Store, WebexTypeOK, WX!Goes, WX!Answers, WX!own, WX!walk, WX!listing, WX!web
  <1>3. ASSUME NEW b \in BOOLEAN, WX!Save(r, b) PROVE WebexSame
    BY <1>3 DEF WX!Save, WebexTypeOK, WX!Goes, WX!Answers, WX!own, WX!walk, WX!listing, WX!web
  <1>4. ASSUME NEW k \in Credentials, WX!AskToSignIn(r, k) PROVE WebexSame
    BY <1>4 DEF WX!AskToSignIn, WebexTypeOK, WX!Goes, WX!Answers, WX!own, WX!walk, WX!listing, WX!web
  <1>5. CASE WX!ReadCache(r)
    BY <1>5 DEF WX!ReadCache, WebexTypeOK, WX!Goes, WX!Answers, WX!own, WX!walk, WX!listing, WX!web
  <1>6. CASE WX!Fail(r)
    BY <1>6 DEF WX!Fail, WebexTypeOK, WX!Goes, WX!Answers, WX!own, WX!walk, WX!listing, WX!web
  <1>7. CASE WX!NoActivity(r)
    BY <1>7 DEF WX!NoActivity, WebexTypeOK, WX!Goes, WX!Answers, WX!own, WX!walk, WX!listing, WX!web
  <1>8. CASE WX!GiveUp(r)
    BY <1>8 DEF WX!GiveUp, WebexTypeOK, WX!Goes, WX!Answers, WX!own, WX!walk, WX!listing, WX!web
  <1>9. CASE WX!EndFlow(r)
    BY <1>9 DEF WX!EndFlow, WebexTypeOK, WX!Goes, WX!Answers, WX!own, WX!walk, WX!listing, WX!web
  <1>10. CASE WX!NextPart(r)
    BY <1>10 DEF WX!NextPart, WebexTypeOK, WX!Goes, WX!Answers, WX!own, WX!walk, WX!listing, WX!web
  <1>11. ASSUME NEW p \in WX!Pages, WX!Open(r, p) PROVE WebexSame
    BY <1>11 DEF WX!Open, WebexTypeOK, WX!Goes, WX!Answers, WX!own, WX!walk, WX!listing, WX!web
  <1>12. ASSUME NEW p \in WX!Pages, WX!Renew(r, p) PROVE WebexSame
    BY <1>12 DEF WX!Renew, WebexTypeOK, WX!Goes, WX!Answers, WX!own, WX!walk, WX!listing, WX!web
  <1>13. ASSUME NEW p \in WX!Pages, WX!Follow(r, p) PROVE WebexSame
    BY <1>13 DEF WX!Follow, WebexTypeOK, WX!Goes, WX!Answers, WX!own, WX!walk, WX!listing, WX!web
  <1>14. ASSUME NEW p \in WX!Pages, NEW b \in BOOLEAN, WX!LogIn(r, b, p) PROVE WebexSame
    BY <1>14 DEF WX!LogIn, WebexTypeOK, WX!Goes, WX!Answers, WX!own, WX!walk, WX!listing, WX!web
  <1>15. ASSUME NEW some \in SUBSET Meetings, NEW b \in BOOLEAN, WX!FetchMeetings(r, some, b) PROVE WebexSame
    BY <1>15 DEF WX!FetchMeetings, WebexTypeOK, WX!Goes, WX!Answers, WX!own, WX!walk, WX!listing, WX!web
  <1>16. ASSUME NEW m \in Meetings, NEW b \in BOOLEAN, WX!NextMeeting(r, m, b) PROVE WebexSame
    BY <1>16 DEF WX!NextMeeting, WebexTypeOK, WX!Goes, WX!Answers, WX!own, WX!walk, WX!listing, WX!web
  <1>17. ASSUME NEW some \in SUBSET Recordings, NEW b \in BOOLEAN, WX!FetchRecordings(r, some, b) PROVE WebexSame
    BY <1>17 DEF WX!FetchRecordings, WebexTypeOK, WX!Goes, WX!Answers, WX!own, WX!walk, WX!listing, WX!web
  <1>18. ASSUME NEW i \in Recordings, NEW b \in BOOLEAN, WX!FindStream(r, i, b) PROVE WebexSame
    BY <1>18 DEF WX!FindStream, WebexTypeOK, WX!Goes, WX!Answers, WX!own, WX!walk, WX!listing, WX!web
  <1> QED
    BY <1>1, <1>2, <1>3, <1>4, <1>5, <1>6, <1>7, <1>8, <1>9, <1>10, <1>11, <1>12, <1>13, <1>14, <1>15, <1>16, <1>17, <1>18 DEF WX!Step

(* The request itself keeps its bounds.                                    *)
LEMMA SignedStep ==
    ASSUME WebexNoneIsNew, WebexTypeOK, NEW r \in Requests, Signed(r), WX!StoredHaveWorked, WX!Step(r)
    PROVE  Signed(r)'
  <1> USE WebexNoneIsNew DEF WebexNoneIsNew, WebexTypeOK, Signed, WX!Goes, WX!Answers, WX!own, WX!walk, WX!listing, WX!web
  <1>1. ASSUME NEW b \in BOOLEAN, WX!AskToList(r, b) PROVE Signed(r)'
    BY <1>1 DEF WX!AskToList, WX!Accounts, WX!StoredHaveWorked, WX!Sessions
  <1>2. ASSUME NEW b \in BOOLEAN, WX!Store(r, b) PROVE Signed(r)'
    BY <1>2 DEF WX!Store
  <1>3. ASSUME NEW b \in BOOLEAN, WX!Save(r, b) PROVE Signed(r)'
    BY <1>3 DEF WX!Save
  <1>4. ASSUME NEW k \in Credentials, WX!AskToSignIn(r, k) PROVE Signed(r)'
    BY <1>4 DEF WX!AskToSignIn, WX!Accounts
  <1>5. CASE WX!ReadCache(r)
    BY <1>5 DEF WX!ReadCache
  <1>6. CASE WX!Fail(r)
    BY <1>6 DEF WX!Fail
  <1>7. CASE WX!NoActivity(r)
    BY <1>7 DEF WX!NoActivity
  <1>8. CASE WX!GiveUp(r)
    BY <1>8 DEF WX!GiveUp
  <1>9. CASE WX!EndFlow(r)
    <2>1. login' = login /\ opened' = opened /\ ask' = ask /\ mine' = mine /\ worked' = worked /\ answer' = answer /\ pc[r] = "flow"
      BY <1>9 DEF WX!EndFlow
    <2>2. pc'[r] \in {"refused", "store", "meetings"} /\ (pc'[r] = "store" <=> login[r] = "now")
      BY <1>9 DEF WX!EndFlow
    <2>3. pc'[r] = "store" => mine[r].creds \in Credentials
      BY <2>1, <2>2
    <2> QED
      BY <2>1, <2>2, <2>3
  <1>10. CASE WX!NextPart(r)
    BY <1>10 DEF WX!NextPart
  <1>11. ASSUME NEW p \in WX!Pages, WX!Open(r, p) PROVE Signed(r)'
    BY <1>11 DEF WX!Open
  <1>12. ASSUME NEW p \in WX!Pages, WX!Renew(r, p) PROVE Signed(r)'
    BY <1>12 DEF WX!Renew, WX!Accounts
  <1>13. ASSUME NEW p \in WX!Pages, WX!Follow(r, p) PROVE Signed(r)'
    BY <1>13 DEF WX!Follow
  <1>14. ASSUME NEW p \in WX!Pages, NEW b \in BOOLEAN, WX!LogIn(r, b, p) PROVE Signed(r)'
    BY <1>14 DEF WX!LogIn, WX!NewSession, WX!Accounts, WX!Sessions
  <1>15. ASSUME NEW some \in SUBSET Meetings, NEW b \in BOOLEAN, WX!FetchMeetings(r, some, b) PROVE Signed(r)'
    BY <1>15 DEF WX!FetchMeetings
  <1>16. ASSUME NEW m \in Meetings, NEW b \in BOOLEAN, WX!NextMeeting(r, m, b) PROVE Signed(r)'
    BY <1>16 DEF WX!NextMeeting
  <1>17. ASSUME NEW some \in SUBSET Recordings, NEW b \in BOOLEAN, WX!FetchRecordings(r, some, b) PROVE Signed(r)'
    BY <1>17 DEF WX!FetchRecordings
  <1>18. ASSUME NEW i \in Recordings, NEW b \in BOOLEAN, WX!FindStream(r, i, b) PROVE Signed(r)'
    BY <1>18 DEF WX!FindStream
  <1> QED
    BY <1>1, <1>2, <1>3, <1>4, <1>5, <1>6, <1>7, <1>8, <1>9, <1>10, <1>11, <1>12, <1>13, <1>14, <1>15, <1>16, <1>17, <1>18 DEF WX!Step

LEMMA ListedStep ==
    ASSUME WebexNoneIsNew, WebexTypeOK, NEW r \in Requests, Signed(r), Listed(r), Stored, WX!Step(r)
    PROVE  Listed(r)'
  <1> USE DEF WebexTypeOK, Listed, Opening, Listing, WX!Goes, WX!Answers, WX!own, WX!walk, WX!listing, WX!web
  <1>0. /\ pc[r] # "done" => answer[r] = "none"
        /\ WX!Whole(WX!Empty)
    BY DEF Signed, WX!Whole, WX!Empty
  <1>1. ASSUME NEW b \in BOOLEAN, WX!AskToList(r, b) PROVE Listed(r)'
    BY <1>1, <1>0 DEF WX!AskToList
  <1>2. ASSUME NEW b \in BOOLEAN, WX!Store(r, b) PROVE Listed(r)'
    BY <1>2, <1>0 DEF WX!Store
  <1>3. ASSUME NEW b \in BOOLEAN, WX!Save(r, b) PROVE Listed(r)'
    BY <1>3, <1>0 DEF WX!Save
  <1>4. ASSUME NEW k \in Credentials, WX!AskToSignIn(r, k) PROVE Listed(r)'
    BY <1>4, <1>0 DEF WX!AskToSignIn
  <1>5. CASE WX!ReadCache(r)
    BY <1>5, <1>0 DEF WX!ReadCache, Stored, WX!Fresh
  <1>6. CASE WX!Fail(r)
    BY <1>6, <1>0 DEF WX!Fail
  <1>7. CASE WX!NoActivity(r)
    BY <1>7, <1>0 DEF WX!NoActivity
  <1>8. CASE WX!GiveUp(r)
    BY <1>8, <1>0 DEF WX!GiveUp
  <1>9. CASE WX!EndFlow(r)
    BY <1>9, <1>0 DEF WX!EndFlow, WX!Empty
  <1>10. CASE WX!NextPart(r)
    BY <1>10, <1>0 DEF WX!NextPart, WX!Whole, WX!Listings
  <1>11. ASSUME NEW p \in WX!Pages, WX!Open(r, p) PROVE Listed(r)'
    BY <1>11, <1>0 DEF WX!Open
  <1>12. ASSUME NEW p \in WX!Pages, WX!Renew(r, p) PROVE Listed(r)'
    BY <1>12, <1>0 DEF WX!Renew
  <1>13. ASSUME NEW p \in WX!Pages, WX!Follow(r, p) PROVE Listed(r)'
    BY <1>13, <1>0 DEF WX!Follow
  <1>14. ASSUME NEW p \in WX!Pages, NEW b \in BOOLEAN, WX!LogIn(r, b, p) PROVE Listed(r)'
    BY <1>14, <1>0 DEF WX!LogIn
  <1>15. ASSUME NEW some \in SUBSET Meetings, NEW b \in BOOLEAN, WX!FetchMeetings(r, some, b) PROVE Listed(r)'
    <2>1. got[r] \in WX!Listings
      BY DEF WebexTypeOK
    <2>2. got'[r] = WX!Found(got[r], some)
      BY <1>15 DEF WX!FetchMeetings
    <2> QED
      BY <1>15, <1>0, <2>1, <2>2, AddsFound DEF WX!FetchMeetings
  <1>16. ASSUME NEW m \in Meetings, NEW b \in BOOLEAN, WX!NextMeeting(r, m, b) PROVE Listed(r)'
    <2>1. got[r] \in WX!Listings /\ m \in meetings[r]
      BY <1>16 DEF WebexTypeOK, WX!NextMeeting
    <2>2. got'[r] = WX!LookedInto(got[r], m) /\ meetings'[r] = meetings[r] \ {m} /\ items' = items /\ answer' = answer
      BY <1>16 DEF WX!NextMeeting
    <2>3. got'[r].found = got'[r].done \cup meetings'[r]
      <3>1. got[r].found = got[r].done \cup meetings[r]
        BY <1>16 DEF WX!NextMeeting
      <3>2. got'[r].found = got[r].found /\ got'[r].done = got[r].done \cup {m}
        BY <2>1, <2>2, AddsDone
      <3> QED
        BY <3>1, <3>2, <2>1, <2>2
    <2>4. got'[r].offered = got'[r].listed \cup got'[r].dropped \cup items'[r] /\ items'[r] = {}
      BY <1>16, <2>1, <2>2, AddsDone DEF WX!NextMeeting
    <2>5. pc'[r] \in {"recordings", "next"} /\ answer'[r] = "none"
      BY <1>16, <1>0, <2>2 DEF WX!NextMeeting
    <2> QED
      BY <2>3, <2>4, <2>5
  <1>17. ASSUME NEW some \in SUBSET Recordings, NEW b \in BOOLEAN, WX!FetchRecordings(r, some, b) PROVE Listed(r)'
    <2>1. got[r] \in WX!Listings
      BY DEF WebexTypeOK
    <2>2. got'[r] = WX!Offered(got[r], some)
      BY <1>17 DEF WX!FetchRecordings
    <2> QED
      BY <1>17, <1>0, <2>1, <2>2, AddsOffered DEF WX!FetchRecordings
  <1>18. ASSUME NEW i \in Recordings, NEW b \in BOOLEAN, WX!FindStream(r, i, b) PROVE Listed(r)'
    <2>1. got[r] \in WX!Listings
      BY DEF WebexTypeOK
    <2>2. got'[r] = WX!LookedAt(got[r], i, b)
      BY <1>18 DEF WX!FindStream
    <2> QED
      BY <1>18, <1>0, <2>1, <2>2, AddsLook DEF WX!FindStream
  <1> QED
    BY <1>1, <1>2, <1>3, <1>4, <1>5, <1>6, <1>7, <1>8, <1>9, <1>10, <1>11, <1>12, <1>13, <1>14, <1>15, <1>16, <1>17, <1>18 DEF WX!Step

LEMMA StoredStep ==
    ASSUME WebexNoneIsNew, WebexTypeOK, NEW r \in Requests, Signed(r), Listed(r), Stored, WX!Step(r)
    PROVE  Stored'
  <1> USE DEF Stored, WX!StoredHaveWorked, WebexTypeOK, WX!Goes, WX!Answers, WX!own, WX!walk, WX!listing, WX!web
  <1>1. ASSUME NEW b \in BOOLEAN, WX!AskToList(r, b) PROVE Stored'
    BY <1>1 DEF WX!AskToList
  <1>2. ASSUME NEW b \in BOOLEAN, WX!Store(r, b) PROVE Stored'
    BY <1>2 DEF WX!Store, Signed, WX!Accounts
  <1>3. ASSUME NEW b \in BOOLEAN, WX!Save(r, b) PROVE Stored'
    BY <1>3 DEF WX!Save, Listed
  <1>4. ASSUME NEW k \in Credentials, WX!AskToSignIn(r, k) PROVE Stored'
    BY <1>4 DEF WX!AskToSignIn
  <1>5. CASE WX!ReadCache(r)
    BY <1>5 DEF WX!ReadCache
  <1>6. CASE WX!Fail(r)
    BY <1>6 DEF WX!Fail
  <1>7. CASE WX!NoActivity(r)
    BY <1>7 DEF WX!NoActivity
  <1>8. CASE WX!GiveUp(r)
    BY <1>8 DEF WX!GiveUp
  <1>9. CASE WX!EndFlow(r)
    BY <1>9 DEF WX!EndFlow
  <1>10. CASE WX!NextPart(r)
    BY <1>10 DEF WX!NextPart
  <1>11. ASSUME NEW p \in WX!Pages, WX!Open(r, p) PROVE Stored'
    BY <1>11 DEF WX!Open
  <1>12. ASSUME NEW p \in WX!Pages, WX!Renew(r, p) PROVE Stored'
    BY <1>12 DEF WX!Renew
  <1>13. ASSUME NEW p \in WX!Pages, WX!Follow(r, p) PROVE Stored'
    BY <1>13 DEF WX!Follow
  <1>14. ASSUME NEW p \in WX!Pages, NEW b \in BOOLEAN, WX!LogIn(r, b, p) PROVE Stored'
    BY <1>14 DEF WX!LogIn, WX!Accounts
  <1>15. ASSUME NEW some \in SUBSET Meetings, NEW b \in BOOLEAN, WX!FetchMeetings(r, some, b) PROVE Stored'
    BY <1>15 DEF WX!FetchMeetings
  <1>16. ASSUME NEW m \in Meetings, NEW b \in BOOLEAN, WX!NextMeeting(r, m, b) PROVE Stored'
    BY <1>16 DEF WX!NextMeeting
  <1>17. ASSUME NEW some \in SUBSET Recordings, NEW b \in BOOLEAN, WX!FetchRecordings(r, some, b) PROVE Stored'
    BY <1>17 DEF WX!FetchRecordings
  <1>18. ASSUME NEW i \in Recordings, NEW b \in BOOLEAN, WX!FindStream(r, i, b) PROVE Stored'
    BY <1>18 DEF WX!FindStream
  <1> QED
    BY <1>1, <1>2, <1>3, <1>4, <1>5, <1>6, <1>7, <1>8, <1>9, <1>10, <1>11, <1>12, <1>13, <1>14, <1>15, <1>16, <1>17, <1>18 DEF WX!Step

LEMMA WebexTypeStep ==
    ASSUME WebexNoneIsNew, WebexTypeOK, NEW r \in Requests, Signed(r), Stored, WX!Step(r)
    PROVE  WebexTypeOK'
  <1> USE DEF WebexTypeOK, Opening, Listing, WX!Goes, WX!Answers, WX!own, WX!walk, WX!listing, WX!web
  <1>1. ASSUME NEW b \in BOOLEAN, WX!AskToList(r, b) PROVE WebexTypeOK'
    BY <1>1 DEF WX!AskToList, WX!Asks
  <1>2. ASSUME NEW b \in BOOLEAN, WX!Store(r, b) PROVE WebexTypeOK'
    <2>1. mine[r] \in WX!Accounts /\ [session |-> mine[r].session, creds |-> account.creds] \in WX!Accounts
      BY DEF WX!Accounts
    <2>2. account' \in WX!Accounts
      BY <1>2, <2>1 DEF WX!Store
    <2> QED
      BY <1>2, <2>2 DEF WX!Store
  <1>3. ASSUME NEW b \in BOOLEAN, WX!Save(r, b) PROVE WebexTypeOK'
    BY <1>3 DEF WX!Save, WX!Listings
  <1>4. ASSUME NEW k \in Credentials, WX!AskToSignIn(r, k) PROVE WebexTypeOK'
    BY <1>4 DEF WX!AskToSignIn, WX!Asks, WX!Accounts
  <1>5. CASE WX!ReadCache(r)
    BY <1>5 DEF WX!ReadCache, WX!Fresh
  <1>6. CASE WX!Fail(r)
    BY <1>6 DEF WX!Fail
  <1>7. CASE WX!NoActivity(r)
    BY <1>7 DEF WX!NoActivity, WX!Empty, WX!Listings
  <1>8. CASE WX!GiveUp(r)
    BY <1>8 DEF WX!GiveUp
  <1>9. CASE WX!EndFlow(r)
    BY <1>9 DEF WX!EndFlow, WX!Empty, WX!Listings
  <1>10. CASE WX!NextPart(r)
    BY <1>10 DEF WX!NextPart
  <1>11. ASSUME NEW p \in WX!Pages, WX!Open(r, p) PROVE WebexTypeOK'
    BY <1>11 DEF WX!Open
  <1>12. ASSUME NEW p \in WX!Pages, WX!Renew(r, p) PROVE WebexTypeOK'
    BY <1>12 DEF WX!Renew
  <1>13. ASSUME NEW p \in WX!Pages, WX!Follow(r, p) PROVE WebexTypeOK'
    BY <1>13 DEF WX!Follow
  <1>14. ASSUME NEW p \in WX!Pages, NEW b \in BOOLEAN, WX!LogIn(r, b, p) PROVE WebexTypeOK'
    BY <1>14 DEF WX!LogIn, WX!NewSession, WX!Accounts, WX!Sessions, Signed
  <1>15. ASSUME NEW some \in SUBSET Meetings, NEW b \in BOOLEAN, WX!FetchMeetings(r, some, b) PROVE WebexTypeOK'
    BY <1>15, AddsFound DEF WX!FetchMeetings
  <1>16. ASSUME NEW m \in Meetings, NEW b \in BOOLEAN, WX!NextMeeting(r, m, b) PROVE WebexTypeOK'
    BY <1>16, AddsDone DEF WX!NextMeeting
  <1>17. ASSUME NEW some \in SUBSET Recordings, NEW b \in BOOLEAN, WX!FetchRecordings(r, some, b) PROVE WebexTypeOK'
    BY <1>17, AddsOffered DEF WX!FetchRecordings
  <1>18. ASSUME NEW i \in Recordings, NEW b \in BOOLEAN, WX!FindStream(r, i, b) PROVE WebexTypeOK'
    BY <1>18, AddsLook DEF WX!FindStream
  <1> QED
    BY <1>1, <1>2, <1>3, <1>4, <1>5, <1>6, <1>7, <1>8, <1>9, <1>10, <1>11, <1>12, <1>13, <1>14, <1>15, <1>16, <1>17, <1>18 DEF WX!Step

LEMMA WebexInvariance == ASSUME WebexNoneIsNew PROVE WX!Spec => []WebexInv
  <1>1. WX!Init => WebexInv
    <2> SUFFICES ASSUME WX!Init PROVE WebexInv
      OBVIOUS
    <2>1. WebexTypeOK
      BY DEF WX!Init, WebexTypeOK, WX!Accounts, WX!Asks, WX!Pages, WX!Listings, WX!Empty, Opening
    <2>2. Stored
      BY WebexNoneIsNew DEF WX!Init, Stored, WX!StoredHaveWorked
    <2>3. ASSUME NEW r \in Requests PROVE Signed(r) /\ Listed(r)
      BY DEF WX!Init, Signed, Listed, Opening, Listing
    <2> QED
      BY <2>1, <2>2, <2>3 DEF WebexInv
  <1>2. ASSUME WebexNoneIsNew, WebexInv, [WX!Next]_(WX!vars) PROVE WebexInv'
    <2>1. ASSUME NEW r \in Requests, WX!Step(r) PROVE WebexInv'
      <3>1. WebexTypeOK' /\ Stored' /\ Signed(r)' /\ Listed(r)'
        BY <1>2, <2>1, WebexTypeStep, StoredStep, SignedStep, ListedStep DEF WebexInv, Stored
      <3>2. ASSUME NEW q \in Requests, q # r PROVE Signed(q)' /\ Listed(q)'
        <4>1. /\ ask'[q] = ask[q] /\ pc'[q] = pc[q] /\ answer'[q] = answer[q] /\ mine'[q] = mine[q] /\ login'[q] = login[q]
              /\ opened'[q] = opened[q] /\ meetings'[q] = meetings[q] /\ items'[q] = items[q] /\ got'[q] = got[q]
              /\ worked \subseteq worked'
          BY <1>2, <2>1, <3>2, WebexOthers DEF WebexInv
        <4>2. Signed(q) /\ Listed(q)
          BY <1>2 DEF WebexInv
        <4>3. Signed(q)'
          BY <4>1, <4>2 DEF Signed
        <4>4. Listed(q)'
          BY <4>1, <4>2 DEF Listed
        <4> QED
          BY <4>3, <4>4
      <3> QED
        BY <3>1, <3>2 DEF WebexInv
    <2>2. CASE WX!Tick \/ (\E s \in alive : WX!EndSession(s)) \/ UNCHANGED WX!vars
      <3>1. /\ account' = account /\ cache' = cache /\ worked' = worked /\ opened' = opened /\ ask' = ask /\ pc' = pc
            /\ answer' = answer /\ mine' = mine /\ login' = login /\ page' = page /\ step' = step
            /\ meetings' = meetings /\ items' = items /\ got' = got
            /\ alive' \subseteq alive /\ clock' \in {clock, clock + 1}
        BY <2>2 DEF WX!Tick, WX!EndSession, WX!own, WX!walk, WX!listing, WX!web, WX!vars
      <3>2. WebexTypeOK'
        BY <1>2, <3>1 DEF WebexInv, WebexTypeOK
      <3>3. Stored'
        BY <1>2, <3>1 DEF WebexInv, Stored, WX!StoredHaveWorked
      <3>4. ASSUME NEW r \in Requests PROVE Signed(r)' /\ Listed(r)'
        BY <1>2, <3>1 DEF WebexInv, Signed, Listed
      <3> QED
        BY <3>2, <3>3, <3>4 DEF WebexInv
    <2> QED
      BY <1>2, <2>1, <2>2 DEF WX!Next
  <1> QED
    BY <1>1, <1>2, PTL DEF WX!Spec

(* Only credentials that have worked, and sessions opened with such, are   *)
(* ever stored: the credentials route and the renewal log in first.        *)
THEOREM OnlyWorkingCredentials == ASSUME WebexNoneIsNew PROVE WX!Spec => []WX!StoredHaveWorked
  <1>1. WebexInv => WX!StoredHaveWorked
    BY DEF WebexInv, Stored
  <1> QED
    BY <1>1, WebexInvariance, PTL

(* loadWebexRecordingsWithRenew logs in once: the second refusal is final. *)
THEOREM NoLoginLoop == ASSUME WebexNoneIsNew PROVE WX!Spec => []WX!OneLogin
  <1>1. WebexInv => WX!OneLogin
    BY DEF WebexInv, Signed, WX!OneLogin
  <1> QED
    BY <1>1, WebexInvariance, PTL

(* No part of a listing that failed on the way is served or cached.        *)
THEOREM NoPartialListing == ASSUME WebexNoneIsNew PROVE WX!Spec => []WX!ListingsAreWhole
  <1>1. WebexInv => WX!ListingsAreWhole
    BY DEF WebexInv, Stored, Listed, WX!ListingsAreWhole
  <1> QED
    BY <1>1, WebexInvariance, PTL

(* A request answers that a sign-in is needed only if it had no stored     *)
(* credentials or has tried them.                                          *)
THEOREM SignInForCause == ASSUME WebexNoneIsNew PROVE WX!Spec => []WX!AskedForCause
  <1>1. WebexInv => WX!AskedForCause
    BY DEF WebexInv, Signed, WX!AskedForCause
  <1> QED
    BY <1>1, WebexInvariance, PTL

=============================================================================
