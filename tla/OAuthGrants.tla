----------------------------- MODULE OAuthGrants -----------------------------
(***************************************************************************)
(* api/oauth.go and internal/store/oauth.go: authorization codes and the   *)
(* chains of refresh tokens that grow out of them.  A code is consumed by  *)
(* one conditional update; a refresh looks its token up, revokes it        *)
(* (ignoring errors) and issues new tokens, in statements of their own,    *)
(* so that requests of one client, and its retries, interleave.            *)
(*                                                                         *)
(* Abstracted: registration, redirects, PKCE (a request's proof fits or    *)
(* does not), scopes, resources, and the user, who is fixed by the code.   *)
(***************************************************************************)
EXTENDS Naturals, FiniteSets

CONSTANTS Requests,   \* calls of the token endpoint; a token is named by its call
          Codes, Clients, None

ASSUME NoneIsNoName == None \notin Requests \cup Codes \cup Clients

VARIABLES codes,     \* oauth_authorization_codes
          access, refresh,   \* oauth_access_tokens and oauth_refresh_tokens
          pc,        \* "idle", "revoke", "access", "refresh" or "done"
          token,     \* the refresh token a request was made with
          grant,     \* the client and the code its tokens descend from
          answered,  \* requests that were given their tokens
          extra      \* history: refreshes that did not take their token away

vars == <<codes, access, refresh, pc, token, grant, answered, extra>>

Grant == [client : Clients, code : Codes]
Code == [client : Clients, used : BOOLEAN, expired : BOOLEAN]
Token == [grant : Grant, live : BOOLEAN]   \* neither revoked nor expired

ASSUME NoneIsNoRow == None \notin Grant \cup Code \cup Token

TypeOK ==
    /\ codes \in [Codes -> Code \cup {None}]
    /\ access \in [Requests -> Token \cup {None}]
    /\ refresh \in [Requests -> Token \cup {None}]
    /\ pc \in [Requests -> {"idle", "revoke", "access", "refresh", "done"}]
    /\ token \in [Requests -> Requests \cup {None}]
    /\ grant \in [Requests -> Grant \cup {None}]
    /\ \A r \in Requests : pc[r] \in {"revoke", "access", "refresh"} => grant[r] # None
    /\ \A r \in Requests : refresh[r] # None => access[r] # None
    /\ answered \subseteq Requests /\ extra \subseteq Requests

Init ==
    /\ codes = [c \in Codes |-> None]
    /\ access = [r \in Requests |-> None] /\ refresh = [r \in Requests |-> None]
    /\ pc = [r \in Requests |-> "idle"]
    /\ token = [r \in Requests |-> None] /\ grant = [r \in Requests |-> None]
    /\ answered = {} /\ extra = {}

-----------------------------------------------------------------------------
(* oauthAuthorizeComplete: a code for a registered client of the user.     *)
CreateCode(c, client) ==
    /\ codes[c] = None
    /\ codes' = [codes EXCEPT ![c] = [client |-> client, used |-> FALSE, expired |-> FALSE]]
    /\ UNCHANGED <<access, refresh, pc, token, grant, answered, extra>>

Goto(r, place) == pc' = [pc EXCEPT ![r] = place]

(* Slip for the mutants: only the expiry is looked at.                     *)
ConsumableTwice(c) == codes[c] # None /\ ~codes[c].expired

Consumable(c) == codes[c] # None /\ ~codes[c].used /\ ~codes[c].expired

(* ConsumeOAuthAuthorizationCode: the code is used up first, and then the  *)
(* client, the redirect and the proof are compared with it.  The commit's  *)
(* acknowledgement may be lost.                                            *)
Exchange(r, c, client, proof) ==
    /\ pc[r] = "idle" /\ Consumable(c)
    /\ codes' = [codes EXCEPT ![c].used = TRUE]
    /\ \/ /\ proof /\ client = codes[c].client
          /\ grant' = [grant EXCEPT ![r] = [client |-> client, code |-> c]]
          /\ Goto(r, "access")
       \/ Goto(r, "done") /\ UNCHANGED grant
    /\ UNCHANGED <<access, refresh, token, answered, extra>>

(* oauthRefreshToken finds the token and compares its client.              *)
Fits(t, client) == refresh[t] # None /\ refresh[t].live /\ refresh[t].grant.client = client

(* Slip: any client may refresh, and gets the new tokens.                  *)
RefreshForCaller(r, t, client) ==
    /\ pc[r] = "idle" /\ refresh[t] # None /\ refresh[t].live
    /\ token' = [token EXCEPT ![r] = t]
    /\ grant' = [grant EXCEPT ![r] = [refresh[t].grant EXCEPT !.client = client]]
    /\ Goto(r, "revoke")
    /\ UNCHANGED <<codes, access, refresh, answered, extra>>

Refresh(r, t, client) ==
    /\ pc[r] = "idle" /\ Fits(t, client)
    /\ token' = [token EXCEPT ![r] = t]
    /\ grant' = [grant EXCEPT ![r] = refresh[t].grant]
    /\ Goto(r, "revoke")
    /\ UNCHANGED <<codes, access, refresh, answered, extra>>

(* Slip: the revocation is forgotten.                                      *)
SkipRevoke(r) ==
    /\ pc[r] = "revoke"
    /\ Goto(r, "access")
    /\ UNCHANGED <<codes, access, refresh, token, grant, answered, extra>>

(* The revocation finds the token revoked or expired by now, or fails, and *)
(* the request goes on all the same.                                       *)
Revoke(r) ==
    /\ pc[r] = "revoke"
    /\ \/ refresh' = [refresh EXCEPT ![token[r]].live = FALSE]
       \/ UNCHANGED refresh
    /\ extra' = IF refresh'[token[r]].live \/ ~refresh[token[r]].live THEN extra \cup {r} ELSE extra
    /\ Goto(r, "access")
    /\ UNCHANGED <<codes, access, token, grant, answered>>

(* writeIssuedTokens: the access token first, then the refresh token.      *)
IssueAccess(r) ==
    /\ pc[r] = "access"
    /\ access' = [access EXCEPT ![r] = [grant |-> grant[r], live |-> TRUE]]
    /\ Goto(r, "refresh")
    /\ UNCHANGED <<codes, refresh, token, grant, answered, extra>>

(* The answer with both tokens may get lost.                               *)
IssueRefresh(r) ==
    /\ pc[r] = "refresh"
    /\ refresh' = [refresh EXCEPT ![r] = [grant |-> grant[r], live |-> TRUE]]
    /\ answered' \in {answered, answered \cup {r}}
    /\ Goto(r, "done")
    /\ UNCHANGED <<codes, access, token, grant, extra>>

(* A statement fails or the function dies; a token may have been stored.   *)
Fail(r) ==
    /\ pc[r] \in {"revoke", "access", "refresh"}
    /\ Goto(r, "done")
    /\ UNCHANGED <<codes, access, refresh, token, grant, answered, extra>>

(* Time passes.                                                            *)
ExpireCode(c) ==
    /\ codes[c] # None /\ ~codes[c].expired
    /\ codes' = [codes EXCEPT ![c].expired = TRUE]
    /\ UNCHANGED <<access, refresh, pc, token, grant, answered, extra>>

ExpireToken(t) ==
    /\ \/ /\ access[t] # None /\ access[t].live
          /\ access' = [access EXCEPT ![t].live = FALSE] /\ UNCHANGED refresh
       \/ /\ refresh[t] # None /\ refresh[t].live
          /\ refresh' = [refresh EXCEPT ![t].live = FALSE] /\ UNCHANGED access
    /\ UNCHANGED <<codes, pc, token, grant, answered, extra>>

Next ==
    \/ \E c \in Codes : (\E client \in Clients : CreateCode(c, client)) \/ ExpireCode(c)
    \/ \E r \in Requests :
          \/ \E client \in Clients :
                \/ \E c \in Codes, proof \in BOOLEAN : Exchange(r, c, client, proof)
                \/ \E t \in Requests : Refresh(r, t, client)
          \/ Revoke(r) \/ IssueAccess(r) \/ IssueRefresh(r) \/ Fail(r) \/ ExpireToken(r)

Spec == Init /\ [][Next]_vars
-----------------------------------------------------------------------------
(* Properties *)

Issued(c) == {r \in Requests : access[r] # None /\ access[r].grant.code = c}
LiveRefresh(c) == {r \in Issued(c) : refresh[r] # None /\ refresh[r].live}
Pending(c) == {r \in Requests : pc[r] \in {"access", "refresh"} /\ grant[r].code = c}
Extra(c) == {r \in extra : grant[r].code = c}

(* However a client retries, a code is the origin of one chain: only one   *)
(* request gets tokens for it directly, and only if it was consumed.       *)
CodeExchangedOnce ==
    \A c \in Codes :
        LET direct == {r \in Issued(c) : token[r] = None}
        IN  /\ Cardinality(direct) <= 1
            /\ direct # {} => codes[c].used

(* Every token of a chain, however long, belongs to the client the code    *)
(* was created for.                                                        *)
TokensKeepTheirClient ==
    \A r \in Requests : access[r] # None =>
        /\ access[r].grant.client = codes[access[r].grant.code].client
        /\ refresh[r] # None => refresh[r].grant = access[r].grant

(* Rotation: a chain has one usable refresh token, or one about to be      *)
(* issued, and one more for each refresh that did not take away the token  *)
(* it was made with, because another request was faster or the revocation  *)
(* failed.                                                                 *)
RotationConservesTokens ==
    \A c \in Codes : Cardinality(LiveRefresh(c) \cup Pending(c)) <= 1 + Cardinality(Extra(c))
=============================================================================
