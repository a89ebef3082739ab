------------------------- MODULE Frontends_proofs -------------------------
(***************************************************************************)
(* Proofs about the two parts that meet the user: the token endpoint of    *)
(* the OAuth server and the terminal interface.                            *)
(*                                                                         *)
(* OAuthGrants, for any requests, codes and clients.  What a request was   *)
(* granted never changes, and is what its tokens carry (ReqInv); a code    *)
(* has one request that was granted it directly (OneOrigin); and every     *)
(* refresh either takes a holder of the chain's tokens away or is counted  *)
(* as extra (ChainInv).                                                    *)
(*                                                                         *)
(* Terminal, for any courses, resources, weeks and timetables, any number  *)
(* of keys and any order of results.  The model's tree is one of known     *)
(* nodes, each lower than its parent (IsTree); the way to the selected     *)
(* node is open (IsSelection); what is marked is out, once (IsOut); and    *)
(* every list is what the service would list again (Coherent).  Their      *)
(* conjunction TerminalInv is inductive.                                   *)
(***************************************************************************)
EXTENDS OAuthGrants, Terminal, FiniteSetTheorems, SequenceTheorems, WellFoundedInduction, TLAPS


-----------------------------------------------------------------------------
(* The inductive invariant *)

ReqInv(r) ==
    /\ pc[r] = "idle" => grant[r] = None /\ token[r] = None
    /\ pc[r] \in {"idle", "revoke", "access"} => access[r] = None
    /\ pc[r] = "refresh" => access[r] # None
    /\ pc[r] # "done" => refresh[r] = None
    /\ access[r] # None => grant[r] # None /\ access[r].grant = grant[r]
    /\ refresh[r] # None => access[r] # None /\ refresh[r].grant = grant[r]
    /\ grant[r] # None => /\ codes[grant[r].code] # None
                          /\ codes[grant[r].code].used
                          /\ codes[grant[r].code].client = grant[r].client
    /\ pc[r] = "revoke" => /\ token[r] \in Requests /\ refresh[token[r]] # None
                           /\ refresh[token[r]].grant = grant[r]
    /\ r \in extra => grant[r] # None /\ pc[r] \in {"access", "refresh", "done"}

(* A code is exchanged by one request; all others got a token refreshed.   *)
OneOrigin ==
    \A r, s \in Requests :
        (/\ grant[r] # None /\ token[r] = None /\ grant[s] # None /\ token[s] = None
         /\ grant[r].code = grant[s].code) => r = s

(* The requests that hold a usable refresh token of the chain of c, or are *)
(* about to be given one.                                                  *)
Holders(c) == {r \in Requests : /\ grant[r] # None /\ grant[r].code = c
                                /\ \/ refresh[r] # None /\ refresh[r].live
                                   \/ pc[r] \in {"access", "refresh"}}

ChainInv(c) ==
    /\ IsFiniteSet(Holders(c)) /\ IsFiniteSet(Extra(c))
    /\ Cardinality(Holders(c)) <= 1 + Cardinality(Extra(c))

IInv == /\ TypeOK /\ OneOrigin
        /\ \A r \in Requests : ReqInv(r)
        /\ \A c \in Codes : ChainInv(c)

LEMMA InitInv == Init => IInv
  <1> SUFFICES ASSUME Init PROVE IInv
    OBVIOUS
  <1>1. TypeOK
    BY DEF Init, TypeOK
  <1>2. OneOrigin
    BY DEF Init, OneOrigin
  <1>3. ASSUME NEW r \in Requests PROVE ReqInv(r)
    BY <1>3 DEF Init, ReqInv
  <1>4. ASSUME NEW c \in Codes PROVE ChainInv(c)
    <2>1. Holders(c) = {} /\ Extra(c) = {}
      BY DEF Init, Holders, Extra
    <2> QED BY <2>1, FS_EmptySet DEF ChainInv
  <1> QED BY <1>1, <1>2, <1>3, <1>4 DEF IInv

-----------------------------------------------------------------------------
(* Frames *)

(* Codes and refresh tokens keep what they say once they are there.        *)
CodesGrow == \A c \in Codes : codes[c] # None =>
    codes'[c] # None /\ codes'[c].client = codes[c].client /\ (codes[c].used => codes'[c].used)
TokensGrow == \A t \in Requests : refresh[t] # None =>
    refresh'[t] # None /\ refresh'[t].grant = refresh[t].grant

LEMMA ReqFrame ==
    ASSUME TypeOK, NEW q \in Requests, ReqInv(q), CodesGrow, TokensGrow,
           pc'[q] = pc[q], token'[q] = token[q], grant'[q] = grant[q],
           access'[q] = None <=> access[q] = None,
           access[q] # None => access'[q].grant = access[q].grant,
           refresh'[q] = None <=> refresh[q] = None,
           q \in extra' <=> q \in extra
    PROVE  ReqInv(q)'
  <1>1. grant[q] # None => grant[q].code \in Codes
    BY DEF TypeOK, Grant
  <1>2. grant[q] # None => /\ codes'[grant[q].code] # None
                           /\ codes'[grant[q].code].used
                           /\ codes'[grant[q].code].client = grant[q].client
    BY <1>1 DEF ReqInv, CodesGrow
  <1>3. pc[q] = "revoke" => /\ token[q] \in Requests /\ refresh'[token[q]] # None
                            /\ refresh'[token[q]].grant = grant[q]
    BY DEF ReqInv, TokensGrow
  <1>4. refresh[q] # None => refresh'[q].grant = grant[q]
    BY DEF ReqInv, TokensGrow
  <1> QED BY <1>2, <1>3, <1>4 DEF ReqInv

LEMMA ChainFrame ==
    ASSUME NEW c \in Codes, ChainInv(c), Holders(c)' \subseteq Holders(c), Extra(c)' = Extra(c)
    PROVE  ChainInv(c)'
  <1>1. IsFiniteSet(Holders(c)') /\ Cardinality(Holders(c)') <= Cardinality(Holders(c))
    BY FS_Subset DEF ChainInv
  <1>2. Cardinality(Holders(c)) \in Nat /\ Cardinality(Holders(c)') \in Nat /\ Cardinality(Extra(c)) \in Nat
    BY <1>1, FS_CardinalityType DEF ChainInv
  <1> QED BY <1>1, <1>2 DEF ChainInv

(* A request without tokens does not concern any chain.                    *)
LEMMA OriginFrame ==
    ASSUME OneOrigin, grant' = grant, token' = token
    PROVE  OneOrigin'
  BY DEF OneOrigin

(* A step that grants nothing and changes no code's entry.                 *)
LEMMA CodesSame ==
    ASSUME codes' = codes
    PROVE  CodesGrow
  BY DEF CodesGrow

LEMMA TokensSame ==
    ASSUME refresh' = refresh
    PROVE  TokensGrow
  BY DEF TokensGrow

-----------------------------------------------------------------------------
(* Steps *)

LEMMA CodesStep ==
    ASSUME IInv, NEW c \in Codes, NEW row \in Code, codes' = [codes EXCEPT ![c] = row],
           codes[c] # None => row.client = codes[c].client /\ (codes[c].used => row.used),
           UNCHANGED <<access, refresh, pc, token, grant, answered, extra>>
    PROVE  IInv'
  <1>1. TypeOK'
    BY DEF IInv, TypeOK
  <1>2. OneOrigin'
    BY OriginFrame DEF IInv
  <1>3. row # None
    BY NoneIsNoRow
  <1>4. CodesGrow
    BY <1>3 DEF CodesGrow, IInv, TypeOK
  <1>5. ASSUME NEW q \in Requests PROVE ReqInv(q)'
    BY <1>4, TokensSame, ReqFrame DEF IInv
  <1>6. ASSUME NEW d \in Codes PROVE ChainInv(d)'
    <2>1. Holders(d)' = Holders(d) /\ Extra(d)' = Extra(d)
      BY DEF Holders, Extra
    <2> QED BY <2>1, ChainFrame DEF IInv
  <1> QED BY <1>1, <1>2, <1>5, <1>6 DEF IInv

LEMMA CreateCodeInv ==
    ASSUME IInv, NEW c \in Codes, NEW client \in Clients, CreateCode(c, client)
    PROVE  IInv'
  <1>1. [client |-> client, used |-> FALSE, expired |-> FALSE] \in Code
    BY DEF Code
  <1> QED BY <1>1, CodesStep DEF CreateCode

LEMMA ExpireCodeInv ==
    ASSUME IInv, NEW c \in Codes, ExpireCode(c)
    PROVE  IInv'
  <1> DEFINE row == [codes[c] EXCEPT !.expired = TRUE]
  <1>1. codes[c] \in Code
    BY DEF ExpireCode, IInv, TypeOK
  <1>2. row \in Code /\ row.client = codes[c].client /\ row.used = codes[c].used
    BY <1>1 DEF Code
  <1>3. codes' = [codes EXCEPT ![c] = row]
    BY DEF ExpireCode
  <1> HIDE DEF row
  <1> QED BY <1>2, <1>3, CodesStep DEF ExpireCode

(* The conditional update makes sure that nothing was granted for the code *)
(* before.                                                                 *)
LEMMA ExchangeInv ==
    ASSUME IInv, NEW r \in Requests, NEW c \in Codes, NEW client \in Clients, NEW proof \in BOOLEAN,
           Exchange(r, c, client, proof)
    PROVE  IInv'
  <1> DEFINE row == [codes[c] EXCEPT !.used = TRUE]
             g == [client |-> client, code |-> c]
  <1>1. codes[c] \in Code /\ ~codes[c].used /\ pc[r] = "idle"
    BY DEF Exchange, Consumable, IInv, TypeOK
  <1>2. row \in Code /\ row.client = codes[c].client /\ row.used = TRUE
    BY <1>1 DEF Code
  <1>3. row # None /\ g # None /\ g \in Grant /\ g.client = client /\ g.code = c
    <2>1. g \in Grant /\ g.client = client /\ g.code = c
      BY DEF Grant
    <2> HIDE DEF row, g
    <2> QED BY <1>2, <2>1, NoneIsNoRow
  <1>4. /\ codes' = [codes EXCEPT ![c] = row]
        /\ UNCHANGED <<access, refresh, token, answered, extra>>
    BY DEF Exchange
  <1>5. \/ /\ client = codes[c].client
           /\ grant' = [grant EXCEPT ![r] = g] /\ pc' = [pc EXCEPT ![r] = "access"]
        \/ grant' = grant /\ pc' = [pc EXCEPT ![r] = "done"]
    BY DEF Exchange, Goto
  <1> HIDE DEF row, g
  <1>6. CodesGrow /\ codes'[c] = row
    BY <1>1, <1>2, <1>3, <1>4 DEF CodesGrow, IInv, TypeOK
  <1>7. /\ grant[r] = None /\ token[r] = None /\ access[r] = None /\ refresh[r] = None
        /\ r \notin extra
    BY <1>1 DEF IInv, ReqInv
  <1>8. \A q \in Requests : grant[q] # None => grant[q].code # c
    BY <1>1 DEF IInv, ReqInv
  <1>9. TypeOK'
    <2>1. codes' \in [Codes -> Code \cup {None}]
      BY <1>2, <1>4 DEF IInv, TypeOK
    <2>2. grant' \in [Requests -> Grant \cup {None}]
      BY <1>3, <1>5 DEF IInv, TypeOK
    <2>3. pc' \in [Requests -> {"idle", "revoke", "access", "refresh", "done"}]
      BY <1>5 DEF IInv, TypeOK
    <2>4. \A q \in Requests : pc'[q] \in {"revoke", "access", "refresh"} => grant'[q] # None
      BY <1>3, <1>5 DEF IInv, TypeOK
    <2> QED BY <1>4, <2>1, <2>2, <2>3, <2>4 DEF IInv, TypeOK
  <1>10. OneOrigin'
    <2>1. \A q \in Requests : q # r => grant'[q] = grant[q]
      BY <1>5 DEF IInv, TypeOK
    <2>2. grant'[r] = None \/ grant'[r].code = c
      BY <1>3, <1>5, <1>7 DEF IInv, TypeOK
    <2> QED BY <1>4, <1>7, <1>8, <2>1, <2>2 DEF OneOrigin, IInv
  <1>11. ASSUME NEW q \in Requests PROVE ReqInv(q)'
    <2>1. CASE q # r
      BY <1>4, <1>5, <1>6, <2>1, TokensSame, ReqFrame DEF IInv, TypeOK
    <2>2. CASE q = r
      <3>1. access'[r] = None /\ refresh'[r] = None /\ r \notin extra' /\ token'[r] = None
        BY <1>4, <1>7
      <3>2. CASE client = codes[c].client /\ grant' = [grant EXCEPT ![r] = g] /\ pc' = [pc EXCEPT ![r] = "access"]
        <4>1. grant'[r] = g /\ pc'[r] = "access"
          BY <3>2 DEF IInv, TypeOK
        <4> QED BY <1>2, <1>3, <1>6, <2>2, <3>1, <3>2, <4>1 DEF ReqInv
      <3>3. CASE grant' = grant /\ pc' = [pc EXCEPT ![r] = "done"]
        <4>1. grant'[r] = None /\ pc'[r] = "done"
          BY <1>7, <3>3 DEF IInv, TypeOK
        <4> QED BY <2>2, <3>1, <4>1 DEF ReqInv
      <3> QED BY <1>5, <3>2, <3>3
    <2> QED BY <2>1, <2>2
  <1>12. ASSUME NEW d \in Codes PROVE ChainInv(d)'
    <2>1. \A q \in Requests : q # r => grant'[q] = grant[q] /\ pc'[q] = pc[q]
      BY <1>5 DEF IInv, TypeOK
    <2>2. Extra(d)' = Extra(d)
      BY <1>4, <1>7, <2>1 DEF Extra, IInv, TypeOK
    <2>3. CASE d # c \/ grant'[r] = None
      <3>1. grant'[r] = None \/ grant'[r].code # d
        BY <1>3, <1>5, <1>7, <2>3 DEF IInv, TypeOK
      <3>2. Holders(d)' \subseteq Holders(d)
        BY <1>4, <2>1, <3>1 DEF Holders
      <3> QED BY <2>2, <3>2, ChainFrame DEF IInv
    <2>4. CASE d = c /\ grant'[r] # None
      <3>1. Holders(d)' \subseteq {r}
        BY <1>8, <2>1, <2>4 DEF Holders
      <3>2. IsFiniteSet({r}) /\ Cardinality({r}) = 1
        BY FS_Singleton
      <3>3. IsFiniteSet(Holders(d)') /\ Cardinality(Holders(d)') <= 1
        BY <3>1, <3>2, FS_Subset
      <3>4. IsFiniteSet(Extra(d)')
        BY <2>2 DEF IInv, ChainInv
      <3>5. Cardinality(Holders(d)') \in Nat /\ Cardinality(Extra(d)') \in Nat
        BY <3>3, <3>4, FS_CardinalityType
      <3> QED BY <3>3, <3>4, <3>5 DEF ChainInv
    <2> QED BY <2>3, <2>4
  <1> QED BY <1>9, <1>10, <1>11, <1>12 DEF IInv

LEMMA RefreshInv ==
    ASSUME IInv, NEW r \in Requests, NEW t \in Requests, NEW client \in Clients, Refresh(r, t, client)
    PROVE  IInv'
  <1>1. /\ pc[r] = "idle" /\ refresh[t] # None
        /\ token' = [token EXCEPT ![r] = t]
        /\ grant' = [grant EXCEPT ![r] = refresh[t].grant]
        /\ pc' = [pc EXCEPT ![r] = "revoke"]
        /\ UNCHANGED <<codes, access, refresh, answered, extra>>
    BY DEF Refresh, Fits, Goto
  <1>2. /\ refresh[t] \in Token /\ access[t] # None /\ refresh[t].grant = grant[t]
        /\ grant[t] # None /\ grant[t] \in Grant
    BY <1>1 DEF IInv, TypeOK, ReqInv
  <1>3. /\ codes[grant[t].code] # None /\ codes[grant[t].code].used
        /\ codes[grant[t].code].client = grant[t].client
    BY <1>2 DEF IInv, ReqInv
  <1>4. /\ grant[r] = None /\ token[r] = None /\ access[r] = None /\ refresh[r] = None
        /\ r \notin extra
    BY <1>1 DEF IInv, ReqInv
  <1>5. /\ token'[r] = t /\ grant'[r] = grant[t] /\ pc'[r] = "revoke"
        /\ \A q \in Requests : q # r => token'[q] = token[q] /\ grant'[q] = grant[q] /\ pc'[q] = pc[q]
    BY <1>1, <1>2 DEF IInv, TypeOK
  <1>6. TypeOK'
    <2>1. /\ token' \in [Requests -> Requests \cup {None}]
          /\ grant' \in [Requests -> Grant \cup {None}]
          /\ pc' \in [Requests -> {"idle", "revoke", "access", "refresh", "done"}]
      BY <1>1, <1>2 DEF IInv, TypeOK
    <2>2. \A q \in Requests : pc'[q] \in {"revoke", "access", "refresh"} => grant'[q] # None
      BY <1>2, <1>5 DEF IInv, TypeOK
    <2> QED BY <1>1, <2>1, <2>2 DEF IInv, TypeOK
  <1>7. OneOrigin'
    BY <1>5, NoneIsNoName DEF IInv, OneOrigin
  <1>8. ASSUME NEW q \in Requests PROVE ReqInv(q)'
    <2>1. CASE q # r
      BY <1>1, <1>5, <2>1, CodesSame, TokensSame, ReqFrame DEF IInv
    <2>2. CASE q = r
      BY <1>1, <1>2, <1>3, <1>4, <1>5, <2>2 DEF ReqInv
    <2> QED BY <2>1, <2>2
  <1>9. ASSUME NEW d \in Codes PROVE ChainInv(d)'
    <2>1. Extra(d)' = Extra(d)
      BY <1>1, <1>4, <1>5 DEF Extra, IInv, TypeOK
    <2>2. Holders(d)' \subseteq Holders(d)
      BY <1>1, <1>4, <1>5 DEF Holders
    <2> QED BY <2>1, <2>2, ChainFrame DEF IInv
  <1> QED BY <1>6, <1>7, <1>8, <1>9 DEF IInv

(* A refresh takes the holder of the chain away that it was made with and  *)
(* takes its place, or it is counted as extra.                             *)
LEMMA RevokeInv ==
    ASSUME IInv, NEW r \in Requests, Revoke(r)
    PROVE  IInv'
  <1> DEFINE t == token[r]
             dead == [refresh[t] EXCEPT !.live = FALSE]
  <1>1. /\ pc[r] = "revoke" /\ t \in Requests /\ refresh[t] # None /\ refresh[t].grant = grant[r]
        /\ grant[r] # None /\ access[r] = None /\ refresh[r] = None /\ r \notin extra
    BY DEF Revoke, IInv, TypeOK, ReqInv
  <1>2. /\ refresh[t] \in Token /\ access[t] # None /\ grant[t] = grant[r] /\ pc[t] = "done"
        /\ grant[r] \in Grant /\ grant[r].code \in Codes
    BY <1>1 DEF IInv, TypeOK, ReqInv, Grant
  <1>3. dead \in Token /\ dead.grant = refresh[t].grant /\ dead.live = FALSE
    BY <1>2 DEF Token
  <1>4. /\ refresh' = [refresh EXCEPT ![t] = dead] \/ refresh' = refresh
        /\ extra' = IF refresh'[t].live \/ ~refresh[t].live THEN extra \cup {r} ELSE extra
        /\ pc' = [pc EXCEPT ![r] = "access"]
        /\ UNCHANGED <<codes, access, token, grant, answered>>
    BY DEF Revoke, Goto
  <1> HIDE DEF t, dead
  <1>5. dead # None
    BY <1>3, NoneIsNoRow
  <1>6. /\ refresh' \in [Requests -> Token \cup {None}]
        /\ \A q \in Requests : q # t => refresh'[q] = refresh[q]
        /\ refresh'[t] # None /\ refresh'[t].grant = refresh[t].grant
    BY <1>1, <1>3, <1>4, <1>5 DEF IInv, TypeOK
  <1>7. TokensGrow
    BY <1>6 DEF TokensGrow
  <1>8. pc'[r] = "access" /\ \A q \in Requests : q # r => pc'[q] = pc[q]
    BY <1>4 DEF IInv, TypeOK
  <1>9. TypeOK'
    <2>1. /\ pc' \in [Requests -> {"idle", "revoke", "access", "refresh", "done"}]
          /\ extra' \subseteq Requests
      BY <1>4 DEF IInv, TypeOK
    <2>2. \A q \in Requests : refresh'[q] # None => access'[q] # None
      BY <1>1, <1>2, <1>4, <1>6 DEF IInv, TypeOK
    <2>3. \A q \in Requests : pc'[q] \in {"revoke", "access", "refresh"} => grant'[q] # None
      BY <1>1, <1>4, <1>8 DEF IInv, TypeOK
    <2> QED BY <1>4, <1>6, <2>1, <2>2, <2>3 DEF IInv, TypeOK
  <1>10. ASSUME NEW q \in Requests PROVE ReqInv(q)'
    <2>1. CASE q # r
      <3>1. (q \in extra' <=> q \in extra) /\ (refresh'[q] = None <=> refresh[q] = None)
        BY <1>1, <1>4, <1>6, <2>1
      <3> QED BY <1>4, <1>7, <1>8, <2>1, <3>1, CodesSame, ReqFrame DEF IInv
    <2>2. CASE q = r
      <3>1. r # t
        BY <1>1
      <3>2. /\ pc'[r] = "access" /\ access'[r] = None /\ refresh'[r] = None
            /\ grant'[r] = grant[r] /\ codes' = codes
        BY <1>1, <1>4, <1>6, <1>8, <3>1
      <3>3. /\ codes[grant[r].code] # None /\ codes[grant[r].code].used
            /\ codes[grant[r].code].client = grant[r].client
        BY <1>1 DEF IInv, ReqInv
      <3> QED BY <1>1, <2>2, <3>2, <3>3 DEF ReqInv
    <2> QED BY <2>1, <2>2
  <1>11. ASSUME NEW d \in Codes PROVE ChainInv(d)'
    <2>1. \A q \in Requests : q # r /\ q # t => (q \in Holders(d)' <=> q \in Holders(d))
      BY <1>4, <1>6, <1>8 DEF Holders
    <2>2. CASE grant[r].code # d
      <3>1. Extra(d)' = Extra(d)
        BY <1>4, <2>2 DEF Extra
      <3>2. t \notin Holders(d)' /\ r \notin Holders(d)'
        BY <1>2, <1>4, <2>2 DEF Holders
      <3>3. Holders(d)' \subseteq Holders(d)
        BY <2>1, <3>2 DEF Holders
      <3> QED BY <3>1, <3>3, ChainFrame DEF IInv
    <2>3. CASE grant[r].code = d /\ (refresh'[t].live \/ ~refresh[t].live)
      <3>1. Extra(d)' = Extra(d) \cup {r} /\ r \notin Extra(d)
        BY <1>1, <1>4, <2>3 DEF Extra
      <3>2. t \in Holders(d)' => t \in Holders(d)
        <4>1. CASE t = r
          BY <1>1, <1>2, <4>1
        <4>2. CASE t # r
          <5>1. pc'[t] = "done"
            BY <1>1, <1>2, <1>8, <4>2
          <5>2. refresh'[t].live => refresh[t].live
            BY <1>1, <1>3, <1>4, <1>5 DEF IInv, TypeOK
          <5> QED BY <1>1, <1>2, <1>4, <2>3, <5>1, <5>2 DEF Holders
        <4> QED BY <4>1, <4>2
      <3>3. Holders(d)' \subseteq Holders(d) \cup {r}
        BY <2>1, <3>2 DEF Holders
      <3>4. /\ IsFiniteSet(Holders(d)) /\ IsFiniteSet(Extra(d))
            /\ Cardinality(Holders(d)) <= 1 + Cardinality(Extra(d))
        BY DEF IInv, ChainInv
      <3>5. /\ IsFiniteSet(Holders(d) \cup {r})
            /\ Cardinality(Holders(d) \cup {r}) <= Cardinality(Holders(d)) + 1
        <4>1. Cardinality(Holders(d)) \in Nat
          BY <3>4, FS_CardinalityType
        <4>2. /\ IsFiniteSet(Holders(d) \cup {r})
              /\ Cardinality(Holders(d) \cup {r}) =
                    IF r \in Holders(d) THEN Cardinality(Holders(d)) ELSE Cardinality(Holders(d)) + 1
          BY <3>4, FS_AddElement
        <4> QED BY <4>1, <4>2
      <3>6. IsFiniteSet(Extra(d)') /\ Cardinality(Extra(d)') = Cardinality(Extra(d)) + 1
        BY <3>1, <3>4, FS_AddElement
      <3>7. IsFiniteSet(Holders(d)') /\ Cardinality(Holders(d)') <= Cardinality(Holders(d) \cup {r})
        BY <3>3, <3>5, FS_Subset
      <3>8. /\ Cardinality(Holders(d)) \in Nat /\ Cardinality(Extra(d)) \in Nat
            /\ Cardinality(Holders(d)') \in Nat /\ Cardinality(Holders(d) \cup {r}) \in Nat
        BY <3>4, <3>5, <3>7, FS_CardinalityType
      <3> QED BY <3>4, <3>5, <3>6, <3>7, <3>8 DEF ChainInv
    <2>4. CASE grant[r].code = d /\ ~refresh'[t].live /\ refresh[t].live
      <3>1. Extra(d)' = Extra(d)
        BY <1>4, <2>4 DEF Extra
      <3>2. t \in Holders(d) /\ r \notin Holders(d) /\ t # r
        BY <1>1, <1>2, <2>4 DEF Holders
      <3>3. t \notin Holders(d)'
        BY <1>2, <1>8, <2>4, <3>2 DEF Holders
      <3>4. Holders(d)' \subseteq (Holders(d) \ {t}) \cup {r}
        BY <2>1, <3>3 DEF Holders
      <3>5. /\ IsFiniteSet(Holders(d)) /\ IsFiniteSet(Extra(d))
            /\ Cardinality(Holders(d)) <= 1 + Cardinality(Extra(d))
        BY DEF IInv, ChainInv
      <3>6. IsFiniteSet(Holders(d) \ {t}) /\ Cardinality(Holders(d) \ {t}) = Cardinality(Holders(d)) - 1
        BY <3>2, <3>5, FS_RemoveElement
      <3>7. /\ IsFiniteSet((Holders(d) \ {t}) \cup {r})
            /\ Cardinality((Holders(d) \ {t}) \cup {r}) = Cardinality(Holders(d) \ {t}) + 1
        BY <3>2, <3>6, FS_AddElement
      <3>8. /\ IsFiniteSet(Holders(d)')
            /\ Cardinality(Holders(d)') <= Cardinality((Holders(d) \ {t}) \cup {r})
        BY <3>4, <3>7, FS_Subset
      <3>9. /\ Cardinality(Holders(d)) \in Nat /\ Cardinality(Extra(d)) \in Nat
            /\ Cardinality(Holders(d)') \in Nat
        BY <3>5, <3>8, FS_CardinalityType
      <3> QED BY <3>1, <3>5, <3>6, <3>7, <3>8, <3>9 DEF ChainInv
    <2> QED BY <2>2, <2>3, <2>4
  <1> QED BY <1>4, <1>9, <1>10, <1>11, OriginFrame DEF IInv

LEMMA IssueAccessInv ==
    ASSUME IInv, NEW r \in Requests, IssueAccess(r)
    PROVE  IInv'
  <1> DEFINE row == [grant |-> grant[r], live |-> TRUE]
  <1>1. /\ pc[r] = "access" /\ grant[r] # None /\ grant[r] \in Grant
        /\ access[r] = None /\ refresh[r] = None
        /\ codes[grant[r].code] # None /\ codes[grant[r].code].used
        /\ codes[grant[r].code].client = grant[r].client
    BY DEF IssueAccess, IInv, TypeOK, ReqInv
  <1>2. row \in Token /\ row.grant = grant[r]
    BY <1>1 DEF Token
  <1>3. /\ access' = [access EXCEPT ![r] = row] /\ pc' = [pc EXCEPT ![r] = "refresh"]
        /\ UNCHANGED <<codes, refresh, token, grant, answered, extra>>
    BY DEF IssueAccess, Goto
  <1> HIDE DEF row
  <1>4. row # None
    BY <1>2, NoneIsNoRow
  <1>5. /\ access'[r] = row /\ pc'[r] = "refresh"
        /\ \A q \in Requests : q # r => access'[q] = access[q] /\ pc'[q] = pc[q]
    BY <1>3 DEF IInv, TypeOK
  <1>6. TypeOK'
    <2>1. /\ access' \in [Requests -> Token \cup {None}]
          /\ pc' \in [Requests -> {"idle", "revoke", "access", "refresh", "done"}]
      BY <1>2, <1>3 DEF IInv, TypeOK
    <2>2. \A q \in Requests : /\ pc'[q] \in {"revoke", "access", "refresh"} => grant'[q] # None
                              /\ refresh'[q] # None => access'[q] # None
      BY <1>1, <1>3, <1>4, <1>5 DEF IInv, TypeOK
    <2> QED BY <1>3, <2>1, <2>2 DEF IInv, TypeOK
  <1>7. ASSUME NEW q \in Requests PROVE ReqInv(q)'
    <2>1. CASE q # r
      BY <1>3, <1>5, <2>1, CodesSame, TokensSame, ReqFrame DEF IInv
    <2>2. CASE q = r
      BY <1>1, <1>2, <1>3, <1>4, <1>5, <2>2 DEF ReqInv
    <2> QED BY <2>1, <2>2
  <1>8. ASSUME NEW d \in Codes PROVE ChainInv(d)'
    <2>1. Extra(d)' = Extra(d)
      BY <1>3 DEF Extra
    <2>2. Holders(d)' \subseteq Holders(d)
      BY <1>1, <1>3, <1>5 DEF Holders
    <2> QED BY <2>1, <2>2, ChainFrame DEF IInv
  <1> QED BY <1>3, <1>6, <1>7, <1>8, OriginFrame DEF IInv

LEMMA IssueRefreshInv ==
    ASSUME IInv, NEW r \in Requests, IssueRefresh(r)
    PROVE  IInv'
  <1> DEFINE row == [grant |-> grant[r], live |-> TRUE]
  <1>1. /\ pc[r] = "refresh" /\ grant[r] # None /\ grant[r] \in Grant
        /\ access[r] # None /\ refresh[r] = None /\ access[r].grant = grant[r]
        /\ codes[grant[r].code] # None /\ codes[grant[r].code].used
        /\ codes[grant[r].code].client = grant[r].client
    BY DEF IssueRefresh, IInv, TypeOK, ReqInv
  <1>2. row \in Token /\ row.grant = grant[r]
    BY <1>1 DEF Token
  <1>3. /\ refresh' = [refresh EXCEPT ![r] = row] /\ pc' = [pc EXCEPT ![r] = "done"]
        /\ answered' \in {answered, answered \cup {r}}
        /\ UNCHANGED <<codes, access, token, grant, extra>>
    BY DEF IssueRefresh, Goto
  <1> HIDE DEF row
  <1>4. row # None
    BY <1>2, NoneIsNoRow
  <1>5. /\ refresh'[r] = row /\ pc'[r] = "done"
        /\ \A q \in Requests : q # r => refresh'[q] = refresh[q] /\ pc'[q] = pc[q]
    BY <1>3 DEF IInv, TypeOK
  <1>6. TypeOK'
    <2>1. /\ refresh' \in [Requests -> Token \cup {None}] /\ answered' \subseteq Requests
          /\ pc' \in [Requests -> {"idle", "revoke", "access", "refresh", "done"}]
      BY <1>2, <1>3 DEF IInv, TypeOK
    <2>2. \A q \in Requests : /\ pc'[q] \in {"revoke", "access", "refresh"} => grant'[q] # None
                              /\ refresh'[q] # None => access'[q] # None
      BY <1>1, <1>3, <1>5 DEF IInv, TypeOK
    <2> QED BY <1>3, <2>1, <2>2 DEF IInv, TypeOK
  <1>7. TokensGrow
    BY <1>1, <1>5 DEF TokensGrow
  <1>8. ASSUME NEW q \in Requests PROVE ReqInv(q)'
    <2>1. CASE q # r
      BY <1>3, <1>5, <1>7, <2>1, CodesSame, ReqFrame DEF IInv
    <2>2. CASE q = r
      <3>1. r \in extra' => grant'[r] # None
        BY <1>1, <1>3
      <3> QED BY <1>1, <1>2, <1>3, <1>4, <1>5, <2>2, <3>1 DEF ReqInv
    <2> QED BY <2>1, <2>2
  <1>9. ASSUME NEW d \in Codes PROVE ChainInv(d)'
    <2>1. Extra(d)' = Extra(d)
      BY <1>3 DEF Extra
    <2>2. Holders(d)' \subseteq Holders(d)
      BY <1>1, <1>3, <1>5 DEF Holders
    <2> QED BY <2>1, <2>2, ChainFrame DEF IInv
  <1> QED BY <1>3, <1>6, <1>8, <1>9, OriginFrame DEF IInv

LEMMA FailInv ==
    ASSUME IInv, NEW r \in Requests, Fail(r)
    PROVE  IInv'
  <1>1. /\ pc[r] \in {"revoke", "access", "refresh"} /\ pc' = [pc EXCEPT ![r] = "done"]
        /\ UNCHANGED <<codes, access, refresh, token, grant, answered, extra>>
    BY DEF Fail, Goto
  <1>2. pc'[r] = "done" /\ \A q \in Requests : q # r => pc'[q] = pc[q]
    BY <1>1 DEF IInv, TypeOK
  <1>3. TypeOK'
    <2>1. /\ pc' \in [Requests -> {"idle", "revoke", "access", "refresh", "done"}]
          /\ \A q \in Requests : pc'[q] \in {"revoke", "access", "refresh"} => grant'[q] # None
      BY <1>1, <1>2 DEF IInv, TypeOK
    <2> QED BY <1>1, <2>1 DEF IInv, TypeOK
  <1>4. ASSUME NEW q \in Requests PROVE ReqInv(q)'
    <2>1. CASE q # r
      BY <1>1, <1>2, <2>1, CodesSame, TokensSame, ReqFrame DEF IInv
    <2>2. CASE q = r
      BY <1>1, <1>2, <2>2 DEF IInv, ReqInv
    <2> QED BY <2>1, <2>2
  <1>5. ASSUME NEW d \in Codes PROVE ChainInv(d)'
    <2>1. Extra(d)' = Extra(d)
      BY <1>1 DEF Extra
    <2>2. Holders(d)' \subseteq Holders(d)
      BY <1>1, <1>2 DEF Holders
    <2> QED BY <2>1, <2>2, ChainFrame DEF IInv
  <1> QED BY <1>1, <1>3, <1>4, <1>5, OriginFrame DEF IInv

LEMMA ExpireTokenInv ==
    ASSUME IInv, NEW t \in Requests, ExpireToken(t)
    PROVE  IInv'
  <1> DEFINE a == [access[t] EXCEPT !.live = FALSE]
             b == [refresh[t] EXCEPT !.live = FALSE]
  <1>1. /\ \/ access[t] # None /\ access' = [access EXCEPT ![t] = a] /\ refresh' = refresh
           \/ refresh[t] # None /\ refresh' = [refresh EXCEPT ![t] = b] /\ access' = access
        /\ UNCHANGED <<codes, pc, token, grant, answered, extra>>
    BY DEF ExpireToken
  <1>2. access[t] # None => a \in Token /\ a.grant = access[t].grant
    BY DEF IInv, TypeOK, Token
  <1>3. refresh[t] # None => b \in Token /\ b.grant = refresh[t].grant /\ b.live = FALSE
    BY DEF IInv, TypeOK, Token
  <1> HIDE DEF a, b
  <1>4. (access[t] # None => a # None) /\ (refresh[t] # None => b # None)
    BY <1>2, <1>3, NoneIsNoRow
  <1>5. /\ access' \in [Requests -> Token \cup {None}]
        /\ \A q \in Requests : /\ access'[q] = None <=> access[q] = None
                               /\ access[q] # None => access'[q].grant = access[q].grant
    BY <1>1, <1>2, <1>4 DEF IInv, TypeOK
  <1>6. /\ refresh' \in [Requests -> Token \cup {None}]
        /\ \A q \in Requests : /\ refresh'[q] = None <=> refresh[q] = None
                               /\ refresh[q] # None => refresh'[q].grant = refresh[q].grant
                               /\ refresh[q] # None /\ refresh'[q].live => refresh[q].live
    BY <1>1, <1>3, <1>4 DEF IInv, TypeOK
  <1>7. TypeOK'
    <2>1. \A q \in Requests : refresh'[q] # None => access'[q] # None
      BY <1>5, <1>6 DEF IInv, TypeOK
    <2> QED BY <1>1, <1>5, <1>6, <2>1 DEF IInv, TypeOK
  <1>8. TokensGrow
    BY <1>6 DEF TokensGrow
  <1>9. ASSUME NEW q \in Requests PROVE ReqInv(q)'
    BY <1>1, <1>5, <1>6, <1>8, CodesSame, ReqFrame DEF IInv
  <1>10. ASSUME NEW d \in Codes PROVE ChainInv(d)'
    <2>1. Extra(d)' = Extra(d)
      BY <1>1 DEF Extra
    <2>2. Holders(d)' \subseteq Holders(d)
      BY <1>1, <1>6 DEF Holders
    <2> QED BY <2>1, <2>2, ChainFrame DEF IInv
  <1> QED BY <1>1, <1>7, <1>9, <1>10, OriginFrame DEF IInv

LEMMA NextInv == IInv /\ [Next]_vars => IInv'
  <1> SUFFICES ASSUME IInv, [Next]_vars PROVE IInv'
    OBVIOUS
  <1>1. ASSUME NEW c \in Codes, NEW client \in Clients, CreateCode(c, client) PROVE IInv'
    BY <1>1, CreateCodeInv
  <1>2. ASSUME NEW c \in Codes, ExpireCode(c) PROVE IInv'
    BY <1>2, ExpireCodeInv
  <1>3. ASSUME NEW r \in Requests, NEW client \in Clients, NEW c \in Codes, NEW proof \in BOOLEAN,
               Exchange(r, c, client, proof)
        PROVE  IInv'
    BY <1>3, ExchangeInv
  <1>4. ASSUME NEW r \in Requests, NEW client \in Clients, NEW t \in Requests, Refresh(r, t, client)
        PROVE  IInv'
    BY <1>4, RefreshInv
  <1>5. ASSUME NEW r \in Requests, Revoke(r) PROVE IInv'
    BY <1>5, RevokeInv
  <1>6. ASSUME NEW r \in Requests, IssueAccess(r) PROVE IInv'
    BY <1>6, IssueAccessInv
  <1>7. ASSUME NEW r \in Requests, IssueRefresh(r) PROVE IInv'
    BY <1>7, IssueRefreshInv
  <1>8. ASSUME NEW r \in Requests, Fail(r) PROVE IInv'
    BY <1>8, FailInv
  <1>9. ASSUME NEW r \in Requests, ExpireToken(r) PROVE IInv'
    BY <1>9, ExpireTokenInv
  <1>10. CASE UNCHANGED vars
    <2>1. TypeOK' /\ OneOrigin'
      BY <1>10 DEF vars, IInv, TypeOK, OneOrigin
    <2>2. ASSUME NEW q \in Requests PROVE ReqInv(q)'
      BY <1>10, CodesSame, TokensSame, ReqFrame DEF vars, IInv
    <2>3. ASSUME NEW d \in Codes PROVE ChainInv(d)'
      BY <1>10 DEF vars, IInv, ChainInv, Holders, Extra
    <2> QED BY <2>1, <2>2, <2>3 DEF IInv
  <1> QED BY <1>1, <1>2, <1>3, <1>4, <1>5, <1>6, <1>7, <1>8, <1>9, <1>10 DEF Next

LEMMA Inductive == Spec => []IInv
  BY InitInv, NextInv, PTL DEF Spec

-----------------------------------------------------------------------------
(* What follows for the clients *)

(* The tables of the OAuth server and its requests stay in their types     *)
(* (internal/store/oauth.go), and no refresh token lacks its access token. *)
THEOREM TypeCorrect == Spec => []TypeOK
  <1>1. IInv => TypeOK
    BY DEF IInv
  <1> QED BY <1>1, Inductive, PTL

(* However a client retries, one request at most gets tokens directly for  *)
(* a code (ConsumeOAuthAuthorizationCode).                                 *)
THEOREM CodesAreExchangedOnce == Spec => []CodeExchangedOnce
  <1>1. ASSUME IInv PROVE CodeExchangedOnce
    <2> SUFFICES ASSUME NEW c \in Codes
                 PROVE  LET direct == {r \in Issued(c) : token[r] = None}
                        IN  Cardinality(direct) <= 1 /\ (direct # {} => codes[c].used)
      BY DEF CodeExchangedOnce
    <2> DEFINE direct == {r \in Issued(c) : token[r] = None}
    <2>1. \A r \in direct : r \in Requests /\ grant[r] # None /\ grant[r].code = c /\ token[r] = None
      BY <1>1 DEF Issued, IInv, ReqInv
    <2>2. direct # {} => codes[c].used
      BY <1>1, <2>1 DEF IInv, ReqInv
    <2>3. \A r, s \in direct : r = s
      BY <1>1, <2>1 DEF IInv, OneOrigin
    <2> HIDE DEF direct
    <2>4. Cardinality(direct) <= 1
      <3>1. CASE direct = {}
        BY <3>1, FS_EmptySet
      <3>2. CASE direct # {}
        <4>1. PICK r \in direct : direct = {r}
          BY <2>3, <3>2
        <4> QED BY <4>1, FS_Singleton
      <3> QED BY <3>1, <3>2
    <2> QED BY <2>2, <2>4 DEF direct
  <1> QED BY <1>1, Inductive, PTL

(* Along a chain of refreshes of any length, tokens belong to the client   *)
(* the code was created for (oauthRefreshToken, writeIssuedTokens).        *)
THEOREM ChainsKeepTheirClient == Spec => []TokensKeepTheirClient
  <1>1. ASSUME IInv PROVE TokensKeepTheirClient
    BY <1>1 DEF IInv, ReqInv, TokensKeepTheirClient
  <1> QED BY <1>1, Inductive, PTL

(* The refresh tokens of a chain that can be used, or are about to be      *)
(* given out, never outnumber one and the refreshes that did not take      *)
(* their token away (revokeOAuthRefreshToken, whose error is ignored).     *)
THEOREM ChainsConserveTokens == Spec => []RotationConservesTokens
  <1>1. ASSUME IInv PROVE RotationConservesTokens
    <2> SUFFICES ASSUME NEW c \in Codes
                 PROVE  Cardinality(LiveRefresh(c) \cup Pending(c)) <= 1 + Cardinality(Extra(c))
      BY DEF RotationConservesTokens
    <2>1. LiveRefresh(c) \subseteq Holders(c)
      BY <1>1 DEF LiveRefresh, Issued, Holders, IInv, ReqInv
    <2>2. Pending(c) \subseteq Holders(c)
      BY <1>1 DEF Pending, Holders, IInv, TypeOK
    <2>3. Holders(c) \subseteq LiveRefresh(c) \cup Pending(c)
      BY <1>1 DEF LiveRefresh, Pending, Issued, Holders, IInv, ReqInv
    <2>4. LiveRefresh(c) \cup Pending(c) = Holders(c)
      BY <2>1, <2>2, <2>3
    <2> QED BY <1>1, <2>4 DEF IInv, ChainInv
  <1> QED BY <1>1, Inductive, PTL

-----------------------------------------------------------------------------
(* Numbers, positions and sequences *)

IsSeq(s) == s \in Seq(Range(s))

(* Of some numbers one is the smallest.                                    *)
LEMMA Least ==
  ASSUME NEW S \in SUBSET Nat, S # {}
  PROVE  \E m \in S : \A k \in S : m <= k
  <1>1. PICK m \in S : \A k \in S : ~(<<k, m>> \in OpToRel(<, Nat))
    BY WFMin, NatLessThanWellFounded, Zenon
  <1>2. \A k \in S : ~(k < m)
    BY <1>1 DEF OpToRel
  <1> QED
    BY <1>2

(* A finite set of numbers has an element at every place.                  *)
LEMMA PlaceTaken ==
  ASSUME NEW S \in SUBSET Nat, IsFiniteSet(S), NEW n \in 1..Cardinality(S)
  PROVE  \E x \in S : Cardinality({j \in S : j < x}) = n - 1
  <1> DEFINE Below(x) == {j \in S : j < x}
             Free == {m \in 1..Cardinality(S) : \A x \in S : Cardinality(Below(x)) # m - 1}
  <1>0. Cardinality(S) \in Nat /\ S # {}
    BY FS_CardinalityType, FS_EmptySet
  <1>1. SUFFICES ASSUME Free # {} PROVE FALSE
    OBVIOUS
  <1>2. PICK m \in Free : \A k \in Free : m <= k
    <2>1. Free \in SUBSET Nat
      BY <1>0
    <2> HIDE DEF Free
    <2> QED BY <2>1, <1>1, Least
  <1>3. PICK least \in S : \A k \in S : least <= k
    BY <1>0, Least
  <1>4. Below(least) = {}
    <2>1. \A k \in S : ~(k < least)
      BY <1>3
    <2> QED BY <2>1
  <1>5. m # 1
    BY <1>4, FS_EmptySet, <1>2
  <1>6. PICK x \in S : Cardinality(Below(x)) = m - 2
    <2>1. m - 1 \notin Free
      BY <1>2, <1>0
    <2>2. m - 1 \in 1..Cardinality(S)
      BY <1>5, <1>0, <1>2
    <2>3. PICK x \in S : Cardinality(Below(x)) = (m - 1) - 1
      BY <2>1, <2>2
    <2>4. m \in Int
      BY <1>2, <1>0
    <2> HIDE DEF Below
    <2>5. (m - 1) - 1 = m - 2
      BY <2>4
    <2> QED BY <2>3, <2>5
  <1>7. IsFiniteSet(Below(x)) /\ IsFiniteSet(Below(x) \cup {x}) /\ Cardinality(Below(x) \cup {x}) = m - 1
    <2>1. IsFiniteSet(Below(x))
      BY FS_Subset
    <2>2. x \notin Below(x)
      OBVIOUS
    <2> HIDE DEF Below
    <2> QED BY <2>1, <2>2, <1>6, FS_AddElement
  <1>8. S \ (Below(x) \cup {x}) # {}
    <2>1. Below(x) \cup {x} # S
      BY <1>7, <1>2, <1>0
    <2> QED BY <2>1
  <1>9. PICK y \in S \ (Below(x) \cup {x}) : \A k \in S \ (Below(x) \cup {x}) : y <= k
    <2>1. S \ (Below(x) \cup {x}) \in SUBSET Nat
      OBVIOUS
    <2> HIDE DEF Below
    <2> QED BY <2>1, <1>8, Least
  <1>10. Below(y) = Below(x) \cup {x}
    <2>1. x \in Nat /\ y \in Nat /\ y # x /\ ~(y < x)
      BY <1>9
    <2>2. ASSUME NEW k \in Below(y) PROVE k \in Below(x) \cup {x}
      <3>1. k \in S /\ k < y /\ k \in Nat
        BY <2>2
      <3>2. k \in S \ (Below(x) \cup {x}) => y <= k
        BY <1>9
      <3> QED BY <3>1, <3>2, <2>1
    <2>3. ASSUME NEW k \in Below(x) \cup {x} PROVE k \in Below(y)
      <3>1. k \in S /\ k \in Nat /\ k <= x
        BY <2>3, <2>1
      <3> QED BY <3>1, <2>1
    <2> QED BY <2>2, <2>3
  <1> QED
    <2>1. Cardinality(Below(y)) = m - 1
      BY <1>10, <1>7
    <2> QED BY <2>1, <1>2, <1>9

(* The places of a set of numbers, in order, are places of that set.       *)
LEMMA InOrderPlaces ==
  ASSUME NEW S \in SUBSET Nat, IsFiniteSet(S)
  PROVE  /\ Cardinality(S) \in Nat
         /\ DOMAIN InOrder(S) = 1..Cardinality(S)
         /\ \A n \in 1..Cardinality(S) : InOrder(S)[n] \in S
  <1>1. ASSUME NEW n \in 1..Cardinality(S) PROVE InOrder(S)[n] \in S
    <2>1. \E x \in S : Cardinality({j \in S : j < x}) = n - 1
      BY PlaceTaken
    <2>2. InOrder(S)[n] = CHOOSE x \in S : Cardinality({j \in S : j < x}) = n - 1
      BY DEF InOrder, Ranked
    <2> QED BY <2>1, <2>2
  <1> QED
    BY <1>1, FS_CardinalityType DEF InOrder, Ranked

(* The positions of a sequence are finitely many numbers.                  *)
LEMMA PositionsFinite ==
  ASSUME NEW s, IsSeq(s), NEW P \in SUBSET DOMAIN s
  PROVE  IsFiniteSet(P) /\ P \in SUBSET Nat
  <1>1. DOMAIN s = 1..Len(s) /\ Len(s) \in Nat
    BY DEF IsSeq
  <1>2. P \in SUBSET (1..Len(s)) /\ IsFiniteSet(1..Len(s))
    BY <1>1, FS_Interval
  <1>3. IsFiniteSet(P)
    BY <1>2, FS_Subset
  <1> QED BY <1>2, <1>3

(* A function over 1..n is a sequence of length n.                         *)
LEMMA SeqOver ==
  ASSUME NEW n \in Nat, NEW f, DOMAIN f = 1..n, f = [i \in 1..n |-> f[i]]
  PROVE  IsSeq(f) /\ Len(f) = n
  BY DEF IsSeq, Range

(* What is picked stands at one of the positions.                          *)
LEMMA PickedFrom ==
  ASSUME NEW s, IsSeq(s), NEW P \in SUBSET DOMAIN s
  PROVE  /\ IsSeq(Picked(s, P))
         /\ \A n \in DOMAIN Picked(s, P) : \E i \in P : Picked(s, P)[n] = s[i]
         /\ Len(Picked(s, P)) = Cardinality(P)
  <1>1. IsFiniteSet(P) /\ P \in SUBSET Nat
    BY PositionsFinite
  <1>2. /\ Cardinality(P) \in Nat /\ DOMAIN InOrder(P) = 1..Cardinality(P)
        /\ \A n \in 1..Cardinality(P) : InOrder(P)[n] \in P
    BY <1>1, InOrderPlaces
  <1>3. Picked(s, P) = [n \in 1..Cardinality(P) |-> s[InOrder(P)[n]]]
    BY <1>2 DEF Picked
  <1>4. IsSeq(Picked(s, P)) /\ Len(Picked(s, P)) = Cardinality(P)
    BY <1>3, <1>2, SeqOver
  <1> QED BY <1>2, <1>3, <1>4

(* The sequences of a sequence, one after the other.                       *)
LEMMA FlattenExists ==
  ASSUME NEW S, NEW ss \in Seq(Seq(S)), ss # <<>>
  PROVE  \E f : f = [i \in 1..Len(ss) |-> IF i = 1 THEN ss[i] ELSE f[i - 1] \o ss[i]]
  <1> DEFINE Good(n) == \E f : f = [i \in 1..n |-> IF i = 1 THEN ss[i] ELSE f[i - 1] \o ss[i]]
             Bad == {n \in Nat \ {0} : ~Good(n)}
  <1>1. SUFFICES ASSUME Bad # {} PROVE FALSE
    BY EmptySeq, LenProperties
  <1>2. PICK m \in Bad : \A k \in Bad : m <= k
    <2>1. Bad \in SUBSET Nat
      OBVIOUS
    <2> HIDE DEF Bad
    <2> QED BY <2>1, <1>1, Least
  <1>3. CASE m = 1
    <2> DEFINE g == [i \in 1..1 |-> ss[i]]
    <2>0. \A i \in 1..1 : i = 1
      OBVIOUS
    <2>1. g = [i \in 1..1 |-> IF i = 1 THEN ss[i] ELSE g[i - 1] \o ss[i]]
      BY <2>0
    <2>2. Good(1)
      <3> HIDE DEF g
      <3> QED BY <2>1
    <2> QED BY <2>2, <1>2, <1>3
  <1>4. CASE m # 1
    <2>1. m \in Nat /\ m > 1 /\ m - 1 \in Nat \ {0} /\ m - 1 \notin Bad
      <3>1. m \in Nat \ {0}
        BY <1>2
      <3>2. m \in Nat /\ m > 1 /\ m - 1 \in Nat \ {0} /\ ~(m <= m - 1)
        BY <3>1, <1>4
      <3> HIDE DEF Bad
      <3> QED BY <3>2, <1>2
    <2>2. Good(m - 1)
      BY <2>1
    <2>3. PICK f : f = [i \in 1..(m - 1) |-> IF i = 1 THEN ss[i] ELSE f[i - 1] \o ss[i]]
      BY <2>2
    <2> DEFINE g == [i \in 1..m |-> IF i = m THEN f[m - 1] \o ss[m] ELSE f[i]]
    <2>4. \A i \in 1..m : g[i] = IF i = 1 THEN ss[i] ELSE g[i - 1] \o ss[i]
      <3> SUFFICES ASSUME NEW i \in 1..m PROVE g[i] = IF i = 1 THEN ss[i] ELSE g[i - 1] \o ss[i]
        OBVIOUS
      <3>1. CASE i = m
        <4>0. i # 1
          BY <3>1, <2>1
        <4>1. g[i] = f[m - 1] \o ss[m] /\ i # 1
          BY <3>1, <4>0, Zenon
        <4>2. m - 1 \in 1..m /\ m - 1 # m
          BY <2>1
        <4>3. g[m - 1] = f[m - 1]
          BY <4>2
        <4> HIDE DEF g
        <4> QED BY <4>1, <4>3, <3>1
      <3>2. CASE i # m
        <4>1. i \in 1..(m - 1) /\ g[i] = f[i]
          BY <3>2, <2>1
        <4>2. f[i] = IF i = 1 THEN ss[i] ELSE f[i - 1] \o ss[i]
          BY <4>1, <2>3
        <4>3. i # 1 => g[i - 1] = f[i - 1]
          BY <4>1, <2>1
        <4> QED BY <4>1, <4>2, <4>3
      <3> QED BY <3>1, <3>2
    <2>5. g = [i \in 1..m |-> IF i = 1 THEN ss[i] ELSE g[i - 1] \o ss[i]]
      <3> HIDE DEF g
      <3>1. g = [i \in 1..m |-> g[i]]
        BY DEF g
      <3> QED BY <3>1, <2>4
    <2>6. Good(m)
      <3> HIDE DEF g
      <3> QED BY <2>5
    <2> QED BY <2>6, <1>2
  <1> QED BY <1>3, <1>4

(* Flattening has the elements of its parts.                               *)
LEMMA FlattenSeqHas ==
  ASSUME NEW S, NEW ss \in Seq(Seq(S))
  PROVE  /\ FlattenSeq(ss) \in Seq(S)
         /\ Range(FlattenSeq(ss)) = UNION {Range(ss[i]) : i \in DOMAIN ss}
  <1>1. CASE ss = <<>>
    <2>1. FlattenSeq(ss) = <<>>
      BY <1>1 DEF FlattenSeq
    <2> QED BY <2>1, <1>1 DEF Range
  <1>2. CASE ss # <<>>
    <2> DEFINE F == CHOOSE f : f = [i \in 1..Len(ss) |-> IF i = 1 THEN ss[i] ELSE f[i - 1] \o ss[i]]
    <2>1. F = [i \in 1..Len(ss) |-> IF i = 1 THEN ss[i] ELSE F[i - 1] \o ss[i]]
      BY <1>2, FlattenExists
    <2>2. Len(ss) \in Nat \ {0} /\ DOMAIN ss = 1..Len(ss) /\ \A i \in 1..Len(ss) : ss[i] \in Seq(S)
      BY <1>2, EmptySeq, LenProperties
    <2>3. FlattenSeq(ss) = F[Len(ss)]
      BY <2>2 DEF FlattenSeq
    <2> HIDE DEF F
    <2>4. /\ F[1] = ss[1]
          /\ \A i \in 2..Len(ss) : F[i] = F[i - 1] \o ss[i]
      <3>1. \A i \in 1..Len(ss) : F[i] = IF i = 1 THEN ss[i] ELSE F[i - 1] \o ss[i]
        BY <2>1, Zenon
      <3>2. 1 \in 1..Len(ss) /\ \A i \in 2..Len(ss) : i \in 1..Len(ss) /\ i # 1
        BY <2>2
      <3> QED BY <3>1, <3>2
    <2> DEFINE Good(n) == F[n] \in Seq(S) /\ Range(F[n]) = UNION {Range(ss[i]) : i \in 1..n}
               Bad == {n \in 1..Len(ss) : ~Good(n)}
    <2>5. Bad = {}
      <3>1. SUFFICES ASSUME Bad # {} PROVE FALSE
        OBVIOUS
      <3>2. PICK m \in Bad : \A k \in Bad : m <= k
        <4>1. Bad \in SUBSET Nat
          BY <2>2
        <4> HIDE DEF Bad
        <4> QED BY <4>1, <3>1, Least
      <3>3. m # 1
        <4>1. UNION {Range(ss[i]) : i \in 1..1} = Range(ss[1])
          OBVIOUS
        <4>2. Good(1)
          BY <2>4, <2>2, <4>1
        <4> QED BY <3>2, <4>2
      <3>4. m \in 2..Len(ss) /\ m - 1 \in 1..Len(ss) /\ m - 1 \notin Bad
        <4>1. m \in 1..Len(ss) /\ m \in Nat
          BY <3>2, <2>2
        <4>2. m \in 2..Len(ss) /\ m - 1 \in 1..Len(ss) /\ ~(m <= m - 1)
          BY <4>1, <3>3, <2>2
        <4> HIDE DEF Bad
        <4> QED BY <4>2, <3>2
      <3>5. Good(m - 1)
        BY <3>4
      <3>6. F[m] = F[m - 1] \o ss[m] /\ F[m - 1] \in Seq(S) /\ ss[m] \in Seq(S)
        BY <2>4, <3>4, <3>5, <2>2
      <3>7. F[m] \in Seq(S) /\ Range(F[m]) = Range(F[m - 1]) \cup Range(ss[m])
        BY <3>6, ConcatProperties, RangeConcatenation
      <3>8. UNION {Range(ss[i]) : i \in 1..m} = (UNION {Range(ss[i]) : i \in 1..(m - 1)}) \cup Range(ss[m])
        <4>1. 1..m = (1..(m - 1)) \cup {m}
          BY <3>4
        <4> DEFINE I == 1..(m - 1)
                   J == 1..m
        <4>2. J = I \cup {m}
          BY <4>1
        <4> HIDE DEF I, J
        <4>3. UNION {Range(ss[i]) : i \in J} = (UNION {Range(ss[i]) : i \in I}) \cup Range(ss[m])
          BY <4>2
        <4> QED BY <4>3 DEF I, J
      <3>9. Good(m)
        BY <3>5, <3>7, <3>8
      <3> QED BY <3>9, <3>2
    <2>6. Good(Len(ss))
      <3>1. Len(ss) \in 1..Len(ss)
        BY <2>2
      <3>2. Len(ss) \notin Bad
        BY <2>5
      <3> HIDE DEF Good
      <3> QED BY <3>1, <3>2
    <2> QED BY <2>6, <2>3, <2>2
  <1> QED BY <1>1, <1>2

-----------------------------------------------------------------------------
(* Nodes *)

(* The kind and the height of a node follow from the first part of its key. *)
Tags == {"root", "current", "today", "semesters", "timetable", "week", "semester", "course",
         "event", "current-sections", "section", "current-items", "item", "current-material"}

KindOf(tag) ==
    IF tag = "root" THEN "home"
    ELSE IF tag = "current-items" THEN "items"
    ELSE IF tag = "current-sections" THEN "sections"
    ELSE IF tag \in {"item", "current-material"} THEN "resource"
    ELSE tag

Height(tag) ==
    IF tag = "root" THEN 5
    ELSE IF tag \in {"current", "today", "semesters", "timetable"} THEN 4
    ELSE IF tag \in {"week", "semester"} THEN 3
    ELSE IF tag \in {"course", "event", "current-sections"} THEN 2
    ELSE IF tag \in {"section", "current-items"} THEN 1
    ELSE 0

IsKey(key) == key # NoKey /\ key[1] \in Tags /\ (key[1] = "root" => key = Root.key)

IsNode(n) ==
    /\ IsKey(n.key)
    /\ n.kind = KindOf(n.key[1])
    /\ n.resource # Nil <=> n.kind = "resource"
    /\ n.course \in Range(Courses) \cup {Nil}
    /\ n.kind \in {"course", "sections", "section", "items"} => n.course # Nil
    /\ n.kind = "week" => n.week \in Range(Weeks)
    /\ n.byCurrent \in BOOLEAN
    /\ n.byCurrent => n.key[1] = "current-items"

(* A list of nodes below a tag: known by key, and lower than their parent. *)
IsListing(s, height) ==
    /\ IsSeq(s)
    /\ \A i \in DOMAIN s : IsNode(s[i]) /\ Height(s[i].key[1]) < height
    /\ \A i, j \in DOMAIN s : s[i].key = s[j].key => s[i] = s[j]

(* A node without children lists nothing wrong.                            *)
LEMMA EmptyListing ==
  ASSUME NEW height
  PROVE  IsListing(<<>>, height)
  BY DEF IsListing, IsSeq, Range

(* A list is one of children if every entry is a node lower than the one   *)
(* that has the list, and no two entries share a key.                      *)
LEMMA ListingOver ==
  ASSUME NEW n \in Nat, NEW f, f = [i \in 1..n |-> f[i]], NEW height,
         \A i \in 1..n : IsNode(f[i]) /\ Height(f[i].key[1]) < height,
         \A i, j \in 1..n : f[i].key = f[j].key => f[i] = f[j]
  PROVE  IsListing(f, height)
  <1>1. DOMAIN f = 1..n
    OBVIOUS
  <1>2. IsSeq(f)
    BY <1>1, SeqOver
  <1> QED BY <1>1, <1>2 DEF IsListing

(* The root's list is a list of children.                                  *)
LEMMA HomeListing == IsListing(HomeChildren, 5)
  <1> DEFINE h == HomeChildren
  <1>1. /\ h = [i \in 1..4 |-> h[i]]
        /\ h[1] = Node(<<"current">>, "current") /\ h[2] = Node(<<"today">>, "today")
        /\ h[3] = Node(<<"semesters">>, "semesters") /\ h[4] = Node(<<"timetable">>, "timetable")
    BY DEF HomeChildren
  <1> HIDE DEF h
  <1>2. \A i \in 1..4 : i = 1 \/ i = 2 \/ i = 3 \/ i = 4
    OBVIOUS
  <1>3. ASSUME NEW t \in {"current", "today", "semesters", "timetable"}
        PROVE  IsNode(Node(<<t>>, t)) /\ Height(Node(<<t>>, t).key[1]) < 5 /\ Node(<<t>>, t).key = <<t>>
    BY DEF IsNode, IsKey, Node, KindOf, Height, Tags, NoKey
  <1>4. \A i \in 1..4 : IsNode(h[i]) /\ Height(h[i].key[1]) < 5
    BY <1>1, <1>2, <1>3
  <1>5. \A i, j \in 1..4 : h[i].key = h[j].key => h[i] = h[j]
    <2>1. h[1].key = <<"current">> /\ h[2].key = <<"today">> /\ h[3].key = <<"semesters">> /\ h[4].key = <<"timetable">>
      BY <1>1 DEF Node
    <2> QED BY <2>1, <1>2
  <1>6. IsListing(h, 5)
    <2> DEFINE n == 4
               top == 5
    <2>1. n \in Nat /\ h = [i \in 1..n |-> h[i]] /\ \A i \in 1..n : IsNode(h[i]) /\ Height(h[i].key[1]) < top
      BY <1>1, <1>4
    <2>2. \A i, j \in 1..n : h[i].key = h[j].key => h[i] = h[j]
      BY <1>5
    <2> HIDE DEF n, top
    <2>3. IsListing(h, top)
      BY <2>1, <2>2, ListingOver
    <2> QED BY <2>3 DEF top
  <1> QED BY <1>6 DEF h

(* The positions at which something changes or is new.                     *)
LEMMA CourseOfSummary ==
  ASSUME NEW s \in DOMAIN Scores
  PROVE  CourseOf(s) \in Range(Courses) \cup {Nil}
  <1>1. DOMAIN Scores[s] = Range(Courses)
    BY SchoolAssumption
  <1> QED BY <1>1 DEF CourseOf, MatchCourseForLecture

(* The events of a day are a list of children.                             *)
LEMMA EventListing ==
  ASSUME NEW summaries, IsSeq(summaries), \A i \in DOMAIN summaries : summaries[i] \in DOMAIN Scores
  PROVE  IsListing(GroupCalendarEvents(summaries), 3)
  <1> DEFINE starts == InOrder(ChangePositions(summaries))
             n == Cardinality(ChangePositions(summaries))
             list == GroupCalendarEvents(summaries)
  <1>1. ChangePositions(summaries) \in SUBSET DOMAIN summaries
    BY DEF ChangePositions
  <1>2. /\ n \in Nat /\ DOMAIN starts = 1..n
        /\ \A i \in 1..n : starts[i] \in ChangePositions(summaries)
    BY <1>1, PositionsFinite, InOrderPlaces
  <1>3. list = [i \in 1..n |-> [Node(EventKey(i), "event") EXCEPT !.course = CourseOf(summaries[starts[i]])]]
    BY <1>2 DEF GroupCalendarEvents
  <1> HIDE DEF starts, n, list
  <1>4. ASSUME NEW i \in 1..n
        PROVE  IsNode(list[i]) /\ Height(list[i].key[1]) < 3 /\ list[i].key = <<"event", i>>
    <2>1. summaries[starts[i]] \in DOMAIN Scores
      BY <1>1, <1>2
    <2> DEFINE course == CourseOf(summaries[starts[i]])
    <2>2. course \in Range(Courses) \cup {Nil}
      BY <2>1, CourseOfSummary
    <2> HIDE DEF course
    <2>3. list[i] = [Node(EventKey(i), "event") EXCEPT !.course = course]
      BY <1>3 DEF course
    <2> QED BY <2>2, <2>3 DEF IsNode, IsKey, Node, EventKey, KindOf, Height, Tags, NoKey
  <1>5. \A i, j \in 1..n : list[i].key = list[j].key => list[i] = list[j]
    BY <1>4
  <1>6. list = [i \in 1..n |-> list[i]]
    BY <1>3
  <1> QED BY <1>2, <1>4, <1>5, <1>6, ListingOver DEF list

(* The weeks are a list of children.                                       *)
LEMMA WeekListing == IsListing(TimetableWeekChildren, 4)
  <1> DEFINE n == Len(Weeks)
             list == TimetableWeekChildren
  <1>1. n \in Nat /\ DOMAIN Weeks = 1..n /\ \A i \in 1..n : Weeks[i] \in Range(Weeks)
    BY SchoolAssumption DEF Range
  <1>2. list = [i \in 1..n |-> [Node(<<"week", Weeks[i]>>, "week") EXCEPT !.week = Weeks[i]]]
    BY <1>1 DEF TimetableWeekChildren
  <1> HIDE DEF n, list
  <1>3. ASSUME NEW i \in 1..n
        PROVE  IsNode(list[i]) /\ Height(list[i].key[1]) < 4 /\ list[i].key = <<"week", Weeks[i]>>
    <2>1. list[i] = [Node(<<"week", Weeks[i]>>, "week") EXCEPT !.week = Weeks[i]]
      BY <1>2
    <2> QED BY <1>1, <2>1 DEF IsNode, IsKey, Node, KindOf, Height, Tags, NoKey
  <1>4. \A i, j \in 1..n : list[i].key = list[j].key => list[i] = list[j]
    <2>1. \A i \in 1..n : list[i].key[2] = Weeks[i]
      BY <1>3
    <2>2. \A i, j \in 1..n : Weeks[i] = Weeks[j] => list[i] = list[j]
      BY <1>2, Zenon
    <2> QED BY <2>1, <2>2
  <1>5. list = [i \in 1..n |-> list[i]]
    BY <1>2
  <1> QED BY <1>1, <1>3, <1>4, <1>5, ListingOver DEF list

(* The image of a finite set is finite.                                    *)
LEMMA ImageFinite ==
  ASSUME NEW S, IsFiniteSet(S), NEW f, f = [x \in S |-> f[x]]
  PROVE  IsFiniteSet({f[x] : x \in S})
  <1>1. f \in Surjection(S, {f[x] : x \in S})
    BY DEF Surjection
  <1> QED BY <1>1, FS_Surjection

(* The courses are finitely many.                                          *)
LEMMA CoursesFinite == IsFiniteSet(Range(Courses)) /\ Len(Courses) \in Nat /\ DOMAIN Courses = 1..Len(Courses)
  <1>1. Len(Courses) \in Nat /\ DOMAIN Courses = 1..Len(Courses)
    BY SchoolAssumption
  <1>2. IsFiniteSet(1..Len(Courses))
    BY <1>1, FS_Interval
  <1>3. Range(Courses) = {Courses[i] : i \in 1..Len(Courses)}
    BY <1>1 DEF Range
  <1>4. IsFiniteSet({Courses[i] : i \in 1..Len(Courses)})
    <2>1. Courses = [i \in 1..Len(Courses) |-> Courses[i]]
      BY SchoolAssumption
    <2> QED BY <1>2, <2>1, ImageFinite
  <1> QED BY <1>1, <1>3, <1>4

(* The semesters are a list of children.                                   *)
LEMMA SemesterListing == IsListing(SemesterChildren, 4)
  <1> DEFINE S == {Semester[c] : c \in Range(Courses)}
             newest == Ranked(S, >)
             n == Cardinality(S)
             list == SemesterChildren
  <1>1. IsFiniteSet(S)
    <2> DEFINE f == [c \in Range(Courses) |-> Semester[c]]
    <2>1. f = [c \in Range(Courses) |-> f[c]]
      OBVIOUS
    <2>2. S = {f[c] : c \in Range(Courses)}
      OBVIOUS
    <2> HIDE DEF f
    <2> QED BY <2>1, <2>2, CoursesFinite, ImageFinite
  <1>2. n \in Nat /\ DOMAIN newest = 1..n
    BY <1>1, FS_CardinalityType DEF Ranked
  <1>3. list = [i \in 1..n |-> [Node(<<"semester", newest[i]>>, "semester") EXCEPT !.semester = newest[i]]]
    BY <1>2 DEF SemesterChildren
  <1> HIDE DEF n, list, newest, S
  <1>4. ASSUME NEW i \in 1..n
        PROVE  IsNode(list[i]) /\ Height(list[i].key[1]) < 4 /\ list[i].key = <<"semester", newest[i]>>
    <2>1. list[i] = [Node(<<"semester", newest[i]>>, "semester") EXCEPT !.semester = newest[i]]
      BY <1>3
    <2> QED BY <2>1 DEF IsNode, IsKey, Node, KindOf, Height, Tags, NoKey
  <1>5. \A i, j \in 1..n : list[i].key = list[j].key => list[i] = list[j]
    <2>1. \A i \in 1..n : list[i].key[2] = newest[i]
      BY <1>4
    <2>2. \A i, j \in 1..n : newest[i] = newest[j] => list[i] = list[j]
      BY <1>3, Zenon
    <2> QED BY <2>1, <2>2
  <1>6. list = [i \in 1..n |-> list[i]]
    BY <1>3
  <1> QED BY <1>2, <1>4, <1>5, <1>6, ListingOver DEF list

(* A semester's courses are a list of children.                            *)
LEMMA CourseListing ==
  ASSUME NEW semester
  PROVE  IsListing(CourseListChildren(semester), 3)
  <1> DEFINE P == {i \in DOMAIN Courses : Semester[Courses[i]] = semester}
             here == Picked(Courses, P)
             n == Len(here)
             list == CourseListChildren(semester)
  <1>1. IsSeq(Courses) /\ P \in SUBSET DOMAIN Courses
    BY SchoolAssumption DEF IsSeq
  <1>2. IsSeq(here) /\ \A i \in DOMAIN here : \E j \in P : here[i] = Courses[j]
    <2> HIDE DEF P
    <2> QED BY <1>1, PickedFrom
  <1>3. n \in Nat /\ DOMAIN here = 1..n /\ \A i \in 1..n : here[i] \in Range(Courses)
    BY <1>2 DEF IsSeq, Range
  <1>4. list = [i \in 1..n |-> [Node(<<"course", here[i]>>, "course") EXCEPT !.course = here[i]]]
    BY <1>3 DEF CourseListChildren
  <1> HIDE DEF n, list, here, P
  <1>5. ASSUME NEW i \in 1..n
        PROVE  IsNode(list[i]) /\ Height(list[i].key[1]) < 3 /\ list[i].key = <<"course", here[i]>>
    <2>1. list[i] = [Node(<<"course", here[i]>>, "course") EXCEPT !.course = here[i]]
      BY <1>4
    <2>2. here[i] \in Range(Courses) /\ here[i] # Nil
      BY <1>3, SchoolAssumption
    <2> QED BY <2>1, <2>2 DEF IsNode, IsKey, Node, KindOf, Height, Tags, NoKey
  <1>6. \A i, j \in 1..n : list[i].key = list[j].key => list[i] = list[j]
    <2>1. \A i \in 1..n : list[i].key[2] = here[i]
      BY <1>5
    <2>2. \A i, j \in 1..n : here[i] = here[j] => list[i] = list[j]
      BY <1>4, Zenon
    <2> QED BY <2>1, <2>2
  <1>7. list = [i \in 1..n |-> list[i]]
    BY <1>4
  <1> QED BY <1>3, <1>5, <1>6, <1>7, ListingOver DEF list

(* A course's resources are a sequence.                                    *)
LEMMA ResourcesOf ==
  ASSUME NEW c \in Range(Courses)
  PROVE  IsSeq(Resources[c]) /\ \A i \in DOMAIN Resources[c] : Resources[c][i] # Nil
  <1>1. \A i \in DOMAIN Resources[c] : Resources[c][i] \in Range(Resources[c])
    BY DEF Range
  <1> QED BY <1>1, SchoolAssumption DEF IsSeq

(* A course's sections are a list of children.                             *)
LEMMA SectionListing ==
  ASSUME NEW node, node.course \in Range(Courses) \cup {Nil}
  PROVE  IsListing(SectionChildren(node), 2)
  <1>1. CASE node.course = Nil
    BY <1>1, EmptyListing DEF SectionChildren
  <1>2. CASE node.course # Nil
    <2> DEFINE sections == [i \in DOMAIN Resources[node.course] |-> Resources[node.course][i].section]
               first == InOrder(FirstPositions(sections))
               n == Cardinality(FirstPositions(sections))
               list == SectionChildren(node)
    <2>1. IsSeq(Resources[node.course])
      BY <1>2, ResourcesOf
    <2>2. FirstPositions(sections) \in SUBSET DOMAIN Resources[node.course]
      BY DEF FirstPositions
    <2> HIDE DEF sections
    <2>3. n \in Nat /\ DOMAIN first = 1..n
      BY <2>1, <2>2, PositionsFinite, InOrderPlaces
    <2>4. list = [i \in 1..n |-> [Node(<<"section", node.key, i>>, "section")
                                     EXCEPT !.course = node.course, !.section = sections[first[i]]]]
      BY <1>2, <2>3 DEF SectionChildren, sections
    <2> HIDE DEF first, n, list
    <2>5. ASSUME NEW i \in 1..n
          PROVE  IsNode(list[i]) /\ Height(list[i].key[1]) < 2 /\ list[i].key = <<"section", node.key, i>>
      <3> DEFINE section == sections[first[i]]
                 course == node.course
                 key == node.key
      <3>1. list[i] = [Node(<<"section", key, i>>, "section") EXCEPT !.course = course, !.section = section]
        BY <2>4
      <3>2. course \in Range(Courses) /\ course # Nil
        BY <1>2
      <3> HIDE DEF section, course, key
      <3>3. IsNode(list[i]) /\ Height(list[i].key[1]) < 2 /\ list[i].key = <<"section", key, i>>
        BY <3>1, <3>2 DEF IsNode, IsKey, Node, KindOf, Height, Tags, NoKey
      <3> QED BY <3>3 DEF key
    <2>6. \A i, j \in 1..n : list[i].key = list[j].key => list[i] = list[j]
      <3>1. \A i \in 1..n : list[i].key[3] = i
        BY <2>5
      <3> QED BY <3>1
    <2>7. list = [i \in 1..n |-> list[i]]
      BY <2>4
    <2> QED BY <2>3, <2>5, <2>6, <2>7, ListingOver DEF list
  <1> QED BY <1>1, <1>2

(* What the service holds of a lecture.                                    *)
IsResult(result) ==
    /\ result.course \in Range(Courses) \cup {Nil}
    /\ IsSeq(result.order)

(* The pieces of two sequences, one after the other.                       *)
LEMMA JoinedFrom ==
  ASSUME NEW s, IsSeq(s), NEW t, IsSeq(t), NEW S, \A i \in DOMAIN s : s[i] \in S, \A i \in DOMAIN t : t[i] \in S
  PROVE  IsSeq(s \o t) /\ \A i \in DOMAIN (s \o t) : (s \o t)[i] \in S
  <1>1. s \in Seq(S) /\ t \in Seq(S)
    BY DEF IsSeq, Range
  <1> DEFINE u == s \o t
  <1>2. u \in Seq(S)
    BY <1>1, ConcatProperties
  <1> HIDE DEF u
  <1>3. \A i \in DOMAIN u : u[i] \in S
    BY <1>2
  <1>4. IsSeq(u)
    BY <1>2 DEF IsSeq, Range
  <1> QED BY <1>3, <1>4 DEF u

(* A part of a list holds what the list holds.                             *)
LEMMA PickedIn ==
  ASSUME NEW s, IsSeq(s), NEW P \in SUBSET DOMAIN s, NEW S, \A i \in P : s[i] \in S
  PROVE  IsSeq(Picked(s, P)) /\ \A i \in DOMAIN Picked(s, P) : Picked(s, P)[i] \in S
  BY PickedFrom

(* Ordering the files of a course brings none that was not listed.         *)
LEMMA OrderedFiles ==
  ASSUME NEW listed, IsSeq(listed), NEW order, IsSeq(order)
  PROVE  /\ IsSeq(OrderedFileResources(listed, order))
         /\ \A i \in DOMAIN OrderedFileResources(listed, order) : OrderedFileResources(listed, order)[i] \in Range(listed)
  <1> DEFINE F == {i \in DOMAIN listed : listed[i].type = "resource"}
             files == Files(listed)
             R == {i \in DOMAIN order : order[i] \in Range(files)}
             ranked == Picked(order, R)
             O == {i \in DOMAIN files : files[i] \notin Range(ranked)}
             others == Picked(files, O)
  <1>1. files = Picked(listed, F) /\ F \in SUBSET DOMAIN listed /\ \A i \in F : listed[i] \in Range(listed)
    BY DEF Files, Range
  <1> HIDE DEF F
  <1>2. IsSeq(files) /\ \A i \in DOMAIN files : files[i] \in Range(listed)
    BY <1>1, PickedIn
  <1> HIDE DEF files
  <1>3. R \in SUBSET DOMAIN order /\ \A i \in R : order[i] \in Range(listed)
    BY <1>2 DEF Range
  <1>4. O \in SUBSET DOMAIN files /\ \A i \in O : files[i] \in Range(listed)
    BY <1>2
  <1> HIDE DEF R, O
  <1>5. IsSeq(ranked) /\ \A i \in DOMAIN ranked : ranked[i] \in Range(listed)
    BY <1>3, PickedIn
  <1>6. IsSeq(others) /\ \A i \in DOMAIN others : others[i] \in Range(listed)
    BY <1>2, <1>4, PickedIn
  <1>7. OrderedFileResources(listed, order) = ranked \o others
    BY DEF OrderedFileResources, files, R, O
  <1> HIDE DEF ranked, others
  <1> QED BY <1>5, <1>6, <1>7, JoinedFrom

(* Nor does the order of the current lecture.                              *)
LEMMA SortedResources ==
  ASSUME NEW course, NEW listed, IsSeq(listed), NEW result, result # Nil => IsResult(result)
  PROVE  /\ IsSeq(CurrentSortedResources(course, listed, result))
         /\ \A i \in DOMAIN CurrentSortedResources(course, listed, result) :
               CurrentSortedResources(course, listed, result)[i] \in Range(listed)
  <1> DEFINE sorted == CurrentSortedResources(course, listed, result)
  <1>1. \A i \in DOMAIN listed : listed[i] \in Range(listed)
    BY DEF Range
  <1>2. CASE result = Nil \/ result.course # course
    BY <1>1, <1>2 DEF CurrentSortedResources
  <1>3. CASE ~(result = Nil \/ result.course # course)
    <2> DEFINE files == OrderedFileResources(listed, result.order)
               O == {i \in DOMAIN listed : listed[i] \notin Range(files)}
               others == Picked(listed, O)
    <2>1. IsSeq(files) /\ \A i \in DOMAIN files : files[i] \in Range(listed)
      BY <1>3, OrderedFiles DEF IsResult
    <2> HIDE DEF files
    <2>2. O \in SUBSET DOMAIN listed /\ \A i \in O : listed[i] \in Range(listed)
      BY <1>1
    <2> HIDE DEF O
    <2>3. IsSeq(others) /\ \A i \in DOMAIN others : others[i] \in Range(listed)
      BY <2>2, PickedIn
    <2>4. sorted = files \o others
      BY <1>3 DEF CurrentSortedResources, files, O
    <2> HIDE DEF sorted, others
    <2>5. IsSeq(sorted) /\ \A i \in DOMAIN sorted : sorted[i] \in Range(listed)
      BY <2>1, <2>3, <2>4, JoinedFrom
    <2> QED BY <2>5 DEF sorted
  <1> QED BY <1>2, <1>3

(* A section's items are a list of children.                               *)
LEMMA ItemListing ==
  ASSUME NEW node, node.course \in Range(Courses), NEW result, result # Nil => IsResult(result)
  PROVE  IsListing(ItemChildren(node, result), 1)
  <1> DEFINE listed == Resources[node.course]
             P == {i \in DOMAIN listed : node.section \in {Nil, listed[i].section}}
             here == Picked(listed, P)
             shown == IF node.byCurrent THEN CurrentSortedResources(node.course, here, result) ELSE here
             n == Len(shown)
             list == ItemChildren(node, result)
  <1>1. IsSeq(listed) /\ \A i \in DOMAIN listed : listed[i] # Nil
    BY ResourcesOf
  <1> HIDE DEF listed
  <1>2. P \in SUBSET DOMAIN listed
    OBVIOUS
  <1> HIDE DEF P
  <1>3. IsSeq(here) /\ \A i \in DOMAIN here : here[i] # Nil
    BY <1>1, <1>2, PickedFrom
  <1> HIDE DEF here
  <1>4. IsSeq(shown) /\ \A i \in DOMAIN shown : shown[i] \in Range(here)
    <2>1. \A i \in DOMAIN here : here[i] \in Range(here)
      BY DEF Range
    <2> QED BY <1>3, <2>1, SortedResources
  <1> HIDE DEF shown
  <1>5. n \in Nat /\ DOMAIN shown = 1..n /\ \A i \in 1..n : shown[i] # Nil
    BY <1>3, <1>4 DEF IsSeq, Range
  <1>6. list = [i \in 1..n |-> [Node(<<"item", node.key, i, shown[i].id>>, "resource")
                                   EXCEPT !.course = node.course, !.resource = shown[i]]]
    BY <1>5 DEF ItemChildren, shown, here, P, listed
  <1> HIDE DEF n, list
  <1>7. ASSUME NEW i \in 1..n
        PROVE  IsNode(list[i]) /\ Height(list[i].key[1]) < 1 /\ list[i].key[3] = i
    <2> DEFINE r == shown[i]
               id == shown[i].id
               course == node.course
               key == node.key
    <2>1. list[i] = [Node(<<"item", key, i, id>>, "resource") EXCEPT !.course = course, !.resource = r]
      BY <1>6
    <2>2. course \in Range(Courses) /\ course # Nil /\ r # Nil
      BY <1>5, SchoolAssumption
    <2> HIDE DEF r, id, course, key
    <2> QED BY <2>1, <2>2 DEF IsNode, IsKey, Node, KindOf, Height, Tags, NoKey
  <1>8. \A i, j \in 1..n : list[i].key = list[j].key => list[i] = list[j]
    BY <1>7
  <1>9. list = [i \in 1..n |-> list[i]]
    BY <1>6
  <1> QED BY <1>5, <1>7, <1>8, <1>9, ListingOver DEF list

(* The parts of the current lecture are a list of children.                *)
LEMMA CurrentListing ==
  ASSUME NEW result, IsResult(result)
  PROVE  IsListing(CurrentChildren(result), 4)
  <1> DEFINE course == result.course
             r == result.material
             id == result.material.id
             items == [Node(<<"current-items">>, "items") EXCEPT !.course = course, !.byCurrent = TRUE]
             sections == [Node(<<"current-sections">>, "sections") EXCEPT !.course = course]
             material == [Node(<<"current-material", id>>, "resource") EXCEPT !.course = course, !.resource = r]
             list == CurrentChildren(result)
  <1>1. CASE course = Nil
    BY <1>1, EmptyListing DEF CurrentChildren
  <1>2. CASE course # Nil
    <2>1. course \in Range(Courses) /\ course # Nil
      BY <1>2 DEF IsResult
    <2>2. list = IF r = Nil THEN << items, sections >> ELSE << material, items, sections >>
      BY <1>2 DEF CurrentChildren
    <2> HIDE DEF course, r, id, list
    <2>3. IsNode(items) /\ Height(items.key[1]) < 4 /\ items.key = <<"current-items">>
      BY <2>1 DEF IsNode, IsKey, Node, KindOf, Height, Tags, NoKey
    <2>4. IsNode(sections) /\ Height(sections.key[1]) < 4 /\ sections.key = <<"current-sections">>
      BY <2>1 DEF IsNode, IsKey, Node, KindOf, Height, Tags, NoKey
    <2>5. r # Nil => IsNode(material) /\ Height(material.key[1]) < 4 /\ material.key = <<"current-material", id>>
      BY <2>1 DEF IsNode, IsKey, Node, KindOf, Height, Tags, NoKey
    <2> DEFINE two == << items, sections >>
               three == << material, items, sections >>
    <2>6. /\ two = [i \in 1..2 |-> two[i]] /\ two[1] = items /\ two[2] = sections
          /\ three = [i \in 1..3 |-> three[i]] /\ three[1] = material /\ three[2] = items /\ three[3] = sections
          /\ \A i \in 1..2 : i = 1 \/ i = 2
          /\ \A i \in 1..3 : i = 1 \/ i = 2 \/ i = 3
      OBVIOUS
    <2>7. list = IF r = Nil THEN two ELSE three
      BY <2>2
    <2>8. /\ <<"current-items">> # <<"current-sections">>
          /\ <<"current-material", id>> # <<"current-sections">>
          /\ <<"current-material", id>> # <<"current-items">>
      OBVIOUS
    <2> DEFINE top == 4
    <2> HIDE DEF two, three, items, sections, material
    <2>9. CASE r = Nil
      <3> DEFINE n == 2
      <3>1. n \in Nat /\ two = [i \in 1..n |-> two[i]] /\ \A i \in 1..n : IsNode(two[i]) /\ Height(two[i].key[1]) < top
        BY <2>3, <2>4, <2>6
      <3>2. \A i, j \in 1..n : two[i].key = two[j].key => two[i] = two[j]
        BY <2>3, <2>4, <2>6, <2>8
      <3> HIDE DEF n, top
      <3>3. IsListing(two, top)
        BY <3>1, <3>2, ListingOver
      <3> QED BY <3>3, <2>7, <2>9 DEF list, top
    <2>10. CASE r # Nil
      <3> DEFINE n == 3
      <3>1. n \in Nat /\ three = [i \in 1..n |-> three[i]] /\ \A i \in 1..n : IsNode(three[i]) /\ Height(three[i].key[1]) < top
        BY <2>3, <2>4, <2>5, <2>6, <2>10
      <3>2. \A i, j \in 1..n : three[i].key = three[j].key => three[i] = three[j]
        BY <2>3, <2>4, <2>5, <2>6, <2>8, <2>10
      <3> HIDE DEF n, top
      <3>3. IsListing(three, top)
        BY <3>1, <3>2, ListingOver
      <3> QED BY <3>3, <2>7, <2>10 DEF list, top
    <2> QED BY <2>9, <2>10
  <1> QED BY <1>1, <1>2

(* Today's events, as the service holds them.                              *)
IsDay(events) ==
    /\ IsSeq(events)
    /\ \A e \in Range(events) : e.start \in Nat /\ e.summary \in DOMAIN Scores

(* The earliest event is one of the events.                                *)
LEMMA EarliestIn ==
  ASSUME NEW E, E # {}, \A e \in E : e.start \in Nat /\ e.summary \in Nat
  PROVE  Earliest(E) \in E
  <1> DEFINE starts == {e.start : e \in E}
  <1>1. PICK s \in starts : \A t \in starts : s <= t
    <2>1. starts \in SUBSET Nat /\ starts # {}
      OBVIOUS
    <2> HIDE DEF starts
    <2> QED BY <2>1, Least
  <1> DEFINE summaries == {e.summary : e \in {d \in E : d.start = s}}
  <1>2. PICK m \in summaries : \A t \in summaries : m <= t
    <2>1. summaries \in SUBSET Nat /\ summaries # {}
      BY <1>1
    <2> HIDE DEF summaries
    <2> QED BY <2>1, Least
  <1>3. PICK e \in E : e.start = s /\ e.summary = m
    BY <1>2
  <1>4. ASSUME NEW f \in E PROVE ~Before(f, e)
    <2>1. s <= f.start /\ (f.start = s => m <= f.summary)
      BY <1>1, <1>2
    <2> QED BY <2>1, <1>3 DEF Before
  <1> QED BY <1>4 DEF Earliest

(* A ranking of the files of a course is a sequence.                       *)
LEMMA RankedFiles ==
  ASSUME NEW course \in Range(Courses)
  PROVE  IsSeq(RankCurrentLectureResources(Range(Resources[course])))
  <1> DEFINE all == Resources[course]
             files == FileResources(Range(all))
             n == Cardinality(files)
             order == RankCurrentLectureResources(Range(all))
  <1>1. IsFiniteSet(files)
    <2>0. IsSeq(all)
      BY ResourcesOf
    <2> HIDE DEF all
    <2> DEFINE m == Len(all)
    <2>1. m \in Nat /\ all = [i \in 1..m |-> all[i]]
      BY <2>0 DEF IsSeq
    <2> HIDE DEF m
    <2>2. IsFiniteSet(1..m)
      BY <2>1, FS_Interval
    <2>3. IsFiniteSet({all[i] : i \in 1..m})
      BY <2>1, <2>2, ImageFinite
    <2>4. files \in SUBSET {all[i] : i \in 1..m}
      BY <2>1 DEF FileResources, Range
    <2> HIDE DEF files
    <2> QED BY <2>3, <2>4, FS_Subset
  <1>2. n \in Nat
    BY <1>1, FS_CardinalityType
  <1>3. order = [i \in 1..n |-> order[i]]
    BY DEF RankCurrentLectureResources, Ranked
  <1> HIDE DEF order, n
  <1>4. IsSeq(order)
    BY <1>2, <1>3, SeqOver
  <1> QED BY <1>4 DEF order

(* What is found about the current lecture is a result.                    *)
LEMMA CurrentResultIs ==
  ASSUME NEW events, IsDay(events), NEW fails \in BOOLEAN
  PROVE  IsResult(CurrentResult(events, fails))
  <1> DEFINE event == SelectCurrentLectureEvent(Range(events), Now)
             course == IF event = Nil THEN Nil ELSE CourseOf(event.summary)
             resources == IF course = Nil THEN {} ELSE Range(Resources[course])
             result == CurrentResult(events, fails)
  <1>1. event \in Range(events) \cup {Nil}
    <2>1. \A E \in SUBSET Range(events) : E # {} => Earliest(E) \in E
      <3>1. \A e \in Range(events) : e.start \in Nat /\ e.summary \in Nat
        BY SchoolAssumption DEF IsDay
      <3> QED BY <3>1, EarliestIn
    <2> DEFINE active == {e \in Range(events) : e.start <= Now /\ Now <= e.end}
               later == {e \in Range(events) : e.start > Now /\ SameLocalDay(e.start, Now)}
    <2>2. event = IF active # {} THEN Earliest(active) ELSE IF later # {} THEN Earliest(later) ELSE Nil
      BY DEF SelectCurrentLectureEvent
    <2>3. active \in SUBSET Range(events) /\ later \in SUBSET Range(events)
      OBVIOUS
    <2> HIDE DEF active, later, event
    <2> QED BY <2>1, <2>2, <2>3
  <1> HIDE DEF event
  <1>2. course \in Range(Courses) \cup {Nil}
    BY <1>1, CourseOfSummary DEF IsDay
  <1>3. result = BuildCurrentLectureResult(course, resources, fails)
    BY DEF CurrentResult, event
  <1> HIDE DEF course, result, resources
  <1>4. result.course = course /\ (result.order = <<>> \/ (course # Nil /\ result.order = RankCurrentLectureResources(resources)))
    <2> DEFINE best == SelectBestCurrentLectureMaterial(FileResources(resources))
               order == RankCurrentLectureResources(resources)
    <2>1. result = IF course = Nil \/ fails
                   THEN [course |-> course, material |-> Nil, order |-> <<>>]
                   ELSE [course |-> course, material |-> best, order |-> order]
      BY <1>3 DEF BuildCurrentLectureResult
    <2> HIDE DEF best
    <2>2. CASE course = Nil \/ fails
      <3>1. result = [course |-> course, material |-> Nil, order |-> <<>>]
        BY <2>1, <2>2
      <3> QED BY <3>1
    <2>3. CASE ~(course = Nil \/ fails)
      <3>1. result = [course |-> course, material |-> best, order |-> order]
        BY <2>1, <2>3
      <3> QED BY <3>1, <2>3
    <2> QED BY <2>2, <2>3
  <1>5. IsSeq(<<>>)
    BY DEF IsSeq
  <1>6. course # Nil => IsSeq(RankCurrentLectureResources(resources))
    BY <1>2, RankedFiles DEF resources
  <1>7. IsResult(result)
    BY <1>2, <1>4, <1>5, <1>6 DEF IsResult
  <1> QED BY <1>7 DEF result

(* The day's summaries are summaries that can be scored.                   *)
LEMMA SummariesOf ==
  ASSUME NEW events, IsDay(events)
  PROVE  IsSeq(Summaries(events)) /\ \A i \in DOMAIN Summaries(events) : Summaries(events)[i] \in DOMAIN Scores
  <1>1. Len(events) \in Nat /\ DOMAIN events = 1..Len(events) /\ \A i \in DOMAIN events : events[i] \in Range(events)
    BY DEF IsDay, IsSeq, Range
  <1> DEFINE s == Summaries(events)
             n == Len(events)
  <1>2. s = [i \in 1..n |-> events[i].summary]
    BY <1>1 DEF Summaries
  <1> HIDE DEF s, n
  <1>3. s = [i \in 1..n |-> s[i]] /\ \A i \in 1..n : s[i] = events[i].summary
    BY <1>2
  <1>4. IsSeq(s)
    BY <1>1, <1>3, SeqOver DEF n
  <1> QED BY <1>1, <1>3, <1>4 DEF s, n, IsDay

(* What a node's children are, whenever they can be put together.          *)
LEMMA ChildrenListing ==
  ASSUME NEW node, IsNode(node), NEW today, IsDay(today), NEW current,
         node.kind = "current" => IsResult(current), current # Nil => IsResult(current)
  PROVE  IsListing(Children(node, today, current), Height(node.key[1]))
  <1>1. node.key[1] \in Tags /\ node.kind = KindOf(node.key[1])
    BY DEF IsNode, IsKey
  <1> DEFINE tag == node.key[1]
             kind == node.kind
  <1>2. /\ kind = "home" => Height(tag) = 5
        /\ kind \in {"current", "timetable", "semesters", "today"} => Height(tag) = 4
        /\ kind \in {"week", "semester"} => Height(tag) = 3
        /\ kind \in {"course", "sections", "event"} => Height(tag) = 2
        /\ kind \in {"section", "items"} => Height(tag) = 1
    BY <1>1 DEF Tags, KindOf, Height
  <1>3. CASE kind = "home"
    BY <1>2, <1>3, HomeListing DEF Children
  <1>4. CASE kind = "current"
    BY <1>2, <1>4, CurrentListing DEF Children
  <1>5. CASE kind = "today"
    <2>1. IsListing(GroupCalendarEvents(Summaries(today)), 3)
      BY SummariesOf, EventListing
    <2>2. IsListing(GroupCalendarEvents(Summaries(today)), 4)
      <3>1. \A s : IsListing(s, 3) => IsListing(s, 4)
        <4> SUFFICES ASSUME NEW s, IsListing(s, 3) PROVE IsListing(s, 4)
          OBVIOUS
        <4>1. \A i \in DOMAIN s : Height(s[i].key[1]) < 3 => Height(s[i].key[1]) < 4
          BY DEF Height
        <4> QED BY <4>1 DEF IsListing
      <3> QED BY <2>1, <3>1
    <2> QED BY <1>2, <1>5, <2>2 DEF Children
  <1>6. CASE kind = "timetable"
    BY <1>2, <1>6, WeekListing DEF Children
  <1>7. CASE kind = "week"
    <2>1. Calendar[node.week] \in Seq(DOMAIN Scores)
      BY <1>7, SchoolAssumption DEF IsNode
    <2> DEFINE s == Calendar[node.week]
    <2> HIDE DEF s
    <2>2. IsSeq(s) /\ \A i \in DOMAIN s : s[i] \in DOMAIN Scores
      BY <2>1 DEF IsSeq, Range, s
    <2>3. IsListing(GroupCalendarEvents(s), 3)
      BY <2>2, EventListing
    <2> QED BY <1>2, <1>7, <2>3 DEF Children, s
  <1>8. CASE kind = "semesters"
    BY <1>2, <1>8, SemesterListing DEF Children
  <1>9. CASE kind = "semester"
    <2>1. IsListing(CourseListChildren(node.semester), 3)
      BY CourseListing
    <2> QED BY <1>2, <1>9, <2>1 DEF Children
  <1>10. CASE kind \in {"course", "sections", "event"}
    <2>1. IsListing(SectionChildren(node), 2)
      BY SectionListing DEF IsNode
    <2> QED BY <1>2, <1>10, <2>1 DEF Children
  <1>11. CASE kind \in {"section", "items"}
    <2>1. IsListing(ItemChildren(node, current), 1)
      BY <1>11, ItemListing DEF IsNode
    <2> QED BY <1>2, <1>11, <2>1 DEF Children
  <1>12. CASE kind = "resource"
    <2>1. Children(node, today, current) = <<>>
      BY <1>12 DEF Children
    <2> QED BY <2>1, EmptyListing
  <1> QED BY <1>1, <1>3, <1>4, <1>5, <1>6, <1>7, <1>8, <1>9, <1>10, <1>11, <1>12 DEF Tags, KindOf

-----------------------------------------------------------------------------
(* The tree the model keeps *)

(* A node as the model knows it: a key that one list has is that node.     *)
KnownIn(u, n) ==
    /\ IsNode(n)
    /\ n.key \in DOMAIN u.nodes
    /\ n.key \notin SharedKeys(u) => u.nodes[n.key] = n

IsTree(u) ==
    /\ DOMAIN u.parent = DOMAIN u.nodes
    /\ Root.key \in DOMAIN u.nodes /\ u.nodes[Root.key] = Root /\ u.parent[Root.key] = NoKey
    /\ \A k \in DOMAIN u.nodes : IsNode(u.nodes[k]) /\ u.nodes[k].key = k
    /\ \A p \in DOMAIN u.kids :
          /\ p \in DOMAIN u.nodes
          /\ IsListing(u.kids[p], Height(p[1]))
          /\ \A i \in DOMAIN u.kids[p] : KnownIn(u, u.kids[p][i])
    /\ \A k \in DOMAIN u.nodes \ {Root.key} : u.parent[k] \in DOMAIN u.kids /\ k \in Keys(u.kids[u.parent[k]])

(* The step from a key to its parent.                                      *)
ParentOf(u, k) == IF k \in DOMAIN u.parent THEN u.parent[k] ELSE NoKey

(* The tree is at most six steps high.                                     *)
LEMMA Steps6 == Depth = 6 /\ 0..Depth = {0, 1, 2, 3, 4, 5, 6} /\ 1..Depth = {1, 2, 3, 4, 5, 6}
  BY DEF Depth

(* Ancestors go from parent to parent.                                     *)
LEMMA AncestorsAre ==
  ASSUME NEW u, NEW key
  PROVE  /\ DOMAIN Ancestors(u, key) = 0..Depth
         /\ Ancestors(u, key)[0] = key
         /\ \A n \in 1..Depth : Ancestors(u, key)[n] = ParentOf(u, Ancestors(u, key)[n - 1])
  <1> DEFINE a1 == ParentOf(u, key)
             a2 == ParentOf(u, a1)
             a3 == ParentOf(u, a2)
             a4 == ParentOf(u, a3)
             a5 == ParentOf(u, a4)
             a6 == ParentOf(u, a5)
             f == [n \in 0..Depth |-> IF n = 0 THEN key ELSE IF n = 1 THEN a1 ELSE IF n = 2 THEN a2
                                      ELSE IF n = 3 THEN a3 ELSE IF n = 4 THEN a4 ELSE IF n = 5 THEN a5 ELSE a6]
  <1>1. /\ f[0] = key /\ f[1] = a1 /\ f[2] = a2 /\ f[3] = a3 /\ f[4] = a4 /\ f[5] = a5 /\ f[6] = a6
        /\ DOMAIN f = 0..Depth /\ f = [n \in 0..Depth |-> f[n]]
    <2> HIDE DEF a1, a2, a3, a4, a5, a6
    <2> QED BY Steps6
  <1>2. /\ f[1] = ParentOf(u, f[0]) /\ f[2] = ParentOf(u, f[1]) /\ f[3] = ParentOf(u, f[2])
        /\ f[4] = ParentOf(u, f[3]) /\ f[5] = ParentOf(u, f[4]) /\ f[6] = ParentOf(u, f[5])
    <2> HIDE DEF f
    <2> QED BY <1>1
  <1> HIDE DEF f
  <1>3. \A n \in 1..Depth : f[n] = ParentOf(u, f[n - 1])
    <2>1. 1 - 1 = 0 /\ 2 - 1 = 1 /\ 3 - 1 = 2 /\ 4 - 1 = 3 /\ 5 - 1 = 4 /\ 6 - 1 = 5
      OBVIOUS
    <2> QED BY <1>2, <2>1, Steps6
  <1> DEFINE Eq(g) == g = [n \in 0..Depth |->
                            IF n = 0 THEN key
                            ELSE IF g[n - 1] \in DOMAIN u.parent THEN u.parent[g[n - 1]] ELSE NoKey]
             up == CHOOSE g : Eq(g)
  <1>4. Eq(f)
    <2>1. \A n \in 0..Depth : f[n] = IF n = 0 THEN key
                            ELSE IF f[n - 1] \in DOMAIN u.parent THEN u.parent[f[n - 1]] ELSE NoKey
      <3> SUFFICES ASSUME NEW n \in 0..Depth
                   PROVE  f[n] = IF n = 0 THEN key
                            ELSE IF f[n - 1] \in DOMAIN u.parent THEN u.parent[f[n - 1]] ELSE NoKey
        OBVIOUS
      <3>1. n # 0 => n \in 1..Depth
        BY Steps6
      <3> QED BY <1>1, <1>3, <3>1 DEF ParentOf
    <2> QED BY <1>1, <2>1
  <1> HIDE DEF Eq
  <1>5. Eq(up)
    BY <1>4
  <1>6. Ancestors(u, key) = up
    BY DEF Ancestors, Eq
  <1> HIDE DEF up
  <1>7. up = [n \in 0..Depth |->
                            IF n = 0 THEN key
                            ELSE IF up[n - 1] \in DOMAIN u.parent THEN u.parent[up[n - 1]] ELSE NoKey]
    BY <1>5 DEF Eq
  <1>8. DOMAIN up = 0..Depth /\ up[0] = key
    BY <1>7, Steps6
  <1>9. \A n \in 1..Depth : up[n] = ParentOf(u, up[n - 1])
    <2>1. \A n \in 1..Depth : n \in 0..Depth /\ n # 0
      BY Steps6
    <2> QED BY <1>7, <2>1, Zenon DEF ParentOf
  <1> QED BY <1>6, <1>8, <1>9

(* The ancestors of a key's parent are the key's own, but for the first.   *)
LEMMA AncestorsShift ==
  ASSUME NEW u, NEW key
  PROVE  \A n \in 1..Depth : Ancestors(u, key)[n] = Ancestors(u, ParentOf(u, key))[n - 1]
  <1> DEFINE a == Ancestors(u, key)
             b == Ancestors(u, ParentOf(u, key))
  <1>1. /\ a[0] = key /\ a[1] = ParentOf(u, a[0]) /\ a[2] = ParentOf(u, a[1]) /\ a[3] = ParentOf(u, a[2])
        /\ a[4] = ParentOf(u, a[3]) /\ a[5] = ParentOf(u, a[4]) /\ a[6] = ParentOf(u, a[5])
    <2>0. 1 - 1 = 0 /\ 2 - 1 = 1 /\ 3 - 1 = 2 /\ 4 - 1 = 3 /\ 5 - 1 = 4 /\ 6 - 1 = 5
      OBVIOUS
    <2>1. a[0] = key /\ \A n \in 1..Depth : a[n] = ParentOf(u, a[n - 1])
      BY AncestorsAre
    <2> HIDE DEF a
    <2> QED BY <2>0, <2>1, Steps6
  <1>2. /\ b[0] = ParentOf(u, key) /\ b[1] = ParentOf(u, b[0]) /\ b[2] = ParentOf(u, b[1]) /\ b[3] = ParentOf(u, b[2])
        /\ b[4] = ParentOf(u, b[3]) /\ b[5] = ParentOf(u, b[4])
    <2>0. 1 - 1 = 0 /\ 2 - 1 = 1 /\ 3 - 1 = 2 /\ 4 - 1 = 3 /\ 5 - 1 = 4
      OBVIOUS
    <2>1. b[0] = ParentOf(u, key) /\ \A n \in 1..Depth : b[n] = ParentOf(u, b[n - 1])
      BY AncestorsAre
    <2> HIDE DEF b
    <2> QED BY <2>0, <2>1, Steps6
  <1> HIDE DEF a, b
  <1>3. a[1] = b[0] /\ a[2] = b[1] /\ a[3] = b[2] /\ a[4] = b[3] /\ a[5] = b[4] /\ a[6] = b[5]
    BY <1>1, <1>2
  <1>4. 1 - 1 = 0 /\ 2 - 1 = 1 /\ 3 - 1 = 2 /\ 4 - 1 = 3 /\ 5 - 1 = 4 /\ 6 - 1 = 5
    OBVIOUS
  <1>5. \A n \in 1..Depth : a[n] = b[n - 1]
    BY <1>3, <1>4, Steps6
  <1> QED BY <1>5 DEF a, b

(* No node is higher than the root.                                        *)
LEMMA HeightBound == \A t : Height(t) \in 0..5 /\ (Height(t) = 5 <=> t = "root")
  BY DEF Height

(* A known key that is not the root's has a known parent above it.         *)
LEMMA ParentAbove ==
  ASSUME NEW u, IsTree(u), NEW k \in DOMAIN u.nodes
  PROVE  /\ k # NoKey /\ (k[1] = "root" => k = Root.key) /\ NoKey \notin DOMAIN u.nodes
         /\ ParentOf(u, k) = u.parent[k]
         /\ k = Root.key => ParentOf(u, k) = NoKey
         /\ k # Root.key => /\ ParentOf(u, k) \in DOMAIN u.kids /\ ParentOf(u, k) \in DOMAIN u.nodes
                            /\ k \in Keys(u.kids[ParentOf(u, k)])
                            /\ Height(ParentOf(u, k)[1]) > Height(k[1])
  <1>1. \A l \in DOMAIN u.nodes : l # NoKey /\ (l[1] = "root" => l = Root.key)
    <2> SUFFICES ASSUME NEW l \in DOMAIN u.nodes PROVE l # NoKey /\ (l[1] = "root" => l = Root.key)
      OBVIOUS
    <2>1. IsNode(u.nodes[l]) /\ u.nodes[l].key = l
      BY DEF IsTree
    <2> QED BY <2>1 DEF IsNode, IsKey
  <1>2. ParentOf(u, k) = u.parent[k]
    BY DEF ParentOf, IsTree
  <1>3. k = Root.key => ParentOf(u, k) = NoKey
    BY <1>2 DEF IsTree
  <1>4. ASSUME k # Root.key
        PROVE  /\ ParentOf(u, k) \in DOMAIN u.kids /\ ParentOf(u, k) \in DOMAIN u.nodes
               /\ k \in Keys(u.kids[ParentOf(u, k)])
               /\ Height(ParentOf(u, k)[1]) > Height(k[1])
    <2> DEFINE p == ParentOf(u, k)
    <2>1. p \in DOMAIN u.kids /\ k \in Keys(u.kids[p])
      BY <1>2, <1>4 DEF IsTree
    <2>2. p \in DOMAIN u.nodes /\ IsListing(u.kids[p], Height(p[1]))
      BY <2>1 DEF IsTree
    <2>3. PICK i \in DOMAIN u.kids[p] : u.kids[p][i].key = k
      BY <2>1 DEF Keys
    <2>4. Height(k[1]) < Height(p[1])
      BY <2>2, <2>3 DEF IsListing
    <2>5. Height(k[1]) \in Int /\ Height(p[1]) \in Int
      BY HeightBound
    <2> HIDE DEF p
    <2>6. p \in DOMAIN u.kids /\ p \in DOMAIN u.nodes /\ k \in Keys(u.kids[p]) /\ Height(p[1]) > Height(k[1])
      BY <2>1, <2>2, <2>4, <2>5
    <2> QED BY <2>6 DEF p
  <1> QED BY <1>1, <1>2, <1>3, <1>4

(* The ancestors of a known key: known and higher and higher, up to the root. *)
LEMMA AncestorsKnown ==
  ASSUME NEW u, IsTree(u), NEW key \in DOMAIN u.nodes
  PROVE  /\ \A n \in 0..Depth : \/ Ancestors(u, key)[n] = NoKey
                                \/ /\ Ancestors(u, key)[n] \in DOMAIN u.nodes
                                   /\ Height(Ancestors(u, key)[n][1]) >= Height(key[1]) + n
         /\ Ancestors(u, key)[Depth] = NoKey
         /\ \E n \in 0..Depth : Ancestors(u, key)[n] = Root.key
  <1> DEFINE up == Ancestors(u, key)
             Fine(n) == up[n] = NoKey \/ (up[n] \in DOMAIN u.nodes /\ Height(up[n][1]) >= Height(key[1]) + n)
  <1>1. up[0] = key /\ \A n \in 1..Depth : up[n] = ParentOf(u, up[n - 1])
    BY AncestorsAre
  <1> HIDE DEF up
  <1>2. ParentOf(u, NoKey) = NoKey
    BY ParentAbove DEF ParentOf, IsTree
  <1>3. Height(key[1]) \in Nat
    BY HeightBound
  <1>4. Fine(0)
    BY <1>1, <1>3
  <1>5. ASSUME NEW n \in 1..Depth, Fine(n - 1) PROVE Fine(n)
    <2>0. n \in Nat /\ up[n] = ParentOf(u, up[n - 1])
      BY <1>1, Steps6
    <2>1. CASE up[n - 1] = NoKey \/ up[n - 1] = Root.key
      BY <2>0, <2>1, <1>2, ParentAbove DEF IsTree
    <2>2. CASE up[n - 1] # NoKey /\ up[n - 1] # Root.key
      <3>1. up[n - 1] \in DOMAIN u.nodes /\ Height(up[n - 1][1]) >= Height(key[1]) + (n - 1)
        BY <1>5, <2>2
      <3>2. up[n] \in DOMAIN u.nodes /\ Height(up[n][1]) > Height(up[n - 1][1])
        BY <2>0, <2>2, <3>1, ParentAbove
      <3>3. Height(up[n][1]) \in Int /\ Height(up[n - 1][1]) \in Int
        BY HeightBound
      <3> QED BY <2>0, <3>1, <3>2, <3>3, <1>3
    <2> QED BY <2>1, <2>2
  <1>6. Fine(1) /\ Fine(2) /\ Fine(3) /\ Fine(4) /\ Fine(5) /\ Fine(6)
    <2> HIDE DEF Fine
    <2>0. 1 - 1 = 0 /\ 2 - 1 = 1 /\ 3 - 1 = 2 /\ 4 - 1 = 3 /\ 5 - 1 = 4 /\ 6 - 1 = 5
      OBVIOUS
    <2>1. Fine(1)
      BY <1>4, <1>5, Steps6, <2>0
    <2>2. Fine(2)
      BY <2>1, <1>5, Steps6, <2>0
    <2>3. Fine(3)
      BY <2>2, <1>5, Steps6, <2>0
    <2>4. Fine(4)
      BY <2>3, <1>5, Steps6, <2>0
    <2>5. Fine(5)
      BY <2>4, <1>5, Steps6, <2>0
    <2>6. Fine(6)
      BY <2>5, <1>5, Steps6, <2>0
    <2> QED BY <2>1, <2>2, <2>3, <2>4, <2>5, <2>6
  <1>7. \A n \in 0..Depth : Fine(n)
    <2> HIDE DEF Fine
    <2> QED BY <1>4, <1>6, Steps6
  <1>8. up[6] = NoKey
    <2>1. Height(up[6][1]) \in 0..5
      BY HeightBound
    <2> QED BY <1>6, <1>3, <2>1
  <1>9. \E n \in 0..Depth : up[n] = Root.key
    <2> SUFFICES ASSUME \A n \in 0..Depth : up[n] # Root.key PROVE FALSE
      OBVIOUS
    <2>1. ASSUME NEW n \in 1..Depth, up[n - 1] \in DOMAIN u.nodes PROVE up[n] \in DOMAIN u.nodes
      <3>1. n - 1 \in 0..Depth
        BY Steps6
      <3> QED BY <3>1, <2>1, <1>1, ParentAbove
    <2>2. up[0] \in DOMAIN u.nodes
      BY <1>1
    <2>3. 1 - 1 = 0 /\ 2 - 1 = 1 /\ 3 - 1 = 2 /\ 4 - 1 = 3 /\ 5 - 1 = 4 /\ 6 - 1 = 5
      OBVIOUS
    <2>4. up[1] \in DOMAIN u.nodes
      BY <2>1, <2>2, <2>3, Steps6
    <2>5. up[2] \in DOMAIN u.nodes
      BY <2>1, <2>4, <2>3, Steps6
    <2>6. up[3] \in DOMAIN u.nodes
      BY <2>1, <2>5, <2>3, Steps6
    <2>7. up[4] \in DOMAIN u.nodes
      BY <2>1, <2>6, <2>3, Steps6
    <2>8. up[5] \in DOMAIN u.nodes
      BY <2>1, <2>7, <2>3, Steps6
    <2>9. up[6] \in DOMAIN u.nodes
      BY <2>1, <2>8, <2>3, Steps6
    <2> QED BY <2>9, <1>8, ParentAbove
  <1> QED BY <1>7, <1>8, <1>9, Steps6 DEF up

-----------------------------------------------------------------------------
(* The rows of the tree *)

(* A key and its known ancestors, and whether two lists share none of them. *)
PathOf(u, key) == (Range(Ancestors(u, key)) \cup {Root.key}) \ {NoKey}

Unshared(u, key) == PathOf(u, key) \cap SharedKeys(u) = {}

(* Every node on the way down to a key is open.                            *)
OpenTo(u, key) == \A n \in 1..Depth : Ancestors(u, key)[n] \in u.expanded \cup {Root.key, NoKey}

(* What a path has: the root, the key and its ancestors.                   *)
LEMMA PathHas ==
  ASSUME NEW u, NEW key
  PROVE  \A k : k \in PathOf(u, key) <=> k # NoKey /\ (k = Root.key \/ \E n \in 0..Depth : k = Ancestors(u, key)[n])
  <1> DEFINE up == Ancestors(u, key)
  <1>1. DOMAIN up = 0..Depth
    BY AncestorsAre
  <1> HIDE DEF up
  <1>2. PathOf(u, key) = (Range(up) \cup {Root.key}) \ {NoKey}
    BY DEF PathOf, up
  <1>3. \A k : k \in PathOf(u, key) <=> k # NoKey /\ (k = Root.key \/ \E n \in 0..Depth : k = up[n])
    BY <1>1, <1>2 DEF Range
  <1> QED BY <1>3 DEF up

(* With a key its path has its parent; the path of the parent is a part.   *)
LEMMA PathUp ==
  ASSUME NEW u, IsTree(u), NEW key \in DOMAIN u.nodes, NEW k \in PathOf(u, key)
  PROVE  /\ key \in PathOf(u, key)
         /\ k \in DOMAIN u.nodes
         /\ k # Root.key => ParentOf(u, k) \in PathOf(u, key)
  <1> DEFINE up == Ancestors(u, key)
  <1>1. up[0] = key /\ \A n \in 1..Depth : up[n] = ParentOf(u, up[n - 1])
    BY AncestorsAre
  <1>2. /\ \A n \in 0..Depth : up[n] = NoKey \/ up[n] \in DOMAIN u.nodes
        /\ up[Depth] = NoKey
    BY AncestorsKnown
  <1>3. \A l : l \in PathOf(u, key) <=> l # NoKey /\ (l = Root.key \/ \E n \in 0..Depth : l = up[n])
    BY PathHas
  <1> HIDE DEF up
  <1>4. key # NoKey
    BY ParentAbove
  <1>5. key \in PathOf(u, key)
    BY <1>1, <1>3, <1>4, Steps6
  <1>6. k \in DOMAIN u.nodes
    BY <1>2, <1>3 DEF IsTree
  <1>7. ASSUME k # Root.key PROVE ParentOf(u, k) \in PathOf(u, key)
    <2>1. PICK n \in 0..Depth : k = up[n]
      BY <1>3, <1>7
    <2>2. n # Depth /\ n \in Nat
      BY <2>1, <1>2, <1>3, Steps6
    <2>3. n + 1 \in 1..Depth /\ (n + 1) - 1 = n /\ n + 1 \in 0..Depth
      BY <2>1, <2>2, Steps6
    <2>4. up[n + 1] = ParentOf(u, k)
      BY <1>1, <2>1, <2>3
    <2>5. ParentOf(u, k) # NoKey
      BY <1>6, <1>7, ParentAbove
    <2> QED BY <1>3, <2>3, <2>4, <2>5
  <1> QED BY <1>5, <1>6, <1>7

(* The path of a key is that of its parent, and the key.                   *)
LEMMA PathShift ==
  ASSUME NEW u, IsTree(u), NEW key \in DOMAIN u.nodes, key # Root.key
  PROVE  /\ PathOf(u, ParentOf(u, key)) \subseteq PathOf(u, key)
         /\ OpenTo(u, key) <=> /\ OpenTo(u, ParentOf(u, key))
                               /\ ParentOf(u, key) \in u.expanded \cup {Root.key}
  <1> DEFINE p == ParentOf(u, key)
             a == Ancestors(u, key)
             b == Ancestors(u, p)
  <1>1. \A n \in 1..Depth : a[n] = b[n - 1]
    BY AncestorsShift
  <1>2. p \in DOMAIN u.nodes /\ p # NoKey
    BY ParentAbove
  <1>3. b[0] = p
    BY AncestorsAre
  <1>4. b[Depth] = NoKey
    BY <1>2, AncestorsKnown
  <1>5. \A k : k \in PathOf(u, key) <=> k # NoKey /\ (k = Root.key \/ \E n \in 0..Depth : k = a[n])
    BY PathHas
  <1>6. \A k : k \in PathOf(u, p) <=> k # NoKey /\ (k = Root.key \/ \E n \in 0..Depth : k = b[n])
    BY PathHas
  <1>7. /\ OpenTo(u, key) <=> \A n \in 1..Depth : a[n] \in u.expanded \cup {Root.key, NoKey}
        /\ OpenTo(u, p) <=> \A n \in 1..Depth : b[n] \in u.expanded \cup {Root.key, NoKey}
    BY DEF OpenTo
  <1> HIDE DEF a, b, p
  <1>8. \A n \in 0..Depth : b[n] = NoKey \/ (n + 1 \in 0..Depth /\ n + 1 \in 1..Depth /\ a[n + 1] = b[n])
    <2> SUFFICES ASSUME NEW n \in 0..Depth, n # Depth PROVE n + 1 \in 0..Depth /\ n + 1 \in 1..Depth /\ a[n + 1] = b[n]
      BY <1>4
    <2>1. n + 1 \in 0..Depth /\ n + 1 \in 1..Depth /\ (n + 1) - 1 = n
      BY Steps6
    <2> QED BY <2>1, <1>1
  <1>9. PathOf(u, p) \subseteq PathOf(u, key)
    BY <1>5, <1>6, <1>8
  <1>10. OpenTo(u, key) <=> OpenTo(u, p) /\ p \in u.expanded \cup {Root.key}
    <2>1. ASSUME OpenTo(u, key) PROVE OpenTo(u, p) /\ p \in u.expanded \cup {Root.key}
      <3>1. a[1] = p
        BY <1>1, <1>3, Steps6
      <3>2. \A n \in 1..Depth : n \in 0..Depth
        BY Steps6
      <3> QED BY <2>1, <3>1, <3>2, <1>2, <1>7, <1>8, Steps6
    <2>2. ASSUME OpenTo(u, p), p \in u.expanded \cup {Root.key} PROVE OpenTo(u, key)
      <3> SUFFICES ASSUME NEW n \in 1..Depth PROVE a[n] \in u.expanded \cup {Root.key, NoKey}
        BY <1>7
      <3>1. n - 1 = 0 \/ n - 1 \in 1..Depth
        BY Steps6
      <3> QED BY <2>2, <3>1, <1>1, <1>3, <1>7
    <2> QED BY <2>1, <2>2
  <1> QED BY <1>9, <1>10 DEF p

(* Of a key no two lists share, the list that has it is its parent's.      *)
LEMMA ParentOfUnshared ==
  ASSUME NEW u, IsTree(u), NEW p \in DOMAIN u.kids, NEW k \in Keys(u.kids[p]), k \notin SharedKeys(u)
  PROVE  k \in DOMAIN u.nodes /\ k # Root.key /\ ParentOf(u, k) = p
  <1>1. PICK i \in DOMAIN u.kids[p] : u.kids[p][i].key = k
    BY DEF Keys
  <1>2. k \in DOMAIN u.nodes
    BY <1>1 DEF IsTree, KnownIn
  <1>3. k # Root.key
    <2>1. Height(k[1]) < Height(p[1])
      BY <1>1 DEF IsTree, IsListing
    <2>2. Height(k[1]) \in 0..5 /\ Height(p[1]) \in 0..5 /\ Height("root") = 5 /\ Root.key[1] = "root"
      BY HeightBound DEF Root, Node
    <2> QED BY <2>1, <2>2
  <1>4. ParentOf(u, k) \in DOMAIN u.kids /\ k \in Keys(u.kids[ParentOf(u, k)])
    BY <1>2, <1>3, ParentAbove
  <1> QED BY <1>2, <1>3, <1>4 DEF SharedKeys

Entries(u) == UNION {Range(u.kids[p]) : p \in DOMAIN u.kids}

(* The children of a node are entries of the tree.                         *)
LEMMA KidsIn ==
  ASSUME NEW u, IsTree(u), NEW p \in DOMAIN u.kids
  PROVE  /\ u.kids[p] \in Seq(Entries(u))
         /\ Len(u.kids[p]) \in Nat /\ DOMAIN u.kids[p] = 1..Len(u.kids[p])
  <1>1. u.kids[p] \in Seq(Range(u.kids[p]))
    BY DEF IsTree, IsListing, IsSeq
  <1>2. Range(u.kids[p]) \subseteq Entries(u)
    BY DEF Entries
  <1> DEFINE s == u.kids[p]
             S == Entries(u)
  <1>3. Len(s) \in Nat /\ DOMAIN s = 1..Len(s) /\ \A i \in DOMAIN s : s[i] \in S
    BY <1>1, <1>2 DEF Range
  <1>4. s = [i \in 1..Len(s) |-> s[i]]
    BY <1>1
  <1> HIDE DEF s, S
  <1>5. s \in Seq(S)
    BY <1>3, <1>4
  <1> QED BY <1>3, <1>5 DEF s, S

(* The rows below a key that is on the path.                               *)
LEMMA RowsAre ==
  ASSUME NEW u, IsTree(u), NEW path, NEW deeper, \A k \in path : deeper[k] \in Seq(Entries(u)), NEW k \in path
  PROVE  /\ RowsBelow(u, path, deeper)[k] \in Seq(Entries(u))
         /\ \A x : x \in Range(RowsBelow(u, path, deeper)[k])
                   <=> /\ k \in DOMAIN u.kids
                       /\ \E i \in DOMAIN u.kids[k] :
                            \/ x = u.kids[k][i]
                            \/ /\ u.kids[k][i].key \in path \cap u.expanded
                               /\ x \in Range(deeper[u.kids[k][i].key])
  <1> DEFINE S == Entries(u)
             rows == RowsBelow(u, path, deeper)[k]
  <1>1. CASE k \notin DOMAIN u.kids
    <2>1. rows = <<>>
      BY <1>1 DEF RowsBelow
    <2> QED BY <2>1, <1>1, EmptySeq DEF Range
  <1>2. CASE k \in DOMAIN u.kids
    <2> DEFINE s == u.kids[k]
               Open(n) == n.key \in path \cap u.expanded
               part == [i \in DOMAIN s |-> <<s[i]>> \o IF Open(s[i]) THEN deeper[s[i].key] ELSE <<>>]
    <2>1. rows = FlattenSeq(part)
      BY <1>2 DEF RowsBelow
    <2>2. s \in Seq(S) /\ Len(s) \in Nat /\ DOMAIN s = 1..Len(s)
      BY <1>2, KidsIn
    <2>3. ASSUME NEW i \in DOMAIN s
          PROVE  /\ part[i] \in Seq(S)
                 /\ Range(part[i]) = {s[i]} \cup (IF Open(s[i]) THEN Range(deeper[s[i].key]) ELSE {})
      <3> DEFINE tail == IF Open(s[i]) THEN deeper[s[i].key] ELSE <<>>
                 node == s[i]
      <3>1. tail \in Seq(S)
        BY EmptySeq
      <3>2. node \in S
        BY <2>2
      <3>3. part[i] = <<node>> \o tail
        OBVIOUS
      <3>4. Range(tail) = IF Open(s[i]) THEN Range(deeper[s[i].key]) ELSE {}
        <4>1. Range(<<>>) = {}
          BY DEF Range
        <4> QED BY <4>1
      <3> HIDE DEF tail, node, part, S
      <3>5. <<node>> \in Seq(S) /\ Range(<<node>>) = {node}
        BY <3>2 DEF Range
      <3> DEFINE one == <<node>>
      <3>6. one \in Seq(S) /\ Range(one) = {node} /\ part[i] = one \o tail
        BY <3>3, <3>5
      <3> HIDE DEF one
      <3>7. one \o tail \in Seq(S) /\ Range(one \o tail) = {node} \cup Range(tail)
        BY <3>1, <3>6, ConcatProperties, RangeConcatenation
      <3> QED BY <3>4, <3>6, <3>7 DEF node
    <2>4. part \in Seq(Seq(S)) /\ DOMAIN part = DOMAIN s
      <3>1. part = [i \in 1..Len(s) |-> part[i]]
        BY <2>2
      <3> HIDE DEF part, S, s
      <3> QED BY <3>1, <2>2, <2>3
    <2> HIDE DEF part, S, s, rows, Open
    <2>5. rows \in Seq(S) /\ Range(rows) = UNION {Range(part[i]) : i \in DOMAIN part}
      BY <2>1, <2>4, FlattenSeqHas
    <2>6. \A x : x \in Range(rows) <=> \E i \in DOMAIN s : x = s[i] \/ (Open(s[i]) /\ x \in Range(deeper[s[i].key]))
      BY <2>3, <2>4, <2>5
    <2> QED BY <1>2, <2>5, <2>6 DEF S, s, rows, Open
  <1> QED BY <1>1, <1>2

(* The rows of the whole tree are those below the root, from Depth steps.  *)
LEMMA TreeRowsAre ==
  ASSUME NEW u
  PROVE  \E below : /\ TreeRows(u) = below[6][Root.key]
                    /\ below[0] = [k \in SelectedPath(u) |-> <<>>]
                    /\ \A n \in 1..Depth : below[n] = RowsBelow(u, SelectedPath(u), below[n - 1])
  <1> DEFINE path == SelectedPath(u)
             b0 == [k \in path |-> <<>>]
             b1 == RowsBelow(u, path, b0)
             b2 == RowsBelow(u, path, b1)
             b3 == RowsBelow(u, path, b2)
             b4 == RowsBelow(u, path, b3)
             b5 == RowsBelow(u, path, b4)
             b6 == RowsBelow(u, path, b5)
             f == [n \in 0..Depth |-> IF n = 0 THEN b0 ELSE IF n = 1 THEN b1 ELSE IF n = 2 THEN b2
                                      ELSE IF n = 3 THEN b3 ELSE IF n = 4 THEN b4 ELSE IF n = 5 THEN b5 ELSE b6]
             Eq(g) == g = [n \in 0..Depth |-> IF n = 0 THEN b0 ELSE RowsBelow(u, path, g[n - 1])]
             below == CHOOSE g : Eq(g)
  <1>1. /\ f[0] = b0 /\ f[1] = b1 /\ f[2] = b2 /\ f[3] = b3 /\ f[4] = b4 /\ f[5] = b5 /\ f[6] = b6
        /\ DOMAIN f = 0..Depth /\ f = [n \in 0..Depth |-> f[n]]
    <2> HIDE DEF b0, b1, b2, b3, b4, b5, b6
    <2> QED BY Steps6
  <1> HIDE DEF path
  <1>2. /\ f[1] = RowsBelow(u, path, f[0]) /\ f[2] = RowsBelow(u, path, f[1]) /\ f[3] = RowsBelow(u, path, f[2])
        /\ f[4] = RowsBelow(u, path, f[3]) /\ f[5] = RowsBelow(u, path, f[4]) /\ f[6] = RowsBelow(u, path, f[5])
    <2> HIDE DEF f
    <2> QED BY <1>1
  <1> HIDE DEF f, b0
  <1>3. \A n \in 1..Depth : f[n] = RowsBelow(u, path, f[n - 1])
    <2>1. 1 - 1 = 0 /\ 2 - 1 = 1 /\ 3 - 1 = 2 /\ 4 - 1 = 3 /\ 5 - 1 = 4 /\ 6 - 1 = 5
      OBVIOUS
    <2> QED BY <1>2, <2>1, Steps6
  <1>4. Eq(f)
    <2>1. \A n \in 0..Depth : f[n] = IF n = 0 THEN b0 ELSE RowsBelow(u, path, f[n - 1])
      <3> SUFFICES ASSUME NEW n \in 0..Depth PROVE f[n] = IF n = 0 THEN b0 ELSE RowsBelow(u, path, f[n - 1])
        OBVIOUS
      <3>1. n # 0 => n \in 1..Depth
        BY Steps6
      <3> QED BY <1>1, <1>3, <3>1
    <2> QED BY <1>1, <2>1
  <1> HIDE DEF Eq
  <1>5. Eq(below)
    BY <1>4
  <1>6. TreeRows(u) = below[6][Root.key]
    BY Steps6 DEF TreeRows, Eq, path, b0
  <1> HIDE DEF below
  <1>7. below = [n \in 0..Depth |-> IF n = 0 THEN b0 ELSE RowsBelow(u, path, below[n - 1])]
    BY <1>5 DEF Eq
  <1>8. below[0] = b0
    BY <1>7, Steps6
  <1>9. \A n \in 1..Depth : below[n] = RowsBelow(u, path, below[n - 1])
    <2>1. \A n \in 1..Depth : n \in 0..Depth /\ n # 0
      BY Steps6
    <2> QED BY <1>7, <2>1, Zenon
  <1> QED BY <1>6, <1>8, <1>9 DEF path, b0

(* The selected path is the path of the selected node.                     *)
LEMMA PathIsPathOf ==
  ASSUME NEW u, IsTree(u), u.selected \in DOMAIN u.nodes
  PROVE  /\ SelectedPath(u) = PathOf(u, u.selected)
         /\ OnSharedPath(u) <=> ~Unshared(u, u.selected)
         /\ SelectedNode(u) = u.nodes[u.selected]
  BY DEF SelectedPath, PathOf, OnSharedPath, Unshared, SelectedNode

(* The root is always open.                                                *)
LEMMA RootOpened ==
  ASSUME NEW u, IsTree(u)
  PROVE  /\ OpenTo(u, Root.key)
         /\ Root.key \in PathOf(u, Root.key)
  <1>1. /\ Root.key \in DOMAIN u.nodes /\ Root.key # NoKey
        /\ ParentOf(u, Root.key) = NoKey /\ ParentOf(u, NoKey) = NoKey
    BY ParentAbove DEF IsTree, ParentOf
  <1> DEFINE a == Ancestors(u, Root.key)
  <1>2. a[0] = Root.key /\ \A n \in 1..Depth : a[n] = ParentOf(u, a[n - 1])
    BY AncestorsAre
  <1> HIDE DEF a
  <1>3. 1 - 1 = 0 /\ 2 - 1 = 1 /\ 3 - 1 = 2 /\ 4 - 1 = 3 /\ 5 - 1 = 4 /\ 6 - 1 = 5
    OBVIOUS
  <1>4. a[1] = NoKey
    BY <1>1, <1>2, <1>3, Steps6
  <1>5. a[2] = NoKey
    BY <1>1, <1>2, <1>3, <1>4, Steps6
  <1>6. a[3] = NoKey
    BY <1>1, <1>2, <1>3, <1>5, Steps6
  <1>7. a[4] = NoKey
    BY <1>1, <1>2, <1>3, <1>6, Steps6
  <1>8. a[5] = NoKey
    BY <1>1, <1>2, <1>3, <1>7, Steps6
  <1>9. a[6] = NoKey
    BY <1>1, <1>2, <1>3, <1>8, Steps6
  <1>10. \A n \in 1..Depth : a[n] = NoKey
    BY <1>4, <1>5, <1>6, <1>7, <1>8, <1>9, Steps6
  <1>11. OpenTo(u, Root.key)
    BY <1>10 DEF OpenTo, a
  <1> QED BY <1>1, <1>11, PathHas

(* A node is on its own path.                                              *)
LEMMA OnOwnPath ==
  ASSUME NEW u, IsTree(u), NEW key \in DOMAIN u.nodes
  PROVE  key \in PathOf(u, key) /\ Root.key \in PathOf(u, key)
  <1>1. Root.key # NoKey
    BY ParentAbove DEF IsTree
  <1>2. Root.key \in PathOf(u, key)
    BY <1>1, PathHas
  <1> QED BY <1>2, PathUp

(* Of rows from a number of steps: they are entries, and an unshared one   *)
(* is below the key whose rows they are, with every node between open.     *)
RowsFine(u, path, rows) ==
    \A k \in path :
        /\ rows[k] \in Seq(Entries(u))
        /\ \A x \in Range(rows[k]) :
              x.key \in DOMAIN u.nodes /\ Unshared(u, x.key)
                  => /\ k \in PathOf(u, x.key)
                     /\ k = Root.key \/ (k \in u.expanded /\ OpenTo(u, k)) => OpenTo(u, x.key)

(* One more level of rows is fine if the level below it is.                *)
LEMMA RowsStayFine ==
  ASSUME NEW u, IsTree(u), NEW path, path \subseteq DOMAIN u.nodes, NEW deeper, RowsFine(u, path, deeper)
  PROVE  RowsFine(u, path, RowsBelow(u, path, deeper))
  <1> DEFINE rows == RowsBelow(u, path, deeper)
  <1>1. \A k \in path : deeper[k] \in Seq(Entries(u))
    BY DEF RowsFine
  <1> SUFFICES ASSUME NEW k \in path
               PROVE  /\ rows[k] \in Seq(Entries(u))
                      /\ \A x \in Range(rows[k]) :
                            x.key \in DOMAIN u.nodes /\ Unshared(u, x.key)
                                => /\ k \in PathOf(u, x.key)
                                   /\ k = Root.key \/ (k \in u.expanded /\ OpenTo(u, k)) => OpenTo(u, x.key)
    BY DEF RowsFine
  <1>2. rows[k] \in Seq(Entries(u))
    BY <1>1, RowsAre
  <1>3. ASSUME NEW x \in Range(rows[k]), x.key \in DOMAIN u.nodes, Unshared(u, x.key)
        PROVE  /\ k \in PathOf(u, x.key)
               /\ k = Root.key \/ (k \in u.expanded /\ OpenTo(u, k)) => OpenTo(u, x.key)
    <2> DEFINE key == x.key
    <2>1. /\ k \in DOMAIN u.kids
          /\ \E i \in DOMAIN u.kids[k] :
                \/ x = u.kids[k][i]
                \/ /\ u.kids[k][i].key \in path \cap u.expanded
                   /\ x \in Range(deeper[u.kids[k][i].key])
      BY <1>1, <1>3, RowsAre
    <2>2. PICK i \in DOMAIN u.kids[k] : \/ x = u.kids[k][i]
                                        \/ /\ u.kids[k][i].key \in path \cap u.expanded
                                           /\ x \in Range(deeper[u.kids[k][i].key])
      BY <2>1
    <2> DEFINE c == u.kids[k][i].key
    <2>3. c \in Keys(u.kids[k])
      BY <2>2 DEF Keys
    <2>4. PathOf(u, key) \cap SharedKeys(u) = {} /\ key \in DOMAIN u.nodes
      BY <1>3 DEF Unshared
    <2>5. ASSUME c \in PathOf(u, key)
          PROVE  c \in DOMAIN u.nodes /\ c # Root.key /\ ParentOf(u, c) = k /\ k \in PathOf(u, key)
      <3>1. c \notin SharedKeys(u)
        BY <2>5, <2>4
      <3>2. c \in DOMAIN u.nodes /\ c # Root.key /\ ParentOf(u, c) = k
        BY <2>1, <2>3, <3>1, ParentOfUnshared
      <3>3. k \in PathOf(u, key)
        BY <2>4, <2>5, <3>2, PathUp
      <3> QED BY <3>2, <3>3
    <2>6. CASE x = u.kids[k][i]
      <3>1. key = c
        BY <2>6
      <3>2. key \in PathOf(u, key)
        BY <2>4, OnOwnPath
      <3>3. key # Root.key /\ ParentOf(u, key) = k /\ k \in PathOf(u, key)
        BY <2>5, <3>1, <3>2
      <3>4. k = Root.key => OpenTo(u, k)
        BY RootOpened
      <3>5. OpenTo(u, key) <=> OpenTo(u, k) /\ k \in u.expanded \cup {Root.key}
        BY <2>4, <3>3, PathShift
      <3> QED BY <3>3, <3>4, <3>5
    <2>7. CASE c \in path \cap u.expanded /\ x \in Range(deeper[c])
      <3>1. /\ c \in PathOf(u, key)
            /\ c = Root.key \/ (c \in u.expanded /\ OpenTo(u, c)) => OpenTo(u, key)
        BY <2>4, <2>7, <1>3 DEF RowsFine
      <3>2. c \in DOMAIN u.nodes /\ c # Root.key /\ ParentOf(u, c) = k /\ k \in PathOf(u, key)
        BY <2>5, <3>1
      <3>3. OpenTo(u, c) <=> OpenTo(u, k) /\ k \in u.expanded \cup {Root.key}
        BY <3>2, PathShift
      <3>4. k = Root.key \/ (k \in u.expanded /\ OpenTo(u, k)) => OpenTo(u, c)
        BY <3>3, RootOpened
      <3>5. c \in u.expanded
        BY <2>7
      <3> HIDE DEF c
      <3> QED BY <3>1, <3>2, <3>4, <3>5
    <2> QED BY <2>2, <2>6, <2>7
  <1> QED BY <1>2, <1>3

(* Every row is an entry of a list; an unshared one has open ancestors.    *)
LEMMA RowsOfTree ==
  ASSUME NEW u, IsTree(u), u.selected \in DOMAIN u.nodes
  PROVE  /\ TreeRows(u) \in Seq(Entries(u))
         /\ \A x \in Range(TreeRows(u)) :
               x.key \in DOMAIN u.nodes /\ Unshared(u, x.key) => OpenTo(u, x.key)
  <1> DEFINE path == SelectedPath(u)
  <1>1. PICK below : /\ TreeRows(u) = below[6][Root.key]
                     /\ below[0] = [k \in path |-> <<>>]
                     /\ \A n \in 1..Depth : below[n] = RowsBelow(u, path, below[n - 1])
    BY TreeRowsAre
  <1>2. path \subseteq DOMAIN u.nodes /\ Root.key \in path
    <2>1. path = PathOf(u, u.selected)
      BY PathIsPathOf
    <2> HIDE DEF path
    <2> QED BY <2>1, PathUp, OnOwnPath
  <1> HIDE DEF path
  <1>3. RowsFine(u, path, below[0])
    <2>1. ASSUME NEW k \in path PROVE below[0][k] = <<>>
      BY <1>1
    <2>2. <<>> \in Seq(Entries(u)) /\ Range(<<>>) = {}
      BY EmptySeq DEF Range
    <2> QED BY <2>1, <2>2 DEF RowsFine
  <1>4. ASSUME NEW n \in 1..Depth, RowsFine(u, path, below[n - 1]) PROVE RowsFine(u, path, below[n])
    BY <1>1, <1>2, <1>4, RowsStayFine
  <1>5. 1 - 1 = 0 /\ 2 - 1 = 1 /\ 3 - 1 = 2 /\ 4 - 1 = 3 /\ 5 - 1 = 4 /\ 6 - 1 = 5
    OBVIOUS
  <1>6. RowsFine(u, path, below[1])
    BY <1>3, <1>4, <1>5, Steps6
  <1>7. RowsFine(u, path, below[2])
    BY <1>6, <1>4, <1>5, Steps6
  <1>8. RowsFine(u, path, below[3])
    BY <1>7, <1>4, <1>5, Steps6
  <1>9. RowsFine(u, path, below[4])
    BY <1>8, <1>4, <1>5, Steps6
  <1>10. RowsFine(u, path, below[5])
    BY <1>9, <1>4, <1>5, Steps6
  <1>11. RowsFine(u, path, below[6])
    BY <1>10, <1>4, <1>5, Steps6
  <1> QED BY <1>1, <1>2, <1>11, RootOpened DEF RowsFine

(* The entries are known nodes other than the root.                        *)
LEMMA EntriesKnown ==
  ASSUME NEW u, IsTree(u), NEW x \in Entries(u)
  PROVE  KnownIn(u, x) /\ x.key \in DOMAIN u.nodes /\ x.key # NoKey
  <1>1. PICK p \in DOMAIN u.kids : x \in Range(u.kids[p])
    BY DEF Entries
  <1>2. KnownIn(u, x)
    BY <1>1 DEF IsTree, Range
  <1> QED BY <1>2 DEF KnownIn, IsNode, IsKey

(* The rows a filter leaves are rows.                                      *)
LEMMA FilteredFrom ==
  ASSUME NEW S, NEW s \in Seq(S), NEW filter
  PROVE  /\ IsSeq(Filtered(s, filter))
         /\ \A n \in DOMAIN Filtered(s, filter) : \E i \in DOMAIN s : Filtered(s, filter)[n] = s[i]
         /\ \A n \in DOMAIN Filtered(s, filter) : Filtered(s, filter)[n] \in S \cap Range(s)
  <1>1. IsSeq(s)
    BY DEF IsSeq, Range
  <1> DEFINE P == {i \in DOMAIN s : Leaves(filter, s[i].kind)}
  <1>2. P \in SUBSET DOMAIN s
    OBVIOUS
  <1>3. Filtered(s, filter) = Picked(s, P)
    BY DEF Filtered
  <1> HIDE DEF P
  <1>4. /\ IsSeq(Picked(s, P))
        /\ \A n \in DOMAIN Picked(s, P) : \E i \in P : Picked(s, P)[n] = s[i]
    BY <1>1, <1>2, PickedFrom
  <1>5. \A i \in DOMAIN s : s[i] \in S \cap Range(s)
    BY DEF Range
  <1> QED BY <1>2, <1>3, <1>4, <1>5

(* Where every ancestor of the selected key is open, the key has a row.    *)
RowsReach(u, path, rows, n) ==
    \A j \in 1..n :
        Ancestors(u, u.selected)[j] # NoKey
            => \E x \in Range(rows[Ancestors(u, u.selected)[j]]) : x.key = u.selected

(* One more level of rows reaches one step further up the selected path.   *)
LEMMA RowsStillReach ==
  ASSUME NEW u, IsTree(u), u.selected \in DOMAIN u.nodes, OpenTo(u, u.selected),
         NEW deeper, \A k \in SelectedPath(u) : deeper[k] \in Seq(Entries(u)),
         NEW n \in 0..5, RowsReach(u, SelectedPath(u), deeper, n)
  PROVE  RowsReach(u, SelectedPath(u), RowsBelow(u, SelectedPath(u), deeper), n + 1)
  <1> DEFINE path == SelectedPath(u)
             up == Ancestors(u, u.selected)
             rows == RowsBelow(u, path, deeper)
  <1>1. up[0] = u.selected /\ \A j \in 1..Depth : up[j] = ParentOf(u, up[j - 1])
    BY AncestorsAre
  <1>2. \A j \in 0..Depth : up[j] = NoKey \/ up[j] \in DOMAIN u.nodes
    BY AncestorsKnown
  <1>3. \A j \in 0..Depth : up[j] # NoKey => up[j] \in path
    BY PathIsPathOf, PathHas
  <1>4. \A j \in 1..Depth : up[j] \in u.expanded \cup {Root.key, NoKey}
    BY DEF OpenTo
  <1>5. \A j \in 1..n : up[j] # NoKey => \E x \in Range(deeper[up[j]]) : x.key = u.selected
    BY DEF RowsReach
  <1> HIDE DEF up
  <1> SUFFICES ASSUME NEW j \in 1..(n + 1), up[j] # NoKey
               PROVE  \E x \in Range(rows[up[j]]) : x.key = u.selected
    BY DEF RowsReach, up
  <1>6. j \in 1..Depth /\ j \in Nat /\ j - 1 \in 0..Depth /\ j \in 0..Depth /\ (j - 1 = 0 \/ (j - 1 \in 1..n /\ j - 1 \in 1..Depth))
    BY Steps6
  <1>7. up[j] \in path /\ up[j] = ParentOf(u, up[j - 1])
    BY <1>1, <1>3, <1>6
  <1>8. up[j - 1] # NoKey /\ up[j - 1] # Root.key
    <2>1. ParentOf(u, NoKey) = NoKey /\ ParentOf(u, Root.key) = NoKey
      BY ParentAbove DEF ParentOf, IsTree
    <2> QED BY <2>1, <1>7
  <1>9. up[j] \in DOMAIN u.kids /\ up[j - 1] \in Keys(u.kids[up[j]])
    BY <1>2, <1>6, <1>7, <1>8, ParentAbove
  <1>10. PICK i \in DOMAIN u.kids[up[j]] : u.kids[up[j]][i].key = up[j - 1]
    BY <1>9 DEF Keys
  <1>11. \A x : x \in Range(rows[up[j]])
                <=> /\ up[j] \in DOMAIN u.kids
                    /\ \E m \in DOMAIN u.kids[up[j]] :
                          \/ x = u.kids[up[j]][m]
                          \/ /\ u.kids[up[j]][m].key \in path \cap u.expanded
                             /\ x \in Range(deeper[u.kids[up[j]][m].key])
    BY <1>7, RowsAre
  <1>12. CASE j - 1 = 0
    BY <1>1, <1>9, <1>10, <1>11, <1>12
  <1>13. CASE j - 1 \in 1..n /\ j - 1 \in 1..Depth
    <2>1. up[j - 1] \in path \cap u.expanded
      BY <1>3, <1>4, <1>6, <1>8, <1>13
    <2>2. PICK x \in Range(deeper[up[j - 1]]) : x.key = u.selected
      BY <1>5, <1>8, <1>13
    <2>3. x \in Range(rows[up[j]])
      BY <2>1, <2>2, <1>9, <1>10, <1>11
    <2> QED BY <2>2, <2>3
  <1> QED BY <1>6, <1>12, <1>13

(* A selected node whose ancestors are all open has a row.                 *)
LEMMA OpenedHasRow ==
  ASSUME NEW u, IsTree(u), u.selected \in DOMAIN u.nodes, OpenTo(u, u.selected)
  PROVE  SelectedHasRow(u)
  <1> DEFINE path == SelectedPath(u)
             up == Ancestors(u, u.selected)
  <1>1. PICK below : /\ TreeRows(u) = below[6][Root.key]
                     /\ below[0] = [k \in path |-> <<>>]
                     /\ \A n \in 1..Depth : below[n] = RowsBelow(u, path, below[n - 1])
    BY TreeRowsAre
  <1> DEFINE Is(n) == /\ \A k \in path : below[n][k] \in Seq(Entries(u))
                      /\ RowsReach(u, path, below[n], n)
  <1>2. Is(0)
    <2>1. <<>> \in Seq(Entries(u))
      BY EmptySeq
    <2>2. \A k \in path : below[0][k] = <<>>
      BY <1>1
    <2>3. 1..0 = {}
      OBVIOUS
    <2>4. RowsReach(u, path, below[0], 0)
      BY <2>3 DEF RowsReach
    <2> QED BY <2>1, <2>2, <2>4
  <1>3. ASSUME NEW n \in 0..5, Is(n) PROVE Is(n + 1)
    <2>1. n + 1 \in 1..Depth /\ (n + 1) - 1 = n
      BY Steps6
    <2> DEFINE m == n + 1
    <2>2. below[m] = RowsBelow(u, path, below[n])
      BY <1>1, <2>1
    <2>3. RowsReach(u, path, RowsBelow(u, path, below[n]), m)
      BY <1>3, RowsStillReach
    <2>4. \A k \in path : RowsBelow(u, path, below[n])[k] \in Seq(Entries(u))
      BY <1>3, RowsAre
    <2> HIDE DEF path, m
    <2>5. (\A k \in path : below[m][k] \in Seq(Entries(u))) /\ RowsReach(u, path, below[m], m)
      BY <2>2, <2>3, <2>4
    <2> QED BY <2>5 DEF m
  <1> HIDE DEF Is
  <1>4. Is(6)
    <2>0. 0 + 1 = 1 /\ 1 + 1 = 2 /\ 2 + 1 = 3 /\ 3 + 1 = 4 /\ 4 + 1 = 5 /\ 5 + 1 = 6
          /\ 0..5 = {0, 1, 2, 3, 4, 5}
      OBVIOUS
    <2>1. Is(1)
      BY <1>2, <1>3, <2>0
    <2>2. Is(2)
      BY <2>1, <1>3, <2>0
    <2>3. Is(3)
      BY <2>2, <1>3, <2>0
    <2>4. Is(4)
      BY <2>3, <1>3, <2>0
    <2>5. Is(5)
      BY <2>4, <1>3, <2>0
    <2> QED BY <2>5, <1>3, <2>0
  <1>5. CASE u.selected = Root.key
    BY <1>5 DEF SelectedHasRow
  <1>6. CASE u.selected # Root.key
    <2>1. PICK n \in 0..Depth : up[n] = Root.key
      BY AncestorsKnown
    <2>2. up[0] = u.selected /\ Root.key # NoKey
      BY AncestorsAre, ParentAbove DEF IsTree
    <2> HIDE DEF up
    <2>3. n \in 1..6
      BY <1>6, <2>1, <2>2, Steps6
    <2>4. \E x \in Range(below[6][Root.key]) : x.key = u.selected
      BY <1>4, <2>1, <2>2, <2>3 DEF Is, RowsReach, up
    <2>5. u.selected \in Keys(TreeRows(u))
      BY <1>1, <2>4 DEF Keys, Range
    <2> QED BY <2>5 DEF SelectedHasRow
  <1> QED BY <1>5, <1>6

-----------------------------------------------------------------------------
(* What a handler may do to the model *)

UiFields ==
    {"focus", "upper", "collapsed", "typing", "leftFilter", "rightFilter", "selected", "right", "stray",
     "expanded", "nodes", "parent", "kids", "busy", "errors", "previews", "previewBusy", "dialog"}

IsUi(u) == u = [field \in UiFields |-> u[field]]

SameTree(u, v) == v.nodes = u.nodes /\ v.parent = u.parent /\ v.kids = u.kids

(* The selection: a known node, an entry of the list on the right, and a   *)
(* row, unless two lists share a part of the way to it.                    *)
IsSelection(u) ==
    /\ u.selected \in DOMAIN u.nodes
    /\ u.right \in Nat
    /\ u.right = 0 \/ u.right + 1 \in DOMAIN RightEntries(u)
    /\ u.stray \in BOOLEAN
    /\ u.stray \/ OnSharedPath(u) \/ OpenTo(u, u.selected)

(* Same model but for what is pending and for the focus.                   *)
SameSelection(u, v) ==
    /\ SameTree(u, v)
    /\ v.selected = u.selected /\ v.right = u.right /\ v.stray = u.stray
    /\ v.expanded = u.expanded /\ v.rightFilter = u.rightFilter

(* A handler asks for children that are neither known nor asked for, once, *)
(* and marks as loading what it asks for.                                  *)
Asks(u, r) ==
    /\ IsUi(r.ui) /\ SameTree(u, r.ui)
    /\ u.busy \subseteq r.ui.busy
    /\ \A c \in r.cmds : c.op = "children" => /\ c.node.key \in r.ui.busy \ u.busy
                                              /\ c.node.key \notin DOMAIN u.kids
                                              /\ KnownIn(u, c.node)
    /\ \A c, d \in r.cmds : c.op = "children" /\ d.op = "children" /\ c.node.key = d.node.key => c = d
    /\ \A k \in r.ui.busy \ u.busy : \E c \in r.cmds : c.op = "children" /\ c.node.key = k
    /\ \/ r.ui.previewBusy = u.previewBusy
       \/ \E c \in r.cmds : c.op \in {"print", "preview"} /\ c.node.key = r.ui.previewBusy

Up(parent, key) ==
    LET up[n \in 0..Depth] ==
            IF n = 0 THEN key
            ELSE IF up[n - 1] \in DOMAIN parent THEN parent[up[n - 1]] ELSE NoKey
    IN  up

(* Ancestors depend on the parents alone.                                  *)
LEMMA AncestorsUp ==
  ASSUME NEW u, NEW key
  PROVE  Ancestors(u, key) = Up(u.parent, key)
  BY DEF Ancestors, Up

(* The same parents, the same ancestors.                                   *)
LEMMA SameAncestors ==
  ASSUME NEW u, NEW v, v.parent = u.parent, NEW key
  PROVE  Ancestors(v, key) = Ancestors(u, key)
  BY AncestorsUp

(* A handler that leaves the tree alone leaves alone what is known of it.  *)
LEMMA SameKnown ==
  ASSUME NEW u, NEW v, SameTree(u, v)
  PROVE  /\ SharedKeys(v) = SharedKeys(u)
         /\ \A n : KnownIn(v, n) <=> KnownIn(u, n)
         /\ \A k : Ancestors(v, k) = Ancestors(u, k)
         /\ \A k : PathOf(v, k) = PathOf(u, k)
         /\ \A k : ParentOf(v, k) = ParentOf(u, k)
         /\ \A k : v.expanded = u.expanded => (OpenTo(v, k) <=> OpenTo(u, k))
         /\ IsTree(u) => IsTree(v)
  <1>1. v.nodes = u.nodes /\ v.parent = u.parent /\ v.kids = u.kids
    BY DEF SameTree
  <1>2. SharedKeys(v) = SharedKeys(u)
    BY <1>1 DEF SharedKeys
  <1>3. \A n : KnownIn(v, n) <=> KnownIn(u, n)
    BY <1>1, <1>2 DEF KnownIn
  <1>4. \A k : Ancestors(v, k) = Ancestors(u, k)
    BY <1>1, SameAncestors
  <1>5. \A k : PathOf(v, k) = PathOf(u, k)
    BY <1>4 DEF PathOf
  <1>6. \A k : ParentOf(v, k) = ParentOf(u, k)
    BY <1>1 DEF ParentOf
  <1>7. \A k : v.expanded = u.expanded => (OpenTo(v, k) <=> OpenTo(u, k))
    BY <1>4 DEF OpenTo
  <1>8. IsTree(u) => IsTree(v)
    BY <1>1, <1>3 DEF IsTree
  <1> QED BY <1>2, <1>3, <1>4, <1>5, <1>6, <1>7, <1>8

RightOf(node, kids, filter) ==
    IF node.resource # Nil THEN Picked(Actions, {i \in DOMAIN Actions : Leaves(filter, Actions[i])})
    ELSE IF node.key \in DOMAIN kids THEN Filtered(kids[node.key], filter)
    ELSE <<>>

(* The entries on the right depend on the selected node, its children and  *)
(* the filter.                                                             *)
LEMMA RightEntriesAre ==
  ASSUME NEW u
  PROVE  RightEntries(u) = RightOf(SelectedNode(u), u.kids, u.rightFilter)
  BY DEF RightEntries, RightOf

(* In the same tree the same selection has the same entries.               *)
LEMMA SameEntries ==
  ASSUME NEW u, NEW v, SameTree(u, v), v.selected = u.selected
  PROVE  /\ SelectedNode(v) = SelectedNode(u)
         /\ v.rightFilter = u.rightFilter => RightEntries(v) = RightEntries(u)
         /\ OnSharedPath(v) <=> OnSharedPath(u)
  <1>1. SelectedNode(v) = SelectedNode(u)
    BY DEF SameTree, SelectedNode
  <1>2. v.rightFilter = u.rightFilter => RightEntries(v) = RightEntries(u)
    BY <1>1, RightEntriesAre DEF SameTree
  <1>3. SelectedPath(v) = SelectedPath(u)
    BY SameKnown DEF SelectedPath
  <1>4. OnSharedPath(v) <=> OnSharedPath(u)
    BY <1>3, SameKnown DEF OnSharedPath
  <1> QED BY <1>1, <1>2, <1>4

(* A selection stays one when nothing it depends on changes.               *)
LEMMA SelectionKept ==
  ASSUME NEW u, NEW v, IsSelection(u), SameSelection(u, v)
  PROVE  IsSelection(v)
  <1>1. RightEntries(v) = RightEntries(u) /\ (OnSharedPath(v) <=> OnSharedPath(u)) /\ v.selected = u.selected
    BY SameEntries DEF SameSelection
  <1>2. OpenTo(v, v.selected) <=> OpenTo(u, u.selected)
    BY SameKnown DEF SameSelection
  <1>3. v.nodes = u.nodes /\ v.right = u.right /\ v.stray = u.stray
    BY DEF SameSelection, SameTree
  <1> QED BY <1>1, <1>2, <1>3 DEF IsSelection

(* The selected node, and the entries on its right if it is not a file.    *)
LEMMA SelectedKnown ==
  ASSUME NEW u, IsTree(u), u.selected \in DOMAIN u.nodes
  PROVE  /\ SelectedNode(u) = u.nodes[u.selected]
         /\ KnownIn(u, SelectedNode(u)) /\ SelectedNode(u).key = u.selected
         /\ SelectedNode(u).key # NoKey
  BY DEF SelectedNode, KnownIn, IsTree, IsNode, IsKey

(* The entries on the right are nodes the tree knows.                      *)
LEMMA EntriesAre ==
  ASSUME NEW u, IsTree(u), u.selected \in DOMAIN u.nodes
  PROVE  /\ IsSeq(RightEntries(u))
         /\ Len(RightEntries(u)) \in Nat /\ DOMAIN RightEntries(u) = 1..Len(RightEntries(u))
         /\ RightEntries(u) # <<>> => Len(RightEntries(u)) > 0
         /\ ~IsAction(u) => \A i \in DOMAIN RightEntries(u) : KnownIn(u, RightEntries(u)[i])
  <1> DEFINE e == RightEntries(u)
             node == SelectedNode(u)
  <1>1. e = RightOf(node, u.kids, u.rightFilter)
    BY RightEntriesAre
  <1>2. IsAction(u) <=> node.resource # Nil
    BY DEF IsAction
  <1> HIDE DEF e, node
  <1>3. IsSeq(e) /\ (node.resource = Nil => \A i \in DOMAIN e : KnownIn(u, e[i]))
    <2>1. CASE node.resource # Nil
      <3> DEFINE P == {i \in DOMAIN Actions : Leaves(u.rightFilter, Actions[i])}
      <3>1. IsSeq(Actions)
        BY DEF Actions, IsSeq, Range
      <3>2. P \in SUBSET DOMAIN Actions
        OBVIOUS
      <3>3. e = Picked(Actions, P)
        BY <1>1, <2>1 DEF RightOf
      <3> HIDE DEF P
      <3> QED BY <2>1, <3>1, <3>2, <3>3, PickedFrom
    <2>2. CASE node.resource = Nil /\ node.key \in DOMAIN u.kids
      <3>1. e = Filtered(u.kids[node.key], u.rightFilter)
        BY <1>1, <2>2 DEF RightOf
      <3>2. u.kids[node.key] \in Seq(Entries(u))
        BY <2>2, KidsIn
      <3>3. IsSeq(e) /\ \A i \in DOMAIN e : e[i] \in Entries(u)
        BY <3>1, <3>2, FilteredFrom
      <3> QED BY <3>3, EntriesKnown
    <2>3. CASE node.resource = Nil /\ node.key \notin DOMAIN u.kids
      <3>1. e = <<>>
        BY <1>1, <2>3 DEF RightOf
      <3>2. DOMAIN e = {} /\ IsSeq(e)
        BY <3>1 DEF IsSeq
      <3> QED BY <3>2
    <2> QED BY <2>1, <2>2, <2>3
  <1>4. Len(e) \in Nat /\ DOMAIN e = 1..Len(e) /\ (e # <<>> => Len(e) > 0)
    BY <1>3 DEF IsSeq
  <1> QED BY <1>2, <1>3, <1>4 DEF e

(* On the right the selection is the entry at the index.                   *)
LEMMA SelectedEntry ==
  ASSUME NEW u, IsTree(u), IsSelection(u), RightEntries(u) # <<>>
  PROVE  /\ u.right + 1 \in DOMAIN RightEntries(u)
         /\ SelectedRightEntry(u) = RightEntries(u)[u.right + 1]
         /\ ~IsAction(u) => KnownIn(u, SelectedRightEntry(u)) /\ SelectedRightEntry(u).key # NoKey
  <1>1. u.right + 1 \in DOMAIN RightEntries(u)
    BY EntriesAre DEF IsSelection
  <1>2. SelectedRightEntry(u) = RightEntries(u)[u.right + 1]
    BY <1>1 DEF SelectedRightEntry
  <1>3. ~IsAction(u) => KnownIn(u, SelectedRightEntry(u))
    BY <1>1, <1>2, EntriesAre DEF IsSelection
  <1> QED BY <1>1, <1>2, <1>3 DEF KnownIn, IsNode, IsKey

-----------------------------------------------------------------------------
(* Asking *)

Still(u, v) == IsUi(v) /\ SameTree(u, v) /\ v.busy = u.busy /\ v.previewBusy = u.previewBusy

(* A handler that leaves the tree alone and asks for no children marks     *)
(* nothing.                                                                *)
LEMMA StillAsks ==
  ASSUME NEW u, NEW v, Still(u, v), NEW S, \A c \in S : c.op # "children"
  PROVE  Asks(u, Outcome(v, S))
  BY DEF Still, Asks, Outcome

(* Two handlers in a row ask for what each asks for.                       *)
LEMMA AsksThenAsks ==
  ASSUME NEW u, NEW r, NEW s, NEW all, Asks(u, r), Asks(r.ui, s), all = r.cmds \cup s.cmds
  PROVE  Asks(u, Outcome(s.ui, all))
  <1>1. SameTree(u, r.ui) /\ SameTree(r.ui, s.ui) /\ IsUi(s.ui)
    BY DEF Asks
  <1>2. SameTree(u, s.ui) /\ DOMAIN r.ui.kids = DOMAIN u.kids
    BY <1>1 DEF SameTree
  <1>3. \A n : KnownIn(r.ui, n) <=> KnownIn(u, n)
    BY <1>1, SameKnown
  <1>4. Outcome(s.ui, all).ui = s.ui /\ Outcome(s.ui, all).cmds = all
    BY DEF Outcome
  <1>5. u.busy \subseteq r.ui.busy /\ r.ui.busy \subseteq s.ui.busy
    BY DEF Asks
  <1>6. \A c \in all : c.op = "children" => /\ c.node.key \in s.ui.busy \ u.busy
                                            /\ c.node.key \notin DOMAIN u.kids
                                            /\ KnownIn(u, c.node)
    BY <1>2, <1>3, <1>5 DEF Asks
  <1>7. \A c, d \in all : c.op = "children" /\ d.op = "children" /\ c.node.key = d.node.key => c = d
    BY DEF Asks
  <1>8. \A k \in s.ui.busy \ u.busy : \E c \in all : c.op = "children" /\ c.node.key = k
    BY DEF Asks
  <1>9. \/ s.ui.previewBusy = u.previewBusy
        \/ \E c \in all : c.op \in {"print", "preview"} /\ c.node.key = s.ui.previewBusy
    BY DEF Asks
  <1> DEFINE t == Outcome(s.ui, all)
             v == s.ui
  <1> HIDE DEF t, v
  <1>10. t.ui = v /\ t.cmds = all /\ v = s.ui
    BY <1>4 DEF t, v
  <1>11. Asks(u, t)
    BY <1>1, <1>2, <1>5, <1>6, <1>7, <1>8, <1>9, <1>10 DEF Asks
  <1> QED BY <1>11 DEF t

(* Asking for children marks the node whose children are asked for.        *)
LEMMA RequestAsks ==
  ASSUME NEW u, IsUi(u), NEW node, KnownIn(u, node)
  PROVE  /\ Asks(u, RequestChildren(u, node))
         /\ SameSelection(u, RequestChildren(u, node).ui)
         /\ RequestChildren(u, node).ui.previewBusy = u.previewBusy
         /\ \A c \in RequestChildren(u, node).cmds : c.op = "children"
  <1> DEFINE r == RequestChildren(u, node)
             v == [u EXCEPT !.busy = @ \cup {node.key}, !.errors = @ \ {node.key}]
             c0 == Cmd("children", node)
             asks == NodeMayHaveChildren(node) /\ node.key \notin DOMAIN u.kids \cup u.busy
  <1>1. /\ IsUi(v) /\ SameSelection(u, v) /\ SameTree(u, v)
        /\ v.busy = u.busy \cup {node.key} /\ v.previewBusy = u.previewBusy
    BY DEF IsUi, UiFields, SameSelection, SameTree
  <1>2. c0.op = "children" /\ c0.node = node
    BY DEF Cmd
  <1>3. r = IF asks THEN Outcome(v, {c0}) ELSE Outcome(u, {})
    BY DEF RequestChildren
  <1>4. SameSelection(u, u) /\ SameTree(u, u)
    BY DEF SameSelection, SameTree
  <1> HIDE DEF v, c0
  <1>5. CASE asks
    <2>1. r.ui = v /\ r.cmds = {c0}
      BY <1>3, <1>5 DEF Outcome
    <2> HIDE DEF r
    <2>2. node.key \in r.ui.busy \ u.busy /\ node.key \notin DOMAIN u.kids /\ r.ui.busy \ u.busy = {node.key}
      BY <1>1, <1>5, <2>1
    <2>3. Asks(u, r)
      BY <1>1, <1>2, <2>1, <2>2 DEF Asks
    <2>4. SameSelection(u, r.ui) /\ r.ui.previewBusy = u.previewBusy /\ \A c \in r.cmds : c.op = "children"
      BY <1>1, <1>2, <2>1
    <2> QED BY <2>3, <2>4 DEF r
  <1>6. CASE ~asks
    <2>1. r.ui = u /\ r.cmds = {}
      BY <1>3, <1>6 DEF Outcome
    <2> HIDE DEF r
    <2>2. Asks(u, r)
      BY <1>4, <2>1 DEF Asks
    <2>3. SameSelection(u, r.ui) /\ r.ui.previewBusy = u.previewBusy /\ \A c \in r.cmds : c.op = "children"
      BY <1>4, <2>1
    <2> QED BY <2>2, <2>3 DEF r
  <1> QED BY <1>5, <1>6

(* Asking for a preview marks the node whose preview is asked for.         *)
LEMMA PreviewAsks ==
  ASSUME NEW u, IsUi(u)
  PROVE  /\ Asks(u, AutoPreview(u))
         /\ SameSelection(u, AutoPreview(u).ui)
         /\ AutoPreview(u).ui.busy = u.busy
         /\ AutoPreview(u).ui = [u EXCEPT !.previewBusy = AutoPreview(u).ui.previewBusy]
         /\ \A c \in AutoPreview(u).cmds : c.op \in {"print", "preview"}
  <1> DEFINE r == AutoPreview(u)
             target == PreviewTargetNode(u)
             v == [u EXCEPT !.previewBusy = target.key]
             c0 == Cmd(IF Printable(target) THEN "print" ELSE "preview", target)
             asks == NodeSupportsAsyncPreview(target) /\ target.key \notin u.previews /\ u.previewBusy # target.key
  <1>1. /\ IsUi(v) /\ SameSelection(u, v) /\ SameTree(u, v)
        /\ v.busy = u.busy /\ v.previewBusy = target.key
    BY DEF IsUi, UiFields, SameSelection, SameTree
  <1>2. c0.op \in {"print", "preview"} /\ c0.node = target
    BY DEF Cmd
  <1>3. r = IF asks THEN Outcome(v, {c0}) ELSE Outcome(u, {})
    BY DEF AutoPreview
  <1>4. SameSelection(u, u) /\ SameTree(u, u) /\ u = [u EXCEPT !.previewBusy = u.previewBusy]
    BY DEF SameSelection, SameTree, IsUi, UiFields
  <1>5. v = [u EXCEPT !.previewBusy = v.previewBusy]
    BY <1>1
  <1> HIDE DEF v, c0, target
  <1>6. CASE asks
    <2>1. r.ui = v /\ r.cmds = {c0}
      BY <1>3, <1>6 DEF Outcome
    <2> HIDE DEF r
    <2>2. Asks(u, r)
      BY <1>1, <1>2, <2>1 DEF Asks
    <2> QED BY <1>1, <1>2, <1>5, <2>1, <2>2 DEF r
  <1>7. CASE ~asks
    <2>1. r.ui = u /\ r.cmds = {}
      BY <1>3, <1>7 DEF Outcome
    <2> HIDE DEF r
    <2>2. Asks(u, r)
      BY <1>4, <2>1 DEF Asks
    <2> QED BY <1>4, <2>1, <2>2 DEF r
  <1> QED BY <1>6, <1>7

(* After a change of the selection: its children, then its preview.        *)
LEMMA ChangedAsks ==
  ASSUME NEW u, NEW r, IsTree(u), Asks(u, r), IsSelection(r.ui), NEW s \in SelectionChanged(r)
  PROVE  /\ Asks(u, s) /\ IsSelection(s.ui)
         /\ \A c \in s.cmds : c \in r.cmds \/ c.op \in {"children", "print", "preview"}
  <1> DEFINE asked == RequestChildren(r.ui, SelectedNode(r.ui))
             shown == AutoPreview(asked.ui)
             all == r.cmds \cup asked.cmds \cup shown.cmds
             w == [shown.ui EXCEPT !.previewBusy = r.ui.previewBusy]
             early == r.cmds \cup asked.cmds
  <1>1. s = Outcome(shown.ui, all) \/ s = Outcome(w, all)
    BY DEF SelectionChanged
  <1>2. IsTree(r.ui) /\ IsUi(r.ui) /\ r.ui.selected \in DOMAIN r.ui.nodes
    BY SameKnown DEF Asks, IsSelection
  <1>3. KnownIn(r.ui, SelectedNode(r.ui))
    BY <1>2, SelectedKnown
  <1>4. /\ Asks(r.ui, asked) /\ SameSelection(r.ui, asked.ui) /\ asked.ui.previewBusy = r.ui.previewBusy
        /\ \A c \in asked.cmds : c.op = "children"
    BY <1>2, <1>3, RequestAsks
  <1>5. IsUi(asked.ui)
    BY <1>4 DEF Asks
  <1>6. /\ Asks(asked.ui, shown) /\ SameSelection(asked.ui, shown.ui) /\ shown.ui.busy = asked.ui.busy
        /\ \A c \in shown.cmds : c.op \in {"print", "preview"}
    BY <1>5, PreviewAsks
  <1> HIDE DEF asked, shown
  <1>7. IsSelection(asked.ui) /\ IsSelection(shown.ui)
    BY <1>4, <1>6, SelectionKept
  <1>8. Asks(u, Outcome(asked.ui, early))
    BY <1>4, AsksThenAsks
  <1>9. Outcome(asked.ui, early).ui = asked.ui /\ Outcome(asked.ui, early).cmds = early
    BY DEF Outcome
  <1>10. Asks(u, Outcome(shown.ui, all))
    BY <1>6, <1>8, <1>9, AsksThenAsks
  <1>11. IsUi(w) /\ SameSelection(shown.ui, w) /\ SameTree(shown.ui, w) /\ w.busy = shown.ui.busy
         /\ w.previewBusy = asked.ui.previewBusy
    <2>1. IsUi(shown.ui)
      BY <1>6 DEF Asks
    <2> DEFINE x == shown.ui
    <2> HIDE DEF x
    <2>2. IsUi(x)
      BY <2>1 DEF x
    <2>3. w = [x EXCEPT !.previewBusy = r.ui.previewBusy]
      BY DEF x
    <2> HIDE DEF w
    <2>4. IsUi(w) /\ SameSelection(x, w) /\ SameTree(x, w) /\ w.busy = x.busy /\ w.previewBusy = r.ui.previewBusy
      BY <2>2, <2>3 DEF IsUi, UiFields, SameSelection, SameTree
    <2> QED BY <2>4, <1>4 DEF x
  <1> DEFINE late == Outcome(w, all)
  <1>12. Asks(u, late)
    <2>1. late.ui = w /\ late.cmds = all
      BY DEF Outcome
    <2>2. Outcome(shown.ui, all).ui = shown.ui /\ Outcome(shown.ui, all).cmds = all
      BY DEF Outcome
    <2> HIDE DEF late, all, w
    <2>3. SameTree(u, w)
      BY <1>10, <1>11, <2>2 DEF Asks, SameTree
    <2>4. \/ w.previewBusy = u.previewBusy
          \/ \E c \in all : c.op \in {"print", "preview"} /\ c.node.key = w.previewBusy
      BY <1>4, <1>11 DEF Asks, all
    <2> QED BY <1>10, <1>11, <2>1, <2>2, <2>3, <2>4 DEF Asks
  <1>13. IsSelection(w)
    BY <1>7, <1>11, SelectionKept
  <1>14. \A c \in all : c \in r.cmds \/ c.op \in {"children", "print", "preview"}
    BY <1>4, <1>6
  <1> HIDE DEF all, w
  <1> QED BY <1>1, <1>7, <1>10, <1>12, <1>13, <1>14 DEF Outcome

-----------------------------------------------------------------------------
(* The handlers of the keys *)

Fine(u) == IsUi(u) /\ IsTree(u) /\ IsSelection(u)

(* A clamped index is one of the list's.                                   *)
LEMMA ClampIn ==
  ASSUME NEW i \in Int, NEW n \in Nat, n > 0
  PROVE  Clamp(i, n) \in Nat /\ Clamp(i, n) + 1 \in 1..n
  BY DEF Clamp

(* Moving the focus, a filter or a mark leaves the selection as it is.     *)
LEMMA StillFine ==
  ASSUME NEW u, Fine(u), NEW v, Still(u, v), SameSelection(u, v)
  PROVE  Fine(v)
  BY SelectionKept, SameKnown DEF Fine, Still

(* Selecting a row keeps the selection in order.                           *)
LEMMA SelectRowFine ==
  ASSUME NEW u, Fine(u), NEW i \in Int
  PROVE  Still(u, SelectRow(u, i)) /\ Fine(SelectRow(u, i)) /\ SelectRow(u, i).rightFilter = u.rightFilter
  <1> DEFINE rows == VisibleTreeRows(u)
             key == rows[Clamp(i, Len(rows)) + 1].key
             v == [u EXCEPT !.selected = key, !.right = 0, !.stray = FALSE]
  <1>1. CASE rows = <<>>
    <2>1. SelectRow(u, i) = u
      BY <1>1 DEF SelectRow
    <2> QED BY <2>1 DEF Fine, Still, SameTree
  <1>2. CASE rows # <<>>
    <2>1. /\ TreeRows(u) \in Seq(Entries(u))
          /\ \A x \in Range(TreeRows(u)) : x.key \in DOMAIN u.nodes /\ Unshared(u, x.key) => OpenTo(u, x.key)
      BY RowsOfTree DEF Fine, IsSelection
    <2>2. IsSeq(rows) /\ \A n \in DOMAIN rows : rows[n] \in Entries(u) \cap Range(TreeRows(u))
      BY <2>1, FilteredFrom DEF VisibleTreeRows
    <2>3. SelectRow(u, i) = v
      BY <1>2 DEF SelectRow
    <2> HIDE DEF rows
    <2>4. Len(rows) \in Nat /\ Len(rows) > 0 /\ DOMAIN rows = 1..Len(rows)
      BY <1>2, <2>2 DEF IsSeq
    <2>5. Clamp(i, Len(rows)) + 1 \in DOMAIN rows
      BY <2>4, ClampIn
    <2> DEFINE x == rows[Clamp(i, Len(rows)) + 1]
    <2>6. x \in Entries(u) /\ x \in Range(TreeRows(u))
      BY <2>2, <2>5
    <2>7. key \in DOMAIN u.nodes /\ (Unshared(u, key) => OpenTo(u, key))
      BY <2>1, <2>6, EntriesKnown DEF Fine
    <2> HIDE DEF key
    <2>8. /\ IsUi(v) /\ SameTree(u, v) /\ v.busy = u.busy /\ v.previewBusy = u.previewBusy
          /\ v.selected = key /\ v.right = 0 /\ v.stray = FALSE /\ v.expanded = u.expanded
          /\ v.rightFilter = u.rightFilter
      BY DEF Fine, IsUi, UiFields, SameTree
    <2> HIDE DEF v
    <2>9. IsTree(v) /\ v.nodes = u.nodes
      BY <2>8, SameKnown DEF Fine, SameTree
    <2>10. (OnSharedPath(v) <=> ~Unshared(v, key)) /\ (Unshared(v, key) <=> Unshared(u, key)) /\ (OpenTo(v, key) <=> OpenTo(u, key))
      <3>1. OnSharedPath(v) <=> ~Unshared(v, key)
        BY <2>7, <2>8, <2>9, PathIsPathOf
      <3>2. Unshared(v, key) <=> Unshared(u, key)
        BY <2>8, SameKnown DEF Unshared
      <3>3. OpenTo(v, key) <=> OpenTo(u, key)
        BY <2>8, SameKnown
      <3> QED BY <3>1, <3>2, <3>3
    <2>11. IsSelection(v)
      <3>0. FALSE \in BOOLEAN /\ 0 \in Nat
        OBVIOUS
      <3>1. v.stray \in BOOLEAN
        BY <3>0, <2>8
      <3>3. v.right \in Nat /\ v.right = 0
        BY <3>0, <2>8
      <3>4. v.selected \in DOMAIN v.nodes
        BY <2>7, <2>8, <2>9
      <3>2. v.stray \/ OnSharedPath(v) \/ OpenTo(v, v.selected)
        BY <2>7, <2>8, <2>10
      <3> QED BY <3>1, <3>2, <3>3, <3>4 DEF IsSelection
    <2> QED BY <2>3, <2>8, <2>9, <2>11 DEF Fine, Still
  <1> QED BY <1>1, <1>2

(* So does setting the selection, on either side.                          *)
LEMMA SetSelectionFine ==
  ASSUME NEW u, Fine(u), NEW i \in Int
  PROVE  Still(u, SetSelection(u, i)) /\ Fine(SetSelection(u, i)) /\ SetSelection(u, i).rightFilter = u.rightFilter
  <1> DEFINE n == Len(RightEntries(u))
             v == [u EXCEPT !.right = Clamp(i, n)]
  <1>1. CASE u.focus # "right"
    BY <1>1, SelectRowFine DEF SetSelection
  <1>2. CASE u.focus = "right" /\ RightEntries(u) = <<>>
    <2>1. SetSelection(u, i) = u
      BY <1>2 DEF SetSelection
    <2> QED BY <2>1 DEF Fine, Still, SameTree
  <1>3. CASE u.focus = "right" /\ RightEntries(u) # <<>>
    <2>1. SetSelection(u, i) = v
      BY <1>3 DEF SetSelection
    <2>2. n \in Nat /\ n > 0 /\ DOMAIN RightEntries(u) = 1..n
      BY <1>3, EntriesAre DEF Fine, IsSelection
    <2> HIDE DEF n
    <2>3. Clamp(i, n) \in Nat /\ Clamp(i, n) + 1 \in DOMAIN RightEntries(u)
      BY <2>2, ClampIn
    <2>4. /\ IsUi(v) /\ SameTree(u, v) /\ v.busy = u.busy /\ v.previewBusy = u.previewBusy
          /\ v.selected = u.selected /\ v.right = Clamp(i, n) /\ v.stray = u.stray /\ v.expanded = u.expanded
          /\ v.rightFilter = u.rightFilter
      BY DEF Fine, IsUi, UiFields, SameTree
    <2> HIDE DEF v
    <2>5. RightEntries(v) = RightEntries(u) /\ (OnSharedPath(v) <=> OnSharedPath(u)) /\ (OpenTo(v, v.selected) <=> OpenTo(u, u.selected))
      BY <2>4, SameEntries, SameKnown
    <2>6. IsTree(v) /\ v.nodes = u.nodes
      BY <2>4, SameKnown DEF Fine, SameTree
    <2>7. IsSelection(v)
      BY <2>3, <2>4, <2>5, <2>6 DEF IsSelection, Fine
    <2> QED BY <2>1, <2>4, <2>6, <2>7 DEF Fine, Still
  <1> QED BY <1>1, <1>2, <1>3

(* So does moving it.                                                      *)
LEMMA MoveSelectionFine ==
  ASSUME NEW u, Fine(u), NEW delta \in Int
  PROVE  Still(u, MoveSelection(u, delta)) /\ Fine(MoveSelection(u, delta))
  <1>1. CASE u.focus = "right"
    <2>1. u.right + delta \in Int
      BY DEF Fine, IsSelection
    <2> QED BY <1>1, <2>1, SetSelectionFine DEF MoveSelection
  <1>2. CASE u.focus # "right"
    <2> DEFINE rows == VisibleTreeRows(u)
               here == {i \in DOMAIN rows : rows[i].key = u.selected}
    <2>1. IsSeq(rows)
      BY RowsOfTree, FilteredFrom DEF VisibleTreeRows, Fine, IsSelection
    <2>2. RowOfSelected(u) = IF here = {} THEN 0 ELSE CHOOSE i \in here : \A j \in here : i <= j
      BY DEF RowOfSelected
    <2> HIDE DEF rows
    <2>3. here \in SUBSET Nat
      BY <2>1 DEF IsSeq
    <2> HIDE DEF here
    <2>4. RowOfSelected(u) \in Nat
      <3>1. here # {} => \E i \in here : \A j \in here : i <= j
        BY <2>3, Least
      <3> DEFINE first == CHOOSE i \in here : \A j \in here : i <= j
      <3>2. here # {} => first \in here
        BY <3>1
      <3>3. RowOfSelected(u) = IF here = {} THEN 0 ELSE first
        BY <2>2
      <3> HIDE DEF first
      <3>4. here # {} => first \in Nat
        BY <2>3, <3>2
      <3>5. CASE here = {}
        BY <3>3, <3>5
      <3>6. CASE here # {}
        BY <3>3, <3>4, <3>6
      <3> QED BY <3>5, <3>6
    <2> DEFINE i == (IF RowOfSelected(u) = 0 THEN 0 ELSE RowOfSelected(u) - 1) + delta
    <2>5. i \in Int
      BY <2>4
    <2>6. MoveSelection(u, delta) = SelectRow(u, i)
      BY <1>2 DEF MoveSelection
    <2> HIDE DEF i
    <2> QED BY <2>5, <2>6, SelectRowFine
  <1> QED BY <1>1, <1>2

(* So does going left, which collapses only what is not on the way to the  *)
(* new selection.                                                          *)
LEMMA HandleLeftFine ==
  ASSUME NEW u, Fine(u)
  PROVE  Still(u, HandleLeft(u)) /\ Fine(HandleLeft(u))
  <1> DEFINE node == SelectedNode(u)
             parent == IF node.key \in DOMAIN u.parent THEN u.parent[node.key] ELSE NoKey
             open == node.key \in DOMAIN u.kids /\ u.kids[node.key] # <<>> /\ node.key \in u.expanded
             left == [u EXCEPT !.focus = "tree", !.upper = "tree"]
             closed == [u EXCEPT !.expanded = @ \ {node.key}]
             up == [u EXCEPT !.selected = parent, !.right = 0, !.stray = @ \/ OnSharedPath(u)]
  <1>0. HandleLeft(u) = IF u.focus = "right" THEN left
                        ELSE IF open THEN closed
                        ELSE IF parent \in {NoKey, Root.key} THEN u ELSE up
    BY DEF HandleLeft
  <1>1. IsUi(u) /\ IsTree(u) /\ IsSelection(u) /\ u.selected \in DOMAIN u.nodes /\ node.key = u.selected
        /\ parent = ParentOf(u, u.selected)
    BY SelectedKnown DEF Fine, IsSelection, ParentOf
  <1>2. Still(u, left) /\ Fine(left)
    <2>1. Still(u, left) /\ SameSelection(u, left)
      BY <1>1 DEF IsUi, UiFields, SameTree, Still, SameSelection
    <2> HIDE DEF left
    <2> QED BY <2>1, StillFine
  <1>3. Still(u, closed) /\ Fine(closed)
    <2>1. /\ Still(u, closed) /\ closed.selected = u.selected /\ closed.right = u.right /\ closed.stray = u.stray
          /\ closed.expanded = u.expanded \ {u.selected} /\ closed.rightFilter = u.rightFilter
      BY <1>1 DEF IsUi, UiFields, SameTree, Still
    <2> HIDE DEF closed
    <2>2. SameTree(u, closed) /\ closed.nodes = u.nodes
      BY <2>1 DEF Still, SameTree
    <2>3. RightEntries(closed) = RightEntries(u) /\ (OnSharedPath(closed) <=> OnSharedPath(u))
      BY <2>1, <2>2, SameEntries
    <2>4. OpenTo(u, u.selected) => OpenTo(closed, u.selected)
      <3> SUFFICES ASSUME OpenTo(u, u.selected), NEW n \in 1..Depth
                   PROVE  Ancestors(closed, u.selected)[n] \in closed.expanded \cup {Root.key, NoKey}
        BY DEF OpenTo
      <3>1. Ancestors(closed, u.selected) = Ancestors(u, u.selected)
        BY <2>2, SameKnown
      <3> DEFINE a == Ancestors(u, u.selected)[n]
      <3>2. a \in u.expanded \cup {Root.key, NoKey}
        BY DEF OpenTo
      <3>3. a # NoKey => a # u.selected
        <4>1. n \in 0..Depth /\ n \in Nat /\ n > 0
          BY Steps6
        <4>2. Height(u.selected[1]) \in Nat
          BY HeightBound
        <4> QED BY <1>1, <4>1, <4>2, AncestorsKnown
      <3> HIDE DEF a
      <3>4. a \in closed.expanded \cup {Root.key, NoKey}
        BY <2>1, <3>2, <3>3
      <3> QED BY <3>1, <3>4 DEF a
    <2>5. IsSelection(closed)
      BY <1>1, <2>1, <2>2, <2>3, <2>4 DEF IsSelection
    <2> QED BY <2>1, <2>2, <2>5, SameKnown DEF Fine, Still
  <1>4. CASE parent \notin {NoKey, Root.key}
    <2> HIDE DEF parent
    <2>1. /\ Still(u, up) /\ up.selected = parent /\ up.right = 0 /\ up.stray = (u.stray \/ OnSharedPath(u))
          /\ up.expanded = u.expanded
      <3> DEFINE strays == u.stray \/ OnSharedPath(u)
      <3>1. up = [u EXCEPT !.selected = parent, !.right = 0, !.stray = strays]
        BY <1>1 DEF IsUi, UiFields
      <3> HIDE DEF strays, up
      <3>2. Still(u, up) /\ up.selected = parent /\ up.right = 0 /\ up.stray = strays /\ up.expanded = u.expanded
        BY <1>1, <3>1 DEF IsUi, UiFields, SameTree, Still
      <3> QED BY <3>2 DEF strays
    <2> HIDE DEF up
    <2>2. SameTree(u, up) /\ up.nodes = u.nodes
      BY <2>1 DEF Still, SameTree
    <2>3. u.selected # Root.key /\ parent \in DOMAIN u.nodes
      BY <1>1, <1>4, ParentAbove
    <2>4. OpenTo(u, u.selected) => OpenTo(u, parent)
      BY <1>1, <2>3, PathShift
    <2>5. OpenTo(up, parent) <=> OpenTo(u, parent)
      BY <2>1, <2>2, SameKnown
    <2>6. IsSelection(up)
      <3>1. up.stray \in BOOLEAN
        BY <2>1
      <3>2. up.stray \/ OpenTo(up, parent)
        BY <1>1, <2>1, <2>4, <2>5 DEF IsSelection
      <3> QED BY <3>1, <3>2, <2>1, <2>2, <2>3 DEF IsSelection
    <2>7. Still(u, up) /\ Fine(up)
      BY <1>1, <2>1, <2>2, <2>6, SameKnown DEF Fine, Still
    <2> QED BY <2>7, <1>0, <1>2, <1>3, <1>4
  <1>5. CASE parent \in {NoKey, Root.key}
    <2>1. Still(u, u)
      BY <1>1 DEF Still, SameTree
    <2> HIDE DEF left, closed, open, up, parent
    <2> QED BY <2>1, <1>0, <1>2, <1>3, <1>5
  <1> QED BY <1>4, <1>5

(* So does going right.                                                    *)
LEMMA HandleRightFine ==
  ASSUME NEW u, Fine(u)
  PROVE  Asks(u, HandleRight(u)) /\ IsSelection(HandleRight(u).ui) /\ \A c \in HandleRight(u).cmds : c.op = "children"
  <1> DEFINE asked == RequestChildren(u, SelectedNode(u))
             moved == [asked.ui EXCEPT !.focus = "right", !.upper = "right"]
             n == Len(RightEntries(moved))
             w == [moved EXCEPT !.right = IF @ >= n THEN 0 ELSE @]
  <1>1. KnownIn(u, SelectedNode(u))
    BY SelectedKnown DEF Fine, IsSelection
  <1>2. /\ Asks(u, asked) /\ SameSelection(u, asked.ui) /\ asked.ui.previewBusy = u.previewBusy
        /\ \A c \in asked.cmds : c.op = "children"
    BY <1>1, RequestAsks DEF Fine
  <1>3. HandleRight(u) = Outcome(w, asked.cmds)
    BY DEF HandleRight
  <1> DEFINE x == asked.ui
  <1>4. IsUi(x) /\ IsTree(x) /\ IsSelection(x) /\ SameTree(u, x)
    BY <1>2, SelectionKept, SameKnown DEF Asks, Fine
  <1> HIDE DEF asked
  <1>5. Still(x, moved) /\ SameSelection(x, moved)
    <2>1. moved = [x EXCEPT !.focus = "right", !.upper = "right"]
      OBVIOUS
    <2> HIDE DEF x, moved
    <2> QED BY <1>4, <2>1 DEF IsUi, UiFields, SameTree, Still, SameSelection
  <1>6. Fine(moved)
    BY <1>4, <1>5, StillFine DEF Fine
  <1> HIDE DEF moved
  <1>7. n \in Nat /\ DOMAIN RightEntries(moved) = 1..n /\ moved.right \in Nat
    BY <1>6, EntriesAre DEF Fine, IsSelection
  <1> HIDE DEF n
  <1>8. /\ Still(moved, w) /\ w.selected = moved.selected /\ w.stray = moved.stray /\ w.expanded = moved.expanded
        /\ w.rightFilter = moved.rightFilter /\ w.right = IF moved.right >= n THEN 0 ELSE moved.right
    BY <1>6 DEF Fine, IsUi, UiFields, SameTree, Still
  <1> HIDE DEF w
  <1>9. SameTree(moved, w) /\ w.nodes = moved.nodes
    BY <1>8 DEF Still, SameTree
  <1>10. RightEntries(w) = RightEntries(moved) /\ (OnSharedPath(w) <=> OnSharedPath(moved)) /\ (OpenTo(w, w.selected) <=> OpenTo(moved, moved.selected))
    BY <1>8, <1>9, SameEntries, SameKnown
  <1>11. w.right \in Nat /\ (w.right = 0 \/ w.right + 1 \in DOMAIN RightEntries(w))
    BY <1>7, <1>8, <1>10
  <1>12. IsSelection(w)
    BY <1>6, <1>8, <1>9, <1>10, <1>11 DEF IsSelection, Fine
  <1>13. Still(x, w)
    BY <1>5, <1>8 DEF Still, SameTree
  <1>14. Outcome(w, asked.cmds).ui = w /\ Outcome(w, asked.cmds).cmds = asked.cmds
    BY DEF Outcome
  <1>15. Asks(x, Outcome(w, {}))
    BY <1>13, StillAsks
  <1>16. asked.cmds = asked.cmds \cup Outcome(w, {}).cmds /\ Outcome(w, {}).ui = w
    BY DEF Outcome
  <1>17. Asks(u, Outcome(w, asked.cmds))
    <2> DEFINE s == Outcome(w, {})
    <2>1. Asks(asked.ui, s) /\ asked.cmds = asked.cmds \cup s.cmds /\ s.ui = w
      BY <1>15, <1>16
    <2> HIDE DEF s
    <2>2. Asks(u, Outcome(s.ui, asked.cmds))
      BY <1>2, <2>1, AsksThenAsks
    <2> QED BY <2>1, <2>2
  <1> QED BY <1>2, <1>3, <1>12, <1>14, <1>17

(* Opening a node of its own leaves the nodes above the selected one open. *)
LEMMA ExpandedFine ==
  ASSUME NEW u, Fine(u), NEW v, Still(u, v), v.selected = u.selected, v.right = u.right, v.stray = u.stray,
         v.rightFilter = u.rightFilter, u.expanded \ {u.selected} \subseteq v.expanded
  PROVE  Fine(v)
  <1>1. SameTree(u, v) /\ v.nodes = u.nodes
    BY DEF Still, SameTree
  <1>2. RightEntries(v) = RightEntries(u) /\ (OnSharedPath(v) <=> OnSharedPath(u))
    BY <1>1, SameEntries
  <1>3. u.selected \in DOMAIN u.nodes /\ IsTree(u)
    BY DEF Fine, IsSelection
  <1>4. OpenTo(u, u.selected) => OpenTo(v, u.selected)
    <2> SUFFICES ASSUME OpenTo(u, u.selected), NEW n \in 1..Depth
                 PROVE  Ancestors(v, u.selected)[n] \in v.expanded \cup {Root.key, NoKey}
      BY DEF OpenTo
    <2>1. Ancestors(v, u.selected) = Ancestors(u, u.selected)
      BY <1>1, SameKnown
    <2> DEFINE a == Ancestors(u, u.selected)[n]
    <2>2. a \in u.expanded \cup {Root.key, NoKey}
      BY DEF OpenTo
    <2>3. a # NoKey => a # u.selected
      <3>1. n \in 0..Depth /\ n \in Nat /\ n > 0
        BY Steps6
      <3>2. Height(u.selected[1]) \in Nat
        BY HeightBound
      <3> QED BY <1>3, <3>1, <3>2, AncestorsKnown
    <2> HIDE DEF a
    <2>4. a \in v.expanded \cup {Root.key, NoKey}
      BY <2>2, <2>3
    <2> QED BY <2>1, <2>4 DEF a
  <1>5. IsSelection(v)
    BY <1>1, <1>2, <1>4 DEF IsSelection, Fine
  <1> QED BY <1>1, <1>5, SameKnown DEF Fine, Still

(* So does opening or closing a node of the tree.                          *)
LEMMA EnterOnTreeFine ==
  ASSUME NEW u, Fine(u)
  PROVE  Asks(u, EnterOnTree(u)) /\ IsSelection(EnterOnTree(u).ui) /\ \A c \in EnterOnTree(u).cmds : c.op = "children"
  <1> DEFINE node == SelectedNode(u)
             cached == node.key \in DOMAIN u.kids
             opened == [u EXCEPT !.expanded = @ \cup {node.key}]
             toggled == [u EXCEPT !.expanded = IF node.key \in @ THEN @ \ {node.key} ELSE @ \cup {node.key}]
             moved == [u EXCEPT !.focus = "right", !.upper = "right", !.right = 0]
             out == EnterOnTree(u)
             Right(r) == Asks(u, r) /\ IsSelection(r.ui) /\ \A c \in r.cmds : c.op = "children"
  <1>0. out = IF NodeMayHaveChildren(node) /\ ~cached THEN RequestChildren(opened, node)
              ELSE IF NodeMayHaveChildren(node) /\ u.kids[node.key] # <<>> THEN Outcome(toggled, {})
              ELSE IF node.resource # Nil THEN Outcome(moved, {})
              ELSE Outcome(u, {})
    BY DEF EnterOnTree
  <1>1. IsUi(u) /\ IsTree(u) /\ IsSelection(u) /\ node.key = u.selected /\ KnownIn(u, node)
    BY SelectedKnown DEF Fine, IsSelection
  <1> HIDE DEF node
  <1>2. ASSUME NEW v, Still(u, v), Fine(v) PROVE Right(Outcome(v, {}))
    <2>1. Asks(u, Outcome(v, {}))
      BY <1>2, StillAsks
    <2>2. Outcome(v, {}).ui = v /\ Outcome(v, {}).cmds = {}
      BY DEF Outcome
    <2> DEFINE r == Outcome(v, {})
    <2> HIDE DEF r
    <2>3. Asks(u, r) /\ r.ui = v /\ r.cmds = {}
      BY <2>1, <2>2 DEF r
    <2>4. Right(r)
      BY <1>2, <2>3 DEF Fine
    <2> QED BY <2>4 DEF r
  <1>3. Still(u, opened) /\ Fine(opened)
    <2>1. /\ Still(u, opened) /\ opened.selected = u.selected /\ opened.right = u.right /\ opened.stray = u.stray
          /\ opened.rightFilter = u.rightFilter /\ u.expanded \ {u.selected} \subseteq opened.expanded
      BY <1>1 DEF IsUi, UiFields, SameTree, Still
    <2> HIDE DEF opened
    <2> QED BY <2>1, ExpandedFine
  <1>4. Still(u, toggled) /\ Fine(toggled)
    <2>1. /\ Still(u, toggled) /\ toggled.selected = u.selected /\ toggled.right = u.right /\ toggled.stray = u.stray
          /\ toggled.rightFilter = u.rightFilter /\ u.expanded \ {u.selected} \subseteq toggled.expanded
      BY <1>1 DEF IsUi, UiFields, SameTree, Still
    <2> HIDE DEF toggled
    <2> QED BY <2>1, ExpandedFine
  <1>5. Still(u, moved) /\ Fine(moved)
    <2>1. /\ Still(u, moved) /\ moved.selected = u.selected /\ moved.right = 0 /\ moved.stray = u.stray
          /\ moved.expanded = u.expanded
      BY <1>1 DEF IsUi, UiFields, SameTree, Still
    <2> HIDE DEF moved
    <2>2. SameTree(u, moved) /\ moved.nodes = u.nodes
      BY <2>1 DEF Still, SameTree
    <2>3. (OnSharedPath(moved) <=> OnSharedPath(u)) /\ (OpenTo(moved, moved.selected) <=> OpenTo(u, u.selected))
      BY <2>1, <2>2, SameEntries, SameKnown
    <2>4. IsSelection(moved)
      BY <1>1, <2>1, <2>2, <2>3 DEF IsSelection
    <2> QED BY <1>1, <2>1, <2>2, <2>4, SameKnown DEF Fine, Still
  <1>6. Still(u, u)
    BY <1>1 DEF Still, SameTree
  <1> HIDE DEF opened, toggled, moved
  <1>7. CASE NodeMayHaveChildren(node) /\ ~cached
    <2> DEFINE asked == RequestChildren(opened, node)
    <2>1. KnownIn(opened, node)
      BY <1>1, <1>3, SameKnown DEF Still
    <2>2. /\ Asks(opened, asked) /\ SameSelection(opened, asked.ui) /\ \A c \in asked.cmds : c.op = "children"
      BY <1>3, <2>1, RequestAsks DEF Fine
    <2> HIDE DEF asked
    <2>3. IsSelection(asked.ui)
      BY <1>3, <2>2, SelectionKept DEF Fine
    <2> DEFINE first == Outcome(opened, {})
    <2>4. Asks(u, first) /\ first.ui = opened /\ first.cmds = {}
      BY <1>3, StillAsks DEF Outcome
    <2> HIDE DEF first
    <2>5. Asks(first.ui, asked) /\ asked.cmds = first.cmds \cup asked.cmds
      BY <2>2, <2>4
    <2>6. Asks(u, Outcome(asked.ui, asked.cmds))
      BY <2>4, <2>5, AsksThenAsks
    <2>7. Outcome(asked.ui, asked.cmds) = asked
      BY DEF Outcome, asked, RequestChildren
    <2>8. out = asked
      BY <1>0, <1>7 DEF asked
    <2> HIDE DEF out
    <2>9. Right(out)
      BY <2>2, <2>3, <2>6, <2>7, <2>8
    <2> QED BY <2>9 DEF out
  <1>8. CASE ~(NodeMayHaveChildren(node) /\ ~cached)
    <2>1. out \in {Outcome(toggled, {}), Outcome(moved, {}), Outcome(u, {})}
      BY <1>0, <1>8
    <2>2. Right(Outcome(toggled, {})) /\ Right(Outcome(moved, {})) /\ Right(Outcome(u, {}))
      BY <1>2, <1>4, <1>5, <1>6
    <2> HIDE DEF out, Right
    <2>3. Right(out)
      BY <2>1, <2>2
    <2> QED BY <2>3 DEF Right, out
  <1> QED BY <1>7, <1>8

-----------------------------------------------------------------------------
(* Every key *)

(* A handler that leaves the tree alone may come before one that asks.     *)
LEMMA StillThenAsks ==
  ASSUME NEW u, NEW v, Still(u, v), NEW r, Asks(v, r)
  PROVE  Asks(u, r)
  <1>1. v.busy = u.busy /\ v.previewBusy = u.previewBusy /\ v.kids = u.kids
    BY DEF Still, SameTree
  <1>2. SameTree(u, r.ui)
    BY DEF Still, SameTree, Asks
  <1>3. \A n : KnownIn(v, n) <=> KnownIn(u, n)
    BY SameKnown DEF Still
  <1> QED BY <1>1, <1>2, <1>3 DEF Asks

(* What an outcome opens is what the highlight was on.                     *)
Opens(u, r) == \A c \in r.cmds : c.op = "open" => c.node \in Highlighted(u)

Right(u, r) == Asks(u, r) /\ IsSelection(r.ui) /\ Opens(u, r)

(* A handler that leaves the tree alone is right if it opens only what is  *)
(* highlighted.                                                            *)
LEMMA StillRight ==
  ASSUME NEW u, NEW v, Still(u, v), Fine(v), NEW S,
         \A c \in S : c.op # "children" /\ (c.op = "open" => c.node \in Highlighted(u))
  PROVE  Right(u, Outcome(v, S))
  <1>1. Asks(u, Outcome(v, S))
    BY StillAsks
  <1>2. Outcome(v, S).ui = v /\ Outcome(v, S).cmds = S
    BY DEF Outcome
  <1> DEFINE r == Outcome(v, S)
  <1> HIDE DEF r
  <1>3. Asks(u, r) /\ r.ui = v /\ r.cmds = S
    BY <1>1, <1>2 DEF r
  <1>4. Right(u, r)
    BY <1>3 DEF Right, Opens, Fine
  <1> QED BY <1>4 DEF r

(* A key that does nothing does nothing wrong.                             *)
LEMMA NothingHappens ==
  ASSUME NEW u, Fine(u)
  PROVE  Still(u, u) /\ Right(u, Outcome(u, {}))
  <1>1. Still(u, u)
    BY DEF Still, SameTree, Fine
  <1> QED BY <1>1, StillRight

(* The target of a key, and the entry on the right, are highlighted.       *)
LEMMA TargetHighlighted ==
  ASSUME NEW u, Fine(u)
  PROVE  /\ ActionTarget(u) \in Highlighted(u)
         /\ u.focus = "right" /\ RightEntries(u) # <<>> /\ IsAction(u) => SelectedNode(u) \in Highlighted(u)
         /\ u.focus = "right" /\ RightEntries(u) # <<>> /\ ~IsAction(u)
               => SelectedRightEntry(u) \in Highlighted(u) /\ KnownIn(u, SelectedRightEntry(u))
  <1>1. RightEntries(u) # <<>> => /\ u.right + 1 \in DOMAIN RightEntries(u)
                                  /\ SelectedRightEntry(u) = RightEntries(u)[u.right + 1]
                                  /\ ~IsAction(u) => KnownIn(u, SelectedRightEntry(u))
    BY SelectedEntry DEF Fine
  <1> QED BY <1>1 DEF ActionTarget, Highlighted

(* A key that moves the focus keeps the selection in order.                *)
LEMMA FocusKeyFine ==
  ASSUME NEW u, Fine(u), NEW key
  PROVE  Still(u, FocusKey(u, key)) /\ Fine(FocusKey(u, key))
  <1> DEFINE v == FocusKey(u, key)
  <1>0. IsUi(u)
    BY DEF Fine
  <1>1. PICK focus, upper, collapsed : v = [u EXCEPT !.focus = focus, !.upper = upper, !.collapsed = collapsed]
    <2> DEFINE Some == \E focus, upper, collapsed : v = [u EXCEPT !.focus = focus, !.upper = upper, !.collapsed = collapsed]
    <2>1. CASE key = "ctrl+h"
      <3>1. v = [u EXCEPT !.focus = "tree", !.upper = "tree", !.collapsed = u.collapsed]
        BY <1>0, <2>1 DEF FocusKey, IsUi, UiFields
      <3> QED BY <3>1
    <2>2. CASE key = "ctrl+l"
      <3>1. v = [u EXCEPT !.focus = "right", !.upper = "right", !.collapsed = u.collapsed]
        BY <1>0, <2>2 DEF FocusKey, IsUi, UiFields
      <3> QED BY <3>1
    <2>3. CASE key = "ctrl+j"
      <3>1. v = [u EXCEPT !.focus = "preview", !.upper = CurrentUpperFocus(u), !.collapsed = u.collapsed]
        BY <1>0, <2>3 DEF FocusKey, IsUi, UiFields
      <3> QED BY <3>1
    <2> DEFINE back == IF u.focus = "preview" THEN u.upper ELSE u.focus
    <2>4. CASE key = "ctrl+k"
      <3>1. v = [u EXCEPT !.focus = back, !.upper = u.upper, !.collapsed = u.collapsed]
        BY <1>0, <2>4 DEF FocusKey, IsUi, UiFields
      <3> QED BY <3>1
    <2>5. CASE key \notin {"ctrl+h", "ctrl+l", "ctrl+j", "ctrl+k"} /\ u.collapsed
      <3>1. v = [u EXCEPT !.focus = back, !.upper = u.upper, !.collapsed = FALSE]
        BY <1>0, <2>5 DEF FocusKey, IsUi, UiFields
      <3> HIDE DEF back, v
      <3> QED BY <3>1
    <2>6. CASE key \notin {"ctrl+h", "ctrl+l", "ctrl+j", "ctrl+k"} /\ ~u.collapsed
      <3>1. v = [u EXCEPT !.focus = "preview", !.upper = CurrentUpperFocus(u), !.collapsed = TRUE]
        BY <1>0, <2>6 DEF FocusKey, IsUi, UiFields
      <3> QED BY <3>1
    <2> QED BY <2>1, <2>2, <2>3, <2>4, <2>5, <2>6
  <1> HIDE DEF v
  <1>2. Still(u, v) /\ SameSelection(u, v)
    BY <1>0, <1>1 DEF IsUi, UiFields, SameTree, Still, SameSelection
  <1>3. Fine(v)
    BY <1>2, StillFine
  <1> QED BY <1>2, <1>3 DEF v

(* An action acts on its target.                                           *)
LEMMA RunActionRight ==
  ASSUME NEW u, Fine(u), NEW action, NEW target \in Highlighted(u), NEW r \in RunAction(u, action, target)
  PROVE  Right(u, r)
  <1> DEFINE marked == [u EXCEPT !.previewBusy = target.key]
             asking == [u EXCEPT !.dialog = Dialog(target)]
             opens == Outcome(u, {Cmd("open", target)})
             prints == Outcome(marked, {Cmd("print", target)})
  <1>1. r \in {opens, prints, Outcome(asking, {}), Outcome(u, {})}
    BY DEF RunAction
  <1>2. IsUi(u) /\ Still(u, u) /\ Right(u, Outcome(u, {}))
    BY NothingHappens DEF Fine
  <1>3. Right(u, opens)
    <2> DEFINE S == {Cmd("open", target)}
    <2>1. \A c \in S : c.op # "children" /\ (c.op = "open" => c.node \in Highlighted(u))
      BY DEF Cmd
    <2> HIDE DEF S
    <2>2. Right(u, Outcome(u, S))
      BY <1>2, <2>1, StillRight
    <2> QED BY <2>2 DEF S
  <1>4. Right(u, prints)
    <2> DEFINE S == {Cmd("print", target)}
    <2>1. /\ IsUi(marked) /\ SameTree(u, marked) /\ marked.busy = u.busy /\ marked.previewBusy = target.key
          /\ SameSelection(u, marked)
      BY <1>2 DEF IsUi, UiFields, SameTree, SameSelection
    <2> HIDE DEF marked
    <2>2. \A c \in S : c.op = "print" /\ c.node = target
      BY DEF Cmd
    <2>3. \E c \in S : c.op \in {"print", "preview"} /\ c.node.key = marked.previewBusy
      BY <2>1 DEF Cmd
    <2> DEFINE s == Outcome(marked, S)
    <2>4. s.ui = marked /\ s.cmds = S
      BY DEF Outcome
    <2> HIDE DEF S, s
    <2>5. IsSelection(marked)
      BY <2>1, SelectionKept DEF Fine
    <2>6. Asks(u, s)
      BY <2>1, <2>2, <2>3, <2>4 DEF Asks
    <2>7. Right(u, s)
      BY <2>2, <2>4, <2>5, <2>6 DEF Right, Opens
    <2> QED BY <2>7 DEF s, S
  <1>5. Right(u, Outcome(asking, {}))
    <2>1. Still(u, asking) /\ SameSelection(u, asking)
      BY <1>2 DEF IsUi, UiFields, SameTree, Still, SameSelection
    <2> HIDE DEF asking
    <2>2. Fine(asking)
      BY <2>1, StillFine
    <2> QED BY <2>1, <2>2, StillRight
  <1> HIDE DEF opens, prints, asking
  <1> QED BY <1>1, <1>2, <1>3, <1>4, <1>5

(* Drilling in from the right selects the entry that is highlighted and    *)
(* opens the way to it.                                                    *)
LEMMA CommitRight ==
  ASSUME NEW u, Fine(u), u.focus = "right", RightEntries(u) # <<>>, ~IsAction(u)
  PROVE  Right(u, CommitRightSelection(u))
  <1> DEFINE node == SelectedRightEntry(u)
             start == [u EXCEPT !.selected = node.key, !.right = 0, !.stray = FALSE]
             above == {Ancestors(start, node.key)[n] : n \in 1..Depth} \ {NoKey}
             chosen == ExpandVisiblePath(start, node.key)
             opened == [chosen EXCEPT !.expanded = @ \cup {node.key}, !.focus = "right"]
             moved == [chosen EXCEPT !.focus = "right"]
             out == CommitRightSelection(u)
             asked == RequestChildren(opened, node)
             cached == node.key \in DOMAIN u.kids
  <1>0. out = IF cached /\ u.kids[node.key] # <<>> THEN Outcome(opened, {})
              ELSE IF ~cached /\ NodeMayHaveChildren(node) THEN asked
              ELSE IF node.resource # Nil THEN Outcome(moved, {})
              ELSE IF Openable(node) THEN Outcome(chosen, {Cmd("open", node)})
              ELSE Outcome(chosen, {})
    BY DEF CommitRightSelection, CommitAt
  <1>1. KnownIn(u, node) /\ node \in Highlighted(u) /\ IsUi(u) /\ IsTree(u)
    BY TargetHighlighted DEF Fine
  <1> HIDE DEF node
  <1>2. /\ Still(u, start) /\ start.selected = node.key /\ start.right = 0 /\ start.stray = FALSE
        /\ start.expanded = u.expanded
    BY <1>1 DEF IsUi, UiFields, SameTree, Still
  <1>3. chosen = [start EXCEPT !.expanded = @ \cup above]
    BY DEF ExpandVisiblePath
  <1> HIDE DEF start, above
  <1>4. /\ Still(u, chosen) /\ chosen.selected = node.key /\ chosen.right = 0 /\ chosen.stray = FALSE
        /\ chosen.expanded = start.expanded \cup above
    <2> HIDE DEF chosen
    <2> QED BY <1>2, <1>3 DEF IsUi, UiFields, SameTree, Still
  <1> HIDE DEF chosen
  <1>5. /\ Still(u, opened) /\ opened.selected = node.key /\ opened.right = 0 /\ opened.stray = FALSE
        /\ chosen.expanded \subseteq opened.expanded
    BY <1>4 DEF IsUi, UiFields, SameTree, Still
  <1>6. /\ Still(u, moved) /\ moved.selected = node.key /\ moved.right = 0 /\ moved.stray = FALSE
        /\ chosen.expanded \subseteq moved.expanded
    BY <1>4 DEF IsUi, UiFields, SameTree, Still
  <1> HIDE DEF opened, moved
  <1>7. ASSUME NEW w, Still(u, w), w.selected = node.key, w.right = 0, w.stray = FALSE, chosen.expanded \subseteq w.expanded
        PROVE  Fine(w)
    <2>1. SameTree(u, w) /\ SameTree(u, start) /\ w.nodes = u.nodes /\ start.nodes = u.nodes
      BY <1>2, <1>7 DEF Still, SameTree
    <2>2. Ancestors(w, node.key) = Ancestors(start, node.key)
      BY <2>1, SameKnown
    <2>3. OpenTo(w, node.key)
      <3> SUFFICES ASSUME NEW n \in 1..Depth PROVE Ancestors(w, node.key)[n] \in w.expanded \cup {Root.key, NoKey}
        BY DEF OpenTo
      <3>1. Ancestors(start, node.key)[n] \in above \cup {NoKey}
        BY DEF above
      <3> QED BY <3>1, <2>2, <1>4, <1>7
    <2>4. node.key \in DOMAIN w.nodes
      BY <1>1, <2>1 DEF KnownIn
    <2>5. IsTree(w)
      BY <2>1, <1>1, SameKnown
    <2>6. FALSE \in BOOLEAN /\ 0 \in Nat
      OBVIOUS
    <2>7. w.stray \in BOOLEAN /\ w.right \in Nat /\ w.right = 0
      BY <2>6, <1>7
    <2>8. IsSelection(w)
      BY <2>3, <2>4, <2>7, <1>7 DEF IsSelection
    <2> QED BY <2>5, <2>8, <1>7 DEF Fine, Still
  <1>8. Fine(chosen) /\ Fine(opened) /\ Fine(moved)
    BY <1>4, <1>5, <1>6, <1>7
  <1>9. Right(u, Outcome(opened, {})) /\ Right(u, Outcome(moved, {})) /\ Right(u, Outcome(chosen, {}))
    BY <1>4, <1>5, <1>6, <1>8, StillRight
  <1>10. Right(u, Outcome(chosen, {Cmd("open", node)}))
    <2> DEFINE S == {Cmd("open", node)}
    <2>1. \A c \in S : c.op # "children" /\ (c.op = "open" => c.node \in Highlighted(u))
      BY <1>1 DEF Cmd
    <2> HIDE DEF S
    <2>2. Right(u, Outcome(chosen, S))
      BY <1>4, <1>8, <2>1, StillRight
    <2> QED BY <2>2 DEF S
  <1>11. Right(u, asked)
    <2>1. KnownIn(opened, node)
      BY <1>1, <1>5, SameKnown DEF Still
    <2>2. /\ Asks(opened, asked) /\ SameSelection(opened, asked.ui) /\ \A c \in asked.cmds : c.op = "children"
      BY <1>8, <2>1, RequestAsks DEF Fine
    <2> HIDE DEF asked
    <2>3. IsSelection(asked.ui)
      BY <1>8, <2>2, SelectionKept DEF Fine
    <2>4. Asks(u, asked)
      BY <1>5, <2>2, StillThenAsks
    <2> QED BY <2>2, <2>3, <2>4 DEF Right, Opens
  <1> HIDE DEF out, asked, cached
  <1>12. Right(u, out)
    BY <1>0, <1>9, <1>10, <1>11
  <1> QED BY <1>12 DEF out

(* Every key is handled right.                                             *)
LEMMA PressedRight ==
  ASSUME NEW u, Fine(u), NEW key, NEW r \in Pressed(u, key)
  PROVE  Right(u, r)
  <1>1. ASSUME NEW s, Asks(u, s), IsSelection(s.ui), Opens(u, s), NEW t \in SelectionChanged(s)
        PROVE  Right(u, t)
    <2>1. /\ Asks(u, t) /\ IsSelection(t.ui)
          /\ \A c \in t.cmds : c \in s.cmds \/ c.op \in {"children", "print", "preview"}
      BY <1>1, ChangedAsks DEF Fine
    <2> QED BY <1>1, <2>1 DEF Right, Opens
  <1>2. ASSUME NEW v, Still(u, v), Fine(v), NEW t \in SelectionChanged(Outcome(v, {})) PROVE Right(u, t)
    <2> DEFINE s == Outcome(v, {})
    <2>1. Right(u, s)
      BY <1>2, StillRight
    <2>2. t \in SelectionChanged(s)
      BY <1>2
    <2> HIDE DEF s
    <2> QED BY <1>1, <2>1, <2>2 DEF Right
  <1>3. ASSUME NEW s, Asks(u, s), IsSelection(s.ui), \A c \in s.cmds : c.op = "children", NEW t \in SelectionChanged(s)
        PROVE  Right(u, t)
    BY <1>1, <1>3 DEF Opens
  <1>4. CASE key \in FocusKeys
    <2> DEFINE v == FocusKey(u, key)
    <2>1. Still(u, v) /\ Fine(v)
      BY FocusKeyFine
    <2>2. r = Outcome(v, {})
      BY <1>4 DEF Pressed
    <2> HIDE DEF v
    <2> QED BY <2>1, <2>2, StillRight
  <1>5. CASE key \notin FocusKeys /\ key \in Range(Actions)
    <2>1. r \in RunAction(u, key, ActionTarget(u))
      BY <1>5 DEF Pressed
    <2> QED BY <2>1, TargetHighlighted, RunActionRight
  <1>6. CASE key \notin FocusKeys \cup Range(Actions) /\ u.focus = "preview"
    <2>1. r = Outcome(u, {})
      BY <1>6 DEF Pressed
    <2> QED BY <2>1, NothingHappens
  <1>7. CASE key \notin FocusKeys \cup Range(Actions) /\ u.focus # "preview"
    <2>1. r \in MoveKey(u, key)
      BY <1>7 DEF Pressed
    <2>2. CASE key = "g"
      <3>1. 0 \in Int
        OBVIOUS
      <3> DEFINE v == SetSelection(u, 0)
      <3>2. Still(u, v) /\ Fine(v)
        BY <3>1, SetSelectionFine
      <3>3. r \in SelectionChanged(Outcome(v, {}))
        BY <2>1, <2>2 DEF MoveKey
      <3> HIDE DEF v
      <3> QED BY <1>2, <3>2, <3>3
    <2>3. CASE key = "G"
      <3> DEFINE i == ItemCount(u) - 1
      <3>1. i \in Int
        <4>1. Len(RightEntries(u)) \in Nat
          BY EntriesAre DEF Fine, IsSelection
        <4>2. Len(VisibleTreeRows(u)) \in Nat
          BY RowsOfTree, FilteredFrom DEF VisibleTreeRows, Fine, IsSelection, IsSeq
        <4> QED BY <4>1, <4>2 DEF ItemCount
      <3> DEFINE v == SetSelection(u, i)
      <3>3. r \in SelectionChanged(Outcome(v, {}))
        BY <2>1, <2>3 DEF MoveKey
      <3> HIDE DEF i
      <3>2. Still(u, v) /\ Fine(v)
        BY <3>1, SetSelectionFine
      <3> HIDE DEF v
      <3> QED BY <1>2, <3>2, <3>3
    <2>4. CASE key = "j"
      <3>1. 1 \in Int
        OBVIOUS
      <3> DEFINE v == MoveSelection(u, 1)
      <3>2. Still(u, v) /\ Fine(v)
        BY <3>1, MoveSelectionFine
      <3>3. r \in SelectionChanged(Outcome(v, {}))
        BY <2>1, <2>4 DEF MoveKey
      <3> HIDE DEF v
      <3> QED BY <1>2, <3>2, <3>3
    <2>5. CASE key = "k"
      <3> DEFINE d == -1
      <3>1. d \in Int
        OBVIOUS
      <3> DEFINE v == MoveSelection(u, d)
      <3>3. r \in SelectionChanged(Outcome(v, {}))
        BY <2>1, <2>5 DEF MoveKey
      <3> HIDE DEF d
      <3>2. Still(u, v) /\ Fine(v)
        BY <3>1, MoveSelectionFine
      <3> HIDE DEF v
      <3> QED BY <1>2, <3>2, <3>3
    <2>6. CASE key = "h"
      <3> DEFINE v == HandleLeft(u)
      <3>2. Still(u, v) /\ Fine(v)
        BY HandleLeftFine
      <3>3. r \in SelectionChanged(Outcome(v, {}))
        BY <2>1, <2>6 DEF MoveKey
      <3> HIDE DEF v
      <3> QED BY <1>2, <3>2, <3>3
    <2>7. CASE key = "l"
      <3>1. r \in SelectionChanged(HandleRight(u))
        BY <2>1, <2>7 DEF MoveKey
      <3> QED BY <1>3, <3>1, HandleRightFine
    <2>8. CASE key \notin {"g", "G", "j", "k", "h", "l"}
      <3>1. r \in HandleEnter(u)
        BY <2>1, <2>8 DEF MoveKey
      <3>2. CASE u.focus # "right"
        <4>1. r \in SelectionChanged(EnterOnTree(u))
          BY <3>1, <3>2 DEF HandleEnter
        <4> QED BY <1>3, <4>1, EnterOnTreeFine
      <3>3. CASE u.focus = "right" /\ RightEntries(u) = <<>>
        <4>1. r \in SelectionChanged(Outcome(u, {}))
          BY <3>1, <3>3 DEF HandleEnter
        <4> QED BY <1>2, <4>1, NothingHappens
      <3>4. CASE u.focus = "right" /\ RightEntries(u) # <<>> /\ IsAction(u)
        <4>1. r \in RunAction(u, SelectedRightEntry(u), SelectedNode(u))
          BY <3>1, <3>4 DEF HandleEnter
        <4> QED BY <3>4, <4>1, TargetHighlighted, RunActionRight
      <3>5. CASE u.focus = "right" /\ RightEntries(u) # <<>> /\ ~IsAction(u)
        <4>1. r \in SelectionChanged(CommitRightSelection(u))
          BY <3>1, <3>5 DEF HandleEnter
        <4>2. Right(u, CommitRightSelection(u))
          BY <3>5, CommitRight
        <4> QED BY <1>1, <4>1, <4>2 DEF Right
      <3> QED BY <3>2, <3>3, <3>4, <3>5
    <2> QED BY <2>2, <2>3, <2>4, <2>5, <2>6, <2>7, <2>8
  <1> QED BY <1>4, <1>5, <1>6, <1>7

(* A filter moves the selection to the top of what it leaves.              *)
LEMMA TypedFine ==
  ASSUME NEW u, Fine(u), NEW filter
  PROVE  Still(u, Typed(u, filter)) /\ Fine(Typed(u, filter))
  <1> DEFINE right == [u EXCEPT !.rightFilter = filter, !.right = 0]
             left == [u EXCEPT !.leftFilter = filter]
  <1>0. IsUi(u) /\ IsTree(u) /\ IsSelection(u) /\ 0 \in Int
    BY DEF Fine
  <1>1. Still(u, left) /\ Fine(left)
    <2>1. Still(u, left) /\ SameSelection(u, left)
      BY <1>0 DEF IsUi, UiFields, SameTree, Still, SameSelection
    <2> HIDE DEF left
    <2> QED BY <2>1, StillFine
  <1>2. Still(u, right) /\ Fine(right)
    <2>1. /\ Still(u, right) /\ right.selected = u.selected /\ right.right = 0 /\ right.stray = u.stray
          /\ right.expanded = u.expanded
      BY <1>0 DEF IsUi, UiFields, SameTree, Still
    <2> HIDE DEF right
    <2>2. SameTree(u, right) /\ right.nodes = u.nodes
      BY <2>1 DEF Still, SameTree
    <2>3. (OnSharedPath(right) <=> OnSharedPath(u)) /\ (OpenTo(right, right.selected) <=> OpenTo(u, u.selected))
      BY <2>1, <2>2, SameEntries, SameKnown
    <2>4. IsSelection(right)
      BY <1>0, <2>1, <2>2, <2>3 DEF IsSelection
    <2> QED BY <1>0, <2>1, <2>2, <2>4, SameKnown DEF Fine, Still
  <1> HIDE DEF left, right
  <1>3. ASSUME NEW v, Still(u, v), Fine(v)
        PROVE  Still(u, SetSelection(v, 0)) /\ Fine(SetSelection(v, 0))
    <2>1. Still(v, SetSelection(v, 0)) /\ Fine(SetSelection(v, 0))
      BY <1>0, <1>3, SetSelectionFine
    <2> QED BY <1>3, <2>1 DEF Still, SameTree
  <1>4. Typed(u, filter) = IF u.focus = "right" THEN SetSelection(right, 0) ELSE SetSelection(left, 0)
    BY DEF Typed, left, right
  <1>5. CASE u.focus = "right"
    BY <1>2, <1>3, <1>4, <1>5
  <1>6. CASE u.focus # "right"
    BY <1>1, <1>3, <1>4, <1>6
  <1> QED BY <1>5, <1>6

-----------------------------------------------------------------------------
(* The commands that are out *)

(* What adding commands to a bag of commands makes of it.                  *)
LEMMA BagAdd ==
  ASSUME NEW B, IsABag(B), NEW S
  PROVE  /\ IsABag(B (+) SetToBag(S))
         /\ DOMAIN (B (+) SetToBag(S)) = DOMAIN B \cup S
         /\ \A e \in S \ DOMAIN B : (B (+) SetToBag(S))[e] = 1
         /\ \A e \in DOMAIN B \ S : (B (+) SetToBag(S))[e] = B[e]
  BY DEF IsABag, (+), SetToBag

(* What taking one command from it makes of it.                            *)
LEMMA BagDrop ==
  ASSUME NEW B, IsABag(B), NEW c \in DOMAIN B
  PROVE  /\ IsABag(B (-) SetToBag({c}))
         /\ DOMAIN (B (-) SetToBag({c})) \subseteq DOMAIN B
         /\ \A e \in DOMAIN B \ {c} : e \in DOMAIN (B (-) SetToBag({c})) /\ (B (-) SetToBag({c}))[e] = B[e]
         /\ B[c] = 1 => DOMAIN (B (-) SetToBag({c})) = DOMAIN B \ {c}
  BY DEF IsABag, (-), SetToBag

(* What is marked as loading is asked for, once.                           *)
IsOut(u, cs) ==
    /\ IsABag(cs)
    /\ \A c \in DOMAIN cs : c.op = "children" => c.node.key \in u.busy /\ cs[c] = 1 /\ KnownIn(u, c.node)
    /\ \A c, d \in DOMAIN cs : c.op = "children" /\ d.op = "children" /\ c.node.key = d.node.key => c = d
    /\ \A k \in u.busy : k \notin DOMAIN u.kids /\ \E c \in DOMAIN cs : c.op = "children" /\ c.node.key = k
    /\ u.previewBusy # NoKey => \E c \in DOMAIN cs : c.op \in {"print", "preview"} /\ c.node.key = u.previewBusy

(* What is asked for is out.                                               *)
LEMMA AsksOut ==
  ASSUME NEW u, NEW cs, IsOut(u, cs), NEW r, Asks(u, r)
  PROVE  IsOut(r.ui, cs (+) SetToBag(r.cmds))
  <1>0. PICK S : S = r.cmds
    OBVIOUS
  <1> DEFINE v == r.ui
             ds == cs (+) SetToBag(S)
  <1>1. SameTree(u, v) /\ u.busy \subseteq v.busy /\ v.kids = u.kids
    BY DEF Asks, SameTree
  <1>2. \A n : KnownIn(v, n) <=> KnownIn(u, n)
    BY <1>1, SameKnown
  <1>3. /\ IsABag(ds) /\ DOMAIN ds = DOMAIN cs \cup S
        /\ \A e \in S \ DOMAIN cs : ds[e] = 1
        /\ \A e \in DOMAIN cs \ S : ds[e] = cs[e]
    <2>1. IsABag(cs)
      BY DEF IsOut
    <2>2. IsABag(cs (+) SetToBag(S)) /\ DOMAIN (cs (+) SetToBag(S)) = DOMAIN cs \cup S
      BY <2>1, BagAdd
    <2>3. \A e \in S \ DOMAIN cs : (cs (+) SetToBag(S))[e] = 1
      BY <2>1 DEF IsABag, (+), SetToBag
    <2>4. \A e \in DOMAIN cs \ S : (cs (+) SetToBag(S))[e] = cs[e]
      BY <2>1, BagAdd
    <2> QED BY <2>2, <2>3, <2>4
  <1>4. /\ \A c \in S : c.op = "children" => c.node.key \in v.busy \ u.busy /\ c.node.key \notin DOMAIN u.kids /\ KnownIn(u, c.node)
        /\ \A c, d \in S : c.op = "children" /\ d.op = "children" /\ c.node.key = d.node.key => c = d
        /\ \A k \in v.busy \ u.busy : \E c \in S : c.op = "children" /\ c.node.key = k
        /\ \/ v.previewBusy = u.previewBusy
           \/ \E c \in S : c.op \in {"print", "preview"} /\ c.node.key = v.previewBusy
    BY <1>0 DEF Asks
  <1> HIDE DEF v, ds
  <1>5. \A c \in DOMAIN cs : c.op = "children" => c.node.key \in u.busy /\ cs[c] = 1 /\ KnownIn(u, c.node)
    BY DEF IsOut
  <1>6. \A c \in DOMAIN ds : c.op = "children" => c.node.key \in v.busy /\ ds[c] = 1 /\ KnownIn(v, c.node)
    <2> SUFFICES ASSUME NEW c \in DOMAIN ds, c.op = "children"
                 PROVE  c.node.key \in v.busy /\ ds[c] = 1 /\ KnownIn(v, c.node)
      OBVIOUS
    <2>1. CASE c \in S
      BY <1>2, <1>3, <1>4, <1>5, <2>1
    <2>2. CASE c \notin S
      BY <1>1, <1>2, <1>3, <1>5, <2>2
    <2> QED BY <2>1, <2>2
  <1>7. \A c, d \in DOMAIN ds : c.op = "children" /\ d.op = "children" /\ c.node.key = d.node.key => c = d
    <2> SUFFICES ASSUME NEW c \in DOMAIN ds, NEW d \in DOMAIN ds, c.op = "children", d.op = "children", c.node.key = d.node.key
                 PROVE  c = d
      OBVIOUS
    <2>1. c \in DOMAIN cs /\ d \in DOMAIN cs => c = d
      BY DEF IsOut
    <2> QED BY <2>1, <1>3, <1>4, <1>5
  <1>8. \A k \in v.busy : k \notin DOMAIN v.kids /\ \E c \in DOMAIN ds : c.op = "children" /\ c.node.key = k
    <2> SUFFICES ASSUME NEW k \in v.busy
                 PROVE  k \notin DOMAIN v.kids /\ \E c \in DOMAIN ds : c.op = "children" /\ c.node.key = k
      OBVIOUS
    <2>1. CASE k \in u.busy
      BY <1>1, <1>3, <2>1 DEF IsOut
    <2>2. CASE k \notin u.busy
      BY <1>1, <1>3, <1>4, <2>2
    <2> QED BY <2>1, <2>2
  <1>9. v.previewBusy # NoKey => \E c \in DOMAIN ds : c.op \in {"print", "preview"} /\ c.node.key = v.previewBusy
    <2>1. CASE v.previewBusy = u.previewBusy
      BY <1>3, <2>1 DEF IsOut
    <2>2. CASE v.previewBusy # u.previewBusy
      BY <1>3, <1>4, <2>2
    <2> QED BY <2>1, <2>2
  <1>10. IsOut(v, ds)
    BY <1>3, <1>6, <1>7, <1>8, <1>9 DEF IsOut
  <1> QED BY <1>0, <1>10 DEF v, ds

(* What is out stays out.                                                  *)
LEMMA StillOut ==
  ASSUME NEW u, NEW cs, IsOut(u, cs), NEW v, Still(u, v)
  PROVE  IsOut(v, cs)
  <1>1. v.busy = u.busy /\ v.previewBusy = u.previewBusy /\ v.kids = u.kids
    BY DEF Still, SameTree
  <1>2. \A n : KnownIn(v, n) <=> KnownIn(u, n)
    BY SameKnown DEF Still
  <1> QED BY <1>1, <1>2 DEF IsOut

(* A command other than one for children is done.                          *)
LEMMA OtherDone ==
  ASSUME NEW u, NEW cs, IsOut(u, cs), NEW c \in DOMAIN cs, c.op # "children",
         NEW v, SameTree(u, v), v.busy = u.busy,
         v.previewBusy = NoKey \/ (v.previewBusy = u.previewBusy /\ c.op \notin {"print", "preview"})
  PROVE  IsOut(v, cs (-) SetToBag({c}))
  <1> DEFINE ds == cs (-) SetToBag({c})
  <1>1. /\ IsABag(ds) /\ DOMAIN ds \subseteq DOMAIN cs
        /\ \A e \in DOMAIN cs \ {c} : e \in DOMAIN ds /\ ds[e] = cs[e]
    BY BagDrop DEF IsOut
  <1> HIDE DEF ds
  <1>2. v.kids = u.kids /\ \A n : KnownIn(v, n) <=> KnownIn(u, n)
    BY SameKnown DEF SameTree
  <1>3. \A d \in DOMAIN ds : d.op = "children" => d.node.key \in v.busy /\ ds[d] = 1 /\ KnownIn(v, d.node)
    BY <1>1, <1>2 DEF IsOut
  <1>4. \A k \in v.busy : k \notin DOMAIN v.kids /\ \E d \in DOMAIN ds : d.op = "children" /\ d.node.key = k
    BY <1>1, <1>2 DEF IsOut
  <1>5. v.previewBusy # NoKey => \E d \in DOMAIN ds : d.op \in {"print", "preview"} /\ d.node.key = v.previewBusy
    BY <1>1 DEF IsOut
  <1>6. IsOut(v, ds)
    BY <1>1, <1>3, <1>4, <1>5 DEF IsOut
  <1> QED BY <1>6 DEF ds

(* A command for children is done: they are there, or it failed.           *)
LEMMA ChildrenDone ==
  ASSUME NEW u, NEW cs, IsOut(u, cs), NEW c \in DOMAIN cs, c.op = "children",
         NEW v, v.busy = u.busy \ {c.node.key}, v.previewBusy = u.previewBusy,
         DOMAIN v.kids \subseteq DOMAIN u.kids \cup {c.node.key},
         \A n : KnownIn(u, n) => KnownIn(v, n)
  PROVE  IsOut(v, cs (-) SetToBag({c}))
  <1> DEFINE ds == cs (-) SetToBag({c})
  <1>0. cs[c] = 1
    BY DEF IsOut
  <1>1. /\ IsABag(ds) /\ DOMAIN ds = DOMAIN cs \ {c}
        /\ \A e \in DOMAIN cs \ {c} : e \in DOMAIN ds /\ ds[e] = cs[e]
    BY <1>0, BagDrop DEF IsOut
  <1> HIDE DEF ds
  <1>3. \A d \in DOMAIN ds : d.op = "children" => d.node.key \in v.busy /\ ds[d] = 1 /\ KnownIn(v, d.node)
    BY <1>1 DEF IsOut
  <1>4. \A k \in v.busy : k \notin DOMAIN v.kids /\ \E d \in DOMAIN ds : d.op = "children" /\ d.node.key = k
    BY <1>1 DEF IsOut
  <1>5. v.previewBusy # NoKey => \E d \in DOMAIN ds : d.op \in {"print", "preview"} /\ d.node.key = v.previewBusy
    BY <1>1 DEF IsOut
  <1>6. IsOut(v, ds)
    BY <1>1, <1>3, <1>4, <1>5 DEF IsOut
  <1> QED BY <1>6 DEF ds

(* What the invariant says of the busy marks is what the property says.    *)
LEMMA OutIsBusy ==
  ASSUME NEW u, Fine(u), NEW cs, IsOut(u, cs),
         PreviewSubject(u).shows = "loading"
  PROVE  \E c \in DOMAIN cs : c.op \in {"children", "print", "preview"} /\ c.node.key = PreviewSubject(u).node.key
  <1> DEFINE Out(key) == \E c \in DOMAIN cs : c.op \in {"children", "print", "preview"} /\ c.node.key = key
  <1>1. ASSUME NEW node, node.key # NoKey, NodePreview(u, node) = "loading" PROVE Out(node.key)
    <2>1. u.previewBusy = node.key \/ node.key \in u.busy
      BY <1>1 DEF NodePreview
    <2> QED BY <1>1, <2>1 DEF IsOut
  <1>2. SelectedNode(u).key # NoKey
    BY SelectedKnown DEF Fine, IsSelection
  <1>3. RightEntries(u) # <<>> /\ ~IsAction(u) => SelectedRightEntry(u).key # NoKey
    BY SelectedEntry DEF Fine
  <1> DEFINE s == PreviewSubject(u)
  <1>4. CASE u.focus = "right" /\ RightEntries(u) # <<>> /\ ~IsAction(u)
    <2>1. s = [node |-> SelectedRightEntry(u), shows |-> NodePreview(u, SelectedRightEntry(u))]
      BY <1>4 DEF PreviewSubject
    <2> QED BY <1>1, <1>3, <1>4, <2>1
  <1>5. CASE u.focus = "right" /\ RightEntries(u) # <<>> /\ IsAction(u)
    <2>1. s.node = SelectedNode(u) /\ s.shows \in {NodePreview(u, SelectedNode(u)), "action"}
      BY <1>5 DEF PreviewSubject
    <2> QED BY <1>1, <1>2, <2>1
  <1>6. CASE ~(u.focus = "right" /\ RightEntries(u) # <<>>)
    <2>1. s = [node |-> SelectedNode(u), shows |-> NodePreview(u, SelectedNode(u))]
      BY <1>6 DEF PreviewSubject
    <2> QED BY <1>1, <1>2, <2>1
  <1> QED BY <1>4, <1>5, <1>6

-----------------------------------------------------------------------------
(* Children that arrive *)

(* v is u with the children of a node: what was known stays known.         *)
Grown(u, v, node, children) ==
    /\ IsUi(v) /\ IsTree(v)
    /\ v.busy = u.busy \ {node.key} /\ v.previewBusy = u.previewBusy
    /\ v.selected = u.selected /\ v.right = u.right /\ v.stray = u.stray /\ v.expanded = u.expanded
    /\ v.rightFilter = u.rightFilter
    /\ DOMAIN v.nodes = DOMAIN u.nodes \cup Keys(children)
    /\ DOMAIN v.kids = DOMAIN u.kids \cup {node.key}
    /\ v.kids[node.key] = children
    /\ \A k \in DOMAIN u.kids : v.kids[k] = u.kids[k]
    /\ \A k \in DOMAIN u.nodes : /\ v.parent[k] = u.parent[k]
                                 /\ k \notin SharedKeys(v) => v.nodes[k] = u.nodes[k]
    /\ \A k \in DOMAIN v.nodes : v.nodes[k] \in Range(children) \/ (k \in DOMAIN u.nodes /\ v.nodes[k] = u.nodes[k])
    /\ SharedKeys(u) \subseteq SharedKeys(v)
    /\ \A n : KnownIn(u, n) => KnownIn(v, n)

(* When children arrive the tree grows by them: the parent a key has is    *)
(* kept, and so is all that was known.                                     *)
LEMMA ArrivedGrown ==
  ASSUME NEW u, IsUi(u), IsTree(u), NEW node, KnownIn(u, node), node.key \notin DOMAIN u.kids,
         NEW children, IsListing(children, Height(node.key[1]))
  PROVE  Grown(u, Arrived(u, node, children), node, children)
  <1> DEFINE v == Arrived(u, node, children)
             new == Keys(children)
             Child(k) == children[CHOOSE i \in DOMAIN children : children[i].key = k]
             kids == [k \in DOMAIN u.kids \cup {node.key} |-> IF k = node.key THEN children ELSE u.kids[k]]
             nodes == [k \in DOMAIN u.nodes \cup new |-> IF k \in new THEN Child(k) ELSE u.nodes[k]]
             parent == [k \in DOMAIN u.parent \cup new |-> IF k \in DOMAIN u.parent THEN u.parent[k] ELSE node.key]
  <1>1. v = [u EXCEPT !.busy = @ \ {node.key}, !.errors = @ \ {node.key}, !.kids = kids, !.nodes = nodes, !.parent = parent]
    BY DEF Arrived
  <1>2. \A k \in new : \E i \in DOMAIN children : children[i].key = k /\ Child(k) = children[i]
    BY DEF Keys
  <1>3. /\ DOMAIN kids = DOMAIN u.kids \cup {node.key} /\ kids[node.key] = children
        /\ \A k \in DOMAIN u.kids : kids[k] = u.kids[k]
    BY Zenon
  <1>4. /\ DOMAIN nodes = DOMAIN u.nodes \cup new
        /\ \A k \in new : nodes[k] = Child(k)
        /\ \A k \in DOMAIN u.nodes \ new : nodes[k] = u.nodes[k]
    BY Zenon
  <1>5. /\ DOMAIN parent = DOMAIN u.nodes \cup new
        /\ \A k \in DOMAIN u.nodes : parent[k] = u.parent[k]
        /\ \A k \in new \ DOMAIN u.nodes : parent[k] = node.key
    <2>1. DOMAIN u.parent = DOMAIN u.nodes
      BY DEF IsTree
    <2> HIDE DEF new
    <2> QED BY <2>1
  <1>6. \A i \in DOMAIN children : children[i].key \in new
    BY DEF Keys
  <1> HIDE DEF kids, nodes, parent, v, new, Child
  <1>7. /\ v.kids = kids /\ v.nodes = nodes /\ v.parent = parent /\ IsUi(v)
        /\ v.busy = u.busy \ {node.key} /\ v.previewBusy = u.previewBusy
        /\ v.selected = u.selected /\ v.right = u.right /\ v.stray = u.stray /\ v.expanded = u.expanded
        /\ v.rightFilter = u.rightFilter
    BY <1>1 DEF IsUi, UiFields
  <1>8. SharedKeys(u) \subseteq SharedKeys(v)
    <2> SUFFICES ASSUME NEW k \in SharedKeys(u) PROVE k \in SharedKeys(v)
      OBVIOUS
    <2>1. k \in DOMAIN u.nodes
      BY DEF SharedKeys
    <2>2. PICK p \in DOMAIN u.kids, q \in DOMAIN u.kids : p # q /\ k \in Keys(u.kids[p]) \cap Keys(u.kids[q])
      BY DEF SharedKeys
    <2>3. v.kids[p] = u.kids[p] /\ v.kids[q] = u.kids[q] /\ p \in DOMAIN v.kids /\ q \in DOMAIN v.kids
      BY <1>3, <1>7
    <2>4. k \in DOMAIN v.nodes
      BY <2>1, <1>4, <1>7
    <2> QED BY <2>2, <2>3, <2>4 DEF SharedKeys
  <1>9. /\ \A i \in DOMAIN children : IsNode(children[i]) /\ Height(children[i].key[1]) < Height(node.key[1])
        /\ \A i, j \in DOMAIN children : children[i].key = children[j].key => children[i] = children[j]
    BY DEF IsListing
  <1>10. \A i \in DOMAIN children : v.nodes[children[i].key] = children[i]
    BY <1>2, <1>4, <1>6, <1>7, <1>9
  <1>11. node.key \in DOMAIN u.nodes /\ IsNode(node)
    BY DEF KnownIn
  <1>12. Root.key \notin new
    <2> SUFFICES ASSUME NEW i \in DOMAIN children, children[i].key = Root.key PROVE FALSE
      BY DEF new, Keys
    <2>1. Height(Root.key[1]) < Height(node.key[1])
      BY <1>9
    <2>2. Height(Root.key[1]) = 5 /\ Height(node.key[1]) \in 0..5
      BY HeightBound DEF Root, Node
    <2> QED BY <2>1, <2>2
  <1>13. ASSUME NEW k \in DOMAIN u.nodes, k \notin SharedKeys(v) PROVE v.nodes[k] = u.nodes[k]
    <2>1. CASE k \notin new
      BY <1>4, <1>7, <2>1
    <2>2. CASE k \in new
      <3>1. k # Root.key
        BY <1>12, <2>2
      <3>2. u.parent[k] \in DOMAIN u.kids /\ k \in Keys(u.kids[u.parent[k]])
        BY <3>1 DEF IsTree
      <3>3. u.parent[k] # node.key
        BY <3>2
      <3>4. k \in Keys(v.kids[u.parent[k]]) /\ k \in Keys(v.kids[node.key])
        BY <1>3, <1>7, <2>2, <3>2 DEF new
      <3>5. k \in DOMAIN v.nodes /\ u.parent[k] \in DOMAIN v.kids /\ node.key \in DOMAIN v.kids
        BY <1>3, <1>4, <1>7, <3>2
      <3>6. k \in SharedKeys(v)
        BY <3>3, <3>4, <3>5 DEF SharedKeys
      <3> QED BY <3>6, <1>13
    <2> QED BY <2>1, <2>2
  <1>14. ASSUME NEW n, KnownIn(u, n) PROVE KnownIn(v, n)
    <2>1. IsNode(n) /\ n.key \in DOMAIN u.nodes /\ (n.key \notin SharedKeys(u) => u.nodes[n.key] = n)
      BY <1>14 DEF KnownIn
    <2>2. n.key \in DOMAIN v.nodes
      BY <2>1, <1>4, <1>7
    <2> QED BY <2>1, <2>2, <1>8, <1>13 DEF KnownIn
  <1>15. \A i \in DOMAIN children : KnownIn(v, children[i])
    BY <1>4, <1>6, <1>7, <1>9, <1>10 DEF KnownIn
  <1>16. \A k \in DOMAIN v.nodes : v.nodes[k] \in Range(children) \/ (k \in DOMAIN u.nodes /\ v.nodes[k] = u.nodes[k])
    <2> SUFFICES ASSUME NEW k \in DOMAIN v.nodes
                 PROVE  v.nodes[k] \in Range(children) \/ (k \in DOMAIN u.nodes /\ v.nodes[k] = u.nodes[k])
      OBVIOUS
    <2>1. CASE k \in new
      BY <1>2, <1>4, <1>7, <2>1 DEF Range
    <2>2. CASE k \notin new
      BY <1>4, <1>7, <2>2
    <2> QED BY <2>1, <2>2
  <1>17. IsTree(v)
    <2>1. DOMAIN v.parent = DOMAIN v.nodes
      BY <1>4, <1>5, <1>7
    <2>2. Root.key \in DOMAIN v.nodes /\ v.nodes[Root.key] = Root /\ v.parent[Root.key] = NoKey
      BY <1>4, <1>5, <1>7, <1>12 DEF IsTree
    <2>3. \A k \in DOMAIN v.nodes : IsNode(v.nodes[k]) /\ v.nodes[k].key = k
      <3> SUFFICES ASSUME NEW k \in DOMAIN v.nodes PROVE IsNode(v.nodes[k]) /\ v.nodes[k].key = k
        OBVIOUS
      <3>1. CASE k \in new
        BY <1>2, <1>4, <1>7, <1>9, <3>1
      <3>2. CASE k \notin new
        BY <1>4, <1>7, <3>2 DEF IsTree
      <3> QED BY <3>1, <3>2
    <2>4. ASSUME NEW p \in DOMAIN v.kids
          PROVE  /\ p \in DOMAIN v.nodes
                 /\ IsListing(v.kids[p], Height(p[1]))
                 /\ \A i \in DOMAIN v.kids[p] : KnownIn(v, v.kids[p][i])
      <3>1. CASE p = node.key
        <4>1. p \in DOMAIN v.nodes /\ v.kids[p] = children
          BY <1>3, <1>4, <1>7, <1>11, <3>1
        <4> QED BY <4>1, <1>15, <3>1
      <3>2. CASE p # node.key
        <4>1. p \in DOMAIN u.kids /\ v.kids[p] = u.kids[p]
          BY <1>3, <1>7, <3>2
        <4>2. p \in DOMAIN u.nodes /\ IsListing(u.kids[p], Height(p[1])) /\ \A i \in DOMAIN u.kids[p] : KnownIn(u, u.kids[p][i])
          BY <4>1 DEF IsTree
        <4> QED BY <4>1, <4>2, <1>4, <1>7, <1>14
      <3> QED BY <3>1, <3>2
    <2>5. ASSUME NEW k \in DOMAIN v.nodes \ {Root.key} PROVE v.parent[k] \in DOMAIN v.kids /\ k \in Keys(v.kids[v.parent[k]])
      <3>1. CASE k \in DOMAIN u.nodes
        <4>1. u.parent[k] \in DOMAIN u.kids /\ k \in Keys(u.kids[u.parent[k]])
          BY <3>1 DEF IsTree
        <4> QED BY <4>1, <3>1, <1>3, <1>5, <1>7
      <3>2. CASE k \notin DOMAIN u.nodes
        <4>1. k \in new
          BY <1>4, <1>7, <3>2
        <4>2. v.parent[k] = node.key /\ v.kids[node.key] = children /\ node.key \in DOMAIN v.kids
          BY <1>3, <1>5, <1>7, <3>2, <4>1
        <4> QED BY <4>1, <4>2 DEF new
      <3> QED BY <3>1, <3>2
    <2> QED BY <2>1, <2>2, <2>3, <2>4, <2>5 DEF IsTree
  <1>18. Grown(u, v, node, children)
    <2>1. /\ DOMAIN v.nodes = DOMAIN u.nodes \cup Keys(children) /\ DOMAIN v.kids = DOMAIN u.kids \cup {node.key}
          /\ v.kids[node.key] = children /\ \A k \in DOMAIN u.kids : v.kids[k] = u.kids[k]
      BY <1>3, <1>4, <1>7 DEF new
    <2>2. \A k \in DOMAIN u.nodes : /\ v.parent[k] = u.parent[k]
                                    /\ k \notin SharedKeys(v) => v.nodes[k] = u.nodes[k]
      BY <1>5, <1>7, <1>13
    <2> QED BY <1>7, <1>8, <1>14, <1>16, <1>17, <2>1, <2>2 DEF Grown
  <1> QED BY <1>18 DEF v

(* The ancestors of what was known are what they were.                     *)
LEMMA GrownAncestors ==
  ASSUME NEW u, IsTree(u), NEW v, NEW node, NEW children, Grown(u, v, node, children), NEW key \in DOMAIN u.nodes
  PROVE  /\ \A n \in 0..Depth : Ancestors(v, key)[n] = Ancestors(u, key)[n]
         /\ OpenTo(u, key) => OpenTo(v, key)
         /\ ~Unshared(u, key) => ~Unshared(v, key)
  <1> DEFINE a == Ancestors(u, key)
             b == Ancestors(v, key)
  <1>1. a[0] = key /\ b[0] = key /\ \A n \in 1..Depth : a[n] = ParentOf(u, a[n - 1]) /\ b[n] = ParentOf(v, b[n - 1])
    BY AncestorsAre
  <1>2. \A n \in 0..Depth : a[n] = NoKey \/ a[n] \in DOMAIN u.nodes
    BY AncestorsKnown
  <1> HIDE DEF a, b
  <1>3. ParentOf(u, NoKey) = NoKey /\ ParentOf(v, NoKey) = NoKey
    <2>1. Root.key \in DOMAIN u.nodes /\ Root.key \in DOMAIN v.nodes /\ IsTree(v)
      BY DEF IsTree, Grown
    <2>2. NoKey \notin DOMAIN u.nodes /\ NoKey \notin DOMAIN v.nodes
      BY <2>1, ParentAbove
    <2> QED BY <2>1, <2>2 DEF ParentOf, IsTree
  <1>4. \A k \in DOMAIN u.nodes : ParentOf(v, k) = ParentOf(u, k)
    <2>1. DOMAIN u.parent = DOMAIN u.nodes /\ DOMAIN v.parent = DOMAIN v.nodes /\ DOMAIN u.nodes \subseteq DOMAIN v.nodes
      BY DEF IsTree, Grown
    <2>2. \A k \in DOMAIN u.nodes : v.parent[k] = u.parent[k]
      BY DEF Grown
    <2> QED BY <2>1, <2>2 DEF ParentOf
  <1>5. ASSUME NEW n \in 1..Depth, a[n - 1] = b[n - 1] PROVE a[n] = b[n]
    <2>1. n - 1 \in 0..Depth
      BY Steps6
    <2> QED BY <2>1, <1>1, <1>2, <1>3, <1>4, <1>5
  <1>6. \A n \in 0..Depth : b[n] = a[n]
    <2>0. 1 - 1 = 0 /\ 2 - 1 = 1 /\ 3 - 1 = 2 /\ 4 - 1 = 3 /\ 5 - 1 = 4 /\ 6 - 1 = 5
      OBVIOUS
    <2>1. a[0] = b[0]
      BY <1>1
    <2>2. a[1] = b[1]
      BY <2>0, <2>1, <1>5, Steps6
    <2>3. a[2] = b[2]
      BY <2>0, <2>2, <1>5, Steps6
    <2>4. a[3] = b[3]
      BY <2>0, <2>3, <1>5, Steps6
    <2>5. a[4] = b[4]
      BY <2>0, <2>4, <1>5, Steps6
    <2>6. a[5] = b[5]
      BY <2>0, <2>5, <1>5, Steps6
    <2>7. a[6] = b[6]
      BY <2>0, <2>6, <1>5, Steps6
    <2> QED BY <2>1, <2>2, <2>3, <2>4, <2>5, <2>6, <2>7, Steps6
  <1>7. OpenTo(u, key) => OpenTo(v, key)
    <2>1. \A n \in 1..Depth : n \in 0..Depth
      BY Steps6
    <2> QED BY <1>6, <2>1 DEF OpenTo, Grown, a, b
  <1>8. ~Unshared(u, key) => ~Unshared(v, key)
    <2>1. \A k : k \in PathOf(u, key) <=> k # NoKey /\ (k = Root.key \/ \E n \in 0..Depth : k = a[n])
      BY PathHas DEF a
    <2>2. \A k : k \in PathOf(v, key) <=> k # NoKey /\ (k = Root.key \/ \E n \in 0..Depth : k = b[n])
      BY PathHas DEF b
    <2>3. PathOf(u, key) \subseteq PathOf(v, key)
      BY <2>1, <2>2, <1>6
    <2> QED BY <2>3 DEF Unshared, Grown
  <1> QED BY <1>6, <1>7, <1>8 DEF a, b

(* A selection stays in order while the tree grows.                        *)
LEMMA GrownSelection ==
  ASSUME NEW u, Fine(u), NEW v, NEW node, NEW children, Grown(u, v, node, children), node.key \notin DOMAIN u.kids
  PROVE  Fine(v)
  <1>1. IsTree(u) /\ IsTree(v) /\ IsUi(v) /\ u.selected \in DOMAIN u.nodes /\ v.selected = u.selected
    BY DEF Fine, Grown, IsSelection
  <1>2. v.selected \in DOMAIN v.nodes
    BY <1>1 DEF Grown
  <1>3. v.right = 0 \/ v.right + 1 \in DOMAIN RightEntries(v)
    <2> DEFINE m == SelectedNode(u)
               n == SelectedNode(v)
    <2>1. IsNode(m) /\ IsNode(n) /\ m.key = u.selected /\ n.key = u.selected
      BY <1>1, <1>2, SelectedKnown DEF KnownIn
    <2>2. RightEntries(u) = RightOf(m, u.kids, u.rightFilter) /\ RightEntries(v) = RightOf(n, v.kids, v.rightFilter)
      BY RightEntriesAre
    <2>3. v.rightFilter = u.rightFilter /\ v.right = u.right
      BY DEF Grown
    <2> HIDE DEF m, n
    <2>4. m.resource # Nil <=> n.resource # Nil
      BY <2>1 DEF IsNode
    <2>5. CASE m.resource # Nil
      <3>1. RightEntries(v) = RightEntries(u)
        BY <2>2, <2>3, <2>4, <2>5 DEF RightOf
      <3> QED BY <2>3, <3>1 DEF Fine, IsSelection
    <2>6. CASE m.resource = Nil /\ u.selected \in DOMAIN u.kids
      <3>1. u.selected \in DOMAIN v.kids /\ v.kids[u.selected] = u.kids[u.selected]
        BY <2>6 DEF Grown
      <3>2. RightEntries(v) = RightEntries(u)
        BY <2>1, <2>2, <2>3, <2>4, <2>6, <3>1 DEF RightOf
      <3> QED BY <2>3, <3>2 DEF Fine, IsSelection
    <2>7. CASE m.resource = Nil /\ u.selected \notin DOMAIN u.kids
      <3>1. RightEntries(u) = <<>>
        BY <2>1, <2>2, <2>7 DEF RightOf
      <3>2. u.right = 0
        BY <3>1 DEF Fine, IsSelection
      <3> QED BY <2>3, <3>2
    <2> QED BY <2>5, <2>6, <2>7
  <1>4. v.stray \/ OnSharedPath(v) \/ OpenTo(v, v.selected)
    <2>1. OnSharedPath(u) <=> ~Unshared(u, u.selected)
      BY <1>1, PathIsPathOf
    <2>2. OnSharedPath(v) <=> ~Unshared(v, v.selected)
      BY <1>1, <1>2, PathIsPathOf
    <2>3. u.stray \/ OnSharedPath(u) \/ OpenTo(u, u.selected)
      BY DEF Fine, IsSelection
    <2>4. v.stray = u.stray
      BY DEF Grown
    <2> QED BY <1>1, <2>1, <2>2, <2>3, <2>4, GrownAncestors
  <1>5. v.stray \in BOOLEAN /\ v.right \in Nat
    BY DEF Fine, IsSelection, Grown
  <1> QED BY <1>1, <1>2, <1>3, <1>4, <1>5 DEF Fine, IsSelection

(* The first children are those of the root; the first of them is selected. *)
LEMMA RootArrived ==
  ASSUME NEW u, Fine(u), u.selected = Root.key, Root.key \notin DOMAIN u.kids,
         NEW v, Grown(u, v, Root, HomeChildren), NEW w, w = [v EXCEPT !.selected = HomeChildren[1].key]
  PROVE  Still(v, w) /\ Fine(w)
  <1> DEFINE first == HomeChildren[1].key
  <1>1. first[1] = "current" /\ first \in Keys(HomeChildren)
    BY DEF HomeChildren, Node, Keys
  <1> HIDE DEF first
  <1>2. IsUi(v) /\ IsTree(v) /\ first \in DOMAIN v.nodes /\ Fine(v)
    <2>1. Root.key \notin DOMAIN u.kids
      OBVIOUS
    <2> QED BY <1>1, <2>1, GrownSelection DEF Grown
  <1>3. /\ Still(v, w) /\ w.selected = first /\ w.right = v.right /\ w.stray = v.stray
        /\ w.expanded = v.expanded
    BY <1>2 DEF IsUi, UiFields, SameTree, Still, first
  <1>4. SameTree(v, w) /\ w.nodes = v.nodes /\ IsTree(w)
    BY <1>2, <1>3, SameKnown DEF Still, SameTree
  <1>5. v.right = 0
    <2>1. SelectedNode(u) = Root
      BY DEF SelectedNode, Fine, IsTree
    <2>2. Root.resource = Nil
      BY DEF Root, Node
    <2>3. RightEntries(u) = <<>>
      BY <2>1, <2>2 DEF RightEntries
    <2>4. DOMAIN RightEntries(u) = {}
      BY <2>3
    <2> QED BY <2>4 DEF Fine, IsSelection, Grown
  <1>6. OpenTo(w, first)
    <2>1. first # Root.key
      BY <1>1 DEF Root, Node
    <2>2. ParentOf(w, first) = Root.key
      <3>1. /\ ParentOf(w, first) \in DOMAIN w.nodes
            /\ Height(ParentOf(w, first)[1]) > Height(first[1])
        BY <1>2, <1>4, <2>1, ParentAbove
      <3>2. Height(first[1]) = 4
        BY <1>1 DEF Height
      <3>3. Height(ParentOf(w, first)[1]) = 5
        <4>1. Height(ParentOf(w, first)[1]) \in 0..5
          BY HeightBound
        <4> QED BY <4>1, <3>1, <3>2
      <3>4. ParentOf(w, first)[1] = "root"
        BY <3>3, HeightBound
      <3> QED BY <3>1, <3>4, <1>4, ParentAbove
    <2>3. OpenTo(w, Root.key)
      BY <1>4, RootOpened
    <2> QED BY <1>2, <1>4, <2>1, <2>2, <2>3, PathShift
  <1>7. IsSelection(w)
    <2>1. w.right \in Nat /\ w.right = 0 /\ w.stray \in BOOLEAN
      BY <1>2, <1>3, <1>5 DEF Fine, IsSelection
    <2> QED BY <2>1, <1>2, <1>3, <1>4, <1>6 DEF IsSelection
  <1> QED BY <1>3, <1>4, <1>7 DEF Fine, Still

-----------------------------------------------------------------------------
(* What the service holds *)

SvcFields == {"loaded", "today", "current"}

IsService(s) ==
    /\ s = [field \in SvcFields |-> s[field]]
    /\ IsDay(s.today)
    /\ <<"current">> \in s.loaded => IsResult(s.current)
    /\ s.current # Nil => IsResult(s.current)

(* The lists on the screen are what the service would answer now, but for  *)
(* the nodes that two lists share.                                         *)
Coherent(u, s) ==
    /\ \A k \in DOMAIN u.kids : /\ u.nodes[k].kind = "today" => <<"today">> \in s.loaded
                                /\ u.nodes[k].kind = "current" => <<"current">> \in s.loaded
    /\ \A k \in DOMAIN u.nodes : u.nodes[k].byCurrent => <<"current">> \in s.loaded
    /\ \A k \in DOMAIN u.kids : k \notin SharedKeys(u) => u.kids[k] = Children(u.nodes[k], s.today, s.current)

(* With nothing missing everything a command needs is there.               *)
LEMMA NeedsAre ==
  ASSUME NEW c
  PROVE  IsSeq(NeedsOf(c))
  <1>1. \A x : IsSeq(<<x>>)
    BY DEF IsSeq, Range
  <1>2. \A x, y : IsSeq(<<x, y>>)
    BY DEF IsSeq, Range
  <1>3. IsSeq(<<>>)
    BY DEF IsSeq, Range
  <1>4. NeedsOf(c) = <<>> \/ (\E x : NeedsOf(c) = <<x>>) \/ (\E x, y : NeedsOf(c) = <<x, y>>)
    BY DEF NeedsOf, Needs
  <1> QED BY <1>1, <1>2, <1>3, <1>4

(* A command that misses nothing has all it needs.                         *)
LEMMA NothingMissing ==
  ASSUME NEW c, Missing(c) = <<>>
  PROVE  \A i \in DOMAIN NeedsOf(c) : NeedsOf(c)[i] \in svc.loaded
  <1> DEFINE needs == NeedsOf(c)
             P == {i \in DOMAIN needs : needs[i] \notin svc.loaded}
  <1>1. IsSeq(needs)
    BY NeedsAre
  <1>2. Picked(needs, P) = <<>>
    BY DEF Missing
  <1> HIDE DEF needs
  <1>3. P \in SUBSET DOMAIN needs
    OBVIOUS
  <1>4. IsFiniteSet(P)
    BY <1>1, <1>3, PositionsFinite
  <1> HIDE DEF P
  <1>5. Len(Picked(needs, P)) = Cardinality(P)
    BY <1>1, <1>3, PickedFrom
  <1>6. Cardinality(P) = 0
    BY <1>2, <1>5
  <1>7. P = {}
    BY <1>4, <1>6, FS_EmptySet
  <1> QED BY <1>7 DEF P, needs

(* What is fetched next was not there.                                     *)
LEMMA FirstMissing ==
  ASSUME NEW c, Missing(c) # <<>>
  PROVE  Head(Missing(c)) \notin svc.loaded
  <1> DEFINE needs == NeedsOf(c)
             P == {i \in DOMAIN needs : needs[i] \notin svc.loaded}
             m == Picked(needs, P)
  <1>1. IsSeq(needs)
    BY NeedsAre
  <1>2. Missing(c) = m
    BY DEF Missing
  <1> HIDE DEF needs
  <1>3. P \in SUBSET DOMAIN needs /\ \A i \in P : needs[i] \notin svc.loaded
    OBVIOUS
  <1> HIDE DEF P
  <1>4. IsSeq(m) /\ \A n \in DOMAIN m : \E i \in P : m[n] = needs[i]
    BY <1>1, <1>3, PickedFrom
  <1> HIDE DEF m
  <1>5. 1 \in DOMAIN m /\ Head(m) = m[1]
    BY <1>2, <1>4 DEF IsSeq
  <1> QED BY <1>2, <1>3, <1>4, <1>5

(* What is loaded for the children of a node.                              *)
LEMMA LoadedFor ==
  ASSUME NEW c, c.op = "children", Missing(c) = <<>>
  PROVE  /\ c.node.kind = "today" => <<"today">> \in svc.loaded
         /\ c.node.kind = "current" => <<"current">> \in svc.loaded
  <1>1. NeedsOf(c) = Needs(c.node)
    BY DEF NeedsOf
  <1>2. ASSUME c.node.kind = "today" PROVE <<"today">> \in svc.loaded
    <2>1. NeedsOf(c) = << <<"today">>, <<"courses">> >>
      BY <1>1, <1>2 DEF Needs
    <2> DEFINE needs == NeedsOf(c)
    <2>2. 1 \in DOMAIN needs /\ needs[1] = <<"today">>
      BY <2>1
    <2> QED BY <2>2, NothingMissing
  <1>3. ASSUME c.node.kind = "current" PROVE <<"current">> \in svc.loaded
    <2>1. NeedsOf(c) = << <<"current">>, <<"courses">> >>
      BY <1>1, <1>3 DEF Needs
    <2> DEFINE needs == NeedsOf(c)
    <2>2. 1 \in DOMAIN needs /\ needs[1] = <<"current">>
      BY <2>1
    <2> QED BY <2>2, NothingMissing
  <1> QED BY <1>2, <1>3

(* Only the files of the current lecture are sorted by it.                 *)
LEMMA OnlyCurrentSorts ==
  ASSUME NEW node, NEW today, NEW current, node.kind # "current",
         NEW i \in DOMAIN Children(node, today, current)
  PROVE  ~Children(node, today, current)[i].byCurrent
  <1> DEFINE list == Children(node, today, current)
  <1>0. \A key, kind : Node(key, kind).byCurrent = FALSE
    BY DEF Node
  <1>1. ASSUME NEW summaries, NEW j \in DOMAIN GroupCalendarEvents(summaries)
        PROVE  GroupCalendarEvents(summaries)[j].byCurrent = FALSE
    BY DEF GroupCalendarEvents, Node
  <1>2. ASSUME NEW j \in DOMAIN TimetableWeekChildren PROVE TimetableWeekChildren[j].byCurrent = FALSE
    BY DEF TimetableWeekChildren, Node
  <1>3. ASSUME NEW j \in DOMAIN SemesterChildren PROVE SemesterChildren[j].byCurrent = FALSE
    <2> DEFINE newest == Ranked({Semester[c] : c \in Range(Courses)}, >)
    <2>1. SemesterChildren = [n \in DOMAIN newest |-> [Node(<<"semester", newest[n]>>, "semester") EXCEPT !.semester = newest[n]]]
      BY Zenon DEF SemesterChildren
    <2> HIDE DEF newest
    <2> QED BY <2>1 DEF Node
  <1>4. ASSUME NEW j \in DOMAIN CourseListChildren(node.semester) PROVE CourseListChildren(node.semester)[j].byCurrent = FALSE
    BY DEF CourseListChildren, Node
  <1>5. ASSUME NEW j \in DOMAIN SectionChildren(node) PROVE SectionChildren(node)[j].byCurrent = FALSE
    <2> DEFINE sections == [n \in DOMAIN Resources[node.course] |-> Resources[node.course][n].section]
               first == InOrder(FirstPositions(sections))
               New(n) == [Node(<<"section", node.key, n>>, "section") EXCEPT !.course = node.course, !.section = sections[first[n]]]
    <2>1. SectionChildren(node) = IF node.course = Nil THEN <<>> ELSE [n \in DOMAIN first |-> New(n)]
      BY Zenon DEF SectionChildren
    <2>2. \A n : New(n).byCurrent = FALSE
      <3> SUFFICES ASSUME NEW n PROVE New(n).byCurrent = FALSE
        OBVIOUS
      <3> HIDE DEF sections, first
      <3> QED BY DEF Node
    <2> HIDE DEF New, sections, first
    <2>3. CASE node.course = Nil
      BY <2>1, <2>3
    <2>4. CASE node.course # Nil
      BY <2>1, <2>2, <2>4
    <2> QED BY <2>3, <2>4
  <1>6. ASSUME NEW j \in DOMAIN ItemChildren(node, current) PROVE ItemChildren(node, current)[j].byCurrent = FALSE
    <2> DEFINE listed == Resources[node.course]
               here == Picked(listed, {n \in DOMAIN listed : node.section \in {Nil, listed[n].section}})
               shown == IF node.byCurrent THEN CurrentSortedResources(node.course, here, current) ELSE here
               New(n) == [Node(<<"item", node.key, n, shown[n].id>>, "resource") EXCEPT !.course = node.course, !.resource = shown[n]]
    <2>1. ItemChildren(node, current) = [n \in DOMAIN shown |-> New(n)]
      BY Zenon DEF ItemChildren
    <2> HIDE DEF shown
    <2>2. \A n : New(n).byCurrent = FALSE
      <3> SUFFICES ASSUME NEW n PROVE New(n).byCurrent = FALSE
        OBVIOUS
      <3> QED BY DEF Node
    <2> HIDE DEF New
    <2> QED BY <2>1, <2>2
  <1>7. ASSUME NEW j \in DOMAIN HomeChildren PROVE HomeChildren[j].byCurrent = FALSE
    <2>1. /\ HomeChildren[1] = Node(<<"current">>, "current") /\ HomeChildren[2] = Node(<<"today">>, "today")
          /\ HomeChildren[3] = Node(<<"semesters">>, "semesters") /\ HomeChildren[4] = Node(<<"timetable">>, "timetable")
          /\ DOMAIN HomeChildren = 1..4
      BY DEF HomeChildren
    <2> QED BY <2>1, <1>0
  <1>8. list \in {HomeChildren, GroupCalendarEvents(Summaries(today)), TimetableWeekChildren,
                  GroupCalendarEvents(Calendar[node.week]), SemesterChildren, CourseListChildren(node.semester),
                  SectionChildren(node), ItemChildren(node, current), <<>>}
    BY DEF Children
  <1> HIDE DEF list
  <1>9. ASSUME NEW j \in DOMAIN list PROVE list[j].byCurrent = FALSE
    <2>1. DOMAIN <<>> = {}
      OBVIOUS
    <2> QED BY <2>1, <1>1, <1>2, <1>3, <1>4, <1>5, <1>6, <1>7, <1>8, <1>9
  <1> QED BY <1>9 DEF list

(* What the children are put together from.                                *)
LEMMA ChildrenSame ==
  ASSUME NEW node, NEW today, NEW current, NEW day, NEW result,
         node.kind = "today" => day = today,
         node.kind = "current" => result = current,
         node.byCurrent => result = current
  PROVE  Children(node, day, result) = Children(node, today, current)
  <1>1. ItemChildren(node, result) = ItemChildren(node, current)
    <2>1. CASE node.byCurrent
      BY <2>1
    <2>2. CASE ~node.byCurrent
      BY <2>2 DEF ItemChildren
    <2> QED BY <2>1, <2>2
  <1> QED BY <1>1 DEF Children

-----------------------------------------------------------------------------
(* The inductive invariant *)

Good(u, cs, s) == Fine(u) /\ IsOut(u, cs) /\ IsService(s) /\ Coherent(u, s)

TerminalInv == running => Good(ui, cmds, svc)

(* The same tree still agrees with the service.                            *)
LEMMA SameCoherent ==
  ASSUME NEW u, NEW v, SameTree(u, v), NEW s, Coherent(u, s)
  PROVE  Coherent(v, s)
  <1>1. v.nodes = u.nodes /\ v.kids = u.kids /\ SharedKeys(v) = SharedKeys(u)
    BY SameKnown DEF SameTree
  <1> QED BY <1>1 DEF Coherent

(* A handler that leaves the tree alone keeps the invariant.               *)
LEMMA GoodStill ==
  ASSUME NEW u, NEW cs, NEW s, Good(u, cs, s), NEW v, Still(u, v), Fine(v)
  PROVE  Good(v, cs, s)
  <1>1. SameTree(u, v)
    BY DEF Still
  <1> QED BY <1>1, SameCoherent, StillOut DEF Good

(* So does one that asks for children or previews.                         *)
LEMMA GoodRight ==
  ASSUME NEW u, NEW cs, NEW s, Good(u, cs, s), NEW r, Asks(u, r), IsSelection(r.ui)
  PROVE  Good(r.ui, cs (+) SetToBag(r.cmds), s)
  <1>1. SameTree(u, r.ui) /\ IsUi(r.ui)
    BY DEF Asks
  <1>2. Fine(r.ui)
    BY <1>1, SameKnown DEF Fine, Good
  <1>3. Coherent(r.ui, s)
    BY <1>1, SameCoherent DEF Good
  <1>4. IsOut(r.ui, cs (+) SetToBag(r.cmds))
    BY AsksOut DEF Good
  <1> QED BY <1>2, <1>3, <1>4 DEF Good

(* So does the result of a command that was not for children.              *)
LEMMA GoodOtherDone ==
  ASSUME NEW u, NEW cs, NEW s, Good(u, cs, s), NEW c \in DOMAIN cs, c.op # "children",
         NEW v, IsUi(v), SameSelection(u, v), v.busy = u.busy,
         v.previewBusy = NoKey \/ (v.previewBusy = u.previewBusy /\ c.op \notin {"print", "preview"})
  PROVE  Good(v, cs (-) SetToBag({c}), s)
  <1>1. SameTree(u, v)
    BY DEF SameSelection
  <1>2. Fine(v)
    BY <1>1, SelectionKept, SameKnown DEF Fine, Good
  <1>3. Coherent(v, s)
    BY <1>1, SameCoherent DEF Good
  <1>4. IsOut(v, cs (-) SetToBag({c}))
    BY <1>1, OtherDone DEF Good
  <1> QED BY <1>2, <1>3, <1>4 DEF Good

(* The invariant holds when the terminal starts.                           *)
LEMMA GoodInit == TerminalInit => TerminalInv
  <1> SUFFICES ASSUME TerminalInit PROVE Good(ui, cmds, svc)
    BY DEF TerminalInv
  <1> DEFINE c0 == Cmd("children", Root)
  <1>1. /\ ui = [focus |-> "tree", upper |-> "tree", collapsed |-> FALSE, typing |-> FALSE,
             leftFilter |-> Everything, rightFilter |-> Everything,
             selected |-> Root.key, right |-> 0, stray |-> FALSE, expanded |-> {Root.key},
             nodes |-> [k \in {Root.key} |-> Root], parent |-> [k \in {Root.key} |-> NoKey],
             kids |-> [k \in {} |-> <<>>], busy |-> {Root.key}, errors |-> {},
             previews |-> {}, previewBusy |-> NoKey, dialog |-> Nil]
        /\ cmds = SetToBag({c0})
        /\ svc = [loaded |-> {}, today |-> <<>>, current |-> Nil]
    BY DEF TerminalInit
  <1>2. PICK u : u = ui
    OBVIOUS
  <1>3. /\ IsUi(u) /\ DOMAIN u.nodes = {Root.key} /\ u.nodes[Root.key] = Root
        /\ DOMAIN u.parent = {Root.key} /\ u.parent[Root.key] = NoKey
        /\ DOMAIN u.kids = {} /\ u.busy = {Root.key} /\ u.previewBusy = NoKey
        /\ u.selected = Root.key /\ u.right = 0 /\ u.stray = FALSE
    BY <1>1, <1>2 DEF IsUi, UiFields
  <1>4. IsNode(Root) /\ Root.key # NoKey /\ Root.byCurrent = FALSE
    BY DEF IsNode, IsKey, Root, Node, NoKey, Tags, KindOf
  <1>5. IsTree(u)
    BY <1>3, <1>4 DEF IsTree
  <1>6. IsSelection(u)
    <2>1. OpenTo(u, Root.key)
      BY <1>5, RootOpened
    <2>2. FALSE \in BOOLEAN /\ 0 \in Nat
      OBVIOUS
    <2> QED BY <1>3, <2>1, <2>2 DEF IsSelection
  <1>7. KnownIn(u, Root)
    BY <1>3, <1>4 DEF KnownIn
  <1>8. c0.op = "children" /\ c0.node = Root
    BY DEF Cmd
  <1>9. DOMAIN cmds = {c0} /\ cmds[c0] = 1 /\ IsABag(cmds)
    <2> HIDE DEF c0
    <2> QED BY <1>1 DEF SetToBag, IsABag
  <1> HIDE DEF c0
  <1>10. IsOut(u, cmds)
    BY <1>3, <1>7, <1>8, <1>9 DEF IsOut
  <1>11. IsService(svc)
    <2>1. svc = [field \in SvcFields |-> svc[field]] /\ svc.loaded = {} /\ svc.today = <<>> /\ svc.current = Nil
      BY <1>1 DEF SvcFields
    <2>2. IsDay(<<>>)
      BY DEF IsDay, IsSeq, Range
    <2> QED BY <2>1, <2>2 DEF IsService
  <1>12. Coherent(u, svc)
    BY <1>3, <1>4 DEF Coherent
  <1> QED BY <1>2, <1>3, <1>5, <1>6, <1>10, <1>11, <1>12 DEF Good, Fine

-----------------------------------------------------------------------------
(* The steps of the loop *)

(* A key keeps the invariant.                                              *)
LEMMA KeyGood ==
  ASSUME TerminalInv, NEW key, Key(key)
  PROVE  TerminalInv'
  <1>1. running /\ Good(ui, cmds, svc) /\ UNCHANGED << svc, running >>
    BY DEF Key, Pressing, TerminalInv
  <1>2. PICK r \in Pressed(ui, key) : Handled(r)
    BY DEF Key
  <1>3. Right(ui, r)
    BY <1>1, PressedRight DEF Good
  <1>4. Good(r.ui, cmds (+) SetToBag(r.cmds), svc)
    BY <1>1, <1>3, GoodRight DEF Right
  <1> QED BY <1>1, <1>2, <1>4 DEF TerminalInv, Handled

(* So does starting to filter.                                             *)
LEMMA StartFilterGood ==
  ASSUME TerminalInv, StartFilter
  PROVE  TerminalInv'
  <1>1. running /\ Good(ui, cmds, svc) /\ UNCHANGED << cmds, svc, running >> /\ ui' = [ui EXCEPT !.typing = TRUE]
    BY DEF StartFilter, Pressing, TerminalInv
  <1>2. PICK u, v : u = ui /\ v = ui' /\ v = [u EXCEPT !.typing = TRUE]
    BY <1>1
  <1>3. IsUi(u) /\ Fine(u)
    BY <1>1, <1>2 DEF Good, Fine
  <1>4. Still(u, v) /\ SameSelection(u, v)
    BY <1>2, <1>3 DEF IsUi, UiFields, SameTree, Still, SameSelection
  <1>5. Fine(v)
    BY <1>3, <1>4, StillFine
  <1>6. Good(v, cmds, svc)
    BY <1>1, <1>2, <1>4, <1>5, GoodStill
  <1> QED BY <1>1, <1>2, <1>6 DEF TerminalInv

(* So does typing a filter.                                                *)
LEMMA TypeFilterGood ==
  ASSUME TerminalInv, NEW filter, TypeFilter(filter)
  PROVE  TerminalInv'
  <1>1. running /\ Good(ui, cmds, svc) /\ UNCHANGED << cmds, svc, running >> /\ ui' = Typed(ui, filter)
    BY DEF TypeFilter, Pressing, TerminalInv
  <1>2. Still(ui, Typed(ui, filter)) /\ Fine(Typed(ui, filter))
    BY <1>1, TypedFine DEF Good
  <1>3. Good(Typed(ui, filter), cmds, svc)
    BY <1>1, <1>2, GoodStill
  <1> QED BY <1>1, <1>3 DEF TerminalInv

(* So does leaving the filter.                                             *)
LEMMA LeaveFilterGood ==
  ASSUME TerminalInv, NEW clear \in BOOLEAN, LeaveFilter(clear)
  PROVE  TerminalInv'
  <1>1. /\ running /\ Good(ui, cmds, svc) /\ UNCHANGED << cmds, svc, running >>
        /\ ui' = [(IF clear THEN Typed(ui, Everything) ELSE ui) EXCEPT !.typing = FALSE]
    BY DEF LeaveFilter, Pressing, TerminalInv
  <1>2. PICK u : u = IF clear THEN Typed(ui, Everything) ELSE ui
    OBVIOUS
  <1>3. PICK v : v = ui' /\ v = [u EXCEPT !.typing = FALSE]
    BY <1>1, <1>2
  <1>4. Good(u, cmds, svc)
    <2>1. CASE clear
      <3>1. Still(ui, Typed(ui, Everything)) /\ Fine(Typed(ui, Everything))
        BY <1>1, TypedFine DEF Good
      <3> QED BY <1>1, <1>2, <2>1, <3>1, GoodStill
    <2>2. CASE ~clear
      BY <1>1, <1>2, <2>2
    <2> QED BY <2>1, <2>2
  <1>5. IsUi(u) /\ Fine(u)
    BY <1>4 DEF Good, Fine
  <1>6. Still(u, v) /\ SameSelection(u, v)
    BY <1>3, <1>5 DEF IsUi, UiFields, SameTree, Still, SameSelection
  <1>7. Good(v, cmds, svc)
    BY <1>4, <1>5, <1>6, StillFine, GoodStill
  <1> QED BY <1>1, <1>3, <1>7 DEF TerminalInv

(* What a key does to the download dialog concerns nothing else.           *)
LEMMA DialogMoves ==
  ASSUME NEW key, DialogKey(key)
  PROVE  \/ /\ UNCHANGED << cmds, svc, running >>
            /\ \E e : ui' = [ui EXCEPT !.dialog = e]
         \/ /\ UNCHANGED << svc, running >>
            /\ \E target : Handled(Outcome(ui, {Cmd("download", target)}))
  <1> DEFINE Moved(e) == ui' = [ui EXCEPT !.dialog = e] /\ UNCHANGED cmds
             Some == \E e : Moved(e)
             Saves == \E target : Handled(Outcome(ui, {Cmd("download", target)}))
  <1>1. \A e : Moved(e) => Some
    OBVIOUS
  <1>2. UNCHANGED << svc, running >> /\ (Some \/ Saves)
    <2>1. UNCHANGED << svc, running >>
      BY DEF DialogKey
    <2>2. Some \/ Saves
      <3> HIDE DEF Moved, Some
      <3> QED BY <1>1, Zenon DEF DialogKey, Moved, Saves
    <2> QED BY <2>1, <2>2
  <1> QED BY <1>2

(* So does a key in the download dialog.                                   *)
LEMMA DialogGood ==
  ASSUME TerminalInv, NEW key, DialogKey(key)
  PROVE  TerminalInv'
  <1>1. running /\ Good(ui, cmds, svc)
    BY DEF DialogKey, Pressing, TerminalInv
  <1>2. CASE UNCHANGED << cmds, svc, running >> /\ \E e : ui' = [ui EXCEPT !.dialog = e]
    <2>1. PICK u, v, e : u = ui /\ v = ui' /\ v = [u EXCEPT !.dialog = e]
      BY <1>2
    <2>2. IsUi(u) /\ Fine(u)
      BY <1>1, <2>1 DEF Good, Fine
    <2>3. Still(u, v) /\ SameSelection(u, v)
      BY <2>1, <2>2 DEF IsUi, UiFields, SameTree, Still, SameSelection
    <2>4. Good(v, cmds, svc)
      BY <1>1, <2>1, <2>2, <2>3, StillFine, GoodStill
    <2> QED BY <1>1, <1>2, <2>1, <2>4 DEF TerminalInv
  <1>3. CASE UNCHANGED << svc, running >> /\ \E target : Handled(Outcome(ui, {Cmd("download", target)}))
    <2>1. PICK target : Handled(Outcome(ui, {Cmd("download", target)}))
      BY <1>3
    <2> DEFINE S == {Cmd("download", target)}
               r == Outcome(ui, S)
    <2>2. \A c \in S : c.op # "children"
      BY DEF Cmd
    <2> HIDE DEF S
    <2>3. Still(ui, ui)
      BY <1>1 DEF Good, Fine, Still, SameTree
    <2>4. Asks(ui, r)
      BY <2>2, <2>3, StillAsks
    <2>5. r.ui = ui /\ r.cmds = S
      BY DEF Outcome
    <2>6. Handled(r)
      BY <2>1 DEF S
    <2> HIDE DEF r
    <2>7. Good(r.ui, cmds (+) SetToBag(r.cmds), svc)
      <3>1. IsSelection(r.ui)
        BY <1>1, <2>5 DEF Good, Fine
      <3> QED BY <1>1, <2>4, <3>1, GoodRight
    <2> QED BY <1>1, <1>3, <2>6, <2>7 DEF TerminalInv, Handled
  <1> QED BY <1>2, <1>3, DialogMoves

-----------------------------------------------------------------------------
(* The steps of the commands *)

(* So does a fetch that fills a cache of the service.                      *)
LEMMA FetchGood ==
  ASSUME TerminalInv, NEW c, Fetch(c)
  PROVE  TerminalInv'
  <1>1. running /\ Good(ui, cmds, svc) /\ UNCHANGED << ui, cmds, running >>
    BY DEF Fetch, TerminalInv
  <1> DEFINE need == Head(Missing(c))
  <1>2. need \notin svc.loaded /\ svc' \in Kept(need)
    BY FirstMissing DEF Fetch
  <1> HIDE DEF need
  <1>3. PICK s, t : s = svc /\ t = svc'
    OBVIOUS
  <1>4. IsService(s) /\ Coherent(ui, s)
    BY <1>1, <1>3 DEF Good
  <1>5. \/ /\ need = <<"current">>
           /\ \E e \in Calendars, fails \in BOOLEAN :
                 t = [s EXCEPT !.loaded = @ \cup {need}, !.current = CurrentResult(e, fails)]
        \/ (need = <<"today">> /\ \E e \in Calendars : t = [s EXCEPT !.loaded = @ \cup {need}, !.today = e])
        \/ need # <<"current">> /\ t = [s EXCEPT !.loaded = @ \cup {need}]
    <2> DEFINE kept == [svc EXCEPT !.loaded = @ \cup {need}]
               Results == {[kept EXCEPT !.current = CurrentResult(e, fails)] : e \in Calendars, fails \in BOOLEAN}
               Days == {[kept EXCEPT !.today = e] : e \in Calendars}
    <2>a. Kept(need) = IF need = <<"current">> THEN Results ELSE IF need = <<"today">> THEN Days ELSE {kept}
      <3>1. CASE need = <<"current">>
        BY <3>1 DEF Kept
      <3>2. CASE need # <<"current">> /\ need = <<"today">>
        BY <3>2 DEF Kept
      <3>3. CASE need # <<"current">> /\ need # <<"today">>
        BY <3>3 DEF Kept
      <3> HIDE DEF Results, Days, kept
      <3> QED BY <3>1, <3>2, <3>3
    <2>b. /\ \A x \in Results : \E e \in Calendars, fails \in BOOLEAN : x = [kept EXCEPT !.current = CurrentResult(e, fails)]
          /\ \A x \in Days : \E e \in Calendars : x = [kept EXCEPT !.today = e]
      <3> HIDE DEF kept
      <3> QED OBVIOUS
    <2> HIDE DEF Results, Days
    <2>c. t \in Kept(need) /\ kept = [s EXCEPT !.loaded = @ \cup {need}]
      BY <1>2, <1>3
    <2> HIDE DEF kept
    <2>1. s = [field \in SvcFields |-> s[field]]
      BY <1>4 DEF IsService
    <2>2. CASE need = <<"current">>
      <3>1. PICK e \in Calendars, fails \in BOOLEAN : t = [kept EXCEPT !.current = CurrentResult(e, fails)]
        BY <2>a, <2>b, <2>c, <2>2
      <3>2. t = [s EXCEPT !.loaded = @ \cup {need}, !.current = CurrentResult(e, fails)]
        <4> DEFINE x == CurrentResult(e, fails)
        <4> HIDE DEF x
        <4>1. t = [kept EXCEPT !.current = x]
          BY <3>1 DEF x
        <4>2. t = [s EXCEPT !.loaded = @ \cup {need}, !.current = x]
          BY <2>1, <2>c, <4>1 DEF SvcFields
        <4> QED BY <4>2 DEF x
      <3> QED BY <2>2, <3>2
    <2>3. CASE need # <<"current">> /\ need = <<"today">>
      <3>1. PICK e \in Calendars : t = [kept EXCEPT !.today = e]
        BY <2>a, <2>b, <2>c, <2>3
      <3>2. t = [s EXCEPT !.loaded = @ \cup {need}, !.today = e]
        BY <2>1, <2>c, <3>1 DEF SvcFields
      <3> QED BY <2>3, <3>2
    <2>4. CASE need # <<"current">> /\ need # <<"today">>
      BY <2>a, <2>c, <2>4
    <2> QED BY <2>2, <2>3, <2>4
  <1>6. \A e \in Calendars : IsDay(e)
    BY CalendarsAssumption DEF IsDay, IsSeq
  <1>7. /\ t = [field \in SvcFields |-> t[field]]
        /\ t.loaded = s.loaded \cup {need}
        /\ t.today = s.today \/ (need = <<"today">> /\ t.today \in Calendars)
        /\ t.current = s.current \/ (need = <<"current">> /\ IsResult(t.current))
        /\ need = <<"current">> => IsResult(t.current)
    <2>1. s = [field \in SvcFields |-> s[field]]
      BY <1>4 DEF IsService
    <2>2. CASE need = <<"current">> /\ \E e \in Calendars, fails \in BOOLEAN :
                 t = [s EXCEPT !.loaded = @ \cup {need}, !.current = CurrentResult(e, fails)]
      <3>1. PICK e \in Calendars, fails \in BOOLEAN : t = [s EXCEPT !.loaded = @ \cup {need}, !.current = CurrentResult(e, fails)]
        BY <2>2
      <3> DEFINE x == CurrentResult(e, fails)
      <3>2. IsResult(x)
        BY <1>6, CurrentResultIs
      <3>3. t = [s EXCEPT !.loaded = @ \cup {need}, !.current = x]
        BY <3>1
      <3> HIDE DEF x
      <3>4. t = [field \in SvcFields |-> t[field]] /\ t.loaded = s.loaded \cup {need} /\ t.today = s.today /\ t.current = x
        BY <2>1, <3>3 DEF SvcFields
      <3> QED BY <2>2, <3>2, <3>4
    <2>3. CASE need = <<"today">> /\ \E e \in Calendars : t = [s EXCEPT !.loaded = @ \cup {need}, !.today = e]
      <3>1. PICK e \in Calendars : t = [s EXCEPT !.loaded = @ \cup {need}, !.today = e]
        BY <2>3
      <3>2. t = [field \in SvcFields |-> t[field]] /\ t.loaded = s.loaded \cup {need} /\ t.today = e /\ t.current = s.current
        BY <2>1, <3>1 DEF SvcFields
      <3>3. need # <<"current">>
        BY <2>3
      <3> QED BY <2>3, <3>2, <3>3
    <2>4. CASE need # <<"current">> /\ t = [s EXCEPT !.loaded = @ \cup {need}]
      <3>2. t = [field \in SvcFields |-> t[field]] /\ t.loaded = s.loaded \cup {need} /\ t.today = s.today /\ t.current = s.current
        BY <2>1, <2>4 DEF SvcFields
      <3> QED BY <2>4, <3>2
    <2> QED BY <1>5, <2>2, <2>3, <2>4
  <1>8. IsService(t)
    <2>1. IsDay(t.today)
      BY <1>4, <1>6, <1>7 DEF IsService
    <2>2. <<"current">> \in t.loaded => IsResult(t.current)
      BY <1>4, <1>7 DEF IsService
    <2>3. t.current # Nil => IsResult(t.current)
      BY <1>4, <1>7 DEF IsService
    <2> QED BY <1>7, <2>1, <2>2, <2>3 DEF IsService
  <1>9. Coherent(ui, t)
    <2>1. s.loaded \subseteq t.loaded
      BY <1>7
    <2>2. ASSUME NEW k \in DOMAIN ui.kids, k \notin SharedKeys(ui)
          PROVE  ui.kids[k] = Children(ui.nodes[k], t.today, t.current)
      <3> DEFINE node == ui.nodes[k]
      <3>1. ui.kids[k] = Children(node, s.today, s.current)
        BY <1>4, <2>2 DEF Coherent
      <3>2. k \in DOMAIN ui.nodes
        BY <1>1, <2>2 DEF Good, Fine, IsTree
      <3>3. /\ node.kind = "today" => <<"today">> \in s.loaded
            /\ node.kind = "current" => <<"current">> \in s.loaded
            /\ node.byCurrent => <<"current">> \in s.loaded
        BY <1>4, <2>2, <3>2 DEF Coherent
      <3>4. /\ <<"today">> \in s.loaded => t.today = s.today
            /\ <<"current">> \in s.loaded => t.current = s.current
        BY <1>2, <1>3, <1>7
      <3> HIDE DEF node
      <3>5. Children(node, t.today, t.current) = Children(node, s.today, s.current)
        BY <3>3, <3>4, ChildrenSame
      <3> QED BY <3>1, <3>5 DEF node
    <2> QED BY <1>4, <2>1, <2>2 DEF Coherent
  <1>10. Good(ui, cmds, t)
    BY <1>1, <1>8, <1>9 DEF Good
  <1> QED BY <1>1, <1>3, <1>10 DEF TerminalInv

-----------------------------------------------------------------------------
(* The steps of the commands *)

(* A cache that fills takes nothing back.                                  *)
LEMMA GoodLoaded ==
  ASSUME NEW u, NEW cs, NEW s, Good(u, cs, s), NEW course, NEW t,
         t = [s EXCEPT !.loaded = @ \cup {<<"resources", course>>}]
  PROVE  Good(u, cs, t)
  <1>1. s = [field \in SvcFields |-> s[field]]
    BY DEF Good, IsService
  <1>2. /\ t = [field \in SvcFields |-> t[field]] /\ t.loaded = s.loaded \cup {<<"resources", course>>}
        /\ t.today = s.today /\ t.current = s.current
    BY <1>1 DEF SvcFields
  <1>3. <<"resources", course>> # <<"current">>
    OBVIOUS
  <1>4. IsService(t)
    BY <1>2, <1>3 DEF Good, IsService
  <1>5. Coherent(u, t)
    BY <1>2 DEF Good, Coherent
  <1> QED BY <1>4, <1>5 DEF Good

(* A tree that grows by what the service lists agrees with the service.    *)
LEMMA GrownCoherent ==
  ASSUME NEW u, Fine(u), NEW s, Coherent(u, s), NEW node, KnownIn(u, node), node.key \notin DOMAIN u.kids,
         NEW children, children = Children(node, s.today, s.current),
         node.kind = "today" => <<"today">> \in s.loaded,
         node.kind = "current" => <<"current">> \in s.loaded,
         NEW v, Grown(u, v, node, children)
  PROVE  Coherent(v, s)
  <1>1. IsTree(u) /\ IsTree(v) /\ IsNode(node) /\ node.key \in DOMAIN u.nodes
    BY DEF Fine, Grown, KnownIn
  <1>2. \A k \in DOMAIN v.nodes : v.nodes[k].kind = KindOf(k[1])
    BY <1>1 DEF IsTree, IsNode
  <1>3. \A k \in DOMAIN u.nodes : u.nodes[k].kind = KindOf(k[1]) /\ k \in DOMAIN v.nodes
    BY <1>1 DEF IsTree, IsNode, Grown
  <1>4. node.kind = KindOf(node.key[1])
    BY <1>1 DEF IsNode
  <1>5. DOMAIN v.kids = DOMAIN u.kids \cup {node.key} /\ DOMAIN u.kids \subseteq DOMAIN u.nodes
    BY <1>1 DEF Grown, IsTree
  <1>6. ASSUME NEW k \in DOMAIN v.kids
        PROVE  /\ v.nodes[k].kind = "today" => <<"today">> \in s.loaded
               /\ v.nodes[k].kind = "current" => <<"current">> \in s.loaded
    <2>1. CASE k = node.key
      <3>1. v.nodes[k].kind = node.kind
        BY <1>1, <1>2, <1>3, <1>4, <2>1
      <3> QED BY <3>1
    <2>2. CASE k # node.key
      <3>1. k \in DOMAIN u.kids /\ v.nodes[k].kind = u.nodes[k].kind
        BY <1>2, <1>3, <1>5, <2>2
      <3> QED BY <3>1 DEF Coherent
    <2> QED BY <2>1, <2>2
  <1>7. ASSUME NEW k \in DOMAIN v.nodes, v.nodes[k].byCurrent PROVE <<"current">> \in s.loaded
    <2>1. CASE v.nodes[k] \in Range(children)
      <3>1. PICK i \in DOMAIN children : v.nodes[k] = children[i]
        BY <2>1 DEF Range
      <3>2. node.kind = "current"
        <4> SUFFICES ASSUME node.kind # "current" PROVE FALSE
          OBVIOUS
        <4>1. ~Children(node, s.today, s.current)[i].byCurrent
          <5>1. i \in DOMAIN Children(node, s.today, s.current)
            OBVIOUS
          <5>2. node.kind # "current"
            OBVIOUS
          <5> QED BY <5>1, <5>2, OnlyCurrentSorts
        <4> QED BY <4>1, <3>1, <1>7
      <3> QED BY <3>2
    <2>2. CASE k \in DOMAIN u.nodes /\ v.nodes[k] = u.nodes[k]
      <3>1. u.nodes[k].byCurrent
        BY <2>2, <1>7
      <3> QED BY <2>2, <3>1 DEF Coherent
    <2> QED BY <2>1, <2>2 DEF Grown
  <1>8. ASSUME NEW k \in DOMAIN v.kids, k \notin SharedKeys(v)
        PROVE  v.kids[k] = Children(v.nodes[k], s.today, s.current)
    <2>1. CASE k = node.key
      <3>1. KnownIn(v, node)
        BY DEF Grown
      <3>2. v.nodes[k] = node
        BY <3>1, <2>1, <1>8 DEF KnownIn
      <3> QED BY <3>2, <2>1 DEF Grown
    <2>2. CASE k # node.key
      <3>1. k \in DOMAIN u.kids /\ k \in DOMAIN u.nodes /\ k \notin SharedKeys(u)
        BY <1>5, <1>8, <2>2 DEF Grown
      <3>2. v.kids[k] = u.kids[k] /\ v.nodes[k] = u.nodes[k]
        BY <3>1, <1>8 DEF Grown
      <3> QED BY <3>1, <3>2 DEF Coherent
    <2> QED BY <2>1, <2>2
  <1> QED BY <1>6, <1>7, <1>8 DEF Coherent

(* Children that could not be fetched keep the invariant: they are no      *)
(* longer out.                                                             *)
LEMMA ChildrenFailGood ==
  ASSUME TerminalInv, NEW c \in BagToSet(cmds), ChildrenFail(c)
  PROVE  TerminalInv'
  <1>1. /\ running /\ Good(ui, cmds, svc) /\ UNCHANGED << svc, running >> /\ c.op = "children" /\ c \in DOMAIN cmds
        /\ ui' = [ui EXCEPT !.busy = @ \ {c.node.key}, !.errors = @ \cup {c.node.key}]
        /\ cmds' = cmds (-) SetToBag({c})
    BY DEF ChildrenFail, TerminalInv, Done, BagToSet
  <1>2. PICK u, v : u = ui /\ v = ui' /\ v = [u EXCEPT !.busy = @ \ {c.node.key}, !.errors = @ \cup {c.node.key}]
    BY <1>1
  <1>3. Fine(u) /\ IsUi(u) /\ IsOut(u, cmds) /\ IsService(svc) /\ Coherent(u, svc)
    BY <1>1, <1>2 DEF Good, Fine
  <1>4. /\ IsUi(v) /\ SameSelection(u, v) /\ SameTree(u, v)
        /\ v.busy = u.busy \ {c.node.key} /\ v.previewBusy = u.previewBusy /\ v.kids = u.kids
    BY <1>2, <1>3 DEF IsUi, UiFields, SameTree, SameSelection
  <1>5. \A n : KnownIn(u, n) => KnownIn(v, n)
    BY <1>4, SameKnown
  <1>6. IsOut(v, cmds (-) SetToBag({c}))
    BY <1>1, <1>3, <1>4, <1>5, ChildrenDone
  <1>7. Fine(v)
    BY <1>3, <1>4, SelectionKept, SameKnown DEF Fine
  <1>8. Good(v, cmds (-) SetToBag({c}), svc)
    BY <1>3, <1>4, <1>6, <1>7, SameCoherent DEF Good
  <1> QED BY <1>1, <1>2, <1>8 DEF TerminalInv

(* What holds of the model when children have arrived.                     *)
LEMMA ArrivedGood ==
  ASSUME TerminalInv, NEW c \in BagToSet(cmds), ChildrenArrive(c)
  PROVE  LET children == Children(c.node, svc.today, svc.current)
             v == Arrived(ui, c.node, children)
         IN  /\ Fine(ui) /\ c.node.key \notin DOMAIN ui.kids
             /\ Grown(ui, v, c.node, children)
             /\ Good(v, cmds (-) SetToBag({c}), svc)
  <1> DEFINE children == Children(c.node, svc.today, svc.current)
             v == Arrived(ui, c.node, children)
  <1>1. running /\ Good(ui, cmds, svc) /\ c.op = "children" /\ c \in DOMAIN cmds /\ Missing(c) = <<>>
    BY DEF ChildrenArrive, TerminalInv, BagToSet
  <1>2. /\ Fine(ui) /\ IsUi(ui) /\ IsTree(ui) /\ IsOut(ui, cmds) /\ IsService(svc) /\ Coherent(ui, svc)
    BY <1>1 DEF Good, Fine
  <1>3. KnownIn(ui, c.node) /\ c.node.key \notin DOMAIN ui.kids
    BY <1>1, <1>2 DEF IsOut
  <1>4. /\ c.node.kind = "today" => <<"today">> \in svc.loaded
        /\ c.node.kind = "current" => <<"current">> \in svc.loaded
    BY <1>1, LoadedFor
  <1>5. IsListing(children, Height(c.node.key[1]))
    <2>1. IsNode(c.node)
      BY <1>3 DEF KnownIn
    <2>2. IsDay(svc.today) /\ (c.node.kind = "current" => IsResult(svc.current)) /\ (svc.current # Nil => IsResult(svc.current))
      BY <1>2, <1>4 DEF IsService
    <2> QED BY <2>1, <2>2, ChildrenListing
  <1>6. PICK list : list = children
    OBVIOUS
  <1>7. IsListing(list, Height(c.node.key[1])) /\ list = Children(c.node, svc.today, svc.current) /\ v = Arrived(ui, c.node, list)
    BY <1>5, <1>6
  <1> HIDE DEF children, v
  <1>8. Grown(ui, v, c.node, list)
    BY <1>2, <1>3, <1>7, ArrivedGrown
  <1>9. Fine(v)
    BY <1>2, <1>3, <1>8, GrownSelection
  <1>10. Coherent(v, svc)
    BY <1>2, <1>3, <1>4, <1>7, <1>8, GrownCoherent
  <1>11. IsOut(v, cmds (-) SetToBag({c}))
    <2>1. /\ v.busy = ui.busy \ {c.node.key} /\ v.previewBusy = ui.previewBusy
          /\ DOMAIN v.kids \subseteq DOMAIN ui.kids \cup {c.node.key}
          /\ \A n : KnownIn(ui, n) => KnownIn(v, n)
      BY <1>8 DEF Grown
    <2> QED BY <1>1, <1>2, <2>1, ChildrenDone
  <1>12. Good(v, cmds (-) SetToBag({c}), svc)
    BY <1>2, <1>9, <1>10, <1>11 DEF Good
  <1> QED BY <1>2, <1>3, <1>6, <1>8, <1>12 DEF children, v

(* The root lists the same whatever the service holds.                     *)
LEMMA RootNode ==
  ASSUME NEW u, IsTree(u), NEW today, NEW current
  PROVE  Children(Root, today, current) = HomeChildren
  BY DEF Children, Root, Node

(* Children that arrive keep the invariant, and start nothing that opens a *)
(* file.                                                                   *)
LEMMA ChildrenArriveGood ==
  ASSUME TerminalInv, NEW c \in BagToSet(cmds), ChildrenArrive(c)
  PROVE  /\ TerminalInv'
         /\ \A d \in BagToSet(cmds') \ BagToSet(cmds) : d.op # "open"
  <1> DEFINE children == Children(c.node, svc.today, svc.current)
             v == Arrived(ui, c.node, children)
             w == [v EXCEPT !.selected = children[1].key]
             left == cmds (-) SetToBag({c})
  <1>1. /\ running /\ running' = running
        /\ IF c.node = Root /\ v.selected = Root.key
           THEN \E r \in SelectionChanged(Outcome(w, {})) : ui' = r.ui /\ cmds' = left (+) SetToBag(r.cmds)
           ELSE ui' = v /\ cmds' = left
        /\ svc' = svc \/ svc' = [svc EXCEPT !.loaded = @ \cup {<<"resources", svc.current.course>>}]
    BY DEF ChildrenArrive, Done
  <1>2. /\ Fine(ui) /\ c.node.key \notin DOMAIN ui.kids
        /\ Grown(ui, v, c.node, children)
        /\ Good(v, left, svc)
    BY ArrivedGood
  <1>3. DOMAIN left \subseteq DOMAIN cmds
    <2>1. IsABag(cmds) /\ c \in DOMAIN cmds
      BY <1>1 DEF TerminalInv, Good, IsOut, BagToSet
    <2> QED BY <2>1, BagDrop
  <1>4. /\ Good(ui', cmds', svc)
        /\ \A d \in DOMAIN cmds' \ DOMAIN cmds : d.op # "open"
    <2>1. CASE c.node = Root /\ v.selected = Root.key
      <3>1. children = HomeChildren
        BY <1>2, <2>1, RootNode DEF Fine
      <3>2. ui.selected = Root.key
        BY <1>2, <2>1 DEF Grown
      <3>3. PICK r \in SelectionChanged(Outcome(w, {})) : ui' = r.ui /\ cmds' = left (+) SetToBag(r.cmds)
        BY <1>1, <2>1
      <3> HIDE DEF v, children
      <3>4. Still(v, w) /\ Fine(w)
        <4>1. Grown(ui, v, Root, HomeChildren) /\ Root.key \notin DOMAIN ui.kids /\ w = [v EXCEPT !.selected = HomeChildren[1].key]
          BY <1>2, <2>1, <3>1
        <4> HIDE DEF w
        <4> QED BY <1>2, <3>2, <4>1, RootArrived
      <3> HIDE DEF w, left
      <3>5. Good(w, left, svc)
        BY <1>2, <3>4, GoodStill
      <3> DEFINE s == Outcome(w, {})
      <3>6. Asks(w, s) /\ s.ui = w /\ s.cmds = {}
        <4>1. Still(w, w)
          BY <3>4 DEF Fine, Still, SameTree
        <4> QED BY <4>1, StillAsks DEF Outcome
      <3> HIDE DEF s
      <3>7. r \in SelectionChanged(s)
        BY <3>3 DEF s
      <3>8. Asks(w, r) /\ IsSelection(r.ui) /\ \A d \in r.cmds : d.op \in {"children", "print", "preview"}
        BY <3>4, <3>6, <3>7, ChangedAsks DEF Fine
      <3>9. Good(r.ui, left (+) SetToBag(r.cmds), svc)
        BY <3>5, <3>8, GoodRight
      <3>10. DOMAIN (left (+) SetToBag(r.cmds)) = DOMAIN left \cup r.cmds
        <4>1. IsABag(left)
          BY <3>5 DEF Good, IsOut
        <4> QED BY <4>1, BagAdd
      <3> QED BY <1>3, <3>3, <3>8, <3>9, <3>10
    <2>2. CASE ~(c.node = Root /\ v.selected = Root.key)
      BY <1>1, <1>2, <1>3, <2>2
    <2> QED BY <2>1, <2>2
  <1>5. Good(ui', cmds', svc')
    BY <1>1, <1>4, GoodLoaded
  <1> QED BY <1>1, <1>4, <1>5 DEF TerminalInv, BagToSet

(* A preview that arrives keeps the invariant.                             *)
LEMMA PreviewArrivesGood ==
  ASSUME TerminalInv, NEW c \in BagToSet(cmds), NEW succeeds \in BOOLEAN, PreviewArrives(c, succeeds)
  PROVE  TerminalInv'
  <1>1. /\ running /\ Good(ui, cmds, svc) /\ UNCHANGED << svc, running >> /\ c.op \in {"print", "preview"} /\ c \in DOMAIN cmds
        /\ ui' = [ui EXCEPT !.previewBusy = NoKey, !.previews = IF succeeds THEN @ \cup {c.node.key} ELSE @]
        /\ cmds' = cmds (-) SetToBag({c})
    BY DEF PreviewArrives, PreviewArrived, TerminalInv, Done, BagToSet
  <1>2. PICK u, v : u = ui /\ v = ui' /\ v = [u EXCEPT !.previewBusy = NoKey, !.previews = IF succeeds THEN @ \cup {c.node.key} ELSE @]
    BY <1>1
  <1>3. Good(u, cmds, svc) /\ IsUi(u)
    BY <1>1, <1>2 DEF Good, Fine
  <1>4. IsUi(v) /\ SameSelection(u, v) /\ v.busy = u.busy /\ v.previewBusy = NoKey
    BY <1>2, <1>3 DEF IsUi, UiFields, SameTree, SameSelection
  <1>5. Good(v, cmds (-) SetToBag({c}), svc)
    BY <1>1, <1>3, <1>4, GoodOtherDone
  <1> QED BY <1>1, <1>2, <1>5 DEF TerminalInv

(* So does a file that was opened.                                         *)
LEMMA OpenedGood ==
  ASSUME TerminalInv, NEW c \in BagToSet(cmds), Opened(c)
  PROVE  TerminalInv'
  <1>1. /\ running /\ Good(ui, cmds, svc) /\ UNCHANGED << ui, svc, running >> /\ c.op = "open" /\ c \in DOMAIN cmds
        /\ cmds' = cmds (-) SetToBag({c})
    BY DEF Opened, TerminalInv, Done, BagToSet
  <1>2. IsUi(ui) /\ SameSelection(ui, ui)
    BY <1>1 DEF Good, Fine, SameSelection, SameTree
  <1>3. Good(ui, cmds (-) SetToBag({c}), svc)
    BY <1>1, <1>2, GoodOtherDone
  <1> QED BY <1>1, <1>3 DEF TerminalInv

(* So does a download that ended.                                          *)
LEMMA DownloadedGood ==
  ASSUME TerminalInv, NEW c \in BagToSet(cmds), NEW succeeds \in BOOLEAN, Downloaded(c, succeeds)
  PROVE  TerminalInv'
  <1>1. /\ running /\ Good(ui, cmds, svc) /\ UNCHANGED << svc, running >> /\ c.op = "download" /\ c \in DOMAIN cmds
        /\ ui' = IF succeeds THEN [ui EXCEPT !.dialog = Nil] ELSE ui
        /\ cmds' = cmds (-) SetToBag({c})
    BY DEF Downloaded, TerminalInv, Done, BagToSet
  <1>2. PICK u, v : u = ui /\ v = ui' /\ v = IF succeeds THEN [u EXCEPT !.dialog = Nil] ELSE u
    BY <1>1
  <1>3. Good(u, cmds, svc) /\ IsUi(u)
    BY <1>1, <1>2 DEF Good, Fine
  <1>4. IsUi(v) /\ SameSelection(u, v) /\ v.busy = u.busy /\ v.previewBusy = u.previewBusy
    BY <1>2, <1>3 DEF IsUi, UiFields, SameTree, SameSelection
  <1>5. Good(v, cmds (-) SetToBag({c}), svc)
    BY <1>1, <1>3, <1>4, GoodOtherDone
  <1> QED BY <1>1, <1>2, <1>5 DEF TerminalInv

-----------------------------------------------------------------------------
(* Every step *)

(* Every step keeps the invariant.                                         *)
LEMMA TerminalStep ==
  ASSUME TerminalInv, [TerminalNext]_terminalVars
  PROVE  TerminalInv'
  <1>1. ASSUME NEW key, Key(key) PROVE TerminalInv'
    BY <1>1, KeyGood
  <1>2. CASE StartFilter
    BY <1>2, StartFilterGood
  <1>3. ASSUME NEW filter, TypeFilter(filter) PROVE TerminalInv'
    BY <1>3, TypeFilterGood
  <1>4. ASSUME NEW clear \in BOOLEAN, LeaveFilter(clear) PROVE TerminalInv'
    BY <1>4, LeaveFilterGood
  <1>5. ASSUME NEW key, DialogKey(key) PROVE TerminalInv'
    BY <1>5, DialogGood
  <1>6. CASE Quit \/ ConcurrentMapAccess
    BY <1>6 DEF Quit, ConcurrentMapAccess, Ended, TerminalInv
  <1>7. ASSUME NEW c \in BagToSet(cmds), Goroutine(c) PROVE TerminalInv'
    <2>1. CASE Fetch(c)
      BY <2>1, FetchGood
    <2>2. CASE ChildrenFail(c)
      BY <2>2, ChildrenFailGood
    <2>3. CASE ChildrenArrive(c)
      BY <2>3, ChildrenArriveGood
    <2>4. ASSUME NEW succeeds \in BOOLEAN, PreviewArrives(c, succeeds) PROVE TerminalInv'
      BY <2>4, PreviewArrivesGood
    <2>5. ASSUME NEW succeeds \in BOOLEAN, Downloaded(c, succeeds) PROVE TerminalInv'
      BY <2>5, DownloadedGood
    <2>6. CASE Opened(c)
      BY <2>6, OpenedGood
    <2> QED BY <1>7, <2>1, <2>2, <2>3, <2>4, <2>5, <2>6 DEF Goroutine
  <1>8. CASE UNCHANGED terminalVars
    BY <1>8 DEF terminalVars, TerminalInv
  <1> QED BY <1>1, <1>2, <1>3, <1>4, <1>5, <1>6, <1>7, <1>8 DEF TerminalNext

(* The invariant always holds.                                             *)
LEMMA TerminalAlways == TerminalSpec => []TerminalInv
  <1>1. TerminalInit => TerminalInv
    BY GoodInit
  <1>2. TerminalInv /\ [TerminalNext]_terminalVars => TerminalInv'
    BY TerminalStep
  <1> QED BY <1>1, <1>2, PTL DEF TerminalSpec

(* The selected node is a row of the tree (treeRows), whatever handleLeft, *)
(* handleEnter and commitRightSelection have collapsed and expanded and    *)
(* whatever answers of requestChildrenCmd have arrived in between; only a  *)
(* path through a key that two lists share, and what 'h' reaches from      *)
(* there, is excepted.                                                     *)
THEOREM SelectionSeen == TerminalSpec => []SelectionVisible
  <1>1. TerminalInv => SelectionVisible
    <2> SUFFICES ASSUME TerminalInv, running, ~OnSharedPath(ui), ~ui.stray PROVE SelectedHasRow(ui)
      BY DEF SelectionVisible
    <2>1. IsTree(ui) /\ IsSelection(ui)
      BY DEF TerminalInv, Good, Fine
    <2>2. OpenTo(ui, ui.selected) /\ ui.selected \in DOMAIN ui.nodes
      BY <2>1 DEF IsSelection
    <2> QED BY <2>1, <2>2, OpenedHasRow
  <1> QED BY <1>1, TerminalAlways, PTL

(* What the model shows as loading is being loaded: every key in childBusy *)
(* has exactly one children command out and previewBusy a print or preview *)
(* command, whatever order the keys and the results come in.               *)
THEOREM BusyIsAsked == TerminalSpec => []BusyMeansOutstanding
  <1>1. TerminalInv => BusyMeansOutstanding
    <2> SUFFICES ASSUME TerminalInv, running PROVE BusyMeansOutstanding
      BY DEF BusyMeansOutstanding
    <2>1. IsOut(ui, cmds) /\ Fine(ui) /\ BagToSet(cmds) = DOMAIN cmds
      BY DEF TerminalInv, Good, BagToSet
    <2>2. \A c \in BagToSet(cmds) : c.op = "children" => c.node.key \in ui.busy /\ cmds[c] = 1
      BY <2>1 DEF IsOut
    <2>3. ASSUME NEW k \in ui.busy PROVE Cardinality(Outstanding({"children"}, k)) = 1
      <3>1. PICK c \in DOMAIN cmds : c.op = "children" /\ c.node.key = k
        BY <2>1 DEF IsOut
      <3>2. \A d \in DOMAIN cmds : d.op = "children" /\ d.node.key = k => d = c
        BY <2>1, <3>1 DEF IsOut
      <3>3. Outstanding({"children"}, k) = {c}
        BY <2>1, <3>1, <3>2 DEF Outstanding
      <3> QED BY <3>3, FS_Singleton
    <2>4. ui.previewBusy # NoKey => Outstanding({"print", "preview"}, ui.previewBusy) # {}
      BY <2>1 DEF IsOut, Outstanding
    <2>5. PreviewSubject(ui).shows = "loading"
               => Outstanding({"children", "print", "preview"}, PreviewSubject(ui).node.key) # {}
      <3> SUFFICES ASSUME PreviewSubject(ui).shows = "loading"
                   PROVE  Outstanding({"children", "print", "preview"}, PreviewSubject(ui).node.key) # {}
        OBVIOUS
      <3>1. \E c \in DOMAIN cmds : c.op \in {"children", "print", "preview"} /\ c.node.key = PreviewSubject(ui).node.key
        BY <2>1, OutIsBusy
      <3> QED BY <2>1, <3>1 DEF Outstanding
    <2> QED BY <2>2, <2>3, <2>4, <2>5 DEF BusyMeansOutstanding
  <1> QED BY <1>1, TerminalAlways, PTL

(* A step other than a key's opens nothing.                                *)
LEMMA OnlyKeysOpen ==
  ASSUME TerminalInv, [TerminalNext]_terminalVars,
         NEW c \in BagToSet(cmds') \ BagToSet(cmds), c.op = "open"
  PROVE  c.node \in Highlighted(ui)
  <1>1. ASSUME NEW key, Key(key) PROVE c.node \in Highlighted(ui)
    <2>1. running /\ Good(ui, cmds, svc)
      BY <1>1 DEF Key, Pressing, TerminalInv
    <2>2. PICK r \in Pressed(ui, key) : Handled(r)
      BY <1>1 DEF Key
    <2>3. Right(ui, r)
      BY <2>1, PressedRight DEF Good
    <2>4. DOMAIN cmds' = DOMAIN cmds \cup r.cmds
      <3>1. IsABag(cmds) /\ cmds' = cmds (+) SetToBag(r.cmds)
        BY <2>1, <2>2 DEF Good, IsOut, Handled
      <3> QED BY <3>1, BagAdd
    <2>5. c \in r.cmds
      BY <2>4 DEF BagToSet
    <2> QED BY <2>3, <2>5 DEF Right, Opens
  <1>2. CASE StartFilter \/ (\E filter : TypeFilter(filter)) \/ (\E clear : LeaveFilter(clear))
    BY <1>2 DEF StartFilter, TypeFilter, LeaveFilter
  <1>3. ASSUME NEW key, DialogKey(key) PROVE c.node \in Highlighted(ui)
    <2>1. running /\ Good(ui, cmds, svc)
      BY <1>3 DEF DialogKey, Pressing, TerminalInv
    <2>2. CASE UNCHANGED cmds
      BY <2>2
    <2>3. CASE \E target : Handled(Outcome(ui, {Cmd("download", target)}))
      <3>1. PICK target : Handled(Outcome(ui, {Cmd("download", target)}))
        BY <2>3
      <3> DEFINE S == {Cmd("download", target)}
      <3>2. cmds' = cmds (+) SetToBag(S)
        BY <3>1 DEF Handled, Outcome
      <3>3. \A d \in S : d.op = "download"
        BY DEF Cmd
      <3> HIDE DEF S
      <3>4. DOMAIN cmds' = DOMAIN cmds \cup S
        <4>1. IsABag(cmds)
          BY <2>1 DEF Good, IsOut
        <4> QED BY <4>1, <3>2, BagAdd
      <3> QED BY <3>3, <3>4 DEF BagToSet
    <2> QED BY <1>3, <2>2, <2>3, DialogMoves
  <1>4. CASE Quit \/ ConcurrentMapAccess
    BY <1>4 DEF Quit, ConcurrentMapAccess, Ended, EmptyBag, SetToBag, BagToSet
  <1>5. ASSUME NEW d \in BagToSet(cmds), Goroutine(d) PROVE c.node \in Highlighted(ui)
    <2>1. CASE ChildrenArrive(d)
      BY <2>1, ChildrenArriveGood
    <2>2. CASE Fetch(d)
      BY <2>2 DEF Fetch
    <2>3. CASE Done(d) /\ running
      <3>1. IsABag(cmds) /\ d \in DOMAIN cmds /\ cmds' = cmds (-) SetToBag({d})
        BY <1>5, <2>3 DEF TerminalInv, Good, IsOut, BagToSet, Done
      <3>2. DOMAIN cmds' \subseteq DOMAIN cmds
        BY <3>1, BagDrop
      <3> QED BY <3>2 DEF BagToSet
    <2>4. ChildrenArrive(d) \/ Fetch(d) \/ (Done(d) /\ running)
      BY <1>5 DEF Goroutine, ChildrenFail, PreviewArrives, Downloaded, Opened
    <2> QED BY <2>1, <2>2, <2>3, <2>4
  <1>6. CASE UNCHANGED terminalVars
    BY <1>6 DEF terminalVars
  <1> QED BY <1>1, <1>2, <1>3, <1>4, <1>5, <1>6 DEF TerminalNext

(* What a key starts to open (openCmd) is what was highlighted before the  *)
(* key: the selected node, or the entry of the right pane at the index,    *)
(* never the entry an index left over from another list falls back to      *)
(* (selectedRightEntry).                                                   *)
THEOREM OpensHighlighted == TerminalSpec => ActsOnHighlighted
  <1>1. TerminalInv /\ [TerminalNext]_terminalVars
        => [\A c \in BagToSet(cmds') \ BagToSet(cmds) : c.op = "open" => c.node \in Highlighted(ui)]_terminalVars
    BY OnlyKeysOpen
  <1> QED BY <1>1, TerminalAlways, PTL DEF TerminalSpec, ActsOnHighlighted

-----------------------------------------------------------------------------
(* The path of the selection *)

(* Above what has no parent there is nothing.                              *)
LEMMA NothingAbove ==
  ASSUME NEW u, IsTree(u), NEW key, NEW j \in 0..Depth, NEW m \in 0..Depth, j <= m, Ancestors(u, key)[j] = NoKey
  PROVE  Ancestors(u, key)[m] = NoKey
  <1> DEFINE up == Ancestors(u, key)
             Odd == {n \in j..m : up[n] # NoKey}
  <1>1. \A n \in 1..Depth : up[n] = ParentOf(u, up[n - 1])
    BY AncestorsAre
  <1>2. ParentOf(u, NoKey) = NoKey
    <2>1. Root.key \in DOMAIN u.nodes
      BY DEF IsTree
    <2>2. NoKey \notin DOMAIN u.nodes
      BY <2>1, ParentAbove
    <2> QED BY <2>2 DEF ParentOf, IsTree
  <1> HIDE DEF up
  <1>3. Depth = 6
    BY Steps6
  <1>4. j \in Nat /\ m \in Nat /\ m <= 6 /\ up[j] = NoKey
    BY <1>3 DEF up
  <1>5. SUFFICES ASSUME Odd # {} PROVE FALSE
    BY <1>4 DEF up
  <1>6. PICK n \in Odd : \A k \in Odd : n <= k
    <2>1. Odd \in SUBSET Nat
      BY <1>4
    <2> HIDE DEF Odd
    <2> QED BY <2>1, <1>5, Least
  <1>7. n \in j..m /\ up[n] # NoKey /\ n # j
    BY <1>4, <1>6
  <1>8. n \in 1..Depth /\ n - 1 \in j..m /\ ~(n <= n - 1)
    BY <1>3, <1>4, <1>7
  <1>9. up[n - 1] = NoKey
    BY <1>6, <1>8
  <1> QED BY <1>1, <1>2, <1>7, <1>8, <1>9

(* From the selection up to the root: known keys, each below the next.     *)
LEMMA WayUp ==
  ASSUME NEW u, IsTree(u), NEW key \in DOMAIN u.nodes, NEW d \in 0..Depth, Ancestors(u, key)[d] = Root.key,
         NEW j \in 0..Depth, j < d
  PROVE  /\ Ancestors(u, key)[j] \in DOMAIN u.nodes
         /\ Ancestors(u, key)[j] # Root.key
         /\ Ancestors(u, key)[j + 1] = ParentOf(u, Ancestors(u, key)[j])
  <1> DEFINE up == Ancestors(u, key)
  <1>1. Depth = 6 /\ j + 1 \in 0..Depth /\ j + 1 \in 1..Depth /\ (j + 1) - 1 = j /\ j <= d /\ j + 1 <= d
    BY Steps6
  <1>2. up[j + 1] = ParentOf(u, up[j])
    <2>1. \A n \in 1..Depth : up[n] = ParentOf(u, up[n - 1])
      BY AncestorsAre
    <2> HIDE DEF up
    <2> QED BY <1>1, <2>1
  <1>3. Root.key # NoKey /\ Root.key \in DOMAIN u.nodes /\ ParentOf(u, Root.key) = NoKey
    <2>1. Root.key \in DOMAIN u.nodes
      BY DEF IsTree
    <2> QED BY <2>1, ParentAbove
  <1>4. up[j] # NoKey /\ up[j + 1] # NoKey
    <2>1. up[j] = NoKey => up[d] = NoKey
      BY <1>1, NothingAbove
    <2>2. up[j + 1] = NoKey => up[d] = NoKey
      BY <1>1, NothingAbove
    <2> QED BY <2>1, <2>2, <1>3
  <1>5. up[j] \in DOMAIN u.nodes
    <2>1. \A n \in 0..Depth : up[n] = NoKey \/ up[n] \in DOMAIN u.nodes
      BY AncestorsKnown
    <2> HIDE DEF up
    <2> QED BY <1>4, <2>1
  <1> QED BY <1>2, <1>3, <1>4, <1>5

(* No node has no key.                                                     *)
LEMMA NoNodeKey == NoNode.key = NoKey
  BY DEF NoNode, Node, NoKey

(* One step down: the number of a node in its parent's list leads to it.   *)
LEMMA StepDown ==
  ASSUME NEW u, IsTree(u), NEW s, Coherent(u, s), NEW key \in DOMAIN u.nodes, key # Root.key,
         key \notin SharedKeys(u), ParentOf(u, key) \notin SharedKeys(u)
  PROVE  LET p == ParentOf(u, key)
             i == CHOOSE i \in DOMAIN u.kids[p] : u.kids[p][i].key = key
         IN  u.nodes[key] = StepAlong(u.nodes[p], [form |-> "index", value |-> i], s.today, s.current)
  <1> DEFINE p == ParentOf(u, key)
             list == u.kids[p]
             i == CHOOSE n \in DOMAIN list : list[n].key = key
             segment == [form |-> "index", value |-> i]
  <1>1. p \in DOMAIN u.kids /\ p \in DOMAIN u.nodes /\ key \in Keys(list) /\ p # NoKey
    BY ParentAbove
  <1>2. i \in DOMAIN list /\ list[i].key = key
    BY <1>1 DEF Keys
  <1>3. KnownIn(u, list[i])
    BY <1>1, <1>2 DEF IsTree
  <1>4. u.nodes[key] = list[i]
    BY <1>2, <1>3 DEF KnownIn
  <1>5. list = Children(u.nodes[p], s.today, s.current)
    BY <1>1 DEF Coherent
  <1>6. u.nodes[p] # NoNode
    BY <1>1, NoNodeKey DEF IsTree
  <1> HIDE DEF i, list
  <1>7. segment.form = "index" /\ segment.value = i
    OBVIOUS
  <1> HIDE DEF segment, p
  <1>8. StepAlong(u.nodes[p], segment, s.today, s.current) = MatchNavChild(list, segment)
    BY <1>5, <1>6, <1>7 DEF StepAlong
  <1>9. MatchNavChild(list, segment) = list[i]
    BY <1>2, <1>7 DEF MatchNavChild
  <1>10. u.nodes[key] = StepAlong(u.nodes[p], segment, s.today, s.current)
    BY <1>4, <1>8, <1>9
  <1> QED BY <1>10 DEF segment, i, list, p

(* The path of the selected node leads to it, from the root, one list      *)
(* after the other.                                                        *)
LEMMA PathLeads ==
  ASSUME NEW u, Fine(u), NEW s, Coherent(u, s), ~OnSharedPath(u)
  PROVE  ResolvePath(PathOfSelected(u), s.today, s.current) = SelectedNode(u)
  <1> DEFINE up == Ancestors(u, u.selected)
             d == CHOOSE n \in 0..Depth : up[n] = Root.key
             Index(key, parent) == CHOOSE i \in DOMAIN u.kids[parent] : u.kids[parent][i].key = key
             path == PathOfSelected(u)
             Segment(n) == [form |-> "index", value |-> Index(up[d - n], up[d - n + 1])]
             g == [n \in 0..d |-> u.nodes[up[d - n]]]
             Eq(f) == f = [n \in 0..Len(path) |-> IF n = 0 THEN Root ELSE StepAlong(f[n - 1], path[n], s.today, s.current)]
             at == CHOOSE f : Eq(f)
  <1>1. IsTree(u) /\ u.selected \in DOMAIN u.nodes /\ SelectedNode(u) = u.nodes[u.selected]
    BY SelectedKnown DEF Fine, IsSelection
  <1>2. d \in 0..Depth /\ up[d] = Root.key /\ up[0] = u.selected
    <2>1. \E n \in 0..Depth : up[n] = Root.key
      BY <1>1, AncestorsKnown
    <2>2. up[0] = u.selected
      BY AncestorsAre
    <2> HIDE DEF up
    <2> QED BY <2>1, <2>2
  <1>3. path = [n \in 1..d |-> Segment(n)]
    BY DEF PathOfSelected
  <1>4. ResolvePath(path, s.today, s.current) = at[Len(path)]
    BY DEF ResolvePath
  <1>5. \A k \in PathOf(u, u.selected) : k \notin SharedKeys(u)
    BY <1>1, PathIsPathOf DEF Unshared
  <1>6. \A j \in 0..Depth : j < d => /\ up[j] \in DOMAIN u.nodes /\ up[j] # Root.key
                                     /\ up[j + 1] = ParentOf(u, up[j])
    BY <1>1, <1>2, WayUp
  <1>7. \A j \in 0..Depth : up[j] # NoKey => up[j] \notin SharedKeys(u)
    BY <1>5, PathHas
  <1> HIDE DEF d
  <1>8. d \in Nat /\ d <= 6
    BY <1>2, Steps6
  <1>9. ASSUME NEW n \in 1..d
        PROVE  u.nodes[up[d - n]] = StepAlong(u.nodes[up[d - n + 1]], Segment(n), s.today, s.current)
    <2> DEFINE j == d - n
    <2>1. j \in 0..Depth /\ j + 1 \in 0..Depth /\ j < d
      BY <1>8, Steps6
    <2> HIDE DEF j
    <2>2. up[j] \in DOMAIN u.nodes /\ up[j] # Root.key /\ up[j + 1] = ParentOf(u, up[j])
      BY <1>6, <2>1
    <2>3. up[j] # NoKey /\ up[j + 1] # NoKey
      BY <1>1, <2>2, ParentAbove
    <2>4. up[j] \notin SharedKeys(u) /\ up[j + 1] \notin SharedKeys(u)
      BY <1>7, <2>1, <2>3
    <2> DEFINE key == up[j]
               parent == up[j + 1]
    <2>5. /\ key \in DOMAIN u.nodes /\ key # Root.key /\ parent = ParentOf(u, key)
          /\ key \notin SharedKeys(u) /\ parent \notin SharedKeys(u)
      BY <2>2, <2>4
    <2> HIDE DEF key, parent, up
    <2>6. u.nodes[key] = StepAlong(u.nodes[parent], [form |-> "index", value |-> Index(key, parent)], s.today, s.current)
      BY <1>1, <2>5, StepDown
    <2> QED BY <2>6 DEF key, parent, j
  <1> HIDE DEF Segment, up
  <1>10. IsSeq(path) /\ Len(path) = d /\ \A n \in 1..d : path[n] = Segment(n)
    <2> HIDE DEF path
    <2>1. DOMAIN path = 1..d /\ path = [n \in 1..d |-> path[n]] /\ \A n \in 1..d : path[n] = Segment(n)
      BY <1>3
    <2> QED BY <1>8, <2>1, SeqOver
  <1> HIDE DEF path
  <1>11. /\ DOMAIN g = 0..d /\ g = [n \in 0..d |-> g[n]] /\ g[0] = Root /\ g[d] = SelectedNode(u)
         /\ \A n \in 1..d : g[n] = StepAlong(g[n - 1], path[n], s.today, s.current)
    <2>1. \A n \in 0..d : g[n] = u.nodes[up[d - n]]
      OBVIOUS
    <2>2. DOMAIN g = 0..d /\ g = [n \in 0..d |-> g[n]]
      OBVIOUS
    <2> HIDE DEF g
    <2>3. d - 0 = d /\ d - d = 0 /\ 0 \in 0..d /\ d \in 0..d
      BY <1>8
    <2>4. g[0] = Root
      BY <1>1, <1>2, <2>1, <2>3 DEF IsTree
    <2>5. g[d] = SelectedNode(u)
      BY <1>1, <1>2, <2>1, <2>3
    <2>6. ASSUME NEW n \in 1..d PROVE g[n] = StepAlong(g[n - 1], path[n], s.today, s.current)
      <3>1. n \in 0..d /\ n - 1 \in 0..d /\ d - (n - 1) = d - n + 1
        BY <1>8
      <3>2. g[n] = u.nodes[up[d - n]] /\ g[n - 1] = u.nodes[up[d - n + 1]]
        BY <2>1, <3>1
      <3> QED BY <3>2, <1>9, <1>10
    <2> QED BY <2>2, <2>4, <2>5, <2>6
  <1> HIDE DEF g
  <1>12. Eq(g)
    <2>1. \A n \in 0..d : g[n] = IF n = 0 THEN Root ELSE StepAlong(g[n - 1], path[n], s.today, s.current)
      <3> SUFFICES ASSUME NEW n \in 0..d PROVE g[n] = IF n = 0 THEN Root ELSE StepAlong(g[n - 1], path[n], s.today, s.current)
        OBVIOUS
      <3>1. n # 0 => n \in 1..d
        BY <1>8
      <3> QED BY <1>11, <3>1
    <2> QED BY <1>10, <1>11, <2>1
  <1> HIDE DEF Eq
  <1>13. Eq(at)
    BY <1>12
  <1> HIDE DEF at
  <1>14. at = [n \in 0..d |-> IF n = 0 THEN Root ELSE StepAlong(at[n - 1], path[n], s.today, s.current)]
    BY <1>13, <1>10 DEF Eq
  <1>15. at[0] = Root /\ \A n \in 1..d : at[n] = StepAlong(at[n - 1], path[n], s.today, s.current)
    <2>1. 0 \in 0..d /\ \A n \in 1..d : n \in 0..d /\ n # 0
      BY <1>8
    <2> QED BY <1>14, <2>1, Zenon
  <1>16. at[d] = g[d]
    <2> DEFINE Odd == {n \in 0..d : at[n] # g[n]}
    <2>1. SUFFICES ASSUME Odd # {} PROVE FALSE
      BY <1>8
    <2>2. PICK n \in Odd : \A k \in Odd : n <= k
      <3>1. Odd \in SUBSET Nat
        BY <1>8
      <3> HIDE DEF Odd
      <3> QED BY <3>1, <2>1, Least
    <2>3. n \in 0..d /\ at[n] # g[n]
      BY <2>2
    <2>4. n # 0
      BY <2>3, <1>11, <1>15
    <2>5. n \in 1..d /\ n - 1 \in 0..d /\ ~(n <= n - 1)
      BY <1>8, <2>3, <2>4
    <2>6. at[n - 1] = g[n - 1]
      BY <2>2, <2>5
    <2> QED BY <2>3, <2>5, <2>6, <1>11, <1>15
  <1> QED BY <1>4, <1>10, <1>11, <1>16 DEF path

(* The numbers of the rows down to the selected node, resolved as a path   *)
(* by ResolvePath from the root with what the service has cached, lead to  *)
(* the node that is selected, unless its path has a key that two lists     *)
(* share.                                                                  *)
THEOREM PathsLead == TerminalSpec => []PathsAgree
  <1>1. TerminalInv => PathsAgree
    BY PathLeads DEF PathsAgree, TerminalInv, Good
  <1> QED BY <1>1, TerminalAlways, PTL
=============================================================================
