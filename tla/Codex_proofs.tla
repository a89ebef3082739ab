---------------------------- MODULE Codex_proofs -----------------------------
(***************************************************************************)
(* Proofs about what Codex does for a user: CodexRunner, whose answer a    *)
(* call gets and whose sign-in runs, for any requests, models and schemas; *)
(* CodexStateQuota, that the newest snapshot of its state does not         *)
(* disappear, for any saves, sizes, kinds and quotas; and Ocr.             *)
(***************************************************************************)
EXTENDS CodexRunner, CodexStateQuota, Integers, Sequences, TLAPS

Work == {"schema", "start", "wait", "read"}
Places == {"idle", "status", "catalog", "remove", "claim", "launch", "select", "done"} \cup Work
Box == [state : {"none", "running", "ended", "failed"}, schema : Schemas \cup {None}]
Given == [kind : {None, "error", "gone", "answer", "models", "signed in", "signed out", "running already", "code"},
          of : Requests \cup {None}, schema : Schemas \cup {None}]
Kept == [of : Requests, schema : Schemas \cup {None}]

TypeOK ==
    /\ signedIn \in BOOLEAN
    /\ output \in [{"chat", "refine"} \X (Models \cup {DefaultModel}) -> Kept \cup {None}]
    /\ schema \in Schemas \cup {None}
    /\ ask \in [Requests -> Asks \cup {None}] /\ pc \in [Requests -> Places]
    /\ model \in [Requests -> Models \cup {None}]
    /\ box \in [Requests -> Box]
    /\ answer \in [Requests -> Given]
    /\ clashed \subseteq Requests /\ schemaClashed \subseteq Requests
    /\ claim \in [by : Requests, stale : BOOLEAN] \cup {None}
    /\ process \in [Requests -> {"none", "started", "coded", "ending", "ended"}]
    /\ channel \in [Requests -> {None, "code", "error"}]
    /\ due \subseteq Requests /\ overran \subseteq Requests

(* Where a call stands, and what it was asked.                             *)
PlacedAt(r) ==
    /\ pc[r] = "idle" <=> ask[r] = None
    /\ pc[r] = "catalog" => ask[r].kind \in {"chat", "models"}
    /\ pc[r] \in {"remove"} \cup Work => ask[r].kind \in {"chat", "refine"}
    /\ box[r].state # "none" => pc[r] \in {"wait", "read", "done"} /\ ask[r].kind \in {"chat", "refine"}
    /\ pc[r] = "wait" => box[r].state # "none"
    /\ pc[r] = "read" => box[r].state \in {"ended", "failed"}
    /\ answer[r].kind = "answer" => pc[r] = "done"

Placed == \A r \in Requests : PlacedAt(r)

(* Two that are at work on one file know of each other, as two chats do.   *)
Clashes ==
    \A q, r \in Requests : q # r /\ AtWork(q) /\ AtWork(r) =>
        /\ OutputName(q) = OutputName(r) => {q, r} \subseteq clashed
        /\ ask[q].kind = "chat" /\ ask[r].kind = "chat" => {q, r} \subseteq schemaClashed

(* The schema of a chat is in place when its container starts, and what    *)
(* the container has written is under it, but for the clashes.             *)
SchemasKept ==
    /\ \A r \in Requests :
        /\ pc[r] = "start" /\ ask[r].kind = "chat" => schema = ask[r].schema \/ r \in schemaClashed
        /\ box[r].state \in {"running", "ended"} => box[r].schema = ask[r].schema \/ r \in schemaClashed
    /\ \A k \in DOMAIN output : output[k] # None =>
        /\ pc[output[k].of] # "idle"
        /\ output[k].schema = ask[output[k].of].schema \/ output[k].of \in schemaClashed

(* While a call is at work its file has nothing, its own answer or that of *)
(* a call it clashed with.                                                 *)
OutputsOwn ==
    \A r \in Requests : pc[r] \in Work /\ output[OutputName(r)] # None =>
        LET q == output[OutputName(r)].of
        IN  q = r \/ {q, r} \subseteq clashed

SigningIn(r) == pc[r] = "launch" \/ process[r] \in {"started", "coded", "ending"}

(* As long as no sign-in has outlived its claim, the claim is of the only  *)
(* sign-in there is.                                                       *)
ClaimInv ==
    /\ ClaimHasItsSignIn
    /\ claim # None /\ claim.stale => overran # {}
    /\ overran = {} => \A r \in Requests : SigningIn(r) => claim # None /\ claim.by = r

(* Only a sign-in that was launched has a process.                         *)
Launches == \A r \in Requests : process[r] # "none" => pc[r] \in {"select", "done"}

IInv == TypeOK /\ Launches /\ Placed /\ Clashes /\ SchemasKept /\ OutputsOwn /\ AnswersTheQuestion /\ ClaimInv

-----------------------------------------------------------------------------
LEMMA AskFacts ==
  ASSUME NEW a \in Asks
  PROVE  /\ a # None /\ a.model \in Models \cup {None} /\ a.schema \in Schemas \cup {None}
         /\ a.kind \in {"chat", "refine", "models", "logout", "sign-in"}
         /\ a.kind = "refine" => a.schema = None
  BY AsksAssumption, NoneIsNothing DEF AskType

LEMMA OutputNameIn ==
  ASSUME TypeOK, NEW r \in Requests, ask[r].kind \in {"chat", "refine"}
  PROVE  OutputName(r) \in {"chat", "refine"} \X (Models \cup {DefaultModel})
  BY DEF TypeOK, OutputName

LEMMA InitHolds == Init => IInv
  <1> SUFFICES ASSUME Init PROVE IInv
    OBVIOUS
  <1>1. TypeOK
    BY DEF Init, TypeOK, Places, Work, NoAnswer, Box, Given
  <1>2. Placed /\ AnswersTheQuestion
    BY NoneIsNothing DEF Init, Placed, PlacedAt, AnswersTheQuestion, NoAnswer, Work
  <1>3. Clashes /\ SchemasKept /\ OutputsOwn
    BY DEF Init, Clashes, SchemasKept, OutputsOwn, AtWork, Work
  <1>4. ClaimInv /\ Launches
    BY DEF Init, ClaimInv, ClaimHasItsSignIn, SigningIn, Launches
  <1> QED
    BY <1>1, <1>2, <1>3, <1>4 DEF IInv

-----------------------------------------------------------------------------
(* Types *)

LEMMA AnswerOf ==
  ASSUME NEW k PROVE [NoAnswer EXCEPT !.kind = k] = [kind |-> k, of |-> None, schema |-> None]
  BY DEF NoAnswer

LEMMA Answered ==
  ASSUME TypeOK, NEW r \in Requests,
         NEW k \in {"error", "gone", "models", "signed in", "signed out", "running already", "code"},
         Reply(r, [NoAnswer EXCEPT !.kind = k])
  PROVE  /\ answer' \in [Requests -> Given]
         /\ pc' = [pc EXCEPT ![r] = "done"] /\ pc' \in [Requests -> Places]
         /\ answer'[r].kind = k /\ \A q \in Requests \ {r} : answer'[q] = answer[q]
  <1>1. [NoAnswer EXCEPT !.kind = k] = [kind |-> k, of |-> None, schema |-> None]
    BY AnswerOf
  <1> QED
    BY <1>1 DEF TypeOK, Reply, Goto, Places, Work, Given

LEMMA AskOf ==
  ASSUME TypeOK, Placed, NEW r \in Requests
  PROVE  pc[r] # "idle" <=> ask[r] \in Asks
  <1>1. ask[r] \in Asks \cup {None} /\ (pc[r] = "idle" <=> ask[r] = None)
    BY DEF TypeOK, Placed, PlacedAt
  <1> QED
    BY <1>1, AskFacts

LEMMA TypeStep ==
  ASSUME IInv, [Next]_vars
  PROVE  TypeOK'
  <1> USE DEF IInv
  <1>1. ASSUME NEW r \in Requests, NEW a \in Asks, NEW label \in {"status", "remove"}, Asked(r, a, label) PROVE TypeOK'
    BY <1>1, AskFacts DEF TypeOK, Asked, Goto, signVars, Places
  <1>2. ASSUME NEW r \in Requests, CheckSignedIn(r) PROVE TypeOK'
    <2>1. pc[r] = "status" /\ UNCHANGED <<signedIn, ask, callVars, signVars>>
      BY <1>2 DEF CheckSignedIn
    <2>2. \/ Reply(r, [NoAnswer EXCEPT !.kind = "signed in"]) \/ Reply(r, [NoAnswer EXCEPT !.kind = "error"])
          \/ \E label \in {"claim", "catalog", "remove"} : Goto(r, label) /\ UNCHANGED answer
      BY <1>2 DEF CheckSignedIn, Error
    <2>3. CASE \E label \in {"claim", "catalog", "remove"} : Goto(r, label) /\ UNCHANGED answer
      BY <2>1, <2>3 DEF TypeOK, Goto, Places, callVars, signVars
    <2> QED
      BY <2>1, <2>2, <2>3, Answered DEF TypeOK, callVars, signVars
  <1>3. ASSUME NEW r \in Requests, Catalog(r) PROVE TypeOK'
    <2>1. UNCHANGED <<signedIn, ask, output, schema, box, clashed, schemaClashed, signVars>>
      BY <1>3 DEF Catalog
    <2>2. \/ UNCHANGED model /\ (Reply(r, [NoAnswer EXCEPT !.kind = "models"]) \/ Reply(r, [NoAnswer EXCEPT !.kind = "error"]))
          \/ /\ UNCHANGED model \/ \E m \in Models : model' = [model EXCEPT ![r] = m]
             /\ Goto(r, "remove") /\ UNCHANGED answer
      BY <1>3 DEF Catalog, Error
    <2>3. CASE /\ UNCHANGED model \/ \E m \in Models : model' = [model EXCEPT ![r] = m]
               /\ Goto(r, "remove") /\ UNCHANGED answer
      <3>1. model' \in [Requests -> Models \cup {None}]
        BY <2>3 DEF TypeOK
      <3>2. pc' \in [Requests -> Places]
        BY <2>3 DEF TypeOK, Goto, Places
      <3> QED
        BY <2>1, <2>3, <3>1, <3>2 DEF TypeOK, signVars
    <2> QED
      BY <2>1, <2>2, <2>3, Answered DEF TypeOK, signVars
  <1>4. ASSUME NEW r \in Requests, Logout(r) PROVE TypeOK'
    <2>1. /\ signedIn' \in BOOLEAN /\ UNCHANGED <<ask, callVars, signVars>>
          /\ Reply(r, [NoAnswer EXCEPT !.kind = "signed out"]) \/ Reply(r, [NoAnswer EXCEPT !.kind = "error"])
      BY <1>4 DEF Logout, Error, TypeOK
    <2> QED
      BY <2>1, Answered DEF TypeOK, callVars, signVars
  <1>5. ASSUME NEW r \in Requests, RemoveOutput(r) PROVE TypeOK'
    <2>1. Rivals(r) \subseteq Requests /\ OtherChats(r) \subseteq Requests
      BY DEF Rivals, OtherChats
    <2> QED
      BY <1>5, <2>1 DEF TypeOK, RemoveOutput, Begin, Goto, Places, Work, signVars
  <1>6. ASSUME NEW r \in Requests, PrepareSchema(r) PROVE TypeOK'
    <2>1. ask[r] \in Asks
      BY <1>6, AskOf DEF PrepareSchema
    <2>2. schema' \in Schemas \cup {None}
      BY <1>6, <2>1, AskFacts DEF TypeOK, PrepareSchema
    <2> QED
      BY <1>6, <2>2 DEF TypeOK, PrepareSchema, Goto, Places, Work, signVars
  <1>7. ASSUME NEW r \in Requests, StartContainer(r) PROVE TypeOK'
    <2>1. /\ \E label \in {"wait", "read"} : Goto(r, label)
          /\ \/ \E s \in Schemas \cup {None} : box' = [box EXCEPT ![r] = [state |-> "running", schema |-> s]]
             \/ box' = [box EXCEPT ![r].state = "failed"]
          /\ UNCHANGED <<signedIn, ask, output, schema, model, answer, clashed, schemaClashed, signVars>>
      BY <1>7 DEF TypeOK, StartContainer
    <2>2. pc' \in [Requests -> Places]
      BY <2>1 DEF TypeOK, Goto, Places, Work
    <2>3. box' \in [Requests -> Box]
      <3>1. CASE \E s \in Schemas \cup {None} : box' = [box EXCEPT ![r] = [state |-> "running", schema |-> s]]
        BY <3>1 DEF TypeOK, Box
      <3>2. CASE box' = [box EXCEPT ![r].state = "failed"]
        BY <3>2 DEF TypeOK, Box
      <3> QED
        BY <2>1, <3>1, <3>2
    <2> QED
      BY <2>1, <2>2, <2>3 DEF TypeOK, signVars
  <1>8. ASSUME NEW r \in Requests, Wait(r) PROVE TypeOK'
    BY <1>8 DEF TypeOK, Wait, Goto, Places, Work, callVars, signVars
  <1>9. ASSUME NEW r \in Requests, ReadOutput(r) PROVE TypeOK'
    <2>1. OutputName(r) \in DOMAIN output
      BY <1>9, OutputNameIn DEF TypeOK, Placed, PlacedAt, Work, ReadOutput
    <2>2. PICK a : Reply(r, a) /\
              \/ a = [NoAnswer EXCEPT !.kind = "error"]
              \/ output[OutputName(r)] # None /\ a = [kind |-> "answer", of |-> output[OutputName(r)].of, schema |-> output[OutputName(r)].schema]
              \/ a = [kind |-> "answer", of |-> r, schema |-> box[r].schema]
      BY <1>9 DEF ReadOutput, Error
    <2>3. \/ a = [kind |-> "error", of |-> None, schema |-> None]
          \/ \E o \in Requests, s \in Schemas \cup {None} : a = [kind |-> "answer", of |-> o, schema |-> s]
      BY <2>1, <2>2, AnswerOf DEF TypeOK, Kept, Box
    <2>4. a \in Given
      <3>1. CASE a = [kind |-> "error", of |-> None, schema |-> None]
        BY <3>1 DEF Given
      <3>2. ASSUME NEW o \in Requests, NEW s \in Schemas \cup {None}, a = [kind |-> "answer", of |-> o, schema |-> s]
            PROVE  a \in Given
        BY <3>2 DEF Given
      <3> QED
        BY <2>3, <3>1, <3>2
    <2>5. answer' = [answer EXCEPT ![r] = a]
      BY <2>2 DEF Reply
    <2> QED
      BY <1>9, <2>2, <2>4, <2>5 DEF TypeOK, ReadOutput, Reply, Goto, Places, callVars, signVars
  <1>10. ASSUME NEW r \in Requests, ContainerAnswers(r) PROVE TypeOK'
    <2>1. box' \in [Requests -> Box]
      BY <1>10 DEF TypeOK, ContainerAnswers, Box
    <2>2. [of |-> r, schema |-> box[r].schema] \in Kept
      BY DEF TypeOK, Box, Kept
    <2> QED
      BY <1>10, <2>1, <2>2 DEF TypeOK, ContainerAnswers, signVars
  <1>11. ASSUME NEW r \in Requests, ContainerEnds(r) PROVE TypeOK'
    <2>1. box' \in [Requests -> Box]
      BY <1>11 DEF TypeOK, ContainerEnds, Box
    <2> QED
      BY <1>11, <2>1 DEF TypeOK, ContainerEnds, signVars
  <1>12. ASSUME NEW r \in Requests, Leave(r) PROVE TypeOK'
    BY <1>12, Answered DEF TypeOK, Leave, callVars, signVars
  <1>13. ASSUME NEW r \in Requests, Claim(r) PROVE TypeOK'
    <2>1. UNCHANGED <<signedIn, ask, callVars, process, channel, due, overran>>
      BY <1>13 DEF Claim
    <2>2. CASE Reply(r, [NoAnswer EXCEPT !.kind = "running already"]) /\ UNCHANGED claim
      BY <2>1, <2>2, Answered DEF TypeOK, callVars
    <2>3. CASE claim' = [by |-> r, stale |-> FALSE] /\ Goto(r, "launch") /\ UNCHANGED answer
      BY <2>1, <2>3 DEF TypeOK, Goto, Places, callVars
    <2> QED
      BY <1>13, <2>2, <2>3 DEF Claim
  <1>14. ASSUME NEW r \in Requests, Launch(r) PROVE TypeOK'
    <2>1. UNCHANGED <<signedIn, ask, callVars, channel, due, overran>>
      BY <1>14 DEF Launch
    <2>2. CASE Launched(r)
      BY <2>1, <2>2 DEF TypeOK, Launched, Goto, Places, callVars
    <2>3. CASE Reply(r, [NoAnswer EXCEPT !.kind = "error"]) /\ claim' = None /\ UNCHANGED process
      BY <2>1, <2>3, Answered DEF TypeOK, callVars
    <2> QED
      BY <1>14, <2>2, <2>3 DEF Launch, Error
  <1>15. ASSUME NEW r \in Requests, ReadDeviceAuthStart(r) PROVE TypeOK'
    BY <1>15 DEF TypeOK, ReadDeviceAuthStart, callVars
  <1>16. ASSUME NEW r \in Requests, Receive(r) PROVE TypeOK'
    <2>1. channel[r] \in {"code", "error"}
      BY <1>16 DEF Receive, TypeOK
    <2> QED
      BY <1>16, <2>1, Answered DEF TypeOK, Receive, callVars, signVars
  <1>17. ASSUME NEW r \in Requests, GiveUp(r) PROVE TypeOK'
    <2>1. process' \in [Requests -> {"none", "started", "coded", "ending", "ended"}]
      BY <1>17 DEF TypeOK, GiveUp
    <2> QED
      BY <1>17, <2>1, Answered DEF TypeOK, GiveUp, Error, callVars
  <1>18. ASSUME NEW r \in Requests, SignInEnds(r) PROVE TypeOK'
    BY <1>18 DEF TypeOK, SignInEnds, callVars
  <1>19. ASSUME NEW r \in Requests, Release(r) PROVE TypeOK'
    BY <1>19 DEF TypeOK, Release, callVars
  <1>20. ASSUME NEW r \in Requests, Elapse(r) PROVE TypeOK'
    <2>1. claim' \in [by : Requests, stale : BOOLEAN] \cup {None}
      BY <1>20 DEF TypeOK, Elapse
    <2> QED
      BY <1>20, <2>1 DEF TypeOK, Elapse, callVars
  <1>21. ASSUME NEW r \in Requests, LoginTimesOut(r) PROVE TypeOK'
    BY <1>21 DEF TypeOK, LoginTimesOut, callVars
  <1>22. CASE UNCHANGED vars
    BY <1>22 DEF TypeOK, vars
  <1> QED
    BY <1>1, <1>2, <1>3, <1>4, <1>5, <1>6, <1>7, <1>8, <1>9, <1>10, <1>11, <1>12, <1>13, <1>14, <1>15, <1>16,
       <1>17, <1>18, <1>19, <1>20, <1>21, <1>22
    DEF Next, Call, Contained, SignIn, AskChat, AskRefinement, AskOther

-----------------------------------------------------------------------------
(* Where the calls stand *)

(* A step of one request leaves the others where they stand.               *)
OthersStay(r) ==
    \A q \in Requests \ {r} : ask'[q] = ask[q] /\ pc'[q] = pc[q] /\ box'[q] = box[q] /\ answer'[q] = answer[q]

LEMMA PlacedByOne ==
  ASSUME Placed, NEW r \in Requests, OthersStay(r), PlacedAt(r)'
  PROVE  Placed'
  BY DEF Placed, PlacedAt, OthersStay

(* A request that is answered, and one that goes on.                       *)
LEMMA PlacedByAnswer ==
  ASSUME TypeOK, Placed, NEW r \in Requests,
         NEW k \in {"error", "gone", "models", "signed in", "signed out", "running already", "code"},
         Reply(r, [NoAnswer EXCEPT !.kind = k]), UNCHANGED <<ask, box>>, pc[r] # "idle"
  PROVE  Placed'
  <1>1. pc' = [pc EXCEPT ![r] = "done"] /\ answer'[r].kind = k /\ \A q \in Requests \ {r} : answer'[q] = answer[q]
    BY Answered
  <1>2. PlacedAt(r)'
    BY <1>1 DEF TypeOK, Places, Work, Placed, PlacedAt
  <1> QED
    BY <1>1, <1>2, PlacedByOne DEF TypeOK, OthersStay

LEMMA PlacedByGoing ==
  ASSUME TypeOK, Placed, NEW r \in Requests, NEW label \in Places \ {"idle", "done"},
         Goto(r, label), UNCHANGED <<ask, box, answer>>,
         pc[r] \notin {"idle", "done"}, box[r].state # "none" => pc[r] = "wait",
         label \in {"remove"} \cup Work => ask[r].kind \in {"chat", "refine"},
         label = "catalog" => ask[r].kind \in {"chat", "models"},
         pc[r] = "wait" => label = "read" /\ box[r].state \in {"ended", "failed"},
         label \in {"wait", "read"} => pc[r] = "wait"
  PROVE  Placed'
  <1>1. pc' = [pc EXCEPT ![r] = label]
    BY DEF Goto
  <1>2. PlacedAt(r)'
    BY <1>1 DEF TypeOK, Places, Work, Placed, PlacedAt
  <1> QED
    BY <1>1, <1>2, PlacedByOne DEF TypeOK, OthersStay

LEMMA CheckGoes ==
  ASSUME TypeOK, NEW r \in Requests, CheckSignedIn(r)
  PROVE  /\ pc[r] = "status" /\ UNCHANGED <<signedIn, ask, callVars, signVars>>
         /\ \/ Reply(r, [NoAnswer EXCEPT !.kind = "signed in"]) \/ Reply(r, [NoAnswer EXCEPT !.kind = "error"])
            \/ /\ UNCHANGED answer
               /\ \/ Goto(r, "claim")
                  \/ Goto(r, "catalog") /\ ask[r].kind \in {"chat", "models"}
                  \/ Goto(r, "remove") /\ ask[r].kind = "chat"
  <1>1. pc[r] = "status" /\ UNCHANGED <<signedIn, ask, callVars, signVars>> /\ ask[r].kind \in {"chat", "models", "sign-in"}
    BY DEF CheckSignedIn
  <1>2. CASE ask[r].kind = "sign-in"
    <2>1. CASE signedIn
      <3>1. Reply(r, [NoAnswer EXCEPT !.kind = "signed in"])
        BY <1>2, <2>1 DEF CheckSignedIn
      <3> QED
        BY <1>1, <3>1
    <2>2. CASE ~signedIn
      <3>1. Goto(r, "claim") /\ UNCHANGED answer
        BY <1>2, <2>2 DEF CheckSignedIn
      <3> QED
        BY <1>1, <3>1
    <2> QED
      BY <2>1, <2>2
  <1>3. CASE ask[r].kind # "sign-in" /\ ~signedIn
    BY <1>1, <1>3 DEF CheckSignedIn, Error
  <1>4. CASE ask[r].kind # "sign-in" /\ signedIn
    <2>1. UNCHANGED answer /\ Goto(r, IF ask[r].kind = "models" \/ model[r] = None THEN "catalog" ELSE "remove")
      BY <1>4 DEF CheckSignedIn
    <2> QED
      BY <1>1, <1>4, <2>1
  <1> QED
    BY <1>1, <1>2, <1>3, <1>4

LEMMA PlacedStep ==
  ASSUME IInv, [Next]_vars
  PROVE  Placed'
  <1> USE DEF IInv, Places, Work
  <1>1. ASSUME NEW r \in Requests, NEW a \in Asks, NEW label \in {"status", "remove"}, Asked(r, a, label),
               label = "remove" => a.kind = "refine"
        PROVE  Placed'
    <2>1. PlacedAt(r)'
      BY <1>1, AskFacts DEF TypeOK, Placed, PlacedAt, Asked, Goto
    <2> QED
      BY <1>1, <2>1, PlacedByOne DEF TypeOK, Asked, Goto, OthersStay
  <1>4. ASSUME NEW r \in Requests, CheckSignedIn(r) PROVE Placed'
    <2>1. pc[r] = "status" /\ UNCHANGED <<ask, box>> /\ box[r].state = "none"
      BY <1>4, CheckGoes DEF callVars, Placed, PlacedAt, TypeOK, Box
    <2> QED
      BY <1>4, <2>1, CheckGoes, PlacedByAnswer, PlacedByGoing
  <1>5. ASSUME NEW r \in Requests, Catalog(r) PROVE Placed'
    <2>1. pc[r] = "catalog" /\ UNCHANGED <<ask, box>> /\ box[r].state = "none" /\ ask[r].kind \in {"chat", "models"}
      BY <1>5 DEF Catalog, Placed, PlacedAt, TypeOK, Box
    <2>2. \/ Reply(r, [NoAnswer EXCEPT !.kind = "models"]) \/ Reply(r, [NoAnswer EXCEPT !.kind = "error"])
          \/ ask[r].kind # "models" /\ Goto(r, "remove") /\ UNCHANGED answer
      BY <1>5 DEF Catalog, Error
    <2> QED
      BY <2>1, <2>2, PlacedByAnswer, PlacedByGoing
  <1>6. ASSUME NEW r \in Requests, Logout(r) PROVE Placed'
    BY <1>6, PlacedByAnswer DEF Logout, Error, callVars
  <1>7. ASSUME NEW r \in Requests, RemoveOutput(r) PROVE Placed'
    <2>1. pc[r] = "remove" /\ UNCHANGED <<ask, box, answer>> /\ Goto(r, "schema")
      BY <1>7 DEF RemoveOutput, Begin
    <2> QED
      BY <2>1, PlacedByGoing DEF Placed, PlacedAt
  <1>8. ASSUME NEW r \in Requests, PrepareSchema(r) PROVE Placed'
    <2>1. pc[r] = "schema" /\ UNCHANGED <<ask, box, answer>> /\ Goto(r, "start")
      BY <1>8 DEF PrepareSchema
    <2> QED
      BY <2>1, PlacedByGoing DEF Placed, PlacedAt
  <1>9. ASSUME NEW r \in Requests, StartContainer(r) PROVE Placed'
    <2>1. pc[r] = "start" /\ UNCHANGED <<ask, answer>>
      BY <1>9 DEF StartContainer
    <2>2. \/ box'[r].state = "running" /\ Goto(r, "wait")
          \/ box'[r].state = "failed" /\ Goto(r, "read")
      BY <1>9 DEF StartContainer, TypeOK, Box
    <2>3. \A q \in Requests \ {r} : box'[q] = box[q]
      BY <1>9 DEF StartContainer, TypeOK, Box
    <2>4. PlacedAt(r)'
      BY <2>1, <2>2 DEF Placed, PlacedAt, TypeOK, Goto
    <2> QED
      BY <2>1, <2>2, <2>3, <2>4, PlacedByOne DEF OthersStay, TypeOK, Goto
  <1>10. ASSUME NEW r \in Requests, Wait(r) PROVE Placed'
    <2>1. pc[r] = "wait" /\ box[r].state # "running" /\ UNCHANGED <<ask, box, answer>> /\ Goto(r, "read")
      BY <1>10 DEF Wait, callVars
    <2>2. box[r].state # "none"
      BY <2>1 DEF Placed, PlacedAt
    <2> QED
      BY <2>1, <2>2, PlacedByGoing DEF Placed, PlacedAt, TypeOK, Box
  <1>11. ASSUME NEW r \in Requests, ReadOutput(r) PROVE Placed'
    <2>1. pc[r] = "read" /\ UNCHANGED <<ask, box>>
      BY <1>11 DEF ReadOutput, callVars
    <2>2. pc' = [pc EXCEPT ![r] = "done"] /\ \A q \in Requests \ {r} : answer'[q] = answer[q]
      BY <1>11 DEF ReadOutput, Reply, Goto, TypeOK
    <2>3. PlacedAt(r)'
      BY <2>1, <2>2 DEF TypeOK, Placed, PlacedAt
    <2> QED
      BY <2>1, <2>2, <2>3, PlacedByOne DEF TypeOK, OthersStay
  <1>12. ASSUME NEW r \in Requests, ContainerAnswers(r) \/ ContainerEnds(r) PROVE Placed'
    <2>1. box[r].state = "running" /\ UNCHANGED <<ask, pc, answer>>
      BY <1>12 DEF ContainerAnswers, ContainerEnds
    <2>2. box'[r].state \in {"ended", "failed"} /\ \A q \in Requests \ {r} : box'[q] = box[q]
      BY <1>12 DEF ContainerAnswers, ContainerEnds, TypeOK, Box
    <2>3. PlacedAt(r)'
      BY <2>1, <2>2 DEF Placed, PlacedAt
    <2> QED
      BY <2>1, <2>2, <2>3, PlacedByOne DEF OthersStay
  <1>13. ASSUME NEW r \in Requests, Leave(r) PROVE Placed'
    BY <1>13, PlacedByAnswer DEF Leave, callVars
  <1>14. ASSUME NEW r \in Requests, Claim(r) PROVE Placed'
    <2>1. pc[r] = "claim" /\ UNCHANGED <<ask, box>> /\ box[r].state = "none"
      BY <1>14 DEF Claim, callVars, Placed, PlacedAt, TypeOK, Box
    <2>2. \/ Reply(r, [NoAnswer EXCEPT !.kind = "running already"])
          \/ Goto(r, "launch") /\ UNCHANGED answer
      BY <1>14 DEF Claim
    <2> QED
      BY <2>1, <2>2, PlacedByAnswer, PlacedByGoing
  <1>15. ASSUME NEW r \in Requests, Launch(r) PROVE Placed'
    <2>1. pc[r] = "launch" /\ UNCHANGED <<ask, box>> /\ box[r].state = "none"
      BY <1>15 DEF Launch, callVars, Placed, PlacedAt, TypeOK, Box
    <2>2. \/ Reply(r, [NoAnswer EXCEPT !.kind = "error"])
          \/ Goto(r, "select") /\ UNCHANGED answer
      BY <1>15 DEF Launch, Launched, Error
    <2> QED
      BY <2>1, <2>2, PlacedByAnswer, PlacedByGoing
  <1>16. ASSUME NEW r \in Requests, Receive(r) PROVE Placed'
    <2>1. channel[r] \in {"code", "error"}
      BY <1>16 DEF Receive, TypeOK
    <2> QED
      BY <1>16, <2>1, PlacedByAnswer DEF Receive, callVars
  <1>17. ASSUME NEW r \in Requests, GiveUp(r) PROVE Placed'
    BY <1>17, PlacedByAnswer DEF GiveUp, Error, callVars
  <1>18. ASSUME UNCHANGED <<ask, pc, box, answer>> PROVE Placed'
    BY <1>18 DEF Placed, PlacedAt
  <1>19. ASSUME NEW r \in Requests, ReadDeviceAuthStart(r) \/ Release(r) \/ SignInEnds(r) \/ Elapse(r) \/ LoginTimesOut(r)
         PROVE  UNCHANGED <<ask, pc, box, answer>>
    BY <1>19 DEF ReadDeviceAuthStart, Release, SignInEnds, Elapse, LoginTimesOut, callVars
  <1>20. CASE UNCHANGED vars
    BY <1>18, <1>20 DEF vars
  <1> QED
    BY <1>1, <1>4, <1>5, <1>6, <1>7, <1>8, <1>9, <1>10, <1>11, <1>12, <1>13, <1>14, <1>15, <1>16, <1>17, <1>18, <1>19, <1>20
    DEF Next, Call, Contained, SignIn, AskChat, AskRefinement, AskOther

-----------------------------------------------------------------------------
(* What calls at work know of each other *)

LEMMA ClashesStay ==
  ASSUME Clashes, clashed \subseteq clashed', schemaClashed \subseteq schemaClashed',
         \A q \in Requests : AtWork(q)' => AtWork(q) /\ OutputName(q)' = OutputName(q) /\ ask'[q] = ask[q]
  PROVE  Clashes'
  BY DEF Clashes

LEMMA OutputsStay ==
  ASSUME OutputsOwn, clashed \subseteq clashed', output' = output,
         \A q \in Requests : pc'[q] \in Work => pc[q] \in Work /\ OutputName(q)' = OutputName(q)
  PROVE  OutputsOwn'
  <1> SUFFICES ASSUME NEW r \in Requests, pc'[r] \in Work, output'[OutputName(r)'] # None
               PROVE  LET q == output'[OutputName(r)'].of IN q = r \/ {q, r} \subseteq clashed'
    BY DEF OutputsOwn
  <1>1. PICK k : k = OutputName(r)
    OBVIOUS
  <1>2. OutputName(r)' = k /\ pc[r] \in Work
    BY <1>1
  <1> QED
    BY <1>1, <1>2 DEF OutputsOwn

LEMMA SchemasStay ==
  ASSUME TypeOK, SchemasKept, schemaClashed \subseteq schemaClashed', UNCHANGED <<output, schema>>,
         \A q \in Requests : pc[q] # "idle" => pc'[q] # "idle" /\ ask'[q] = ask[q],
         \A q \in Requests : pc'[q] = "start" => pc[q] = "start",
         \A q \in Requests : box'[q].state \in {"running", "ended"} =>
            box[q].state \in {"running", "ended"} /\ box'[q].schema = box[q].schema /\ pc[q] # "idle"
  PROVE  SchemasKept'
  <1>1. ASSUME NEW r \in Requests, pc'[r] = "start", ask'[r].kind = "chat"
        PROVE  schema' = ask'[r].schema \/ r \in schemaClashed'
    BY <1>1 DEF SchemasKept
  <1>2. ASSUME NEW r \in Requests, box'[r].state \in {"running", "ended"}
        PROVE  box'[r].schema = ask'[r].schema \/ r \in schemaClashed'
    BY <1>2 DEF SchemasKept
  <1>3. ASSUME NEW k \in DOMAIN output, output[k] # None
        PROVE  /\ pc'[output[k].of] # "idle"
               /\ output[k].schema = ask'[output[k].of].schema \/ output[k].of \in schemaClashed'
    <2>1. output[k].of \in Requests
      BY <1>3 DEF TypeOK, Kept
    <2> QED
      BY <1>3, <2>1 DEF SchemasKept
  <1> QED
    BY <1>1, <1>2, <1>3 DEF SchemasKept

(* A step beside the calls.                                                *)
Quiet ==
    /\ UNCHANGED <<ask, output, schema, model, box, clashed, schemaClashed>>
    /\ \A q \in Requests : /\ pc'[q] \in Work => pc[q] \in Work
                           /\ pc'[q] = "start" => pc[q] = "start"
                           /\ pc[q] # "idle" => pc'[q] # "idle"

LEMMA QuietKeeps ==
  ASSUME TypeOK, Placed, Clashes, SchemasKept, OutputsOwn, Quiet
  PROVE  Clashes' /\ SchemasKept' /\ OutputsOwn'
  <1>1. \A q \in Requests : OutputName(q)' = OutputName(q) /\ (AtWork(q)' => AtWork(q))
    BY DEF Quiet, OutputName, AtWork, Work
  <1>2. \A q \in Requests : box[q].state # "none" => pc[q] # "idle"
    BY DEF Placed, PlacedAt
  <1>3. Clashes'
    BY <1>1, ClashesStay DEF Quiet
  <1>4. OutputsOwn'
    BY <1>1, OutputsStay DEF Quiet
  <1>5. SchemasKept'
    BY <1>2, SchemasStay DEF Quiet
  <1> QED
    BY <1>3, <1>4, <1>5

LEMMA QuietSteps ==
  ASSUME IInv, NEW r \in Requests,
         \/ CheckSignedIn(r) \/ Logout(r) \/ Leave(r) \/ Wait(r) \/ ReadOutput(r) \/ SignIn(r)
         \/ GiveUp(r) \/ SignInEnds(r) \/ Elapse(r) \/ LoginTimesOut(r)
  PROVE  Quiet
  <1> USE DEF IInv, Work, callVars
  <1>1. ASSUME NEW label, Goto(r, label), pc[r] # "idle", label \notin Work \cup {"idle"},
               UNCHANGED <<ask, callVars>>
        PROVE  Quiet
    BY <1>1 DEF TypeOK, Quiet, Goto
  <1>2. CASE CheckSignedIn(r)
    BY <1>1, <1>2, CheckGoes DEF Reply
  <1>3. CASE Logout(r) \/ Leave(r) \/ ReadOutput(r) \/ Claim(r) \/ Launch(r) \/ Receive(r) \/ GiveUp(r)
    BY <1>1, <1>3 DEF Logout, Leave, ReadOutput, Claim, Launch, Launched, Receive, GiveUp, Reply
  <1>4. CASE Wait(r)
    BY <1>4 DEF TypeOK, Quiet, Wait, Goto
  <1>5. CASE ReadDeviceAuthStart(r) \/ Release(r) \/ SignInEnds(r) \/ Elapse(r) \/ LoginTimesOut(r)
    BY <1>5 DEF Quiet, ReadDeviceAuthStart, Release, SignInEnds, Elapse, LoginTimesOut
  <1> QED
    BY <1>2, <1>3, <1>4, <1>5 DEF SignIn

(* The steps of a call.                                                    *)
LEMMA AskedKeeps ==
  ASSUME IInv, NEW r \in Requests, NEW a \in Asks, NEW label \in {"status", "remove"}, Asked(r, a, label)
  PROVE  Clashes' /\ SchemasKept' /\ OutputsOwn'
  <1> USE DEF IInv, Work
  <1>1. /\ pc[r] = "idle" /\ pc' = [pc EXCEPT ![r] = label] /\ ask' = [ask EXCEPT ![r] = a]
        /\ model' = [model EXCEPT ![r] = a.model]
        /\ UNCHANGED <<signedIn, output, schema, box, answer, clashed, schemaClashed>>
    BY DEF Asked, Goto
  <1>2. \A q \in Requests : box[q].state # "none" => pc[q] # "idle"
    BY DEF Placed, PlacedAt
  <1>3. \A q \in Requests : (AtWork(q)' \/ pc'[q] \in Work => q # r) /\ (pc'[q] \in Work => pc[q] \in Work)
    BY <1>1, <1>2 DEF AtWork, TypeOK, Box
  <1>4. \A q \in Requests \ {r} : OutputName(q)' = OutputName(q) /\ (AtWork(q)' => AtWork(q)) /\ ask'[q] = ask[q]
    BY <1>1 DEF OutputName, AtWork, TypeOK
  <1>5. Clashes'
    BY <1>1, <1>3, <1>4, ClashesStay
  <1>6. OutputsOwn'
    BY <1>1, <1>3, <1>4, OutputsStay
  <1>7. SchemasKept'
    BY <1>1, <1>2, SchemasStay DEF TypeOK
  <1> QED
    BY <1>5, <1>6, <1>7

LEMMA CatalogKeeps ==
  ASSUME IInv, NEW r \in Requests, Catalog(r)
  PROVE  Clashes' /\ SchemasKept' /\ OutputsOwn'
  <1> USE DEF IInv, Work
  <1>1. /\ pc[r] = "catalog" /\ UNCHANGED <<signedIn, ask, output, schema, box, clashed, schemaClashed>>
        /\ \E label \in {"remove", "done"} : pc' = [pc EXCEPT ![r] = label]
        /\ \A q \in Requests \ {r} : model'[q] = model[q]
    BY DEF Catalog, Reply, Goto, TypeOK
  <1>2. \A q \in Requests : box[q].state # "none" => pc[q] \in {"wait", "read", "done"}
    BY DEF Placed, PlacedAt
  <1>3. \A q \in Requests : (AtWork(q)' \/ pc'[q] \in Work => q # r) /\ (pc'[q] \in Work => pc[q] \in Work)
    BY <1>1, <1>2 DEF AtWork, TypeOK, Box
  <1>4. \A q \in Requests \ {r} : OutputName(q)' = OutputName(q) /\ (AtWork(q)' => AtWork(q))
    BY <1>1 DEF OutputName, AtWork, TypeOK
  <1>5. Clashes'
    BY <1>1, <1>3, <1>4, ClashesStay
  <1>6. OutputsOwn'
    BY <1>1, <1>3, <1>4, OutputsStay
  <1>7. SchemasKept'
    BY <1>1, <1>2, SchemasStay DEF TypeOK
  <1> QED
    BY <1>5, <1>6, <1>7

(* A call that begins is told of the others, and they of it; its file is   *)
(* empty.                                                                  *)
LEMMA BeginKeeps ==
  ASSUME IInv, NEW r \in Requests, RemoveOutput(r)
  PROVE  Clashes' /\ SchemasKept' /\ OutputsOwn'
  <1> USE DEF IInv, Work
  <1>1. /\ pc[r] = "remove" /\ pc' = [pc EXCEPT ![r] = "schema"]
        /\ output' = [output EXCEPT ![OutputName(r)] = None]
        /\ UNCHANGED <<signedIn, ask, schema, model, box, answer>>
    BY DEF RemoveOutput, Begin, Goto
  <1>2. /\ clashed \subseteq clashed' /\ schemaClashed \subseteq schemaClashed'
        /\ Rivals(r) # {} => Rivals(r) \cup {r} \subseteq clashed'
        /\ OtherChats(r) # {} => OtherChats(r) \cup {r} \subseteq schemaClashed'
    BY DEF RemoveOutput, Begin
  <1>3. /\ \A q \in Requests : OutputName(q)' = OutputName(q)
        /\ \A q \in Requests \ {r} : (AtWork(q)' => AtWork(q)) /\ (pc'[q] \in Work => pc[q] \in Work)
        /\ ask[r].kind \in {"chat", "refine"} /\ OutputName(r) \in DOMAIN output
    BY <1>1, OutputNameIn DEF OutputName, AtWork, TypeOK, Placed, PlacedAt
  <1>4. Clashes'
    <2>1. ASSUME NEW q \in Requests \ {r}, AtWork(q)'
          PROVE  /\ OutputName(q) = OutputName(r) => {q, r} \subseteq clashed'
                 /\ ask[q].kind = "chat" /\ ask[r].kind = "chat" => {q, r} \subseteq schemaClashed'
      BY <1>2, <1>3, <2>1 DEF Rivals, OtherChats
    <2> SUFFICES ASSUME NEW p \in Requests, NEW q \in Requests, p # q, AtWork(p)', AtWork(q)'
                 PROVE  /\ OutputName(p) = OutputName(q) => {p, q} \subseteq clashed'
                        /\ ask[p].kind = "chat" /\ ask[q].kind = "chat" => {p, q} \subseteq schemaClashed'
      BY <1>1, <1>3 DEF Clashes
    <2>2. CASE p = r \/ q = r
      BY <2>1, <2>2
    <2>3. CASE p # r /\ q # r
      BY <1>2, <1>3, <2>3 DEF Clashes
    <2> QED
      BY <2>2, <2>3
  <1>5. OutputsOwn'
    <2> SUFFICES ASSUME NEW p \in Requests, pc'[p] \in Work, output'[OutputName(p)] # None
                 PROVE  LET q == output'[OutputName(p)].of IN q = p \/ {q, p} \subseteq clashed'
      BY <1>3 DEF OutputsOwn
    <2>1. PICK k : k = OutputName(p)
      OBVIOUS
    <2>2. k # OutputName(r) /\ output'[k] = output[k]
      BY <1>1, <1>3, <2>1 DEF TypeOK
    <2> QED
      BY <1>2, <1>3, <2>1, <2>2 DEF OutputsOwn
  <1>6. SchemasKept'
    <2>1. ASSUME NEW k \in DOMAIN output', output'[k] # None
          PROVE  k \in DOMAIN output /\ output'[k] = output[k] /\ output[k].of \in Requests
      BY <1>1, <1>3, <2>1 DEF TypeOK, Kept
    <2>2. ASSUME NEW k \in DOMAIN output', output'[k] # None
          PROVE  /\ pc'[output'[k].of] # "idle"
                 /\ output'[k].schema = ask[output'[k].of].schema \/ output'[k].of \in schemaClashed'
      BY <1>1, <1>2, <2>1, <2>2 DEF SchemasKept, TypeOK
    <2>3. \A q \in Requests :
              /\ pc'[q] = "start" /\ ask[q].kind = "chat" => schema = ask[q].schema \/ q \in schemaClashed'
              /\ box[q].state \in {"running", "ended"} => box[q].schema = ask[q].schema \/ q \in schemaClashed'
      BY <1>1, <1>2 DEF SchemasKept, TypeOK
    <2> QED
      BY <1>1, <2>2, <2>3 DEF SchemasKept
  <1> QED
    BY <1>4, <1>5, <1>6

(* A chat that puts its schema in place clashes with the chats at work.    *)
LEMMA PrepareKeeps ==
  ASSUME IInv, NEW r \in Requests, PrepareSchema(r)
  PROVE  Clashes' /\ SchemasKept' /\ OutputsOwn'
  <1> USE DEF IInv, Work
  <1>1. /\ pc[r] = "schema" /\ pc' = [pc EXCEPT ![r] = "start"]
        /\ schema' = IF ask[r].kind = "chat" THEN ask[r].schema ELSE schema
        /\ UNCHANGED <<signedIn, ask, output, model, box, answer, clashed, schemaClashed>>
    BY DEF PrepareSchema, Goto
  <1>2. \A q \in Requests : OutputName(q)' = OutputName(q) /\ (AtWork(q)' => AtWork(q)) /\ (pc'[q] \in Work => pc[q] \in Work)
    BY <1>1 DEF OutputName, AtWork, TypeOK, Placed, PlacedAt
  <1>3. Clashes'
    BY <1>1, <1>2, ClashesStay
  <1>4. OutputsOwn'
    BY <1>1, <1>2, OutputsStay
  <1>5. SchemasKept'
    <2>1. ASSUME NEW q \in Requests, pc'[q] = "start", ask[q].kind = "chat"
          PROVE  schema' = ask[q].schema \/ q \in schemaClashed
      <3>1. CASE q = r
        BY <1>1, <2>1, <3>1
      <3>2. CASE q # r /\ ask[r].kind = "chat"
        <4>1. ask[q] # None /\ ask[r] # None /\ pc[q] = "start"
          BY <1>1, <2>1, <3>2 DEF TypeOK, Placed, PlacedAt
        <4>2. AtWork(q) /\ AtWork(r)
          BY <1>1, <2>1, <3>2, <4>1 DEF AtWork
        <4> QED
          BY <2>1, <3>2, <4>2 DEF Clashes
      <3>3. CASE q # r /\ ask[r].kind # "chat"
        BY <1>1, <2>1, <3>3 DEF TypeOK, SchemasKept
      <3> QED
        BY <3>1, <3>2, <3>3
    <2>2. ASSUME NEW k \in DOMAIN output, output[k] # None
          PROVE  /\ pc'[output[k].of] # "idle"
                 /\ output[k].schema = ask[output[k].of].schema \/ output[k].of \in schemaClashed
      <3>1. output[k].of \in Requests
        BY <2>2 DEF TypeOK, Kept
      <3> QED
        BY <1>1, <2>2, <3>1 DEF SchemasKept, TypeOK
    <2>3. \A q \in Requests : box[q].state \in {"running", "ended"} => box[q].schema = ask[q].schema \/ q \in schemaClashed
      BY DEF SchemasKept
    <2> QED
      BY <1>1, <2>1, <2>2, <2>3 DEF SchemasKept
  <1> QED
    BY <1>3, <1>4, <1>5

LEMMA StartKeeps ==
  ASSUME IInv, NEW r \in Requests, StartContainer(r)
  PROVE  Clashes' /\ SchemasKept' /\ OutputsOwn'
  <1> USE DEF IInv, Work
  <1>1. /\ pc[r] = "start" /\ UNCHANGED <<signedIn, ask, output, schema, model, answer, clashed, schemaClashed>>
        /\ \E label \in {"wait", "read"} : pc' = [pc EXCEPT ![r] = label]
        /\ \A q \in Requests \ {r} : box'[q] = box[q]
        /\ \/ box'[r] = [state |-> "running", schema |-> IF ask[r].schema = None THEN None ELSE schema]
           \/ box'[r].state = "failed"
    BY DEF StartContainer, Goto, TypeOK, Box
  <1>2. ask[r].kind \in {"chat", "refine"} /\ ask[r] \in Asks
    BY <1>1, AskOf DEF Placed, PlacedAt
  <1>3. \A q \in Requests : OutputName(q)' = OutputName(q) /\ (AtWork(q)' => AtWork(q)) /\ (pc'[q] \in Work => pc[q] \in Work)
    BY <1>1, <1>2, AskFacts DEF OutputName, AtWork, TypeOK
  <1>4. Clashes'
    BY <1>1, <1>3, ClashesStay
  <1>5. OutputsOwn'
    BY <1>1, <1>3, OutputsStay
  <1>6. SchemasKept'
    <2>1. box'[r].state \in {"running", "ended"} => box'[r].schema = ask[r].schema \/ r \in schemaClashed
      BY <1>1, <1>2, AskFacts DEF SchemasKept
    <2>2. \A q \in Requests : box'[q].state \in {"running", "ended"} => box'[q].schema = ask[q].schema \/ q \in schemaClashed
      BY <1>1, <2>1 DEF SchemasKept
    <2>3. \A q \in Requests : pc'[q] = "start" => pc[q] = "start"
      BY <1>1 DEF TypeOK
    <2>4. ASSUME NEW k \in DOMAIN output, output[k] # None
          PROVE  /\ pc'[output[k].of] # "idle"
                 /\ output[k].schema = ask[output[k].of].schema \/ output[k].of \in schemaClashed
      <3>1. output[k].of \in Requests
        BY <2>4 DEF TypeOK, Kept
      <3> QED
        BY <1>1, <2>4, <3>1 DEF SchemasKept, TypeOK
    <2> QED
      BY <1>1, <2>2, <2>3, <2>4 DEF SchemasKept
  <1> QED
    BY <1>4, <1>5, <1>6

(* A container overwrites the file of those its call clashed with.         *)
LEMMA ContainerKeeps ==
  ASSUME IInv, NEW r \in Requests, ContainerAnswers(r) \/ ContainerEnds(r)
  PROVE  Clashes' /\ SchemasKept' /\ OutputsOwn'
  <1> USE DEF IInv, Work
  <1>1. /\ box[r].state = "running" /\ UNCHANGED <<signedIn, ask, pc, schema, model, answer, clashed, schemaClashed>>
        /\ \E how \in {"ended", "failed"} : box' = [box EXCEPT ![r].state = how]
    BY DEF ContainerAnswers, ContainerEnds
  <1>2. ask[r].kind \in {"chat", "refine"} /\ ask[r] \in Asks /\ pc[r] # "idle"
    BY <1>1, AskOf DEF Placed, PlacedAt
  <1>3. \A q \in Requests : OutputName(q)' = OutputName(q) /\ (AtWork(q)' => AtWork(q))
    BY <1>1 DEF OutputName, AtWork, TypeOK, Box
  <1>4. \A q \in Requests : box'[q].state \in {"running", "ended"} =>
            box[q].state \in {"running", "ended"} /\ box'[q].schema = box[q].schema
    BY <1>1 DEF TypeOK, Box
  <1>5. Clashes'
    BY <1>1, <1>3, ClashesStay
  <1>6. CASE ContainerEnds(r)
    <2>1. output' = output
      BY <1>6 DEF ContainerEnds
    <2>2. OutputsOwn'
      BY <1>1, <1>3, <2>1, OutputsStay
    <2>3. \A q \in Requests : box[q].state # "none" => pc[q] # "idle"
      BY DEF Placed, PlacedAt
    <2>4. SchemasKept'
      BY <1>1, <1>4, <2>1, <2>3, SchemasStay
    <2> QED
      BY <1>5, <2>2, <2>4
  <1>7. CASE ContainerAnswers(r)
    <2> DEFINE mine == [of |-> r, schema |-> box[r].schema]
    <2>1. output' = [output EXCEPT ![OutputName(r)] = mine] /\ OutputName(r) \in DOMAIN output
      BY <1>2, <1>7, OutputNameIn DEF ContainerAnswers, TypeOK
    <2>2. OutputsOwn'
      <3> SUFFICES ASSUME NEW p \in Requests, pc'[p] \in Work, output'[OutputName(p)] # None
                   PROVE  LET q == output'[OutputName(p)].of IN q = p \/ {q, p} \subseteq clashed
        BY <1>1, <1>3 DEF OutputsOwn
      <3>1. PICK k : k = OutputName(p)
        OBVIOUS
      <3>2. CASE k = OutputName(r)
        <4>1. output'[k].of = r
          BY <2>1, <3>2
        <4>2. p # r => {r, p} \subseteq clashed
          <5>1. ask[p] # None /\ ask[p].kind \in {"chat", "refine"} /\ pc[p] \in Work
            BY <1>1 DEF Placed, PlacedAt
          <5>2. AtWork(p) /\ AtWork(r)
            BY <1>1, <5>1 DEF AtWork
          <5> QED
            BY <3>1, <3>2, <5>2 DEF Clashes
        <4> QED
          BY <3>1, <4>1, <4>2
      <3>3. CASE k # OutputName(r)
        BY <1>1, <2>1, <3>1, <3>3 DEF OutputsOwn, TypeOK
      <3> QED
        BY <3>2, <3>3
    <2>3. SchemasKept'
      <3>1. ASSUME NEW k \in DOMAIN output', output'[k] # None
            PROVE  /\ pc[output'[k].of] # "idle"
                   /\ output'[k].schema = ask[output'[k].of].schema \/ output'[k].of \in schemaClashed
        <4>1. CASE k = OutputName(r)
          BY <1>1, <1>2, <2>1, <4>1 DEF SchemasKept
        <4>2. CASE k # OutputName(r)
          <5>1. output'[k] = output[k] /\ k \in DOMAIN output
            BY <2>1, <4>2 DEF TypeOK
          <5> QED
            BY <3>1, <5>1 DEF SchemasKept
        <4> QED
          BY <4>1, <4>2
      <3>2. \A q \in Requests :
                /\ pc[q] = "start" /\ ask[q].kind = "chat" => schema = ask[q].schema \/ q \in schemaClashed
                /\ box'[q].state \in {"running", "ended"} => box'[q].schema = ask[q].schema \/ q \in schemaClashed
        BY <1>4 DEF SchemasKept
      <3> QED
        BY <1>1, <3>1, <3>2 DEF SchemasKept
    <2> QED
      BY <1>5, <2>2, <2>3
  <1> QED
    BY <1>6, <1>7

LEMMA CallsStep ==
  ASSUME IInv, [Next]_vars
  PROVE  Clashes' /\ SchemasKept' /\ OutputsOwn'
  <1> DEFINE Goal == Clashes' /\ SchemasKept' /\ OutputsOwn'
  <1>1. Quiet => Goal
    BY QuietKeeps DEF IInv
  <1>2. ASSUME NEW r \in Requests,
               \/ CheckSignedIn(r) \/ Logout(r) \/ Leave(r) \/ Wait(r) \/ ReadOutput(r) \/ SignIn(r)
               \/ GiveUp(r) \/ SignInEnds(r) \/ Elapse(r) \/ LoginTimesOut(r)
        PROVE  Goal
    <2>1. Quiet
      BY <1>2, QuietSteps
    <2> QED
      BY <1>1, <2>1
  <1>3. CASE UNCHANGED vars
    <2>1. Quiet
      BY <1>3 DEF Quiet, vars
    <2> QED
      BY <1>1, <2>1
  <1>4. ASSUME NEW r \in Requests, AskChat(r) \/ AskRefinement(r) \/ AskOther(r)
        PROVE  Goal
    BY <1>4, AskedKeeps DEF AskChat, AskRefinement, AskOther
  <1>5. ASSUME NEW r \in Requests, Catalog(r) PROVE Goal
    BY <1>5, CatalogKeeps
  <1>6. ASSUME NEW r \in Requests, RemoveOutput(r) PROVE Goal
    BY <1>6, BeginKeeps
  <1>7. ASSUME NEW r \in Requests, PrepareSchema(r) PROVE Goal
    BY <1>7, PrepareKeeps
  <1>8. ASSUME NEW r \in Requests, StartContainer(r) PROVE Goal
    BY <1>8, StartKeeps
  <1>9. ASSUME NEW r \in Requests, Contained(r) PROVE Goal
    BY <1>9, ContainerKeeps DEF Contained
  <1>10. ASSUME NEW r \in Requests, Call(r) PROVE Goal
    BY <1>2, <1>5, <1>6, <1>7, <1>8, <1>10 DEF Call
  <1>11. ASSUME NEW r \in Requests,
                \/ AskChat(r) \/ AskRefinement(r) \/ AskOther(r) \/ Call(r) \/ Contained(r) \/ Leave(r)
                \/ SignIn(r) \/ GiveUp(r) \/ SignInEnds(r) \/ Elapse(r) \/ LoginTimesOut(r)
         PROVE  Goal
    BY <1>2, <1>4, <1>9, <1>10, <1>11
  <1> QED
    BY <1>3, <1>11 DEF Next

-----------------------------------------------------------------------------
(* The answers *)

LEMMA AnswersStay ==
  ASSUME AnswersTheQuestion, clashed \subseteq clashed', schemaClashed \subseteq schemaClashed',
         \A q \in Requests : answer'[q].kind = "answer" => answer'[q] = answer[q] /\ ask'[q] = ask[q]
  PROVE  AnswersTheQuestion'
  BY DEF AnswersTheQuestion

LEMMA AnswersStep ==
  ASSUME IInv, [Next]_vars
  PROVE  AnswersTheQuestion'
  <1> USE DEF IInv
  <1>1. ASSUME NEW r \in Requests, ReadOutput(r) PROVE AnswersTheQuestion'
    <2>1. /\ pc[r] = "read" /\ UNCHANGED <<ask, output, box, clashed, schemaClashed>>
          /\ box[r].state \in {"ended", "failed"} /\ ask[r].kind \in {"chat", "refine"}
      BY <1>1 DEF ReadOutput, callVars, Placed, PlacedAt, Work
    <2>2. \A q \in Requests \ {r} : answer'[q] = answer[q]
      BY <1>1 DEF ReadOutput, Reply, TypeOK
    <2>3. PICK k \in DOMAIN output : k = OutputName(r)
      BY <2>1, OutputNameIn DEF TypeOK
    <2>4. \/ answer'[r] = Error
          \/ output[k] # None /\ answer'[r] = [kind |-> "answer", of |-> output[k].of, schema |-> output[k].schema]
          \/ box[r].state = "ended" /\ answer'[r] = [kind |-> "answer", of |-> r, schema |-> box[r].schema]
      BY <1>1, <2>1, <2>3 DEF ReadOutput, Reply, TypeOK
    <2>5. ASSUME answer'[r].kind = "answer"
          PROVE  /\ answer'[r].of # r => {r, answer'[r].of} \subseteq clashed
                 /\ answer'[r].schema # ask[r].schema => r \in clashed \cup schemaClashed
      <3>1. answer'[r] # Error
        BY <2>5, AnswerOf DEF Error
      <3>2. CASE output[k] # None /\ answer'[r] = [kind |-> "answer", of |-> output[k].of, schema |-> output[k].schema]
        <4>1. output[k].of = r \/ {output[k].of, r} \subseteq clashed
          BY <2>1, <2>3, <3>2 DEF OutputsOwn, Work
        <4>2. output[k].schema = ask[output[k].of].schema \/ output[k].of \in schemaClashed
          BY <3>2 DEF SchemasKept
        <4> QED
          BY <3>2, <4>1, <4>2
      <3>3. CASE box[r].state = "ended" /\ answer'[r] = [kind |-> "answer", of |-> r, schema |-> box[r].schema]
        BY <3>3 DEF SchemasKept
      <3> QED
        BY <2>4, <3>1, <3>2, <3>3
    <2> QED
      BY <2>1, <2>2, <2>5 DEF AnswersTheQuestion
  <1>2. ASSUME NEW r \in Requests,
               NEW k \in {"error", "gone", "models", "signed in", "signed out", "running already", "code"},
               Reply(r, [NoAnswer EXCEPT !.kind = k]), UNCHANGED <<ask, clashed, schemaClashed>>
        PROVE  AnswersTheQuestion'
    <2>1. answer'[r].kind = k /\ \A q \in Requests \ {r} : answer'[q] = answer[q]
      BY <1>2, Answered
    <2>2. \A q \in Requests : answer'[q].kind = "answer" => answer'[q] = answer[q]
      BY <2>1
    <2> QED
      BY <1>2, <2>2, AnswersStay
  <1>3. ASSUME UNCHANGED answer, clashed \subseteq clashed', schemaClashed \subseteq schemaClashed',
               \A q \in Requests : pc[q] # "idle" => ask'[q] = ask[q]
        PROVE  AnswersTheQuestion'
    BY <1>3, AnswersStay DEF Placed, PlacedAt
  <1>4. ASSUME NEW r \in Requests, NEW a, NEW label, Asked(r, a, label) PROVE AnswersTheQuestion'
    BY <1>3, <1>4 DEF Asked, TypeOK
  <1>5. ASSUME NEW r \in Requests, CheckSignedIn(r) PROVE AnswersTheQuestion'
    BY <1>2, <1>3, <1>5, CheckGoes DEF callVars
  <1>6. ASSUME NEW r \in Requests, Catalog(r) PROVE AnswersTheQuestion'
    <2>1. UNCHANGED <<ask, clashed, schemaClashed>>
      BY <1>6 DEF Catalog
    <2>2. Reply(r, [NoAnswer EXCEPT !.kind = "models"]) \/ Reply(r, [NoAnswer EXCEPT !.kind = "error"]) \/ UNCHANGED answer
      BY <1>6 DEF Catalog, Error
    <2> QED
      BY <1>2, <1>3, <2>1, <2>2
  <1>7. ASSUME NEW r \in Requests, RemoveOutput(r) PROVE AnswersTheQuestion'
    BY <1>3, <1>7 DEF RemoveOutput, Begin
  <1>8. ASSUME NEW r \in Requests, Logout(r) \/ Leave(r) \/ GiveUp(r) PROVE AnswersTheQuestion'
    BY <1>2, <1>8 DEF Logout, Leave, GiveUp, Error, callVars
  <1>9. ASSUME NEW r \in Requests, Receive(r) PROVE AnswersTheQuestion'
    <2>1. channel[r] \in {"code", "error"}
      BY <1>9 DEF Receive, TypeOK
    <2> QED
      BY <1>2, <1>9, <2>1 DEF Receive, callVars
  <1>10. ASSUME NEW r \in Requests, Claim(r) PROVE AnswersTheQuestion'
    <2>1. UNCHANGED <<ask, clashed, schemaClashed>>
      BY <1>10 DEF Claim, callVars
    <2>2. Reply(r, [NoAnswer EXCEPT !.kind = "running already"]) \/ UNCHANGED answer
      BY <1>10 DEF Claim
    <2> QED
      BY <1>2, <1>3, <2>1, <2>2
  <1>11. ASSUME NEW r \in Requests, Launch(r) PROVE AnswersTheQuestion'
    <2>1. UNCHANGED <<ask, clashed, schemaClashed>>
      BY <1>11 DEF Launch, callVars
    <2>2. Reply(r, [NoAnswer EXCEPT !.kind = "error"]) \/ UNCHANGED answer
      BY <1>11 DEF Launch, Launched, Error
    <2> QED
      BY <1>2, <1>3, <2>1, <2>2
  <1>12. ASSUME NEW r \in Requests,
                \/ PrepareSchema(r) \/ StartContainer(r) \/ Wait(r) \/ ContainerAnswers(r) \/ ContainerEnds(r)
                \/ ReadDeviceAuthStart(r) \/ Release(r) \/ SignInEnds(r) \/ Elapse(r) \/ LoginTimesOut(r)
         PROVE  UNCHANGED <<ask, answer, clashed, schemaClashed>>
    BY <1>12 DEF PrepareSchema, StartContainer, Wait, ContainerAnswers, ContainerEnds, ReadDeviceAuthStart,
         Release, SignInEnds, Elapse, LoginTimesOut, callVars
  <1>13. ASSUME UNCHANGED <<ask, answer, clashed, schemaClashed>> PROVE AnswersTheQuestion'
    BY <1>3, <1>13
  <1>14. CASE UNCHANGED vars
    BY <1>13, <1>14 DEF vars
  <1> QED
    BY <1>1, <1>4, <1>5, <1>6, <1>7, <1>8, <1>9, <1>10, <1>11, <1>12, <1>13, <1>14
    DEF Next, Call, Contained, SignIn, AskChat, AskRefinement, AskOther

-----------------------------------------------------------------------------
(* The claim of a sign-in *)

LEMMA ClaimStays ==
  ASSUME TypeOK, ClaimInv, UNCHANGED <<claim, overran>>,
         \A q \in Requests : SigningIn(q)' <=> SigningIn(q)
  PROVE  ClaimInv'
  BY DEF TypeOK, ClaimInv, ClaimHasItsSignIn, SigningIn

LEMMA ClaimStep ==
  ASSUME IInv, [Next]_vars
  PROVE  ClaimInv'
  <1> USE DEF IInv
  <1>1. ASSUME NEW r \in Requests, NEW label, Goto(r, label), label # "launch", pc[r] # "launch",
               UNCHANGED <<claim, overran, process>>
        PROVE  ClaimInv'
    BY <1>1, ClaimStays DEF SigningIn, Goto, TypeOK
  <1>2. ASSUME UNCHANGED <<claim, overran, process, pc>> PROVE ClaimInv'
    BY <1>2, ClaimStays DEF SigningIn
  <1>3. ASSUME NEW r \in Requests, NEW a, NEW label \in {"status", "remove"}, Asked(r, a, label) PROVE ClaimInv'
    BY <1>1, <1>3 DEF Asked, signVars
  <1>4. ASSUME NEW r \in Requests, CheckSignedIn(r) PROVE ClaimInv'
    BY <1>1, <1>4, CheckGoes DEF signVars, Reply
  <1>5. ASSUME NEW r \in Requests,
               \/ Catalog(r) \/ Logout(r) \/ RemoveOutput(r) \/ PrepareSchema(r) \/ StartContainer(r) \/ Wait(r)
               \/ ReadOutput(r) \/ Leave(r) \/ Receive(r)
        PROVE  ClaimInv'
    BY <1>1, <1>5 DEF Catalog, Logout, RemoveOutput, Begin, PrepareSchema, StartContainer, Wait, ReadOutput, Leave,
         Receive, Reply, signVars
  <1>6. ASSUME NEW r \in Requests, Contained(r) PROVE ClaimInv'
    BY <1>2, <1>6 DEF Contained, ContainerAnswers, ContainerEnds, signVars
  <1>7. ASSUME NEW r \in Requests, Claim(r) PROVE ClaimInv'
    <2>1. CASE claim # None /\ ~claim.stale
      BY <1>1, <1>7, <2>1 DEF Claim, Reply
    <2>2. CASE ~(claim # None /\ ~claim.stale)
      <3>1. claim' = [by |-> r, stale |-> FALSE] /\ pc' = [pc EXCEPT ![r] = "launch"] /\ UNCHANGED <<process, overran>>
        BY <1>7, <2>2 DEF Claim, Goto
      <3>2. claim' # None /\ claim'.by = r /\ ~claim'.stale
        <4>1. [by |-> r, stale |-> FALSE] \in [by : Requests, stale : BOOLEAN]
          OBVIOUS
        <4> QED
          BY <3>1, <4>1, NoneIsNothing
      <3>3. overran = {} => \A q \in Requests : ~SigningIn(q)
        BY <2>2 DEF ClaimInv, TypeOK
      <3>4. \A q \in Requests : SigningIn(q)' <=> (q = r \/ SigningIn(q))
        BY <3>1 DEF SigningIn, TypeOK
      <3> QED
        BY <3>1, <3>2, <3>3, <3>4 DEF ClaimInv, ClaimHasItsSignIn, SigningIn
    <2> QED
      BY <2>1, <2>2
  <1>8. ASSUME NEW r \in Requests, Launch(r) PROVE ClaimInv'
    <2>1. pc[r] = "launch" /\ UNCHANGED overran
      BY <1>8 DEF Launch
    <2>2. CASE Launched(r)
      <3>1. \A q \in Requests : SigningIn(q)' <=> SigningIn(q)
        BY <2>1, <2>2 DEF Launched, Goto, SigningIn, TypeOK
      <3> QED
        BY <2>1, <2>2, <3>1, ClaimStays DEF Launched
    <2>3. CASE Reply(r, Error) /\ claim' = None /\ UNCHANGED process
      <3>1. \A q \in Requests \ {r} : SigningIn(q)' <=> SigningIn(q)
        BY <2>3 DEF Reply, Goto, SigningIn, TypeOK
      <3>2. SigningIn(r) /\ ~SigningIn(r)'
        BY <2>1, <2>3 DEF Reply, Goto, SigningIn, TypeOK, Launches
      <3>3. overran = {} => \A q \in Requests : ~SigningIn(q)'
        BY <3>1, <3>2 DEF ClaimInv
      <3> QED
        BY <2>1, <2>3, <3>3 DEF ClaimInv, ClaimHasItsSignIn
    <2> QED
      BY <1>8, <2>2, <2>3 DEF Launch
  <1>9. ASSUME NEW r \in Requests, ReadDeviceAuthStart(r) \/ SignInEnds(r) \/ LoginTimesOut(r) PROVE ClaimInv'
    <2>1. /\ UNCHANGED <<claim, overran, pc>> /\ process[r] \in {"started", "coded"}
          /\ \E how \in {"coded", "ending"} : process' = [process EXCEPT ![r] = how]
      BY <1>9 DEF ReadDeviceAuthStart, SignInEnds, LoginTimesOut, Running
    <2>2. \A q \in Requests : SigningIn(q)' <=> SigningIn(q)
      BY <2>1 DEF SigningIn, TypeOK
    <2> QED
      BY <2>1, <2>2, ClaimStays
  <1>10. ASSUME NEW r \in Requests, GiveUp(r) PROVE ClaimInv'
    <2>1. /\ UNCHANGED <<claim, overran>> /\ pc[r] = "select" /\ pc' = [pc EXCEPT ![r] = "done"]
          /\ process' = IF Running(r) THEN [process EXCEPT ![r] = "ending"] ELSE process
      BY <1>10 DEF GiveUp, Reply, Goto
    <2>2. \A q \in Requests : SigningIn(q)' <=> SigningIn(q)
      BY <2>1 DEF SigningIn, Running, TypeOK
    <2> QED
      BY <2>1, <2>2, ClaimStays
  <1>11. ASSUME NEW r \in Requests, Release(r) PROVE ClaimInv'
    <2>1. claim' = None /\ UNCHANGED <<overran, pc>> /\ process[r] = "ending" /\ process' = [process EXCEPT ![r] = "ended"]
      BY <1>11 DEF Release
    <2>2. SigningIn(r) /\ ~SigningIn(r)'
      BY <2>1 DEF SigningIn, TypeOK, Launches
    <2>3. \A q \in Requests \ {r} : SigningIn(q)' <=> SigningIn(q)
      BY <2>1 DEF SigningIn, TypeOK
    <2>4. overran = {} => \A q \in Requests : ~SigningIn(q)'
      BY <2>2, <2>3 DEF ClaimInv
    <2> QED
      BY <2>1, <2>4 DEF ClaimInv, ClaimHasItsSignIn
  <1>12. ASSUME NEW r \in Requests, Elapse(r) PROVE ClaimInv'
    <2>1. /\ overran' = overran \cup {r} /\ UNCHANGED <<pc, process>>
          /\ claim' = IF claim # None /\ claim.by = r THEN [claim EXCEPT !.stale = TRUE] ELSE claim
      BY <1>12 DEF Elapse
    <2>2. overran' # {}
      BY <2>1
    <2>3. claim' # None /\ ~claim'.stale => claim' = claim
      BY <2>1 DEF TypeOK
    <2> QED
      BY <2>1, <2>2, <2>3 DEF ClaimInv, ClaimHasItsSignIn
  <1>13. CASE UNCHANGED vars
    BY <1>2, <1>13 DEF vars, signVars
  <1>14. ASSUME NEW r \in Requests, AskChat(r) \/ AskRefinement(r) \/ AskOther(r) PROVE ClaimInv'
    BY <1>3, <1>14 DEF AskChat, AskRefinement, AskOther
  <1> QED
    BY <1>4, <1>5, <1>6, <1>7, <1>8, <1>9, <1>10, <1>11, <1>12, <1>13, <1>14 DEF Next, Call, SignIn

LEMMA LaunchesStep ==
  ASSUME IInv, [Next]_vars
  PROVE  Launches'
  <1> USE DEF IInv
  <1>1. ASSUME NEW r \in Requests, NEW label, Goto(r, label), UNCHANGED process,
               pc[r] \notin {"select", "done"} \/ label = "done"
        PROVE  Launches'
    BY <1>1 DEF Launches, Goto, TypeOK
  <1>2. ASSUME UNCHANGED pc, \A q \in Requests : process'[q] # "none" => process[q] # "none" PROVE Launches'
    BY <1>2 DEF Launches
  <1>3. ASSUME NEW r \in Requests, NEW a, NEW label \in {"status", "remove"}, Asked(r, a, label) PROVE Launches'
    BY <1>1, <1>3 DEF Asked, signVars
  <1>4. ASSUME NEW r \in Requests, CheckSignedIn(r) PROVE Launches'
    BY <1>1, <1>4, CheckGoes DEF signVars, Reply, CheckSignedIn
  <1>5. ASSUME NEW r \in Requests,
               \/ Catalog(r) \/ Logout(r) \/ RemoveOutput(r) \/ PrepareSchema(r) \/ StartContainer(r) \/ Wait(r)
               \/ ReadOutput(r) \/ Leave(r) \/ Receive(r)
        PROVE  Launches'
    BY <1>1, <1>5 DEF Catalog, Logout, RemoveOutput, Begin, PrepareSchema, StartContainer, Wait, ReadOutput, Leave,
         Receive, Reply, signVars
  <1>6. ASSUME NEW r \in Requests, Contained(r) PROVE Launches'
    BY <1>2, <1>6 DEF Contained, ContainerAnswers, ContainerEnds, signVars
  <1>7. ASSUME NEW r \in Requests, Claim(r) PROVE Launches'
    BY <1>1, <1>7 DEF Claim, Reply
  <1>8. ASSUME NEW r \in Requests, Launch(r) PROVE Launches'
    <2>1. CASE Launched(r)
      BY <2>1 DEF Launched, Goto, Launches, TypeOK
    <2>2. CASE Reply(r, Error) /\ UNCHANGED process
      BY <1>1, <2>2 DEF Reply
    <2> QED
      BY <1>8, <2>1, <2>2 DEF Launch
  <1>9. ASSUME NEW r \in Requests,
               ReadDeviceAuthStart(r) \/ SignInEnds(r) \/ LoginTimesOut(r) \/ Release(r) \/ Elapse(r)
        PROVE  Launches'
    <2>1. UNCHANGED pc /\ \A q \in Requests : process'[q] # "none" => process[q] # "none"
      BY <1>9 DEF ReadDeviceAuthStart, SignInEnds, LoginTimesOut, Release, Elapse, Running, TypeOK
    <2> QED
      BY <1>2, <2>1
  <1>10. ASSUME NEW r \in Requests, GiveUp(r) PROVE Launches'
    BY <1>10 DEF GiveUp, Reply, Goto, Running, Launches, TypeOK
  <1>11. CASE UNCHANGED vars
    BY <1>2, <1>11 DEF vars, signVars
  <1>12. ASSUME NEW r \in Requests, AskChat(r) \/ AskRefinement(r) \/ AskOther(r) PROVE Launches'
    BY <1>3, <1>12 DEF AskChat, AskRefinement, AskOther
  <1> QED
    BY <1>4, <1>5, <1>6, <1>7, <1>8, <1>9, <1>10, <1>11, <1>12 DEF Next, Call, SignIn

-----------------------------------------------------------------------------
(* The variables stay of their types, and the invariant holds throughout.  *)
LEMMA Invariance == Spec => []IInv
  <1>1. IInv /\ [Next]_vars => IInv'
    BY TypeStep, PlacedStep, CallsStep, AnswersStep, ClaimStep, LaunchesStep DEF IInv
  <1> QED
    BY InitHolds, <1>1, PTL DEF Spec

(* runDockerCodexWithOptions (artifacts.go): whatever requests come and    *)
(* however they interleave, fail or are abandoned, an answer is of the     *)
(* call itself and under its own schema, unless the two clashed.           *)
THEOREM OwnAnswers == Spec => []AnswersTheQuestion
  <1>1. IInv => AnswersTheQuestion
    BY DEF IInv
  <1> QED
    BY Invariance, <1>1, PTL

(* claimCodexAuthProcess and releaseCodexAuthProcess (api/codex.go): two   *)
(* sign-ins of a user run at once only if one has outlived its claim.      *)
THEOREM OneSignIn == Spec => []SignInsExclusive
  <1>1. IInv => SignInsExclusive
    BY DEF IInv, ClaimInv, SignInsExclusive, Running, SigningIn
  <1> QED
    BY Invariance, <1>1, PTL

(* StartCodexDeviceAuth (api/codex.go): a claim that turns others away is  *)
(* that of a sign-in which is being made.                                  *)
THEOREM ClaimsAreReleased == Spec => []ClaimHasItsSignIn
  <1>1. IInv => ClaimHasItsSignIn
    BY DEF IInv, ClaimInv
  <1> QED
    BY Invariance, <1>1, PTL

-----------------------------------------------------------------------------
(* The snapshots of the user's Codex state                                 *)

(* Transactions begin one after the other.                                 *)
Stamps ==
    /\ \A s \in Saves : stamp[s] <= clock
    /\ \A s, t \in Saves : s # t /\ stamp[s] > 0 => stamp[s] # stamp[t]
    /\ \A s \in Saves : stage[s] \in {"inserted", "pruned"} \/ Committed(s) => stamp[s] > 0
    /\ \A s \in Saves : stage[s] \in {"idle", "checked"} => stamp[s] = 0

(* A row is of a save that was answered so.                                *)
Rows == \A s \in Saves : (s \in rows => Committed(s)) /\ (Committed(s) => stage[s] = "done")

Pruned(s) == stage[s] = "pruned" \/ Committed(s)

(* What a prune may pick: a row which alone is over its quota, or than     *)
(* which it saw a newer one.  Rows it saw were committed, or its own.      *)
Seen(s, t) == t = s \/ Committed(t)
Picks(s, t) == size[t] > quota[s] \/ \E x \in Saves : Seen(s, x) /\ stamp[x] > stamp[t]

PrunesAreRight == \A s \in Saves : Pruned(s) => \A t \in doomed[s] : Seen(s, t) /\ Picks(s, t)

(* A committed row that is gone was picked so, by a committed save.        *)
GoneForCause == \A t \in Saves : Committed(t) /\ t \notin rows => \E s \in Saves : Committed(s) /\ Picks(s, t)

QuotaInv == QuotaTypeOK /\ Stamps /\ Rows /\ PrunesAreRight /\ GoneForCause

-----------------------------------------------------------------------------
(* Sums *)

(* The sum over one element: the recursion is unfolded twice.              *)
LEMMA SumOfOne ==
  ASSUME NEW f, NEW t, f[t] \in Nat
  PROVE  SumFunctionOnSet(f, {t}) = f[t]
  <1> DEFINE Body(g) == [s \in SUBSET {t} |-> IF s = {} THEN 0
                            ELSE LET x == CHOOSE x \in s : TRUE IN f[x] + g[s \ {x}]]
             Sum == CHOOSE g : g = Body(g)
  <1>1. \A s \in SUBSET {t} : s = {} \/ s = {t}
    OBVIOUS
  <1>2. (CHOOSE x \in {t} : TRUE) = t /\ {t} \ {t} = {}
    OBVIOUS
  <1>3. PICK g : g = [s \in SUBSET {t} |-> IF s = {} THEN 0 ELSE f[t]]
    OBVIOUS
  <1>4. g = Body(g)
    BY <1>1, <1>2, <1>3
  <1>5. Sum = Body(Sum)
    BY <1>4
  <1>6. SumFunctionOnSet(f, {t}) = Sum[{t}]
    BY DEF SumFunctionOnSet, FoldFunctionOnSet, MapThenFoldSet
  <1>7. Sum[{}] = 0 /\ Sum[{t}] = f[t] + Sum[{}]
    <2> HIDE DEF Sum
    <2> QED
      BY <1>2, <1>5
  <1> QED
    BY <1>6, <1>7

(* A row than which no other is newer has but its own size to run up.      *)
LEMMA NewestAlone ==
  ASSUME NEW S, NEW t \in S, size[t] \in Nat, \A x \in S : stamp[x] \in Nat /\ (x # t => stamp[x] < stamp[t])
  PROVE  RunningBytes(t, S) = size[t]
  <1>1. {x \in S : stamp[x] >= stamp[t]} = {t}
    OBVIOUS
  <1> QED
    BY <1>1, SumOfOne DEF RunningBytes, Bytes

-----------------------------------------------------------------------------
(* Steps *)

LEMMA QuotaInitHolds == QuotaInit => QuotaInv
  <1> SUFFICES ASSUME QuotaInit PROVE QuotaInv
    OBVIOUS
  <1>a. /\ rows \subseteq Saves /\ size \in [Saves -> Sizes] /\ snapKind \in [Saves -> Kinds]
        /\ override \in Overrides \cup {NoOverride} /\ isAdmin \in BOOLEAN
    BY DEF QuotaInit
  <1>c. stamp \in [Saves -> Nat] /\ clock \in Nat
    BY DEF QuotaInit
  <1>d. changes \in 0..MaxChanges
    BY QuotasPositive DEF QuotaInit
  <1>b. /\ stage \in [Saves -> {"idle", "checked", "inserted", "pruned", "done"}]
        /\ quota \in [Saves -> Overrides \cup {0, DefaultQuota, AdminQuota}]
        /\ doomed \in [Saves -> SUBSET Saves] /\ earlier \in [Saves -> SUBSET Saves]
        /\ reply \in [Saves -> Replies]
    BY DEF QuotaInit, Replies
  <1>1. QuotaTypeOK
    BY <1>a, <1>b, <1>c, <1>d DEF QuotaTypeOK
  <1>2. Stamps /\ Rows /\ PrunesAreRight /\ GoneForCause
    BY DEF QuotaInit, Stamps, Rows, PrunesAreRight, GoneForCause, Pruned, Committed
  <1> QED
    BY <1>1, <1>2 DEF QuotaInv

LEMMA QuotaTypeStep ==
  ASSUME QuotaInv, [QuotaNext]_quotaVars
  PROVE  QuotaTypeOK'
  <1> USE DEF QuotaInv, posted, user
  <1>1. ASSUME NEW s \in Saves, NEW a \in Replies, Answer(s, a)
        PROVE  /\ reply' \in [Saves -> Replies]
               /\ stage' \in [Saves -> {"idle", "checked", "inserted", "pruned", "done"}]
    BY <1>1 DEF Answer, QuotaTypeOK
  <1>2. ASSUME NEW s \in Saves, ReadQuota(s) PROVE QuotaTypeOK'
    <2>1. EffectiveQuota \in Overrides \cup {0, DefaultQuota, AdminQuota}
      BY DEF EffectiveQuota, QuotaTypeOK
    <2>2. quota' \in [Saves -> Overrides \cup {0, DefaultQuota, AdminQuota}] /\ earlier' \in [Saves -> SUBSET Saves]
          /\ UNCHANGED <<rows, posted, stamp, clock, user, doomed>>
      BY <1>2, <2>1 DEF ReadQuota, QuotaTypeOK
    <2>3. CASE Answer(s, "too_large")
      BY <1>1, <2>2, <2>3 DEF QuotaTypeOK, Replies
    <2>4. CASE stage' = [stage EXCEPT ![s] = "checked"] /\ UNCHANGED reply
      BY <2>2, <2>4 DEF QuotaTypeOK
    <2> QED
      BY <1>2, <2>3, <2>4 DEF ReadQuota
  <1>3. ASSUME NEW s \in Saves, Insert(s) PROVE QuotaTypeOK'
    BY <1>3 DEF Insert, QuotaTypeOK
  <1>4. ASSUME NEW s \in Saves, Prune(s) PROVE QuotaTypeOK'
    BY <1>4 DEF Prune, QuotaTypeOK
  <1>5. ASSUME NEW s \in Saves, Commit(s) PROVE QuotaTypeOK'
    <2>1. rows' \subseteq Saves /\ Answer(s, "saved") /\ UNCHANGED <<posted, stamp, clock, user, quota, doomed, earlier>>
      BY <1>5 DEF Commit, TakesEffect, QuotaTypeOK
    <2> QED
      BY <1>1, <2>1 DEF QuotaTypeOK, Replies
  <1>6. ASSUME NEW s \in Saves, Fail(s) PROVE QuotaTypeOK'
    <2>1. /\ rows' \subseteq Saves /\ UNCHANGED <<posted, stamp, clock, user, quota, doomed, earlier>>
          /\ \E a \in Replies : Answer(s, a)
      BY <1>6 DEF Fail, TakesEffect, QuotaTypeOK, Replies
    <2> QED
      BY <1>1, <2>1 DEF QuotaTypeOK, Replies
  <1>7. ASSUME NEW v \in Overrides \cup {NoOverride}, NEW a \in BOOLEAN, UpdateAdminUser(v, a) PROVE QuotaTypeOK'
    BY <1>7, QuotasPositive DEF UpdateAdminUser, QuotaTypeOK
  <1>8. CASE UNCHANGED quotaVars
    BY <1>8 DEF quotaVars, QuotaTypeOK
  <1> QED
    BY <1>2, <1>3, <1>4, <1>5, <1>6, <1>7, <1>8 DEF QuotaNext

(* What a save began with and what its prune decided stay as they were.    *)
QuotaKept(s) ==
    /\ quota'[s] = quota[s] /\ doomed'[s] = doomed[s]
    /\ \A t \in Saves : stamp[t] > 0 => stamp'[t] = stamp[t]
    /\ UNCHANGED size
    /\ \A t \in Saves : Committed(t) => Committed(t)'

LEMMA StepKeeps ==
  ASSUME QuotaInv, [QuotaNext]_quotaVars, NEW s \in Saves, Pruned(s)
  PROVE  QuotaKept(s)
  <1> USE DEF QuotaInv, posted, user, Committed
  <1>1. stage[s] \in {"pruned", "done"} /\ \A t \in Saves : Committed(t) => stage[t] = "done"
    BY DEF Pruned, Rows
  <1>2. ASSUME NEW q \in Saves, ReadQuota(q) PROVE QuotaKept(s)
    <2>1. q # s /\ stage[q] = "idle" /\ UNCHANGED <<posted, stamp, doomed>> /\ quota' = [quota EXCEPT ![q] = EffectiveQuota]
          /\ (Answer(q, "too_large") \/ UNCHANGED reply)
      BY <1>1, <1>2 DEF ReadQuota
    <2> QED
      BY <1>1, <2>1 DEF QuotaKept, Answer, QuotaTypeOK
  <1>3. ASSUME NEW q \in Saves, Insert(q) PROVE QuotaKept(s)
    BY <1>3 DEF Insert, QuotaKept, QuotaTypeOK, Stamps
  <1>4. ASSUME NEW q \in Saves, Prune(q) PROVE QuotaKept(s)
    <2>1. q # s
      BY <1>1, <1>4 DEF Prune
    <2> QED
      BY <1>4, <2>1 DEF Prune, QuotaKept, QuotaTypeOK
  <1>5. ASSUME NEW q \in Saves, Commit(q) PROVE QuotaKept(s)
    BY <1>5 DEF Commit, Answer, QuotaKept, QuotaTypeOK
  <1>6. ASSUME NEW q \in Saves, Fail(q) PROVE QuotaKept(s)
    <2>1. stage[q] # "done" /\ UNCHANGED <<posted, stamp, quota, doomed>> /\ \E a \in Replies : Answer(q, a)
      BY <1>6 DEF Fail, Replies
    <2> QED
      BY <1>1, <2>1 DEF Answer, QuotaKept, QuotaTypeOK
  <1>7. ASSUME NEW v, NEW a, UpdateAdminUser(v, a) PROVE QuotaKept(s)
    BY <1>7 DEF UpdateAdminUser, QuotaKept
  <1>8. CASE UNCHANGED quotaVars
    BY <1>8 DEF quotaVars, QuotaKept
  <1> QED
    BY <1>2, <1>3, <1>4, <1>5, <1>6, <1>7, <1>8 DEF QuotaNext

(* So a pick that was right stays right: both rows have their times.       *)
LEMMA PickStays ==
  ASSUME QuotaInv, NEW s \in Saves, Pruned(s), QuotaKept(s), NEW t \in Saves, Seen(s, t), Picks(s, t)
  PROVE  Seen(s, t)' /\ Picks(s, t)'
  <1>1. \A x \in Saves : stamp[x] \in Nat /\ (Seen(s, x) => stamp[x] > 0)
    BY DEF QuotaInv, Stamps, Seen, Pruned, QuotaTypeOK
  <1>2. \A x \in Saves : Seen(s, x) => Seen(s, x)' /\ stamp'[x] = stamp[x]
    BY <1>1 DEF Seen, QuotaKept
  <1> QED
    BY <1>1, <1>2 DEF Picks, QuotaKept

LEMMA StampsStep ==
  ASSUME QuotaInv, [QuotaNext]_quotaVars
  PROVE  Stamps'
  <1> USE DEF QuotaInv, posted, user, Committed
  <1>1. ASSUME UNCHANGED <<stamp, clock>>,
               \A s \in Saves : /\ stage'[s] \in {"idle", "checked"} => stage[s] \in {"idle", "checked"}
                                /\ stage'[s] \in {"inserted", "pruned"} => stage[s] \in {"inserted", "pruned"}
                                /\ Committed(s)' => Committed(s) \/ stage[s] = "pruned"
        PROVE  Stamps'
    <2>1. Stamps
      OBVIOUS
    <2>2. stamp' = stamp /\ clock' = clock
      BY <1>1
    <2>3. \A s \in Saves : stage'[s] \in {"inserted", "pruned"} \/ Committed(s)' => stamp[s] > 0
      BY <1>1, <2>1 DEF Stamps
    <2>4. \A s \in Saves : stage'[s] \in {"idle", "checked"} => stamp[s] = 0
      BY <1>1, <2>1 DEF Stamps
    <2>5. /\ \A s \in Saves : stamp[s] <= clock
          /\ \A s, t \in Saves : s # t /\ stamp[s] > 0 => stamp[s] # stamp[t]
      BY <2>1 DEF Stamps
    <2> QED
      BY <2>2, <2>3, <2>4, <2>5 DEF Stamps
  <1>2. ASSUME NEW q \in Saves, ReadQuota(q) PROVE Stamps'
    BY <1>1, <1>2 DEF ReadQuota, Answer, QuotaTypeOK
  <1>3. ASSUME NEW q \in Saves, Insert(q) PROVE Stamps'
    <2>1. /\ clock' = clock + 1 /\ stamp'[q] = clock + 1
          /\ \A s \in Saves : s # q => stamp'[s] = stamp[s] /\ stage'[s] = stage[s]
          /\ stage'[q] = "inserted" /\ UNCHANGED reply
      BY <1>3 DEF Insert, QuotaTypeOK
    <2>2. clock \in Nat /\ \A s \in Saves : stamp[s] \in Nat
      BY DEF QuotaTypeOK
    <2> QED
      BY <2>1, <2>2 DEF Stamps
  <1>4. ASSUME NEW q \in Saves, Prune(q) PROVE Stamps'
    BY <1>1, <1>4 DEF Prune, QuotaTypeOK
  <1>5. ASSUME NEW q \in Saves, Commit(q) PROVE Stamps'
    BY <1>1, <1>5 DEF Commit, Answer, QuotaTypeOK
  <1>6. ASSUME NEW q \in Saves, Fail(q) PROVE Stamps'
    BY <1>1, <1>6 DEF Fail, Answer, QuotaTypeOK
  <1>7. ASSUME NEW v, NEW a, UpdateAdminUser(v, a) PROVE Stamps'
    BY <1>1, <1>7 DEF UpdateAdminUser
  <1>8. CASE UNCHANGED quotaVars
    BY <1>1, <1>8 DEF quotaVars
  <1> QED
    BY <1>2, <1>3, <1>4, <1>5, <1>6, <1>7, <1>8 DEF QuotaNext

LEMMA RowsStep ==
  ASSUME QuotaInv, [QuotaNext]_quotaVars
  PROVE  Rows'
  <1> USE DEF QuotaInv, posted, user, Committed
  <1>2. ASSUME NEW q \in Saves, ReadQuota(q) PROVE Rows'
    BY <1>2 DEF ReadQuota, Answer, QuotaTypeOK, Rows
  <1>3. ASSUME NEW q \in Saves, Insert(q) PROVE Rows'
    BY <1>3 DEF Insert, QuotaTypeOK, Rows
  <1>4. ASSUME NEW q \in Saves, Prune(q) PROVE Rows'
    BY <1>4 DEF Prune, QuotaTypeOK, Rows
  <1>5. ASSUME NEW q \in Saves, Commit(q) PROVE Rows'
    BY <1>5 DEF Commit, TakesEffect, Answer, QuotaTypeOK, Rows
  <1>6. ASSUME NEW q \in Saves, Fail(q) PROVE Rows'
    BY <1>6 DEF Fail, TakesEffect, Answer, QuotaTypeOK, Rows
  <1>7. ASSUME NEW v, NEW a, UpdateAdminUser(v, a) PROVE Rows'
    BY <1>7 DEF UpdateAdminUser, Rows
  <1>8. CASE UNCHANGED quotaVars
    BY <1>8 DEF quotaVars, Rows
  <1> QED
    BY <1>2, <1>3, <1>4, <1>5, <1>6, <1>7, <1>8 DEF QuotaNext

(* Nothing but a prune decides, and an answer, once given, stays.          *)
LEMMA PrunedByPrune ==
  ASSUME QuotaInv, [QuotaNext]_quotaVars, NEW s \in Saves
  PROVE  /\ Committed(s) => Committed(s)'
         /\ Pruned(s)' => Pruned(s) \/ Prune(s)
  <1> USE DEF QuotaInv, posted, user, Committed, Pruned
  <1>2. ASSUME NEW q \in Saves, ReadQuota(q)
        PROVE  (Committed(s) => Committed(s)') /\ (Pruned(s)' => Pruned(s))
    BY <1>2 DEF ReadQuota, Answer, QuotaTypeOK, Rows
  <1>3. ASSUME NEW q \in Saves, Insert(q)
        PROVE  (Committed(s) => Committed(s)') /\ (Pruned(s)' => Pruned(s))
    BY <1>3 DEF Insert, QuotaTypeOK
  <1>4. ASSUME NEW q \in Saves, Prune(q)
        PROVE  /\ Committed(s) => Committed(s)'
               /\ Pruned(s)' => Pruned(s) \/ s = q
    BY <1>4 DEF Prune, QuotaTypeOK
  <1>5. ASSUME NEW q \in Saves, Commit(q)
        PROVE  (Committed(s) => Committed(s)') /\ (Pruned(s)' => Pruned(s))
    BY <1>5 DEF Commit, Answer, QuotaTypeOK
  <1>6. ASSUME NEW q \in Saves, Fail(q)
        PROVE  (Committed(s) => Committed(s)') /\ (Pruned(s)' => Pruned(s))
    BY <1>6 DEF Fail, TakesEffect, Answer, QuotaTypeOK, Rows
  <1>7. ASSUME NEW v, NEW a, UpdateAdminUser(v, a)
        PROVE  (Committed(s) => Committed(s)') /\ (Pruned(s)' => Pruned(s))
    BY <1>7 DEF UpdateAdminUser
  <1>8. CASE UNCHANGED quotaVars
    BY <1>8 DEF quotaVars
  <1> QED
    BY <1>2, <1>3, <1>4, <1>5, <1>6, <1>7, <1>8 DEF QuotaNext

LEMMA PrunesAreRightStep ==
  ASSUME QuotaInv, [QuotaNext]_quotaVars
  PROVE  PrunesAreRight'
  <1> DEFINE Right(s) == \A t \in doomed[s] : Seen(s, t) /\ Picks(s, t)
  <1>1. ASSUME NEW s \in Saves, Pruned(s) PROVE Right(s)'
    <2>1. QuotaKept(s) /\ Right(s)
      BY <1>1, StepKeeps DEF QuotaInv, PrunesAreRight
    <2>2. doomed'[s] = doomed[s] /\ doomed[s] \subseteq Saves
      BY <2>1 DEF QuotaKept, QuotaInv, QuotaTypeOK
    <2>3. ASSUME NEW t \in doomed[s] PROVE Seen(s, t)' /\ Picks(s, t)'
      BY <1>1, <2>1, <2>2, PickStays
    <2> QED
      BY <2>2, <2>3
  <1>2. ASSUME NEW s \in Saves, Prune(s) PROVE Right(s)'
    <2>1. PICK visible : visible = rows \cup {s}
      OBVIOUS
    <2>2. /\ doomed'[s] = {t \in visible : RunningBytes(t, visible) > quota[s]}
          /\ UNCHANGED <<size, stamp, quota, reply>> /\ stage[s] = "inserted"
      BY <1>2, <2>1 DEF Prune, QuotaInv, QuotaTypeOK, posted
    <2>3. \A x \in visible : x \in Saves /\ Seen(s, x) /\ stamp[x] \in Nat /\ stamp[x] > 0
      BY <2>1, <2>2 DEF QuotaInv, Rows, Stamps, Seen, QuotaTypeOK
    <2>4. ASSUME NEW t \in visible, RunningBytes(t, visible) > quota[s] PROVE Picks(s, t)
      <3>1. size[t] \in Nat
        BY <2>3, QuotasPositive DEF QuotaInv, QuotaTypeOK
      <3>2. CASE \E x \in visible : stamp[x] > stamp[t]
        BY <2>3, <3>2 DEF Picks
      <3>3. CASE ~ \E x \in visible : stamp[x] > stamp[t]
        <4>1. \A x \in visible : x # t => stamp[x] < stamp[t]
          BY <2>3, <3>3 DEF QuotaInv, Stamps
        <4>2. RunningBytes(t, visible) = size[t]
          BY <2>3, <3>1, <4>1, NewestAlone
        <4> QED
          BY <2>4, <4>2 DEF Picks
      <3> QED
        BY <3>2, <3>3
    <2>5. \A t \in doomed'[s] : Seen(s, t) /\ Picks(s, t)
      BY <2>2, <2>3, <2>4
    <2> QED
      BY <2>2, <2>5 DEF Seen, Picks, Committed
  <1>3. \A s \in Saves : Pruned(s)' => Right(s)'
    BY <1>1, <1>2, PrunedByPrune
  <1> QED
    BY <1>3 DEF PrunesAreRight

(* A committed row disappears by a commit whose prune picked it, be its    *)
(* answer lost or not.                                                     *)
LEMMA GoneByCommit ==
  ASSUME QuotaInv, [QuotaNext]_quotaVars, NEW t \in Saves, Committed(t)', t \notin rows',
         t \in rows \/ ~ Committed(t)
  PROVE  \E q \in Saves : stage[q] = "pruned" /\ Committed(q)' /\ t \in doomed[q]
  <1> USE DEF QuotaInv, posted, user, Committed
  <1>2. ASSUME NEW q \in Saves, ReadQuota(q) PROVE FALSE
    BY <1>2 DEF ReadQuota, Answer, QuotaTypeOK
  <1>3. ASSUME NEW q \in Saves, Insert(q) PROVE FALSE
    BY <1>3 DEF Insert
  <1>4. ASSUME NEW q \in Saves, Prune(q) PROVE FALSE
    BY <1>4 DEF Prune
  <1>5. ASSUME NEW q \in Saves, Commit(q) PROVE stage[q] = "pruned" /\ Committed(q)' /\ t \in doomed[q]
    BY <1>5 DEF Commit, TakesEffect, Answer, QuotaTypeOK
  <1>6. ASSUME NEW q \in Saves, Fail(q) PROVE stage[q] = "pruned" /\ Committed(q)' /\ t \in doomed[q]
    <2>1. CASE Answer(q, "error") /\ UNCHANGED rows
      BY <1>6, <2>1 DEF Answer, QuotaTypeOK
    <2>2. CASE stage[q] = "pruned" /\ Answer(q, "lost") /\ TakesEffect(q)
      BY <1>6, <2>2 DEF TakesEffect, Answer, QuotaTypeOK
    <2> QED
      BY <1>6, <2>1, <2>2 DEF Fail
  <1>7. ASSUME NEW v, NEW a, UpdateAdminUser(v, a) PROVE FALSE
    BY <1>7 DEF UpdateAdminUser
  <1>8. CASE UNCHANGED quotaVars
    BY <1>8 DEF quotaVars
  <1> QED
    BY <1>2, <1>3, <1>4, <1>5, <1>6, <1>7, <1>8 DEF QuotaNext

LEMMA GoneForCauseStep ==
  ASSUME QuotaInv, [QuotaNext]_quotaVars
  PROVE  GoneForCause'
  <1>1. ASSUME NEW t \in Saves, Committed(t), NEW s \in Saves, Committed(s), Picks(s, t) PROVE Committed(s)' /\ Picks(s, t)'
    <2>1. Pruned(s) /\ QuotaKept(s) /\ Seen(s, t)
      BY <1>1, StepKeeps DEF Pruned, Seen
    <2> QED
      BY <1>1, <2>1, PickStays DEF QuotaKept
  <1>2. ASSUME NEW t \in Saves, NEW s \in Saves, stage[s] = "pruned", t \in doomed[s] PROVE Picks(s, t)'
    <2>1. Pruned(s) /\ QuotaKept(s)
      BY <1>2, StepKeeps DEF Pruned
    <2>2. Seen(s, t) /\ Picks(s, t)
      BY <1>2, <2>1 DEF QuotaInv, PrunesAreRight
    <2> QED
      BY <2>1, <2>2, PickStays
  <1>3. ASSUME NEW t \in Saves, Committed(t)', t \notin rows' PROVE \E s \in Saves : Committed(s)' /\ Picks(s, t)'
    <2>1. CASE Committed(t) /\ t \notin rows
      <3>1. PICK s \in Saves : Committed(s) /\ Picks(s, t)
        BY <2>1 DEF QuotaInv, GoneForCause
      <3> QED
        BY <1>1, <2>1, <3>1
    <2>2. CASE t \in rows \/ ~ Committed(t)
      BY <1>2, <1>3, <2>2, GoneByCommit
    <2> QED
      BY <2>1, <2>2
  <1> QED
    BY <1>3 DEF GoneForCause

LEMMA QuotaInvariance == QuotaSpec => []QuotaInv
  <1>1. QuotaInv /\ [QuotaNext]_quotaVars => QuotaInv'
    BY QuotaTypeStep, StampsStep, RowsStep, PrunesAreRightStep, GoneForCauseStep DEF QuotaInv
  <1> QED
    BY QuotaInitHolds, <1>1, PTL DEF QuotaSpec

-----------------------------------------------------------------------------
(* Theorems *)

(* The newest snapshot is what a client of its kind gets back, unless a    *)
(* save read a quota which is too small for that one snapshot.             *)
THEOREM NewestStays == QuotaSpec => []NewestSurvives
  <1>1. ASSUME QuotaInv, NEW t \in Saves, Committed(t),
               \A x \in Saves : Committed(x) => stamp[x] <= stamp[t]
        PROVE  \/ Latest(snapKind[t]) = {t}
               \/ \E s \in Saves : Committed(s) /\ quota[s] < size[t]
    <2>0. \A x \in Saves : stamp[x] \in Nat
      BY <1>1 DEF QuotaInv, QuotaTypeOK
    <2>1. \A x \in Saves : Committed(x) /\ stamp[x] >= stamp[t] => x = t
      BY <1>1, <2>0 DEF QuotaInv, Stamps
    <2>2. CASE t \in rows
      <3>1. rows \subseteq Saves /\ \A x \in rows : Committed(x)
        BY <1>1 DEF QuotaInv, Rows, QuotaTypeOK
      <3>2. \A x \in rows : stamp[x] <= stamp[t]
        BY <1>1, <3>1
      <3>3. t \in Latest(snapKind[t])
        BY <2>2, <3>2 DEF Latest
      <3>4. \A x \in Latest(snapKind[t]) : x \in rows /\ stamp[t] <= stamp[x]
        BY <2>2 DEF Latest
      <3> QED
        BY <2>0, <2>1, <3>1, <3>3, <3>4
    <2>3. CASE t \notin rows
      <3>1. PICK s \in Saves : Committed(s) /\ Picks(s, t)
        BY <1>1, <2>3 DEF QuotaInv, GoneForCause
      <3>2. \A x \in Saves : Seen(s, x) => stamp[x] <= stamp[t]
        BY <1>1, <3>1 DEF Seen
      <3>4. size[t] \in Nat
        BY <1>1, QuotasPositive DEF QuotaInv, QuotaTypeOK
      <3>6. size[t] > quota[s]
        BY <2>0, <3>1, <3>2 DEF Picks
      <3>7. quota[s] \in Nat
        <4>1. quota[s] \in Overrides \cup {0, DefaultQuota, AdminQuota}
          BY <1>1 DEF QuotaInv, QuotaTypeOK
        <4>2. \A v \in Overrides : v \in Nat
          BY QuotasPositive
        <4>3. DefaultQuota \in Nat /\ AdminQuota \in Nat /\ 0 \in Nat
          BY QuotasPositive
        <4> QED
          BY <4>1, <4>2, <4>3
      <3> QED
        BY <3>1, <3>4, <3>6, <3>7
    <2> QED
      BY <2>2, <2>3
  <1>2. QuotaInv => NewestSurvives
    BY <1>1 DEF NewestSurvives
  <1> QED
    BY <1>2, QuotaInvariance, PTL

-----------------------------------------------------------------------------
(* The OCR engines, which the pipeline runs as commands like Codex.        *)

CONSTANTS Commands, Dirs, EngineIds, Engines, OnGpu

VARIABLES asked, reported, inputs, temps, text, exit, got

OC == INSTANCE Ocr WITH reply <- reported

(* There are engines, and None is no command, directory or engine.         *)
Registry ==
    /\ Engines \in [BOOLEAN -> Seq(EngineIds)] /\ \A gpu \in BOOLEAN : Len(Engines[gpu]) > 0
    /\ None \notin Commands \cup Dirs \cup EngineIds /\ Commands \cap Dirs = {}

Working == {"input", "output", "run", "parse", "compare", "leaving", "left"}

OcrTypeOK ==
    /\ asked \in [Commands -> OC!Options \cup {OC!NoOptions}]
    /\ pc \in [Commands -> {"idle", "done", "dead"} \cup Working]
    /\ reported \in [Commands -> {"none", "ok", "error"}]
    /\ inputs \in SUBSET Commands /\ temps \in SUBSET Commands
    /\ text \in [(Dirs \cup Commands) \X (EngineIds \cup {None}) -> Commands \cup {None}]
    /\ exit \in [Commands -> BOOLEAN] /\ got \in [Commands -> Seq(OC!Result)]

(* Where a command stands, and what it has by then.                        *)
Stands(c) ==
    /\ pc[c] = "idle" => asked[c] = OC!NoOptions /\ c \notin inputs /\ c \notin temps /\ reported[c] = "none" /\ got[c] = <<>>
    /\ pc[c] \in Working => asked[c] \in OC!Options
    /\ pc[c] = "done" => c \notin inputs
    /\ asked[c].all => asked[c].out # None \/ asked[c].keep
    /\ pc[c] \in {"left", "done"} => (c \in temps => asked[c].keep)
    /\ pc[c] \in {"run", "parse", "compare"} => (asked[c].out = None => c \in temps)
    /\ pc[c] \in {"input", "output", "run", "parse", "compare"} => reported[c] = "none"
    /\ reported[c] = "ok" /\ asked[c].out = None /\ (asked[c].keep \/ pc[c] = "leaving") => c \in temps

(* How far its engines have come.                                          *)
Reports(c) ==
    /\ \A n \in 1..Len(got[c]) : n <= Len(OC!Plan(c)) /\ got[c][n].engine = OC!Plan(c)[n]
    /\ asked[c].gpu => \A n \in 1..Len(got[c]) : got[c][n].engine \in OnGpu
    /\ pc[c] = "parse" /\ asked[c].gpu => OC!Current(c) \in OnGpu
    /\ pc[c] \in {"input", "output"} => got[c] = <<>>
    /\ pc[c] \in {"run", "parse"} => Len(got[c]) < Len(OC!Plan(c))
    /\ pc[c] = "compare" \/ reported[c] = "ok" => Len(got[c]) = Len(OC!Plan(c))

(* A command's own directory has nothing of another command.               *)
Owns(c) ==
    /\ \A e \in EngineIds \cup {None} : text[<<c, e>>] \in {None, c}
    /\ asked[c].out = None => \A n \in 1..Len(got[c]) : got[c][n].text \in {None, c}

OcrInv == OcrTypeOK /\ \A c \in Commands : Stands(c) /\ Reports(c) /\ Owns(c)

LEMMA OcrInit == ASSUME Registry PROVE OC!Init => OcrInv
  <1> SUFFICES ASSUME OC!Init PROVE OcrInv
    OBVIOUS
  <1>1. OcrTypeOK
    BY DEF OC!Init, OcrTypeOK
  <1>2. ASSUME NEW c \in Commands PROVE Stands(c)
    BY DEF OC!Init, Stands, OC!NoOptions, Working
  <1>3. ASSUME NEW c \in Commands PROVE Reports(c)
    BY DEF OC!Init, Reports
  <1>4. ASSUME NEW c \in Commands PROVE Owns(c)
    BY DEF OC!Init, Owns
  <1> QED
    BY <1>1, <1>2, <1>3, <1>4 DEF OcrInv

(* The engine whose turn it is, and its directory.                         *)
LEMMA PlanOf ==
    ASSUME Registry, OcrTypeOK, NEW c \in Commands, asked[c] \in OC!Options
    PROVE  /\ OC!Plan(c) \in Seq(EngineIds) /\ Len(OC!Plan(c)) \in Nat \ {0} /\ Len(got[c]) \in Nat
           /\ Len(got[c]) < Len(OC!Plan(c)) => /\ OC!Current(c) \in EngineIds
                                            /\ OC!Place(c) \in (Dirs \cup Commands) \X (EngineIds \cup {None})
           /\ OC!BaseDir(c) \in Dirs \cup {c} /\ (OC!BaseDir(c) = c <=> asked[c].out = None)
  <1>1. OC!Plan(c) \in Seq(EngineIds) /\ Len(OC!Plan(c)) \in Nat \ {0}
    BY DEF OC!Plan, OC!Options, Registry
  <1>2. got[c] \in Seq(OC!Result) /\ Len(got[c]) \in Nat
    BY DEF OcrTypeOK
  <1>3. OC!BaseDir(c) \in Dirs \cup {c} /\ (OC!BaseDir(c) = c <=> asked[c].out = None)
    BY DEF OC!BaseDir, OC!Options, Registry
  <1>4. Len(got[c]) < Len(OC!Plan(c)) => OC!Current(c) \in EngineIds
    BY <1>1, <1>2 DEF OC!Current
  <1> QED
    BY <1>1, <1>2, <1>3, <1>4 DEF OC!Place

(* A step of a command changes nothing of the others.                      *)
LEMMA Others ==
    ASSUME OcrTypeOK, NEW c \in Commands, NEW d \in Commands, d # c, OC!Step(c)
    PROVE  /\ asked'[d] = asked[d] /\ pc'[d] = pc[d] /\ reported'[d] = reported[d] /\ got'[d] = got[d]
           /\ (d \in inputs' <=> d \in inputs) /\ (d \in temps' <=> d \in temps)
  <1> DEFINE Same == /\ asked'[d] = asked[d] /\ pc'[d] = pc[d] /\ reported'[d] = reported[d] /\ got'[d] = got[d]
                   /\ (d \in inputs' <=> d \in inputs) /\ (d \in temps' <=> d \in temps)
  <1> SUFFICES Same
    OBVIOUS
  <1>1. CASE OC!Refuse(c)
    BY <1>1 DEF OC!Refuse, OcrTypeOK, OC!Goes, OC!Ends
  <1>2. CASE OC!WriteInput(c)
    BY <1>2 DEF OC!WriteInput, OcrTypeOK, OC!Goes, OC!Ends
  <1>3. CASE OC!MakeOutput(c)
    BY <1>3 DEF OC!MakeOutput, OcrTypeOK, OC!Goes, OC!Ends
  <1>4. CASE OC!Fail(c)
    BY <1>4 DEF OC!Fail, OcrTypeOK, OC!Goes, OC!Ends
  <1>5. CASE OC!ParseOutput(c)
    BY <1>5 DEF OC!ParseOutput, OcrTypeOK, OC!Goes, OC!Ends
  <1>6. CASE OC!WriteComparison(c)
    BY <1>6 DEF OC!WriteComparison, OcrTypeOK, OC!Goes, OC!Ends
  <1>7. CASE OC!RemoveOutput(c)
    BY <1>7 DEF OC!RemoveOutput, OcrTypeOK, OC!Goes, OC!Ends
  <1>8. CASE OC!RemoveInput(c)
    BY <1>8 DEF OC!RemoveInput, OcrTypeOK, OC!Goes, OC!Ends
  <1>9. CASE OC!Die(c)
    BY <1>9 DEF OC!Die, OcrTypeOK, OC!Goes, OC!Ends
  <1>10. ASSUME NEW o \in OC!Options, OC!Start(c, o) PROVE Same
    BY <1>10 DEF OC!Start, OcrTypeOK, OC!Goes, OC!Ends
  <1>11. ASSUME NEW success \in BOOLEAN, NEW wrote \in BOOLEAN, OC!Execute(c, success, wrote) PROVE Same
    BY <1>11 DEF OC!Execute, OcrTypeOK, OC!Goes, OC!Ends
  <1> QED
    BY <1>1, <1>2, <1>3, <1>4, <1>5, <1>6, <1>7, <1>8, <1>9, <1>10, <1>11 DEF OC!Step


(* Types, and where the command stands after its step.                     *)
LEMMA OcrTypeStep ==
    ASSUME Registry, OcrInv, NEW c \in Commands, OC!Step(c)
    PROVE  OcrTypeOK'
  <1> USE DEF OcrTypeOK, Working
  <1>0. OcrTypeOK /\ Stands(c) /\ Reports(c)
    BY DEF OcrInv
  <1>1. CASE OC!Refuse(c)
    BY <1>1, <1>0 DEF OC!Refuse, OC!Goes, OC!Ends
  <1>2. CASE OC!WriteInput(c)
    BY <1>2, <1>0 DEF OC!WriteInput, OC!Goes, OC!Ends
  <1>3. CASE OC!MakeOutput(c)
    BY <1>3, <1>0 DEF OC!MakeOutput, OC!Goes, OC!Ends
  <1>4. CASE OC!Fail(c)
    BY <1>4, <1>0 DEF OC!Fail, OC!Goes, OC!Ends
  <1>5. CASE OC!ParseOutput(c)
    <2>1. asked[c] \in OC!Options /\ Len(got[c]) < Len(OC!Plan(c))
      BY <1>5, <1>0 DEF OC!ParseOutput, Stands, Reports
    <2>2. OC!Report(c) \in OC!Result
      BY <1>0, <2>1, PlanOf DEF OC!Report, OC!Result
    <2>3. got' \in [Commands -> Seq(OC!Result)]
      BY <1>5, <1>0, <2>2 DEF OC!ParseOutput
    <2>4. pc' \in [Commands -> {"idle", "done", "dead"} \cup Working] /\ reported' \in [Commands -> {"none", "ok", "error"}]
      BY <1>5, <1>0 DEF OC!ParseOutput, OC!Goes, OC!Ends
    <2> QED
      BY <1>5, <1>0, <2>3, <2>4 DEF OC!ParseOutput
  <1>6. CASE OC!WriteComparison(c)
    BY <1>6, <1>0 DEF OC!WriteComparison, OC!Goes, OC!Ends
  <1>7. CASE OC!RemoveOutput(c)
    BY <1>7, <1>0 DEF OC!RemoveOutput, OC!Goes, OC!Ends
  <1>8. CASE OC!RemoveInput(c)
    BY <1>8, <1>0 DEF OC!RemoveInput, OC!Goes, OC!Ends
  <1>9. CASE OC!Die(c)
    BY <1>9, <1>0 DEF OC!Die, OC!Goes, OC!Ends
  <1>10. ASSUME NEW o \in OC!Options, OC!Start(c, o) PROVE OcrTypeOK'
    BY <1>10, <1>0 DEF OC!Start, OC!Goes, OC!Ends
  <1>11. ASSUME NEW success \in BOOLEAN, NEW wrote \in BOOLEAN, OC!Execute(c, success, wrote) PROVE OcrTypeOK'
    BY <1>11, <1>0, PlanOf DEF OC!Execute, OC!Goes, OC!Ends, Stands, Reports
  <1> QED
    BY <1>1, <1>2, <1>3, <1>4, <1>5, <1>6, <1>7, <1>8, <1>9, <1>10, <1>11 DEF OC!Step

LEMMA StandsStep ==
    ASSUME Registry, OcrInv, NEW c \in Commands, OC!Step(c)
    PROVE  Stands(c)'
  <1> USE DEF OcrTypeOK, Working, Stands
  <1>0. OcrTypeOK /\ Stands(c)
    BY DEF OcrInv
  <1>1. CASE OC!Refuse(c)
    BY <1>1, <1>0 DEF OC!Refuse, OC!Goes, OC!Ends
  <1>2. CASE OC!WriteInput(c)
    BY <1>2, <1>0 DEF OC!WriteInput, OC!Goes, OC!Ends
  <1>3. CASE OC!MakeOutput(c)
    BY <1>3, <1>0 DEF OC!MakeOutput, OC!Goes, OC!Ends
  <1>4. CASE OC!Fail(c)
    BY <1>4, <1>0 DEF OC!Fail, OC!Goes, OC!Ends
  <1>5. CASE OC!ParseOutput(c)
    BY <1>5, <1>0 DEF OC!ParseOutput, OC!Goes, OC!Ends
  <1>6. CASE OC!WriteComparison(c)
    BY <1>6, <1>0 DEF OC!WriteComparison, OC!Goes, OC!Ends
  <1>7. CASE OC!RemoveOutput(c)
    BY <1>7, <1>0 DEF OC!RemoveOutput, OC!Goes, OC!Ends
  <1>8. CASE OC!RemoveInput(c)
    BY <1>8, <1>0 DEF OC!RemoveInput, OC!Goes, OC!Ends
  <1>9. CASE OC!Die(c)
    BY <1>9, <1>0 DEF OC!Die, OC!Goes, OC!Ends
  <1>10. ASSUME NEW o \in OC!Options, OC!Start(c, o) PROVE Stands(c)'
    BY <1>10, <1>0 DEF OC!Start, OC!Goes, OC!Ends, OC!Options
  <1>11. ASSUME NEW success \in BOOLEAN, NEW wrote \in BOOLEAN, OC!Execute(c, success, wrote) PROVE Stands(c)'
    BY <1>11, <1>0 DEF OC!Execute, OC!Goes, OC!Ends
  <1> QED
    BY <1>1, <1>2, <1>3, <1>4, <1>5, <1>6, <1>7, <1>8, <1>9, <1>10, <1>11 DEF OC!Step


(* An engine adds its result, and the last one ends the command.           *)
LEMMA ReportsStep ==
    ASSUME Registry, OcrInv, NEW c \in Commands, OC!Step(c)
    PROVE  Reports(c)'
  <1> USE DEF OcrTypeOK, Working, Reports
  <1>0. OcrTypeOK /\ Stands(c) /\ Reports(c)
    BY DEF OcrInv
  <1>1. CASE OC!Refuse(c)
    BY <1>1, <1>0 DEF OC!Refuse, OC!Goes, OC!Ends, OC!Plan, OC!Current
  <1>2. CASE OC!WriteInput(c)
    BY <1>2, <1>0 DEF OC!WriteInput, OC!Goes, OC!Ends, OC!Plan, OC!Current
  <1>3. CASE OC!MakeOutput(c)
    <2>1. asked[c] \in OC!Options /\ reported[c] = "none" /\ got[c] = <<>> /\ pc'[c] = "run"
      BY <1>3, <1>0 DEF OC!MakeOutput, OC!Goes, Stands
    <2>2. OC!Plan(c)' = OC!Plan(c) /\ got' = got /\ reported' = reported /\ asked' = asked
      BY <1>3 DEF OC!MakeOutput, OC!Plan
    <2>3. Len(got[c]) < Len(OC!Plan(c))
      BY <2>1, <1>0, PlanOf
    <2> QED
      BY <2>1, <2>2, <2>3
  <1>4. CASE OC!Fail(c)
    BY <1>4, <1>0 DEF OC!Fail, OC!Goes, OC!Ends, OC!Plan, OC!Current
  <1>5. CASE OC!ParseOutput(c)
    <2>1. asked[c] \in OC!Options /\ Len(got[c]) < Len(OC!Plan(c)) /\ asked' = asked /\ reported[c] = "none"
      BY <1>5, <1>0 DEF OC!ParseOutput, Stands
    <2>2. OC!Plan(c)' = OC!Plan(c) /\ got'[c] = Append(got[c], OC!Report(c)) /\ OC!Report(c).engine = OC!Plan(c)[Len(got[c]) + 1]
      BY <1>5, <1>0, <2>1 DEF OC!ParseOutput, OC!Plan, OC!Report, OC!Current
    <2>3. OC!Plan(c) \in Seq(EngineIds) /\ got[c] \in Seq(OC!Result) /\ OC!Report(c).engine = OC!Current(c)
      BY <1>0, <2>1, PlanOf DEF OC!Report
    <2>4. Len(got'[c]) = Len(got[c]) + 1 /\ got'[c][Len(got[c]) + 1] = OC!Report(c)
             /\ \A n \in 1..Len(got[c]) : got'[c][n] = got[c][n]
      BY <2>2, <2>3
    <2>5. \A n \in 1..Len(got'[c]) : n <= Len(OC!Plan(c)) /\ got'[c][n].engine = OC!Plan(c)[n]
      <3> TAKE n \in 1..Len(got'[c])
      <3>1. CASE n = Len(got[c]) + 1
        BY <3>1, <2>1, <2>2, <2>3, <2>4
      <3>2. CASE n \in 1..Len(got[c])
        BY <3>2, <1>0, <2>4
      <3> QED
        BY <3>1, <3>2, <2>3, <2>4
    <2>6. asked[c].gpu => \A n \in 1..Len(got'[c]) : got'[c][n].engine \in OnGpu
      <3> SUFFICES ASSUME asked[c].gpu, NEW n \in 1..Len(got'[c]) PROVE got'[c][n].engine \in OnGpu
        OBVIOUS
      <3>1. OC!Report(c).engine \in OnGpu
        BY <1>0, <1>5, <2>3 DEF OC!ParseOutput
      <3>2. n \in 1..Len(got[c]) \/ n = Len(got[c]) + 1
        BY <2>3, <2>4
      <3> QED
        BY <1>0, <2>4, <3>1, <3>2
    <2>7. /\ pc'[c] \notin {"input", "output", "parse"}
          /\ pc'[c] = "run" => Len(got[c]) + 1 < Len(OC!Plan(c))
          /\ pc'[c] = "compare" \/ reported'[c] = "ok" => ~(Len(got[c]) + 1 < Len(OC!Plan(c)))
      BY <1>0, <1>5, <2>1 DEF OC!ParseOutput, OC!Goes, OC!Ends
    <2> QED
      BY <2>1, <2>2, <2>3, <2>4, <2>5, <2>6, <2>7
  <1>6. CASE OC!WriteComparison(c)
    BY <1>6, <1>0 DEF OC!WriteComparison, OC!Goes, OC!Ends, OC!Plan, OC!Current
  <1>7. CASE OC!RemoveOutput(c)
    BY <1>7, <1>0 DEF OC!RemoveOutput, OC!Goes, OC!Ends, OC!Plan, OC!Current
  <1>8. CASE OC!RemoveInput(c)
    BY <1>8, <1>0 DEF OC!RemoveInput, OC!Goes, OC!Ends, OC!Plan, OC!Current
  <1>9. CASE OC!Die(c)
    BY <1>9, <1>0 DEF OC!Die, OC!Goes, OC!Ends, OC!Plan, OC!Current
  <1>10. ASSUME NEW o \in OC!Options, OC!Start(c, o) PROVE Reports(c)'
    BY <1>10, <1>0 DEF OC!Start, OC!Goes, OC!Ends, OC!Plan, OC!Current, Stands
  <1>11. ASSUME NEW success \in BOOLEAN, NEW wrote \in BOOLEAN, OC!Execute(c, success, wrote) PROVE Reports(c)'
    BY <1>11, <1>0 DEF OC!Execute, OC!Goes, OC!Ends, OC!Plan, OC!Current
  <1> QED
    BY <1>1, <1>2, <1>3, <1>4, <1>5, <1>6, <1>7, <1>8, <1>9, <1>10, <1>11 DEF OC!Step

(* What a step writes, and what becomes of the results.                    *)
LEMMA Writes ==
    ASSUME NEW c \in Commands, OC!Step(c)
    PROVE  text' = text \/ (pc[c] = "run" /\ text' = [text EXCEPT ![OC!Place(c)] = c])
  <1> DEFINE W == text' = text \/ (pc[c] = "run" /\ text' = [text EXCEPT ![OC!Place(c)] = c])
  <1> SUFFICES W
    OBVIOUS
  <1>1. CASE OC!Refuse(c)
    BY <1>1 DEF OC!Refuse
  <1>2. CASE OC!WriteInput(c)
    BY <1>2 DEF OC!WriteInput
  <1>3. CASE OC!MakeOutput(c)
    BY <1>3 DEF OC!MakeOutput
  <1>4. CASE OC!Fail(c)
    BY <1>4 DEF OC!Fail
  <1>5. CASE OC!ParseOutput(c)
    BY <1>5 DEF OC!ParseOutput
  <1>6. CASE OC!WriteComparison(c)
    BY <1>6 DEF OC!WriteComparison
  <1>7. CASE OC!RemoveOutput(c)
    BY <1>7 DEF OC!RemoveOutput
  <1>8. CASE OC!RemoveInput(c)
    BY <1>8 DEF OC!RemoveInput
  <1>9. CASE OC!Die(c)
    BY <1>9 DEF OC!Die
  <1>10. ASSUME NEW o \in OC!Options, OC!Start(c, o) PROVE W
    BY <1>10 DEF OC!Start
  <1>11. ASSUME NEW success \in BOOLEAN, NEW wrote \in BOOLEAN, OC!Execute(c, success, wrote) PROVE W
    BY <1>11 DEF OC!Execute
  <1> QED
    BY <1>1, <1>2, <1>3, <1>4, <1>5, <1>6, <1>7, <1>8, <1>9, <1>10, <1>11 DEF OC!Step

LEMMA Keeps ==
    ASSUME OcrInv, NEW c \in Commands, OC!Step(c)
    PROVE  (got' = got /\ asked' = asked) \/ (got' = got /\ got[c] = <<>>) \/ OC!ParseOutput(c)
  <1> DEFINE K == (got' = got /\ asked' = asked) \/ (got' = got /\ got[c] = <<>>) \/ OC!ParseOutput(c)
  <1> SUFFICES K
    OBVIOUS
  <1>1. CASE OC!Refuse(c)
    BY <1>1 DEF OC!Refuse
  <1>2. CASE OC!WriteInput(c)
    BY <1>2 DEF OC!WriteInput
  <1>3. CASE OC!MakeOutput(c)
    BY <1>3 DEF OC!MakeOutput
  <1>4. CASE OC!Fail(c)
    BY <1>4 DEF OC!Fail
  <1>5. CASE OC!ParseOutput(c)
    BY <1>5 DEF OC!ParseOutput
  <1>6. CASE OC!WriteComparison(c)
    BY <1>6 DEF OC!WriteComparison
  <1>7. CASE OC!RemoveOutput(c)
    BY <1>7 DEF OC!RemoveOutput
  <1>8. CASE OC!RemoveInput(c)
    BY <1>8 DEF OC!RemoveInput
  <1>9. CASE OC!Die(c)
    BY <1>9 DEF OC!Die
  <1>10. ASSUME NEW o \in OC!Options, OC!Start(c, o) PROVE K
    BY <1>10 DEF OC!Start, OcrInv, Stands
  <1>11. ASSUME NEW success \in BOOLEAN, NEW wrote \in BOOLEAN, OC!Execute(c, success, wrote) PROVE K
    BY <1>11 DEF OC!Execute
  <1> QED
    BY <1>1, <1>2, <1>3, <1>4, <1>5, <1>6, <1>7, <1>8, <1>9, <1>10, <1>11 DEF OC!Step

(* Only a command itself writes into its own directory.                    *)
LEMMA OwnsStep ==
    ASSUME Registry, OcrInv, NEW c \in Commands, OC!Step(c), NEW d \in Commands
    PROVE  Owns(d)'
  <1>0. OcrTypeOK /\ Stands(c) /\ Reports(c) /\ Owns(c) /\ Owns(d)
    BY DEF OcrInv
  <1>1. text' = text \/ (pc[c] = "run" /\ text' = [text EXCEPT ![OC!Place(c)] = c])
    BY Writes
  <1>2. ASSUME NEW e \in EngineIds \cup {None} PROVE text'[<<d, e>>] \in {None, d}
    <2>1. CASE text' = text
      BY <2>1, <1>0 DEF Owns
    <2>2. CASE pc[c] = "run" /\ text' = [text EXCEPT ![OC!Place(c)] = c]
      <3>1. asked[c] \in OC!Options /\ Len(got[c]) < Len(OC!Plan(c))
        BY <2>2, <1>0 DEF Stands, Reports, Working
      <3>2. OC!BaseDir(c) \in Dirs \cup {c}
        BY <3>1, <1>0, PlanOf
      <3>3. OC!Place(c) = <<d, e>> => d = c
        BY <3>2 DEF OC!Place, Registry
      <3> QED
        BY <2>2, <3>3, <1>0 DEF OcrTypeOK, Owns
    <2> QED
      BY <1>1, <2>1, <2>2
  <1>3. (got'[d] = got[d] /\ asked'[d].out = asked[d].out) \/ got'[d] = <<>> \/ (d = c /\ OC!ParseOutput(c))
    <2>1. CASE got' = got /\ asked' = asked
      BY <2>1
    <2>2. CASE got' = got /\ got[c] = <<>>
      BY <2>2, Others, <1>0
    <2>3. CASE OC!ParseOutput(c)
      BY <2>3, Others, <1>0
    <2> QED
      BY Keeps, <2>1, <2>2, <2>3
  <1>4. asked'[d].out = None => \A n \in 1..Len(got'[d]) : got'[d][n].text \in {None, d}
    <2>1. CASE got'[d] = got[d] /\ asked'[d].out = asked[d].out
      BY <2>1, <1>0 DEF Owns
    <2>2. CASE got'[d] = <<>>
      BY <2>2
    <2>3. CASE d = c /\ OC!ParseOutput(c)
      <3>1. asked[c] \in OC!Options /\ Len(got[c]) < Len(OC!Plan(c)) /\ asked' = asked
        BY <2>3, <1>0 DEF OC!ParseOutput, Stands, Reports, Working
      <3>2. got'[c] = Append(got[c], OC!Report(c)) /\ got[c] \in Seq(OC!Result)
        BY <2>3, <1>0 DEF OC!ParseOutput, OcrTypeOK
      <3>3. OC!Current(c) \in EngineIds /\ (OC!BaseDir(c) = c <=> asked[c].out = None)
        BY <3>1, <1>0, PlanOf
      <3>4. asked[c].out = None => OC!Report(c).text \in {None, c}
        BY <3>3, <1>0 DEF OC!Report, OC!Place, Owns
      <3> QED
        BY <2>3, <3>1, <3>2, <3>4, <1>0 DEF Owns
    <2> QED
      BY <1>3, <2>1, <2>2, <2>3
  <1> QED
    BY <1>2, <1>4 DEF Owns

LEMMA OcrInvariance == ASSUME Registry PROVE OC!Spec => []OcrInv
  <1>1. OC!Init => OcrInv
    BY OcrInit
  <1>2. ASSUME OcrInv, [OC!Next]_(OC!vars) PROVE OcrInv'
    <2>1. CASE UNCHANGED OC!vars
      <3>1. OcrTypeOK'
        BY <1>2, <2>1 DEF OcrInv, OcrTypeOK, OC!vars
      <3>2. ASSUME NEW d \in Commands PROVE Stands(d)' /\ Reports(d)' /\ Owns(d)'
        <4>1. Stands(d) /\ Reports(d) /\ Owns(d)
          BY <1>2 DEF OcrInv
        <4>2. Stands(d)'
          BY <4>1, <2>1 DEF Stands, OC!vars
        <4>3. Reports(d)'
          BY <4>1, <2>1 DEF Reports, OC!Plan, OC!Current, OC!vars
        <4>4. Owns(d)'
          BY <4>1, <2>1 DEF Owns, OC!vars
        <4> QED
          BY <4>2, <4>3, <4>4
      <3> QED
        BY <3>1, <3>2 DEF OcrInv
    <2>2. ASSUME NEW c \in Commands, OC!Step(c) PROVE OcrInv'
      <3>1. OcrTypeOK' /\ Stands(c)' /\ Reports(c)'
        BY <1>2, <2>2, OcrTypeStep, StandsStep, ReportsStep
      <3>2. ASSUME NEW d \in Commands, d # c PROVE Stands(d)' /\ Reports(d)'
        <4>1. /\ asked'[d] = asked[d] /\ pc'[d] = pc[d] /\ reported'[d] = reported[d] /\ got'[d] = got[d]
              /\ (d \in inputs' <=> d \in inputs) /\ (d \in temps' <=> d \in temps)
          BY <1>2, <2>2, <3>2, Others DEF OcrInv
        <4>2. Stands(d) /\ Reports(d)
          BY <1>2 DEF OcrInv
        <4>3. Stands(d)'
          BY <4>1, <4>2 DEF Stands
        <4>4. OC!Plan(d)' = OC!Plan(d) /\ OC!Current(d)' = OC!Current(d)
          BY <4>1 DEF OC!Plan, OC!Current
        <4>5. Reports(d)'
          BY <4>1, <4>2, <4>4 DEF Reports
        <4> QED
          BY <4>3, <4>5
      <3>3. ASSUME NEW d \in Commands PROVE Owns(d)'
        BY <1>2, <2>2, OwnsStep
      <3> QED
        BY <3>1, <3>2, <3>3 DEF OcrInv
    <2> QED
      BY <1>2, <2>1, <2>2 DEF OC!Next
  <1> QED
    BY <1>1, <1>2, PTL DEF OC!Spec

(* A command that has ended has left no input behind, and an output only   *)
(* if it was to be kept: the deferred calls of Run.                        *)
THEOREM LeavesNothing == ASSUME Registry PROVE OC!Spec => []OC!NothingIsLeft
  <1>1. OcrInv => OC!NothingIsLeft
    BY DEF OcrInv, Stands, OC!NothingIsLeft
  <1> QED
    BY <1>1, OcrInvariance, PTL

(* The directories the results of all engines name outlive the command,    *)
(* which is why Run asks for an output directory or for keeping one.       *)
THEOREM ResultsStay == ASSUME Registry PROVE OC!Spec => []OC!ResultsOutlive
  <1>1. OcrInv => OC!ResultsOutlive
    BY DEF OcrInv, OcrTypeOK, Stands, OC!ResultsOutlive
  <1> QED
    BY <1>1, OcrInvariance, PTL

(* In a directory of its own a command reports only what it wrote.         *)
THEOREM TextsAreOwn == ASSUME Registry PROVE OC!Spec => []OC!OwnText
  <1>1. OcrInv => OC!OwnText
    BY DEF OcrInv, Owns, OC!OwnText
  <1> QED
    BY <1>1, OcrInvariance, PTL

(* A command that succeeds has a result of each engine it was to run, in   *)
(* the order of the registry, also when engines have failed on the way.    *)
THEOREM AllReport == ASSUME Registry PROVE OC!Spec => []OC!EveryEngineReports
  <1>1. OcrInv => OC!EveryEngineReports
    BY DEF OcrInv, Reports, OC!EveryEngineReports
  <1> QED
    BY <1>1, OcrInvariance, PTL

(* If one engine of "all" does not run on a GPU, "all" never succeeds on   *)
(* one: runAll gives up at the first engine that refuses.                  *)
THEOREM AllNeedsTheCpu ==
    ASSUME Registry, NEW k \in 1..Len(Engines[TRUE]), Engines[TRUE][k] \notin OnGpu
    PROVE  OC!Spec => []OC!AllFailOnGpu
  <1>1. ASSUME OcrInv, NEW c \in Commands, asked[c].all, asked[c].gpu, reported[c] = "ok" PROVE FALSE
    <2>1. Reports(c) /\ OcrTypeOK
      BY <1>1 DEF OcrInv
    <2>2. asked[c].gpu = TRUE
      BY <1>1, <2>1 DEF OcrTypeOK, OC!Options, OC!NoOptions
    <2>3. OC!Plan(c) = Engines[TRUE] /\ Len(got[c]) = Len(OC!Plan(c))
      BY <1>1, <2>1, <2>2 DEF OC!Plan, Reports
    <2>4. k \in 1..Len(got[c]) /\ got[c][k].engine = OC!Plan(c)[k] /\ got[c][k].engine \in OnGpu
      BY <1>1, <2>1, <2>3 DEF Reports
    <2> QED
      BY <2>3, <2>4
  <1>2. OcrInv => OC!AllFailOnGpu
    BY <1>1 DEF OC!AllFailOnGpu
  <1> QED
    BY <1>2, OcrInvariance, PTL

=============================================================================
