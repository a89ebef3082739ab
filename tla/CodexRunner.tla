---------------------------- MODULE CodexRunner ----------------------------
(***************************************************************************)
(* pkg/studypipeline/artifacts.go, codex_chat.go and api/codex.go: what    *)
(* Codex does for one user.  Every call runs a container over the user's   *)
(* directory, in which the answer of the last call with the same prefix    *)
(* and model, the schema of the last chat and the sign-in of the user are  *)
(* kept; nothing but the claim of a sign-in keeps two calls apart.         *)
(*                                                                         *)
(* A container is driven by a docker client.  Killing the client, as a     *)
(* context does that ends, leaves the container running: it may still      *)
(* write its answer (external).  The status call of a request and its      *)
(* model catalog are one step each; neither writes a file, and the prefix  *)
(* they share with refinements never has a schema.  A request refused for  *)
(* its form, and an answer's formatting, are left out.                     *)
(***************************************************************************)
EXTENDS Naturals, FiniteSets

CONSTANTS Requests, Models, Schemas,
          DefaultModel,     \* the name an output has when no model is given
          Asks,             \* what may be asked: see AskType
          None

AskType ==
    [kind : {"chat"}, model : Models \cup {None}, schema : Schemas \cup {None}]
    \cup [kind : {"refine"}, model : Models, schema : {None}]
    \cup [kind : {"models", "logout", "sign-in"}, model : {None}, schema : {None}]

ASSUME AsksAssumption == Asks \subseteq AskType
ASSUME NoneIsNothing ==
    None \notin Requests \cup Models \cup Schemas \cup AskType \cup [by : Requests, stale : BOOLEAN] \cup {"answer"}

VARIABLES
    signedIn,       \* the login kept in the user's directory
    output,         \* last-<prefix>-<model>.md: None, or whose answer and under which schema
    schema,         \* last-chat-schema.json
    ask, pc,        \* the handlers
    model,          \* the model a call settled on
    box,            \* the container of a call
    answer,         \* what a handler answered
    clashed,        \* calls that shared their output file with another one at work
    schemaClashed,  \* chats that ran while another chat was at work
    claim,          \* codexAuthProcesses[user]
    process,        \* the docker client of a sign-in and the goroutine that waits for it
    channel,        \* resultCh and errCh of a sign-in
    due,            \* sign-ins claimed 16 minutes ago
    overran         \* sign-ins that were still running then
callVars == <<output, schema, model, box, clashed, schemaClashed>>
signVars == <<claim, process, channel, due, overran>>
vars == <<signedIn, output, schema, ask, pc, model, box, answer, clashed, schemaClashed,
          claim, process, channel, due, overran>>

NoAnswer == [kind |-> None, of |-> None, schema |-> None]
Error == [NoAnswer EXCEPT !.kind = "error"]

Init ==
    /\ signedIn \in BOOLEAN
    /\ output = [k \in {"chat", "refine"} \X (Models \cup {DefaultModel}) |-> None]
    /\ schema = None
    /\ ask = [r \in Requests |-> None] /\ pc = [r \in Requests |-> "idle"]
    /\ model = [r \in Requests |-> None]
    /\ box = [r \in Requests |-> [state |-> "none", schema |-> None]]
    /\ answer = [r \in Requests |-> NoAnswer]
    /\ clashed = {} /\ schemaClashed = {}
    /\ claim = None
    /\ process = [r \in Requests |-> "none"] /\ channel = [r \in Requests |-> None]
    /\ due = {} /\ overran = {}

Goto(r, label) == pc' = [pc EXCEPT ![r] = label]
Reply(r, a) == answer' = [answer EXCEPT ![r] = a] /\ Goto(r, "done")

-----------------------------------------------------------------------------
(* Calls *)

OutputName(r) == <<ask[r].kind, IF model[r] = None THEN DefaultModel ELSE model[r]>>

(* Between the removal of the old answer and the reading of the new one,   *)
(* or for as long as its container runs.                                   *)
AtWork(r) ==
    \/ ask[r] # None /\ ask[r].kind \in {"chat", "refine"} /\ pc[r] \in {"schema", "start", "wait", "read"}
    \/ box[r].state = "running"

Asked(r, a, label) ==
    /\ pc[r] = "idle"
    /\ ask' = [ask EXCEPT ![r] = a]
    /\ model' = [model EXCEPT ![r] = a.model]
    /\ Goto(r, label)
    /\ UNCHANGED <<signedIn, output, schema, box, answer, clashed, schemaClashed, signVars>>

AskChat(r) == \E a \in Asks : a.kind = "chat" /\ Asked(r, a, "status")

(* A refinement names its model and does not look at the sign-in.          *)
AskRefinement(r) == \E a \in Asks : a.kind = "refine" /\ Asked(r, a, "remove")

AskOther(r) == \E a \in Asks : a.kind \in {"models", "logout", "sign-in"} /\ Asked(r, a, "status")

(* CodexAuthenticated: codex login status, whose error means not signed in. *)
CheckSignedIn(r) ==
    /\ pc[r] = "status" /\ ask[r].kind \in {"chat", "models", "sign-in"}
    /\ CASE ask[r].kind = "sign-in" ->
              IF signedIn THEN Reply(r, [NoAnswer EXCEPT !.kind = "signed in"])
              ELSE Goto(r, "claim") /\ UNCHANGED answer
         [] ask[r].kind # "sign-in" /\ ~signedIn -> Reply(r, Error)
         [] OTHER -> UNCHANGED answer /\
              Goto(r, IF ask[r].kind = "models" \/ model[r] = None THEN "catalog" ELSE "remove")
    /\ UNCHANGED <<signedIn, ask, callVars, signVars>>

(* CodexModelCatalog: a call without a prompt leaves the answer of an      *)
(* earlier call of its name where it is, and takes it for its own.         *)
Catalog(r) ==
    /\ pc[r] = "catalog"
    /\ IF ask[r].kind = "models"
       THEN /\ \/ Reply(r, [NoAnswer EXCEPT !.kind = "models"])
               \/ Reply(r, Error)
            /\ UNCHANGED model
       ELSE \/ /\ \/ /\ output[<<"refine", DefaultModel>>] = None
                     /\ \E m \in Models : model' = [model EXCEPT ![r] = m]
                  \/ UNCHANGED model
               /\ Goto(r, "remove") /\ UNCHANGED answer
            \/ Reply(r, Error) /\ UNCHANGED model
    /\ UNCHANGED <<signedIn, ask, output, schema, box, clashed, schemaClashed, signVars>>

(* CodexLogout. *)
Logout(r) ==
    /\ pc[r] = "status" /\ ask[r].kind = "logout"
    /\ \/ signedIn' = FALSE /\ Reply(r, [NoAnswer EXCEPT !.kind = "signed out"])
       \/ UNCHANGED signedIn /\ Reply(r, Error)
    /\ UNCHANGED <<ask, callVars, signVars>>

Rivals(r) == {q \in Requests \ {r} : AtWork(q) /\ OutputName(q) = OutputName(r)}
OtherChats(r) == {q \in Requests \ {r} : AtWork(q) /\ ask[q].kind = "chat" /\ ask[r].kind = "chat"}

(* runDockerCodexWithOptions: the earlier answer is removed.               *)
Begin(r, kept) ==
    /\ pc[r] = "remove"
    /\ output' = [output EXCEPT ![OutputName(r)] = kept]
    /\ clashed' = clashed \cup (IF Rivals(r) = {} THEN {} ELSE Rivals(r) \cup {r})
    /\ schemaClashed' = schemaClashed \cup (IF OtherChats(r) = {} THEN {} ELSE OtherChats(r) \cup {r})
    /\ Goto(r, "schema")
    /\ UNCHANGED <<signedIn, ask, schema, model, box, answer, signVars>>

(* Slip: the earlier answer is left for the container to overwrite.        *)
LeaveOutput(r) == Begin(r, output[OutputName(r)])

RemoveOutput(r) == Begin(r, None)

(* The chat's schema replaces the file, and without one the file goes.     *)
PrepareSchema(r) ==
    /\ pc[r] = "schema"
    /\ schema' = IF ask[r].kind = "chat" THEN ask[r].schema ELSE schema
    /\ Goto(r, "start")
    /\ UNCHANGED <<signedIn, ask, output, model, box, answer, clashed, schemaClashed, signVars>>

(* docker run: the container starts and reads the schema, if it was told   *)
(* to use one and it is there.  The client may also fail to start it.      *)
StartContainer(r) ==
    /\ pc[r] = "start"
    /\ \/ /\ box' = [box EXCEPT ![r] = [state |-> "running",
                                       schema |-> IF ask[r].schema = None THEN None ELSE schema]]
          /\ Goto(r, "wait")
       \/ /\ box' = [box EXCEPT ![r].state = "failed"]
          /\ Goto(r, "read")
    /\ UNCHANGED <<signedIn, ask, output, schema, model, answer, clashed, schemaClashed, signVars>>

(* The container writes its last message and ends, ends without one, or    *)
(* fails, as it does when the schema it was told to use is gone.           *)
ContainerAnswers(r) ==
    /\ box[r].state = "running"
    /\ ask[r].schema # None => box[r].schema # None
    /\ output' = [output EXCEPT ![OutputName(r)] = [of |-> r, schema |-> box[r].schema]]
    /\ box' = [box EXCEPT ![r].state = "ended"]
    /\ UNCHANGED <<signedIn, schema, ask, pc, model, answer, clashed, schemaClashed, signVars>>

ContainerEnds(r) ==
    /\ box[r].state = "running"
    /\ \E how \in {"ended", "failed"} : box' = [box EXCEPT ![r].state = how]
    /\ UNCHANGED <<signedIn, output, schema, ask, pc, model, answer, clashed, schemaClashed, signVars>>

(* The client of a request is gone: its context ends, and with it the      *)
(* docker client, but not the container.                                   *)
Leave(r) ==
    /\ pc[r] \in {"status", "catalog", "remove", "schema", "start", "wait"} /\ ask[r].kind \in {"chat", "refine"}
    /\ Reply(r, [NoAnswer EXCEPT !.kind = "gone"])
    /\ UNCHANGED <<signedIn, ask, callVars, signVars>>

(* runCommandWithOptionalEvents returns when the container is done, and    *)
(* the answer is read back from the file.                                  *)
Wait(r) ==
    /\ pc[r] = "wait" /\ box[r].state # "running"
    /\ Goto(r, "read")
    /\ UNCHANGED <<signedIn, ask, answer, callVars, signVars>>

(* A container that failed makes the call fail whatever the file holds.    *)
(* Without a file, what the container printed is the answer.               *)
ReadOutput(r) ==
    /\ pc[r] = "read"
    /\ LET file == output[OutputName(r)]
       IN  Reply(r, IF box[r].state = "failed" THEN Error
                    ELSE IF file # None THEN [kind |-> "answer", of |-> file.of, schema |-> file.schema]
                    ELSE [kind |-> "answer", of |-> r, schema |-> box[r].schema])
    /\ UNCHANGED <<signedIn, ask, callVars, signVars>>

-----------------------------------------------------------------------------
(* The device sign-in *)

Running(r) == process[r] \in {"started", "coded"}

(* Slip: a claim is taken whoever holds it.                                *)
ClaimAnyway(r) ==
    /\ pc[r] = "claim"
    /\ claim' = [by |-> r, stale |-> FALSE]
    /\ Goto(r, "launch")
    /\ UNCHANGED <<signedIn, ask, answer, callVars, process, channel, due, overran>>

(* claimCodexAuthProcess: a claim younger than 16 minutes is respected.    *)
Claim(r) ==
    /\ pc[r] = "claim"
    /\ IF claim # None /\ ~claim.stale
       THEN Reply(r, [NoAnswer EXCEPT !.kind = "running already"]) /\ UNCHANGED claim
       ELSE claim' = [by |-> r, stale |-> FALSE] /\ Goto(r, "launch") /\ UNCHANGED answer
    /\ UNCHANGED <<signedIn, ask, callVars, process, channel, due, overran>>

Launched(r) ==
    /\ process' = [process EXCEPT ![r] = "started"] /\ Goto(r, "select")
    /\ UNCHANGED <<answer, claim>>

(* Slip: a sign-in that cannot be started keeps its claim.                 *)
LaunchKeepingClaim(r) ==
    /\ pc[r] = "launch"
    /\ \/ Launched(r)
       \/ Reply(r, Error) /\ UNCHANGED <<process, claim>>
    /\ UNCHANGED <<signedIn, ask, callVars, channel, due, overran>>

(* StartCodexDeviceAuth starts docker, or gives its claim back.            *)
Launch(r) ==
    /\ pc[r] = "launch"
    /\ \/ Launched(r)
       \/ Reply(r, Error) /\ claim' = None /\ UNCHANGED process
    /\ UNCHANGED <<signedIn, ask, callVars, channel, due, overran>>

(* The goroutine has read the link and the code, or sees the output end    *)
(* without them and kills what is left.                                    *)
ReadDeviceAuthStart(r) ==
    /\ process[r] = "started"
    /\ \/ process' = [process EXCEPT ![r] = "coded"] /\ channel' = [channel EXCEPT ![r] = "code"]
       \/ process' = [process EXCEPT ![r] = "ending"] /\ channel' = [channel EXCEPT ![r] = "error"]
    /\ UNCHANGED <<signedIn, ask, pc, answer, callVars, claim, due, overran>>

(* The handler answers with what the goroutine sent.                       *)
Receive(r) ==
    /\ pc[r] = "select" /\ channel[r] # None
    /\ Reply(r, [NoAnswer EXCEPT !.kind = channel[r]])
    /\ UNCHANGED <<signedIn, ask, callVars, signVars>>

(* Eight seconds have passed, or the client of the request is gone: docker *)
(* is killed, which the goroutine will see.                                *)
GiveUp(r) ==
    /\ pc[r] = "select"
    /\ Reply(r, Error)
    /\ process' = IF Running(r) THEN [process EXCEPT ![r] = "ending"] ELSE process
    /\ UNCHANGED <<signedIn, ask, callVars, claim, channel, due, overran>>

(* The user signs in, or lets it be, and docker ends.                      *)
SignInEnds(r) ==
    /\ process[r] = "coded"
    /\ signedIn' \in {signedIn, TRUE}
    /\ process' = [process EXCEPT ![r] = "ending"]
    /\ UNCHANGED <<ask, pc, answer, callVars, claim, channel, due, overran>>

(* releaseCodexAuthProcess: the goroutine deletes the claim of its user,   *)
(* its own or not.                                                         *)
Release(r) ==
    /\ process[r] = "ending"
    /\ claim' = None
    /\ process' = [process EXCEPT ![r] = "ended"]
    /\ UNCHANGED <<signedIn, ask, pc, answer, callVars, channel, due, overran>>

(* A claim is 16 minutes old; the context of its sign-in was made after it *)
(* and ends soon.                                                          *)
Elapse(r) ==
    /\ pc[r] = "done" /\ process[r] \in {"started", "coded", "ending"} /\ r \notin due
    /\ \A q \in due : process[q] = "ended"
    /\ due' = due \cup {r}
    /\ claim' = IF claim # None /\ claim.by = r THEN [claim EXCEPT !.stale = TRUE] ELSE claim
    /\ overran' = overran \cup {r}
    /\ UNCHANGED <<signedIn, ask, pc, answer, callVars, process, channel>>

(* loginCtx has ended.                                                     *)
LoginTimesOut(r) ==
    /\ r \in due /\ Running(r)
    /\ process' = [process EXCEPT ![r] = "ending"]
    /\ UNCHANGED <<signedIn, ask, pc, answer, callVars, claim, channel, due, overran>>

-----------------------------------------------------------------------------
Call(r) ==
    \/ CheckSignedIn(r) \/ Catalog(r) \/ Logout(r)
    \/ RemoveOutput(r) \/ PrepareSchema(r) \/ StartContainer(r) \/ Wait(r) \/ ReadOutput(r)

Contained(r) == ContainerAnswers(r) \/ ContainerEnds(r)

SignIn(r) == Claim(r) \/ Launch(r) \/ ReadDeviceAuthStart(r) \/ Receive(r) \/ Release(r)

Next == \E r \in Requests :
    \/ AskChat(r) \/ AskRefinement(r) \/ AskOther(r)
    \/ Call(r) \/ Contained(r) \/ Leave(r)
    \/ SignIn(r) \/ GiveUp(r) \/ SignInEnds(r) \/ Elapse(r) \/ LoginTimesOut(r)

Spec == Init /\ [][Next]_vars

-----------------------------------------------------------------------------
(* Properties *)

(* What a call is answered with is its own answer, under its own schema:   *)
(* the answer of another is read only if both were at work on the file at  *)
(* once, and another schema is used only if another chat was at work.      *)
AnswersTheQuestion ==
    \A r \in Requests : answer[r].kind = "answer" =>
        /\ answer[r].of # r => {r, answer[r].of} \subseteq clashed
        /\ answer[r].schema # ask[r].schema => r \in clashed \cup schemaClashed

(* Two sign-ins of a user run at once only after one of them, or an        *)
(* earlier one, outlived its claim.                                        *)
SignInsExclusive ==
    \A q, r \in Requests : q # r /\ Running(q) /\ Running(r) => overran # {}

(* A claim that others must respect is the claim of a sign-in that is      *)
(* being made: no user is told to wait for one that is over.               *)
ClaimHasItsSignIn ==
    claim # None /\ ~claim.stale => pc[claim.by] = "launch" \/ process[claim.by] \in {"started", "coded", "ending"}
=============================================================================
