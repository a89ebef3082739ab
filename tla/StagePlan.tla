------------------------------ MODULE StagePlan ------------------------------
(***************************************************************************)
(* internal/api/router.go, internal/api/study_pipeline_recording.go,       *)
(* api/materials.go and pkg/moodleservices/study_pipeline.go: the handlers *)
(* that run one stage of the study pipeline, or a plan of several stages,  *)
(* and record every stage as a run.  Handlers run concurrently with each   *)
(* other and with reviewers; the store is the register of runs (which      *)
(* RunStore implements), with recordings that may fail, before or after    *)
(* they took effect.  The stage endpoint is a plan of one stage whose      *)
(* failed step is an HTTP error.                                           *)
(*                                                                         *)
(* A plan's stages run with a context that outlives the request, so a      *)
(* caller that goes away stops nothing; only the process may die.          *)
(* Abstracted: the artifacts a stage writes; a stage either fails early,   *)
(* or produces a response, and a curated response carries an               *)
(* accountability report for some extracted document.                      *)
(***************************************************************************)
EXTENDS Naturals, Sequences, Accountability

CONSTANTS Callers,      \* requests to the stage and plan endpoints
          StageOrder,   \* the pipeline's stages in their order
          Documents,    \* the extracted documents a curation may meet
          None

StageSet == {StageOrder[i] : i \in 1..Len(StageOrder)}

ASSUME StagesDistinct == /\ StageOrder \in Seq(STRING) /\ Len(StageOrder) > 0
                         /\ \A i, j \in 1..Len(StageOrder) : StageOrder[i] = StageOrder[j] => i = j
ASSUME DocumentsAreElements == \A doc \in Documents : doc \subseteq Elements

(* A caller records at most one run of a stage; the pair names its row.    *)
RunIds == Callers \X StageSet

VARIABLES storage,   \* is a database configured for this process?
          runs, active,   \* the register of runs
          plan,      \* the stages to run
          at,        \* index of the stage being run
          pc,        \* "idle", "run", "record", "done" or "crashed"
          made,      \* what RunStage returned for the current stage
          steps,     \* the response's steps, one per planned stage
          status,    \* the response's status
          lost       \* history: runs recorded although the recording failed

Register == INSTANCE RunRegister WITH Runs <- RunIds, Keys <- StageSet

ASSUME NoneIsNoRun == None \notin RunIds /\ None \notin Register!RunRow

planVars == <<plan, at, pc, made, steps, status>>
vars == <<storage, runs, active, lost, plan, at, pc, made, steps, status>>

Step == [status : {"queued", "running", "succeeded", "failed"},
         run : RunIds \cup {None},      \* the run attached to the step
         response : BOOLEAN,            \* is the stage's response attached?
         error : BOOLEAN]

NothingMade == [error |-> FALSE, response |-> FALSE, report |-> NoChecklist]

TypeOK ==
    /\ Register!RegisterTypeOK
    /\ storage \in BOOLEAN
    /\ lost \subseteq RunIds
    /\ plan \in [Callers -> {SubSeq(StageOrder, i, j) : i, j \in 1..Len(StageOrder)} \cup {<<>>}]
    /\ at \in [Callers -> 1..Len(StageOrder)]
    /\ pc \in [Callers -> {"idle", "run", "record", "done", "crashed"}]
    /\ \A p \in Callers :
        /\ pc[p] \in {"run", "record"} => at[p] <= Len(plan[p])
        /\ made[p].error \in BOOLEAN /\ made[p].response \in BOOLEAN
        /\ Len(steps[p]) = Len(plan[p])
        /\ \A i \in 1..Len(steps[p]) : steps[p][i] \in Step
    /\ status \in [Callers -> {"succeeded", "failed"}]

Init ==
    /\ Register!RegisterInit
    /\ storage \in BOOLEAN
    /\ lost = {}
    /\ plan = [p \in Callers |-> <<>>]
    /\ at = [p \in Callers |-> 1]
    /\ pc = [p \in Callers |-> "idle"]
    /\ made = [p \in Callers |-> NothingMade]
    /\ steps = [p \in Callers |-> <<>>]
    /\ status = [p \in Callers |-> "succeeded"]

-----------------------------------------------------------------------------
(* Helpers *)

Stage(p) == plan[p][at[p]]
RunId(p) == <<p, Stage(p)>>

QueuedStep == [status |-> "queued", run |-> None, response |-> FALSE, error |-> FALSE]

(* studyPipelinePlanStages: the start stage alone, or it and all after it. *)
PlanStages(mode, start) ==
    IF mode = "single" THEN SubSeq(StageOrder, start, start)
    ELSE SubSeq(StageOrder, start, Len(StageOrder))

-----------------------------------------------------------------------------
(* A request is validated, its steps are queued and the first one starts.  *)
Accept(p, mode, start) ==
    /\ pc[p] = "idle"
    /\ plan' = [plan EXCEPT ![p] = PlanStages(mode, start)]
    /\ steps' = [steps EXCEPT ![p] =
                    [i \in 1..Len(PlanStages(mode, start)) |->
                        IF i = 1 THEN [QueuedStep EXCEPT !.status = "running"] ELSE QueuedStep]]
    /\ pc' = [pc EXCEPT ![p] = "run"]
    /\ UNCHANGED <<storage, runs, active, lost, at, made, status>>

(* RunStage fails before it has a response: download, extraction, files.   *)
StageFails(p) ==
    /\ pc[p] = "run"
    /\ made' = [made EXCEPT ![p] = [error |-> TRUE, response |-> FALSE, report |-> NoChecklist]]
    /\ pc' = [pc EXCEPT ![p] = "record"]
    /\ UNCHANGED <<storage, runs, active, lost, plan, at, steps, status>>

(* RunStage returns a response; a curated one may come with an error.      *)
StageResponds(p) ==
    /\ pc[p] = "run"
    /\ \E report \in IF Stage(p) = "curated" THEN {CuratedReport(doc) : doc \in Documents}
                     ELSE {NoChecklist} :
          made' = [made EXCEPT ![p] =
                     [error |-> Stage(p) = "curated" /\ CompletionError(report),
                      response |-> TRUE, report |-> report]]
    /\ pc' = [pc EXCEPT ![p] = "record"]
    /\ UNCHANGED <<storage, runs, active, lost, plan, at, steps, status>>

-----------------------------------------------------------------------------
(* Recording and what the handler does with its result *)

(* Slip for the mutants: the failure record leaves the status to the       *)
(* store's default, which is "succeeded".                                  *)
RecordedStatusByDefault(m) == IF m.response THEN RunOutcome(m.report) ELSE "succeeded"

(* A response is recorded with its outcome, an early failure as failed.    *)
RecordedStatus(m) == IF m.response THEN RunOutcome(m.report) ELSE "failed"

RecordRun(p) == Register!Record(RunId(p), [key |-> Stage(p), status |-> RecordedStatus(made[p])])

(* The step of a stage that failed, or whose recording failed, ends the    *)
(* loop; the response is attached only if it was recorded.                 *)
EndFailed(p, run, attached) ==
    /\ steps' = [steps EXCEPT ![p][at[p]] =
                    [status |-> "failed", run |-> run, response |-> attached, error |-> TRUE]]
    /\ status' = [status EXCEPT ![p] = "failed"]
    /\ pc' = [pc EXCEPT ![p] = "done"]
    /\ UNCHANGED at

EndSucceeded(p, run) ==
    LET done == [steps EXCEPT ![p][at[p]] =
                    [status |-> "succeeded", run |-> run, response |-> TRUE, error |-> FALSE]]
    IN  IF at[p] < Len(plan[p])
        THEN /\ steps' = [done EXCEPT ![p][at[p] + 1].status = "running"]
             /\ at' = [at EXCEPT ![p] = @ + 1]
             /\ pc' = [pc EXCEPT ![p] = "run"]
             /\ UNCHANGED status
        ELSE /\ steps' = done
             /\ pc' = [pc EXCEPT ![p] = "done"]
             /\ UNCHANGED <<at, status>>

(* Slip: the loop has no break after a failed stage.                       *)
AfterRecordingNoBreak(p, run) ==
    IF ~made[p].error THEN EndSucceeded(p, run)
    ELSE IF at[p] = Len(plan[p]) THEN EndFailed(p, run, made[p].response)
    ELSE /\ steps' = [steps EXCEPT ![p][at[p]].status = "failed",
                                   ![p][at[p] + 1].status = "running"]
         /\ status' = [status EXCEPT ![p] = "failed"]
         /\ at' = [at EXCEPT ![p] = @ + 1]
         /\ pc' = [pc EXCEPT ![p] = "run"]

AfterRecording(p, run) ==
    IF made[p].error
    THEN EndFailed(p, IF made[p].response THEN run ELSE None, made[p].response)
    ELSE EndSucceeded(p, run)

RecordDone(p) ==
    /\ pc[p] = "record" /\ storage
    /\ RecordRun(p)
    /\ AfterRecording(p, RunId(p))
    /\ made' = [made EXCEPT ![p] = NothingMade]
    /\ UNCHANGED <<storage, lost, plan>>

(* Slip: a failed recording is only noted, and the stage counts as done.   *)
RecordFailsQuietly(p) ==
    /\ pc[p] = "record" /\ storage
    /\ UNCHANGED <<runs, active, lost>>
    /\ AfterRecording(p, RunId(p))
    /\ made' = [made EXCEPT ![p] = NothingMade]
    /\ UNCHANGED <<storage, plan>>

(* The recording fails: the store cannot be opened, the system user cannot *)
(* be made, the transaction fails, or it commits and the answer is lost.   *)
RecordFails(p) ==
    /\ pc[p] = "record" /\ storage
    /\ \/ RecordRun(p) /\ lost' = lost \cup {RunId(p)}
       \/ UNCHANGED <<runs, active, lost>>
    /\ EndFailed(p, None, FALSE)
    /\ made' = [made EXCEPT ![p] = NothingMade]
    /\ UNCHANGED <<storage, plan>>

(* Without a database, recording silently does nothing.                    *)
RecordSkipped(p) ==
    /\ pc[p] = "record" /\ ~storage
    /\ AfterRecording(p, None)
    /\ made' = [made EXCEPT ![p] = NothingMade]
    /\ UNCHANGED <<storage, runs, active, lost, plan>>

(* A process dies, with one caller's handler (a hosted function) or with   *)
(* several (the local server): no response, but the runs stay.             *)
Crash(gone) ==
    /\ gone # {} /\ \A p \in gone : pc[p] \in {"run", "record"}
    /\ pc' = [p \in Callers |-> IF p \in gone THEN "crashed" ELSE pc[p]]
    /\ UNCHANGED <<storage, runs, active, lost, plan, at, made, steps, status>>

(* Reviewers select and unpublish runs of the same course meanwhile.       *)
Review(r) ==
    /\ Register!Select(r) \/ Register!Clear(r)
    /\ UNCHANGED <<storage, lost, planVars>>

-----------------------------------------------------------------------------
Next ==
    \/ \E p \in Callers :
          \/ \E mode \in {"single", "from"}, i \in 1..Len(StageOrder) : Accept(p, mode, i)
          \/ StageFails(p) \/ StageResponds(p)
          \/ RecordDone(p) \/ RecordFails(p) \/ RecordSkipped(p)
    \/ \E gone \in SUBSET Callers : Crash(gone)
    \/ \E r \in RunIds : Review(r)

Spec == Init /\ [][Next]_vars

-----------------------------------------------------------------------------
(* Properties *)

Answered(p) == pc[p] = "done"

(* The response and the database tell the same story.  With a database, a  *)
(* step reported succeeded carries a recorded, succeeded run of its stage; *)
(* a run attached to a failed step is recorded as failed; and a run that   *)
(* is recorded as succeeded although its step is not, is one whose         *)
(* recording's acknowledgement was lost.                                   *)
StepTellsTheRun ==
    \A p \in Callers : Answered(p) /\ storage =>
        \A i \in 1..Len(plan[p]) :
            LET step == steps[p][i]
                id == <<p, plan[p][i]>>
            IN  /\ step.status = "succeeded" =>
                      step.run = id /\ runs[id] = [key |-> plan[p][i], status |-> "succeeded"]
                /\ step.status = "failed" /\ step.run # None =>
                      step.run = id /\ runs[id].status = "failed"
                /\ runs[id] # None /\ runs[id].status = "succeeded" /\ step.status # "succeeded" =>
                      id \in lost

(* The answer's shape: stages succeed in order up to the first failure,    *)
(* everything after it is still queued, nothing is left running, and the   *)
(* plan's status says whether a step failed.                               *)
PlanShape ==
    \A p \in Callers : Answered(p) =>
        \E n \in 1..Len(plan[p]) :
            /\ \A i \in 1..(n - 1) : steps[p][i].status = "succeeded"
            /\ \A i \in (n + 1)..Len(plan[p]) : steps[p][i].status = "queued"
            /\ steps[p][n].status = status[p]
            /\ status[p] = "succeeded" => n = Len(plan[p])

(* No stage is recorded on top of a stage of the same plan that failed or  *)
(* was never recorded, even when the process died in between.              *)
NoStageSkipped ==
    storage => \A p \in Callers : \A i, j \in 1..Len(plan[p]) :
        i < j /\ runs[<<p, plan[p][j]>>] # None =>
            /\ runs[<<p, plan[p][i]>>] # None
            /\ runs[<<p, plan[p][i]>>].status = "succeeded"

(* A stage that ended with an error never takes the selection away from    *)
(* the run that had it.                                                    *)
FailedStageKeepsSelection ==
    [][ \A p \in Callers : made[p].error /\ made'[p] # made[p] => active' = active ]_vars
=============================================================================
