-------------------------- MODULE StagePlan_proofs --------------------------
(***************************************************************************)
(* Proofs about StagePlan, for any callers, any pipeline of distinct       *)
(* stages and any documents.  The agreement of the three accounts of a     *)
(* curation (OutcomesAgree) makes a handler record exactly the failures it *)
(* reports; with it, what holds of each caller's plan (CallerInv) is       *)
(* inductive.                                                              *)
(***************************************************************************)
EXTENDS StagePlan, SequenceTheorems, TLAPS

-----------------------------------------------------------------------------
(* Accountability *)

(* buildCurationChecklist, CompletionError and studyPipelineRunOutcome     *)
(* agree: a curation is recorded as failed exactly if it is an error.      *)
THEOREM OutcomesAgree ==
    ASSUME NEW doc
    PROVE  CompletionError(CuratedReport(doc)) <=> RunOutcome(CuratedReport(doc)) = "failed"
  BY DEF CompletionError, CuratedReport, RunOutcome, ChecklistStatus

(* A checklist is complete only if every element of the document has been  *)
(* decided, and none of the decisions is open.                             *)
THEOREM CompleteMeansDecided ==
    ASSUME NEW doc \in SUBSET Elements, ~CompletionError(CuratedReport(doc))
    PROVE  \A e \in doc \ Previews(doc) :
               \E d \in CuratedReport(doc).decisions : d.of = e /\ d.outcome \notin Unresolved
  <1> TAKE e \in doc \ Previews(doc)
  <1> DEFINE d == [of |-> e, outcome |-> IF e.kind = "block" THEN BlockOutcome(e) ELSE AssetOutcome(e)]
  <1>1. d \in CuratedReport(doc).decisions
    BY DEF CuratedReport, Decisions
  <1>2. OutcomesOf(CuratedReport(doc).decisions) \cap Unresolved = {}
    BY DEF CompletionError
  <1>3. d.outcome \in OutcomesOf(CuratedReport(doc).decisions)
    BY <1>1 DEF OutcomesOf
  <1> QED BY <1>1, <1>2, <1>3

-----------------------------------------------------------------------------
(* Plans *)

Plans == {SubSeq(StageOrder, i, j) : i, j \in 1..Len(StageOrder)} \cup {<<>>}

LEMMA OrderIsSeq == StageOrder \in Seq(StageSet) /\ Len(StageOrder) \in Nat \ {0}
  <1>1. StageOrder \in Seq(STRING) /\ Len(StageOrder) > 0
    BY StagesDistinct
  <1>2. Len(StageOrder) \in Nat /\ StageOrder \in [1..Len(StageOrder) -> STRING]
    BY <1>1, LenProperties
  <1>3. StageOrder \in [1..Len(StageOrder) -> StageSet]
    BY <1>2 DEF StageSet
  <1>4. StageOrder \in UNION {[1..n -> StageSet] : n \in Nat}
    BY <1>2, <1>3
  <1>5. Seq(StageSet) = UNION {[1..n -> StageSet] : n \in Nat}
    BY SeqDef, Zenon
  <1>6. StageOrder \in Seq(StageSet)
    BY <1>4, <1>5, Zenon
  <1>7. Len(StageOrder) \in Nat \ {0}
    BY <1>1, <1>2
  <1> QED BY <1>6, <1>7

(* A plan is a sequence of stages that repeats none of them.               *)
LEMMA PlanFacts ==
    ASSUME NEW s \in Plans
    PROVE  /\ s \in Seq(StageSet)
           /\ Len(s) \in Nat /\ Len(s) <= Len(StageOrder)
           /\ \A i \in 1..Len(s) : s[i] \in StageSet
           /\ \A i, j \in 1..Len(s) : s[i] = s[j] => i = j
  <1>1. CASE s = <<>>
    BY <1>1, EmptySeq, OrderIsSeq
  <1>2. CASE s # <<>>
    <2>1. PICK i \in 1..Len(StageOrder), j \in 1..Len(StageOrder) : s = SubSeq(StageOrder, i, j)
      BY <1>2 DEF Plans
    <2>2. \A k \in i..j : StageOrder[k] \in StageSet
      BY DEF StageSet
    <2>3. /\ s \in Seq(StageSet)
          /\ Len(s) = IF i <= j THEN j - i + 1 ELSE 0
          /\ \A k \in 1..(j - i + 1) : s[k] = StageOrder[i + k - 1]
      BY <2>1, <2>2, SubSeqProperties
    <2>4. \A k, l \in 1..Len(StageOrder) : StageOrder[k] = StageOrder[l] => k = l
      BY StagesDistinct
    <2>5. ASSUME NEW k \in 1..Len(s), NEW l \in 1..Len(s), s[k] = s[l] PROVE k = l
      <3>1. i + k - 1 \in 1..Len(StageOrder) /\ i + l - 1 \in 1..Len(StageOrder)
        BY <2>3, OrderIsSeq
      <3>2. s[k] = StageOrder[i + k - 1] /\ s[l] = StageOrder[i + l - 1]
        BY <2>3
      <3>3. i + k - 1 = i + l - 1
        BY <2>4, <2>5, <3>1, <3>2
      <3> QED BY <3>3
    <2>6. \A k \in 1..Len(s) : s[k] \in StageSet
      BY <2>3, ElementOfSeq
    <2> QED BY <2>3, <2>5, <2>6, OrderIsSeq
  <1> QED BY <1>1, <1>2

LEMMA PlanStagesFacts ==
    ASSUME NEW mode \in {"single", "from"}, NEW i \in 1..Len(StageOrder)
    PROVE  PlanStages(mode, i) \in Plans /\ Len(PlanStages(mode, i)) >= 1
  <1>1. \A k \in i..Len(StageOrder) : StageOrder[k] \in StageSet
    BY DEF StageSet
  <1>2. Len(SubSeq(StageOrder, i, i)) = 1
    BY <1>1, OrderIsSeq, SubSeqProperties
  <1>3. Len(SubSeq(StageOrder, i, Len(StageOrder))) = Len(StageOrder) - i + 1
    BY <1>1, OrderIsSeq, SubSeqProperties
  <1>4. Len(StageOrder) \in 1..Len(StageOrder)
    BY OrderIsSeq
  <1>5. PlanStages(mode, i) \in Plans
    BY <1>4 DEF PlanStages, Plans
  <1> QED BY <1>2, <1>3, <1>5, OrderIsSeq DEF PlanStages

-----------------------------------------------------------------------------
(* The inductive invariant *)

Reports == {NoChecklist} \cup {CuratedReport(doc) : doc \in Documents}
Made == [error : BOOLEAN, response : BOOLEAN, report : Reports]

Typing ==
    /\ storage \in BOOLEAN
    /\ lost \subseteq RunIds
    /\ runs \in [RunIds -> Register!RunRow \cup {None}]
    /\ active \in [StageSet -> RunIds \cup {None}]
    /\ plan \in [Callers -> Plans]
    /\ at \in [Callers -> 1..Len(StageOrder)]
    /\ pc \in [Callers -> {"idle", "run", "record", "done", "crashed"}]
    /\ made \in [Callers -> Made]
    /\ steps \in [Callers -> Seq(Step)]
    /\ status \in [Callers -> {"succeeded", "failed"}]
    /\ \A p \in Callers : Len(steps[p]) = Len(plan[p])

Succeeded(p, i) == runs[<<p, plan[p][i]>>] = [key |-> plan[p][i], status |-> "succeeded"]

(* Before its request arrives, a caller has no plan and no run.            *)
IdleInv(p) ==
    pc[p] = "idle" => /\ plan[p] = <<>> /\ at[p] = 1 /\ status[p] = "succeeded"
                      /\ \A s \in StageSet : runs[<<p, s>>] = None

(* What waits to be recorded is recorded as failed exactly if it is an     *)
(* error, and has a response if it is none.                                *)
MadeInv(p) ==
    pc[p] = "record" => /\ made[p].error <=> RecordedStatus(made[p]) = "failed"
                        /\ ~made[p].error => made[p].response

(* The stages behind the current one are recorded as succeeded; those      *)
(* ahead of it, and it too until it is done, are not recorded.             *)
RunInv(p) ==
    pc[p] # "idle" =>
        /\ at[p] <= Len(plan[p])
        /\ storage => \A i \in 1..Len(plan[p]) :
              /\ i < at[p] => Succeeded(p, i)
              /\ i > at[p] \/ (i = at[p] /\ pc[p] # "done") => runs[<<p, plan[p][i]>>] = None

(* The steps tell the same, and the last one what became of it.            *)
StepInv(p) ==
    pc[p] # "idle" =>
        /\ \A i \in 1..Len(plan[p]) :
              /\ i < at[p] => steps[p][i].status = "succeeded"
                              /\ (storage => steps[p][i].run = <<p, plan[p][i]>>)
              /\ i > at[p] => steps[p][i].status = "queued"
        /\ pc[p] # "done" => status[p] = "succeeded"
        /\ pc[p] = "done" =>
              LET step == steps[p][at[p]]  id == <<p, plan[p][at[p]]>>
              IN  /\ step.status = status[p]
                  /\ status[p] = "succeeded" => at[p] = Len(plan[p])
                  /\ storage /\ step.status = "succeeded" => step.run = id /\ Succeeded(p, at[p])
                  /\ storage /\ step.status = "failed" /\ step.run # None =>
                        step.run = id /\ runs[id] # None /\ runs[id].status = "failed"
                  /\ storage /\ step.status = "failed" /\ runs[id] # None
                        /\ runs[id].status = "succeeded" => id \in lost

CallerInv(p) == IdleInv(p) /\ MadeInv(p) /\ RunInv(p) /\ StepInv(p)
IInv == Typing /\ \A p \in Callers : CallerInv(p)

LEMMA TypingImplies == IInv => TypeOK
  <1> SUFFICES ASSUME IInv PROVE TypeOK
    OBVIOUS
  <1>1. Register!RegisterTypeOK
    BY DEF IInv, Typing, Register!RegisterTypeOK
  <1>2. plan \in [Callers -> {SubSeq(StageOrder, i, j) : i, j \in 1..Len(StageOrder)} \cup {<<>>}]
    BY DEF IInv, Typing, Plans
  <1>3. ASSUME NEW p \in Callers
        PROVE  /\ pc[p] \in {"run", "record"} => at[p] <= Len(plan[p])
               /\ made[p].error \in BOOLEAN /\ made[p].response \in BOOLEAN
               /\ Len(steps[p]) = Len(plan[p])
               /\ \A i \in 1..Len(steps[p]) : steps[p][i] \in Step
    <2>1. made[p] \in Made /\ steps[p] \in Seq(Step)
      BY DEF IInv, Typing
    <2>2. \A i \in 1..Len(steps[p]) : steps[p][i] \in Step
      BY <2>1, ElementOfSeq
    <2> QED BY <2>1, <2>2 DEF IInv, Typing, CallerInv, RunInv, Made
  <1> QED BY <1>1, <1>2, <1>3 DEF IInv, Typing, TypeOK

LEMMA InitInv == Init => IInv
  <1> SUFFICES ASSUME Init PROVE IInv
    OBVIOUS
  <1>1. <<>> \in Seq(Step) /\ <<>> \in Plans /\ Len(<<>>) = 0
    BY EmptySeq DEF Plans
  <1>2. NothingMade \in Made
    BY DEF NothingMade, Made, Reports
  <1>3. Typing
    BY <1>1, <1>2, OrderIsSeq DEF Init, Typing, Register!RegisterInit
  <1>4. ASSUME NEW p \in Callers PROVE CallerInv(p)
    BY DEF Init, Register!RegisterInit, CallerInv, IdleInv, MadeInv, RunInv, StepInv, RunIds
  <1> QED BY <1>3, <1>4 DEF IInv

-----------------------------------------------------------------------------
(* Steps *)

(* A step of another caller does not concern a plan, whose runs are its    *)
(* own.                                                                    *)
LEMMA Frame ==
    ASSUME Typing, NEW q \in Callers, CallerInv(q),
           pc'[q] = pc[q], plan'[q] = plan[q], at'[q] = at[q], made'[q] = made[q],
           steps'[q] = steps[q], status'[q] = status[q], storage' = storage, lost \subseteq lost',
           \A s \in StageSet : runs'[<<q, s>>] = runs[<<q, s>>]
    PROVE  CallerInv(q)'
  <1>1. \A i \in 1..Len(plan[q]) : plan[q][i] \in StageSet
    BY PlanFacts DEF Typing
  <1>2. Len(plan[q]) \in Nat /\ at[q] \in 1..Len(StageOrder) /\ Len(StageOrder) \in Nat
    BY PlanFacts, OrderIsSeq DEF Typing
  <1>3. pc[q] # "idle" => runs'[<<q, plan[q][at[q]]>>] = runs[<<q, plan[q][at[q]]>>]
    BY <1>1, <1>2 DEF CallerInv, RunInv
  <1>4. IdleInv(q)'
    BY DEF CallerInv, IdleInv
  <1>5. MadeInv(q)'
    BY DEF CallerInv, MadeInv, RecordedStatus
  <1>6. RunInv(q)'
    BY <1>1, <1>2 DEF CallerInv, RunInv, Succeeded
  <1>7. StepInv(q)'
    BY <1>1, <1>2, <1>3 DEF CallerInv, StepInv, Succeeded
  <1> QED BY <1>4, <1>5, <1>6, <1>7 DEF CallerInv

LEMMA AcceptInv ==
    ASSUME IInv, NEW p \in Callers, NEW mode \in {"single", "from"},
           NEW i \in 1..Len(StageOrder), Accept(p, mode, i)
    PROVE  IInv'
  <1> DEFINE ps == PlanStages(mode, i)
             first(k) == IF k = 1 THEN [QueuedStep EXCEPT !.status = "running"] ELSE QueuedStep
             st == [k \in 1..Len(ps) |-> first(k)]
  <1> USE DEF IInv, Typing
  <1>1. ps \in Plans /\ Len(ps) \in Nat /\ Len(ps) >= 1
    BY PlanStagesFacts, PlanFacts
  <1>2. \A k \in 1..Len(ps) : first(k) \in Step
    BY DEF QueuedStep, Step
  <1>3. st \in Seq(Step) /\ Len(st) = Len(ps)
    <2>1. st \in [1..Len(ps) -> Step]
      BY <1>2
    <2>2. st \in UNION {[1..n -> Step] : n \in Nat}
      BY <1>1, <2>1
    <2>3. Seq(Step) = UNION {[1..n -> Step] : n \in Nat}
      BY SeqDef, Zenon
    <2>4. st \in Seq(Step)
      BY <2>2, <2>3, Zenon
    <2>5. DOMAIN st = 1..Len(st) /\ Len(st) \in Nat
      BY <2>4, LenProperties
    <2>6. DOMAIN st = 1..Len(ps)
      OBVIOUS
    <2> HIDE DEF st, ps
    <2>7. Len(st) = Len(ps)
      BY <1>1, <2>5, <2>6
    <2> QED BY <2>4, <2>7
  <1>4. /\ pc[p] = "idle" /\ at[p] = 1 /\ status[p] = "succeeded"
        /\ \A s \in StageSet : runs[<<p, s>>] = None
    BY DEF Accept, CallerInv, IdleInv
  <1>5. /\ plan' = [plan EXCEPT ![p] = ps] /\ steps' = [steps EXCEPT ![p] = st]
        /\ pc' = [pc EXCEPT ![p] = "run"]
        /\ UNCHANGED <<storage, runs, active, lost, at, made, status>>
    BY DEF Accept
  <1> HIDE DEF ps, st
  <1>6. Typing'
    BY <1>1, <1>3, <1>5
  <1>7. ASSUME NEW q \in Callers PROVE CallerInv(q)'
    <2>1. CASE q # p
      BY <1>5, <2>1, Frame
    <2>2. CASE q = p
      <3>1. \A k \in 1..Len(ps) : ps[k] \in StageSet
        BY <1>1, PlanFacts
      <3>2. \A k \in 1..Len(ps) : k > 1 => st[k].status = "queued"
        BY <1>1 DEF st, QueuedStep
      <3>3. /\ plan'[p] = ps /\ steps'[p] = st /\ at'[p] = 1 /\ status'[p] = "succeeded"
            /\ pc'[p] = "run" /\ runs' = runs
        BY <1>4, <1>5
      <3>4. RunInv(p)'
        BY <1>1, <1>4, <3>1, <3>3 DEF RunInv, Succeeded
      <3>5. StepInv(p)'
        BY <1>1, <3>2, <3>3 DEF StepInv, Succeeded
      <3> QED BY <2>2, <3>3, <3>4, <3>5 DEF CallerInv, IdleInv, MadeInv
    <2> QED BY <2>1, <2>2
  <1> QED BY <1>6, <1>7

(* RunStage returns: nothing but what waits to be recorded is new.         *)
LEMMA MadeStep ==
    ASSUME IInv, NEW p \in Callers, NEW m \in Made, pc[p] = "run",
           m.error <=> RecordedStatus(m) = "failed", ~m.error => m.response,
           made' = [made EXCEPT ![p] = m], pc' = [pc EXCEPT ![p] = "record"],
           UNCHANGED <<storage, runs, active, lost, plan, at, steps, status>>
    PROVE  IInv'
  <1> USE DEF IInv, Typing
  <1>1. Typing'
    OBVIOUS
  <1>2. ASSUME NEW q \in Callers PROVE CallerInv(q)'
    <2>1. CASE q # p
      BY <2>1, Frame
    <2>2. CASE q = p
      <3>1. pc'[p] = "record" /\ made'[p] = m
        OBVIOUS
      <3>2. MadeInv(p)'
        BY <3>1 DEF MadeInv, RecordedStatus
      <3>3. RunInv(p)'
        BY <3>1 DEF CallerInv, RunInv, Succeeded
      <3>4. StepInv(p)'
        <4>1. /\ status[p] = "succeeded"
              /\ \A i \in 1..Len(plan[p]) :
                    /\ i < at[p] => steps[p][i].status = "succeeded"
                                    /\ (storage => steps[p][i].run = <<p, plan[p][i]>>)
                    /\ i > at[p] => steps[p][i].status = "queued"
          BY DEF CallerInv, StepInv
        <4> QED BY <3>1, <4>1 DEF StepInv
      <3> QED BY <2>2, <3>1, <3>2, <3>3, <3>4 DEF CallerInv, IdleInv
    <2> QED BY <2>1, <2>2
  <1> QED BY <1>1, <1>2

LEMMA StageFailsInv ==
    ASSUME IInv, NEW p \in Callers, StageFails(p)
    PROVE  IInv'
  <1> DEFINE m == [error |-> TRUE, response |-> FALSE, report |-> NoChecklist]
  <1>1. m \in Made
    BY DEF Made, Reports
  <1>2. RecordedStatus(m) = "failed"
    BY DEF RecordedStatus
  <1>3. m.error = TRUE
    OBVIOUS
  <1>4. /\ pc[p] = "run" /\ made' = [made EXCEPT ![p] = m] /\ pc' = [pc EXCEPT ![p] = "record"]
        /\ UNCHANGED <<storage, runs, active, lost, plan, at, steps, status>>
    BY DEF StageFails
  <1> HIDE DEF m
  <1> QED BY <1>1, <1>2, <1>3, <1>4, MadeStep

LEMMA StageRespondsInv ==
    ASSUME IInv, NEW p \in Callers, StageResponds(p)
    PROVE  IInv'
  <1>1. PICK report \in IF Stage(p) = "curated" THEN {CuratedReport(doc) : doc \in Documents}
                        ELSE {NoChecklist} :
            made' = [made EXCEPT ![p] =
                       [error |-> Stage(p) = "curated" /\ CompletionError(report),
                        response |-> TRUE, report |-> report]]
    BY DEF StageResponds
  <1> DEFINE m == [error |-> Stage(p) = "curated" /\ CompletionError(report),
                   response |-> TRUE, report |-> report]
  <1>2. m \in Made
    BY DEF Made, Reports, CompletionError
  <1>3. m.response = TRUE /\ m.report = report /\ m.error = (Stage(p) = "curated" /\ CompletionError(report))
    OBVIOUS
  <1>4. made' = [made EXCEPT ![p] = m]
    BY <1>1
  <1> HIDE DEF m
  <1>5. RecordedStatus(m) = RunOutcome(report)
    BY <1>3 DEF RecordedStatus
  <1>6. CASE Stage(p) = "curated"
    <2>1. PICK doc \in Documents : report = CuratedReport(doc)
      BY <1>6
    <2>2. CompletionError(report) <=> RunOutcome(report) = "failed"
      BY <2>1, OutcomesAgree
    <2>3. m.error <=> RecordedStatus(m) = "failed"
      BY <1>3, <1>5, <1>6, <2>2
    <2> QED BY <1>2, <1>3, <1>4, <2>3, MadeStep DEF StageResponds
  <1>7. CASE Stage(p) # "curated"
    <2>1. RunOutcome(report) = "succeeded"
      BY <1>7 DEF RunOutcome, NoChecklist
    <2>2. m.error <=> RecordedStatus(m) = "failed"
      BY <1>3, <1>5, <1>7, <2>1
    <2> QED BY <1>2, <1>3, <1>4, <2>2, MadeStep DEF StageResponds
  <1> QED BY <1>6, <1>7

(* A step of the response is replaced, and no other.                       *)
LEMMA ReplaceStep ==
    ASSUME NEW t \in [Callers -> Seq(Step)], NEW p \in Callers, NEW i \in 1..Len(t[p]), NEW s \in Step
    PROVE  LET u == [t EXCEPT ![p][i] = s]
           IN  /\ u \in [Callers -> Seq(Step)]
               /\ \A q \in Callers : Len(u[q]) = Len(t[q])
               /\ \A q \in Callers : q # p => u[q] = t[q]
               /\ \A j \in 1..Len(t[p]) : u[p][j] = IF j = i THEN s ELSE t[p][j]
  <1> DEFINE v == [t[p] EXCEPT ![i] = s]
  <1>1. /\ v \in Seq(Step) /\ Len(v) = Len(t[p])
        /\ \A j \in 1..Len(t[p]) : v[j] = IF j = i THEN s ELSE t[p][j]
    <2>1. t[p] \in Seq(Step)
      OBVIOUS
    <2> QED BY <2>1, ExceptSeq
  <1>2. [t EXCEPT ![p][i] = s] = [t EXCEPT ![p] = v]
    OBVIOUS
  <1> HIDE DEF v
  <1> QED BY <1>1, <1>2

(* What recording a run does to the register.                              *)
LEMMA RecordFacts ==
    ASSUME Typing, NEW p \in Callers, at[p] <= Len(plan[p]), RecordRun(p)
    PROVE  /\ runs' \in [RunIds -> Register!RunRow \cup {None}]
           /\ active' \in [StageSet -> RunIds \cup {None}]
           /\ runs'[RunId(p)] = [key |-> Stage(p), status |-> RecordedStatus(made[p])]
           /\ \A q \in Callers, s \in StageSet : <<q, s>> # RunId(p) => runs'[<<q, s>>] = runs[<<q, s>>]
           /\ RecordedStatus(made[p]) = "failed" => active' = active
  <1>1. Stage(p) \in StageSet /\ RunId(p) \in RunIds
    BY PlanFacts, OrderIsSeq DEF Typing, Stage, RunId, RunIds
  <1>2. RecordedStatus(made[p]) \in {"succeeded", "failed"}
    BY DEF RecordedStatus, RunOutcome
  <1> DEFINE r == [key |-> Stage(p), status |-> RecordedStatus(made[p])]
  <1>3. r \in Register!RunRow
    BY <1>1, <1>2 DEF Register!RunRow, Register!Statuses
  <1>4. /\ runs' = [runs EXCEPT ![RunId(p)] = r]
        /\ active' = IF r.status = "succeeded" THEN [active EXCEPT ![r.key] = RunId(p)] ELSE active
    BY DEF RecordRun, Register!Record
  <1>5. r.key = Stage(p) /\ r.status = RecordedStatus(made[p])
    OBVIOUS
  <1> HIDE DEF r
  <1>6. runs' \in [RunIds -> Register!RunRow \cup {None}] /\ runs'[RunId(p)] = r
    BY <1>1, <1>3, <1>4 DEF Typing
  <1>7. active' \in [StageSet -> RunIds \cup {None}]
    BY <1>1, <1>4, <1>5 DEF Typing
  <1>8. ASSUME NEW q \in Callers, NEW s \in StageSet, <<q, s>> # RunId(p)
        PROVE  runs'[<<q, s>>] = runs[<<q, s>>]
    <2>1. <<q, s>> \in RunIds
      BY DEF RunIds
    <2> QED BY <1>1, <1>4, <1>8, <2>1 DEF Typing
  <1>9. RecordedStatus(made[p]) = "failed" => active' = active
    BY <1>4, <1>5
  <1> QED BY <1>6, <1>7, <1>8, <1>9 DEF r

(* What a step that ends a stage leaves alone, and what it may record.     *)
StageEnds(p) ==
    /\ pc[p] = "record" /\ UNCHANGED <<storage, plan>>
    /\ made' = [made EXCEPT ![p] = NothingMade]
    /\ lost \subseteq lost' /\ lost' \subseteq RunIds
    /\ runs' \in [RunIds -> Register!RunRow \cup {None}]
    /\ active' \in [StageSet -> RunIds \cup {None}]
    /\ \A q \in Callers, s \in StageSet : <<q, s>> # RunId(p) => runs'[<<q, s>>] = runs[<<q, s>>]

LEMMA EndFailedInv ==
    ASSUME IInv, NEW p \in Callers, StageEnds(p),
           NEW run \in {None, RunId(p)}, NEW attached \in BOOLEAN, EndFailed(p, run, attached),
           storage /\ run # None =>
               run = RunId(p) /\ runs'[RunId(p)] # None /\ runs'[RunId(p)].status = "failed",
           storage /\ runs'[RunId(p)] # None /\ runs'[RunId(p)].status = "succeeded" => RunId(p) \in lost'
    PROVE  IInv'
  <1> DEFINE s == [status |-> "failed", run |-> run, response |-> attached, error |-> TRUE]
  <1>1. /\ at[p] \in 1..Len(plan[p]) /\ Len(plan[p]) \in Nat /\ Len(steps[p]) = Len(plan[p])
        /\ \A i \in 1..Len(plan[p]) : plan[p][i] \in StageSet
        /\ \A i, j \in 1..Len(plan[p]) : plan[p][i] = plan[p][j] => i = j
    BY PlanFacts, OrderIsSeq DEF IInv, Typing, CallerInv, RunInv, StageEnds
  <1>2. RunId(p) \in RunIds /\ RunId(p) = <<p, plan[p][at[p]]>>
    BY <1>1 DEF RunId, Stage, RunIds
  <1>3. s \in Step /\ s.status = "failed" /\ s.run = run
    BY <1>2 DEF Step
  <1>4. NothingMade \in Made
    BY DEF NothingMade, Made, Reports
  <1>5. /\ steps' = [steps EXCEPT ![p][at[p]] = s]
        /\ status' = [status EXCEPT ![p] = "failed"]
        /\ pc' = [pc EXCEPT ![p] = "done"]
        /\ at' = at
    BY DEF EndFailed
  <1> HIDE DEF s
  <1>6. /\ steps' \in [Callers -> Seq(Step)]
        /\ \A q \in Callers : Len(steps'[q]) = Len(steps[q])
        /\ \A q \in Callers : q # p => steps'[q] = steps[q]
        /\ \A j \in 1..Len(plan[p]) : steps'[p][j] = IF j = at[p] THEN s ELSE steps[p][j]
    BY <1>1, <1>3, <1>5, ReplaceStep DEF IInv, Typing
  <1>7. Typing'
    BY <1>4, <1>5, <1>6 DEF IInv, Typing, StageEnds
  <1>8. ASSUME NEW q \in Callers, q # p PROVE CallerInv(q)'
    <2>1. \A t \in StageSet : runs'[<<q, t>>] = runs[<<q, t>>]
      BY <1>2, <1>8 DEF StageEnds
    <2>2. pc'[q] = pc[q] /\ at'[q] = at[q] /\ status'[q] = status[q] /\ steps'[q] = steps[q]
      BY <1>5, <1>6, <1>8 DEF IInv, Typing
    <2>3. plan'[q] = plan[q] /\ made'[q] = made[q] /\ storage' = storage /\ lost \subseteq lost'
      BY <1>8 DEF IInv, Typing, StageEnds
    <2>4. CallerInv(q)
      BY DEF IInv
    <2> QED BY <2>1, <2>2, <2>3, <2>4, Frame DEF IInv
  <1>9. CallerInv(p)'
    <2>1. /\ pc'[p] = "done" /\ at'[p] = at[p] /\ status'[p] = "failed" /\ plan'[p] = plan[p]
          /\ storage' = storage
      BY <1>5 DEF IInv, Typing, StageEnds
    <2>2. \A i \in 1..Len(plan[p]) : i # at[p] => runs'[<<p, plan[p][i]>>] = runs[<<p, plan[p][i]>>]
      BY <1>1, <1>2 DEF StageEnds
    <2>3. pc[p] = "record" /\ RunInv(p) /\ StepInv(p)
      BY DEF IInv, CallerInv, StageEnds
    <2>4. RunInv(p)'
      BY <1>1, <2>1, <2>2, <2>3 DEF RunInv, Succeeded
    <2>5. steps'[p][at[p]] = s
      BY <1>1, <1>6
    <2>6. StepInv(p)'
      <3>1. \A i \in 1..Len(plan[p]) :
              /\ i < at[p] => steps[p][i].status = "succeeded"
                              /\ (storage => steps[p][i].run = <<p, plan[p][i]>>)
              /\ i > at[p] => steps[p][i].status = "queued"
        BY <2>3 DEF StepInv
      <3>2. \A i \in 1..Len(plan[p]) :
              /\ i < at[p] => steps'[p][i].status = "succeeded"
                              /\ (storage => steps'[p][i].run = <<p, plan[p][i]>>)
              /\ i > at[p] => steps'[p][i].status = "queued"
        BY <1>1, <1>6, <3>1
      <3>3. storage /\ s.run # None =>
               s.run = RunId(p) /\ runs'[RunId(p)] # None /\ runs'[RunId(p)].status = "failed"
        BY <1>3
      <3>4. pc'[p] # "idle" /\ s.status # "succeeded" /\ status'[p] # "succeeded"
        BY <1>3, <2>1
      <3> QED BY <1>2, <1>3, <2>1, <2>5, <3>2, <3>3, <3>4 DEF StepInv
    <2> QED BY <2>1, <2>4, <2>6 DEF CallerInv, IdleInv, MadeInv
  <1> QED BY <1>7, <1>8, <1>9 DEF IInv

LEMMA EndSucceededInv ==
    ASSUME IInv, NEW p \in Callers, StageEnds(p),
           NEW run \in {None, RunId(p)}, EndSucceeded(p, run),
           storage => run = RunId(p) /\ runs'[RunId(p)] = [key |-> Stage(p), status |-> "succeeded"]
    PROVE  IInv'
  <1> DEFINE s == [status |-> "succeeded", run |-> run, response |-> TRUE, error |-> FALSE]
             done == [steps EXCEPT ![p][at[p]] = s]
             n == Len(plan[p])
  <1>1. /\ at[p] \in 1..n /\ n \in Nat /\ n <= Len(StageOrder) /\ Len(steps[p]) = n
        /\ \A i \in 1..n : plan[p][i] \in StageSet
        /\ \A i, j \in 1..n : plan[p][i] = plan[p][j] => i = j
    BY PlanFacts, OrderIsSeq DEF IInv, Typing, CallerInv, RunInv, StageEnds
  <1>2. RunId(p) \in RunIds /\ RunId(p) = <<p, plan[p][at[p]]>> /\ Stage(p) = plan[p][at[p]]
    BY <1>1 DEF RunId, Stage, RunIds
  <1>3. s \in Step /\ s.status = "succeeded" /\ s.run = run
    BY <1>2 DEF Step
  <1>4. NothingMade \in Made
    BY DEF NothingMade, Made, Reports
  <1>5. \/ /\ at[p] < n
           /\ steps' = [done EXCEPT ![p][at[p] + 1].status = "running"]
           /\ at' = [at EXCEPT ![p] = @ + 1] /\ pc' = [pc EXCEPT ![p] = "run"] /\ status' = status
        \/ /\ at[p] = n
           /\ steps' = done
           /\ pc' = [pc EXCEPT ![p] = "done"] /\ at' = at /\ status' = status
    BY <1>1 DEF EndSucceeded
  <1> HIDE DEF s
  <1>6. /\ done \in [Callers -> Seq(Step)]
        /\ \A q \in Callers : Len(done[q]) = Len(steps[q])
        /\ \A q \in Callers : q # p => done[q] = steps[q]
        /\ \A j \in 1..n : done[p][j] = IF j = at[p] THEN s ELSE steps[p][j]
    BY <1>1, <1>3, ReplaceStep DEF IInv, Typing
  <1> HIDE DEF done
  <1>7. /\ steps' \in [Callers -> Seq(Step)]
        /\ \A q \in Callers : Len(steps'[q]) = Len(steps[q])
        /\ \A q \in Callers : q # p => steps'[q] = steps[q]
        /\ \A j \in 1..n : j <= at[p] \/ j > at[p] + 1 =>
              steps'[p][j] = IF j = at[p] THEN s ELSE steps[p][j]
    <2>1. CASE at[p] = n
      BY <1>1, <1>5, <1>6, <2>1
    <2>2. CASE at[p] < n
      <3> DEFINE r == [done[p][at[p] + 1] EXCEPT !.status = "running"]
      <3>1. at[p] + 1 \in 1..Len(done[p]) /\ done[p] \in Seq(Step)
        BY <1>1, <1>6, <2>2
      <3>2. done[p][at[p] + 1] \in Step
        BY <3>1, ElementOfSeq
      <3>3. r \in Step
        BY <3>2 DEF Step
      <3>4. steps' = [done EXCEPT ![p][at[p] + 1] = r]
        BY <1>1, <1>5, <2>2
      <3> HIDE DEF r
      <3>5. /\ steps' \in [Callers -> Seq(Step)]
            /\ \A q \in Callers : Len(steps'[q]) = Len(done[q])
            /\ \A q \in Callers : q # p => steps'[q] = done[q]
            /\ \A j \in 1..Len(done[p]) : steps'[p][j] = IF j = at[p] + 1 THEN r ELSE done[p][j]
        BY <1>6, <3>1, <3>3, <3>4, ReplaceStep
      <3> QED BY <1>1, <1>6, <3>5
    <2> QED BY <1>1, <2>1, <2>2
  <1>8. Typing'
    <2>1. at' \in [Callers -> 1..Len(StageOrder)]
      <3>1. CASE at[p] < n
        <4>1. at[p] + 1 \in 1..Len(StageOrder)
          BY <1>1, <3>1, OrderIsSeq
        <4>2. at' = [at EXCEPT ![p] = at[p] + 1]
          BY <1>1, <1>5, <3>1
        <4> QED BY <4>1, <4>2 DEF IInv, Typing
      <3>2. CASE at[p] = n
        BY <1>1, <1>5, <3>2 DEF IInv, Typing
      <3> QED BY <1>1, <3>1, <3>2
    <2>2. /\ pc' \in [Callers -> {"idle", "run", "record", "done", "crashed"}]
          /\ status' \in [Callers -> {"succeeded", "failed"}]
      BY <1>5 DEF IInv, Typing
    <2>3. made' \in [Callers -> Made]
      BY <1>4 DEF IInv, Typing, StageEnds
    <2>4. \A q \in Callers : Len(steps'[q]) = Len(plan'[q])
      BY <1>7 DEF IInv, Typing, StageEnds
    <2> QED BY <1>7, <2>1, <2>2, <2>3, <2>4 DEF IInv, Typing, StageEnds
  <1>9. ASSUME NEW q \in Callers, q # p PROVE CallerInv(q)'
    <2>1. \A t \in StageSet : runs'[<<q, t>>] = runs[<<q, t>>]
      BY <1>2, <1>9 DEF StageEnds
    <2>2. pc'[q] = pc[q] /\ at'[q] = at[q] /\ status'[q] = status[q] /\ steps'[q] = steps[q]
      BY <1>5, <1>7, <1>9 DEF IInv, Typing
    <2>3. plan'[q] = plan[q] /\ made'[q] = made[q] /\ storage' = storage /\ lost \subseteq lost'
      BY <1>9 DEF IInv, Typing, StageEnds
    <2>4. CallerInv(q)
      BY DEF IInv
    <2> QED BY <2>1, <2>2, <2>3, <2>4, Frame DEF IInv
  <1>10. CallerInv(p)'
    <2>1. status'[p] = status[p] /\ plan'[p] = plan[p] /\ storage' = storage
      BY <1>5 DEF IInv, Typing, StageEnds
    <2>2. \A i \in 1..n : i # at[p] => runs'[<<p, plan[p][i]>>] = runs[<<p, plan[p][i]>>]
      BY <1>1, <1>2 DEF StageEnds
    <2>3. /\ pc[p] = "record" /\ status[p] = "succeeded"
          /\ storage => \A i \in 1..n : /\ i < at[p] => runs[<<p, plan[p][i]>>] =
                                              [key |-> plan[p][i], status |-> "succeeded"]
                                        /\ i > at[p] => runs[<<p, plan[p][i]>>] = None
          /\ \A i \in 1..n : /\ i < at[p] => steps[p][i].status = "succeeded"
                                             /\ (storage => steps[p][i].run = <<p, plan[p][i]>>)
                             /\ i > at[p] => steps[p][i].status = "queued"
      <3>1. pc[p] = "record" /\ RunInv(p) /\ StepInv(p)
        BY DEF IInv, CallerInv, StageEnds
      <3>2. storage => \A i \in 1..n : /\ i < at[p] => runs[<<p, plan[p][i]>>] =
                                              [key |-> plan[p][i], status |-> "succeeded"]
                                       /\ i > at[p] => runs[<<p, plan[p][i]>>] = None
        BY <3>1 DEF RunInv, Succeeded
      <3>3. /\ status[p] = "succeeded"
            /\ \A i \in 1..n : /\ i < at[p] => steps[p][i].status = "succeeded"
                                             /\ (storage => steps[p][i].run = <<p, plan[p][i]>>)
                               /\ i > at[p] => steps[p][i].status = "queued"
        BY <3>1 DEF StepInv
      <3> QED BY <3>1, <3>2, <3>3
    <2>4. storage => \A i \in 1..n :
              /\ i <= at[p] => runs'[<<p, plan[p][i]>>] = [key |-> plan[p][i], status |-> "succeeded"]
              /\ i > at[p] => runs'[<<p, plan[p][i]>>] = None
      BY <1>1, <1>2, <2>2, <2>3
    <2>5. \A i \in 1..n : /\ i <= at[p] => steps'[p][i].status = "succeeded"
                                           /\ (storage => steps'[p][i].run = <<p, plan[p][i]>>)
                          /\ i > at[p] + 1 => steps'[p][i].status = "queued"
      <3> TAKE i \in 1..n
      <3>1. i \in Nat /\ at[p] \in Nat
        BY <1>1
      <3>2. CASE i < at[p]
        <4>1. steps'[p][i] = steps[p][i]
          BY <1>7, <3>1, <3>2
        <4> QED BY <2>3, <3>1, <3>2, <4>1
      <3>3. CASE i = at[p]
        <4>1. steps'[p][i] = s
          BY <1>7, <3>1, <3>3
        <4>2. storage => s.run = <<p, plan[p][i]>>
          BY <1>2, <1>3, <3>3
        <4> QED BY <1>3, <3>1, <3>3, <4>1, <4>2
      <3>4. CASE i > at[p]
        <4>1. i > at[p] + 1 => steps'[p][i] = steps[p][i]
          BY <1>7, <3>1, <3>4
        <4> QED BY <2>3, <3>1, <3>4, <4>1
      <3> QED BY <3>1, <3>2, <3>3, <3>4
    <2>6. CASE at[p] < n
      <3>1. pc'[p] = "run" /\ at'[p] = at[p] + 1
        BY <1>1, <1>5, <2>6 DEF IInv, Typing
      <3>2. RunInv(p)'
        BY <1>1, <2>1, <2>4, <2>6, <3>1 DEF RunInv, Succeeded
      <3>3. StepInv(p)'
        BY <1>1, <2>1, <2>3, <2>5, <3>1 DEF StepInv
      <3> QED BY <3>1, <3>2, <3>3 DEF CallerInv, IdleInv, MadeInv
    <2>7. CASE at[p] = n
      <3>1. pc'[p] = "done" /\ at'[p] = at[p]
        BY <1>1, <1>5, <2>7 DEF IInv, Typing
      <3>2. RunInv(p)'
        BY <1>1, <2>1, <2>4, <2>7, <3>1 DEF RunInv, Succeeded
      <3>3. StepInv(p)'
        <4>1. \A i \in 1..n : i > at[p] => FALSE
          BY <1>1, <2>7
        <4>2. steps'[p][at[p]].status = "succeeded" /\ (storage => steps'[p][at[p]].run = <<p, plan[p][at[p]]>>)
          BY <1>1, <2>5
        <4>3. storage => runs'[<<p, plan[p][at[p]]>>] = [key |-> plan[p][at[p]], status |-> "succeeded"]
          BY <1>1, <2>4
        <4>4. \A i \in 1..n : /\ i < at[p] => steps'[p][i].status = "succeeded"
                                               /\ (storage => steps'[p][i].run = <<p, plan[p][i]>>)
                              /\ i > at[p] => steps'[p][i].status = "queued"
          BY <1>1, <2>5, <4>1
        <4>5. at[p] = Len(plan[p]) /\ status'[p] = "succeeded"
          BY <2>1, <2>3, <2>7
        <4> HIDE DEF n
        <4> QED BY <2>1, <3>1, <4>2, <4>3, <4>4, <4>5 DEF StepInv, Succeeded, n
      <3> QED BY <3>1, <3>2, <3>3 DEF CallerInv, IdleInv, MadeInv
    <2> QED BY <1>1, <2>6, <2>7
  <1> QED BY <1>8, <1>9, <1>10 DEF IInv

(* Recording ends the stage: as an error exactly if it is recorded as      *)
(* failed, so that a response and its run agree.                           *)
LEMMA RecordDoneInv ==
    ASSUME IInv, NEW p \in Callers, RecordDone(p)
    PROVE  IInv'
  <1>1. Typing /\ at[p] <= Len(plan[p]) /\ MadeInv(p) /\ pc[p] = "record" /\ RecordRun(p)
    BY DEF RecordDone, IInv, CallerInv, RunInv
  <1>2. /\ runs' \in [RunIds -> Register!RunRow \cup {None}]
        /\ active' \in [StageSet -> RunIds \cup {None}]
        /\ runs'[RunId(p)] = [key |-> Stage(p), status |-> RecordedStatus(made[p])]
        /\ \A q \in Callers, s \in StageSet : <<q, s>> # RunId(p) => runs'[<<q, s>>] = runs[<<q, s>>]
    BY <1>1, RecordFacts
  <1>3. StageEnds(p)
    BY <1>1, <1>2 DEF StageEnds, RecordDone, Typing
  <1>4. made[p].error \in BOOLEAN /\ made[p].response \in BOOLEAN
    BY <1>1 DEF Typing, Made
  <1>5. CASE made[p].error
    <2>1. runs'[RunId(p)].status = "failed"
      BY <1>1, <1>2, <1>5 DEF MadeInv
    <2>2. RunId(p) \in RunIds
      BY <1>1, PlanFacts, OrderIsSeq DEF Typing, Stage, RunId, RunIds
    <2>3. runs'[RunId(p)] # None
      <3>1. runs'[RunId(p)] \in Register!RunRow
        <4>1. RecordedStatus(made[p]) \in {"succeeded", "failed"}
          BY DEF RecordedStatus, RunOutcome
        <4>2. Stage(p) \in StageSet
          BY <1>1, PlanFacts, OrderIsSeq DEF Typing, Stage
        <4> QED BY <1>2, <4>1, <4>2 DEF Register!RunRow, Register!Statuses
      <3> QED BY <3>1, NoneIsNoRun
    <2> DEFINE run == IF made[p].response THEN RunId(p) ELSE None
    <2>4. EndFailed(p, run, made[p].response)
      BY <1>5 DEF RecordDone, AfterRecording
    <2>5. run \in {None, RunId(p)} /\ (run # None => run = RunId(p))
      OBVIOUS
    <2> HIDE DEF run
    <2> QED BY <1>3, <1>4, <2>1, <2>3, <2>4, <2>5, EndFailedInv
  <1>6. CASE ~made[p].error
    <2>1. RecordedStatus(made[p]) = "succeeded"
      BY <1>1, <1>6 DEF MadeInv, RecordedStatus, RunOutcome
    <2>2. EndSucceeded(p, RunId(p))
      BY <1>6 DEF RecordDone, AfterRecording
    <2> QED BY <1>2, <1>3, <2>1, <2>2, EndSucceededInv
  <1> QED BY <1>5, <1>6

(* A recording that fails, whether it took effect or not, fails the step.  *)
LEMMA RecordFailsInv ==
    ASSUME IInv, NEW p \in Callers, RecordFails(p)
    PROVE  IInv'
  <1>1. Typing /\ at[p] <= Len(plan[p]) /\ pc[p] = "record" /\ EndFailed(p, None, FALSE) /\ storage
    BY DEF RecordFails, IInv, CallerInv, RunInv
  <1>2. RunId(p) \in RunIds
    BY <1>1, PlanFacts, OrderIsSeq DEF Typing, Stage, RunId, RunIds
  <1>3. CASE RecordRun(p) /\ lost' = lost \cup {RunId(p)}
    <2>1. /\ runs' \in [RunIds -> Register!RunRow \cup {None}]
          /\ active' \in [StageSet -> RunIds \cup {None}]
          /\ \A q \in Callers, s \in StageSet : <<q, s>> # RunId(p) => runs'[<<q, s>>] = runs[<<q, s>>]
      BY <1>1, <1>3, RecordFacts
    <2>2. StageEnds(p)
      BY <1>1, <1>2, <1>3, <2>1 DEF StageEnds, RecordFails, Typing
    <2>3. RunId(p) \in lost'
      BY <1>3
    <2> QED BY <1>1, <2>2, <2>3, EndFailedInv
  <1>4. CASE UNCHANGED <<runs, active, lost>>
    <2>1. StageEnds(p)
      BY <1>1, <1>4 DEF StageEnds, RecordFails, Typing
    <2>2. runs'[RunId(p)] = None
      <3>1. \A i \in 1..Len(plan[p]) : i = at[p] => runs[<<p, plan[p][i]>>] = None
        BY <1>1 DEF IInv, CallerInv, RunInv
      <3>2. at[p] \in 1..Len(plan[p])
        BY <1>1, PlanFacts, OrderIsSeq DEF Typing
      <3> QED BY <1>4, <3>1, <3>2 DEF RunId, Stage
    <2> QED BY <1>1, <2>1, <2>2, EndFailedInv
  <1> QED BY <1>3, <1>4 DEF RecordFails

LEMMA RecordSkippedInv ==
    ASSUME IInv, NEW p \in Callers, RecordSkipped(p)
    PROVE  IInv'
  <1>1. pc[p] = "record" /\ ~storage /\ UNCHANGED <<storage, runs, active, lost, plan>>
        /\ made' = [made EXCEPT ![p] = NothingMade] /\ AfterRecording(p, None)
    BY DEF RecordSkipped
  <1>2. StageEnds(p)
    BY <1>1 DEF StageEnds, IInv, Typing
  <1>3. made[p].response \in BOOLEAN
    BY DEF IInv, Typing, Made
  <1>4. CASE made[p].error
    <2>1. EndFailed(p, None, made[p].response)
      BY <1>1, <1>4 DEF AfterRecording
    <2> QED BY <1>1, <1>2, <1>3, <2>1, EndFailedInv
  <1>5. CASE ~made[p].error
    <2>1. EndSucceeded(p, None)
      BY <1>1, <1>5 DEF AfterRecording
    <2> QED BY <1>1, <1>2, <2>1, EndSucceededInv
  <1> QED BY <1>4, <1>5

(* A death leaves everything but the program counters as it was.           *)
LEMMA CrashInv ==
    ASSUME IInv, NEW gone \in SUBSET Callers, Crash(gone)
    PROVE  IInv'
  <1>1. Typing'
    BY DEF IInv, Typing, Crash
  <1>2. ASSUME NEW q \in Callers PROVE CallerInv(q)'
    <2>1. CASE q \notin gone
      BY <2>1, Frame DEF IInv, Crash
    <2>2. CASE q \in gone
      <3>1. /\ pc'[q] = "crashed" /\ pc[q] \in {"run", "record"}
            /\ UNCHANGED <<storage, runs, active, lost, plan, at, made, steps, status>>
        BY <2>2 DEF Crash
      <3>2. RunInv(q) /\ StepInv(q)
        BY DEF IInv, CallerInv
      <3>3. RunInv(q)'
        BY <3>1, <3>2 DEF RunInv, Succeeded
      <3>4. StepInv(q)'
        BY <3>1, <3>2 DEF StepInv
      <3> QED BY <3>1, <3>3, <3>4 DEF CallerInv, IdleInv, MadeInv
    <2> QED BY <2>1, <2>2
  <1> QED BY <1>1, <1>2 DEF IInv

(* A reviewer moves selections and touches no run.                         *)
LEMMA ReviewInv ==
    ASSUME IInv, NEW r \in RunIds, Review(r)
    PROVE  IInv'
  <1>1. runs' = runs /\ UNCHANGED <<storage, lost, plan, at, pc, made, steps, status>>
    BY DEF Review, Register!Select, Register!Clear, planVars
  <1>2. active' \in [StageSet -> RunIds \cup {None}]
    <2>1. CASE Register!Select(r)
      BY <2>1 DEF Register!Select, IInv, Typing
    <2>2. CASE Register!Clear(r)
      BY <2>2 DEF Register!Clear, IInv, Typing
    <2> QED BY <2>1, <2>2 DEF Review
  <1>3. Typing'
    BY <1>1, <1>2 DEF IInv, Typing
  <1>4. ASSUME NEW q \in Callers PROVE CallerInv(q)'
    BY <1>1, Frame DEF IInv
  <1> QED BY <1>3, <1>4 DEF IInv

LEMMA NextInv == IInv /\ [Next]_vars => IInv'
  <1> SUFFICES ASSUME IInv, [Next]_vars PROVE IInv'
    OBVIOUS
  <1>1. ASSUME NEW p \in Callers, NEW mode \in {"single", "from"},
               NEW i \in 1..Len(StageOrder), Accept(p, mode, i)
        PROVE  IInv'
    BY <1>1, AcceptInv
  <1>2. ASSUME NEW p \in Callers, StageFails(p) PROVE IInv'
    BY <1>2, StageFailsInv
  <1>3. ASSUME NEW p \in Callers, StageResponds(p) PROVE IInv'
    BY <1>3, StageRespondsInv
  <1>4. ASSUME NEW p \in Callers, RecordDone(p) PROVE IInv'
    BY <1>4, RecordDoneInv
  <1>5. ASSUME NEW p \in Callers, RecordFails(p) PROVE IInv'
    BY <1>5, RecordFailsInv
  <1>6. ASSUME NEW p \in Callers, RecordSkipped(p) PROVE IInv'
    BY <1>6, RecordSkippedInv
  <1>7. ASSUME NEW gone \in SUBSET Callers, Crash(gone) PROVE IInv'
    BY <1>7, CrashInv
  <1>8. ASSUME NEW r \in RunIds, Review(r) PROVE IInv'
    BY <1>8, ReviewInv
  <1>9. CASE UNCHANGED vars
    <2>1. Typing'
      BY <1>9 DEF vars, IInv, Typing
    <2>2. ASSUME NEW q \in Callers PROVE CallerInv(q)'
      BY <1>9, Frame DEF vars, IInv
    <2> QED BY <2>1, <2>2 DEF IInv
  <1> QED BY <1>1, <1>2, <1>3, <1>4, <1>5, <1>6, <1>7, <1>8, <1>9 DEF Next

LEMMA Inductive == Spec => []IInv
  BY InitInv, NextInv, PTL DEF Spec

-----------------------------------------------------------------------------
(* What follows for the handlers *)

(* Steps, plans and responses stay in range whatever the interleaving of   *)
(* the handlers (studyPipelinePlanResponse and its steps).                 *)
THEOREM TypeCorrect == Spec => []TypeOK
  BY Inductive, TypingImplies, PTL

(* A plan that was answered has a current stage, and its stages name runs. *)
LEMMA AnsweredFacts ==
    ASSUME IInv, NEW p \in Callers, pc[p] # "idle"
    PROVE  /\ at[p] \in 1..Len(plan[p]) /\ Len(plan[p]) \in Nat
           /\ \A i \in 1..Len(plan[p]) : plan[p][i] \in StageSet
           /\ RunInv(p) /\ StepInv(p)
  <1>1. RunInv(p) /\ StepInv(p)
    BY DEF IInv, CallerInv
  <1>2. at[p] <= Len(plan[p])
    BY <1>1 DEF RunInv
  <1> QED BY <1>1, <1>2, PlanFacts, OrderIsSeq DEF IInv, Typing

(* A succeeded run is a row, hence a run.                                  *)
LEMMA SucceededIsARun ==
    ASSUME NEW s \in StageSet
    PROVE  [key |-> s, status |-> "succeeded"] # None
  <1>1. [key |-> s, status |-> "succeeded"] \in Register!RunRow
    BY DEF Register!RunRow, Register!Statuses
  <1> QED BY <1>1, NoneIsNoRun

(* The response and the database tell the same story: an answer names      *)
(* exactly the runs that were recorded, with their outcome, unless the     *)
(* acknowledgement of a recording was lost                                 *)
(* (runStudyPipelinePlan, recordStudyPipelineStageSuccess and -Failure).   *)
THEOREM ResponseTellsTheRun == Spec => []StepTellsTheRun
  <1>1. ASSUME IInv PROVE StepTellsTheRun
    <2> SUFFICES ASSUME NEW p \in Callers, pc[p] = "done", storage, NEW i \in 1..Len(plan[p])
                 PROVE  LET step == steps[p][i]
                            id == <<p, plan[p][i]>>
                        IN  /\ step.status = "succeeded" =>
                                  step.run = id /\ runs[id] = [key |-> plan[p][i], status |-> "succeeded"]
                            /\ step.status = "failed" /\ step.run # None =>
                                  step.run = id /\ runs[id].status = "failed"
                            /\ runs[id] # None /\ runs[id].status = "succeeded" /\ step.status # "succeeded" =>
                                  id \in lost
      BY DEF StepTellsTheRun, Answered
    <2>1. /\ at[p] \in 1..Len(plan[p]) /\ Len(plan[p]) \in Nat /\ i \in Nat
          /\ RunInv(p) /\ StepInv(p)
      BY <1>1, AnsweredFacts
    <2>2. CASE i < at[p]
      <3>1. steps[p][i].status = "succeeded" /\ steps[p][i].run = <<p, plan[p][i]>>
        BY <2>1, <2>2 DEF StepInv
      <3>2. runs[<<p, plan[p][i]>>] = [key |-> plan[p][i], status |-> "succeeded"]
        BY <2>1, <2>2 DEF RunInv, Succeeded
      <3> QED BY <3>1, <3>2
    <2>3. CASE i > at[p]
      <3>1. steps[p][i].status = "queued"
        BY <2>1, <2>3 DEF StepInv
      <3>2. runs[<<p, plan[p][i]>>] = None
        BY <2>1, <2>3 DEF RunInv
      <3> QED BY <3>1, <3>2
    <2>4. CASE i = at[p]
      <3>1. status[p] \in {"succeeded", "failed"}
        BY <1>1 DEF IInv, Typing
      <3> QED BY <2>1, <2>4, <3>1 DEF StepInv, Succeeded
    <2> QED BY <2>1, <2>2, <2>3, <2>4
  <1> QED BY <1>1, Inductive, PTL

(* An answered plan is a run of successes up to the stage that ended it,   *)
(* with queued stages after it, and its status is that stage's             *)
(* (runStudyPipelinePlan's loop and its break).                            *)
THEOREM AnswersHaveShape == Spec => []PlanShape
  <1>1. ASSUME IInv PROVE PlanShape
    <2> SUFFICES ASSUME NEW p \in Callers, pc[p] = "done"
                 PROVE  \E n \in 1..Len(plan[p]) :
                            /\ \A i \in 1..(n - 1) : steps[p][i].status = "succeeded"
                            /\ \A i \in (n + 1)..Len(plan[p]) : steps[p][i].status = "queued"
                            /\ steps[p][n].status = status[p]
                            /\ status[p] = "succeeded" => n = Len(plan[p])
      BY DEF PlanShape, Answered
    <2>1. at[p] \in 1..Len(plan[p]) /\ Len(plan[p]) \in Nat /\ StepInv(p)
      BY <1>1, AnsweredFacts
    <2>2. \A i \in 1..(at[p] - 1) : steps[p][i].status = "succeeded"
      BY <2>1 DEF StepInv
    <2>3. \A i \in (at[p] + 1)..Len(plan[p]) : steps[p][i].status = "queued"
      BY <2>1 DEF StepInv
    <2>4. steps[p][at[p]].status = status[p] /\ (status[p] = "succeeded" => at[p] = Len(plan[p]))
      BY <2>1 DEF StepInv
    <2> QED BY <2>1, <2>2, <2>3, <2>4
  <1> QED BY <1>1, Inductive, PTL

(* No stage is recorded on top of a failed or unrecorded one of its plan,  *)
(* even when the process died in between.                                  *)
THEOREM StagesBuildOnSuccess == Spec => []NoStageSkipped
  <1>1. ASSUME IInv PROVE NoStageSkipped
    <2> SUFFICES ASSUME storage, NEW p \in Callers,
                        NEW i \in 1..Len(plan[p]), NEW j \in 1..Len(plan[p]),
                        i < j, runs[<<p, plan[p][j]>>] # None
                 PROVE  /\ runs[<<p, plan[p][i]>>] # None
                        /\ runs[<<p, plan[p][i]>>].status = "succeeded"
      BY DEF NoStageSkipped
    <2>1. pc[p] # "idle"
      <3>1. pc[p] = "idle" => plan[p] = <<>>
        BY <1>1 DEF IInv, CallerInv, IdleInv
      <3>2. Len(<<>>) = 0
        BY EmptySeq
      <3> QED BY <3>1, <3>2
    <2>2. /\ at[p] \in 1..Len(plan[p]) /\ Len(plan[p]) \in Nat /\ RunInv(p)
          /\ plan[p][i] \in StageSet /\ i \in Nat /\ j \in Nat
      BY <1>1, <2>1, AnsweredFacts
    <2>3. ~(j > at[p])
      BY <2>1, <2>2 DEF RunInv
    <2>4. i < at[p]
      BY <2>2, <2>3
    <2>5. runs[<<p, plan[p][i]>>] = [key |-> plan[p][i], status |-> "succeeded"]
      BY <2>1, <2>2, <2>4 DEF RunInv, Succeeded
    <2> QED BY <2>2, <2>5, SucceededIsARun
  <1> QED BY <1>1, Inductive, PTL

(* A stage that ended with an error never takes a selection: whatever      *)
(* discards what it made either records it as failed or not at all.        *)
THEOREM SelectionOutlivesFailures == Spec => FailedStageKeepsSelection
  <1>1. ASSUME IInv, [Next]_vars
        PROVE  [\A p \in Callers : made[p].error /\ made'[p] # made[p] => active' = active]_vars
    <2> SUFFICES ASSUME Next, NEW p \in Callers, made[p].error, made'[p] # made[p]
                 PROVE  active' = active
      BY <1>1
    <2>1. ASSUME NEW q \in Callers, RecordRun(q), made' = [made EXCEPT ![q] = NothingMade],
                 pc[q] = "record"
          PROVE  active' = active
      <3>1. q = p
        BY <2>1, <1>1 DEF IInv, Typing
      <3>2. Typing /\ at[p] <= Len(plan[p]) /\ MadeInv(p)
        BY <1>1, <2>1, <3>1 DEF IInv, CallerInv, RunInv
      <3>3. RecordedStatus(made[p]) = "failed"
        BY <2>1, <3>1, <3>2 DEF MadeInv
      <3> QED BY <2>1, <3>1, <3>2, <3>3, RecordFacts
    <2>2. ASSUME NEW q \in Callers, NEW mode \in {"single", "from"},
                 NEW i \in 1..Len(StageOrder), Accept(q, mode, i)
          PROVE  active' = active
      BY <2>2 DEF Accept
    <2>3. ASSUME NEW q \in Callers, StageFails(q) \/ StageResponds(q) PROVE active' = active
      BY <2>3 DEF StageFails, StageResponds
    <2>4. ASSUME NEW q \in Callers, RecordDone(q) PROVE active' = active
      BY <2>1, <2>4 DEF RecordDone
    <2>5. ASSUME NEW q \in Callers, RecordFails(q) PROVE active' = active
      BY <2>1, <2>5 DEF RecordFails
    <2>6. ASSUME NEW q \in Callers, RecordSkipped(q) PROVE active' = active
      BY <2>6 DEF RecordSkipped
    <2>7. ASSUME NEW gone \in SUBSET Callers, Crash(gone) PROVE active' = active
      BY <2>7 DEF Crash
    <2>8. ASSUME NEW r \in RunIds, Review(r) PROVE active' = active
      BY <2>8 DEF Review, planVars
    <2> QED BY <2>2, <2>3, <2>4, <2>5, <2>6, <2>7, <2>8 DEF Next
  <1> QED BY <1>1, Inductive, PTL DEF Spec, FailedStageKeepsSelection

-----------------------------------------------------------------------------
(* The review of what users propose.                                       *)

CONSTANTS Requests, Ids, Courses, Limit

VARIABLES rows, audit, clock, began, ended, locked, ask, reply, seen, shown

RV == INSTANCE Review

(* None stands for no row, request, id or course.                          *)
NoneIsNew == None \notin RV!Row \cup Requests \cup Ids \cup Courses \cup RV!Kinds

Begun(r) == pc[r] \in {"begun", "updated", "audited"}
Open(r) == pc[r] \in {"updated", "audited"}
Moderates(r) == ask[r].op = "moderate"

(* A transaction that has begun is a moderation, which has not been        *)
(* answered; once its row is updated, it holds it, and it fits.            *)
TransactionsHoldTheirRow ==
    \A r \in Requests :
        /\ pc[r] \in {"idle", "feedback", "proposals"} => ~Moderates(r)
        /\ pc[r] # "done" => reply[r] = "none"
        /\ Moderates(r) => ask[r].id \in Ids /\ ask[r].course \in Courses
        /\ Begun(r) => Moderates(r) /\ ask[r].kind \in RV!Kinds /\ ask[r].status \in RV!Moderation(ask[r].kind)
        /\ Open(r) => locked[ask[r].id] = r /\ RV!Matches(ask[r].id, ask[r].kind, ask[r].course)

(* Events are of requests that were answered, and of the past.             *)
EventsAreOld == (\A e \in audit : pc[e.by] = "done") /\ \A r \in Requests : ended[r] <= clock

ReviewedInv == RV!TypeOK /\ TransactionsHoldTheirRow /\ EventsAreOld /\ RV!StatusIsAudited /\ RV!TrailIsTruthful

USE DEF RV!Kinds, RV!Moderation, RV!Initial, RV!Statuses

LEMMA ReviewInit == ASSUME NoneIsNew PROVE RV!Init => ReviewedInv
  <1> SUFFICES ASSUME RV!Init PROVE ReviewedInv
    OBVIOUS
  <1>1. RV!TypeOK
    <2>1. RV!NoAsk \in RV!Ask
      BY DEF RV!NoAsk, RV!Ask
    <2> QED
      BY <2>1 DEF RV!Init, RV!TypeOK
  <1>2. TransactionsHoldTheirRow /\ EventsAreOld
    BY DEF RV!Init, TransactionsHoldTheirRow, EventsAreOld, Moderates, Begun, Open, RV!NoAsk
  <1>3. RV!StatusIsAudited
    BY DEF RV!Init, RV!StatusIsAudited, RV!Audited, RV!EventsOf
  <1>4. RV!TrailIsTruthful
    BY DEF RV!Init, RV!TrailIsTruthful, RV!Moderated, RV!NoAsk
  <1> QED
    BY <1>1, <1>2, <1>3, <1>4 DEF ReviewedInv

(* What a step that changes a row's status leaves of the rows.             *)
LEMMA RowsStay ==
    ASSUME NoneIsNew, RV!TypeOK, NEW i \in Ids, rows[i] # None, NEW s \in RV!Statuses, NEW b \in BOOLEAN, RV!Set(i, s, b)
    PROVE  /\ rows' \in [Ids -> RV!Row \cup {None}]
           /\ rows'[i] # None /\ rows'[i].kind = rows[i].kind /\ rows'[i].course = rows[i].course
           /\ rows'[i].status = s /\ rows'[i].submitted = b
           /\ \A j \in Ids : j # i => rows'[j] = rows[j]
  <1>1. rows[i] \in RV!Row
    BY DEF RV!TypeOK
  <1> DEFINE row == [kind |-> rows[i].kind, course |-> rows[i].course, status |-> s, submitted |-> b]
  <1>2. row \in RV!Row
    BY <1>1 DEF RV!Row
  <1>3. rows' = [rows EXCEPT ![i] = row]
    BY DEF RV!Set
  <1>4. row.kind = rows[i].kind /\ row.course = rows[i].course /\ row.status = s /\ row.submitted = b
    OBVIOUS
  <1> HIDE DEF row
  <1>5. row # None
    BY <1>2 DEF NoneIsNew
  <1> QED
    BY <1>2, <1>3, <1>4, <1>5 DEF RV!TypeOK

(* What a request that starts an operation changes.                        *)
LEMMA AsksOnly ==
    ASSUME RV!TypeOK, NEW r \in Requests, NEW op \in {"record", "submit", "moderate", "publish", "list"}, NEW i \in Ids \cup {None},
           NEW kind \in RV!Kinds \cup {"none"}, NEW s \in RV!Statuses \cup {"none"}, NEW c \in Courses, RV!Asks(r, op, i, kind, s, c)
    PROVE  /\ pc[r] = "idle" /\ ask' \in [Requests -> RV!Ask]
           /\ ask'[r].op = op /\ ask'[r].id = i /\ ask'[r].kind = kind /\ ask'[r].status = s /\ ask'[r].course = c
           /\ \A q \in Requests : q # r => ask'[q] = ask[q]
  <1> DEFINE a == [op |-> op, id |-> i, kind |-> kind, status |-> s, course |-> c]
  <1>1. a \in RV!Ask
    BY DEF RV!Ask
  <1>2. ask' = [ask EXCEPT ![r] = a] /\ pc[r] = "idle"
    BY DEF RV!Asks
  <1>3. a.op = op /\ a.id = i /\ a.kind = kind /\ a.status = s /\ a.course = c
    OBVIOUS
  <1> HIDE DEF a
  <1> QED
    BY <1>1, <1>2, <1>3 DEF RV!TypeOK

(* What an answer changes.                                                 *)
AnsweredWith(r, answers) ==
    /\ pc' \in [Requests -> {"idle", "begun", "updated", "audited", "feedback", "proposals", "done"}]
    /\ reply' \in [Requests -> {"none", "ok", "lost", "error"}]
    /\ pc'[r] = "done" /\ reply'[r] \in answers
    /\ \A q \in Requests : q # r => pc'[q] = pc[q] /\ reply'[q] = reply[q]

LEMMA AnswersOnly ==
    ASSUME RV!TypeOK, NEW r \in Requests, NEW answers \in SUBSET {"ok", "lost", "error"}, NEW a \in answers, RV!Answer(r, a)
    PROVE  AnsweredWith(r, answers)
  BY DEF RV!Answer, RV!TypeOK, AnsweredWith

LEMMA CommitsOnly ==
    ASSUME RV!TypeOK, NEW r \in Requests, RV!Committed(r) PROVE AnsweredWith(r, {"ok", "lost"})
  <1>1. PICK a \in {"ok", "lost"} : RV!Answer(r, a)
    BY DEF RV!Committed
  <1> QED
    BY <1>1, AnswersOnly

LEMMA ReviewTypeStep == ASSUME NoneIsNew, RV!TypeOK, TransactionsHoldTheirRow, [RV!Next]_(RV!vars) PROVE RV!TypeOK'
  <1>1. ASSUME NEW r \in Requests, RV!Refuse(r), UNCHANGED <<seen, shown>> PROVE RV!TypeOK'
    BY <1>1 DEF RV!Refuse, RV!Answer, RV!TypeOK
  <1>2. ASSUME NEW r \in Requests, NEW i \in Ids, NEW kind \in RV!Kinds, NEW c \in Courses, RV!Record(r, i, kind, c), UNCHANGED <<seen, shown>>
        PROVE  RV!TypeOK'
    <2>1. [kind |-> kind, course |-> c, status |-> RV!Initial(kind), submitted |-> FALSE] \in RV!Row
      BY DEF RV!Row
    <2>2. rows' \in [Ids -> RV!Row \cup {None}]
      BY <1>2, <2>1 DEF RV!Record, RV!TypeOK
    <2>3. ask' \in [Requests -> RV!Ask]
      BY <1>2, AsksOnly, RV!Initial(kind) \in RV!Statuses DEF RV!Record
    <2>4. AnsweredWith(r, {"ok", "lost"})
      BY <1>2, CommitsOnly DEF RV!Record
    <2> QED
      BY <1>2, <2>2, <2>3, <2>4 DEF RV!Record, RV!TypeOK, AnsweredWith
  <1>3. ASSUME NEW r \in Requests, NEW i \in Ids, NEW c \in Courses, RV!Submit(r, i, c), UNCHANGED <<seen, shown>> PROVE RV!TypeOK'
    <2>1. rows' \in [Ids -> RV!Row \cup {None}]
      BY <1>3, RowsStay DEF RV!Submit, RV!Matches
    <2>2. ask' \in [Requests -> RV!Ask]
      BY <1>3, AsksOnly DEF RV!Submit
    <2>3. AnsweredWith(r, {"ok", "lost"})
      BY <1>3, CommitsOnly DEF RV!Submit
    <2> QED
      BY <1>3, <2>1, <2>2, <2>3 DEF RV!Submit, RV!TypeOK, AnsweredWith
  <1>4. ASSUME NEW r \in Requests, NEW i \in Ids, NEW kind \in RV!Kinds, NEW s \in RV!Moderation(kind),
               NEW c \in Courses, RV!Begin(r, i, kind, s, c), UNCHANGED <<seen, shown>>
        PROVE  RV!TypeOK'
    <2>1. ask' \in [Requests -> RV!Ask]
      BY <1>4, AsksOnly, s \in RV!Statuses DEF RV!Begin
    <2>2. clock' \in Nat /\ began' \in [Requests -> Nat]
      BY <1>4 DEF RV!Begin, RV!TypeOK
    <2> QED
      BY <1>4, <2>1, <2>2 DEF RV!Begin, RV!TypeOK
  <1>5. ASSUME NEW r \in Requests, RV!InsertAudit(r), UNCHANGED <<seen, shown>> PROVE RV!TypeOK'
    BY <1>5 DEF RV!InsertAudit, RV!TypeOK
  <1>6. ASSUME NEW r \in Requests, RV!Commit(r), UNCHANGED <<seen, shown>> PROVE RV!TypeOK'
    <2> DEFINE i == ask[r].id
               s == ask[r].status
               b == rows[i].submitted
    <2>1. i \in Ids /\ rows[i] # None /\ rows[i] \in RV!Row /\ ask[r].course \in Courses
      BY <1>6 DEF RV!Commit, TransactionsHoldTheirRow, Begun, Open, RV!Matches, RV!TypeOK
    <2>2. s \in RV!Statuses /\ b \in BOOLEAN
      BY <1>6, <2>1 DEF RV!Commit, TransactionsHoldTheirRow, Begun, RV!Row
    <2>3. /\ RV!Set(i, s, b) /\ locked' = [locked EXCEPT ![i] = None] /\ RV!Committed(r) /\ UNCHANGED <<began, ask>>
          /\ audit' = audit \cup {[by |-> r, id |-> i, course |-> ask[r].course, status |-> s, at |-> began[r]]}
      BY <1>6 DEF RV!Commit
    <2>4. clock' \in Nat /\ ended' \in [Requests -> Nat]
      BY <1>6 DEF RV!Commit, RV!TypeOK
    <2> HIDE DEF i, s, b
    <2>5. rows' \in [Ids -> RV!Row \cup {None}]
      BY RowsStay, <2>1, <2>2, <2>3
    <2>6. [by |-> r, id |-> i, course |-> ask[r].course, status |-> s, at |-> began[r]] \in RV!Event
      BY <2>1, <2>2 DEF RV!Event, RV!TypeOK
    <2>7. AnsweredWith(r, {"ok", "lost"})
      BY <2>3, CommitsOnly
    <2> QED
      BY <1>6, <2>1, <2>3, <2>4, <2>5, <2>6, <2>7 DEF RV!TypeOK, AnsweredWith
  <1>7. ASSUME NEW r \in Requests, RV!Abort(r), UNCHANGED <<seen, shown>> PROVE RV!TypeOK'
    BY <1>7 DEF RV!Abort, RV!Answer, RV!TypeOK
  <1>8. CASE UNCHANGED RV!vars
    BY <1>8 DEF RV!vars, RV!TypeOK
  <1>9. ASSUME NEW r \in Requests, NEW c \in Courses, RV!ListFeedback(r, c) PROVE RV!TypeOK'
    <2>1. [op |-> "list", id |-> None, kind |-> "none", status |-> "none", course |-> c] \in RV!Ask
      BY DEF RV!Ask
    <2>2. seen' \in [Requests -> [Ids -> RV!Row \cup {None}]]
      BY <1>9 DEF RV!ListFeedback, RV!Reads, RV!InCourse, RV!TypeOK
    <2> QED
      BY <1>9, <2>1, <2>2 DEF RV!ListFeedback, RV!TypeOK
  <1>10. ASSUME NEW r \in Requests, RV!ListProposals(r) PROVE RV!TypeOK'
    <2>1. seen' \in [Requests -> [Ids -> RV!Row \cup {None}]]
      BY <1>10 DEF RV!ListProposals, RV!Reads, RV!InCourse, RV!TypeOK
    <2> QED
      BY <1>10, <2>1 DEF RV!ListProposals, RV!TypeOK
  <1>11. ASSUME NEW r \in Requests, RV!ListAudit(r) PROVE RV!TypeOK'
    <2>1. PICK page \in SUBSET audit : shown' = [shown EXCEPT ![r] = page]
      BY <1>11 DEF RV!ListAudit
    <2>2. shown' \in [Requests -> SUBSET RV!Event]
      BY <2>1 DEF RV!TypeOK
    <2> QED
      BY <1>11, <2>2 DEF RV!ListAudit, RV!Answer, RV!TypeOK
  <1>12. ASSUME NEW r \in Requests, RV!ListFails(r) PROVE RV!TypeOK'
    BY <1>12 DEF RV!ListFails, RV!Answer, RV!TypeOK
  <1>13. ASSUME NEW r \in Requests, RV!Update(r), UNCHANGED <<seen, shown>> PROVE RV!TypeOK'
    BY <1>13 DEF RV!Update, RV!TypeOK
  <1>14. ASSUME NEW r \in Requests, NEW c \in Courses, RV!Publish(r, c), UNCHANGED <<seen, shown>> PROVE RV!TypeOK'
    <2>1. PICK t \in 0..clock :
             audit' = audit \cup {[by |-> r, id |-> None, course |-> c, status |-> "promoted", at |-> t]}
      BY <1>14 DEF RV!Publish
    <2>2. [by |-> r, id |-> None, course |-> c, status |-> "promoted", at |-> t] \in RV!Event
      BY DEF RV!Event, RV!TypeOK
    <2>3. ask' \in [Requests -> RV!Ask]
      BY <1>14, AsksOnly DEF RV!Publish
    <2>4. AnsweredWith(r, {"ok", "lost"})
      BY <1>14, CommitsOnly DEF RV!Publish
    <2> QED
      BY <1>14, <2>1, <2>2, <2>3, <2>4 DEF RV!Publish, RV!TypeOK, AnsweredWith
  <1> QED
    BY <1>1, <1>2, <1>3, <1>4, <1>5, <1>6, <1>7, <1>8, <1>9, <1>10, <1>11, <1>12, <1>13, <1>14 DEF RV!Next, RV!Changes, RV!Lists

(* A step of a listing touches nothing but the listing.                    *)
LEMMA ListsOnly ==
    ASSUME RV!TypeOK, TransactionsHoldTheirRow, NEW r \in Requests, RV!Lists(r)
    PROVE  /\ rows' = rows /\ audit' = audit /\ locked' = locked /\ clock' = clock /\ ended' = ended /\ began' = began
           /\ ~Begun(r) /\ pc[r] # "done" /\ pc'[r] \in {"feedback", "proposals", "done"}
           /\ pc'[r] # "done" => reply'[r] = "none"
           /\ ~Moderates(r) /\ ask'[r].op # "moderate"
           /\ \A q \in Requests : q # r => pc'[q] = pc[q] /\ ask'[q] = ask[q] /\ reply'[q] = reply[q]
  <1> USE DEF Begun, Moderates, RV!TypeOK, RV!Answer
  <1>1. CASE RV!ListProposals(r)
    BY <1>1 DEF RV!ListProposals, TransactionsHoldTheirRow
  <1>2. CASE RV!ListAudit(r)
    BY <1>2 DEF RV!ListAudit, TransactionsHoldTheirRow
  <1>3. CASE RV!ListFails(r)
    BY <1>3 DEF RV!ListFails, TransactionsHoldTheirRow
  <1>4. ASSUME NEW c \in Courses, RV!ListFeedback(r, c)
        PROVE  /\ rows' = rows /\ audit' = audit /\ locked' = locked /\ clock' = clock /\ ended' = ended /\ began' = began
               /\ ~Begun(r) /\ pc[r] = "idle" /\ pc'[r] = "feedback" /\ reply'[r] = "none"
               /\ ~Moderates(r) /\ ask'[r].op # "moderate"
               /\ \A q \in Requests : q # r => pc'[q] = pc[q] /\ ask'[q] = ask[q] /\ reply'[q] = reply[q]
    BY <1>4 DEF RV!ListFeedback, TransactionsHoldTheirRow
  <1> QED
    BY <1>1, <1>2, <1>3, <1>4 DEF RV!Lists

LEMMA TransactionStep ==
    ASSUME NoneIsNew, RV!TypeOK, TransactionsHoldTheirRow, [RV!Next]_(RV!vars) PROVE TransactionsHoldTheirRow'
  (* A step that leaves rows, locks and what open transactions ask for.    *)
  <1>a. ASSUME NEW r \in Requests,
               \A q \in Requests : q # r => pc'[q] = pc[q] /\ ask'[q] = ask[q] /\ reply'[q] = reply[q],
               \A j \in Ids : rows[j] # None => rows'[j] # None /\ rows'[j].kind = rows[j].kind /\ rows'[j].course = rows[j].course,
               \A j \in Ids, q \in Requests : q # r /\ locked[j] = q => locked'[j] = q,
               /\ pc'[r] \in {"idle", "feedback", "proposals"} => ask'[r].op # "moderate"
               /\ pc'[r] # "done" => reply'[r] = "none"
               /\ ask'[r].op = "moderate" => ask'[r].id \in Ids /\ ask'[r].course \in Courses
               /\ pc'[r] \in {"begun", "updated", "audited"} =>
                      ask'[r].op = "moderate" /\ ask'[r].kind \in RV!Kinds /\ ask'[r].status \in RV!Moderation(ask'[r].kind)
               /\ pc'[r] \in {"updated", "audited"} =>
                      locked'[ask'[r].id] = r /\ rows'[ask'[r].id] # None /\ rows'[ask'[r].id].kind = ask'[r].kind
                      /\ rows'[ask'[r].id].course = ask'[r].course
        PROVE  TransactionsHoldTheirRow'
    <2>1. ASSUME NEW q \in Requests, q # r
          PROVE  /\ pc'[q] \in {"idle", "feedback", "proposals"} => ask'[q].op # "moderate"
                 /\ pc'[q] # "done" => reply'[q] = "none"
                 /\ ask'[q].op = "moderate" => ask'[q].id \in Ids /\ ask'[q].course \in Courses
                 /\ pc'[q] \in {"begun", "updated", "audited"} =>
                        ask'[q].op = "moderate" /\ ask'[q].kind \in RV!Kinds /\ ask'[q].status \in RV!Moderation(ask'[q].kind)
                 /\ pc'[q] \in {"updated", "audited"} =>
                        locked'[ask'[q].id] = q /\ rows'[ask'[q].id] # None /\ rows'[ask'[q].id].kind = ask'[q].kind
                        /\ rows'[ask'[q].id].course = ask'[q].course
      <3>1. pc'[q] = pc[q] /\ ask'[q] = ask[q] /\ reply'[q] = reply[q]
        BY <1>a, <2>1
      <3>2. /\ pc[q] \in {"idle", "feedback", "proposals"} => ask[q].op # "moderate"
            /\ pc[q] # "done" => reply[q] = "none"
            /\ ask[q].op = "moderate" => ask[q].id \in Ids /\ ask[q].course \in Courses
            /\ pc[q] \in {"begun", "updated", "audited"} =>
                   ask[q].op = "moderate" /\ ask[q].kind \in RV!Kinds /\ ask[q].status \in RV!Moderation(ask[q].kind)
            /\ pc[q] \in {"updated", "audited"} =>
                   locked[ask[q].id] = q /\ rows[ask[q].id] # None /\ rows[ask[q].id].kind = ask[q].kind
                   /\ rows[ask[q].id].course = ask[q].course
        BY DEF TransactionsHoldTheirRow, Moderates, Begun, Open, RV!Matches
      <3> QED
        BY <3>1, <3>2, <1>a, <2>1
    <2> QED
      BY <1>a, <2>1 DEF TransactionsHoldTheirRow, Moderates, Begun, Open, RV!Matches
  <1>0. \A q \in Requests : /\ pc[q] \in {"idle", "feedback", "proposals"} => ask[q].op # "moderate"
                            /\ pc[q] # "done" => reply[q] = "none"
                            /\ ask[q].op = "moderate" => ask[q].id \in Ids /\ ask[q].course \in Courses
                            /\ pc[q] \in {"begun", "updated", "audited"} =>
                                   ask[q].op = "moderate" /\ ask[q].kind \in RV!Kinds /\ ask[q].status \in RV!Moderation(ask[q].kind)
                            /\ pc[q] \in {"updated", "audited"} =>
                                   locked[ask[q].id] = q /\ RV!Matches(ask[q].id, ask[q].kind, ask[q].course)
    BY DEF TransactionsHoldTheirRow, Moderates, Begun, Open
  <1>1. ASSUME NEW r \in Requests, RV!Refuse(r) PROVE TransactionsHoldTheirRow'
    BY <1>1, <1>0, <1>a DEF RV!Refuse, RV!Answer, RV!TypeOK
  <1>2. ASSUME NEW r \in Requests, NEW i \in Ids, NEW kind \in RV!Kinds, NEW c \in Courses, RV!Record(r, i, kind, c)
        PROVE  TransactionsHoldTheirRow'
    <2>1. AnsweredWith(r, {"ok", "lost"}) /\ ask'[r].op = "record" /\ \A q \in Requests : q # r => ask'[q] = ask[q]
      BY <1>2, CommitsOnly, AsksOnly, RV!Initial(kind) \in RV!Statuses DEF RV!Record
    <2>2. locked' = locked /\ \A j \in Ids : rows[j] # None => rows'[j] = rows[j]
      BY <1>2 DEF RV!Record, RV!TypeOK
    <2> QED
      BY <2>1, <2>2, <1>a DEF AnsweredWith
  <1>3. ASSUME NEW r \in Requests, NEW i \in Ids, NEW c \in Courses, RV!Submit(r, i, c)
        PROVE  TransactionsHoldTheirRow'
    <2>1. AnsweredWith(r, {"ok", "lost"}) /\ ask'[r].op = "submit" /\ \A q \in Requests : q # r => ask'[q] = ask[q]
      BY <1>3, CommitsOnly, AsksOnly DEF RV!Submit
    <2>2. /\ locked' = locked
          /\ \A j \in Ids : rows[j] # None => rows'[j] # None /\ rows'[j].kind = rows[j].kind /\ rows'[j].course = rows[j].course
      BY <1>3, RowsStay DEF RV!Submit, RV!Matches
    <2> QED
      BY <2>1, <2>2, <1>a DEF AnsweredWith
  <1>4. ASSUME NEW r \in Requests, NEW i \in Ids, NEW kind \in RV!Kinds, NEW s \in RV!Moderation(kind),
               NEW c \in Courses, RV!Begin(r, i, kind, s, c)
        PROVE  TransactionsHoldTheirRow'
    <2>1. /\ pc[r] = "idle" /\ ask'[r].op = "moderate" /\ ask'[r].id = i /\ ask'[r].kind = kind /\ ask'[r].status = s
          /\ ask'[r].course = c /\ \A q \in Requests : q # r => ask'[q] = ask[q]
      BY <1>4, AsksOnly, s \in RV!Statuses DEF RV!Begin
    <2>2. /\ locked' = locked /\ rows' = rows /\ reply' = reply /\ pc'[r] = "begun"
          /\ \A q \in Requests : q # r => pc'[q] = pc[q]
      BY <1>4 DEF RV!Begin, RV!TypeOK
    <2> QED
      BY <2>1, <2>2, <1>0, <1>a
  <1>5. ASSUME NEW r \in Requests, RV!InsertAudit(r) PROVE TransactionsHoldTheirRow'
    <2>1. /\ locked' = locked /\ rows' = rows /\ reply' = reply /\ ask' = ask /\ pc[r] = "updated" /\ pc'[r] = "audited"
          /\ \A q \in Requests : q # r => pc'[q] = pc[q]
      BY <1>5 DEF RV!InsertAudit, RV!TypeOK
    <2> QED
      BY <2>1, <1>0, <1>a DEF RV!Matches
  <1>6. ASSUME NEW r \in Requests, RV!Commit(r) PROVE TransactionsHoldTheirRow'
    <2> DEFINE i == ask[r].id
    <2>1. i \in Ids /\ rows[i] # None /\ rows[i].submitted \in BOOLEAN /\ ask[r].status \in RV!Statuses /\ locked[i] = r
      BY <1>6, <1>0 DEF RV!Commit, RV!Matches, RV!TypeOK, RV!Row
    <2>2. /\ \A j \in Ids : rows[j] # None => rows'[j] # None /\ rows'[j].kind = rows[j].kind /\ rows'[j].course = rows[j].course
      BY <1>6, <2>1, RowsStay DEF RV!Commit
    <2>3. ask' = ask /\ \A j \in Ids : j # i => locked'[j] = locked[j]
      BY <1>6 DEF RV!Commit, RV!TypeOK
    <2>4. AnsweredWith(r, {"ok", "lost"})
      BY <1>6, CommitsOnly DEF RV!Commit
    <2> HIDE DEF i
    <2> QED
      BY <2>1, <2>2, <2>3, <2>4, <1>0, <1>a DEF AnsweredWith
  <1>7. ASSUME NEW r \in Requests, RV!Abort(r) PROVE TransactionsHoldTheirRow'
    <2>1. AnsweredWith(r, {"error"})
      BY <1>7, AnswersOnly DEF RV!Abort
    <2>2. ask' = ask /\ rows' = rows /\ \A j \in Ids : locked'[j] = IF locked[j] = r THEN None ELSE locked[j]
      BY <1>7 DEF RV!Abort, RV!TypeOK
    <2> QED
      BY <2>1, <2>2, <1>0, <1>a DEF AnsweredWith
  <1>8. CASE UNCHANGED RV!vars
    BY <1>8 DEF RV!vars, TransactionsHoldTheirRow, Moderates, Begun, Open, RV!Matches
  <1>9. ASSUME NEW r \in Requests, RV!Lists(r) PROVE TransactionsHoldTheirRow'
    <2>1. /\ rows' = rows /\ locked' = locked /\ pc'[r] \in {"feedback", "proposals", "done"}
          /\ pc'[r] # "done" => reply'[r] = "none"
          /\ ask'[r].op # "moderate"
          /\ \A q \in Requests : q # r => pc'[q] = pc[q] /\ ask'[q] = ask[q] /\ reply'[q] = reply[q]
      BY <1>9, ListsOnly
    <2> QED
      BY <2>1, <1>a
  <1>10. ASSUME NEW r \in Requests, RV!Update(r) PROVE TransactionsHoldTheirRow'
    <2> DEFINE i == ask[r].id
    <2>1. i \in Ids /\ RV!Matches(i, ask[r].kind, ask[r].course) /\ locked[i] = None
      BY <1>10, <1>0 DEF RV!Update
    <2>2. /\ rows' = rows /\ reply' = reply /\ ask' = ask /\ pc[r] = "begun" /\ pc'[r] = "updated"
          /\ \A q \in Requests : q # r => pc'[q] = pc[q]
          /\ locked'[i] = r /\ \A j \in Ids : j # i => locked'[j] = locked[j]
      BY <1>10, <2>1 DEF RV!Update, RV!TypeOK
    <2>3. rows'[i] # None /\ rows'[i].kind = ask[r].kind /\ rows'[i].course = ask[r].course
      BY <2>1, <2>2 DEF RV!Matches
    <2>4. ask'[r].id = i /\ ask'[r].kind = ask[r].kind /\ ask'[r].course = ask[r].course
      BY <2>2
    <2>5. \A j \in Ids, q \in Requests : q # r /\ locked[j] = q => locked'[j] = q
      BY <2>1, <2>2 DEF NoneIsNew
    <2>6. /\ rows'[ask'[r].id] # None /\ rows'[ask'[r].id].kind = ask'[r].kind /\ rows'[ask'[r].id].course = ask'[r].course
          /\ locked'[ask'[r].id] = r
      BY <2>2, <2>3, <2>4
    <2> HIDE DEF i
    <2> QED
      BY <2>2, <2>5, <2>6, <1>0, <1>a
  <1>11. ASSUME NEW r \in Requests, NEW c \in Courses, RV!Publish(r, c) PROVE TransactionsHoldTheirRow'
    <2>1. AnsweredWith(r, {"ok", "lost"}) /\ ask'[r].op = "publish" /\ \A q \in Requests : q # r => ask'[q] = ask[q]
      BY <1>11, CommitsOnly, AsksOnly DEF RV!Publish
    <2>2. locked' = locked /\ rows' = rows
      BY <1>11 DEF RV!Publish
    <2> QED
      BY <2>1, <2>2, <1>a DEF AnsweredWith
  <1> QED
    BY <1>1, <1>2, <1>3, <1>4, <1>5, <1>6, <1>7, <1>8, <1>9, <1>10, <1>11 DEF RV!Next, RV!Changes

(* Whoever takes a step had not been answered, and no other one's          *)
(* variables change; time does not run backwards.                          *)
LEMMA ActsOnly ==
    ASSUME RV!TypeOK, TransactionsHoldTheirRow, NEW r \in Requests, RV!Changes(r) \/ RV!Lists(r)
    PROVE  /\ pc[r] # "done" /\ clock' >= clock /\ ended'[r] \in {ended[r], clock'}
           /\ \A q \in Requests : q # r => pc'[q] = pc[q] /\ ask'[q] = ask[q] /\ reply'[q] = reply[q] /\ ended'[q] = ended[q]
  <1> DEFINE Goal == /\ pc[r] # "done" /\ clock' >= clock /\ ended'[r] \in {ended[r], clock'}
                     /\ \A q \in Requests : q # r => /\ pc'[q] = pc[q] /\ ask'[q] = ask[q]
                                                     /\ reply'[q] = reply[q] /\ ended'[q] = ended[q]
  <1> USE DEF RV!TypeOK, RV!Answer, RV!Committed, RV!Asks
  <1>1. CASE RV!Lists(r)
    BY <1>1, ListsOnly
  <1>2. CASE RV!Refuse(r)
    BY <1>2 DEF RV!Refuse
  <1>3. CASE RV!Update(r)
    BY <1>3 DEF RV!Update
  <1>4. CASE RV!InsertAudit(r)
    BY <1>4 DEF RV!InsertAudit
  <1>5. CASE RV!Commit(r)
    BY <1>5 DEF RV!Commit
  <1>6. CASE RV!Abort(r)
    BY <1>6 DEF RV!Abort
  <1>7. ASSUME NEW c \in Courses, RV!Publish(r, c) PROVE Goal
    BY <1>7 DEF RV!Publish
  <1>8. ASSUME NEW i \in Ids, NEW c \in Courses, RV!Submit(r, i, c) PROVE Goal
    BY <1>8 DEF RV!Submit
  <1>9. ASSUME NEW i \in Ids, NEW c \in Courses, NEW kind \in RV!Kinds, RV!Record(r, i, kind, c) PROVE Goal
    BY <1>9 DEF RV!Record
  <1>10. ASSUME NEW i \in Ids, NEW c \in Courses, NEW kind \in RV!Kinds, NEW s \in RV!Moderation(kind), RV!Begin(r, i, kind, s, c)
         PROVE  Goal
    BY <1>10 DEF RV!Begin
  <1> QED
    BY <1>1, <1>2, <1>3, <1>4, <1>5, <1>6, <1>7, <1>8, <1>9, <1>10 DEF RV!Changes

(* What a commit adds and what it does to its row.                         *)
LEMMA CommitIs ==
    ASSUME NoneIsNew, RV!TypeOK, TransactionsHoldTheirRow, NEW r \in Requests, RV!Commit(r)
    PROVE  \E e \in RV!Event :
             /\ e.by = r /\ e.id = ask[r].id /\ e.id \in Ids /\ e.course = ask[r].course /\ e.status = ask[r].status
             /\ audit' = audit \cup {e} /\ ended'[r] = clock + 1 /\ clock' = clock + 1 /\ ask' = ask
             /\ rows[e.id] # None /\ RV!Matches(e.id, ask[r].kind, ask[r].course) /\ Moderates(r)
             /\ e.status \in RV!Moderation(rows[e.id].kind)
             /\ rows[e.id].submitted \in BOOLEAN /\ RV!Set(e.id, e.status, rows[e.id].submitted)
             /\ AnsweredWith(r, {"ok", "lost"})
  <1> DEFINE e == [by |-> r, id |-> ask[r].id, course |-> ask[r].course, status |-> ask[r].status, at |-> began[r]]
  <1>1. /\ ask[r].id \in Ids /\ ask[r].course \in Courses /\ ask[r].status \in RV!Moderation(ask[r].kind)
        /\ ask[r].kind \in RV!Kinds /\ Moderates(r) /\ RV!Matches(ask[r].id, ask[r].kind, ask[r].course)
    BY DEF RV!Commit, TransactionsHoldTheirRow, Begun, Open
  <1>2. e \in RV!Event
    BY <1>1 DEF RV!Event, RV!TypeOK
  <1>3. rows[ask[r].id].submitted \in BOOLEAN /\ rows[ask[r].id].kind = ask[r].kind /\ rows[ask[r].id] # None
    BY <1>1 DEF RV!TypeOK, RV!Matches, RV!Row
  <1>4. /\ RV!Set(ask[r].id, ask[r].status, rows[ask[r].id].submitted)
        /\ audit' = audit \cup {e} /\ ask' = ask /\ clock' = clock + 1 /\ ended'[r] = clock + 1
    BY DEF RV!Commit, RV!TypeOK
  <1>5. AnsweredWith(r, {"ok", "lost"})
    BY CommitsOnly DEF RV!Commit
  <1>6. e.by = r /\ e.id = ask[r].id /\ e.course = ask[r].course /\ e.status = ask[r].status
    OBVIOUS
  <1> HIDE DEF e
  <1> QED
    BY <1>1, <1>2, <1>3, <1>4, <1>5, <1>6

(* What a step adds to the events.                                         *)
LEMMA AddsOnly ==
    ASSUME NoneIsNew, RV!TypeOK, TransactionsHoldTheirRow, NEW r \in Requests, RV!Changes(r)
    PROVE  \/ audit' = audit
           \/ \E e \in RV!Event : e.by = r /\ audit' = audit \cup {e} /\ (e.id = None \/ RV!Commit(r))
                                  /\ pc'[r] = "done"
  <1> DEFINE Goal == \/ audit' = audit
                     \/ \E e \in RV!Event : e.by = r /\ audit' = audit \cup {e} /\ (e.id = None \/ RV!Commit(r))
                                            /\ pc'[r] = "done"
  <1>1. CASE RV!Commit(r)
    <2>1. PICK e \in RV!Event : e.by = r /\ audit' = audit \cup {e} /\ AnsweredWith(r, {"ok", "lost"})
      BY <1>1, CommitIs
    <2> QED
      BY <1>1, <2>1 DEF AnsweredWith
  <1>2. ASSUME NEW c \in Courses, RV!Publish(r, c) PROVE Goal
    <2>1. PICK t \in 0..clock :
             audit' = audit \cup {[by |-> r, id |-> None, course |-> c, status |-> "promoted", at |-> t]}
      BY <1>2 DEF RV!Publish
    <2> DEFINE e == [by |-> r, id |-> None, course |-> c, status |-> "promoted", at |-> t]
    <2>2. e \in RV!Event /\ e.by = r /\ e.id = None
      BY DEF RV!Event, RV!TypeOK
    <2>3. AnsweredWith(r, {"ok", "lost"})
      BY <1>2, CommitsOnly DEF RV!Publish
    <2> HIDE DEF e
    <2> QED
      BY <1>2, <2>1, <2>2, <2>3 DEF AnsweredWith, e
  <1> QED
    BY <1>1, <1>2 DEF RV!Changes, RV!Refuse, RV!Update, RV!InsertAudit, RV!Abort, RV!Submit, RV!Record, RV!Begin


LEMMA OldStep ==
    ASSUME NoneIsNew, RV!TypeOK, TransactionsHoldTheirRow, EventsAreOld, [RV!Next]_(RV!vars) PROVE EventsAreOld'
  <1>1. ASSUME NEW r \in Requests, RV!Changes(r) \/ RV!Lists(r) PROVE EventsAreOld'
    <2>1. /\ pc[r] # "done" /\ clock' >= clock /\ ended'[r] \in {ended[r], clock'}
          /\ \A q \in Requests : q # r => pc'[q] = pc[q] /\ ended'[q] = ended[q]
      BY <1>1, ActsOnly
    <2>2. \/ audit' = audit
          \/ \E e \in RV!Event : e.by = r /\ audit' = audit \cup {e} /\ pc'[r] = "done"
      BY <1>1, AddsOnly, ListsOnly
    <2>3. clock' \in Nat /\ \A q \in Requests : ended'[q] \in Nat /\ ended[q] <= clock
      BY <1>1, ReviewTypeStep DEF RV!TypeOK, RV!Next, EventsAreOld
    <2>4. \A q \in Requests : ended'[q] <= clock'
      BY <2>1, <2>3 DEF RV!TypeOK
    <2>5. ASSUME NEW e \in audit PROVE pc'[e.by] = "done"
      <3>1. e.by \in Requests /\ pc[e.by] = "done"
        BY DEF RV!TypeOK, RV!Event, EventsAreOld
      <3> QED
        BY <2>1, <3>1
    <2> QED
      BY <2>2, <2>4, <2>5 DEF EventsAreOld
  <1> QED
    BY <1>1 DEF RV!Next, RV!vars, EventsAreOld

(* A row that a step leaves with its events stands where it did.           *)
LEMMA AuditedKept ==
    ASSUME RV!TypeOK, NEW i \in Ids, rows'[i] = rows[i], RV!EventsOf(i)' = RV!EventsOf(i),
           \A e \in audit : ended'[e.by] = ended[e.by], RV!Audited(i)
    PROVE  RV!Audited(i)'
  <1>1. \A e \in RV!EventsOf(i) : ended'[e.by] = ended[e.by]
    BY DEF RV!EventsOf
  <1> QED
    BY <1>1 DEF RV!Audited, RV!Within

LEMMA StatusStep == ASSUME NoneIsNew, ReviewedInv, [RV!Next]_(RV!vars) PROVE RV!StatusIsAudited'
  <1> USE DEF ReviewedInv
  <1>1. ASSUME NEW r \in Requests, RV!Changes(r) \/ RV!Lists(r) PROVE RV!StatusIsAudited'
    <2> SUFFICES ASSUME NEW i \in Ids PROVE RV!Audited(i)'
      BY DEF RV!StatusIsAudited
    <2>0. RV!Audited(i)
      BY DEF RV!StatusIsAudited
    <2>1. \A e \in audit : e.by \in Requests /\ e.by # r /\ ended'[e.by] = ended[e.by]
      BY <1>1, ActsOnly DEF EventsAreOld, RV!TypeOK, RV!Event
    <2>2. ASSUME ~RV!Commit(r) PROVE RV!EventsOf(i)' = RV!EventsOf(i)
      BY <1>1, <2>2, AddsOnly, ListsOnly DEF RV!EventsOf, NoneIsNew
    <2>3. ASSUME rows'[i] = rows[i], ~RV!Commit(r) PROVE RV!Audited(i)'
      BY <2>0, <2>1, <2>2, <2>3, AuditedKept
    <2>4. ASSUME NEW j \in Ids, NEW kind \in RV!Kinds, NEW c \in Courses, RV!Record(r, j, kind, c), i = j
          PROVE  RV!Audited(i)'
      <3>1. RV!EventsOf(i) = {}
        BY <2>0, <2>4 DEF RV!Record, RV!Audited
      <3>2. audit' = audit /\ rows'[i].status = RV!Initial(rows'[i].kind)
        BY <2>4 DEF RV!Record, RV!TypeOK
      <3> QED
        BY <3>1, <3>2 DEF RV!Audited, RV!EventsOf
    <2>5. ASSUME NEW j \in Ids, NEW c \in Courses, RV!Submit(r, j, c) PROVE RV!Audited(i)'
      <3>1. /\ audit' = audit /\ rows'[j] # None /\ rows'[j].kind = "proposal"
            /\ rows'[j].status = "submitted_for_review" /\ rows'[j].submitted = TRUE
            /\ i # j => rows'[i] = rows[i]
        BY <2>5, RowsStay DEF RV!Submit, RV!Matches
      <3>2. CASE i = j
        BY <3>1, <3>2 DEF RV!Audited
      <3>3. CASE i # j
        BY <2>0, <2>1, <3>1, <3>3, AuditedKept DEF RV!EventsOf
      <3> QED
        BY <3>2, <3>3
    <2>6. CASE RV!Commit(r)
      <3>1. PICK e \in RV!Event :
             /\ e.by = r /\ e.id \in Ids
             /\ audit' = audit \cup {e} /\ ended'[r] = clock + 1
             /\ rows[e.id] # None /\ e.status \in RV!Moderation(rows[e.id].kind) /\ e.status = ask[r].status
             /\ rows[e.id].submitted \in BOOLEAN /\ RV!Set(e.id, e.status, rows[e.id].submitted)
        BY <2>6, CommitIs
      <3>2. /\ rows'[e.id] # None /\ rows'[e.id].kind = rows[e.id].kind /\ rows'[e.id].status = e.status
            /\ i # e.id => rows'[i] = rows[i]
            /\ rows'[e.id] \in RV!Row \cup {None}
        BY <3>1, RowsStay DEF RV!Event
      <3>3. CASE i # e.id
        <4>1. RV!EventsOf(i)' = RV!EventsOf(i)
          BY <3>1, <3>3 DEF RV!EventsOf
        <4> QED
          BY <2>0, <2>1, <3>2, <3>3, <4>1, AuditedKept
      <3>4. CASE i = e.id
        <4>1. RV!EventsOf(i)' = RV!EventsOf(i) \cup {e}
          BY <3>1, <3>4 DEF RV!EventsOf
        <4>2. ASSUME NEW f \in RV!EventsOf(i) PROVE f.at < e.at \/ (e.at <= f.at /\ ended'[f.by] < ended'[e.by])
          <5>1. f \in audit /\ f \in RV!Event /\ f.at \in Nat /\ e.at \in Nat
            BY DEF RV!EventsOf, RV!TypeOK, RV!Event
          <5>2. ended'[f.by] = ended[f.by] /\ ended[f.by] \in Nat /\ ended[f.by] <= clock
            BY <2>1, <5>1 DEF EventsAreOld, RV!TypeOK
          <5>3. ended'[f.by] < ended'[e.by]
            BY <3>1, <5>2 DEF RV!TypeOK
          <5> QED
            BY <5>1, <5>3
        <4>3. rows'[i].status = e.status /\ e.status \in RV!Moderation(rows'[i].kind) /\ rows'[i] # None
          BY <3>1, <3>2, <3>4
        <4>4. e \in RV!EventsOf(i)' /\ \A f \in RV!EventsOf(i)' \ {e} : f.at < e.at \/ RV!Within(f, e)'
          BY <4>1, <4>2 DEF RV!Within
        <4>5. /\ rows'[i].status # RV!Initial(rows'[i].kind) /\ rows'[i].status # "submitted_for_review"
              /\ rows'[i].status \in RV!Moderation(rows'[i].kind)
          BY <3>2, <3>4, <4>3
        <4> QED
          BY <4>3, <4>4, <4>5 DEF RV!Audited
      <3> QED
        BY <3>3, <3>4
    <2>7. ASSUME NEW j \in Ids, NEW kind \in RV!Kinds, NEW c \in Courses, RV!Record(r, j, kind, c), i # j
          PROVE  RV!Audited(i)'
      <3>1. audit' = audit /\ rows'[i] = rows[i]
        BY <2>7 DEF RV!Record, RV!TypeOK
      <3> QED
        BY <2>0, <2>1, <3>1, AuditedKept DEF RV!EventsOf
    <2>8. ASSUME rows' = rows PROVE RV!Audited(i)'
      BY <2>3, <2>6, <2>8
    <2> QED
      BY <1>1, <2>4, <2>5, <2>6, <2>7, <2>8, ListsOnly
         DEF RV!Changes, RV!Refuse, RV!Update, RV!InsertAudit, RV!Abort, RV!Publish, RV!Begin
  <1> QED
    BY <1>1 DEF RV!Next, RV!vars, RV!StatusIsAudited, RV!Audited, RV!EventsOf, RV!Within

(* What the rows keep in any step.                                         *)
LEMMA StepStays ==
    ASSUME NoneIsNew, RV!TypeOK, TransactionsHoldTheirRow, [RV!Next]_(RV!vars)
    PROVE  audit \subseteq audit' /\ \A i \in Ids : RV!Stays(i)
  <1>1. audit \subseteq audit'
    BY AddsOnly, ListsOnly DEF RV!Next, RV!vars
  <1> SUFFICES ASSUME NEW i \in Ids PROVE RV!Stays(i)
    BY <1>1
  <1>2. ASSUME rows[i] # None => rows'[i] = rows[i] PROVE RV!Stays(i)
    BY <1>2 DEF RV!Stays
  <1>3. ASSUME NEW r \in Requests, NEW j \in Ids, NEW kind \in RV!Kinds, NEW c \in Courses, RV!Record(r, j, kind, c)
        PROVE  RV!Stays(i)
    BY <1>2, <1>3 DEF RV!Record, RV!TypeOK
  <1>4. ASSUME NEW r \in Requests, NEW j \in Ids, NEW c \in Courses, RV!Submit(r, j, c) PROVE RV!Stays(i)
    BY <1>4, RowsStay DEF RV!Submit, RV!Matches, RV!Stays
  <1>5. ASSUME NEW r \in Requests, RV!Commit(r) PROVE RV!Stays(i)
    <2>1. PICK e \in RV!Event :
             /\ e.id \in Ids /\ rows[e.id] # None
             /\ rows[e.id].submitted \in BOOLEAN /\ RV!Set(e.id, e.status, rows[e.id].submitted)
      BY <1>5, CommitIs
    <2>2. /\ rows'[e.id] # None /\ rows'[e.id].kind = rows[e.id].kind /\ rows'[e.id].course = rows[e.id].course
          /\ rows'[e.id].submitted = rows[e.id].submitted
          /\ i # e.id => rows'[i] = rows[i]
      BY <2>1, RowsStay DEF RV!Event
    <2> QED
      BY <2>2 DEF RV!Stays
  <1> QED
    BY <1>2, <1>3, <1>4, <1>5, ListsOnly
       DEF RV!Next, RV!Changes, RV!Refuse, RV!Update, RV!InsertAudit, RV!Abort, RV!Publish, RV!Begin, RV!vars

LEMMA TrailStep == ASSUME NoneIsNew, ReviewedInv, [RV!Next]_(RV!vars) PROVE RV!TrailIsTruthful'
  <1> USE DEF ReviewedInv
  <1>a. \A i \in Ids : rows[i] # None => rows'[i] # None /\ rows'[i].kind = rows[i].kind /\ rows'[i].course = rows[i].course
    BY StepStays DEF RV!Stays
  (* An event that was there is of a request that is through.              *)
  <1>b. ASSUME NEW r \in Requests, RV!Changes(r) \/ RV!Lists(r), NEW e \in audit
        PROVE  /\ e.by # r /\ e.by \in Requests /\ e.id \in Ids \cup {None}
               /\ e.id # None => (RV!Tells(e))'
    <2>1. e.by # r /\ e.by \in Requests /\ e.id \in Ids \cup {None}
      BY <1>b, ActsOnly DEF EventsAreOld, RV!TypeOK, RV!Event
    <2>2. ask'[e.by] = ask[e.by] /\ reply'[e.by] = reply[e.by]
      BY <1>b, <2>1, ActsOnly
    <2>3. e.id # None => RV!Tells(e)
      BY DEF RV!TrailIsTruthful
    <2> QED
      BY <2>1, <2>2, <2>3, <1>a DEF RV!Tells, RV!Moderated
  <1>1. ASSUME NEW r \in Requests, RV!Changes(r) \/ RV!Lists(r), audit' = audit, RV!Moderated(r)' => RV!Moderated(r)
        PROVE  RV!TrailIsTruthful'
    <2>1. \A q \in Requests : RV!Moderated(q)' => RV!Moderated(q)
      BY <1>1, ActsOnly DEF RV!Moderated
    <2> QED
      BY <1>1, <1>b, <2>1 DEF RV!TrailIsTruthful
  <1>2. ASSUME NEW r \in Requests, NEW e \in RV!Event, RV!Changes(r), e.by = r, audit' = audit \cup {e},
               e.id # None => (RV!Tells(e))'
        PROVE  RV!TrailIsTruthful'
    <2>1. \A f \in audit' : f.id # None => (RV!Tells(f))'
      BY <1>2, <1>b
    <2>2. \A f, g \in audit' : f.by = g.by => f = g
      BY <1>2, <1>b DEF RV!TrailIsTruthful
    <2>3. ASSUME NEW q \in Requests, RV!Moderated(q)' PROVE \E f \in audit' : f.by = q
      <3>1. CASE q = r
        BY <1>2, <3>1
      <3>2. CASE q # r
        BY <1>2, <2>3, <3>2, ActsOnly DEF RV!Moderated, RV!TrailIsTruthful
      <3> QED
        BY <3>1, <3>2
    <2> QED
      BY <2>1, <2>2, <2>3 DEF RV!TrailIsTruthful
  <1>3. ASSUME NEW r \in Requests, RV!Changes(r), RV!Commit(r) PROVE RV!TrailIsTruthful'
    <2>1. PICK e \in RV!Event :
             /\ e.by = r /\ e.id = ask[r].id /\ e.id \in Ids /\ e.course = ask[r].course /\ e.status = ask[r].status
             /\ audit' = audit \cup {e} /\ ask' = ask
             /\ rows[e.id] # None /\ RV!Matches(e.id, ask[r].kind, ask[r].course) /\ Moderates(r)
             /\ AnsweredWith(r, {"ok", "lost"})
      BY <1>3, CommitIs
    <2>2. (RV!Tells(e))'
      <3>1. rows'[e.id] # None /\ rows'[e.id].kind = ask[r].kind /\ rows'[e.id].course = ask[r].course
        BY <2>1, <1>a DEF RV!Matches
      <3>2. ask'[r].op = "moderate" /\ reply'[r] \in {"ok", "lost"}
        BY <2>1 DEF Moderates, AnsweredWith
      <3> QED
        BY <2>1, <3>1, <3>2 DEF RV!Tells, RV!Moderated
    <2> QED
      BY <1>2, <1>3, <2>1, <2>2
  <1>4. ASSUME NEW r \in Requests, RV!Changes(r), ~RV!Commit(r), audit' # audit PROVE RV!TrailIsTruthful'
    <2>1. PICK e \in RV!Event : e.by = r /\ audit' = audit \cup {e} /\ e.id = None
      BY <1>4, AddsOnly
    <2> QED
      BY <1>2, <1>4, <2>1
  (* A step that does not commit leaves no moderation answered with ok or  *)
  (* lost that was not.                                                    *)
  <1>5. ASSUME NEW r \in Requests, RV!Changes(r), ~RV!Commit(r), RV!Moderated(r)' PROVE FALSE
    <2>1. CASE RV!Refuse(r)
      BY <2>1, <1>5 DEF RV!Refuse, RV!Answer, RV!Moderated, RV!TypeOK
    <2>2. CASE RV!Update(r)
      BY <2>2, <1>5 DEF RV!Update, RV!Moderated, TransactionsHoldTheirRow, RV!TypeOK
    <2>3. CASE RV!InsertAudit(r)
      BY <2>3, <1>5 DEF RV!InsertAudit, RV!Moderated, TransactionsHoldTheirRow, RV!TypeOK
    <2>4. CASE RV!Abort(r)
      BY <2>4, <1>5 DEF RV!Abort, RV!Answer, RV!Moderated, RV!TypeOK
    <2>5. ASSUME NEW c \in Courses, RV!Publish(r, c) PROVE FALSE
      BY <2>5, <1>5, AsksOnly DEF RV!Publish, RV!Moderated
    <2>6. ASSUME NEW i \in Ids, NEW c \in Courses, RV!Submit(r, i, c) PROVE FALSE
      BY <2>6, <1>5, AsksOnly DEF RV!Submit, RV!Moderated
    <2>7. ASSUME NEW i \in Ids, NEW c \in Courses, NEW kind \in RV!Kinds, RV!Record(r, i, kind, c) PROVE FALSE
      BY <2>7, <1>5, AsksOnly, RV!Initial(kind) \in RV!Statuses DEF RV!Record, RV!Moderated
    <2>8. ASSUME NEW i \in Ids, NEW c \in Courses, NEW kind \in RV!Kinds, NEW s \in RV!Moderation(kind), RV!Begin(r, i, kind, s, c)
          PROVE  FALSE
      BY <2>8, <1>5 DEF RV!Begin, RV!Asks, RV!Moderated, TransactionsHoldTheirRow, RV!TypeOK
    <2> QED
      BY <1>5, <2>1, <2>2, <2>3, <2>4, <2>5, <2>6, <2>7, <2>8 DEF RV!Changes
  <1>6. ASSUME NEW r \in Requests, RV!Lists(r) PROVE RV!TrailIsTruthful'
    <2>1. audit' = audit /\ ~RV!Moderated(r)'
      BY <1>6, ListsOnly DEF RV!Moderated
    <2> QED
      BY <1>1, <1>6, <2>1
  <1>7. ASSUME NEW r \in Requests, RV!Changes(r) PROVE RV!TrailIsTruthful'
    BY <1>1, <1>3, <1>4, <1>5, <1>7
  <1>8. CASE UNCHANGED RV!vars
    BY <1>8 DEF RV!vars, RV!TrailIsTruthful, RV!Tells, RV!Moderated
  <1> QED
    BY <1>6, <1>7, <1>8 DEF RV!Next

LEMMA ReviewInvariance == ASSUME NoneIsNew PROVE RV!Spec => []ReviewedInv
  <1>1. ReviewedInv /\ [RV!Next]_(RV!vars) => ReviewedInv'
    BY ReviewTypeStep, TransactionStep, OldStep, StatusStep, TrailStep DEF ReviewedInv
  <1> QED
    BY ReviewInit, <1>1, PTL DEF RV!Spec

(* Every variable keeps its type.                                          *)
THEOREM ReviewTypeCorrect == ASSUME NoneIsNew PROVE RV!Spec => []RV!TypeOK
  BY ReviewInvariance, PTL DEF ReviewedInv

(* Moderations of one row may overlap, and the transaction of any may fail *)
(* or lose its acknowledgement: the latest event by created_at says where  *)
(* the row stands, unless it is of a moderation that ran within the one    *)
(* that does, or the row was submitted again.                              *)
THEOREM AuditTellsTheStatus == ASSUME NoneIsNew PROVE RV!Spec => []RV!StatusIsAudited
  BY ReviewInvariance, PTL DEF ReviewedInv

(* Events stand for moderations that were committed, one each, and every   *)
(* moderation that was answered with ok has its event.                     *)
THEOREM AuditIsTruthful == ASSUME NoneIsNew PROVE RV!Spec => []RV!TrailIsTruthful
  BY ReviewInvariance, PTL DEF ReviewedInv

(* No operation removes a row or an event, moves a row, or takes a         *)
(* submission back.                                                        *)
THEOREM TracesStay == ASSUME NoneIsNew PROVE RV!Spec => RV!NothingIsUndone
  <1>1. ReviewedInv /\ [RV!Next]_(RV!vars) => [audit \subseteq audit' /\ \A i \in Ids : RV!Stays(i)]_(RV!vars)
    BY StepStays DEF ReviewedInv
  <1> QED
    BY ReviewInvariance, <1>1, PTL DEF RV!Spec, RV!NothingIsUndone

(* What a listing under way has read is still in its course, and the event *)
(* behind it is in the table it is about to read.                          *)
HasEvent(i, row) == row.status \in RV!Moderation(row.kind) => \E e \in audit : RV!Backs(e, i, row) /\ e.course = row.course

Read(r, i) ==
    seen[r][i] # None =>
        /\ seen[r][i].course = ask[r].course
        /\ pc[r] # "done" => HasEvent(i, seen[r][i])
        /\ reply[r] = "ok" => RV!Backed(i, seen[r][i], shown[r])

ListingsAreBacked ==
    \A r \in Requests :
        /\ pc[r] \in {"feedback", "proposals"} => ask[r].op = "list"
        /\ pc[r] = "idle" => ask[r].op # "list" /\ \A i \in Ids : seen[r][i] = None
        /\ ask[r].op = "list" => /\ pc[r] \in {"feedback", "proposals", "done"} /\ \A i \in Ids : Read(r, i)
                                 /\ reply[r] = "ok" => \A e \in shown[r] : e.course = ask[r].course

LEMMA RowHasEvent ==
    ASSUME NoneIsNew, ReviewedInv, NEW i \in Ids, rows[i] # None PROVE HasEvent(i, rows[i])
  <1> SUFFICES ASSUME rows[i].status \in RV!Moderation(rows[i].kind)
               PROVE  \E e \in audit : RV!Backs(e, i, rows[i]) /\ e.course = rows[i].course
    BY DEF HasEvent
  <1>1. rows[i] \in RV!Row /\ RV!Audited(i)
    BY DEF ReviewedInv, RV!TypeOK, RV!StatusIsAudited
  <1>2. rows[i].status # RV!Initial(rows[i].kind) /\ rows[i].status # "submitted_for_review"
    BY <1>1 DEF RV!Row
  <1>3. PICK e \in RV!EventsOf(i) : e.status = rows[i].status
    BY <1>1, <1>2 DEF RV!Audited
  <1>4. e \in audit /\ e.id = i /\ e.id # None
    BY <1>3 DEF RV!EventsOf, NoneIsNew
  <1>5. e.course = rows[i].course
    BY <1>4 DEF ReviewedInv, RV!TrailIsTruthful, RV!Tells
  <1> QED
    BY <1>3, <1>4, <1>5 DEF RV!Backs

(* A step of another operation touches no listing.                         *)
LEMMA ChangesOnly ==
    ASSUME ReviewedInv, ListingsAreBacked, NEW r \in Requests, RV!Changes(r)
    PROVE  ask'[r].op # "list" /\ pc'[r] \in {"begun", "updated", "audited", "done"}
  <1> USE DEF ReviewedInv, RV!TypeOK, RV!Answer, RV!Committed, RV!Asks
  <1> DEFINE Goal == ask'[r].op # "list" /\ pc'[r] \in {"begun", "updated", "audited", "done"}
  <1>1. CASE RV!Refuse(r)
    BY <1>1 DEF RV!Refuse, ListingsAreBacked
  <1>2. CASE RV!InsertAudit(r)
    BY <1>2 DEF RV!InsertAudit, TransactionsHoldTheirRow, Begun, Moderates
  <1>3. CASE RV!Commit(r)
    BY <1>3 DEF RV!Commit, TransactionsHoldTheirRow, Begun, Moderates
  <1>4. CASE RV!Abort(r)
    BY <1>4 DEF RV!Abort, TransactionsHoldTheirRow, Begun, Moderates
  <1>5. CASE RV!Update(r)
    BY <1>5 DEF RV!Update, TransactionsHoldTheirRow, Begun, Moderates
  <1>6. ASSUME NEW i \in Ids, NEW c \in Courses, RV!Submit(r, i, c) PROVE Goal
    BY <1>6 DEF RV!Submit
  <1>7. ASSUME NEW i \in Ids, NEW c \in Courses, NEW kind \in RV!Kinds, RV!Record(r, i, kind, c) PROVE Goal
    BY <1>7 DEF RV!Record
  <1>8. ASSUME NEW i \in Ids, NEW c \in Courses, NEW kind \in RV!Kinds, NEW s \in RV!Moderation(kind), RV!Begin(r, i, kind, s, c)
        PROVE  Goal
    BY <1>8 DEF RV!Begin
  <1>9. ASSUME NEW c \in Courses, RV!Publish(r, c) PROVE Goal
    BY <1>9 DEF RV!Publish
  <1> QED
    BY <1>1, <1>2, <1>3, <1>4, <1>5, <1>6, <1>7, <1>8, <1>9 DEF RV!Changes

LEMMA ListingStep ==
    ASSUME NoneIsNew, ReviewedInv, ListingsAreBacked, [RV!Next]_(RV!vars) PROVE ListingsAreBacked'
  <1> SUFFICES ASSUME NEW q \in Requests
               PROVE  /\ pc'[q] \in {"feedback", "proposals"} => ask'[q].op = "list"
                      /\ pc'[q] = "idle" => ask'[q].op # "list" /\ \A i \in Ids : seen'[q][i] = None
                      /\ ask'[q].op = "list" => /\ pc'[q] \in {"feedback", "proposals", "done"}
                                                /\ \A i \in Ids : Read(q, i)'
                                                /\ reply'[q] = "ok" => \A e \in shown'[q] : e.course = ask'[q].course
    BY DEF ListingsAreBacked
  <1> DEFINE Goal == /\ pc'[q] \in {"feedback", "proposals"} => ask'[q].op = "list"
                     /\ pc'[q] = "idle" => ask'[q].op # "list" /\ \A i \in Ids : seen'[q][i] = None
                     /\ ask'[q].op = "list" => /\ pc'[q] \in {"feedback", "proposals", "done"}
                                               /\ \A i \in Ids : Read(q, i)'
                                               /\ reply'[q] = "ok" => \A e \in shown'[q] : e.course = ask'[q].course
  <1>0. audit \subseteq audit'
    BY StepStays DEF ReviewedInv
  (* A step of another request, or one that is not of a listing.           *)
  <1>1. ASSUME pc'[q] = pc[q], ask'[q] = ask[q], reply'[q] = reply[q], seen'[q] = seen[q], shown'[q] = shown[q]
        PROVE  Goal
    <2>1. ASSUME NEW i \in Ids, Read(q, i) PROVE Read(q, i)'
      BY <1>0, <1>1, <2>1 DEF Read, HasEvent, RV!Backs, RV!Backed
    <2> QED
      BY <1>1, <2>1 DEF ListingsAreBacked
  <1>2. ASSUME NEW r \in Requests, RV!Changes(r) PROVE Goal
    <2>1. seen' = seen /\ shown' = shown
      BY <1>2 DEF RV!Changes
    <2>2. CASE q # r
      <3>1. pc'[q] = pc[q] /\ ask'[q] = ask[q] /\ reply'[q] = reply[q]
        BY <1>2, <2>2, ActsOnly DEF ReviewedInv
      <3> QED
        BY <1>1, <2>1, <3>1
    <2>3. CASE q = r
      <3>1. ask'[q].op # "list" /\ pc'[q] \in {"begun", "updated", "audited", "done"}
        BY <1>2, <2>3, ChangesOnly
      <3> QED
        BY <3>1
    <2> QED
      BY <2>2, <2>3
  <1>3. ASSUME NEW r \in Requests, RV!Lists(r) PROVE Goal
    <2>1. CASE q # r
      <3>1. seen'[q] = seen[q] /\ shown'[q] = shown[q]
        BY <1>3, <2>1 DEF RV!Lists, RV!ListFeedback, RV!ListProposals, RV!ListAudit, RV!ListFails, RV!Reads, ReviewedInv, RV!TypeOK
      <3>2. pc'[q] = pc[q] /\ ask'[q] = ask[q] /\ reply'[q] = reply[q]
        BY <1>3, <2>1, ListsOnly DEF ReviewedInv
      <3> QED
        BY <1>1, <3>1, <3>2
    <2>2. CASE q = r
      <3> USE <2>2
      <3>0. audit' = audit
        BY <1>3, ListsOnly DEF ReviewedInv
      (* What a query of this step reads.                                  *)
      <3>a. ASSUME NEW kind \in RV!Kinds, NEW c, RV!Reads(q, kind, c), ask'[q].course = c, reply'[q] # "ok", NEW i \in Ids,
                   seen[q][i] # None => seen[q][i].course = c /\ HasEvent(i, seen[q][i])
            PROVE  Read(q, i)'
        <4>1. seen'[q][i] = IF RV!InCourse(i, c) /\ rows[i].kind = kind THEN rows[i] ELSE seen[q][i]
          BY <3>a DEF RV!Reads, ReviewedInv, RV!TypeOK
        <4>2. seen'[q][i] # None => seen'[q][i].course = c /\ HasEvent(i, seen'[q][i])
          BY <3>a, <4>1, RowHasEvent DEF RV!InCourse
        <4> QED
          BY <3>0, <3>a, <4>2 DEF Read, HasEvent, RV!Backs
      <3>1. ASSUME NEW c \in Courses, RV!ListFeedback(q, c) PROVE Goal
        <4>1. /\ pc[q] = "idle" /\ pc'[q] = "feedback" /\ ask'[q].op = "list" /\ ask'[q].course = c
              /\ reply'[q] = reply[q] /\ RV!Reads(q, "feedback", c)
          BY <3>1 DEF RV!ListFeedback, ReviewedInv, RV!TypeOK
        <4>2. reply'[q] # "ok"
          BY <4>1 DEF ReviewedInv, TransactionsHoldTheirRow
        <4>3. \A i \in Ids : seen[q][i] = None
          BY <4>1 DEF ListingsAreBacked
        <4> QED
          BY <3>a, <4>1, <4>2, <4>3
      <3>2. CASE RV!ListProposals(q)
        <4>1. /\ pc[q] = "feedback" /\ pc'[q] = "proposals" /\ ask' = ask
              /\ reply'[q] = reply[q] /\ RV!Reads(q, "proposal", ask[q].course)
          BY <3>2 DEF RV!ListProposals, ReviewedInv, RV!TypeOK
        <4>2. reply'[q] # "ok" /\ ask[q].op = "list"
          BY <4>1 DEF ReviewedInv, TransactionsHoldTheirRow, ListingsAreBacked
        <4>3. \A i \in Ids : seen[q][i] # None => seen[q][i].course = ask[q].course /\ HasEvent(i, seen[q][i])
          BY <4>1, <4>2 DEF ListingsAreBacked, Read
        <4> QED
          BY <3>a, <4>1, <4>2, <4>3
      <3>3. CASE RV!ListAudit(q)
        <4>1. pc[q] = "proposals" /\ pc'[q] = "done" /\ ask' = ask /\ seen' = seen
          BY <3>3 DEF RV!ListAudit, RV!Answer, ReviewedInv, RV!TypeOK
        <4>2. ask[q].op = "list"
          BY <4>1 DEF ListingsAreBacked
        <4> DEFINE events == {e \in audit : e.course = ask[q].course}
        <4>3. RV!Latest(shown'[q], events)
          BY <3>3 DEF RV!ListAudit, ReviewedInv, RV!TypeOK
        <4>4. ASSUME NEW i \in Ids, seen[q][i] # None, seen[q][i].status \in RV!Moderation(seen[q][i].kind)
              PROVE  \E e \in audit : /\ RV!Backs(e, i, seen[q][i])
                                      /\ \/ e \in shown'[q]
                                         \/ RV!Full(shown'[q]) /\ \A f \in shown'[q] : e.at <= f.at
          <5>1. seen[q][i].course = ask[q].course /\ HasEvent(i, seen[q][i])
            BY <4>1, <4>2, <4>4 DEF ListingsAreBacked, Read
          <5>2. PICK e \in audit : RV!Backs(e, i, seen[q][i]) /\ e.course = seen[q][i].course
            BY <4>4, <5>1 DEF HasEvent
          <5>3. e \in events
            BY <5>1, <5>2
          <5> HIDE DEF events
          <5>4. e \in shown'[q] \/ (RV!Full(shown'[q]) /\ \A f \in shown'[q] : e.at <= f.at)
            BY <4>3, <5>3 DEF RV!Latest
          <5> QED
            BY <5>2, <5>4
        <4>5. ASSUME NEW i \in Ids PROVE Read(q, i)'
          <5>1. seen[q][i] # None => seen[q][i].course = ask[q].course
            BY <4>1, <4>2 DEF ListingsAreBacked, Read
          <5> QED
            BY <3>0, <4>1, <4>4, <5>1 DEF Read, RV!Backed, RV!Backs
        <4>6. \A e \in shown'[q] : e.course = ask[q].course
          BY <4>3 DEF RV!Latest
        <4> QED
          BY <4>1, <4>2, <4>5, <4>6
      <3>4. CASE RV!ListFails(q)
        <4>1. /\ pc[q] \in {"feedback", "proposals"} /\ pc'[q] = "done" /\ ask' = ask /\ seen' = seen /\ shown' = shown
              /\ reply'[q] = "error"
          BY <3>4 DEF RV!ListFails, RV!Answer, ReviewedInv, RV!TypeOK
        <4>2. ask[q].op = "list" /\ \A i \in Ids : Read(q, i)
          BY <4>1 DEF ListingsAreBacked
        <4>3. \A i \in Ids : Read(q, i)'
          BY <4>1, <4>2 DEF Read
        <4> QED
          BY <4>1, <4>2, <4>3
      <3> QED
        BY <1>3, <3>1, <3>2, <3>3, <3>4 DEF RV!Lists
    <2> QED
      BY <2>1, <2>2
  <1>4. CASE UNCHANGED RV!vars
    BY <1>1, <1>4 DEF RV!vars
  <1> QED
    BY <1>2, <1>3, <1>4 DEF RV!Next

(* The rows of a listing are read before their events, and a moderation    *)
(* commits both at once: what moderates the course between the queries     *)
(* cannot make a listing show a status without its event, unless as many   *)
(* events that are no earlier fill it.                                     *)
THEOREM ListingsTellWhy == ASSUME NoneIsNew PROVE RV!Spec => []RV!ListingIsBacked
  <1>1. RV!Init => ListingsAreBacked
    <2> SUFFICES ASSUME RV!Init, NEW r \in Requests
                 PROVE  pc[r] = "idle" /\ ask[r].op = "none" /\ \A i \in Ids : seen[r][i] = None
      BY DEF ListingsAreBacked
    <2> QED
      BY DEF RV!Init, RV!NoAsk
  <1>2. ReviewedInv /\ ListingsAreBacked /\ [RV!Next]_(RV!vars) => ListingsAreBacked'
    BY ListingStep
  <1>3. ListingsAreBacked => RV!ListingIsBacked
    BY DEF ListingsAreBacked, RV!ListingIsBacked, Read
  <1> QED
    BY ReviewInvariance, <1>1, <1>2, <1>3, PTL DEF RV!Spec

=============================================================================
