------------------------------ MODULE RunStore ------------------------------
(***************************************************************************)
(* internal/store/study_pipeline.go: recording, selecting, publishing and  *)
(* unpublishing study-pipeline runs in PostgreSQL.                         *)
(*                                                                         *)
(* Each request is one HTTP or CLI call of the store and runs once.  A     *)
(* transaction is modelled by its statements: its writes are visible only  *)
(* after its commit, the upsert or delete of a selection row holds the     *)
(* row's lock until the transaction ends (READ COMMITTED, the driver's     *)
(* default), and every transaction may fail at any statement, or commit    *)
(* while the answer to the commit is lost.                                 *)
(*                                                                         *)
(* Abstracted: the payload of a run (engine, hashes, artifact references,  *)
(* checklist) and the per-user resource, task-link and summary rows        *)
(* written by the same transaction; no caller sets a source id, a resource *)
(* id or private ownership, so a selection key is a course and a stage.    *)
(***************************************************************************)
EXTENDS Naturals

CONSTANTS Requests,   \* the calls that may be made, each at most once
          Courses, Stages,
          None        \* an absent row

Keys == [course : Courses, stage : Stages]
Statuses == {"succeeded", "failed"}
RunRow == [key : Keys, status : Statuses]

(* A run's id is the request that inserted it: the table's ids are fresh   *)
(* UUIDs.  "auto" is the reason "latest successful run", "manual" the      *)
(* reason a reviewer gave or the default.                                  *)
Selection == [run : Requests, how : {"auto", "manual"}]
Ops == {"record", "select", "publish", "unpublish"}
AuditEntry == [by : Requests, action : {"published", "unpublished"}, run : Requests]

ASSUME NoneIsAbsent == /\ None \notin Requests /\ None \notin Ops
                       /\ None \notin RunRow /\ None \notin Selection

VARIABLES runs,      \* study_pipeline_runs: committed rows
          active,    \* active_run_selections: committed rows
          audit,     \* study_pipeline_audit_events: committed rows
          holder,    \* the transaction holding the row lock of a selection
          clock,     \* the database clock, advanced by recording transactions
          created,   \* created_at: the time the recording transaction began
          op, pc,    \* each request's operation and where its handler is
          target,    \* the run the request names (its own, when recording)
          row,       \* the run row the handler holds in memory
          reply,     \* what the caller was told
          ended,     \* history: when the run's transaction committed
          applied    \* history: requests whose selection change committed

tables == <<runs, active, audit>>
history == <<ended, applied>>
vars == <<runs, active, audit, holder, clock, created, op, pc, target, row,
          reply, ended, applied>>

TypeOK ==
    /\ runs \in [Requests -> RunRow \cup {None}]
    /\ active \in [Keys -> Selection \cup {None}]
    /\ audit \subseteq AuditEntry
    /\ holder \in [Keys -> Requests \cup {None}]
    /\ clock \in Nat
    /\ created \in [Requests -> Nat]
    /\ op \in [Requests -> Ops \cup {None}]
    /\ pc \in [Requests -> {"idle", "open", "locked", "auditing", "done"}]
    /\ target \in [Requests -> Requests]
    /\ row \in [Requests -> RunRow \cup {None}]
    /\ reply \in [Requests -> {"none", "ok", "error", "lost"}]
    /\ ended \in [Requests -> Nat]
    /\ applied \subseteq Requests

Init ==
    /\ runs = [q \in Requests |-> None]
    /\ active = [k \in Keys |-> None]
    /\ audit = {}
    /\ holder = [k \in Keys |-> None]
    /\ clock = 0
    /\ created = [q \in Requests |-> 0]
    /\ op = [q \in Requests |-> None]
    /\ pc = [q \in Requests |-> "idle"]
    /\ target = [q \in Requests |-> q]
    /\ row = [q \in Requests |-> None]
    /\ reply = [q \in Requests |-> "none"]
    /\ ended = [q \in Requests |-> 0]
    /\ applied = {}

-----------------------------------------------------------------------------
(* Helpers *)

Answer(q, r) == reply' = [reply EXCEPT ![q] = r] /\ pc' = [pc EXCEPT ![q] = "done"]

(* Ending a transaction frees the rows it locked.                          *)
Released(q) == [k \in Keys |-> IF holder[k] = q THEN None ELSE holder[k]]

Locked(q) == \E k \in Keys : holder[k] = q

(* Slip for the mutants: the upsert does nothing on conflict.              *)
UpsertedFirstWins(q, how) ==
    [active EXCEPT ![row[q].key] = IF @ = None THEN [run |-> target[q], how |-> how] ELSE @]

(* The selection row the upsert leaves behind.                             *)
Upserted(q, how) == [active EXCEPT ![row[q].key] = [run |-> target[q], how |-> how]]

(* The server may commit while the connection is lost: the call then       *)
(* reports an error although its effect is there.                          *)
CommitReplies == {"ok", "lost"}

-----------------------------------------------------------------------------
(* RecordStudyPipeline *)

(* The transaction begins (its now() is the run's created_at) and inserts  *)
(* the run; nobody else sees the row before the commit.                    *)
RecordBegin(q, newRow) ==
    /\ pc[q] = "idle"
    /\ clock' = clock + 1
    /\ created' = [created EXCEPT ![q] = clock + 1]
    /\ op' = [op EXCEPT ![q] = "record"]
    /\ row' = [row EXCEPT ![q] = newRow]
    /\ pc' = [pc EXCEPT ![q] = "open"]
    /\ UNCHANGED <<runs, active, audit, holder, target, reply, ended, applied>>

(* Slip: the selection is written outside the run's transaction.           *)
UpsertAutocommitted(q) ==
    /\ pc[q] = "open"
    /\ op[q] \in {"select", "publish"} \/ (op[q] = "record" /\ row[q].status = "succeeded")
    /\ holder[row[q].key] = None
    /\ active' = Upserted(q, "auto")
    /\ holder' = [holder EXCEPT ![row[q].key] = q]
    /\ pc' = [pc EXCEPT ![q] = "locked"]
    /\ UNCHANGED <<runs, audit, clock, created, op, target, row, reply, history>>

(* upsertActiveStudyPipelineRun: INSERT ... ON CONFLICT DO UPDATE waits    *)
(* for the row lock.  A recording reaches it only with a succeeded run.    *)
Upsert(q) ==
    /\ pc[q] = "open"
    /\ op[q] \in {"select", "publish"} \/ (op[q] = "record" /\ row[q].status = "succeeded")
    /\ holder[row[q].key] = None
    /\ holder' = [holder EXCEPT ![row[q].key] = q]
    /\ pc' = [pc EXCEPT ![q] = "locked"]
    /\ UNCHANGED <<tables, clock, created, op, target, row, reply, history>>

(* Slip: the status is not looked at before selecting the run.             *)
RecordCommitAnyStatus(q, r) ==
    /\ op[q] = "record" /\ pc[q] \in {"open", "locked"}
    /\ runs' = [runs EXCEPT ![q] = row[q]]
    /\ active' = Upserted(q, "auto") /\ applied' = applied \cup {q}
    /\ clock' = clock + 1
    /\ ended' = [ended EXCEPT ![q] = clock + 1]
    /\ holder' = Released(q)
    /\ Answer(q, r)
    /\ UNCHANGED <<audit, created, op, target, row>>

(* The commit makes the run and its selection visible together.            *)
RecordCommit(q, r) ==
    /\ op[q] = "record"
    /\ pc[q] = IF row[q].status = "succeeded" THEN "locked" ELSE "open"
    /\ runs' = [runs EXCEPT ![q] = row[q]]
    /\ IF row[q].status = "succeeded"
       THEN active' = Upserted(q, "auto") /\ applied' = applied \cup {q}
       ELSE UNCHANGED <<active, applied>>
    /\ clock' = clock + 1
    /\ ended' = [ended EXCEPT ![q] = clock + 1]
    /\ holder' = Released(q)
    /\ Answer(q, r)
    /\ UNCHANGED <<audit, created, op, target, row>>

-----------------------------------------------------------------------------
(* SelectActiveStudyPipelineRun and PublishStudyPipelineRun *)

(* The run is read outside the transaction, by id and course.              *)
ReadTarget(q, o, c, r) ==
    /\ pc[q] = "idle"
    /\ runs[r] # None /\ runs[r].key.course = c
    /\ op' = [op EXCEPT ![q] = o]
    /\ target' = [target EXCEPT ![q] = r]
    /\ row' = [row EXCEPT ![q] = runs[r]]
    /\ pc' = [pc EXCEPT ![q] = "open"]
    /\ UNCHANGED <<tables, holder, clock, created, reply, history>>

(* A blank or unknown id, or another course's run: sql.ErrNoRows.          *)
TargetNotFound(q, o, c, r) ==
    /\ pc[q] = "idle"
    /\ runs[r] # None => runs[r].key.course # c
    /\ op' = [op EXCEPT ![q] = o]
    /\ Answer(q, "error")
    /\ UNCHANGED <<tables, holder, clock, created, target, row, history>>

SelectCommit(q, r) ==
    /\ pc[q] = "locked" /\ op[q] = "select"
    /\ active' = Upserted(q, "manual")
    /\ applied' = applied \cup {q}
    /\ holder' = Released(q)
    /\ Answer(q, r)
    /\ UNCHANGED <<runs, audit, clock, created, op, target, row, ended>>

(* Slip: the transaction is rolled back by its defer, never committed.     *)
PublishSelectUncommitted(q) ==
    /\ pc[q] = "locked" /\ op[q] = "publish"
    /\ holder' = Released(q)
    /\ pc' = [pc EXCEPT ![q] = "auditing"]
    /\ UNCHANGED <<tables, clock, created, op, target, row, reply, history>>

(* Publishing first commits the selection; only then, with no transaction  *)
(* around both, it inserts the audit event.                                *)
PublishSelectCommit(q) ==
    /\ pc[q] = "locked" /\ op[q] = "publish"
    /\ active' = Upserted(q, "manual")
    /\ applied' = applied \cup {q}
    /\ holder' = Released(q)
    /\ pc' = [pc EXCEPT ![q] = "auditing"]
    /\ UNCHANGED <<runs, audit, clock, created, op, target, row, reply, ended>>

PublishAudit(q, r) ==
    /\ pc[q] = "auditing"
    /\ audit' = audit \cup {[by |-> q, action |-> "published", run |-> target[q]]}
    /\ Answer(q, r)
    /\ UNCHANGED <<runs, active, holder, clock, created, op, target, row, history>>

(* The commit's answer is lost, or the audit insert fails: the caller sees *)
(* an error, the selection stays and no audit event is written.            *)
PublishHalfDone(q) ==
    \/ /\ pc[q] = "locked" /\ op[q] = "publish"
       /\ active' = Upserted(q, "manual")
       /\ applied' = applied \cup {q}
       /\ holder' = Released(q)
       /\ Answer(q, "lost")
       /\ UNCHANGED <<runs, audit, clock, created, op, target, row, ended>>
    \/ /\ pc[q] = "auditing"
       /\ Answer(q, "error")
       /\ UNCHANGED <<tables, holder, clock, created, op, target, row, history>>

-----------------------------------------------------------------------------
(* UnpublishStudyPipelineRun *)

(* Slip: the delete names the key only, whatever run is active there.      *)
UnpublishDeleteAnyRun(q) ==
    /\ pc[q] = "open" /\ op[q] = "unpublish"
    /\ active[row[q].key] # None => holder[row[q].key] = None
    /\ holder' = IF active[row[q].key] = None THEN holder
                 ELSE [holder EXCEPT ![row[q].key] = q]
    /\ pc' = [pc EXCEPT ![q] = "locked"]
    /\ UNCHANGED <<tables, clock, created, op, target, row, reply, history>>

(* DELETE ... WHERE key AND active_run_id = id.  A row that matches is     *)
(* locked (after waiting for whoever holds it); one that does not is left. *)
UnpublishDelete(q) ==
    /\ pc[q] = "open" /\ op[q] = "unpublish"
    /\ LET k == row[q].key
           matches == active[k] # None /\ active[k].run = target[q]
       IN  /\ matches => holder[k] = None
           /\ holder' = IF matches THEN [holder EXCEPT ![k] = q] ELSE holder
    /\ pc' = [pc EXCEPT ![q] = "locked"]
    /\ UNCHANGED <<tables, clock, created, op, target, row, reply, history>>

(* The deletion and its audit event commit together; the event is written  *)
(* whether or not a row was deleted.                                       *)
UnpublishCommit(q, r) ==
    /\ pc[q] = "locked" /\ op[q] = "unpublish"
    /\ active' = [k \in Keys |-> IF holder[k] = q THEN None ELSE active[k]]
    /\ applied' = IF Locked(q) THEN applied \cup {q} ELSE applied
    /\ audit' = audit \cup {[by |-> q, action |-> "unpublished", run |-> target[q]]}
    /\ holder' = Released(q)
    /\ Answer(q, r)
    /\ UNCHANGED <<runs, clock, created, op, target, row, ended>>

-----------------------------------------------------------------------------
(* Slip: the error path leaves the transaction open.                       *)
AbortWithoutRollback(q) ==
    /\ pc[q] \in {"open", "locked"}
    /\ Answer(q, "error")
    /\ UNCHANGED <<tables, holder, clock, created, op, target, row, history>>

(* A statement fails, the request's context is cancelled or the process    *)
(* dies: the deferred Rollback (or the server) undoes the transaction.     *)
Abort(q) ==
    /\ pc[q] \in {"open", "locked"}
    /\ holder' = Released(q)
    /\ Answer(q, "error")
    /\ UNCHANGED <<tables, clock, created, op, target, row, history>>

-----------------------------------------------------------------------------
Begin(q) ==
    \/ \E newRow \in RunRow : RecordBegin(q, newRow)
    \/ \E o \in Ops \ {"record"}, c \in Courses, r \in Requests :
          ReadTarget(q, o, c, r) \/ TargetNotFound(q, o, c, r)

Continue(q) ==
    \/ Upsert(q)
    \/ \E r \in CommitReplies :
          RecordCommit(q, r) \/ SelectCommit(q, r) \/ PublishAudit(q, r) \/ UnpublishCommit(q, r)
    \/ PublishSelectCommit(q)
    \/ UnpublishDelete(q)

Next == \E q \in Requests : Begin(q) \/ Continue(q) \/ PublishHalfDone(q) \/ Abort(q)

(* The handlers run to completion (every database call returns, with an    *)
(* error if need be); nothing forces a request to arrive.                  *)
Fairness == \A q \in Requests : WF_vars(Continue(q))

Spec == Init /\ [][Next]_vars
FairSpec == Spec /\ Fairness

-----------------------------------------------------------------------------
(* Properties *)

(* An active selection always names a recorded run of the same course and  *)
(* stage, and one made by RecordStudyPipeline names a succeeded run.       *)
SelectionConsistent ==
    \A k \in Keys : active[k] # None =>
        /\ runs[active[k].run] # None
        /\ runs[active[k].run].key = k
        /\ active[k].how = "auto" => runs[active[k].run].status = "succeeded"

(* Runs are append-only and a selection disappears only in a step that     *)
(* also writes the "run.unpublished" event of exactly the run it named: an *)
(* unpublish that lost a race with a newer selection never removes it.     *)
UnpublishPrecise ==
    [][ /\ \A r \in Requests : runs[r] # None => runs'[r] = runs[r]
        /\ \A k \in Keys : active[k] # None /\ active'[k] = None =>
              \E q \in Requests :
                 [by |-> q, action |-> "unpublished", run |-> active[k].run] \in audit' \ audit ]_vars

(* When the store chose the selection itself, no successful run of the key *)
(* was even started after the chosen one was committed: a stale success    *)
(* never displaces a run that came entirely after it.                      *)
AutoNewestUpToOverlap ==
    \A k \in Keys : active[k] # None /\ active[k].how = "auto" =>
        \A r \in Requests :
            runs[r] # None /\ runs[r].key = k /\ runs[r].status = "succeeded"
                => created[r] <= ended[active[k].run]

(* The audit log tells the truth about selections: a published event is    *)
(* written only for a selection that was committed, and a publish that     *)
(* answers ok has both.  An error answer without effect is every other     *)
(* request's promise: only a lost acknowledgement or a publish whose audit *)
(* insert failed leaves a change behind an error.                          *)
AuditTruthful ==
    /\ \A e \in audit : e.action = "published" => e.by \in applied
    /\ \A q \in Requests :
        /\ op[q] = "publish" /\ reply[q] = "ok" =>
              [by |-> q, action |-> "published", run |-> target[q]] \in audit
        /\ reply[q] = "error" /\ q \in applied => op[q] = "publish"

(* Every request that arrives is answered: no chain of row locks blocks    *)
(* a handler for ever.                                                     *)
EveryRequestAnswered ==
    \A q \in Requests : pc[q] = "open" ~> pc[q] = "done"

(* The store implements the register: each commit is one of its steps.     *)
Register == INSTANCE RunRegister WITH
    Runs <- Requests,
    active <- [k \in Keys |-> IF active[k] = None THEN None ELSE active[k].run]
ImplementsRegister == Register!RegisterSpec
=============================================================================
