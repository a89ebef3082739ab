--------------------------- MODULE RunStore_proofs ---------------------------
(***************************************************************************)
(* Proofs about RunStore, for any sets of requests, courses and stages,    *)
(* and about ArtifactTree, for any handlers, materials and bounds.         *)
(*                                                                         *)
(* RunStore.  IInv strengthens the invariants TLC checks until it is       *)
(* inductive: what a handler holds in memory agrees with the committed     *)
(* rows (RowInv), the row locks and the handlers' places agree (LockInv),  *)
(* and commits are ordered by the clock (TimeInv).                         *)
(*                                                                         *)
(* ArtifactTree.  TreeInv says of every handler what its remaining steps   *)
(* may be (ShapeOf), and of the files what the handlers still owe them     *)
(* (Promised) or already hold in them (Holding).                           *)
(***************************************************************************)
EXTENDS RunStore, ArtifactTree, TLAPS, SequenceTheorems, FiniteSetTheorems

InFlight(q) == pc[q] \in {"open", "locked", "auditing"}

RowInv ==
    \A q \in Requests :
        /\ pc[q] = "idle" => target[q] = q /\ runs[q] = None
        /\ InFlight(q) =>
             /\ row[q] # None
             /\ op[q] # None
             /\ op[q] = "record" => target[q] = q /\ runs[q] = None
             /\ op[q] # "record" => runs[target[q]] = row[q]

LockInv ==
    /\ \A q \in Requests, k \in Keys : holder[k] = q => pc[q] = "locked" /\ row[q].key = k
    /\ \A q \in Requests : pc[q] = "locked" /\ op[q] # "unpublish" => holder[row[q].key] = q
    /\ \A q \in Requests, k \in Keys : holder[k] = q /\ op[q] = "unpublish" =>
          active[k] # None /\ active[k].run = target[q]

TimeInv ==
    /\ \A q \in Requests : created[q] <= clock /\ ended[q] <= clock
    /\ \A r \in Requests : runs[r] # None => created[r] <= ended[r]
    /\ \A k \in Keys : active[k] # None /\ active[k].how = "auto" =>
          \A r \in Requests :
              runs[r] # None /\ runs[r].key = k /\ runs[r].status = "succeeded"
                  => ended[r] <= ended[active[k].run]

AuditInv ==
    /\ AuditTruthful
    /\ \A e \in audit : pc[e.by] = "done"
    /\ \A q \in Requests :
        /\ pc[q] = "auditing" => op[q] = "publish" /\ q \in applied
        /\ q \in applied => pc[q] \in {"auditing", "done"}
        /\ reply[q] # "none" => pc[q] = "done"
        /\ pc[q] = "idle" => op[q] = None

(* One step of UnpublishPrecise.                                           *)
Precise ==
    /\ \A r \in Requests : runs[r] # None => runs'[r] = runs[r]
    /\ \A k \in Keys : active[k] # None /\ active'[k] = None =>
          \E q \in Requests :
             [by |-> q, action |-> "unpublished", run |-> active[k].run] \in audit' \ audit

IInv == TypeOK /\ RowInv /\ LockInv /\ SelectionConsistent /\ TimeInv

-----------------------------------------------------------------------------
(* What one request may do next: one disjunct per action.                  *)
StepOf(q) ==
    \/ \E newRow \in RunRow : RecordBegin(q, newRow)
    \/ \E o \in Ops \ {"record"}, c \in Courses, r \in Requests :
          ReadTarget(q, o, c, r) \/ TargetNotFound(q, o, c, r)
    \/ Upsert(q)
    \/ \E r \in CommitReplies :
          RecordCommit(q, r) \/ SelectCommit(q, r) \/ PublishAudit(q, r) \/ UnpublishCommit(q, r)
    \/ PublishSelectCommit(q)
    \/ UnpublishDelete(q)
    \/ PublishHalfDone(q)
    \/ Abort(q)

LEMMA StepCases == Next => \E q \in Requests : StepOf(q)
  BY DEF Next, Begin, Continue, StepOf

(* Every step keeps the tables, the locks and the handlers in their types. *)
LEMMA TypeStep ==
    ASSUME TypeOK, Next
    PROVE  TypeOK'
  <1> PICK q \in Requests : StepOf(q)
    BY StepCases
  <1> USE DEF TypeOK, tables, history, Ops, CommitReplies, AuditEntry
  <1>a. Released(q) \in [Keys -> Requests \cup {None}]
    BY DEF Released
  <1>b. ASSUME NEW how \in {"auto", "manual"}
        PROVE  Upserted(q, how) \in [Keys -> Selection \cup {None}]
    BY DEF Upserted, Selection
  <1>1. ASSUME NEW newRow \in RunRow, RecordBegin(q, newRow) PROVE TypeOK'
    BY <1>1 DEF RecordBegin
  <1>2. ASSUME NEW o \in Ops \ {"record"}, NEW c \in Courses, NEW r \in Requests,
               ReadTarget(q, o, c, r) PROVE TypeOK'
    BY <1>2 DEF ReadTarget
  <1>3. ASSUME NEW o \in Ops \ {"record"}, NEW c \in Courses, NEW r \in Requests,
               TargetNotFound(q, o, c, r) PROVE TypeOK'
    BY <1>3 DEF TargetNotFound, Answer
  <1>4. CASE Upsert(q)
    BY <1>4 DEF Upsert
  <1>5. ASSUME NEW r \in CommitReplies, RecordCommit(q, r) PROVE TypeOK'
    BY <1>a, <1>b, <1>5 DEF RecordCommit, Answer
  <1>6. ASSUME NEW r \in CommitReplies, SelectCommit(q, r) PROVE TypeOK'
    BY <1>a, <1>b, <1>6 DEF SelectCommit, Answer
  <1>7. ASSUME NEW r \in CommitReplies, PublishAudit(q, r) PROVE TypeOK'
    BY <1>7 DEF PublishAudit, Answer
  <1>8. ASSUME NEW r \in CommitReplies, UnpublishCommit(q, r) PROVE TypeOK'
    BY <1>a, <1>b, <1>8 DEF UnpublishCommit, Answer, Locked
  <1>9. CASE PublishSelectCommit(q)
    BY <1>a, <1>b, <1>9 DEF PublishSelectCommit
  <1>10. CASE UnpublishDelete(q)
    BY <1>10 DEF UnpublishDelete
  <1>11. CASE PublishHalfDone(q)
    BY <1>a, <1>b, <1>11 DEF PublishHalfDone, Answer
  <1>12. CASE Abort(q)
    BY <1>a, <1>b, <1>12 DEF Abort, Answer
  <1> QED BY <1>1, <1>2, <1>3, <1>4, <1>5, <1>6, <1>7, <1>8, <1>9, <1>10, <1>11, <1>12 DEF StepOf

(* The type invariant: every table, lock and handler stays in its type.    *)
THEOREM TypeCorrect == Spec => []TypeOK
  <1>1. Init => TypeOK
    BY DEF Init, TypeOK
  <1>2. TypeOK /\ [Next]_vars => TypeOK'
    <2>1. TypeOK /\ UNCHANGED vars => TypeOK'
      BY DEF TypeOK, vars
    <2> QED BY <2>1, TypeStep
  <1> QED BY <1>1, <1>2, PTL DEF Spec

-----------------------------------------------------------------------------
(* What a handler read stays true while it works: runs are never changed   *)
(* or deleted.                                                             *)
LEMMA RowInvStep ==
    ASSUME TypeOK, RowInv, Next
    PROVE  RowInv'
  <1> PICK q \in Requests : StepOf(q)
    BY StepCases
  <1> USE DEF TypeOK, RowInv, InFlight, tables, history
  <1>1. ASSUME NEW newRow \in RunRow, RecordBegin(q, newRow) PROVE RowInv'
    BY NoneIsAbsent, <1>1 DEF RecordBegin, Ops, RunRow
  <1>2. ASSUME NEW o \in Ops \ {"record"}, NEW c \in Courses, NEW r \in Requests,
               ReadTarget(q, o, c, r) PROVE RowInv'
    BY NoneIsAbsent, <1>2 DEF ReadTarget, Ops
  <1>3. ASSUME NEW o \in Ops \ {"record"}, NEW c \in Courses, NEW r \in Requests,
               TargetNotFound(q, o, c, r) PROVE RowInv'
    BY <1>3 DEF TargetNotFound, Answer
  <1>4. CASE Upsert(q)
    BY <1>4 DEF Upsert
  <1>5. ASSUME NEW r \in CommitReplies, RecordCommit(q, r) PROVE RowInv'
    BY <1>5 DEF RecordCommit, Answer, Upserted, Released
  <1>6. ASSUME NEW r \in CommitReplies, SelectCommit(q, r) PROVE RowInv'
    BY <1>6 DEF SelectCommit, Answer, Upserted, Released
  <1>7. ASSUME NEW r \in CommitReplies, PublishAudit(q, r) PROVE RowInv'
    BY <1>7 DEF PublishAudit, Answer
  <1>8. ASSUME NEW r \in CommitReplies, UnpublishCommit(q, r) PROVE RowInv'
    BY <1>8 DEF UnpublishCommit, Answer, Released, Locked
  <1>9. CASE PublishSelectCommit(q)
    BY <1>9 DEF PublishSelectCommit, Upserted, Released
  <1>10. CASE UnpublishDelete(q)
    BY <1>10 DEF UnpublishDelete
  <1>11. CASE PublishHalfDone(q)
    BY <1>11 DEF PublishHalfDone, Answer, Upserted, Released
  <1>12. CASE Abort(q)
    BY <1>12 DEF Abort, Answer, Released
  <1> QED BY <1>1, <1>2, <1>3, <1>4, <1>5, <1>6, <1>7, <1>8, <1>9, <1>10, <1>11, <1>12 DEF StepOf

(* A lock is held by exactly the transaction that wrote the selection row. *)
LEMMA LockInvStep ==
    ASSUME TypeOK, RowInv, LockInv, Next
    PROVE  LockInv'
  <1> PICK q \in Requests : StepOf(q)
    BY StepCases
  <1> USE DEF TypeOK, RowInv, LockInv, InFlight, RunRow, tables, history
  <1>1. ASSUME NEW newRow \in RunRow, RecordBegin(q, newRow) PROVE LockInv'
    BY <1>1 DEF RecordBegin
  <1>2. ASSUME NEW o \in Ops \ {"record"}, NEW c \in Courses, NEW r \in Requests,
               ReadTarget(q, o, c, r) PROVE LockInv'
    BY <1>2 DEF ReadTarget
  <1>3. ASSUME NEW o \in Ops \ {"record"}, NEW c \in Courses, NEW r \in Requests,
               TargetNotFound(q, o, c, r) PROVE LockInv'
    BY <1>3 DEF TargetNotFound, Answer
  <1>4. CASE Upsert(q)
    BY NoneIsAbsent, <1>4 DEF Upsert
  <1>5. ASSUME NEW r \in CommitReplies, RecordCommit(q, r) PROVE LockInv'
    <2>1. CASE row[q].status = "succeeded"
      BY NoneIsAbsent, <1>5, <2>1 DEF RecordCommit, Answer, Upserted, Released
    <2>2. CASE row[q].status # "succeeded"
      BY NoneIsAbsent, <1>5, <2>2 DEF RecordCommit, Answer, Released
    <2> QED BY <2>1, <2>2
  <1>6. ASSUME NEW r \in CommitReplies, SelectCommit(q, r) PROVE LockInv'
    BY NoneIsAbsent, <1>6 DEF SelectCommit, Answer, Upserted, Released
  <1>7. ASSUME NEW r \in CommitReplies, PublishAudit(q, r) PROVE LockInv'
    BY <1>7 DEF PublishAudit, Answer
  <1>8. ASSUME NEW r \in CommitReplies, UnpublishCommit(q, r) PROVE LockInv'
    BY NoneIsAbsent, <1>8 DEF UnpublishCommit, Answer, Released, Locked
  <1>9. CASE PublishSelectCommit(q)
    BY NoneIsAbsent, <1>9 DEF PublishSelectCommit, Upserted, Released
  <1>10. CASE UnpublishDelete(q)
    BY NoneIsAbsent, <1>10 DEF UnpublishDelete
  <1>11. CASE PublishHalfDone(q)
    <2>1. CASE pc[q] = "locked"
      <3>1. /\ op[q] = "publish"
            /\ active' = Upserted(q, "manual")
            /\ holder' = Released(q)
            /\ pc' = [pc EXCEPT ![q] = "done"]
            /\ UNCHANGED <<op, target, row>>
        BY <1>11, <2>1 DEF PublishHalfDone, Answer
      <3>2. holder[row[q].key] = q
        BY <2>1, <3>1
      <3> QED BY NoneIsAbsent, <2>1, <3>1, <3>2 DEF Upserted, Released
    <2>2. CASE pc[q] = "auditing"
      BY NoneIsAbsent, <1>11, <2>2 DEF PublishHalfDone, Answer
    <2> QED BY <1>11, <2>1, <2>2 DEF PublishHalfDone
  <1>12. CASE Abort(q)
    BY NoneIsAbsent, <1>12 DEF Abort, Answer, Released
  <1> QED BY <1>1, <1>2, <1>3, <1>4, <1>5, <1>6, <1>7, <1>8, <1>9, <1>10, <1>11, <1>12 DEF StepOf

(* Only commits of upserts create selections, and they name the row read.  *)
LEMMA SelectionStep ==
    ASSUME TypeOK, RowInv, LockInv, SelectionConsistent, Next
    PROVE  SelectionConsistent'
  <1> PICK q \in Requests : StepOf(q)
    BY StepCases
  <1> USE DEF TypeOK, RowInv, LockInv, SelectionConsistent, InFlight, RunRow, tables, history
  <1>1. ASSUME NEW newRow \in RunRow, RecordBegin(q, newRow) PROVE SelectionConsistent'
    BY <1>1 DEF RecordBegin
  <1>2. ASSUME NEW o \in Ops \ {"record"}, NEW c \in Courses, NEW r \in Requests,
               ReadTarget(q, o, c, r) PROVE SelectionConsistent'
    BY <1>2 DEF ReadTarget
  <1>3. ASSUME NEW o \in Ops \ {"record"}, NEW c \in Courses, NEW r \in Requests,
               TargetNotFound(q, o, c, r) PROVE SelectionConsistent'
    BY <1>3 DEF TargetNotFound, Answer
  <1>4. CASE Upsert(q)
    BY <1>4 DEF Upsert
  <1>5. ASSUME NEW r \in CommitReplies, RecordCommit(q, r) PROVE SelectionConsistent'
    BY <1>5 DEF RecordCommit, Answer, Upserted, Released
  <1>6. ASSUME NEW r \in CommitReplies, SelectCommit(q, r) PROVE SelectionConsistent'
    BY <1>6 DEF SelectCommit, Answer, Upserted, Released
  <1>7. ASSUME NEW r \in CommitReplies, PublishAudit(q, r) PROVE SelectionConsistent'
    BY <1>7 DEF PublishAudit, Answer
  <1>8. ASSUME NEW r \in CommitReplies, UnpublishCommit(q, r) PROVE SelectionConsistent'
    BY <1>8 DEF UnpublishCommit, Answer, Released, Locked
  <1>9. CASE PublishSelectCommit(q)
    BY <1>9 DEF PublishSelectCommit, Upserted, Released
  <1>10. CASE UnpublishDelete(q)
    BY <1>10 DEF UnpublishDelete
  <1>11. CASE PublishHalfDone(q)
    <2>1. CASE pc[q] = "locked"
      <3>1. op[q] = "publish" /\ UNCHANGED runs /\ active' = Upserted(q, "manual")
        BY <1>11, <2>1 DEF PublishHalfDone
      <3> QED BY <2>1, <3>1, SMT DEF Upserted
    <2>2. CASE pc[q] = "auditing"
      BY <1>11, <2>2 DEF PublishHalfDone, Answer
    <2> QED BY <1>11, <2>1, <2>2 DEF PublishHalfDone
  <1>12. CASE Abort(q)
    BY <1>12 DEF Abort, Answer, Released
  <1> QED BY <1>1, <1>2, <1>3, <1>4, <1>5, <1>6, <1>7, <1>8, <1>9, <1>10, <1>11, <1>12 DEF StepOf

(* The store's own selection is the last committed success of its key.     *)
LEMMA TimeInvStep ==
    ASSUME TypeOK, RowInv, LockInv, SelectionConsistent, TimeInv, Next
    PROVE  TimeInv'
  <1> PICK q \in Requests : StepOf(q)
    BY StepCases
  <1> USE DEF TypeOK, RowInv, LockInv, SelectionConsistent, TimeInv, InFlight, RunRow, Selection, tables, history
  <1>1. ASSUME NEW newRow \in RunRow, RecordBegin(q, newRow) PROVE TimeInv'
    BY <1>1 DEF RecordBegin
  <1>2. ASSUME NEW o \in Ops \ {"record"}, NEW c \in Courses, NEW r \in Requests,
               ReadTarget(q, o, c, r) PROVE TimeInv'
    BY <1>2 DEF ReadTarget
  <1>3. ASSUME NEW o \in Ops \ {"record"}, NEW c \in Courses, NEW r \in Requests,
               TargetNotFound(q, o, c, r) PROVE TimeInv'
    BY <1>3 DEF TargetNotFound, Answer
  <1>4. CASE Upsert(q)
    BY <1>4 DEF Upsert
  <1>5. ASSUME NEW r \in CommitReplies, RecordCommit(q, r) PROVE TimeInv'
    BY <1>5 DEF RecordCommit, Answer, Upserted, Released
  <1>6. ASSUME NEW r \in CommitReplies, SelectCommit(q, r) PROVE TimeInv'
    BY <1>6 DEF SelectCommit, Answer, Upserted, Released
  <1>7. ASSUME NEW r \in CommitReplies, PublishAudit(q, r) PROVE TimeInv'
    BY <1>7 DEF PublishAudit, Answer
  <1>8. ASSUME NEW r \in CommitReplies, UnpublishCommit(q, r) PROVE TimeInv'
    BY <1>8 DEF UnpublishCommit, Answer, Released, Locked
  <1>9. CASE PublishSelectCommit(q)
    BY <1>9 DEF PublishSelectCommit, Upserted, Released
  <1>10. CASE UnpublishDelete(q)
    BY <1>10 DEF UnpublishDelete
  <1>11. CASE PublishHalfDone(q)
    <2>1. CASE pc[q] = "locked"
      <3>1. op[q] = "publish" /\ UNCHANGED <<runs, clock, created, ended>> /\ active' = Upserted(q, "manual")
        BY <1>11, <2>1 DEF PublishHalfDone
      <3> QED BY <2>1, <3>1, SMT DEF Upserted
    <2>2. CASE pc[q] = "auditing"
      BY <1>11, <2>2 DEF PublishHalfDone, Answer
    <2> QED BY <1>11, <2>1, <2>2 DEF PublishHalfDone
  <1>12. CASE Abort(q)
    BY <1>12 DEF Abort, Answer, Released
  <1> QED BY <1>1, <1>2, <1>3, <1>4, <1>5, <1>6, <1>7, <1>8, <1>9, <1>10, <1>11, <1>12 DEF StepOf

(* A publish is audited only after its selection was committed.            *)
LEMMA AuditInvStep ==
    ASSUME TypeOK, RowInv, AuditInv, Next
    PROVE  AuditInv'
  <1> PICK q \in Requests : StepOf(q)
    BY StepCases
  <1> USE DEF TypeOK, RowInv, AuditInv, AuditTruthful, AuditEntry, CommitReplies, tables, history
  <1>1. ASSUME NEW newRow \in RunRow, RecordBegin(q, newRow) PROVE AuditInv'
    BY NoneIsAbsent, <1>1 DEF RecordBegin, Ops
  <1>2. ASSUME NEW o \in Ops \ {"record"}, NEW c \in Courses, NEW r \in Requests,
               ReadTarget(q, o, c, r) PROVE AuditInv'
    BY NoneIsAbsent, <1>2 DEF ReadTarget, Ops
  <1>3. ASSUME NEW o \in Ops \ {"record"}, NEW c \in Courses, NEW r \in Requests,
               TargetNotFound(q, o, c, r) PROVE AuditInv'
    BY NoneIsAbsent, <1>3 DEF TargetNotFound, Answer, Ops
  <1>4. CASE Upsert(q)
    BY <1>4 DEF Upsert
  <1>5. ASSUME NEW r \in CommitReplies, RecordCommit(q, r) PROVE AuditInv'
    BY <1>5 DEF RecordCommit, Answer, Upserted, Released
  <1>6. ASSUME NEW r \in CommitReplies, SelectCommit(q, r) PROVE AuditInv'
    BY <1>6 DEF SelectCommit, Answer, Upserted, Released
  <1>7. ASSUME NEW r \in CommitReplies, PublishAudit(q, r) PROVE AuditInv'
    BY <1>7 DEF PublishAudit, Answer
  <1>8. ASSUME NEW r \in CommitReplies, UnpublishCommit(q, r) PROVE AuditInv'
    BY <1>8 DEF UnpublishCommit, Answer, Released, Locked
  <1>9. CASE PublishSelectCommit(q)
    BY <1>9 DEF PublishSelectCommit, Upserted, Released
  <1>10. CASE UnpublishDelete(q)
    BY <1>10 DEF UnpublishDelete
  <1>11. CASE PublishHalfDone(q)
    BY <1>11 DEF PublishHalfDone, Answer, Upserted, Released
  <1>12. CASE Abort(q)
    BY <1>12 DEF Abort, Answer, Released
  <1> QED BY <1>1, <1>2, <1>3, <1>4, <1>5, <1>6, <1>7, <1>8, <1>9, <1>10, <1>11, <1>12 DEF StepOf

(* Only UnpublishCommit empties a selection: the lock says it is the one it *)
(* matched.                                                                *)
LEMMA PreciseStep ==
    ASSUME TypeOK, RowInv, LockInv, AuditInv, Next
    PROVE  Precise
  <1> PICK q \in Requests : StepOf(q)
    BY StepCases
  <1> USE DEF TypeOK, RowInv, LockInv, InFlight, tables, history, Precise
  <1>a. ASSUME NEW how \in {"auto", "manual"}, NEW k \in Keys, active[k] # None
        PROVE  Upserted(q, how)[k] # None
    BY <1>a, NoneIsAbsent DEF Upserted, Selection
  <1>1. ASSUME NEW newRow \in RunRow, RecordBegin(q, newRow) PROVE Precise
    BY <1>1 DEF RecordBegin
  <1>2. ASSUME NEW o \in Ops \ {"record"}, NEW c \in Courses, NEW r \in Requests,
               ReadTarget(q, o, c, r) PROVE Precise
    BY <1>2 DEF ReadTarget
  <1>3. ASSUME NEW o \in Ops \ {"record"}, NEW c \in Courses, NEW r \in Requests,
               TargetNotFound(q, o, c, r) PROVE Precise
    BY <1>3 DEF TargetNotFound, Answer
  <1>4. CASE Upsert(q)
    BY <1>4 DEF Upsert
  <1>5. ASSUME NEW r \in CommitReplies, RecordCommit(q, r) PROVE Precise
    BY <1>a, <1>5 DEF RecordCommit, Answer, Released
  <1>6. ASSUME NEW r \in CommitReplies, SelectCommit(q, r) PROVE Precise
    BY <1>a, <1>6 DEF SelectCommit, Answer, Released
  <1>7. ASSUME NEW r \in CommitReplies, PublishAudit(q, r) PROVE Precise
    BY <1>7 DEF PublishAudit, Answer
  <1>8. ASSUME NEW r \in CommitReplies, UnpublishCommit(q, r) PROVE Precise
    <2>1. \A e \in audit : e.by # q
      BY <1>8 DEF AuditInv, UnpublishCommit
    <2>2. [by |-> q, action |-> "unpublished", run |-> target[q]] \in audit' \ audit
      BY <1>8, <2>1 DEF UnpublishCommit
    <2>3. ASSUME NEW k \in Keys, active[k] # None, active'[k] = None
          PROVE  active[k].run = target[q]
      BY <1>8, <2>3, NoneIsAbsent DEF UnpublishCommit
    <2> QED BY <1>8, <2>2, <2>3 DEF UnpublishCommit
  <1>9. CASE PublishSelectCommit(q)
    BY <1>a, <1>9 DEF PublishSelectCommit, Released
  <1>10. CASE UnpublishDelete(q)
    BY <1>10 DEF UnpublishDelete
  <1>11. CASE PublishHalfDone(q)
    BY <1>a, <1>11 DEF PublishHalfDone, Answer, Released
  <1>12. CASE Abort(q)
    BY <1>12 DEF Abort, Answer, Released
  <1> QED BY <1>1, <1>2, <1>3, <1>4, <1>5, <1>6, <1>7, <1>8, <1>9, <1>10, <1>11, <1>12 DEF StepOf

-----------------------------------------------------------------------------
(* The inductive invariant. *)
LEMMA Inductive == Spec => [](IInv /\ AuditInv)
  <1>1. Init => IInv /\ AuditInv
    BY NoneIsAbsent DEF Init, IInv, AuditInv, TypeOK, RowInv, InFlight, LockInv,
       SelectionConsistent, TimeInv, AuditTruthful
  <1>2. IInv /\ AuditInv /\ [Next]_vars => (IInv /\ AuditInv)'
    <2> SUFFICES ASSUME IInv, AuditInv, [Next]_vars PROVE (IInv /\ AuditInv)'
      OBVIOUS
    <2>1. CASE UNCHANGED vars
      BY <2>1 DEF vars, IInv, AuditInv, TypeOK, RowInv, InFlight, LockInv,
         SelectionConsistent, TimeInv, AuditTruthful
    <2>2. CASE Next
      <3>1. TypeOK'
        BY <2>2, TypeStep DEF IInv
      <3> QED BY <2>2, <3>1, RowInvStep, LockInvStep, SelectionStep, TimeInvStep,
                 AuditInvStep DEF IInv
    <2> QED BY <2>1, <2>2
  <1> QED BY <1>1, <1>2, PTL DEF Spec

(* A selection never dangles, and the store itself never selects a failed  *)
(* run.                                                                    *)
THEOREM SelectionsAreConsistent == Spec => []SelectionConsistent
  <1>1. IInv => SelectionConsistent
    BY DEF IInv
  <1> QED BY <1>1, Inductive, PTL

(* No run that began after the selected one was committed is passed over.  *)
THEOREM AutoSelectionIsNewest == Spec => []AutoNewestUpToOverlap
  <1>1. ASSUME IInv PROVE AutoNewestUpToOverlap
    <2> SUFFICES ASSUME NEW k \in Keys, active[k] # None, active[k].how = "auto",
                        NEW r \in Requests, runs[r] # None, runs[r].key = k,
                        runs[r].status = "succeeded"
                 PROVE  created[r] <= ended[active[k].run]
      BY DEF AutoNewestUpToOverlap
    <2>1. active[k].run \in Requests
      BY <1>1 DEF IInv, TypeOK, Selection
    <2>2. created[r] <= ended[r] /\ ended[r] <= ended[active[k].run]
      BY <1>1 DEF IInv, TimeInv
    <2> QED BY <1>1, <2>1, <2>2 DEF IInv, TypeOK
  <1> QED BY <1>1, Inductive, PTL

(* The audit log records only publications that took effect.               *)
THEOREM AuditIsTruthful == Spec => []AuditTruthful
  <1>1. AuditInv => AuditTruthful
    BY DEF AuditInv
  <1> QED BY <1>1, Inductive, PTL

(* Runs are append-only, and a selection disappears only together with the *)
(* audit event of the run it named.                                        *)
THEOREM UnpublishIsPrecise == Spec => UnpublishPrecise
  <1>1. IInv /\ AuditInv /\ [Next]_vars => [Precise]_vars
    <2> SUFFICES ASSUME IInv, AuditInv, Next PROVE Precise
      OBVIOUS
    <2> QED BY PreciseStep DEF IInv
  <1> QED BY <1>1, Inductive, PTL DEF Spec, UnpublishPrecise, Precise

-----------------------------------------------------------------------------
(* The refinement: the commit of a recording is Record, the commit of a    *)
(* selection is Select, a withdrawal that found its row is Clear; all else *)
(* leaves the register as it was.                                          *)
ActiveRuns == [k \in Keys |-> IF active[k] = None THEN None ELSE active[k].run]

LEMMA ExceptAsFunction ==
    ASSUME NEW S, NEW f, f = [k \in S |-> f[k]], NEW d \in S, NEW v
    PROVE  [f EXCEPT ![d] = v] = [k \in S |-> IF k = d THEN v ELSE f[k]]
  OBVIOUS

LEMMA ActiveRunsType == ActiveRuns = [k \in Keys |-> ActiveRuns[k]]
  BY DEF ActiveRuns

LEMMA SelectImplements ==
    ASSUME TypeOK, RowInv, LockInv, NEW q \in Requests, NEW how \in {"auto", "manual"},
           pc[q] = "locked", op[q] \in {"select", "publish"},
           active' = Upserted(q, how), runs' = runs
    PROVE  Register!RegisterNext
  <1>1. runs[target[q]] = row[q] /\ row[q] # None /\ row[q].key \in Keys /\ target[q] \in Requests
    BY DEF TypeOK, RowInv, InFlight, RunRow
  <1>2. \A k \in Keys : active'[k] = IF k = row[q].key THEN [run |-> target[q], how |-> how]
                                                      ELSE active[k]
    BY <1>1 DEF Upserted, TypeOK
  <1>3. [run |-> target[q], how |-> how] # None
    BY <1>1, NoneIsAbsent DEF Selection
  <1>4. ActiveRuns' = [k \in Keys |-> IF k = row[q].key THEN target[q] ELSE ActiveRuns[k]]
    BY <1>1, <1>2, <1>3 DEF ActiveRuns
  <1>5. PICK t \in Requests : t = target[q]
    BY <1>1
  <1>6. runs[t] = row[q] /\ runs[t] # None
    BY <1>1, <1>5
  <1>7. ActiveRuns' = [ActiveRuns EXCEPT ![runs[t].key] = t]
    BY <1>4, <1>5, <1>6, ActiveRunsType, ExceptAsFunction DEF TypeOK, RunRow
  <1>8. Register!Select(t)
    BY <1>6, <1>7 DEF Register!Select, ActiveRuns
  <1> QED BY <1>8 DEF Register!RegisterNext

LEMMA RecordImplements ==
    ASSUME TypeOK, RowInv, LockInv, NEW q \in Requests, NEW r \in CommitReplies,
           RecordCommit(q, r)
    PROVE  Register!RegisterNext
  <1>1. /\ runs[q] = None /\ target[q] = q
        /\ row[q] \in RunRow /\ row[q].key \in Keys
        /\ runs' = [runs EXCEPT ![q] = row[q]]
    BY DEF RecordCommit, TypeOK, RowInv, InFlight, RunRow
  <1>0. ASSUME NEW new \in RunRow, Register!Record(q, new) PROVE Register!RegisterNext
    BY <1>0 DEF Register!RegisterNext, Register!RunRow, Register!Statuses, RunRow, Statuses
  <1> PICK new \in RunRow : new = row[q]
    BY <1>1
  <1>2. CASE row[q].status = "succeeded"
    <2>1. \A k \in Keys : active'[k] = IF k = row[q].key THEN [run |-> q, how |-> "auto"]
                                                        ELSE active[k]
      BY <1>1, <1>2 DEF RecordCommit, Upserted, TypeOK
    <2>2. [run |-> q, how |-> "auto"] # None
      BY NoneIsAbsent DEF Selection
    <2>3. ActiveRuns' = [k \in Keys |-> IF k = row[q].key THEN q ELSE ActiveRuns[k]]
      BY <1>1, <2>1, <2>2 DEF ActiveRuns
    <2>4. Register!Record(q, new)
      BY <1>1, <1>2, <2>3 DEF Register!Record, ActiveRuns
    <2> QED BY <1>0, <2>4
  <1>3. CASE row[q].status # "succeeded"
    <2>1. Register!Record(q, new)
      BY <1>1, <1>3 DEF RecordCommit, Register!Record
    <2> QED BY <1>0, <2>1
  <1> QED BY <1>2, <1>3

LEMMA UnpublishImplements ==
    ASSUME TypeOK, RowInv, LockInv, NEW q \in Requests, NEW r \in CommitReplies,
           UnpublishCommit(q, r)
    PROVE  Register!RegisterNext \/ UNCHANGED Register!registerVars
  <1>1. /\ pc[q] = "locked" /\ op[q] = "unpublish" /\ runs' = runs
        /\ active' = [k \in Keys |-> IF holder[k] = q THEN None ELSE active[k]]
    BY DEF UnpublishCommit
  <1>2. runs[target[q]] = row[q] /\ row[q] # None /\ row[q].key \in Keys /\ target[q] \in Requests
    BY <1>1 DEF TypeOK, RowInv, InFlight, RunRow
  <1>3. CASE holder[row[q].key] = q
    <2>1. active[row[q].key] # None /\ active[row[q].key].run = target[q]
      BY <1>1, <1>2, <1>3 DEF LockInv
    <2>2. \A k \in Keys : holder[k] = q <=> k = row[q].key
      BY <1>3 DEF LockInv
    <2>3. ActiveRuns' = [k \in Keys |-> IF k = row[q].key THEN None ELSE ActiveRuns[k]]
      BY <1>1, <2>2 DEF ActiveRuns
    <2>4. ActiveRuns' = [ActiveRuns EXCEPT ![row[q].key] = None]
      BY <1>2, <2>3, ActiveRunsType, ExceptAsFunction
    <2>5. \E t \in Requests : Register!Clear(t)
      BY <1>1, <1>2, <2>1, <2>4 DEF Register!Clear, ActiveRuns
    <2> QED BY <2>5 DEF Register!RegisterNext
  <1>4. CASE holder[row[q].key] # q
    <2>1. \A k \in Keys : holder[k] # q
      BY <1>4 DEF LockInv
    <2> QED BY <1>1, <2>1 DEF Register!registerVars, TypeOK
  <1> QED BY <1>3, <1>4

LEMMA RefinementStep ==
    ASSUME TypeOK, RowInv, LockInv, Next
    PROVE  Register!RegisterNext \/ UNCHANGED Register!registerVars
  <1> PICK q \in Requests : StepOf(q)
    BY StepCases
  <1>1. ASSUME UNCHANGED <<runs, active>> PROVE UNCHANGED Register!registerVars
    BY <1>1 DEF Register!registerVars
  <1>3. ASSUME NEW r \in CommitReplies, RecordCommit(q, r) PROVE Register!RegisterNext
    BY <1>3, RecordImplements
  <1>4. ASSUME NEW r \in CommitReplies, SelectCommit(q, r) PROVE Register!RegisterNext
    BY <1>4, SelectImplements DEF SelectCommit
  <1>5. CASE PublishSelectCommit(q)
    BY <1>5, SelectImplements DEF PublishSelectCommit
  <1>6. ASSUME PublishHalfDone(q) PROVE Register!RegisterNext \/ UNCHANGED Register!registerVars
    <2>1. CASE pc[q] = "locked"
      <3>1. op[q] = "publish" /\ active' = Upserted(q, "manual") /\ runs' = runs
        BY <1>6, <2>1 DEF PublishHalfDone
      <3> QED BY <2>1, <3>1, SelectImplements
    <2>2. CASE pc[q] = "auditing"
      BY <1>1, <1>6, <2>2 DEF PublishHalfDone, tables
    <2> QED BY <1>6, <2>1, <2>2 DEF PublishHalfDone
  <1>7. ASSUME NEW r \in CommitReplies, UnpublishCommit(q, r)
        PROVE  Register!RegisterNext \/ UNCHANGED Register!registerVars
    BY <1>7, UnpublishImplements
  <1>8. CASE \/ \E newRow \in RunRow : RecordBegin(q, newRow)
             \/ \E o \in Ops \ {"record"}, c \in Courses, r \in Requests :
                   ReadTarget(q, o, c, r) \/ TargetNotFound(q, o, c, r)
             \/ Upsert(q)
             \/ \E r \in CommitReplies : PublishAudit(q, r)
             \/ UnpublishDelete(q)
             \/ Abort(q)
    <2>1. UNCHANGED <<runs, active>>
      BY <1>8 DEF RecordBegin, ReadTarget, TargetNotFound, Upsert, PublishAudit,
         UnpublishDelete, Abort, tables
    <2> QED BY <1>1, <2>1
  <1> QED BY <1>3, <1>4, <1>5, <1>6, <1>7, <1>8 DEF StepOf

(* The store implements the register it promises.                          *)
THEOREM StoreImplementsRegister == Spec => ImplementsRegister
  <1>1. Init => Register!RegisterInit
    BY DEF Init, Register!RegisterInit
  <1>2. IInv /\ [Next]_vars => [Register!RegisterNext]_(Register!registerVars)
    <2>1. UNCHANGED vars => UNCHANGED Register!registerVars
      BY DEF vars, Register!registerVars
    <2> QED BY <2>1, RefinementStep DEF IInv
  <1> QED BY <1>1, <1>2, Inductive, PTL DEF Spec, ImplementsRegister, Register!RegisterSpec

-----------------------------------------------------------------------------

(* The artifact tree: its invariant.                                       *)

(* The order in which the steps of a request come.                         *)
Phase(s) ==
    IF s[1] = "check" THEN 1
    ELSE IF s = <<"unlink", "script">> THEN 2
    ELSE IF s[1] \in {"unlink", "rmdir", "mkdir"} THEN 3
    ELSE IF s[1] \in {"build", "write"} THEN 4
    ELSE IF s[1] \in {"hook", "readBack", "reopen"} THEN 5
    ELSE IF s[1] = "rebuilt" THEN 6
    ELSE IF s[1] \in {"assemble", "serve", "refine", "improve"} THEN 7
    ELSE 0

Sorted(q) == \A i, j \in 1..Len(q) : i < j => Phase(q[i]) <= Phase(q[j])

(* Steps that are the second half of another, and come right after it.     *)
Pushed == {"write", "reopen", "openDocuments", "saveDocuments"}
Behind(q) == \A i \in 2..Len(q) : q[i][1] \notin Pushed

OutputSet(scope) == {"script", "index"} \cup (Tasks \cap scope)

Unlinks == <<"unlink", "script">>

(* What is to be done if something before it is still to be done.          *)
Chain(q, scope) ==
    /\ (\E s \in Range(q) : Phase(s) = 1) => Unlinks \in Range(q)
    /\ (\E s \in Range(q) : Phase(s) \in 1..2) => <<"unlink", "tasks">> \in Range(q)
    /\ (\E s \in Range(q) : Phase(s) \in 1..3) => \A f \in OutputSet(scope) : <<"build", f>> \in Range(q)

(* Which steps a kind of request has.                                      *)
Fitting(q, kind) ==
    /\ \A s \in Range(q) : /\ s[1] = "serve" => kind = "view"
                           /\ s[1] = "assemble" => kind = "curated"
                           /\ s[1] \in {"refine", "improve"} => kind = "refine"
                           /\ s[1] = "load" => kind = "documents"
    /\ kind \in {"curated", "view"} /\ (\E s \in Range(q) : s[1] = "extract") => \E s \in Range(q) : Phase(s) = 1

Shape(q, kind, scope) ==
    q \in Seq(Steps) /\ Sorted(q) /\ Behind(q) /\ Chain(q, scope) /\ Fitting(q, kind)

ShapeOf(h) == Shape(todo[h], req[h].kind, req[h].scope)

(* A course that is being curated, or was, has been extracted.             *)
Checked(h) ==
    /\ \E s \in Range(todo[h]) : Phase(s) \in 2..5
    /\ \A s \in Range(todo[h]) : Phase(s) # 1

ExtractedOf(h) ==
    /\ Checked(h) => HasExtractedArtifacts
    /\ fresh[h] # "no" => HasExtractedArtifacts
    /\ Checked(h) /\ Unlinks \notin Range(todo[h]) => fresh[h] # "no"

WasExtracted == (\A h \in Handlers : ExtractedOf(h)) /\ (tree = "built" => HasExtractedArtifacts)

(* What a handler that writes has opened.                                  *)
Writes(h, f) == At(h, "write") /\ On(h) = f /\ handle[h] = DirOf(f)

WriterOf(h) ==
    /\ At(h, "write") \/ At(h, "reopen") => buf[h].state \in {"whole", "mixed"}
    /\ At(h, "write") => handle[h] \in {"cut", DirOf(On(h))}
    /\ At(h, "write") /\ handle[h] # "cut" => file[On(h)].state # "absent"
    /\ At(h, "openDocuments") \/ At(h, "saveDocuments") => buf[h].state = "whole"

Files == /\ \A f \in Outputs : file[f].state # "absent" => DirOf(f) \in dirs
         /\ \A h \in Handlers : WriterOf(h)

(* The latest documents, unless their last writer was cut off.             *)
Saves(h) == At(h, "saveDocuments")
Documented ==
    \/ spoiled
    \/ /\ latest.state = "empty"
       /\ \E h \in Handlers : Saves(h) /\ \A g \in Handlers \ {h} : ~Saves(g)
    \/ /\ latest.state \in {"absent", "whole"}
       /\ \A h \in Handlers : ~Saves(h)

(* Since the last rebuild that failed another one began, or was completed. *)
Undisturbed == tree = "built" \/ \E h \in Handlers : fresh[h] = "fresh"

WillWrite(h, f) == fresh[h] # "no" /\ (<<"build", f>> \in Range(todo[h]) \/ Writes(h, f))

WillEnd(h, f) == fresh[h] # "no" /\ (<<"unlink", DirOf(f)>> \in Range(todo[h]) \/ Writes(h, f))

Promised ==
    Undisturbed =>
        /\ \A f \in {"script", "index"} :
             file[f].state \in {"whole", "mixed"} \/ \E h \in Handlers : WillWrite(h, f)
        /\ \A f \in Outputs :
             file[f].state = "empty" => \E h \in Handlers : WillEnd(h, f)

(* Requests that overlap know of it.                                       *)
Overlaps == \A g, h \in Handlers : g # h /\ Working(g) /\ Working(h) => contended[h]

(* An output that a curation or a reader has built.                        *)
Past(h, f) ==
    /\ Working(h) /\ req[h].kind \in {"curated", "view"} /\ f \in OutputSet(req[h].scope)
    /\ \A s \in Range(todo[h]) : s[1] # "extract" /\ Phase(s) \notin 1..3 /\ s # <<"build", f>>

BuiltFor(h, f) == Whole(Built(f, req[h].scope))

HoldsOf(h, f) ==
    /\ At(h, "write") /\ On(h) = f => file[f] = Empty /\ handle[h] = DirOf(f)
    /\ (At(h, "write") \/ At(h, "reopen")) /\ On(h) = f => buf[h] = BuiltFor(h, f)
    /\ ~(At(h, "write") /\ On(h) = f) => file[f] = BuiltFor(h, f)

Holding == \A h \in Handlers : ~contended[h] => \A f \in Outputs : Past(h, f) => HoldsOf(h, f)

TreeInv ==
    /\ TreeTypeOK /\ \A h \in Handlers : ShapeOf(h)
    /\ WasExtracted /\ Files /\ Documented /\ Promised /\ Overlaps /\ Holding

-----------------------------------------------------------------------------
(* The steps, and their order.                                             *)

LEMMA StepFacts ==
    ASSUME NEW s \in Steps
    PROVE  /\ s = <<s[1], s[2]>>
           /\ s[1] \in {"extract", "refine", "improve"} => s[2] \in Materials
           /\ s[1] \in {"unlink", "rmdir", "mkdir"} => s[2] \in {"script", "tasks"}
           /\ s[1] \in {"build", "write", "readBack", "reopen"} => s[2] \in Outputs
           /\ s[1] \notin {"extract", "refine", "improve", "unlink", "rmdir", "mkdir", "build", "write", "readBack", "reopen"} =>
                s[2] = Nil /\ s[1] \in {"inventory", "raw", "documents", "openDocuments", "saveDocuments", "load",
                    "check", "hook", "rebuilt", "assemble", "serve"}
PROOF BY DEF Steps

LEMMA Makes ==
    /\ \A n \in {"inventory", "raw", "documents", "openDocuments", "saveDocuments", "load", "check", "hook",
                "rebuilt", "assemble", "serve"} : <<n, Nil>> \in Steps
    /\ \A n \in {"extract", "refine", "improve"}, m \in Materials : <<n, m>> \in Steps
    /\ \A n \in {"unlink", "rmdir", "mkdir"}, d \in {"script", "tasks"} : <<n, d>> \in Steps
    /\ \A n \in {"build", "write", "readBack", "reopen"}, f \in Outputs : <<n, f>> \in Steps
PROOF BY DEF Steps

LEMMA PhaseFacts ==
    ASSUME NEW s \in Steps
    PROVE  /\ Phase(s) \in 0..7
           /\ Phase(s) = 1 <=> s[1] = "check"
           /\ Phase(s) = 2 <=> s = Unlinks
           /\ Phase(s) = 3 <=> s[1] \in {"unlink", "rmdir", "mkdir"} /\ s # Unlinks
           /\ Phase(s) = 4 <=> s[1] \in {"build", "write"}
           /\ Phase(s) = 5 <=> s[1] \in {"hook", "readBack", "reopen"}
           /\ Phase(s) = 6 <=> s[1] = "rebuilt"
           /\ Phase(s) = 7 <=> s[1] \in {"assemble", "serve", "refine", "improve"}
           /\ Phase(s) = 0 <=> s[1] \in {"inventory", "raw", "documents", "openDocuments", "saveDocuments", "load", "extract"}
PROOF
<1>1. s = <<s[1], s[2]>> /\ (s[1] = "rebuilt" => s[2] = Nil)
      BY StepFacts
<1>2. s = Unlinks <=> s[1] = "unlink" /\ s[2] = "script"
      BY <1>1 DEF Unlinks
<1>4. s[1] \in {"inventory", "raw", "documents", "openDocuments", "saveDocuments", "load", "extract",
                "check", "unlink", "rmdir", "mkdir", "build", "write", "hook", "readBack", "reopen", "rebuilt",
                "assemble", "serve", "refine", "improve"}
      BY StepFacts
<1> QED BY <1>2, <1>4 DEF Phase, Unlinks

(* What is left of a list after its head.                                  *)
LEMMA RangeOfTail ==
    ASSUME NEW S, NEW q \in Seq(S), q # <<>>
    PROVE  /\ Head(q) \in S /\ Tail(q) \in Seq(S) /\ Len(q) \in Nat \ {0}
           /\ Range(q) = {Head(q)} \cup Range(Tail(q))
           /\ Range(q) \subseteq S /\ Range(Tail(q)) \subseteq S
           /\ Len(Tail(q)) = Len(q) - 1 /\ \A i \in 1..(Len(q) - 1) : Tail(q)[i] = q[i + 1]
           /\ Head(q) = q[1] /\ DOMAIN q = 1..Len(q) /\ DOMAIN Tail(q) = 1..(Len(q) - 1)
           /\ Tail(q) # <<>> => Head(Tail(q)) \in Range(Tail(q))
           /\ Len(q) = 1 <=> Tail(q) = <<>>
PROOF
<1>1. /\ Len(q) \in Nat \ {0} /\ q \in [1..Len(q) -> S]
      /\ Head(q) = q[1] /\ Tail(q) \in Seq(S) /\ Len(Tail(q)) = Len(q) - 1
      /\ \A i \in 1..(Len(q) - 1) : Tail(q)[i] = q[i + 1]
      BY EmptySeq, LenProperties, HeadTailProperties
<1>2. DOMAIN Tail(q) = 1..(Len(q) - 1) /\ DOMAIN q = 1..Len(q)
      BY <1>1, LenProperties
<1>5. Range(q) \subseteq {Head(q)} \cup Range(Tail(q))
  <2> SUFFICES ASSUME NEW i \in 1..Len(q) PROVE q[i] \in {Head(q)} \cup Range(Tail(q))
      BY <1>2 DEF Range
  <2>1. CASE i = 1
      BY <2>1, <1>1
  <2>2. CASE i # 1
    <3>1. i - 1 \in 1..(Len(q) - 1)
        BY <2>2, <1>1
    <3>2. Tail(q)[i - 1] = q[i]
        BY <3>1, <1>1
    <3> QED BY <3>1, <3>2, <1>2 DEF Range
  <2> QED BY <2>1, <2>2
<1>6. {Head(q)} \cup Range(Tail(q)) \subseteq Range(q)
  <2>1. Head(q) \in Range(q)
      BY <1>1, <1>2 DEF Range
  <2>2. ASSUME NEW i \in 1..(Len(q) - 1) PROVE Tail(q)[i] \in Range(q)
    <3>1. i + 1 \in 1..Len(q) /\ Tail(q)[i] = q[i + 1]
        BY <1>1
    <3> QED BY <3>1, <1>2 DEF Range
  <2> QED BY <2>1, <2>2, <1>2 DEF Range
<1>7. Range(q) \subseteq S
      BY <1>1, <1>2 DEF Range
<1> DEFINE t == Tail(q)
<1>8. t \in Seq(S) /\ Len(t) = Len(q) - 1 /\ DOMAIN t = 1..(Len(q) - 1)
      BY <1>1, <1>2
<1> HIDE DEF t
<1>9. t # <<>> => Head(t) \in Range(t) /\ Len(q) # 1
  <2> SUFFICES ASSUME t # <<>> PROVE Head(t) \in Range(t) /\ Len(q) # 1
      OBVIOUS
  <2>1. Len(t) \in Nat \ {0} /\ Head(t) = t[1]
    <3>1. Len(t) \in Nat /\ Len(t) # 0
        BY <1>8, EmptySeq, LenProperties
    <3>2. Head(t) = t[1]
        BY <1>8, HeadTailProperties
    <3> QED BY <3>1, <3>2
  <2>2. 1 \in DOMAIN t
      BY <2>1, <1>8
  <2> QED BY <2>1, <2>2, <1>8, <1>1 DEF Range
<1>10. t = <<>> => Len(q) = 1
  <2>1. t = <<>> => Len(t) = 0
      BY EmptySeq
  <2> QED BY <2>1, <1>8, <1>1
<1> QED BY <1>1, <1>2, <1>5, <1>6, <1>7, <1>9, <1>10 DEF t

(* A list in order, none of whose steps is the second half of another.     *)
Block(q, a, b) ==
    q \in Seq(Steps) /\ Sorted(q) /\ \A s \in Range(q) : Phase(s) \in a..b /\ s[1] \notin Pushed

LEMMA Joins ==
    ASSUME NEW u \in Seq(Steps), NEW v \in Seq(Steps), Sorted(u), Sorted(v),
           \A x \in Range(u), y \in Range(v) : Phase(x) <= Phase(y)
    PROVE  u \o v \in Seq(Steps) /\ Sorted(u \o v) /\ Range(u \o v) = Range(u) \cup Range(v)
PROOF
<1>1. /\ Len(u) \in Nat /\ Len(v) \in Nat /\ DOMAIN u = 1..Len(u) /\ DOMAIN v = 1..Len(v)
      /\ u \o v \in Seq(Steps) /\ Len(u \o v) = Len(u) + Len(v)
      /\ \A i \in 1..(Len(u) + Len(v)) : (u \o v)[i] = IF i <= Len(u) THEN u[i] ELSE v[i - Len(u)]
      BY LenProperties, ConcatProperties
<1>2. Range(u \o v) = Range(u) \cup Range(v)
      BY RangeConcatenation
<1>3. Sorted(u \o v)
  <2> SUFFICES ASSUME NEW i \in 1..(Len(u) + Len(v)), NEW j \in 1..(Len(u) + Len(v)), i < j
               PROVE  Phase((u \o v)[i]) <= Phase((u \o v)[j])
      BY <1>1 DEF Sorted
  <2>1. CASE j <= Len(u)
    <3>1. i \in 1..Len(u) /\ j \in 1..Len(u) /\ (u \o v)[i] = u[i] /\ (u \o v)[j] = u[j]
        BY <2>1, <1>1
    <3> QED BY <3>1 DEF Sorted
  <2>2. CASE i > Len(u)
    <3>1. /\ i - Len(u) \in 1..Len(v) /\ j - Len(u) \in 1..Len(v) /\ i - Len(u) < j - Len(u)
          /\ (u \o v)[i] = v[i - Len(u)] /\ (u \o v)[j] = v[j - Len(u)]
        BY <2>2, <1>1
    <3> QED BY <3>1 DEF Sorted
  <2>3. CASE i <= Len(u) /\ j > Len(u)
    <3>1. i \in 1..Len(u) /\ j - Len(u) \in 1..Len(v) /\ (u \o v)[i] = u[i] /\ (u \o v)[j] = v[j - Len(u)]
        BY <2>3, <1>1
    <3>2. u[i] \in Range(u) /\ v[j - Len(u)] \in Range(v)
        BY <3>1, <1>1 DEF Range
    <3> QED BY <3>1, <3>2
  <2> QED BY <2>1, <2>2, <2>3, <1>1
<1> QED BY <1>1, <1>2, <1>3

LEMMA JoinsBlocks ==
    ASSUME NEW a \in 0..7, NEW b \in 0..7, NEW c \in 0..7, NEW d \in 0..7, a <= b, b <= c, c <= d,
           NEW u, NEW v, Block(u, a, b), Block(v, c, d)
    PROVE  Block(u \o v, a, d) /\ Range(u \o v) = Range(u) \cup Range(v)
PROOF
<1>1. ASSUME NEW x \in Range(u), NEW y \in Range(v) PROVE Phase(x) <= Phase(y)
  <2>1. Phase(x) \in a..b /\ Phase(y) \in c..d
      BY DEF Block
  <2> QED BY <2>1
<1>2. u \o v \in Seq(Steps) /\ Sorted(u \o v) /\ Range(u \o v) = Range(u) \cup Range(v)
      BY <1>1, Joins DEF Block
<1>3. ASSUME NEW x \in Range(u) \cup Range(v) PROVE Phase(x) \in a..d /\ x[1] \notin Pushed
      BY DEF Block
<1> QED BY <1>2, <1>3 DEF Block

LEMMA OneBlock ==
    ASSUME NEW n, NEW o, <<n, o>> \in Steps
    PROVE  /\ One(n, o) \in Seq(Steps) /\ Len(One(n, o)) = 1 /\ One(n, o)[1] = <<n, o>> /\ One(n, o) # <<>>
           /\ Sorted(One(n, o)) /\ Range(One(n, o)) = {<<n, o>>}
           /\ n \notin Pushed => \A a \in 0..7 : Phase(<<n, o>>) = a => Block(One(n, o), a, a)
PROOF
<1> DEFINE s == <<n, o>>
<1>1. s \in Steps
      OBVIOUS
<1> HIDE DEF s
<1> DEFINE q == <<s>>
<1>2. q \in Seq(Steps) /\ Len(q) = 1 /\ q[1] = s /\ q # <<>>
      BY <1>1
<1>3. DOMAIN q = 1..1 /\ 1..1 = {1}
      BY <1>2, LenProperties
<1> HIDE DEF q
<1>4. Range(q) = {s}
      BY <1>2, <1>3 DEF Range
<1>5. Sorted(q)
      BY <1>2, <1>3 DEF Sorted
<1>6. s[1] = n
      BY DEF s
<1>7. ASSUME n \notin Pushed, NEW a \in 0..7, Phase(s) = a PROVE Block(q, a, a)
  <2>1. a \in a..a
      OBVIOUS
  <2> QED BY <2>1, <1>2, <1>4, <1>5, <1>6, <1>7 DEF Block
<1> QED BY <1>2, <1>4, <1>5, <1>7 DEF One, q, s

LEMMA SetToSeqIs ==
    ASSUME NEW S, IsFiniteSet(S)
    PROVE  SetToSeq(S) \in Seq(S) /\ Range(SetToSeq(S)) = S
PROOF
<1> DEFINE n == Cardinality(S)
           F == [1..n -> S]
<1>1. n \in Nat /\ ExistsBijection(1..n, S)
      BY FS_CardinalityType
<1>2. PICK f : f \in Bijection(1..n, S)
      BY <1>1 DEF ExistsBijection
<1>3. f \in F /\ IsInjective(f)
      BY <1>2 DEF Bijection, Injection, IsInjective
<1>4. SetToSeq(S) = CHOOSE g \in F : IsInjective(g)
      BY DEF SetToSeq
<1>5. SetToSeq(S) \in F /\ IsInjective(SetToSeq(S))
      BY <1>3, <1>4
<1> DEFINE q == SetToSeq(S)
<1> HIDE DEF q, n
<1>6. q \in [1..n -> S] /\ IsInjective(q)
      BY <1>5 DEF q
<1>7. q \in Seq(S)
      BY <1>6, <1>1, SeqDef DEF F
<1>8. q \in Injection(1..n, S)
      BY <1>6 DEF Injection, IsInjective
<1>9. IsFiniteSet(1..n) /\ Cardinality(1..n) = n
      BY <1>1, FS_Interval
<1>10. Cardinality(1..n) = Cardinality(S)
      BY <1>9 DEF n
<1>11. q \in Surjection(1..n, S)
      BY <1>8, <1>10, FS_Injection
<1>12. Range(q) = S
      BY <1>6, <1>11 DEF Surjection, Range
<1> QED BY <1>7, <1>12 DEF q, n

LEMMA EachBlock ==
    ASSUME NEW n, n \notin Pushed, NEW a \in 0..7, NEW S, NEW r \in Seq(S),
           \A o \in S : <<n, o>> \in Steps /\ Phase(<<n, o>>) = a
    PROVE  Block(Each(n, r), a, a) /\ Range(Each(n, r)) = {<<n, o>> : o \in Range(r)}
PROOF
<1>1. Len(r) \in Nat /\ DOMAIN r = 1..Len(r) /\ r \in [1..Len(r) -> S]
      BY LenProperties
<1> DEFINE q == Each(n, r)
<1>2. q \in [1..Len(r) -> Steps] /\ \A i \in 1..Len(r) : q[i] = <<n, r[i]>>
      BY <1>1 DEF Each
<1>3. q \in Seq(Steps) /\ Len(q) = Len(r) /\ DOMAIN q = 1..Len(r)
      BY <1>1, <1>2, SeqDef
<1> HIDE DEF q
<1>4. Range(q) = {<<n, o>> : o \in Range(r)}
      BY <1>1, <1>2, <1>3 DEF Range
<1>5. ASSUME NEW i \in 1..Len(r) PROVE Phase(q[i]) = a
      BY <1>1, <1>2
<1>6. Sorted(q)
      BY <1>3, <1>5 DEF Sorted
<1>7. ASSUME NEW s \in Range(q) PROVE Phase(s) \in a..a /\ s[1] \notin Pushed
  <2>1. PICK i \in 1..Len(r) : s = q[i]
      BY <1>3 DEF Range
  <2> QED BY <2>1, <1>2, <1>5
<1> QED BY <1>3, <1>4, <1>6, <1>7 DEF Block, q

-----------------------------------------------------------------------------
(* The shape of what is left to do.                                        *)

LEMMA TailShape ==
    ASSUME NEW kind, NEW scope, NEW q, Shape(q, kind, scope), q # <<>>
    PROVE  /\ Shape(Tail(q), kind, scope)
           /\ Head(q) \in Steps /\ Tail(q) \in Seq(Steps)
           /\ Range(q) = {Head(q)} \cup Range(Tail(q))
           /\ Range(q) \subseteq Steps
           /\ \A s \in Range(Tail(q)) : Phase(Head(q)) <= Phase(s) /\ s[1] \notin Pushed
           /\ Tail(q) # <<>> => Head(Tail(q)) \in Range(Tail(q))
           /\ Len(q) = 1 <=> Tail(q) = <<>>
PROOF
<1> DEFINE t == Tail(q)
           s == Head(q)
<1>1. /\ s \in Steps /\ t \in Seq(Steps) /\ Len(q) \in Nat \ {0}
      /\ Range(q) = {s} \cup Range(t)
      /\ Range(q) \subseteq Steps /\ Range(t) \subseteq Steps
      /\ Len(t) = Len(q) - 1 /\ \A i \in 1..(Len(q) - 1) : t[i] = q[i + 1]
      /\ s = q[1] /\ DOMAIN q = 1..Len(q) /\ DOMAIN t = 1..(Len(q) - 1)
      /\ t # <<>> => Head(t) \in Range(t)
      /\ Len(q) = 1 <=> t = <<>>
  <2>1. q \in Seq(Steps) /\ q # <<>>
      BY DEF Shape
  <2> QED BY <2>1, RangeOfTail
<1> HIDE DEF t, s
<1>2. ASSUME NEW x \in Range(t) PROVE Phase(s) <= Phase(x) /\ x[1] \notin Pushed
  <2>1. PICK i \in 1..(Len(q) - 1) : x = t[i]
      BY <1>1 DEF Range
  <2>2. i + 1 \in 2..Len(q) /\ 1 \in 1..Len(q) /\ i + 1 \in 1..Len(q) /\ 1 < i + 1 /\ x = q[i + 1]
      BY <1>1, <2>1
  <2> QED BY <2>2, <1>1 DEF Shape, Sorted, Behind
<1>3. Sorted(t)
  <2> SUFFICES ASSUME NEW i \in 1..(Len(q) - 1), NEW j \in 1..(Len(q) - 1), i < j
               PROVE  Phase(t[i]) <= Phase(t[j])
      BY <1>1 DEF Sorted
  <2>1. i + 1 \in 1..Len(q) /\ j + 1 \in 1..Len(q) /\ i + 1 < j + 1 /\ t[i] = q[i + 1] /\ t[j] = q[j + 1]
      BY <1>1
  <2> QED BY <2>1 DEF Shape, Sorted
<1>4. Behind(t)
  <2> SUFFICES ASSUME NEW i \in 2..(Len(q) - 1) PROVE t[i][1] \notin Pushed
      BY <1>1 DEF Behind
  <2>1. t[i] \in Range(t)
      BY <1>1 DEF Range
  <2> QED BY <2>1, <1>2
<1>5. Phase(s) \in 0..7 /\ \A x \in Range(t) : Phase(x) \in 0..7
      BY <1>1, PhaseFacts
<1>6. Chain(t, scope)
  <2>1. Phase(Unlinks) = 2 /\ Phase(<<"unlink", "tasks">>) = 3
        /\ \A f \in OutputSet(scope) : Phase(<<"build", f>>) = 4
      BY DEF Phase, Unlinks
  <2>2. Chain(q, scope)
      BY DEF Shape
  <2>3. ASSUME NEW x \in Range(t), Phase(x) = 1 PROVE Unlinks \in Range(t)
    <3>1. Unlinks \in Range(q)
        BY <2>2, <2>3, <1>1 DEF Chain
    <3>2. s # Unlinks
        BY <1>2, <1>5, <2>1, <2>3
    <3> QED BY <3>1, <3>2, <1>1
  <2>4. ASSUME NEW x \in Range(t), Phase(x) \in 1..2 PROVE <<"unlink", "tasks">> \in Range(t)
    <3>1. <<"unlink", "tasks">> \in Range(q)
        BY <2>2, <2>4, <1>1 DEF Chain
    <3>2. s # <<"unlink", "tasks">>
        BY <1>2, <1>5, <2>1, <2>4
    <3> QED BY <3>1, <3>2, <1>1
  <2>5. ASSUME NEW x \in Range(t), Phase(x) \in 1..3, NEW f \in OutputSet(scope) PROVE <<"build", f>> \in Range(t)
    <3>1. <<"build", f>> \in Range(q)
        BY <2>2, <2>5, <1>1 DEF Chain
    <3>2. s # <<"build", f>>
        BY <1>2, <1>5, <2>1, <2>5
    <3> QED BY <3>1, <3>2, <1>1
  <2> QED BY <2>3, <2>4, <2>5 DEF Chain
<1>7. Fitting(t, kind)
  <2>1. Fitting(q, kind)
      BY DEF Shape
  <2>2. ASSUME kind \in {"curated", "view"}, NEW x \in Range(t), x[1] = "extract"
        PROVE  \E y \in Range(t) : Phase(y) = 1
    <3>1. PICK y \in Range(q) : Phase(y) = 1
        BY <2>1, <2>2, <1>1 DEF Fitting
    <3>2. Phase(x) = 0
        BY <1>1, <2>2, PhaseFacts
    <3>3. y # s
        BY <1>2, <1>5, <3>1, <3>2
    <3> QED BY <3>1, <3>3, <1>1
  <2> QED BY <2>1, <2>2, <1>1 DEF Fitting
<1>8. Shape(t, kind, scope)
      BY <1>1, <1>3, <1>4, <1>6, <1>7 DEF Shape
<1> QED BY <1>1, <1>2, <1>8 DEF t, s

(* Steps that a handler finds it has to do first.                          *)
MayPrecede(u, v, kind) ==
    /\ \A x \in Range(v) : x[1] \notin Pushed
    /\ \A x \in Range(u), y \in Range(v) : Phase(x) <= Phase(y)
    /\ \A x \in Range(u) :
         /\ Phase(x) \in {0, 4, 5}
         /\ x[1] \notin {"serve", "assemble", "refine", "improve", "load"}
         /\ x[1] = "extract" => kind \notin {"curated", "view"}

LEMMA PushShape ==
    ASSUME NEW kind, NEW scope, NEW u \in Seq(Steps), NEW v, Shape(v, kind, scope),
           Sorted(u), Behind(u),
           MayPrecede(u, v, kind)
    PROVE  Shape(u \o v, kind, scope) /\ Range(u \o v) = Range(u) \cup Range(v)
PROOF
<1>1. u \o v \in Seq(Steps) /\ Sorted(u \o v) /\ Range(u \o v) = Range(u) \cup Range(v) /\ v \in Seq(Steps)
      BY Joins DEF Shape, MayPrecede
<1>2. /\ Len(u) \in Nat /\ Len(v) \in Nat /\ DOMAIN u = 1..Len(u) /\ DOMAIN v = 1..Len(v)
      /\ Len(u \o v) = Len(u) + Len(v)
      /\ \A i \in 1..(Len(u) + Len(v)) : (u \o v)[i] = IF i <= Len(u) THEN u[i] ELSE v[i - Len(u)]
      BY <1>1, LenProperties, ConcatProperties
<1>3. Behind(u \o v)
  <2> SUFFICES ASSUME NEW i \in 2..(Len(u) + Len(v)) PROVE (u \o v)[i][1] \notin Pushed
      BY <1>2 DEF Behind
  <2>1. CASE i <= Len(u)
    <3>1. i \in 2..Len(u) /\ (u \o v)[i] = u[i]
        BY <2>1, <1>2
    <3> QED BY <3>1 DEF Behind
  <2>2. CASE i > Len(u)
    <3>1. i - Len(u) \in 1..Len(v) /\ (u \o v)[i] = v[i - Len(u)]
        BY <2>2, <1>2
    <3>2. v[i - Len(u)] \in Range(v)
        BY <3>1, <1>2 DEF Range
    <3> QED BY <3>1, <3>2 DEF MayPrecede
  <2> QED BY <2>1, <2>2, <1>2
<1>4. Chain(u \o v, scope)
  <2>1. \A x \in Range(u) : Phase(x) \notin 1..3
      BY DEF MayPrecede
  <2> QED BY <2>1, <1>1 DEF Shape, Chain
<1>5. Fitting(u \o v, kind)
      BY <1>1 DEF Shape, Fitting, MayPrecede
<1> QED BY <1>1, <1>3, <1>4, <1>5 DEF Shape

LEMMA PushedFirst ==
    ASSUME NEW kind, NEW scope, NEW u \in Seq(Steps), u # <<>>, NEW v, Shape(v, kind, scope),
           Sorted(u), Behind(u), MayPrecede(u, v, kind)
    PROVE  /\ Shape(u \o v, kind, scope) /\ Range(u \o v) = Range(u) \cup Range(v)
           /\ u \o v # <<>> /\ Head(u \o v) = u[1] /\ u[1] \in Range(u)
PROOF
<1>1. Shape(u \o v, kind, scope) /\ Range(u \o v) = Range(u) \cup Range(v)
      BY PushShape
<1>2. v \in Seq(Steps)
      BY DEF Shape
<1>3. Len(u) \in Nat \ {0} /\ Len(v) \in Nat /\ DOMAIN u = 1..Len(u)
      BY <1>2, LenProperties, EmptySeq
<1>4. /\ u \o v \in Seq(Steps) /\ Len(u \o v) = Len(u) + Len(v)
      /\ \A i \in 1..(Len(u) + Len(v)) : (u \o v)[i] = IF i <= Len(u) THEN u[i] ELSE v[i - Len(u)]
      BY <1>2, ConcatProperties
<1>5. 1 \in 1..Len(u) /\ 1 \in 1..(Len(u) + Len(v)) /\ Len(u) + Len(v) # 0 /\ 1 <= Len(u)
      BY <1>3
<1> DEFINE r == u \o v
<1>6. r \in Seq(Steps) /\ r[1] = u[1] /\ Len(r) # 0
      BY <1>4, <1>5
<1> HIDE DEF r
<1>7. u[1] \in Range(u)
      BY <1>3, <1>5 DEF Range
<1>8. r # <<>> /\ Head(r) = u[1]
      BY <1>6, EmptySeq
<1> QED BY <1>1, <1>7, <1>8 DEF r

LEMMA PairIs ==
    ASSUME NEW S, NEW a \in S, NEW b \in S
    PROVE  /\ <<a, b>> \in Seq(S) /\ Range(<<a, b>>) = {a, b}
           /\ Len(<<a, b>>) = 2 /\ <<a, b>>[1] = a /\ <<a, b>>[2] = b
PROOF
<1> DEFINE q == <<a, b>>
<1>1. q \in Seq(S) /\ Len(q) = 2 /\ q[1] = a /\ q[2] = b
      OBVIOUS
<1>2. DOMAIN q = 1..2 /\ 1..2 = {1, 2}
      BY <1>1, LenProperties
<1> HIDE DEF q
<1>3. Range(q) = {a, b}
      BY <1>1, <1>2 DEF Range
<1> QED BY <1>1, <1>3 DEF q

LEMMA FourIs ==
    ASSUME NEW S, NEW a \in S, NEW b \in S, NEW c \in S, NEW d \in S
    PROVE  /\ <<a, b, c, d>> \in Seq(S) /\ Range(<<a, b, c, d>>) = {a, b, c, d}
           /\ Len(<<a, b, c, d>>) = 4
           /\ <<a, b, c, d>>[1] = a /\ <<a, b, c, d>>[2] = b /\ <<a, b, c, d>>[3] = c /\ <<a, b, c, d>>[4] = d
PROOF
<1> DEFINE q == <<a, b, c, d>>
<1>1. q \in Seq(S) /\ Len(q) = 4 /\ q[1] = a /\ q[2] = b /\ q[3] = c /\ q[4] = d
      OBVIOUS
<1>2. DOMAIN q = 1..4 /\ 1..4 = {1, 2, 3, 4}
      BY <1>1, LenProperties
<1> HIDE DEF q
<1>3. Range(q) = {a, b, c, d}
      BY <1>1, <1>2 DEF Range
<1> QED BY <1>1, <1>3 DEF q

LEMMA Removing ==
    /\ Block(Clearing, 2, 3)
    /\ Range(Clearing) = {Unlinks, <<"rmdir", "script">>, <<"unlink", "tasks">>, <<"rmdir", "tasks">>}
    /\ Block(Making, 3, 3)
    /\ Range(Making) = {<<"mkdir", "script">>, <<"mkdir", "tasks">>}
PROOF
<1> DEFINE b == <<"rmdir", "script">>
           c == <<"unlink", "tasks">>
           d == <<"rmdir", "tasks">>
           e == <<"mkdir", "script">>
           f == <<"mkdir", "tasks">>
<1>1. /\ Phase(Unlinks) = 2 /\ Phase(b) = 3 /\ Phase(c) = 3 /\ Phase(d) = 3 /\ Phase(e) = 3 /\ Phase(f) = 3
      /\ Unlinks[1] = "unlink" /\ b[1] = "rmdir" /\ c[1] = "unlink" /\ d[1] = "rmdir"
      /\ e[1] = "mkdir" /\ f[1] = "mkdir"
      BY DEF Phase, Unlinks
<1>2. {Unlinks, b, c, d, e, f} \subseteq Steps
      BY Makes DEF Unlinks
<1>3. Clearing = <<Unlinks, b, c, d>> /\ Making = <<e, f>>
      BY DEF Clearing, Making, Unlinks
<1>4. \A x \in {Unlinks, b, c, d, e, f} : x[1] \notin Pushed
      BY <1>1 DEF Pushed
<1> HIDE DEF b, c, d, e, f
<1>5. /\ Clearing \in Seq(Steps) /\ Range(Clearing) = {Unlinks, b, c, d} /\ Len(Clearing) = 4
      /\ Clearing[1] = Unlinks /\ Clearing[2] = b /\ Clearing[3] = c /\ Clearing[4] = d
      BY <1>2, <1>3, FourIs
<1>6. /\ Making \in Seq(Steps) /\ Range(Making) = {e, f} /\ Len(Making) = 2
      /\ Making[1] = e /\ Making[2] = f
      BY <1>2, <1>3, PairIs
<1>7. Sorted(Clearing)
  <2> SUFFICES ASSUME NEW i \in 1..4, NEW j \in 1..4, i < j PROVE Phase(Clearing[i]) <= Phase(Clearing[j])
      BY <1>5 DEF Sorted
  <2>1. j \in 2..4
      OBVIOUS
  <2>2. Phase(Clearing[j]) = 3
      BY <2>1, <1>1, <1>5
  <2>3. Phase(Clearing[i]) \in {2, 3}
      BY <1>1, <1>5
  <2> QED BY <2>2, <2>3
<1>8. Sorted(Making)
  <2> SUFFICES ASSUME NEW i \in 1..2, NEW j \in 1..2, i < j PROVE Phase(Making[i]) <= Phase(Making[j])
      BY <1>6 DEF Sorted
  <2> QED BY <1>1, <1>6
<1>9. Block(Clearing, 2, 3)
      BY <1>1, <1>4, <1>5, <1>7 DEF Block
<1>10. Block(Making, 3, 3)
      BY <1>1, <1>4, <1>6, <1>8 DEF Block
<1> QED BY <1>5, <1>6, <1>9, <1>10 DEF b, c, d, e, f

LEMMA OutputsIs ==
    ASSUME NEW scope, scope \subseteq Materials
    PROVE  /\ OutputsOf(scope) \in Seq(Outputs) /\ Range(OutputsOf(scope)) = OutputSet(scope)
           /\ SetToSeq(scope) \in Seq(Materials) /\ Range(SetToSeq(scope)) = scope
           /\ SetToSeq(Pictured(scope)) \in Seq(Outputs) /\ Range(SetToSeq(Pictured(scope))) \subseteq Outputs
PROOF
<1>1. IsFiniteSet(scope) /\ IsFiniteSet(Tasks \cap scope) /\ IsFiniteSet(Figures \cap scope)
      BY MaterialsAreClassified, FS_Subset
<1>2. SetToSeq(scope) \in Seq(scope) /\ Range(SetToSeq(scope)) = scope
      BY <1>1, SetToSeqIs
<1>3. SetToSeq(scope) \in Seq(Materials)
      BY <1>2, SeqMonotonic
<1>4. SetToSeq(Tasks \cap scope) \in Seq(Tasks \cap scope) /\ Range(SetToSeq(Tasks \cap scope)) = Tasks \cap scope
      BY <1>1, SetToSeqIs
<1>5. SetToSeq(Tasks \cap scope) \in Seq(Outputs)
  <2>1. Tasks \cap scope \subseteq Outputs
      BY DEF Outputs
  <2> QED BY <2>1, <1>4, SeqMonotonic
<1>6. <<"script", "index">> \in Seq(Outputs) /\ Range(<<"script", "index">>) = {"script", "index"}
  <2> DEFINE a == "script"
             b == "index"
  <2>1. a \in Outputs /\ b \in Outputs
      BY DEF Outputs
  <2> HIDE DEF a, b
  <2>2. <<a, b>> \in Seq(Outputs) /\ Range(<<a, b>>) = {a, b}
      BY <2>1, PairIs
  <2> QED BY <2>2 DEF a, b
<1>7. OutputsOf(scope) \in Seq(Outputs) /\ Range(OutputsOf(scope)) = OutputSet(scope)
  <2> DEFINE p == <<"script", "index">>
             r == SetToSeq(Tasks \cap scope)
  <2>1. p \in Seq(Outputs) /\ r \in Seq(Outputs) /\ Range(p) = {"script", "index"} /\ Range(r) = Tasks \cap scope
      BY <1>4, <1>5, <1>6
  <2>2. OutputsOf(scope) = p \o r
      BY DEF OutputsOf
  <2> HIDE DEF p, r
  <2>3. p \o r \in Seq(Outputs) /\ Range(p \o r) = Range(p) \cup Range(r)
      BY <2>1, ConcatProperties, RangeConcatenation
  <2> QED BY <2>1, <2>2, <2>3 DEF OutputSet
<1>8. Pictured(scope) \subseteq Outputs
      BY MaterialsAreClassified DEF Pictured, OutputOf, Outputs, Materials
<1>9. IsFiniteSet(Pictured(scope))
  <2>1. IsFiniteSet(scope \cup {"script"})
      BY <1>1, FS_AddElement
  <2>2. Pictured(scope) \subseteq scope \cup {"script"}
      BY DEF Pictured, OutputOf
  <2> QED BY <2>1, <2>2, FS_Subset
<1>10. SetToSeq(Pictured(scope)) \in Seq(Pictured(scope)) /\ Range(SetToSeq(Pictured(scope))) = Pictured(scope)
      BY <1>9, SetToSeqIs
<1>11. SetToSeq(Pictured(scope)) \in Seq(Outputs)
      BY <1>8, <1>10, SeqMonotonic
<1> QED BY <1>2, <1>3, <1>7, <1>8, <1>10, <1>11

LEMMA ExtractStepsIs ==
    ASSUME NEW scope, scope \subseteq Materials
    PROVE  /\ Block(ExtractSteps(scope), 0, 0)
           /\ Range(ExtractSteps(scope)) = {<<"raw", Nil>>} \cup {<<"extract", m>> : m \in scope} \cup {<<"documents", Nil>>}
           /\ ExtractSteps(scope) # <<>>
PROOF
<1> DEFINE u == One("raw", Nil)
           v == Each("extract", SetToSeq(scope))
           w == One("documents", Nil)
<1>1. Phase(<<"raw", Nil>>) = 0 /\ Phase(<<"documents", Nil>>) = 0 /\ \A m \in Materials : Phase(<<"extract", m>>) = 0
      BY DEF Phase, Unlinks
<1>2. <<"raw", Nil>> \in Steps /\ <<"documents", Nil>> \in Steps /\ \A m \in Materials : <<"extract", m>> \in Steps
      BY Makes
<1>3. Block(u, 0, 0) /\ Range(u) = {<<"raw", Nil>>}
      BY <1>1, <1>2, OneBlock DEF Pushed
<1>4. Block(w, 0, 0) /\ Range(w) = {<<"documents", Nil>>}
      BY <1>1, <1>2, OneBlock DEF Pushed
<1>5. SetToSeq(scope) \in Seq(Materials) /\ Range(SetToSeq(scope)) = scope
      BY OutputsIs
<1>6. Block(v, 0, 0) /\ Range(v) = {<<"extract", m>> : m \in scope}
  <2> DEFINE n == "extract"
             r == SetToSeq(scope)
  <2>1. n \notin Pushed /\ r \in Seq(Materials) /\ Range(r) = scope
        /\ \A m \in Materials : <<n, m>> \in Steps /\ Phase(<<n, m>>) = 0
      BY <1>1, <1>2, <1>5 DEF Pushed
  <2> HIDE DEF n, r
  <2>2. Block(Each(n, r), 0, 0) /\ Range(Each(n, r)) = {<<n, o>> : o \in Range(r)}
      BY <2>1, EachBlock
  <2> QED BY <2>1, <2>2 DEF n, r
<1>7. ExtractSteps(scope) = (u \o v) \o w
      BY DEF ExtractSteps
<1> HIDE DEF u, v, w
<1>8. Block(u \o v, 0, 0) /\ Range(u \o v) = Range(u) \cup Range(v)
      BY <1>3, <1>6, JoinsBlocks
<1>9. Block((u \o v) \o w, 0, 0) /\ Range((u \o v) \o w) = Range(u \o v) \cup Range(w)
      BY <1>4, <1>8, JoinsBlocks
<1>10. Range(ExtractSteps(scope)) # {}
      BY <1>3, <1>7, <1>8, <1>9
<1>11. ExtractSteps(scope) # <<>>
      BY <1>10 DEF Range
<1> QED BY <1>3, <1>4, <1>6, <1>7, <1>8, <1>9, <1>11

(* All that a rebuild is to do, in order.                                  *)
LEMMA RebuildIs ==
    ASSUME NEW scope, scope \subseteq Materials
    PROVE  /\ Block(Rebuild(scope), 1, 6)
           /\ {<<"check", Nil>>, Unlinks, <<"unlink", "tasks">>} \subseteq Range(Rebuild(scope))
           /\ \A f \in OutputSet(scope) : <<"build", f>> \in Range(Rebuild(scope))
PROOF
<1> DEFINE r1 == One("check", Nil)
           r2 == Each("build", OutputsOf(scope))
           r3 == One("hook", Nil)
           r4 == Each("readBack", SetToSeq(Pictured(scope)))
           r5 == One("rebuilt", Nil)
<1>1. /\ Phase(<<"check", Nil>>) = 1 /\ Phase(<<"hook", Nil>>) = 5 /\ Phase(<<"rebuilt", Nil>>) = 6
      /\ \A f \in Outputs : Phase(<<"build", f>>) = 4 /\ Phase(<<"readBack", f>>) = 5
      BY DEF Phase, Unlinks
<1>2. /\ <<"check", Nil>> \in Steps /\ <<"hook", Nil>> \in Steps /\ <<"rebuilt", Nil>> \in Steps
      /\ \A f \in Outputs : <<"build", f>> \in Steps /\ <<"readBack", f>> \in Steps
      BY Makes
<1>3. Block(r1, 1, 1) /\ Range(r1) = {<<"check", Nil>>}
      BY <1>1, <1>2, OneBlock DEF Pushed
<1>4. Block(r3, 5, 5)
      BY <1>1, <1>2, OneBlock DEF Pushed
<1>5. Block(r5, 6, 6)
      BY <1>1, <1>2, OneBlock DEF Pushed
<1>6. /\ OutputsOf(scope) \in Seq(Outputs) /\ Range(OutputsOf(scope)) = OutputSet(scope)
      /\ SetToSeq(Pictured(scope)) \in Seq(Outputs)
      BY OutputsIs
<1>7. Block(r2, 4, 4) /\ Range(r2) = {<<"build", f>> : f \in OutputSet(scope)}
  <2> DEFINE n == "build"
             r == OutputsOf(scope)
  <2>1. n \notin Pushed /\ r \in Seq(Outputs) /\ Range(r) = OutputSet(scope)
        /\ \A m \in Outputs : <<n, m>> \in Steps /\ Phase(<<n, m>>) = 4
      BY <1>1, <1>2, <1>6 DEF Pushed
  <2> HIDE DEF n, r
  <2>2. Block(Each(n, r), 4, 4) /\ Range(Each(n, r)) = {<<n, o>> : o \in Range(r)}
      BY <2>1, EachBlock
  <2> QED BY <2>1, <2>2 DEF n, r
<1>8. Block(r4, 5, 5)
  <2> DEFINE n == "readBack"
             r == SetToSeq(Pictured(scope))
  <2>1. n \notin Pushed /\ r \in Seq(Outputs)
        /\ \A m \in Outputs : <<n, m>> \in Steps /\ Phase(<<n, m>>) = 5
      BY <1>1, <1>2, <1>6 DEF Pushed
  <2> HIDE DEF n, r
  <2>2. Block(Each(n, r), 5, 5)
      BY <2>1, EachBlock
  <2> QED BY <2>2 DEF n, r
<1>9. Rebuild(scope) = (((((r1 \o Clearing) \o Making) \o r2) \o r3) \o r4) \o r5
      BY DEF Rebuild
<1> HIDE DEF r1, r2, r3, r4, r5
<1> DEFINE s1 == r1 \o Clearing
           s2 == s1 \o Making
           s3 == s2 \o r2
           s4 == s3 \o r3
           s5 == s4 \o r4
           s6 == s5 \o r5
<1>10. Block(s1, 1, 3) /\ Range(s1) = Range(r1) \cup Range(Clearing)
      BY <1>3, Removing, JoinsBlocks
<1> HIDE DEF s1
<1>11. Block(s2, 1, 3) /\ Range(s2) = Range(s1) \cup Range(Making)
      BY <1>10, Removing, JoinsBlocks
<1> HIDE DEF s2
<1>12. Block(s3, 1, 4) /\ Range(s3) = Range(s2) \cup Range(r2)
      BY <1>11, <1>7, JoinsBlocks
<1> HIDE DEF s3
<1>13. Block(s4, 1, 5) /\ Range(s4) = Range(s3) \cup Range(r3)
      BY <1>12, <1>4, JoinsBlocks
<1> HIDE DEF s4
<1>14. Block(s5, 1, 5) /\ Range(s5) = Range(s4) \cup Range(r4)
      BY <1>13, <1>8, JoinsBlocks
<1> HIDE DEF s5
<1>15. Block(s6, 1, 6) /\ Range(s6) = Range(s5) \cup Range(r5)
      BY <1>14, <1>5, JoinsBlocks
<1>16. Rebuild(scope) = s6
      BY <1>9 DEF s1, s2, s3, s4, s5
<1> HIDE DEF s6
<1> QED BY <1>3, <1>5, <1>7, <1>10, <1>11, <1>12, <1>13, <1>14, <1>15, <1>16, Removing

LEMMA ShapeOfBlock ==
    ASSUME NEW kind, NEW scope, NEW q, Block(q, 0, 7), Chain(q, scope), Fitting(q, kind)
    PROVE  Shape(q, kind, scope)
PROOF
<1>1. DOMAIN q = 1..Len(q)
      BY LenProperties DEF Block
<1>2. Behind(q)
  <2> SUFFICES ASSUME NEW i \in 2..Len(q) PROVE q[i][1] \notin Pushed
      BY DEF Behind
  <2>1. q[i] \in Range(q)
      BY <1>1, LenProperties DEF Range, Block
  <2> QED BY <2>1 DEF Block
<1> QED BY <1>2 DEF Shape, Block

(* A rebuild, and what comes before and after it.                          *)
WithRebuild(q, kind, scope, P) ==
    /\ Block(q, 0, 7) /\ P \subseteq Steps /\ Range(q) = Range(Rebuild(scope)) \cup P
    /\ \A s \in P : /\ s[1] = "serve" => kind = "view"
                    /\ s[1] = "assemble" => kind = "curated"
                    /\ s[1] \in {"refine", "improve"} => kind = "refine"
                    /\ s[1] # "load"
                    /\ Phase(s) \in {0, 7}

LEMMA ShapeWithRebuild ==
    ASSUME NEW kind, NEW scope, scope \subseteq Materials, NEW q, NEW P, WithRebuild(q, kind, scope, P)
    PROVE  Shape(q, kind, scope) /\ <<"check", Nil>> \in Range(q) /\ Phase(<<"check", Nil>>) = 1
PROOF
<1>1. /\ Block(Rebuild(scope), 1, 6)
      /\ {<<"check", Nil>>, Unlinks, <<"unlink", "tasks">>} \subseteq Range(Rebuild(scope))
      /\ \A f \in OutputSet(scope) : <<"build", f>> \in Range(Rebuild(scope))
      BY RebuildIs
<1>2. Phase(<<"check", Nil>>) = 1
      BY DEF Phase
<1>3. Chain(q, scope)
      BY <1>1 DEF Chain, WithRebuild
<1>4. ASSUME NEW s \in Range(Rebuild(scope))
      PROVE  s[1] \notin {"serve", "assemble", "refine", "improve", "load", "extract"}
  <2>1. s \in Steps /\ Phase(s) \in 1..6
      BY <1>1, RangeEquality, LenProperties DEF Block, Range
  <2>2. Phase(s) # 0 /\ Phase(s) # 7
      BY <2>1
  <2> QED BY <2>1, <2>2, PhaseFacts
<1>5. Fitting(q, kind)
  <2> DEFINE check == <<"check", Nil>>
  <2>1. check \in Range(q) /\ Phase(check) = 1
      BY <1>1, <1>2 DEF WithRebuild
  <2> HIDE DEF check
  <2>2. ASSUME NEW s \in Range(q)
        PROVE  /\ s[1] = "serve" => kind = "view"
               /\ s[1] = "assemble" => kind = "curated"
               /\ s[1] \in {"refine", "improve"} => kind = "refine"
               /\ s[1] # "load"
    <3>1. CASE s \in P
        BY <3>1 DEF WithRebuild
    <3>2. CASE s \in Range(Rebuild(scope))
        BY <3>2, <1>4
    <3> QED BY <3>1, <3>2 DEF WithRebuild
  <2> QED BY <2>1, <2>2 DEF Fitting
<1>6. Block(q, 0, 7) /\ <<"check", Nil>> \in Range(q)
      BY <1>1 DEF WithRebuild
<1> QED BY <1>2, <1>3, <1>5, <1>6, ShapeOfBlock

LEMMA ShapeOfPlain ==
    ASSUME NEW kind, NEW scope, kind \notin {"curated", "view"}, NEW q, Block(q, 0, 0),
           \A s \in Range(q) : s[1] = "load" => kind = "documents"
    PROVE  Shape(q, kind, scope) /\ Block(q, 0, 7)
PROOF
<1>1. \A s \in Range(q) : Phase(s) = 0 /\ s \in Steps
      BY RangeEquality, LenProperties DEF Block, Range
<1>2. Chain(q, scope)
      BY <1>1 DEF Chain
<1>3. Fitting(q, kind)
  <2>1. \A s \in Range(q) : s[1] \notin {"serve", "assemble", "refine", "improve"}
      BY <1>1, PhaseFacts
  <2> QED BY <2>1 DEF Fitting
<1>4. Block(q, 0, 7)
      BY <1>1 DEF Block
<1> QED BY <1>2, <1>3, <1>4, ShapeOfBlock

LEMMA EmptyBlock == Block(<<>>, 0, 0) /\ Block(<<>>, 7, 7) /\ Range(<<>>) = {}
PROOF
<1>1. <<>> \in Seq(Steps) /\ Len(<<>>) = 0
      BY EmptySeq
<1> DEFINE e == <<>>
<1>2. DOMAIN e = 1..0
      BY <1>1, LenProperties
<1>3. Range(e) = {}
      BY <1>2 DEF Range
<1>4. Sorted(e)
      BY <1>1 DEF Sorted
<1> QED BY <1>1, <1>3, <1>4 DEF Block

LEMMA Ones ==
    /\ \A n \in {"inventory", "raw", "load"} : Block(One(n, Nil), 0, 0) /\ Range(One(n, Nil)) = {<<n, Nil>>}
    /\ \A n \in {"assemble", "serve"} : Block(One(n, Nil), 7, 7) /\ Range(One(n, Nil)) = {<<n, Nil>>}
    /\ \A n \in {"refine", "improve"}, m \in Materials : Block(One(n, m), 7, 7) /\ Range(One(n, m)) = {<<n, m>>}
PROOF
<1>1. ASSUME NEW n \in {"inventory", "raw", "load"}
      PROVE  Block(One(n, Nil), 0, 0) /\ Range(One(n, Nil)) = {<<n, Nil>>}
  <2>1. <<n, Nil>> \in Steps /\ Phase(<<n, Nil>>) = 0 /\ n \notin Pushed
      BY Makes DEF Phase, Unlinks, Pushed
  <2> QED BY <2>1, OneBlock
<1>2. ASSUME NEW n \in {"assemble", "serve"}
      PROVE  Block(One(n, Nil), 7, 7) /\ Range(One(n, Nil)) = {<<n, Nil>>}
  <2>1. <<n, Nil>> \in Steps /\ Phase(<<n, Nil>>) = 7 /\ n \notin Pushed
      BY Makes DEF Phase, Unlinks, Pushed
  <2> QED BY <2>1, OneBlock
<1>3. ASSUME NEW n \in {"refine", "improve"}, NEW m \in Materials
      PROVE  Block(One(n, m), 7, 7) /\ Range(One(n, m)) = {<<n, m>>}
  <2>1. <<n, m>> \in Steps /\ Phase(<<n, m>>) = 7 /\ n \notin Pushed
      BY Makes DEF Phase, Unlinks, Pushed
  <2> QED BY <2>1, OneBlock
<1> QED BY <1>1, <1>2, <1>3

Asked(kind, scope, which) ==
    Program(kind, scope)
        \o (IF kind = "refine" THEN One("refine", which) \o One("improve", which) ELSE <<>>)

(* What a request is asked for.                                            *)
LEMMA ProgramShape ==
    ASSUME NEW kind \in AllKinds, NEW scope, scope \subseteq Materials, NEW which,
           kind = "refine" => which \in Materials
    PROVE  /\ Shape(Asked(kind, scope, which), kind, scope)
           /\ Block(Asked(kind, scope, which), 0, 7)
           /\ \/ \A s \in Range(Asked(kind, scope, which)) : Phase(s) = 0
              \/ \E s \in Range(Asked(kind, scope, which)) : Phase(s) = 1
           /\ kind \in {"curated", "view"} => \E s \in Range(Asked(kind, scope, which)) : Phase(s) = 1
PROOF
<1> DEFINE p == Program(kind, scope)
           n1 == One("inventory", Nil)
           n2 == One("raw", Nil)
           n3 == One("load", Nil)
           n4 == One("assemble", Nil)
           n5 == One("serve", Nil)
           n6 == One("refine", which)
           n7 == One("improve", which)
           e == ExtractSteps(scope)
           r == Rebuild(scope)
<1>1. /\ Phase(<<"inventory", Nil>>) = 0 /\ Phase(<<"raw", Nil>>) = 0 /\ Phase(<<"load", Nil>>) = 0
      /\ Phase(<<"assemble", Nil>>) = 7 /\ Phase(<<"serve", Nil>>) = 7
      /\ Phase(<<"refine", which>>) = 7 /\ Phase(<<"improve", which>>) = 7
      BY DEF Phase, Unlinks
<1>2. /\ <<"inventory", Nil>> \in Steps /\ <<"raw", Nil>> \in Steps /\ <<"load", Nil>> \in Steps
      /\ <<"assemble", Nil>> \in Steps /\ <<"serve", Nil>> \in Steps
      BY Makes
<1>3. Block(n1, 0, 0) /\ Range(n1) = {<<"inventory", Nil>>}
      BY Ones
<1>4. Block(n2, 0, 0) /\ Range(n2) = {<<"raw", Nil>>}
      BY Ones
<1>5. Block(n3, 0, 0) /\ Range(n3) = {<<"load", Nil>>}
      BY Ones
<1>6. Block(n4, 7, 7) /\ Range(n4) = {<<"assemble", Nil>>}
      BY Ones
<1>7. Block(n5, 7, 7) /\ Range(n5) = {<<"serve", Nil>>}
      BY Ones
<1>8. /\ Block(e, 0, 0)
      /\ Range(e) = {<<"raw", Nil>>} \cup {<<"extract", m>> : m \in scope} \cup {<<"documents", Nil>>}
      BY ExtractStepsIs
<1>9. Block(r, 1, 6)
      BY RebuildIs
<1>10. Block(<<>>, 0, 0) /\ Block(<<>>, 7, 7) /\ Range(<<>>) = {}
      BY EmptyBlock
<1>11. \A s \in Range(e) : s[1] \in {"raw", "extract", "documents"}
      BY <1>8
<1> DEFINE check == <<"check", Nil>>
<1>12. /\ p = CASE kind = "inventory" -> n1
                [] kind = "raw" -> n1 \o n2
                [] kind = "extracted" -> e
                [] kind = "curated" -> ((IF HasExtractedArtifacts THEN <<>> ELSE e) \o r) \o n4
                [] kind = "documents" -> n3
                [] kind = "view" -> r \o n5
                [] kind = "refine" -> r
      BY DEF Program
<1>13. kind # "refine" => Asked(kind, scope, which) = p \o <<>>
      BY DEF Asked
<1>14. kind = "refine" => Asked(kind, scope, which) = p \o (n6 \o n7)
      BY DEF Asked
<1>15. Block(p, 0, 0) => p \o <<>> = p
      BY ConcatEmptySeq DEF Block
<1> HIDE DEF p, n1, n2, n3, n4, n5, n6, n7, e, r
<1> DEFINE Goal(t) == /\ Shape(t, kind, scope)
                      /\ Block(t, 0, 7)
                      /\ (\A s \in Range(t) : Phase(s) = 0) \/ (\E s \in Range(t) : Phase(s) = 1)
                      /\ kind \in {"curated", "view"} => \E s \in Range(t) : Phase(s) = 1
<1> SUFFICES Goal(Asked(kind, scope, which))
      OBVIOUS
<1>20. ASSUME kind \notin {"curated", "view", "refine"}, Block(p, 0, 0),
              \A s \in Range(p) : s[1] = "load" => kind = "documents"
       PROVE  Goal(Asked(kind, scope, which))
  <2>1. Asked(kind, scope, which) = p
      BY <1>13, <1>15, <1>20
  <2>2. Shape(p, kind, scope) /\ Block(p, 0, 7)
      BY <1>20, ShapeOfPlain
  <2>3. \A s \in Range(p) : Phase(s) = 0
      BY <1>20 DEF Block
  <2> QED BY <1>20, <2>1, <2>2, <2>3
<1>21. ASSUME NEW t, NEW P, WithRebuild(t, kind, scope, P)
       PROVE  Goal(t)
  <2>1. Shape(t, kind, scope) /\ check \in Range(t) /\ Phase(check) = 1
      BY <1>21, ShapeWithRebuild
  <2>2. Block(t, 0, 7)
      BY <1>21 DEF WithRebuild
  <2> HIDE DEF check
  <2> QED BY <2>1, <2>2
<1>22. CASE kind = "inventory"
  <2>1. p = n1
      BY <1>12, <1>22
  <2>2. \A s \in Range(p) : s[1] # "load"
      BY <2>1, <1>3
  <2> QED BY <1>3, <1>20, <1>22, <2>1, <2>2
<1>23. CASE kind = "raw"
  <2>1. p = n1 \o n2
      BY <1>12, <1>23
  <2>2. Block(n1 \o n2, 0, 0) /\ Range(n1 \o n2) = Range(n1) \cup Range(n2)
      BY <1>3, <1>4, JoinsBlocks
  <2>3. \A s \in Range(p) : s[1] # "load"
      BY <1>3, <1>4, <2>1, <2>2
  <2> QED BY <1>20, <1>23, <2>1, <2>2, <2>3
<1>24. CASE kind = "extracted"
  <2>1. p = e
      BY <1>12, <1>24
  <2>2. \A s \in Range(p) : s[1] # "load"
      BY <2>1, <1>11
  <2> QED BY <1>8, <1>20, <1>24, <2>1, <2>2
<1>25. CASE kind = "documents"
  <2>1. p = n3
      BY <1>12, <1>25
  <2> QED BY <1>5, <1>20, <1>25, <2>1
<1>26. CASE kind = "curated"
  <2> DEFINE first == IF HasExtractedArtifacts THEN <<>> ELSE e
  <2>1. Block(first, 0, 0) /\ Range(first) \subseteq Range(e)
      BY <1>8, <1>10
  <2>2. p = (first \o r) \o n4
      BY <1>12, <1>26
  <2> HIDE DEF first
  <2> DEFINE u == first \o r
  <2>3. Block(u, 0, 6) /\ Range(u) = Range(first) \cup Range(r)
      BY <2>1, <1>9, JoinsBlocks
  <2>4. p = u \o n4
      BY <2>2
  <2> HIDE DEF u
  <2>5. Block(p, 0, 7) /\ Range(p) = Range(u) \cup Range(n4)
      BY <2>3, <2>4, <1>6, JoinsBlocks
  <2>6. Asked(kind, scope, which) = p
      BY <1>13, <1>26, <2>5, ConcatEmptySeq DEF Block
  <2> DEFINE P == Range(first) \cup Range(n4)
  <2>7. Range(p) = Range(Rebuild(scope)) \cup P
      BY <2>3, <2>5 DEF r
  <2>8. P \in SUBSET Steps
    <3>1. first \in Seq(Steps) /\ n4 \in Seq(Steps)
        BY <2>1, <1>6 DEF Block
    <3> QED BY <3>1, LenProperties DEF Range
  <2>9. \A s \in P : /\ s[1] \in {"raw", "extract", "documents"} \/ s = <<"assemble", Nil>>
                     /\ Phase(s) \in {0, 7}
    <3>1. \A s \in Range(first) : Phase(s) = 0
        BY <2>1 DEF Block
    <3>2. \A s \in Range(n4) : Phase(s) = 7
        BY <1>6 DEF Block
    <3> QED BY <3>1, <3>2, <2>1, <1>6, <1>11
  <2>10. <<"assemble", Nil>>[1] = "assemble"
      OBVIOUS
  <2> HIDE DEF P
  <2>11. \A s \in P : /\ s[1] = "serve" => kind = "view"
                      /\ s[1] = "assemble" => kind = "curated"
                      /\ s[1] \in {"refine", "improve"} => kind = "refine"
                      /\ s[1] # "load"
                      /\ Phase(s) \in {0, 7}
    <3> DEFINE a == <<"assemble", Nil>>
    <3>1. a[1] = "assemble" /\ \A s \in P : s[1] \in {"raw", "extract", "documents"} \/ s = a
        BY <2>9
    <3> HIDE DEF a
    <3> QED BY <2>9, <3>1, <1>26
  <2>12. WithRebuild(p, kind, scope, P)
      BY <2>5, <2>7, <2>8, <2>11 DEF WithRebuild
  <2>13. Goal(p)
      BY <1>21, <2>12
  <2> QED BY <2>6, <2>13
<1>27. CASE kind = "view"
  <2>1. p = r \o n5
      BY <1>12, <1>27
  <2>2. Block(r \o n5, 1, 7) /\ Range(r \o n5) = Range(r) \cup Range(n5)
      BY <1>7, <1>9, JoinsBlocks
  <2>3. Block(p, 0, 7)
      BY <2>1, <2>2 DEF Block
  <2>4. Asked(kind, scope, which) = p
      BY <1>13, <1>27, <2>3, ConcatEmptySeq DEF Block
  <2> DEFINE a == <<"serve", Nil>>
  <2>5. a[1] = "serve" /\ a \in Steps /\ Phase(a) = 7 /\ Range(n5) = {a}
      BY <1>1, <1>2, <1>7
  <2> HIDE DEF a
  <2>6. Range(p) = Range(Rebuild(scope)) \cup {a}
      BY <2>1, <2>2, <2>5 DEF r
  <2>8. {a} \in SUBSET Steps
        /\ \A s \in {a} : /\ s[1] = "serve" => kind = "view"
                          /\ s[1] = "assemble" => kind = "curated"
                          /\ s[1] \in {"refine", "improve"} => kind = "refine"
                          /\ s[1] # "load"
                          /\ Phase(s) \in {0, 7}
      BY <1>27, <2>5
  <2>9. WithRebuild(p, kind, scope, {a})
      BY <2>3, <2>6, <2>8 DEF WithRebuild
  <2>7. Goal(p)
      BY <1>21, <2>9
  <2> QED BY <2>4, <2>7
<1>28. CASE kind = "refine"
  <2>1. p = r /\ which \in Materials
      BY <1>12, <1>28
  <2> DEFINE a == <<"refine", which>>
             b == <<"improve", which>>
  <2>2. /\ a[1] = "refine" /\ a \in Steps /\ Phase(a) = 7
        /\ b[1] = "improve" /\ b \in Steps /\ Phase(b) = 7
      BY <1>1, <2>1, Makes
  <2>3. Block(n6, 7, 7) /\ Range(n6) = {a} /\ Block(n7, 7, 7) /\ Range(n7) = {b}
      BY <2>1, Ones DEF n6, n7, a, b
  <2> HIDE DEF a, b
  <2> DEFINE u == n6 \o n7
  <2>4. Block(u, 7, 7) /\ Range(u) = {a, b}
      BY <2>3, JoinsBlocks
  <2> HIDE DEF u
  <2> DEFINE t == r \o u
  <2>5. Block(t, 1, 7) /\ Range(t) = Range(r) \cup {a, b}
      BY <2>4, <1>9, JoinsBlocks
  <2>6. Asked(kind, scope, which) = t
      BY <1>14, <1>28, <2>1 DEF u
  <2> HIDE DEF t
  <2>7. Block(t, 0, 7) /\ Range(t) = Range(Rebuild(scope)) \cup {a, b}
      BY <2>5 DEF Block, r
  <2>8. {a, b} \in SUBSET Steps
        /\ \A s \in {a, b} : /\ s[1] = "serve" => kind = "view"
                             /\ s[1] = "assemble" => kind = "curated"
                             /\ s[1] \in {"refine", "improve"} => kind = "refine"
                             /\ s[1] # "load"
                             /\ Phase(s) \in {0, 7}
      BY <1>28, <2>2
  <2>9. WithRebuild(t, kind, scope, {a, b})
      BY <2>7, <2>8 DEF WithRebuild
  <2>10. Goal(t)
      BY <1>21, <2>9
  <2> QED BY <2>6, <2>10
<1> QED BY <1>22, <1>23, <1>24, <1>25, <1>26, <1>27, <1>28 DEF AllKinds
-----------------------------------------------------------------------------
(* What a step does to what is left to do: the head is gone, the rest is   *)
(* left, and the new steps come first.                                     *)

Goes(h, new) ==
    /\ todo' \in [Handlers -> Seq(Steps)] /\ todo[h] # <<>>
    /\ \A g \in Handlers : g # h => todo'[g] = todo[g]
    /\ Shape(todo'[h], req[h].kind, req[h].scope)
    /\ Range(todo[h]) = {Head(todo[h])} \cup Range(Tail(todo[h]))
    /\ Range(todo'[h]) = new \cup Range(Tail(todo[h]))
    /\ \A s \in Range(Tail(todo[h])) : s \in Steps /\ Phase(Head(todo[h])) <= Phase(s) /\ s[1] \notin Pushed
    /\ new = {} /\ todo'[h] # <<>> => Head(todo'[h]) \in Range(Tail(todo[h]))

LEMMA StepGoes ==
    ASSUME NEW h \in Handlers, todo \in [Handlers -> Seq(Steps)], ShapeOf(h), Working(h), Step(h)
    PROVE  Goes(h, {}) /\ (todo'[h] = <<>> <=> Len(todo[h]) = 1)
PROOF
<1> DEFINE q == todo[h]
           t == Tail(q)
<1>1. Shape(q, req[h].kind, req[h].scope) /\ q # <<>>
      BY DEF ShapeOf, Working
<1>2. /\ Shape(t, req[h].kind, req[h].scope) /\ t \in Seq(Steps)
      /\ Range(q) = {Head(q)} \cup Range(t) /\ Range(q) \subseteq Steps
      /\ \A s \in Range(t) : Phase(Head(q)) <= Phase(s) /\ s[1] \notin Pushed
      /\ t # <<>> => Head(t) \in Range(t)
      /\ Len(q) = 1 <=> t = <<>>
      BY <1>1, TailShape
<1>3. todo' = [todo EXCEPT ![h] = t]
      BY DEF Step
<1> HIDE DEF t
<1>4. todo'[h] = t /\ todo' \in [Handlers -> Seq(Steps)] /\ \A g \in Handlers : g # h => todo'[g] = todo[g]
      BY <1>2, <1>3
<1> QED BY <1>1, <1>2, <1>4 DEF Goes, t

MayComeFirst(h, u) ==
    \A x \in Range(u) :
        /\ Phase(x) \in {0, 4, 5} /\ Phase(x) <= Phase(Head(todo[h]))
        /\ x[1] \notin {"serve", "assemble", "refine", "improve", "load"}
        /\ x[1] = "extract" => req[h].kind \notin {"curated", "view"}

LEMMA StepToGoes ==
    ASSUME NEW h \in Handlers, todo \in [Handlers -> Seq(Steps)], ShapeOf(h), Working(h),
           NEW u \in Seq(Steps), u # <<>>, Sorted(u), Behind(u), StepTo(h, u), MayComeFirst(h, u)
    PROVE  Goes(h, Range(u)) /\ todo'[h] # <<>> /\ Head(todo'[h]) = u[1]
PROOF
<1> DEFINE q == todo[h]
           t == Tail(q)
           k == req[h].kind
           scope == req[h].scope
<1>1. Shape(q, k, scope) /\ q # <<>>
      BY DEF ShapeOf, Working
<1>2. /\ Shape(t, k, scope) /\ t \in Seq(Steps) /\ Head(q) \in Steps
      /\ Range(q) = {Head(q)} \cup Range(t) /\ Range(q) \subseteq Steps
      /\ \A s \in Range(t) : Phase(Head(q)) <= Phase(s) /\ s[1] \notin Pushed
      BY <1>1, TailShape
<1>3. todo' = [todo EXCEPT ![h] = u \o t]
      BY DEF StepTo
<1>4. MayPrecede(u, t, k)
  <2>1. ASSUME NEW x \in Range(u), NEW y \in Range(t) PROVE Phase(x) <= Phase(y)
    <3>1. Phase(x) <= Phase(Head(q)) /\ Phase(Head(q)) <= Phase(y)
        BY <1>2 DEF MayComeFirst
    <3>2. Phase(x) \in 0..7 /\ Phase(y) \in 0..7 /\ Phase(Head(q)) \in 0..7
      <4>1. x \in Steps /\ y \in Steps
          BY <1>2, LenProperties DEF Range
      <4> QED BY <4>1, <1>2, PhaseFacts
    <3> QED BY <3>1, <3>2
  <2> QED BY <1>2, <2>1 DEF MayPrecede, MayComeFirst
<1> HIDE DEF t, k, scope
<1> DEFINE r == u \o t
<1>5. /\ Shape(r, k, scope) /\ Range(r) = Range(u) \cup Range(t)
      /\ r # <<>> /\ Head(r) = u[1] /\ u[1] \in Range(u)
      BY <1>2, <1>4, PushedFirst
<1>6. r \in Seq(Steps)
      BY <1>5 DEF Shape
<1> HIDE DEF r
<1>10. todo'[h] = r /\ todo' \in [Handlers -> Seq(Steps)] /\ \A g \in Handlers : g # h => todo'[g] = todo[g]
      BY <1>3, <1>6 DEF r
<1>11. Range(u) # {}
      BY <1>5
<1> QED BY <1>1, <1>2, <1>5, <1>10, <1>11 DEF Goes, t, k, scope

LEMMA StepToOne ==
    ASSUME NEW h \in Handlers, todo \in [Handlers -> Seq(Steps)], ShapeOf(h), Working(h),
           NEW n, NEW o, <<n, o>> \in Steps, StepTo(h, One(n, o)),
           Phase(<<n, o>>) \in {0, 4, 5}, Phase(<<n, o>>) <= Phase(Head(todo[h])),
           n \notin {"serve", "assemble", "refine", "improve", "load", "extract"}
    PROVE  Goes(h, {<<n, o>>}) /\ todo'[h] # <<>> /\ Head(todo'[h]) = <<n, o>>
PROOF
<1> DEFINE u == One(n, o)
           p == <<n, o>>
<1>1. u \in Seq(Steps) /\ Len(u) = 1 /\ u[1] = p /\ Sorted(u) /\ Range(u) = {p} /\ u # <<>>
      BY OneBlock
<1>2. p[1] = n /\ StepTo(h, u) /\ Phase(p) \in {0, 4, 5} /\ Phase(p) <= Phase(Head(todo[h]))
      OBVIOUS
<1> HIDE DEF u, p
<1>3. Behind(u)
      BY <1>1 DEF Behind
<1>4. MayComeFirst(h, u)
      BY <1>1, <1>2 DEF MayComeFirst
<1>6. u \in Seq(Steps) /\ u # <<>> /\ Sorted(u) /\ StepTo(h, u)
      BY <1>1, <1>2
<1>7. Goes(h, Range(u)) /\ todo'[h] # <<>> /\ Head(todo'[h]) = u[1]
      BY <1>3, <1>4, <1>6, StepToGoes
<1> QED BY <1>1, <1>7 DEF p

LEMMA AtIs ==
    ASSUME NEW h \in Handlers, ShapeOf(h), NEW name, At(h, name)
    PROVE  /\ Working(h) /\ todo[h] # <<>>
           /\ Head(todo[h]) \in Steps /\ Head(todo[h])[1] = name /\ Head(todo[h]) = <<name, On(h)>>
           /\ Head(todo[h]) \in Range(todo[h])
           /\ name \in {"extract", "refine", "improve"} => On(h) \in Materials
           /\ name \in {"unlink", "rmdir", "mkdir"} => On(h) \in {"script", "tasks"}
           /\ name \in {"build", "write", "readBack", "reopen"} => On(h) \in Outputs
           /\ Phase(Head(todo[h])) \in 0..7
PROOF
<1>1. Working(h) /\ todo[h] # <<>> /\ Head(todo[h])[1] = name
      BY DEF At, Working
<1>2. Head(todo[h]) \in Steps /\ Head(todo[h]) \in Range(todo[h])
      BY <1>1, TailShape DEF ShapeOf
<1> DEFINE s == Head(todo[h])
<1>3. s = <<s[1], s[2]>> /\ On(h) = s[2]
      BY <1>2, StepFacts DEF On
<1> HIDE DEF s
<1>4. s = <<name, On(h)>>
      BY <1>1, <1>3 DEF s
<1>5. /\ name \in {"extract", "refine", "improve"} => On(h) \in Materials
      /\ name \in {"unlink", "rmdir", "mkdir"} => On(h) \in {"script", "tasks"}
      /\ name \in {"build", "write", "readBack", "reopen"} => On(h) \in Outputs
      BY <1>1, <1>2, <1>3, StepFacts DEF s
<1> QED BY <1>1, <1>2, <1>4, <1>5, PhaseFacts DEF s

(* After a step, a handler is not halfway through another.                 *)
LEMMA NotHalfway ==
    ASSUME NEW h \in Handlers, NEW new, Goes(h, new), NEW name \in Pushed,
           new = {} \/ (todo'[h] # <<>> /\ Head(todo'[h]) \in new /\ \A s \in new : s[1] # name)
    PROVE  ~At(h, name)'
PROOF BY DEF Goes, At, Working

LEMMA PastStep ==
    ASSUME NEW h \in Handlers, ShapeOf(h), NEW new, Goes(h, new), req' = req, NEW f, Past(h, f)'
    PROVE  /\ Head(todo[h])[1] # "extract" /\ Phase(Head(todo[h])) \notin 1..3
           /\ Head(todo[h]) # <<"build", f>> => Past(h, f)
           /\ req[h].kind \in {"curated", "view"} /\ f \in OutputSet(req[h].scope)
           /\ Working(h)
PROOF
<1> DEFINE b == <<"build", f>>
           q == todo[h]
           s == Head(q)
           rest == Range(Tail(q))
<1>1. /\ Range(q) = {s} \cup rest /\ rest \subseteq Range(todo'[h]) /\ todo[h] # <<>>
      BY DEF Goes
<1>2. /\ req[h].kind \in {"curated", "view"} /\ f \in OutputSet(req[h].scope)
      /\ \A x \in rest : x[1] # "extract" /\ Phase(x) \notin 1..3 /\ x # b
      BY <1>1 DEF Past
<1>3. /\ Chain(q, req[h].scope) /\ Fitting(q, req[h].kind)
      BY DEF ShapeOf, Shape
<1>4. s \in Steps
      BY <1>1, TailShape DEF ShapeOf
<1>5. b[1] = "build" /\ ((\E x \in Range(q) : Phase(x) \in 1..3) => b \in Range(q))
      BY <1>2, <1>3 DEF Chain
<1>6. (\E x \in Range(q) : x[1] = "extract") => \E x \in Range(q) : Phase(x) = 1
      BY <1>2, <1>3 DEF Fitting
<1> HIDE DEF b, s, rest, q
<1>7. Phase(s) \notin 1..3
  <2> SUFFICES ASSUME Phase(s) \in 1..3 PROVE FALSE
      OBVIOUS
  <2>0. s \in Range(q)
      BY <1>1
  <2>1. b \in Range(q) /\ b[1] = "build"
      BY <2>0, <1>5
  <2>2. s = b
      BY <1>1, <1>2, <2>1
  <2>3. s[1] = "build"
      BY <2>1, <2>2
  <2>4. Phase(s) = 4
      BY <1>4, <2>3, PhaseFacts
  <2> QED BY <2>4
<1>8. s[1] # "extract"
  <2> SUFFICES ASSUME s[1] = "extract" PROVE FALSE
      OBVIOUS
  <2>1. PICK x \in {s} \cup rest : Phase(x) = 1
      BY <1>1, <1>6
  <2> QED BY <2>1, <1>2, <1>7
<1>9. s # b => Past(h, f)
  <2>1. Working(h)
      BY <1>1 DEF Working
  <2>2. s # b => \A x \in Range(q) : x[1] # "extract" /\ Phase(x) \notin 1..3 /\ x # b
      BY <1>1, <1>2, <1>7, <1>8
  <2> QED BY <1>2, <2>1, <2>2 DEF Past, b, q
<1> QED BY <1>1, <1>2, <1>7, <1>8, <1>9 DEF s, b, q, Working

-----------------------------------------------------------------------------
(* What a step of one handler leaves as it was.                            *)

LEMMA OthersHold ==
    ASSUME Overlaps, NEW h \in Handlers, NEW new, Goes(h, new), contended' = contended,
           \A f \in Outputs : ~contended[h] /\ Past(h, f)' => HoldsOf(h, f)'
    PROVE  Holding' /\ Overlaps'
PROOF
<1>1. Working(h)
      BY DEF Goes, Working
<1>2. \A g \in Handlers : Working(g)' => Working(g)
      BY <1>1 DEF Goes, Working
<1>3. Overlaps'
      BY <1>2 DEF Overlaps
<1>4. ASSUME NEW g \in Handlers, ~contended'[g], NEW f \in Outputs, Past(g, f)' PROVE HoldsOf(g, f)'
  <2>1. CASE g = h
      BY <2>1, <1>4
  <2>2. CASE g # h
    <3>1. Working(g)'
        BY <1>4 DEF Past
    <3>2. contended[g]
        BY <2>2, <3>1, <1>1, <1>2 DEF Overlaps
    <3> QED BY <3>2, <1>4
  <2> QED BY <2>1, <2>2
<1> QED BY <1>3, <1>4 DEF Holding

LEMMA StillHolds ==
    ASSUME NEW h \in Handlers, ShapeOf(h), NEW new, Goes(h, new), req' = req,
           ~At(h, "write")', ~At(h, "reopen")',
           Head(todo[h])[1] \notin {"build", "write"},
           file' = file \/ Phase(Head(todo[h])) \in 1..3,
           (extracted' = extracted /\ improved' = improved) \/ Head(todo[h])[1] \in {"extract", "improve"},
           Holding, ~contended[h], NEW f \in Outputs, Past(h, f)'
    PROVE  HoldsOf(h, f)'
PROOF
<1>1. /\ Head(todo[h])[1] # "extract" /\ Phase(Head(todo[h])) \notin 1..3
      /\ Head(todo[h]) # <<"build", f>> => Past(h, f)
      /\ req[h].kind \in {"curated", "view"}
      BY PastStep
<1>2. Head(todo[h])[1] # "improve"
  <2>1. Head(todo[h]) \in Range(todo[h]) /\ Fitting(todo[h], req[h].kind)
      BY DEF Goes, ShapeOf, Shape
  <2> QED BY <1>1, <2>1 DEF Fitting
<1>3. Past(h, f)
  <2> DEFINE b == <<"build", f>>
  <2>1. b[1] = "build"
      OBVIOUS
  <2> HIDE DEF b
  <2>2. Head(todo[h]) # b
      BY <2>1
  <2> QED BY <2>2, <1>1 DEF b
<1>4. file[f] = BuiltFor(h, f)
  <2>1. ~At(h, "write")
      BY DEF At
  <2> QED BY <1>3, <2>1 DEF Holding, HoldsOf
<1>5. file' = file /\ extracted' = extracted /\ improved' = improved
      BY <1>1, <1>2
<1>6. BuiltFor(h, f)' = BuiltFor(h, f)
      BY <1>5 DEF BuiltFor, Built, Displayed
<1> QED BY <1>4, <1>5, <1>6 DEF HoldsOf

LEMMA ExtractedStep ==
    ASSUME NEW h \in Handlers, ShapeOf(h), WasExtracted, NEW new, Goes(h, new),
           \A s \in new : Phase(s) \notin 1..3 /\ (Phase(s) \in 4..5 => Phase(Head(todo[h])) \in 4..5),
           HasExtractedArtifacts => HasExtractedArtifacts',
           Phase(Head(todo[h])) = 1 => HasExtractedArtifacts,
           fresh[h] = "no" \/ fresh'[h] # "no" \/ Phase(Head(todo[h])) = 6,
           Head(todo[h]) = Unlinks => fresh'[h] # "no",
           fresh'[h] # "no" => fresh[h] # "no" \/ HasExtractedArtifacts \/ Phase(Head(todo[h])) \in 2..5,
           \A g \in Handlers : g # h => fresh'[g] = fresh[g],
           tree' = "built" => tree = "built" \/ fresh[h] # "no"
    PROVE  WasExtracted'
PROOF
<1> DEFINE s == Head(todo[h])
           rest == Range(Tail(todo[h]))
<1>1. /\ Range(todo[h]) = {s} \cup rest /\ Range(todo'[h]) = new \cup rest
      /\ \A x \in rest : x \in Steps /\ Phase(s) <= Phase(x)
      BY DEF Goes
<1>2. s \in Steps /\ Chain(todo[h], req[h].scope)
      BY TailShape DEF ShapeOf, Shape, Goes
<1> HIDE DEF s, rest
<1>3. Phase(s) \in 0..7 /\ (Phase(s) = 2 <=> s = Unlinks) /\ \A x \in rest : Phase(x) \in 0..7
      BY <1>1, <1>2, PhaseFacts
<1>4. ExtractedOf(h) /\ \A g \in Handlers : ExtractedOf(g)
      BY DEF WasExtracted
<1>5. ASSUME Checked(h)' PROVE (Checked(h) \/ Phase(s) = 1) /\ Phase(s) # 6
  <2>1. \A x \in new \cup rest : Phase(x) # 1
      BY <1>1, <1>5 DEF Checked
  <2>2. PICK x \in new \cup rest : Phase(x) \in 2..5
      BY <1>1, <1>5 DEF Checked
  <2>3. Phase(s) # 6
    <3>1. CASE x \in rest
        BY <1>1, <1>3, <2>2, <3>1
    <3>2. CASE x \in new
        BY <2>2, <3>2 DEF s
    <3> QED BY <2>2, <3>1, <3>2
  <2>4. \E y \in {s} \cup rest : Phase(y) \in 2..5
    <3>1. CASE x \in rest
        BY <2>2, <3>1
    <3>2. CASE x \in new
        BY <2>2, <3>2 DEF s
    <3> QED BY <2>2, <3>1, <3>2
  <2>5. Phase(s) # 1 => Checked(h)
      BY <1>1, <2>1, <2>4 DEF Checked
  <2> QED BY <2>3, <2>5
<1>6. ExtractedOf(h)'
  <2>1. Checked(h)' => HasExtractedArtifacts'
      BY <1>4, <1>5 DEF ExtractedOf, s
  <2>2. ASSUME fresh'[h] # "no" PROVE HasExtractedArtifacts'
    <3>1. CASE Phase(s) \in 2..5
      <4>1. Checked(h)
        <5>1. \A y \in {s} \cup rest : Phase(y) # 1
            BY <1>1, <1>3, <3>1
        <5> QED BY <1>1, <3>1, <5>1 DEF Checked
      <4> QED BY <4>1, <1>4 DEF ExtractedOf
    <3>2. CASE Phase(s) \notin 2..5
        BY <2>2, <3>2, <1>4 DEF ExtractedOf, s
    <3> QED BY <3>1, <3>2
  <2>3. ASSUME Checked(h)', Unlinks \notin Range(todo'[h]) PROVE fresh'[h] # "no"
    <3>1. Unlinks \notin rest
        BY <1>1, <2>3
    <3>2. CASE s = Unlinks
        BY <3>2 DEF s
    <3>3. CASE Phase(s) = 1
      <4>1. Unlinks \in {s} \cup rest
          BY <1>1, <1>2, <3>3 DEF Chain
      <4>2. s = Unlinks
          BY <3>1, <4>1
      <4> QED BY <4>2 DEF s
    <3>4. CASE s # Unlinks /\ Phase(s) # 1
      <4>1. Checked(h) /\ Unlinks \notin Range(todo[h]) /\ Phase(s) # 6
          BY <1>1, <1>5, <2>3, <3>1, <3>4
      <4>2. fresh[h] # "no"
          BY <1>4, <4>1 DEF ExtractedOf
      <4> QED BY <4>1, <4>2 DEF s
    <3> QED BY <3>2, <3>3, <3>4
  <2> QED BY <2>1, <2>2, <2>3 DEF ExtractedOf
<1>7. ASSUME NEW g \in Handlers, g # h PROVE ExtractedOf(g)'
  <2>1. todo'[g] = todo[g] /\ fresh'[g] = fresh[g]
      BY <1>7 DEF Goes
  <2> QED BY <1>4, <2>1 DEF ExtractedOf, Checked
<1>8. tree' = "built" => HasExtractedArtifacts'
      BY <1>4 DEF WasExtracted, ExtractedOf
<1> QED BY <1>6, <1>7, <1>8 DEF WasExtracted

LEMMA PromisedStep ==
    ASSUME NEW h \in Handlers, NEW new, Goes(h, new), Promised, file' = file, handle' = handle,
           fresh' = fresh, tree' = tree,
           Head(todo[h])[1] \notin {"build", "unlink", "write"}
    PROVE  Promised'
PROOF
<1>1. Undisturbed' = Undisturbed
      BY DEF Undisturbed
<1>2. \A x \in Range(todo[h]) : x[1] \in {"build", "unlink"} => x \in Range(todo'[h])
  <2> DEFINE s == Head(todo[h])
             rest == Range(Tail(todo[h]))
  <2>1. Range(todo[h]) = {s} \cup rest /\ Range(todo'[h]) = new \cup rest /\ s[1] \notin {"build", "unlink"}
      BY DEF Goes
  <2> HIDE DEF s, rest
  <2> QED BY <2>1
<1>3. \A g \in Handlers : g # h => todo'[g] = todo[g]
      BY DEF Goes
<1>4. ASSUME NEW g \in Handlers, NEW f \in Outputs PROVE Writes(g, f) => Writes(g, f)'
  <2>1. CASE g = h
      BY <2>1 DEF Writes, At
  <2>2. CASE g # h
      BY <2>2, <1>3 DEF Writes, At, On, Working
  <2> QED BY <2>1, <2>2
<1>5. ASSUME NEW g \in Handlers, NEW f \in Outputs
      PROVE  /\ <<"build", f>> \in Range(todo[g]) => <<"build", f>> \in Range(todo'[g])
             /\ <<"unlink", DirOf(f)>> \in Range(todo[g]) => <<"unlink", DirOf(f)>> \in Range(todo'[g])
  <2> DEFINE b == <<"build", f>>
             u == <<"unlink", DirOf(f)>>
  <2>1. b[1] = "build" /\ u[1] = "unlink"
      OBVIOUS
  <2> HIDE DEF b, u
  <2>2. CASE g = h
      BY <2>1, <2>2, <1>2 DEF b, u
  <2>3. CASE g # h
      BY <2>3, <1>3
  <2> QED BY <2>2, <2>3
<1>6. ASSUME NEW g \in Handlers, NEW f \in Outputs
      PROVE  (WillWrite(g, f) => WillWrite(g, f)') /\ (WillEnd(g, f) => WillEnd(g, f)')
      BY <1>4, <1>5 DEF WillWrite, WillEnd
<1>7. {"script", "index"} \subseteq Outputs
      BY DEF Outputs
<1> QED BY <1>1, <1>6, <1>7 DEF Promised

LEMMA FilesStep ==
    ASSUME NEW h \in Handlers, NEW new, Goes(h, new), Files, file' = file,
           dirs \subseteq dirs' \/ \A f \in Outputs : file[f].state # "absent" => DirOf(f) \in dirs',
           \A g \in Handlers : g # h => handle'[g] = handle[g] /\ buf'[g] = buf[g],
           WriterOf(h)'
    PROVE  Files'
PROOF
<1>1. ASSUME NEW g \in Handlers PROVE WriterOf(g)'
  <2>1. CASE g = h
      BY <2>1
  <2>2. CASE g # h
    <3>1. todo'[g] = todo[g] /\ handle'[g] = handle[g] /\ buf'[g] = buf[g]
        BY <2>2 DEF Goes
    <3>2. WriterOf(g)
        BY DEF Files
    <3> QED BY <3>1, <3>2 DEF WriterOf, At, On, Working
  <2> QED BY <2>1, <2>2
<1>2. \A f \in Outputs : file'[f].state # "absent" => DirOf(f) \in dirs'
      BY DEF Files
<1> QED BY <1>1, <1>2 DEF Files

LEMMA DocumentedStep ==
    ASSUME NEW h \in Handlers, NEW new, Goes(h, new), Documented, latest' = latest, spoiled' = spoiled,
           ~Saves(h), ~Saves(h)'
    PROVE  Documented'
PROOF
<1>1. \A g \in Handlers : Saves(g)' <=> Saves(g)
  <2> SUFFICES ASSUME NEW g \in Handlers, g # h PROVE Saves(g)' <=> Saves(g)
      OBVIOUS
  <2>1. todo'[g] = todo[g]
      BY DEF Goes
  <2> QED BY <2>1 DEF Saves, At, Working
<1> QED BY <1>1 DEF Documented

(* A step that leaves the curated files alone.                             *)
Minor(h, new) ==
    /\ Goes(h, new) /\ req' = req /\ file' = file /\ handle' = handle
    /\ dirs \subseteq dirs' \/ \A f \in Outputs : file[f].state # "absent" => DirOf(f) \in dirs'
    /\ fresh' = fresh /\ tree' = tree /\ contended' = contended
    /\ \A g \in Handlers : g # h => buf'[g] = buf[g]
    /\ Head(todo[h])[1] \notin {"build", "unlink", "write"}
    /\ \A s \in new : Phase(s) \notin 1..3 /\ (Phase(s) \in 4..5 => Phase(Head(todo[h])) \in 4..5)
    /\ HasExtractedArtifacts => HasExtractedArtifacts'
    /\ Head(todo[h])[1] = "check" => HasExtractedArtifacts

LEMMA MinorStep ==
    ASSUME NEW h \in Handlers, NEW new, Minor(h, new), TreeInv
    PROVE  /\ \A g \in Handlers : ShapeOf(g)'
           /\ WasExtracted' /\ Promised' /\ Overlaps'
           /\ WriterOf(h)' => Files'
           /\ ~Saves(h) /\ ~Saves(h)' /\ latest' = latest /\ spoiled' = spoiled => Documented'
           /\ (\A f \in Outputs : ~contended[h] /\ Past(h, f)' => HoldsOf(h, f)') => Holding'
           /\ /\ ~At(h, "write")' /\ ~At(h, "reopen")'
              /\ (extracted' = extracted /\ improved' = improved) \/ Head(todo[h])[1] \in {"extract", "improve"}
              => Holding'
PROOF
<1>1. /\ Goes(h, new) /\ req' = req /\ file' = file /\ handle' = handle
      /\ dirs \subseteq dirs' \/ \A f \in Outputs : file[f].state # "absent" => DirOf(f) \in dirs'
      /\ fresh' = fresh /\ tree' = tree /\ contended' = contended
      /\ \A g \in Handlers : g # h => buf'[g] = buf[g]
      /\ Head(todo[h])[1] \notin {"build", "unlink", "write"}
      /\ \A s \in new : Phase(s) \notin 1..3 /\ (Phase(s) \in 4..5 => Phase(Head(todo[h])) \in 4..5)
      /\ HasExtractedArtifacts => HasExtractedArtifacts'
      /\ Head(todo[h])[1] = "check" => HasExtractedArtifacts
      BY DEF Minor
<1>2. /\ \A g \in Handlers : ShapeOf(g)
      /\ WasExtracted /\ Promised /\ Overlaps /\ Files /\ Documented /\ Holding
      BY DEF TreeInv
<1>3. ASSUME NEW g \in Handlers PROVE ShapeOf(g)'
  <2>1. CASE g = h
      BY <2>1, <1>1 DEF Goes, ShapeOf
  <2>2. CASE g # h
      BY <2>2, <1>1, <1>2 DEF Goes, ShapeOf
  <2> QED BY <2>1, <2>2
<1>4. Promised'
      BY <1>1, <1>2, PromisedStep
<1>5. WasExtracted'
  <2>1. Head(todo[h]) \in Steps
      BY <1>1, <1>2, TailShape DEF Goes, ShapeOf
  <2>2. Phase(Head(todo[h])) = 1 => HasExtractedArtifacts
      BY <1>1, <2>1, PhaseFacts
  <2>3. Head(todo[h]) # Unlinks
      BY <1>1 DEF Unlinks
  <2>4. /\ fresh[h] = "no" \/ fresh'[h] # "no"
        /\ fresh'[h] # "no" => fresh[h] # "no"
        /\ tree' = "built" => tree = "built"
        /\ \A g \in Handlers : g # h => fresh'[g] = fresh[g]
      BY <1>1
  <2> QED BY <1>1, <1>2, <2>2, <2>3, <2>4, ExtractedStep
<1>6. WriterOf(h)' => Files'
      BY <1>1, <1>2, FilesStep
<1>7. ~Saves(h) /\ ~Saves(h)' /\ latest' = latest /\ spoiled' = spoiled => Documented'
      BY <1>1, <1>2, DocumentedStep
<1>8. (\A f \in Outputs : ~contended[h] /\ Past(h, f)' => HoldsOf(h, f)') => Holding'
      BY <1>1, <1>2, OthersHold
<1>9. Overlaps'
  <2>1. \A g \in Handlers : Working(g)' => Working(g)
      BY <1>1 DEF Goes, Working
  <2> QED BY <1>1, <1>2, <2>1 DEF Overlaps
<1>10. ASSUME ~At(h, "write")', ~At(h, "reopen")',
              (extracted' = extracted /\ improved' = improved) \/ Head(todo[h])[1] \in {"extract", "improve"}
       PROVE  Holding'
  <2>1. ASSUME NEW f \in Outputs, ~contended[h], Past(h, f)' PROVE HoldsOf(h, f)'
      BY <1>1, <1>2, <1>10, <2>1, StillHolds
  <2> QED BY <1>8, <2>1
<1> QED BY <1>3, <1>4, <1>5, <1>6, <1>7, <1>8, <1>9, <1>10

LEMMA PlainStep ==
    ASSUME NEW h \in Handlers, Minor(h, {}), TreeInv, TreeTypeOK', latest' = latest, spoiled' = spoiled,
           (extracted' = extracted /\ improved' = improved) \/ Head(todo[h])[1] \in {"extract", "improve"},
           Head(todo[h])[1] # "saveDocuments"
    PROVE  TreeInv'
PROOF
<1>1. Goes(h, {})
      BY DEF Minor
<1>2. ASSUME NEW name \in Pushed PROVE ~At(h, name)'
      BY <1>1, NotHalfway
<1>3. ~At(h, "write")' /\ ~At(h, "reopen")' /\ ~At(h, "openDocuments")' /\ ~At(h, "saveDocuments")'
      BY <1>2 DEF Pushed
<1>4. WriterOf(h)'
      BY <1>3 DEF WriterOf
<1>5. ~Saves(h) /\ ~Saves(h)'
      BY <1>3 DEF Saves, At
<1> QED BY <1>3, <1>4, <1>5, MinorStep DEF TreeInv

LEMMA Contents ==
    /\ NoTexts \in Texts /\ Absent \in FileContent /\ Empty \in FileContent /\ Mixed \in FileContent
    /\ Absent.state = "absent" /\ Empty.state = "empty" /\ Mixed.state = "mixed"
    /\ \A t \in Texts : Whole(t) \in FileContent
    /\ \A t : Whole(t).state = "whole" /\ Whole(t).shows = t
    /\ \A c \in FileContent : c.state \in {"absent", "empty", "mixed", "whole"} /\ c.shows \in Texts
PROOF
<1>1. NoTexts \in Texts
      BY DEF NoTexts, Texts
<1> QED BY <1>1 DEF FileContent, Absent, Empty, Mixed, Whole

(* How the request ends does not matter to the files.                      *)
LEMMA StepOrEndIs ==
    ASSUME NEW h \in Handlers, TreeInv, StepOrEnd(h), Working(h)
    PROVE  /\ Goes(h, {}) /\ todo' \in [Handlers -> Seq(Steps)]
           /\ outcome' \in [Handlers -> {"none", "ok", "needs_review", "error"}]
           /\ outcome' = outcome \/ outcome' = [outcome EXCEPT ![h] = "ok"]
PROOF
<1>1. todo \in [Handlers -> Seq(Steps)] /\ ShapeOf(h)
      BY DEF TreeInv, TreeTypeOK
<1>2. Goes(h, {})
      BY <1>1, StepGoes DEF StepOrEnd
<1>3. todo' \in [Handlers -> Seq(Steps)]
      BY <1>2 DEF Goes
<1>4. outcome' = outcome \/ outcome' = [outcome EXCEPT ![h] = "ok"]
      BY DEF StepOrEnd, End
<1> QED BY <1>2, <1>3, <1>4 DEF TreeInv, TreeTypeOK

LEMMA WriteStageStep ==
    ASSUME TreeInv, NEW h \in Handlers, WriteStage(h) PROVE TreeInv'
PROOF
<1>1. Working(h) /\ StepOrEnd(h) /\ Head(todo[h])[1] \in {"inventory", "raw"}
      BY DEF WriteStage, At
<1>2. Goes(h, {}) /\ todo' \in [Handlers -> Seq(Steps)]
      /\ outcome' \in [Handlers -> {"none", "ok", "needs_review", "error"}]
      BY <1>1, StepOrEndIs
<1>3. UNCHANGED <<env, extracted, latest, described, dirs, file, improved, req, buf, handle, served, treeHistory>>
      /\ stages' = stages \cup {Head(todo[h])[1]}
      BY DEF WriteStage
<1>4. HasExtractedArtifacts => HasExtractedArtifacts'
      BY <1>3 DEF HasExtractedArtifacts
<1>5. Minor(h, {})
      BY <1>1, <1>2, <1>3, <1>4 DEF Minor, treeHistory
<1>6. TreeTypeOK'
      BY <1>1, <1>2, <1>3 DEF TreeInv, TreeTypeOK, env, treeHistory
<1> QED BY <1>1, <1>3, <1>5, <1>6, PlainStep DEF treeHistory

LEMMA ExtractStep ==
    ASSUME TreeInv, NEW h \in Handlers, Extract(h) PROVE TreeInv'
PROOF
<1>1. Working(h) /\ StepOrEnd(h) /\ Head(todo[h])[1] = "extract" /\ At(h, "extract")
      BY DEF Extract, At
<1>2. Goes(h, {}) /\ todo' \in [Handlers -> Seq(Steps)]
      /\ outcome' \in [Handlers -> {"none", "ok", "needs_review", "error"}]
      BY <1>1, StepOrEndIs
<1>3. UNCHANGED <<env, stages, latest, described, dirs, file, improved, req, buf, handle, served, treeHistory>>
      BY DEF Extract
<1>4. On(h) \in Materials
      BY <1>1, AtIs DEF TreeInv
<1>5. PICK v \in {0, live[On(h)]} : extracted' = [extracted EXCEPT ![On(h)] = v]
      BY DEF Extract
<1>6. v \in 0..MaxVersion /\ v # Nil
  <2>1. 0 \in 0..MaxVersion /\ live[On(h)] \in 0..MaxVersion
      BY <1>4, BoundsAreNaturals DEF TreeInv, TreeTypeOK
  <2> QED BY <2>1, NilIsNothing
<1>7. extracted' \in [Materials -> 0..MaxVersion \cup {Nil}] /\ extracted'[On(h)] # Nil
      BY <1>4, <1>5, <1>6 DEF TreeInv, TreeTypeOK
<1>8. HasExtractedArtifacts'
      BY <1>4, <1>7 DEF HasExtractedArtifacts
<1>9. Minor(h, {})
      BY <1>1, <1>2, <1>3, <1>8 DEF Minor, treeHistory
<1>10. TreeTypeOK'
      BY <1>2, <1>3, <1>7 DEF TreeInv, TreeTypeOK, env, treeHistory
<1> QED BY <1>1, <1>3, <1>9, <1>10, PlainStep DEF treeHistory

LEMMA HookStep ==
    ASSUME TreeInv, NEW h \in Handlers, Hook(h) PROVE TreeInv'
PROOF
<1>1. Working(h) /\ Step(h) /\ Head(todo[h])[1] = "hook" /\ todo \in [Handlers -> Seq(Steps)] /\ ShapeOf(h)
      BY DEF Hook, At, TreeInv, TreeTypeOK
<1>2. Goes(h, {}) /\ todo' \in [Handlers -> Seq(Steps)]
      BY <1>1, StepGoes DEF Goes
<1>3. Nothing /\ UNCHANGED <<env, req, buf, handle, outcome, served, treeHistory>>
      BY DEF Hook
<1>4. HasExtractedArtifacts => HasExtractedArtifacts'
      BY <1>3 DEF HasExtractedArtifacts, Nothing
<1>5. Minor(h, {})
      BY <1>1, <1>2, <1>3, <1>4 DEF Minor, treeHistory, Nothing
<1>6. TreeTypeOK'
      BY <1>2, <1>3 DEF TreeInv, TreeTypeOK, env, treeHistory, Nothing
<1> QED BY <1>1, <1>3, <1>5, <1>6, PlainStep DEF treeHistory, Nothing

LEMMA MakeDirStep ==
    ASSUME TreeInv, NEW h \in Handlers, MakeDir(h) PROVE TreeInv'
PROOF
<1>1. Working(h) /\ Step(h) /\ Head(todo[h])[1] = "mkdir" /\ todo \in [Handlers -> Seq(Steps)] /\ ShapeOf(h)
      /\ At(h, "mkdir")
      BY DEF MakeDir, At, TreeInv, TreeTypeOK
<1>2. Goes(h, {}) /\ todo' \in [Handlers -> Seq(Steps)]
      BY <1>1, StepGoes DEF Goes
<1>3. /\ UNCHANGED <<env, stages, extracted, latest, described, file, improved, req, buf, handle, outcome,
                   served, treeHistory>>
      /\ dirs' = dirs \cup {On(h)}
      BY DEF MakeDir
<1>4. HasExtractedArtifacts => HasExtractedArtifacts'
      BY <1>3 DEF HasExtractedArtifacts
<1>5. Minor(h, {})
      BY <1>1, <1>2, <1>3, <1>4 DEF Minor, treeHistory
<1>7. On(h) \in {"script", "tasks"}
      BY <1>1, AtIs
<1>6. TreeTypeOK'
      BY <1>2, <1>3, <1>7 DEF TreeInv, TreeTypeOK, env, treeHistory
<1> QED BY <1>1, <1>3, <1>5, <1>6, PlainStep DEF treeHistory

LEMMA DisplayedType ==
    ASSUME TreeTypeOK
    PROVE  /\ \A m \in Materials : Displayed(m) \in Text \cup {Nil}
           /\ \A m \in Materials : Displayed(m) = Nil <=> improved[m] = Nil /\ extracted[m] = Nil
           /\ \A f, scope : Built(f, scope) \in Texts
PROOF
<1>1. ASSUME NEW m \in Materials
      PROVE  /\ Displayed(m) \in Text \cup {Nil}
             /\ Displayed(m) = Nil <=> improved[m] = Nil /\ extracted[m] = Nil
  <2>1. improved[m] \in Text \cup {Nil} /\ extracted[m] \in 0..MaxVersion \cup {Nil}
      BY DEF TreeTypeOK, Texts
  <2>2. extracted[m] # Nil => [version |-> extracted[m], style |-> "extracted"] \in Text
      BY <2>1 DEF Text
  <2> QED BY <2>1, <2>2, NilIsNothing DEF Displayed
<1> QED BY <1>1 DEF Built, Texts

LEMMA ServeStep ==
    ASSUME TreeInv, NEW h \in Handlers, Serve(h) PROVE TreeInv'
PROOF
<1>1. Working(h) /\ StepOrEnd(h) /\ Head(todo[h])[1] = "serve"
      BY DEF Serve, At
<1>2. Goes(h, {}) /\ todo' \in [Handlers -> Seq(Steps)]
      /\ outcome' \in [Handlers -> {"none", "ok", "needs_review", "error"}]
      BY <1>1, StepOrEndIs
<1>3. Nothing /\ UNCHANGED <<env, req, buf, handle, treeHistory>>
      BY DEF Serve
<1>4. HasExtractedArtifacts => HasExtractedArtifacts'
      BY <1>3 DEF HasExtractedArtifacts, Nothing
<1>5. Minor(h, {})
      BY <1>1, <1>2, <1>3, <1>4 DEF Minor, treeHistory, Nothing
<1>6. served' \in [Handlers -> FileContent]
  <2>1. "script" \in Outputs
      BY DEF Outputs
  <2>2. file["script"] \in FileContent /\ Whole(Built("script", req[h].scope)) \in FileContent
      BY <2>1, Contents, DisplayedType DEF TreeInv, TreeTypeOK
  <2> QED BY <2>2 DEF Serve, TreeInv, TreeTypeOK
<1>7. TreeTypeOK'
      BY <1>2, <1>3, <1>6 DEF TreeInv, TreeTypeOK, env, treeHistory, Nothing
<1> QED BY <1>1, <1>3, <1>5, <1>7, PlainStep DEF treeHistory, Nothing

(* Requests that end with an error leave the files as they are, and the    *)
(* tree broken if they were rebuilding it.                                 *)
LEMMA GoneStep ==
    ASSUME TreeInv, NEW G \in SUBSET Handlers, Abandon(G), Nothing, UNCHANGED env
    PROVE  TreeInv'
PROOF
<1>1. /\ todo' = [h \in Handlers |-> IF h \in G THEN <<>> ELSE todo[h]]
      /\ outcome' = [h \in Handlers |-> IF h \in G THEN "error" ELSE outcome[h]]
      /\ handle' = [h \in Handlers |-> IF h \in G THEN "none" ELSE handle[h]]
      /\ buf' = [h \in Handlers |-> IF h \in G THEN Absent ELSE buf[h]]
      /\ spoiled' = (spoiled \/ \E h \in G : At(h, "saveDocuments"))
      /\ req' = req /\ served' = served /\ contended' = contended
      BY DEF Abandon
<1>2. /\ stages' = stages /\ extracted' = extracted /\ latest' = latest /\ described' = described
      /\ dirs' = dirs /\ file' = file /\ improved' = improved /\ live' = live /\ requests' = requests
      BY DEF Nothing, env
<1>3. /\ TreeTypeOK /\ \A h \in Handlers : ShapeOf(h)
      /\ WasExtracted /\ Files /\ Documented /\ Promised /\ Overlaps /\ Holding
      BY DEF TreeInv
<1>4. \/ /\ \E h \in G : fresh[h] # "no"
         /\ tree' = "broken"
         /\ fresh' = [h \in Handlers |-> IF h \in G \/ fresh[h] = "no" THEN "no" ELSE "stale"]
      \/ /\ \A h \in G : fresh[h] = "no"
         /\ tree' = tree /\ fresh' = fresh
      BY DEF Abandon
<1>5. \A h \in Handlers : fresh'[h] # "no" <=> fresh[h] # "no" /\ h \notin G
      BY <1>4
<1>6. \A h \in Handlers : h \in G => todo'[h] = <<>> /\ ~Working(h)'
      BY <1>1 DEF Working
<1>7. \A h \in Handlers : h \notin G => todo'[h] = todo[h] /\ handle'[h] = handle[h] /\ buf'[h] = buf[h]
      BY <1>1
<1>8. HasExtractedArtifacts' = HasExtractedArtifacts
      BY <1>2 DEF HasExtractedArtifacts
<1>9. TreeTypeOK'
  <2>1. todo' \in [Handlers -> Seq(Steps)]
    <3>1. <<>> \in Seq(Steps)
        BY EmptySeq
    <3> QED BY <1>1, <1>3, <3>1 DEF TreeTypeOK
  <2>2. /\ outcome' \in [Handlers -> {"none", "ok", "needs_review", "error"}]
        /\ handle' \in [Handlers -> {"none", "script", "tasks", "cut"}]
      BY <1>1, <1>3 DEF TreeTypeOK
  <2>3. buf' \in [Handlers -> FileContent]
      BY <1>1, <1>3, Contents DEF TreeTypeOK
  <2>4. fresh' \in [Handlers -> {"no", "fresh", "stale"}] /\ tree' \in {"unbuilt", "built", "broken"}
    <3>1. fresh \in [Handlers -> {"no", "fresh", "stale"}] /\ tree \in {"unbuilt", "built", "broken"}
        BY <1>3 DEF TreeTypeOK
    <3> QED BY <1>4, <3>1
  <2>5. spoiled' \in BOOLEAN
      BY <1>1
  <2> QED BY <1>1, <1>2, <1>3, <2>1, <2>2, <2>3, <2>4, <2>5 DEF TreeTypeOK
<1>10. ASSUME NEW h \in Handlers PROVE ShapeOf(h)'
  <2>1. CASE h \in G
    <3>1. Block(<<>>, 0, 0) /\ Range(<<>>) = {}
        BY EmptyBlock
    <3> DEFINE e == <<>>
    <3>2. Block(e, 0, 7) /\ Range(e) = {}
        BY <3>1 DEF Block
    <3> HIDE DEF e
    <3>3. Chain(e, req[h].scope) /\ Fitting(e, req[h].kind)
        BY <3>2 DEF Chain, Fitting
    <3>4. Shape(e, req[h].kind, req[h].scope)
        BY <3>2, <3>3, ShapeOfBlock
    <3> QED BY <2>1, <1>1, <1>6, <3>4 DEF ShapeOf, e
  <2>2. CASE h \notin G
      BY <2>2, <1>1, <1>3, <1>7 DEF ShapeOf
  <2> QED BY <2>1, <2>2
<1>11. WasExtracted'
  <2>1. ASSUME NEW h \in Handlers PROVE ExtractedOf(h)'
    <3>1. CASE h \in G
      <4>1. Range(todo'[h]) = {}
          BY <3>1, <1>6, EmptyBlock
      <4>2. ~Checked(h)' /\ fresh'[h] = "no"
          BY <3>1, <1>5, <4>1 DEF Checked
      <4> QED BY <4>2 DEF ExtractedOf
    <3>2. CASE h \notin G
      <4>1. ExtractedOf(h)
          BY <1>3 DEF WasExtracted
      <4> QED BY <3>2, <4>1, <1>5, <1>7, <1>8 DEF ExtractedOf, Checked
    <3> QED BY <3>1, <3>2
  <2>2. tree' = "built" => tree = "built"
      BY <1>4
  <2> QED BY <1>3, <1>8, <2>1, <2>2 DEF WasExtracted
<1>12. Files'
  <2>1. ASSUME NEW h \in Handlers PROVE WriterOf(h)'
    <3>1. CASE h \in G
        BY <3>1, <1>6 DEF WriterOf, At
    <3>2. CASE h \notin G
        BY <3>2, <1>2, <1>3, <1>7 DEF Files, WriterOf, At, On, Working
    <3> QED BY <3>1, <3>2
  <2> QED BY <1>2, <1>3, <2>1 DEF Files
<1>13. Documented'
  <2>1. CASE \E h \in G : Saves(h)
      BY <2>1, <1>1 DEF Saves, Documented
  <2>2. CASE \A h \in G : ~Saves(h)
    <3>1. \A h \in Handlers : Saves(h)' <=> Saves(h)
        BY <2>2, <1>6, <1>7 DEF Saves, At, Working
    <3>2. spoiled => spoiled'
        BY <1>1
    <3> QED BY <1>2, <1>3, <3>1, <3>2 DEF Documented
  <2> QED BY <2>1, <2>2
<1>14. Promised'
  <2>1. CASE \E h \in G : fresh[h] # "no"
    <3>1. ~Undisturbed'
        BY <2>1, <1>4 DEF Undisturbed
    <3> QED BY <3>1 DEF Promised
  <2>2. CASE \A h \in G : fresh[h] = "no"
    <3>1. Undisturbed' = Undisturbed
        BY <2>2, <1>4 DEF Undisturbed
    <3>2. ASSUME NEW h \in Handlers, NEW f
          PROVE  (WillWrite(h, f) => WillWrite(h, f)') /\ (WillEnd(h, f) => WillEnd(h, f)')
      <4>1. CASE h \in G
          BY <2>2, <4>1 DEF WillWrite, WillEnd
      <4>2. CASE h \notin G
          BY <2>2, <4>2, <1>4, <1>7 DEF WillWrite, WillEnd, Writes, At, On, Working
      <4> QED BY <4>1, <4>2
    <3> QED BY <1>2, <1>3, <3>1, <3>2 DEF Promised
  <2> QED BY <2>1, <2>2
<1>15. Overlaps'
  <2>1. \A h \in Handlers : Working(h)' => Working(h)
      BY <1>6, <1>7 DEF Working
  <2> QED BY <1>1, <1>3, <2>1 DEF Overlaps
<1>16. Holding'
  <2> SUFFICES ASSUME NEW h \in Handlers, ~contended'[h], NEW f \in Outputs, Past(h, f)' PROVE HoldsOf(h, f)'
      BY DEF Holding
  <2>1. h \notin G
      BY <1>6 DEF Past
  <2>2. todo'[h] = todo[h] /\ handle'[h] = handle[h] /\ buf'[h] = buf[h] /\ req' = req
      BY <2>1, <1>1, <1>7
  <2>3. Past(h, f)
      BY <2>2 DEF Past, Working
  <2>4. HoldsOf(h, f)
      BY <1>1, <1>3, <2>3 DEF Holding
  <2>6. BuiltFor(h, f)' = BuiltFor(h, f)
      BY <1>1, <1>2 DEF BuiltFor, Built, Displayed
  <2> QED BY <1>2, <2>2, <2>4, <2>6 DEF HoldsOf, At, On, Working
<1> QED BY <1>9, <1>10, <1>11, <1>12, <1>13, <1>14, <1>15, <1>16 DEF TreeInv

LEMMA OneGone ==
    ASSUME TreeInv, NEW h \in Handlers, Abandon({h}), Nothing, UNCHANGED env
    PROVE  TreeInv'
PROOF
<1>1. {h} \in SUBSET Handlers
      OBVIOUS
<1> QED BY <1>1, GoneStep

LEMMA FailsStep ==
    ASSUME TreeInv, NEW h \in Handlers, Fails(h) PROVE TreeInv'
PROOF BY OneGone DEF Fails

LEMMA CrashStep ==
    ASSUME TreeInv, Crash PROVE TreeInv'
PROOF
<1> DEFINE G == {h \in Handlers : Working(h)}
<1>1. G \in SUBSET Handlers
      OBVIOUS
<1>2. Abandon(G) /\ Nothing /\ UNCHANGED env
      BY DEF Crash
<1> HIDE DEF G
<1> QED BY <1>1, <1>2, GoneStep

LEMMA CheckStep ==
    ASSUME TreeInv, NEW h \in Handlers, Check(h) PROVE TreeInv'
PROOF
<1>1. Working(h) /\ Head(todo[h])[1] = "check" /\ todo \in [Handlers -> Seq(Steps)] /\ ShapeOf(h)
      BY DEF Check, At, TreeInv, TreeTypeOK
<1>2. Nothing /\ UNCHANGED env
      BY DEF Check
<1>3. CASE HasExtractedArtifacts
  <2>1. Step(h) /\ UNCHANGED <<req, buf, handle, outcome, served, treeHistory>>
      BY <1>3 DEF Check
  <2>2. Goes(h, {}) /\ todo' \in [Handlers -> Seq(Steps)]
      BY <1>1, <2>1, StepGoes DEF Goes
  <2>3. HasExtractedArtifacts => HasExtractedArtifacts'
      BY <1>2 DEF HasExtractedArtifacts, Nothing
  <2>4. Minor(h, {})
      BY <1>1, <1>2, <1>3, <2>1, <2>2, <2>3 DEF Minor, treeHistory, Nothing
  <2>5. TreeTypeOK'
      BY <1>2, <2>1, <2>2 DEF TreeInv, TreeTypeOK, env, treeHistory, Nothing
  <2> QED BY <1>1, <1>2, <2>1, <2>4, <2>5, PlainStep DEF treeHistory, Nothing
<1>4. CASE ~HasExtractedArtifacts
  <2>1. Abandon({h})
      BY <1>4 DEF Check
  <2> QED BY <1>2, <2>1, OneGone
<1> QED BY <1>3, <1>4

LEMMA ImproveStep ==
    ASSUME TreeInv, NEW h \in Handlers, Improve(h) PROVE TreeInv'
PROOF
<1>1. Working(h) /\ StepOrEnd(h) /\ Head(todo[h])[1] = "improve" /\ At(h, "improve")
      BY DEF Improve, At
<1>2. Goes(h, {}) /\ todo' \in [Handlers -> Seq(Steps)]
      /\ outcome' \in [Handlers -> {"none", "ok", "needs_review", "error"}]
      BY <1>1, StepOrEndIs
<1>3. /\ UNCHANGED <<env, stages, extracted, latest, described, dirs, file, req, handle, served, treeHistory>>
      /\ improved' = [improved EXCEPT ![On(h)] = buf[h].shows[On(h)]]
      /\ buf' = [buf EXCEPT ![h] = Absent]
      BY DEF Improve
<1>4. HasExtractedArtifacts => HasExtractedArtifacts'
      BY <1>3 DEF HasExtractedArtifacts
<1>5. Minor(h, {})
      BY <1>1, <1>2, <1>3, <1>4 DEF Minor, treeHistory, TreeInv, TreeTypeOK
<1>6. On(h) \in Materials
      BY <1>1, AtIs DEF TreeInv
<1>7. improved' \in Texts /\ buf' \in [Handlers -> FileContent]
  <2>1. buf[h].shows \in Texts /\ improved \in Texts
      BY Contents DEF TreeInv, TreeTypeOK
  <2>2. improved' \in Texts
      BY <2>1, <1>3, <1>6 DEF Texts
  <2> QED BY <2>2, <1>3, Contents DEF TreeInv, TreeTypeOK
<1>8. TreeTypeOK'
      BY <1>2, <1>3, <1>7 DEF TreeInv, TreeTypeOK, env, treeHistory
<1> QED BY <1>1, <1>3, <1>5, <1>8, PlainStep DEF treeHistory

LEMMA RefineStep ==
    ASSUME TreeInv, NEW h \in Handlers, Refine(h) PROVE TreeInv'
PROOF
<1>1. /\ Working(h) /\ Head(todo[h])[1] = "refine" /\ At(h, "refine")
      /\ todo \in [Handlers -> Seq(Steps)] /\ ShapeOf(h)
      BY DEF Refine, At, TreeInv, TreeTypeOK
<1>2. UNCHANGED <<env, stages, extracted, latest, described, dirs, file>>
      BY DEF Refine
<1>3. CASE extracted[On(h)] = Nil
  <2>1. Abandon({h}) /\ UNCHANGED improved
      BY <1>3 DEF Refine
  <2> QED BY <1>2, <2>1, OneGone DEF env, Nothing
<1>4. CASE extracted[On(h)] # Nil
  <2>1. Step(h) /\ UNCHANGED <<improved, req, handle, outcome, served, treeHistory>>
      BY <1>4 DEF Refine
  <2>2. PICK style \in {"kept", "rewritten"} :
           buf' = [buf EXCEPT ![h] = Whole([NoTexts EXCEPT ![On(h)] =
                            [version |-> extracted[On(h)], style |-> style]])]
      BY <1>4 DEF Refine
  <2>3. Goes(h, {}) /\ todo' \in [Handlers -> Seq(Steps)]
      BY <1>1, <2>1, StepGoes DEF Goes
  <2>4. HasExtractedArtifacts => HasExtractedArtifacts'
      BY <1>2 DEF HasExtractedArtifacts
  <2>5. \A g \in Handlers : g # h => buf'[g] = buf[g]
      BY <2>2 DEF TreeInv, TreeTypeOK
  <2>6. Minor(h, {})
      BY <1>1, <1>2, <2>1, <2>3, <2>4, <2>5 DEF Minor, treeHistory
  <2>7. buf' \in [Handlers -> FileContent]
    <3>1. On(h) \in Materials
        BY <1>1, AtIs
    <3>2. extracted[On(h)] \in 0..MaxVersion
        BY <1>4, <3>1 DEF TreeInv, TreeTypeOK
    <3> DEFINE t == [version |-> extracted[On(h)], style |-> style]
    <3>3. t \in Text
        BY <3>2 DEF Text
    <3> HIDE DEF t
    <3>4. [NoTexts EXCEPT ![On(h)] = t] \in Texts
        BY <3>3, Contents DEF Texts
    <3>5. Whole([NoTexts EXCEPT ![On(h)] = t]) \in FileContent
        BY <3>4, Contents
    <3>6. buf' = [buf EXCEPT ![h] = Whole([NoTexts EXCEPT ![On(h)] = t])]
        BY <2>2 DEF t
    <3> QED BY <3>5, <3>6 DEF TreeInv, TreeTypeOK
  <2>8. TreeTypeOK'
      BY <1>2, <2>1, <2>3, <2>7 DEF TreeInv, TreeTypeOK, env, treeHistory
  <2> QED BY <1>1, <1>2, <2>1, <2>6, <2>8, PlainStep DEF treeHistory
<1> QED BY <1>3, <1>4

(* A step that finds something else to do first, and leaves the texts.     *)
LEMMA PushingStep ==
    ASSUME NEW h \in Handlers, NEW new, Minor(h, new), TreeInv, TreeTypeOK',
           todo'[h] # <<>>, Head(todo'[h]) \in new, \A s \in new : s[1] \notin {"write", "reopen", "saveDocuments"},
           (\E s \in new : s[1] = "openDocuments") => buf'[h].state = "whole",
           latest' = latest, spoiled' = spoiled, extracted' = extracted, improved' = improved,
           Head(todo[h])[1] # "saveDocuments"
    PROVE  TreeInv'
PROOF
<1>1. Goes(h, new)
      BY DEF Minor
<1>2. ~At(h, "write")' /\ ~At(h, "reopen")' /\ ~At(h, "saveDocuments")'
      BY <1>1, NotHalfway DEF Pushed
<1>3. At(h, "openDocuments")' => \E s \in new : s[1] = "openDocuments"
      BY DEF At
<1>4. WriterOf(h)'
      BY <1>2, <1>3 DEF WriterOf
<1>5. ~Saves(h) /\ ~Saves(h)'
      BY <1>2 DEF Saves, At
<1> QED BY <1>2, <1>4, <1>5, MinorStep DEF TreeInv

LEMMA DocumentsStep ==
    ASSUME TreeInv, NEW h \in Handlers, Documents(h) PROVE TreeInv'
PROOF
<1> DEFINE found == [m \in Materials |->
                        IF m \in req[h].scope /\ extracted[m] # Nil
                        THEN [version |-> extracted[m], style |-> "extracted"] ELSE Nil]
           p == <<"openDocuments", Nil>>
<1>1. /\ Working(h) /\ Head(todo[h])[1] = "documents" /\ At(h, "documents")
      /\ todo \in [Handlers -> Seq(Steps)] /\ ShapeOf(h)
      BY DEF Documents, At, TreeInv, TreeTypeOK
<1>2. /\ UNCHANGED <<env, stages, extracted, latest, dirs, file, improved, req, handle, outcome, served,
                   tree, fresh, contended, spoiled>>
      /\ described' = TRUE /\ StepTo(h, One("openDocuments", Nil))
      BY DEF Documents
<1>3. buf' = [buf EXCEPT ![h] = Whole(found)]
      BY DEF Documents
<1>4. Phase(Head(todo[h])) = 0
      BY <1>1, AtIs, PhaseFacts
<1>5. p \in Steps /\ p[1] = "openDocuments" /\ Phase(p) = 0
      BY Makes DEF Phase, Unlinks
<1>6. Goes(h, {p}) /\ todo'[h] # <<>> /\ Head(todo'[h]) = p
  <2> DEFINE n == "openDocuments"
  <2>1. /\ <<n, Nil>> \in Steps /\ Phase(<<n, Nil>>) \in {0, 4, 5} /\ Phase(<<n, Nil>>) <= Phase(Head(todo[h]))
        /\ n \notin {"serve", "assemble", "refine", "improve", "load", "extract"}
        /\ StepTo(h, One(n, Nil))
      BY <1>2, <1>4, <1>5
  <2> HIDE DEF n
  <2>2. Goes(h, {<<n, Nil>>}) /\ todo'[h] # <<>> /\ Head(todo'[h]) = <<n, Nil>>
      BY <1>1, <2>1, StepToOne
  <2> QED BY <2>2 DEF n
<1> HIDE DEF p
<1>7. HasExtractedArtifacts'
      BY <1>2 DEF HasExtractedArtifacts
<1>8. \A g \in Handlers : g # h => buf'[g] = buf[g]
      BY <1>3 DEF TreeInv, TreeTypeOK
<1>9. Minor(h, {p})
      BY <1>1, <1>2, <1>5, <1>6, <1>7, <1>8 DEF Minor
<1>10. found \in Texts
  <2> SUFFICES ASSUME NEW m \in Materials, extracted[m] # Nil
               PROVE  [version |-> extracted[m], style |-> "extracted"] \in Text
      BY DEF Texts
  <2>1. extracted[m] \in 0..MaxVersion
      BY DEF TreeInv, TreeTypeOK
  <2> QED BY <2>1 DEF Text
<1> HIDE DEF found
<1>11. buf' \in [Handlers -> FileContent] /\ buf'[h].state = "whole"
      BY <1>3, <1>10, Contents DEF TreeInv, TreeTypeOK
<1>12. TreeTypeOK'
      BY <1>2, <1>6, <1>11 DEF TreeInv, TreeTypeOK, env, Goes
<1> QED BY <1>1, <1>2, <1>5, <1>6, <1>9, <1>11, <1>12, PushingStep

LEMMA OpenDocumentsStep ==
    ASSUME TreeInv, NEW h \in Handlers, OpenDocuments(h) PROVE TreeInv'
PROOF
<1> DEFINE p == <<"saveDocuments", Nil>>
<1>1. /\ Working(h) /\ Head(todo[h])[1] = "openDocuments" /\ At(h, "openDocuments")
      /\ todo \in [Handlers -> Seq(Steps)] /\ ShapeOf(h)
      BY DEF OpenDocuments, At, TreeInv, TreeTypeOK
<1>2. /\ UNCHANGED <<env, stages, extracted, described, dirs, file, improved, req, buf, handle, outcome, served,
                   tree, fresh, contended>>
      /\ latest' = Empty /\ StepTo(h, One("saveDocuments", Nil))
      /\ spoiled' = \E g \in Handlers \ {h} : At(g, "saveDocuments")
      BY DEF OpenDocuments
<1>4. Phase(Head(todo[h])) = 0
      BY <1>1, AtIs, PhaseFacts
<1>5. p \in Steps /\ p[1] = "saveDocuments" /\ Phase(p) = 0
      BY Makes DEF Phase, Unlinks
<1>6. Goes(h, {p}) /\ todo'[h] # <<>> /\ Head(todo'[h]) = p
  <2> DEFINE n == "saveDocuments"
  <2>1. /\ <<n, Nil>> \in Steps /\ Phase(<<n, Nil>>) \in {0, 4, 5} /\ Phase(<<n, Nil>>) <= Phase(Head(todo[h]))
        /\ n \notin {"serve", "assemble", "refine", "improve", "load", "extract"}
        /\ StepTo(h, One(n, Nil))
      BY <1>2, <1>4, <1>5
  <2> HIDE DEF n
  <2>2. Goes(h, {<<n, Nil>>}) /\ todo'[h] # <<>> /\ Head(todo'[h]) = <<n, Nil>>
      BY <1>1, <2>1, StepToOne
  <2> QED BY <2>2 DEF n
<1> HIDE DEF p
<1>7. HasExtractedArtifacts'
      BY <1>2, Contents DEF HasExtractedArtifacts
<1>9. Minor(h, {p})
      BY <1>1, <1>2, <1>5, <1>6, <1>7 DEF Minor
<1>12. TreeTypeOK'
      BY <1>2, <1>6, Contents DEF TreeInv, TreeTypeOK, env, Goes
<1>13. ~At(h, "write")' /\ ~At(h, "reopen")' /\ At(h, "saveDocuments")'
      BY <1>5, <1>6 DEF At, Working
<1>14. WriterOf(h)'
  <2>1. buf[h].state = "whole"
      BY <1>1 DEF TreeInv, Files, WriterOf
  <2> QED BY <2>1, <1>2, <1>13 DEF WriterOf
<1>15. Documented'
  <2>1. \A g \in Handlers : g # h => (Saves(g)' <=> Saves(g))
      BY <1>6 DEF Goes, Saves, At, Working
  <2>2. ~spoiled' => \A g \in Handlers \ {h} : ~Saves(g)'
      BY <1>2, <2>1 DEF Saves
  <2>3. latest'.state = "empty" /\ Saves(h)'
      BY <1>2, <1>13, Contents DEF Saves
  <2> QED BY <2>2, <2>3 DEF Documented
<1> QED BY <1>2, <1>9, <1>12, <1>13, <1>14, <1>15, MinorStep DEF TreeInv

LEMMA SaveDocumentsStep ==
    ASSUME TreeInv, NEW h \in Handlers, SaveDocuments(h) PROVE TreeInv'
PROOF
<1>1. Working(h) /\ StepOrEnd(h) /\ Head(todo[h])[1] = "saveDocuments" /\ At(h, "saveDocuments")
      BY DEF SaveDocuments, At
<1>2. Goes(h, {}) /\ todo' \in [Handlers -> Seq(Steps)]
      /\ outcome' \in [Handlers -> {"none", "ok", "needs_review", "error"}]
      BY <1>1, StepOrEndIs
<1>3. /\ UNCHANGED <<env, stages, extracted, described, dirs, file, improved, req, handle, served, treeHistory>>
      /\ latest' \in Overwritten(latest, buf[h])
      /\ buf' = [buf EXCEPT ![h] = Absent]
      BY DEF SaveDocuments
<1>4. buf[h].state = "whole" /\ buf[h] \in FileContent
      BY <1>1 DEF TreeInv, Files, WriterOf, TreeTypeOK
<1>5. latest' \in FileContent /\ latest'.state \in {"whole", "mixed"}
  <2>1. latest' \in {buf[h], Mixed}
      BY <1>3 DEF Overwritten
  <2> QED BY <2>1, <1>4, Contents
<1>6. HasExtractedArtifacts'
      BY <1>5 DEF HasExtractedArtifacts
<1>7. Minor(h, {})
      BY <1>1, <1>2, <1>3, <1>6 DEF Minor, treeHistory, TreeInv, TreeTypeOK
<1>8. TreeTypeOK'
  <2>1. buf' \in [Handlers -> FileContent]
      BY <1>3, Contents DEF TreeInv, TreeTypeOK
  <2> QED BY <1>2, <1>3, <1>5, <2>1 DEF TreeInv, TreeTypeOK, env, treeHistory
<1>9. ASSUME NEW name \in Pushed PROVE ~At(h, name)'
      BY <1>2, NotHalfway
<1>10. ~At(h, "write")' /\ ~At(h, "reopen")' /\ ~At(h, "openDocuments")' /\ ~At(h, "saveDocuments")'
      BY <1>9 DEF Pushed
<1>11. WriterOf(h)'
      BY <1>10 DEF WriterOf
<1>12. Documented'
  <2>1. CASE spoiled
      BY <2>1, <1>3 DEF Documented, treeHistory
  <2>2. CASE ~spoiled
    <3>1. latest.state = "empty" /\ \A g \in Handlers \ {h} : ~Saves(g)
        BY <2>2, <1>1 DEF TreeInv, Documented, Saves
    <3>2. latest' = buf[h]
        BY <3>1, <1>3 DEF Overwritten
    <3>3. \A g \in Handlers : ~Saves(g)'
        BY <3>1, <1>2, <1>10 DEF Goes, Saves, At, Working
    <3> QED BY <3>2, <3>3, <1>4 DEF Documented
  <2> QED BY <2>1, <2>2
<1> QED BY <1>3, <1>7, <1>8, <1>10, <1>11, <1>12, MinorStep DEF TreeInv

LEMMA LoadDocumentsStep ==
    ASSUME TreeInv, NEW h \in Handlers, LoadDocuments(h) PROVE TreeInv'
PROOF
<1>1. /\ Working(h) /\ Head(todo[h])[1] = "load" /\ At(h, "load")
      /\ todo \in [Handlers -> Seq(Steps)] /\ ShapeOf(h)
      BY DEF LoadDocuments, At, TreeInv, TreeTypeOK
<1>2. Nothing /\ UNCHANGED env
      BY DEF LoadDocuments
<1>3. HasExtractedArtifacts => HasExtractedArtifacts'
      BY <1>2 DEF HasExtractedArtifacts, Nothing
<1>4. Phase(Head(todo[h])) = 0
      BY <1>1, AtIs, PhaseFacts
<1>5. CASE latest.state = "whole" /\ StepOrEnd(h) /\ UNCHANGED <<req, buf, handle, served, treeHistory>>
  <2>1. Goes(h, {}) /\ todo' \in [Handlers -> Seq(Steps)]
        /\ outcome' \in [Handlers -> {"none", "ok", "needs_review", "error"}]
      BY <1>1, <1>5, StepOrEndIs
  <2>2. Minor(h, {})
      BY <1>1, <1>2, <1>3, <1>5, <2>1 DEF Minor, treeHistory, Nothing
  <2>3. TreeTypeOK'
      BY <1>2, <1>5, <2>1 DEF TreeInv, TreeTypeOK, env, treeHistory, Nothing
  <2> QED BY <1>1, <1>2, <1>5, <2>2, <2>3, PlainStep DEF treeHistory, Nothing
<1>6. CASE Abandon({h})
      BY <1>2, <1>6, OneGone
<1> DEFINE steps == IF HasExtractedArtifacts THEN One("documents", Nil) ELSE ExtractSteps(req[h].scope)
<1>7. CASE StepTo(h, steps) /\ UNCHANGED <<req, buf, handle, outcome, served, treeHistory>>
  <2>1. steps \in Seq(Steps) /\ steps # <<>> /\ Sorted(steps) /\ Behind(steps)
        /\ \A s \in Range(steps) : Phase(s) = 0 /\ s[1] \in {"raw", "extract", "documents"}
    <3>1. CASE HasExtractedArtifacts
      <4> DEFINE p == <<"documents", Nil>>
      <4>1. p \in Steps /\ Phase(p) = 0 /\ p[1] = "documents"
          BY Makes DEF Phase, Unlinks
      <4>2. steps = One("documents", Nil)
          BY <3>1
      <4>3. /\ steps \in Seq(Steps) /\ Len(steps) = 1 /\ steps # <<>>
            /\ Sorted(steps) /\ Range(steps) = {p}
        <5> DEFINE n == "documents"
        <5> HIDE DEF n
        <5>1. <<n, Nil>> \in Steps
            BY <4>1 DEF n
        <5>2. /\ One(n, Nil) \in Seq(Steps) /\ Len(One(n, Nil)) = 1 /\ One(n, Nil) # <<>>
              /\ Sorted(One(n, Nil)) /\ Range(One(n, Nil)) = {<<n, Nil>>}
            BY <5>1, OneBlock
        <5> QED BY <5>2, <4>2 DEF n
      <4> HIDE DEF p, steps
      <4>4. Behind(steps)
          BY <4>3 DEF Behind
      <4> QED BY <4>1, <4>3, <4>4
    <3>2. CASE ~HasExtractedArtifacts
      <4>1. req[h].scope \subseteq Materials
          BY DEF TreeInv, TreeTypeOK, TreeRequests
      <4> DEFINE e == ExtractSteps(req[h].scope)
      <4>2. /\ Block(e, 0, 0) /\ e # <<>>
            /\ Range(e) = {<<"raw", Nil>>} \cup {<<"extract", m>> : m \in req[h].scope} \cup {<<"documents", Nil>>}
          BY <4>1, ExtractStepsIs
      <4>3. steps = e
          BY <3>2
      <4> HIDE DEF e, steps
      <4>4. \A s \in Range(e) : s[1] \in {"raw", "extract", "documents"}
          BY <4>2
      <4>5. Shape(e, "documents", {})
          BY <4>2, <4>4, ShapeOfPlain
      <4>6. \A s \in Range(e) : Phase(s) = 0
          BY <4>2 DEF Block
      <4> QED BY <4>2, <4>3, <4>4, <4>5, <4>6 DEF Shape
    <3> QED BY <3>1, <3>2
  <2> HIDE DEF steps
  <2>2. req[h].kind = "documents"
    <3>1. Head(todo[h]) \in Range(todo[h]) /\ Fitting(todo[h], req[h].kind)
        BY <1>1, AtIs DEF ShapeOf, Shape
    <3> QED BY <1>1, <3>1 DEF Fitting
  <2>3. MayComeFirst(h, steps)
      BY <1>4, <2>1, <2>2 DEF MayComeFirst
  <2>4. Goes(h, Range(steps)) /\ todo'[h] # <<>> /\ Head(todo'[h]) = steps[1]
      BY <1>1, <1>7, <2>1, <2>3, StepToGoes
  <2>5. steps[1] \in Range(steps)
    <3>1. Len(steps) \in Nat \ {0} /\ DOMAIN steps = 1..Len(steps)
        BY <2>1, LenProperties, EmptySeq
    <3> QED BY <3>1 DEF Range
  <2>6. Minor(h, Range(steps))
      BY <1>1, <1>2, <1>3, <1>7, <2>1, <2>4 DEF Minor, treeHistory, Nothing
  <2>7. TreeTypeOK'
      BY <1>2, <1>7, <2>4 DEF TreeInv, TreeTypeOK, env, treeHistory, Nothing, Goes
  <2>8. \A s \in Range(steps) : s[1] \notin {"write", "reopen", "saveDocuments", "openDocuments"}
      BY <2>1
  <2> QED BY <1>1, <1>2, <1>7, <2>4, <2>5, <2>6, <2>7, <2>8, PushingStep DEF treeHistory, Nothing
<1> QED BY <1>5, <1>6, <1>7 DEF LoadDocuments

LEMMA AssembleStep ==
    ASSUME TreeInv, NEW h \in Handlers, Assemble(h) PROVE TreeInv'
PROOF
<1>1. /\ Working(h) /\ Head(todo[h])[1] = "assemble" /\ At(h, "assemble")
      /\ todo \in [Handlers -> Seq(Steps)] /\ ShapeOf(h)
      BY DEF Assemble, At, TreeInv, TreeTypeOK
<1>2. Nothing /\ UNCHANGED env
      BY DEF Assemble
<1>3. HasExtractedArtifacts => HasExtractedArtifacts'
      BY <1>2 DEF HasExtractedArtifacts, Nothing
<1>4. Phase(Head(todo[h])) = 7 /\ Head(todo[h]) \in Steps
      BY <1>1, AtIs, PhaseFacts
<1>5. CASE /\ Step(h) /\ UNCHANGED <<req, buf, handle, served, tree, fresh, contended, spoiled>>
           /\ End(h, "ok") \/ End(h, "needs_review")
  <2>1. Goes(h, {}) /\ todo' \in [Handlers -> Seq(Steps)]
      BY <1>1, <1>5, StepGoes DEF Goes
  <2>2. Minor(h, {})
      BY <1>1, <1>2, <1>3, <1>5, <2>1 DEF Minor, Nothing
  <2>3. outcome' \in [Handlers -> {"none", "ok", "needs_review", "error"}]
      BY <1>5 DEF TreeInv, TreeTypeOK, End
  <2>4. TreeTypeOK'
      BY <1>2, <1>5, <2>1, <2>3 DEF TreeInv, TreeTypeOK, env, Nothing
  <2> QED BY <1>1, <1>2, <1>5, <2>2, <2>4, PlainStep DEF Nothing
<1>6. CASE Abandon({h})
      BY <1>2, <1>6, OneGone
<1>7. CASE /\ todo' = [todo EXCEPT ![h] = One("documents", Nil) \o @]
           /\ UNCHANGED <<req, buf, handle, outcome, served, treeHistory>>
  <2> DEFINE p == <<"documents", Nil>>
             q == todo[h]
             u == One("documents", Nil)
             rest == Range(Tail(q))
  <2>1. p \in Steps /\ Phase(p) = 0 /\ p[1] = "documents"
      BY Makes DEF Phase, Unlinks
  <2>2. u \in Seq(Steps) /\ Len(u) = 1 /\ u[1] = p /\ u # <<>> /\ Sorted(u) /\ Range(u) = {p}
    <3> DEFINE n == "documents"
    <3> HIDE DEF n
    <3>1. <<n, Nil>> \in Steps
        BY <2>1 DEF n
    <3>2. /\ One(n, Nil) \in Seq(Steps) /\ Len(One(n, Nil)) = 1 /\ One(n, Nil)[1] = <<n, Nil>> /\ One(n, Nil) # <<>>
          /\ Sorted(One(n, Nil)) /\ Range(One(n, Nil)) = {<<n, Nil>>}
        BY <3>1, OneBlock
    <3> QED BY <3>2 DEF n
  <2>3. todo' = [todo EXCEPT ![h] = u \o q]
      BY <1>7
  <2> HIDE DEF p, u
  <2>4. Behind(u)
      BY <2>2 DEF Behind
  <2>5. Shape(q, req[h].kind, req[h].scope) /\ q # <<>>
      BY <1>1 DEF ShapeOf, Working
  <2>6. /\ Range(q) = {Head(q)} \cup rest /\ Range(q) \subseteq Steps
        /\ \A s \in rest : Phase(Head(q)) <= Phase(s) /\ s[1] \notin Pushed
      BY <2>5, TailShape
  <2>7. MayPrecede(u, q, req[h].kind)
    <3>1. ASSUME NEW y \in Range(q) PROVE Phase(p) <= Phase(y) /\ y[1] \notin Pushed
      <4>1. y \in Steps /\ Phase(y) \in 0..7
          BY <2>6, PhaseFacts
      <4>2. y[1] \notin Pushed
          BY <1>1, <2>6 DEF Pushed
      <4> QED BY <4>1, <4>2, <2>1
    <3> QED BY <3>1, <2>1, <2>2 DEF MayPrecede
  <2> DEFINE r == u \o q
  <2>8. /\ Shape(r, req[h].kind, req[h].scope) /\ Range(r) = Range(u) \cup Range(q)
        /\ r # <<>> /\ Head(r) = p
      BY <2>2, <2>4, <2>5, <2>7, PushedFirst
  <2> HIDE DEF r
  <2>9. r \in Seq(Steps)
      BY <2>8 DEF Shape
  <2>10. todo'[h] = r /\ todo' \in [Handlers -> Seq(Steps)] /\ \A g \in Handlers : g # h => todo'[g] = todo[g]
      BY <1>1, <2>3, <2>9 DEF r
  <2> DEFINE new == {p, Head(q)}
  <2>11. Range(r) = new \cup rest /\ new # {} /\ Head(todo'[h]) \in new
      BY <2>2, <2>6, <2>8, <2>10
  <2>14. \A s \in rest : s \in Steps /\ Phase(Head(q)) <= Phase(s) /\ s[1] \notin Pushed
      BY <2>6
  <2>15. \A s \in new : Phase(s) \in {0, 7} /\ s[1] \in {"documents", "assemble"}
      BY <1>1, <1>4, <2>1
  <2> HIDE DEF new, rest
  <2>16. Goes(h, new)
      BY <2>5, <2>6, <2>8, <2>10, <2>11, <2>14 DEF Goes, rest
  <2>17. Minor(h, new)
    <3>1. \A s \in new : Phase(s) \notin 1..3 /\ (Phase(s) \in 4..5 => Phase(Head(todo[h])) \in 4..5)
        BY <2>15
    <3> QED BY <1>1, <1>2, <1>3, <1>7, <2>16, <3>1 DEF Minor, treeHistory, Nothing
  <2>18. TreeTypeOK'
      BY <1>2, <1>7, <2>10 DEF TreeInv, TreeTypeOK, env, treeHistory, Nothing
  <2>19. \A s \in new : s[1] \notin {"write", "reopen", "saveDocuments", "openDocuments"}
      BY <2>15
  <2>20. todo'[h] # <<>>
      BY <2>8, <2>10
  <2> QED BY <1>1, <1>2, <1>7, <2>11, <2>17, <2>18, <2>19, <2>20, PushingStep DEF treeHistory, Nothing
<1> QED BY <1>5, <1>6, <1>7 DEF Assemble

LEMMA ReadBackStep ==
    ASSUME TreeInv, NEW h \in Handlers, ReadBack(h) PROVE TreeInv'
PROOF
<1>1. /\ Working(h) /\ Head(todo[h])[1] = "readBack" /\ At(h, "readBack")
      /\ todo \in [Handlers -> Seq(Steps)] /\ ShapeOf(h)
      BY DEF ReadBack, At, TreeInv, TreeTypeOK
<1>2. Nothing /\ UNCHANGED <<env, req, handle, outcome, served, tree, fresh, contended, spoiled>>
      BY DEF ReadBack
<1>3. HasExtractedArtifacts => HasExtractedArtifacts'
      BY <1>2 DEF HasExtractedArtifacts, Nothing
<1>4. Phase(Head(todo[h])) = 5 /\ On(h) \in Outputs
      BY <1>1, AtIs, PhaseFacts
<1>5. CASE Step(h) /\ UNCHANGED buf
  <2>1. Goes(h, {}) /\ todo' \in [Handlers -> Seq(Steps)]
      BY <1>1, <1>5, StepGoes DEF Goes
  <2>2. Minor(h, {})
      BY <1>1, <1>2, <1>3, <1>5, <2>1 DEF Minor, Nothing
  <2>4. TreeTypeOK'
      BY <1>2, <1>5, <2>1 DEF TreeInv, TreeTypeOK, env, Nothing
  <2> QED BY <1>1, <1>2, <1>5, <2>2, <2>4, PlainStep DEF Nothing
<1>6. CASE /\ file[On(h)].state # "absent"
           /\ buf' = [buf EXCEPT ![h] = IF file[On(h)].state = "empty" THEN Whole(NoTexts) ELSE file[On(h)]]
           /\ StepTo(h, One("reopen", On(h)))
  <2>1. PICK o \in Outputs : o = On(h)
      BY <1>4
  <2> DEFINE n == "reopen"
             p == <<n, o>>
  <2>2. p \in Steps /\ p[1] = "reopen" /\ Phase(p) = 5
      BY Makes DEF Phase, Unlinks
  <2>3. n \notin {"serve", "assemble", "refine", "improve", "load", "extract"} /\ StepTo(h, One(n, o))
      BY <1>6, <2>1
  <2> HIDE DEF n
  <2>4. Goes(h, {p}) /\ todo'[h] # <<>> /\ Head(todo'[h]) = p
    <3>1. <<n, o>> \in Steps /\ Phase(<<n, o>>) \in {0, 4, 5} /\ Phase(<<n, o>>) <= Phase(Head(todo[h]))
        BY <1>4, <2>2
    <3> QED BY <1>1, <2>3, <3>1, StepToOne
  <2>5. p[2] = o
      OBVIOUS
  <2> HIDE DEF p
  <2>6. \A g \in Handlers : g # h => buf'[g] = buf[g]
      BY <1>6 DEF TreeInv, TreeTypeOK
  <2>7. Minor(h, {p})
      BY <1>1, <1>2, <1>3, <1>4, <2>2, <2>4, <2>6 DEF Minor, Nothing
  <2>8. buf'[h] = IF file[o].state = "empty" THEN Whole(NoTexts) ELSE file[o]
      BY <1>6, <2>1 DEF TreeInv, TreeTypeOK
  <2>9. file[o] \in FileContent /\ file[o].state # "absent"
      BY <1>6, <2>1 DEF TreeInv, TreeTypeOK
  <2>10. buf'[h] \in FileContent /\ buf'[h].state \in {"whole", "mixed"}
      BY <2>8, <2>9, Contents
  <2>11. buf' \in [Handlers -> FileContent]
      BY <1>6, <2>8, <2>10 DEF TreeInv, TreeTypeOK
  <2>12. TreeTypeOK'
      BY <1>2, <2>4, <2>11 DEF TreeInv, TreeTypeOK, env, Nothing, Goes
  <2>13. ~At(h, "write")' /\ ~At(h, "openDocuments")' /\ ~At(h, "saveDocuments")' /\ On(h)' = o
      BY <2>2, <2>4, <2>5 DEF At, On
  <2>14. WriterOf(h)'
      BY <2>10, <2>13 DEF WriterOf
  <2>15. ~Saves(h) /\ ~Saves(h)'
      BY <1>1, <2>13 DEF Saves, At
  <2>16. ASSUME NEW f \in Outputs, ~contended[h], Past(h, f)' PROVE HoldsOf(h, f)'
    <3>1. Past(h, f)
      <4> DEFINE b == <<"build", f>>
      <4>1. b[1] = "build"
          OBVIOUS
      <4> HIDE DEF b
      <4>2. Head(todo[h]) # b
          BY <1>1, <4>1
      <4> QED BY <1>1, <1>2, <2>4, <2>16, <4>2, PastStep DEF b
    <3>2. HoldsOf(h, f)
        BY <2>16, <3>1 DEF TreeInv, Holding
    <3>3. file[f] = BuiltFor(h, f)
        BY <1>1, <3>2 DEF HoldsOf, At
    <3>4. BuiltFor(h, f)' = BuiltFor(h, f)
        BY <1>2 DEF BuiltFor, Built, Displayed, Nothing
    <3>5. BuiltFor(h, f).state = "whole"
        BY Contents DEF BuiltFor
    <3>6. o = f => buf'[h] = BuiltFor(h, f)
        BY <2>8, <3>3, <3>5
    <3> QED BY <1>2, <2>13, <3>3, <3>4, <3>6 DEF HoldsOf, Nothing
  <2> QED BY <1>2, <2>7, <2>12, <2>14, <2>15, <2>16, MinorStep DEF TreeInv, Nothing
<1> QED BY <1>5, <1>6 DEF ReadBack

LEMMA RemoveDirStep ==
    ASSUME TreeInv, NEW h \in Handlers, RemoveDir(h) PROVE TreeInv'
PROOF
<1>1. /\ Working(h) /\ Head(todo[h])[1] = "rmdir" /\ At(h, "rmdir")
      /\ todo \in [Handlers -> Seq(Steps)] /\ ShapeOf(h)
      BY DEF RemoveDir, At, TreeInv, TreeTypeOK
<1>2. UNCHANGED <<env, stages, extracted, latest, described, file, improved>>
      BY DEF RemoveDir
<1>3. CASE Abandon({h}) /\ UNCHANGED dirs
      BY <1>2, <1>3, OneGone DEF env, Nothing
<1>4. CASE /\ ~ \E f \in Outputs : DirOf(f) = On(h) /\ file[f].state # "absent"
           /\ dirs' = dirs \ {On(h)} /\ Step(h)
           /\ UNCHANGED <<req, buf, handle, outcome, served, treeHistory>>
  <2>1. Goes(h, {}) /\ todo' \in [Handlers -> Seq(Steps)]
      BY <1>1, <1>4, StepGoes DEF Goes
  <2>2. HasExtractedArtifacts => HasExtractedArtifacts'
      BY <1>2 DEF HasExtractedArtifacts
  <2>3. \A f \in Outputs : file[f].state # "absent" => DirOf(f) \in dirs'
      BY <1>4 DEF TreeInv, Files
  <2>4. Minor(h, {})
      BY <1>1, <1>2, <1>4, <2>1, <2>2, <2>3 DEF Minor, treeHistory
  <2>5. TreeTypeOK'
      BY <1>2, <1>4, <2>1 DEF TreeInv, TreeTypeOK, env, treeHistory
  <2> QED BY <1>1, <1>2, <1>4, <2>4, <2>5, PlainStep DEF treeHistory
<1> QED BY <1>3, <1>4 DEF RemoveDir

LEMMA RebuiltStep ==
    ASSUME TreeInv, NEW h \in Handlers, Rebuilt(h) PROVE TreeInv'
PROOF
<1>1. /\ Working(h) /\ Head(todo[h])[1] = "rebuilt" /\ At(h, "rebuilt") /\ StepOrEnd(h)
      /\ todo \in [Handlers -> Seq(Steps)] /\ ShapeOf(h)
      BY DEF Rebuilt, At, TreeInv, TreeTypeOK
<1>2. /\ TreeTypeOK /\ \A g \in Handlers : ShapeOf(g)
      /\ WasExtracted /\ Files /\ Documented /\ Promised /\ Overlaps /\ Holding
      BY DEF TreeInv
<1>3. /\ Nothing /\ UNCHANGED <<env, req, buf, handle, served, contended, spoiled>>
      /\ tree' = IF fresh[h] = "fresh" THEN "built" ELSE tree
      /\ fresh' = [fresh EXCEPT ![h] = "no"]
      BY DEF Rebuilt
<1>4. Goes(h, {}) /\ todo' \in [Handlers -> Seq(Steps)]
      /\ outcome' \in [Handlers -> {"none", "ok", "needs_review", "error"}]
      BY <1>1, StepOrEndIs
<1>5. Phase(Head(todo[h])) = 6
      BY <1>1, AtIs, PhaseFacts
<1>6. fresh'[h] = "no" /\ \A g \in Handlers : g # h => fresh'[g] = fresh[g]
      BY <1>2, <1>3 DEF TreeTypeOK
<1>7. ASSUME NEW name \in Pushed PROVE ~At(h, name)'
      BY <1>4, NotHalfway
<1>8. ~At(h, "write")' /\ ~At(h, "reopen")' /\ ~At(h, "openDocuments")' /\ ~At(h, "saveDocuments")'
      BY <1>7 DEF Pushed
<1>9. WriterOf(h)' /\ ~Saves(h) /\ ~Saves(h)'
      BY <1>1, <1>8 DEF WriterOf, Saves, At
<1>10. HasExtractedArtifacts' = HasExtractedArtifacts
      BY <1>3 DEF HasExtractedArtifacts, Nothing
<1>11. TreeTypeOK'
      BY <1>2, <1>3, <1>4 DEF TreeTypeOK, env, Nothing
<1>12. \A g \in Handlers : ShapeOf(g)'
  <2> SUFFICES ASSUME NEW g \in Handlers PROVE ShapeOf(g)'
      OBVIOUS
  <2>1. CASE g = h
      BY <2>1, <1>3, <1>4 DEF Goes, ShapeOf
  <2>2. CASE g # h
      BY <2>2, <1>2, <1>3, <1>4 DEF Goes, ShapeOf
  <2> QED BY <2>1, <2>2
<1>13. WasExtracted'
  <2>1. Head(todo[h]) # Unlinks
      BY <1>1 DEF Unlinks
  <2>2. tree' = "built" => tree = "built" \/ fresh[h] # "no"
      BY <1>3
  <2> QED BY <1>1, <1>2, <1>4, <1>5, <1>6, <1>10, <2>1, <2>2, ExtractedStep
<1>14. Files'
      BY <1>2, <1>3, <1>4, <1>9, FilesStep DEF Nothing
<1>15. Documented'
      BY <1>2, <1>3, <1>4, <1>9, DocumentedStep DEF Nothing
<1>16. Holding' /\ Overlaps'
  <2>1. ASSUME NEW f \in Outputs, ~contended[h], Past(h, f)' PROVE HoldsOf(h, f)'
      BY <1>1, <1>2, <1>3, <1>4, <1>8, <2>1, StillHolds DEF Nothing
  <2> QED BY <1>2, <1>3, <1>4, <2>1, OthersHold
<1>17. Promised'
  <2>1. Undisturbed' => Undisturbed
      BY <1>2, <1>3, <1>6 DEF Undisturbed
  <2>2. ASSUME NEW g \in Handlers, NEW f \in Outputs
        PROVE  (WillWrite(g, f) => WillWrite(g, f)') /\ (WillEnd(g, f) => WillEnd(g, f)')
    <3>1. CASE g # h
      <4>1. todo'[g] = todo[g] /\ fresh'[g] = fresh[g] /\ handle'[g] = handle[g]
          BY <3>1, <1>3, <1>4, <1>6 DEF Goes
      <4> QED BY <4>1 DEF WillWrite, WillEnd, Writes, At, On, Working
    <3>2. CASE g = h
      <4> DEFINE b == <<"build", f>>
                 u == <<"unlink", DirOf(f)>>
      <4>1. b \in Steps /\ u \in Steps /\ b[1] = "build" /\ u[1] = "unlink"
          BY Makes DEF DirOf
      <4> HIDE DEF b, u
      <4>2. Phase(b) = 4 /\ Phase(u) \in {2, 3}
          BY <4>1, PhaseFacts
      <4>3. \A s \in Range(todo[h]) : Phase(s) \notin 1..5
        <5> SUFFICES ASSUME NEW s \in Range(todo[h]) PROVE Phase(s) \notin 1..5
            OBVIOUS
        <5>1. s = Head(todo[h]) \/ (s \in Steps /\ 6 <= Phase(s))
            BY <1>4, <1>5 DEF Goes
        <5>2. s \in Steps => Phase(s) \in 0..7
            BY PhaseFacts
        <5> QED BY <5>1, <5>2, <1>5
      <4>4. b \notin Range(todo[h]) /\ u \notin Range(todo[h])
          BY <4>2, <4>3
      <4>5. ~Writes(h, f)
          BY <1>1 DEF Writes, At
      <4> QED BY <3>2, <4>4, <4>5 DEF WillWrite, WillEnd, b, u
    <3> QED BY <3>1, <3>2
  <2>3. {"script", "index"} \subseteq Outputs
      BY DEF Outputs
  <2>4. file' = file
      BY <1>3 DEF Nothing
  <2> QED BY <1>2, <2>1, <2>2, <2>3, <2>4 DEF Promised
<1> QED BY <1>11, <1>12, <1>13, <1>14, <1>15, <1>16, <1>17 DEF TreeInv

LEMMA UnlinkStep ==
    ASSUME TreeInv, NEW h \in Handlers, Unlink(h) PROVE TreeInv'
PROOF
<1>1. /\ Working(h) /\ Head(todo[h])[1] = "unlink" /\ At(h, "unlink") /\ Step(h)
      /\ todo \in [Handlers -> Seq(Steps)] /\ ShapeOf(h)
      BY DEF Unlink, At, TreeInv, TreeTypeOK
<1>2. /\ TreeTypeOK /\ \A g \in Handlers : ShapeOf(g)
      /\ WasExtracted /\ Files /\ Documented /\ Promised /\ Overlaps /\ Holding
      BY DEF TreeInv
<1>3. PICK d \in {"script", "tasks"} : d = On(h) /\ Head(todo[h]) = <<"unlink", d>>
      BY <1>1, AtIs
<1>4. /\ file' = [f \in Outputs |-> IF DirOf(f) = d THEN Absent ELSE file[f]]
      /\ handle' = [g \in Handlers |-> IF handle[g] = d THEN "cut" ELSE handle[g]]
      /\ fresh' = [fresh EXCEPT ![h] = IF fresh[h] = "no" THEN "fresh" ELSE fresh[h]]
      /\ UNCHANGED <<env, stages, extracted, latest, described, dirs, improved, req, buf, outcome, served,
                   tree, contended, spoiled>>
      BY <1>3 DEF Unlink
<1>5. Goes(h, {}) /\ todo' \in [Handlers -> Seq(Steps)]
      BY <1>1, StepGoes DEF Goes
<1>6. /\ Head(todo[h]) \in Steps /\ Phase(Head(todo[h])) \in {2, 3}
      /\ Phase(Head(todo[h])) = 2 <=> Head(todo[h]) = Unlinks
      BY <1>1, AtIs, PhaseFacts
<1>7. /\ fresh'[h] # "no" /\ (fresh[h] # "no" => fresh'[h] = fresh[h])
      /\ \A g \in Handlers : g # h => fresh'[g] = fresh[g]
      BY <1>2, <1>4 DEF TreeTypeOK
<1>8. ASSUME NEW name \in Pushed PROVE ~At(h, name)'
      BY <1>5, NotHalfway
<1>9. ~At(h, "write")' /\ ~At(h, "reopen")' /\ ~At(h, "openDocuments")' /\ ~At(h, "saveDocuments")'
      BY <1>8 DEF Pushed
<1>10. HasExtractedArtifacts' = HasExtractedArtifacts
      BY <1>4 DEF HasExtractedArtifacts
<1>11. TreeTypeOK'
  <2>1. file' \in [Outputs -> FileContent]
      BY <1>2, <1>4, Contents DEF TreeTypeOK
  <2>2. handle' \in [Handlers -> {"none", "script", "tasks", "cut"}]
      BY <1>2, <1>4 DEF TreeTypeOK
  <2>3. fresh' \in [Handlers -> {"no", "fresh", "stale"}]
      BY <1>2, <1>4 DEF TreeTypeOK
  <2> QED BY <1>2, <1>4, <1>5, <2>1, <2>2, <2>3 DEF TreeTypeOK, env
<1>12. \A g \in Handlers : ShapeOf(g)'
  <2> SUFFICES ASSUME NEW g \in Handlers PROVE ShapeOf(g)'
      OBVIOUS
  <2>1. CASE g = h
      BY <2>1, <1>4, <1>5 DEF Goes, ShapeOf
  <2>2. CASE g # h
      BY <2>2, <1>2, <1>4, <1>5 DEF Goes, ShapeOf
  <2> QED BY <2>1, <2>2
<1>13. WasExtracted'
  <2>1. tree' = "built" => tree = "built" \/ fresh[h] # "no"
      BY <1>4
  <2> QED BY <1>1, <1>2, <1>5, <1>6, <1>7, <1>10, <2>1, ExtractedStep
<1>14. Files'
  <2>1. ASSUME NEW f \in Outputs, file'[f].state # "absent" PROVE DirOf(f) \in dirs' /\ file'[f] = file[f]
    <3>1. file'[f] = file[f]
        BY <2>1, <1>4, Contents
    <3> QED BY <2>1, <3>1, <1>2, <1>4 DEF Files
  <2>2. ASSUME NEW g \in Handlers PROVE WriterOf(g)'
    <3>1. CASE g = h
        BY <3>1, <1>9 DEF WriterOf
    <3>2. CASE g # h
      <4>1. /\ todo'[g] = todo[g] /\ buf'[g] = buf[g]
            /\ handle'[g] = IF handle[g] = d THEN "cut" ELSE handle[g]
          BY <3>2, <1>4, <1>5 DEF Goes
      <4>2. /\ \A name : At(g, name)' <=> At(g, name)
            /\ On(g)' = On(g)
          BY <4>1 DEF At, On, Working
      <4>3. WriterOf(g)
          BY <1>2 DEF Files
      <4>4. ASSUME At(g, "write"), handle'[g] # "cut"
            PROVE  file'[On(g)].state # "absent"
        <5>1. On(g) \in Outputs
            BY <4>4, <1>2, AtIs
        <5>2. handle[g] # d /\ handle[g] # "cut"
            BY <4>1, <4>4
        <5>3. handle[g] = DirOf(On(g)) /\ file[On(g)].state # "absent"
            BY <4>3, <4>4, <5>2 DEF WriterOf
        <5>4. PICK o \in Outputs : o = On(g)
            BY <5>1
        <5>5. file'[o] = file[o]
            BY <5>2, <5>3, <5>4, <1>4
        <5> QED BY <5>3, <5>4, <5>5
      <4> QED BY <4>1, <4>2, <4>3, <4>4 DEF WriterOf
    <3> QED BY <3>1, <3>2
  <2> QED BY <2>1, <2>2 DEF Files
<1>15. Documented'
  <2>1. ~Saves(h) /\ ~Saves(h)'
      BY <1>1, <1>9 DEF Saves, At
  <2> QED BY <2>1, <1>2, <1>4, <1>5, DocumentedStep
<1>16. Holding' /\ Overlaps'
  <2>1. Phase(Head(todo[h])) \in 1..3 /\ Head(todo[h])[1] \notin {"build", "write"}
      BY <1>1, <1>6
  <2>2. ASSUME NEW f \in Outputs, ~contended[h], Past(h, f)' PROVE HoldsOf(h, f)'
      BY <1>1, <1>2, <1>4, <1>5, <1>9, <2>1, <2>2, StillHolds
  <2> QED BY <1>2, <1>4, <1>5, <2>2, OthersHold
<1>17. Promised'
  <2> DEFINE rest == Range(Tail(todo[h]))
  <2>1. /\ Range(todo[h]) = {<<"unlink", d>>} \cup rest /\ Range(todo'[h]) = rest
        /\ \A s \in rest : s \in Steps /\ Phase(Head(todo[h])) <= Phase(s)
      BY <1>3, <1>5 DEF Goes
  <2>2. Chain(todo[h], req[h].scope)
      BY <1>1 DEF ShapeOf, Shape
  <2>3. \E s \in Range(todo[h]) : Phase(s) \in 1..3 /\ Phase(s) = Phase(Head(todo[h]))
    <3>1. Head(todo[h]) \in Range(todo[h])
        BY <1>3, <2>1
    <3>2. Phase(Head(todo[h])) \in 1..3
        BY <1>6
    <3> QED BY <3>1, <3>2
  <2> HIDE DEF rest
  <2>4. ASSUME NEW f \in {"script", "index"} PROVE WillWrite(h, f)'
    <3> DEFINE b == <<"build", f>>
               u == <<"unlink", d>>
    <3>1. b \in Range(todo[h])
        BY <2>2, <2>3 DEF Chain, OutputSet
    <3>2. b[1] = "build" /\ u[1] = "unlink"
        OBVIOUS
    <3> HIDE DEF b, u
    <3>3. b # u
        BY <3>2
    <3>4. b \in rest
        BY <2>1, <3>1, <3>3 DEF u
    <3>5. <<"build", f>> \in Range(todo'[h])
        BY <2>1, <3>4 DEF b
    <3> QED BY <1>7, <3>5 DEF WillWrite
  <2>5. ASSUME Undisturbed', NEW f \in Outputs, file'[f].state = "empty"
        PROVE  \E g \in Handlers : WillEnd(g, f)'
    <3>1. DirOf(f) # d /\ file[f].state = "empty"
        BY <1>4, <2>5, Contents
    <3>2. CASE d = "script"
      <4>1. Head(todo[h]) = Unlinks
          BY <1>3, <3>2 DEF Unlinks
      <4> DEFINE t == <<"unlink", "tasks">>
                 u == <<"unlink", d>>
      <4>2. t \in Range(todo[h])
          BY <1>6, <2>2, <2>3, <4>1 DEF Chain
      <4>3. t[2] = "tasks" /\ u[2] = d
          OBVIOUS
      <4> HIDE DEF t, u
      <4>4. t # u
          BY <3>2, <4>3
      <4>5. t \in rest
          BY <2>1, <4>2, <4>4 DEF u
      <4>6. DirOf(f) = "tasks"
          BY <3>1, <3>2 DEF DirOf
      <4>7. <<"unlink", DirOf(f)>> \in Range(todo'[h])
          BY <2>1, <4>5, <4>6 DEF t
      <4> QED BY <1>7, <4>7 DEF WillEnd
    <3>3. CASE d = "tasks"
      <4>1. DirOf(f) = "script"
          BY <3>1, <3>3 DEF DirOf
      <4>2. Head(todo[h]) # Unlinks
          BY <1>3, <3>3 DEF Unlinks
      <4>3. Phase(Head(todo[h])) = 3
          BY <1>6, <4>2
      <4>4. \A s \in Range(todo[h]) : Phase(s) \notin 1..2
        <5> SUFFICES ASSUME NEW s \in Range(todo[h]) PROVE Phase(s) \notin 1..2
            OBVIOUS
        <5>1. s = Head(todo[h]) \/ (s \in Steps /\ 3 <= Phase(s))
            BY <1>3, <2>1, <4>3
        <5>2. s \in Steps => Phase(s) \in 0..7
            BY PhaseFacts
        <5> QED BY <5>1, <5>2, <4>3
      <4>5. Checked(h) /\ Unlinks \notin Range(todo[h])
        <5>1. Phase(Unlinks) = 2
            BY DEF Phase, Unlinks
        <5> QED BY <2>3, <4>3, <4>4, <5>1 DEF Checked
      <4>6. fresh[h] # "no"
          BY <1>2, <4>5 DEF WasExtracted, ExtractedOf
      <4>7. fresh' = fresh /\ tree' = tree
          BY <1>2, <1>4, <4>6 DEF TreeTypeOK
      <4>8. Undisturbed
          BY <2>5, <4>7 DEF Undisturbed
      <4>9. PICK g \in Handlers : WillEnd(g, f)
          BY <1>2, <3>1, <4>8 DEF Promised
      <4>10. g # h
        <5>1. ~Writes(h, f)
            BY <1>1 DEF Writes, At
        <5> QED BY <4>1, <4>5, <4>9, <5>1 DEF WillEnd, Unlinks
      <4>11. todo'[g] = todo[g]
          BY <1>5, <4>10 DEF Goes
      <4>12. Writes(g, f) => Writes(g, f)'
        <5>1. handle[g] = "script" => handle'[g] = "script"
            BY <1>4, <3>3
        <5> QED BY <4>1, <4>11, <5>1 DEF Writes, At, On, Working
      <4>13. WillEnd(g, f)'
          BY <4>7, <4>9, <4>11, <4>12 DEF WillEnd
      <4> QED BY <4>13
    <3> QED BY <3>2, <3>3
  <2> QED BY <2>4, <2>5 DEF Promised
<1> QED BY <1>11, <1>12, <1>13, <1>14, <1>15, <1>16, <1>17 DEF TreeInv

LEMMA OpenStep ==
    ASSUME TreeInv, NEW h \in Handlers, Open(h) PROVE TreeInv'
PROOF
<1>1. /\ Working(h) /\ Head(todo[h])[1] \in {"build", "reopen"} /\ (At(h, "build") \/ At(h, "reopen"))
      /\ todo \in [Handlers -> Seq(Steps)] /\ ShapeOf(h)
      BY DEF Open, At, TreeInv, TreeTypeOK
<1>2. /\ TreeTypeOK /\ \A g \in Handlers : ShapeOf(g)
      /\ WasExtracted /\ Files /\ Documented /\ Promised /\ Overlaps /\ Holding
      BY DEF TreeInv
<1>3. PICK o \in Outputs : o = On(h) /\ Head(todo[h]) \in {<<"build", o>>, <<"reopen", o>>}
      BY <1>1, AtIs
<1>4. UNCHANGED <<env, stages, extracted, latest, described, dirs, improved>>
      BY DEF Open
<1>5. CASE DirOf(o) \notin dirs
      BY <1>3, <1>4, <1>5, OneGone DEF Open, env, Nothing
<1>6. CASE DirOf(o) \in dirs
  <2>1. /\ file' = [file EXCEPT ![o] = Empty]
        /\ handle' = [handle EXCEPT ![h] = DirOf(o)]
        /\ buf' = IF At(h, "build") THEN [buf EXCEPT ![h] = Whole(Built(o, req[h].scope))] ELSE buf
        /\ StepTo(h, One("write", o))
        /\ UNCHANGED <<req, outcome, served, treeHistory>>
      BY <1>3, <1>6 DEF Open
  <2>2. /\ Head(todo[h]) \in Steps /\ Phase(Head(todo[h])) \in {4, 5}
        /\ Phase(Head(todo[h])) = 4 <=> Head(todo[h])[1] = "build"
    <3>1. Head(todo[h]) \in Steps
        BY <1>1, AtIs
    <3> QED BY <1>1, <3>1, PhaseFacts
  <2> DEFINE n == "write"
             p == <<n, o>>
  <2>3. p \in Steps /\ p[1] = "write" /\ Phase(p) = 4
      BY Makes DEF Phase, Unlinks
  <2>4. n \notin {"serve", "assemble", "refine", "improve", "load", "extract"} /\ StepTo(h, One(n, o))
      BY <2>1
  <2> HIDE DEF n
  <2>5. Goes(h, {p}) /\ todo'[h] # <<>> /\ Head(todo'[h]) = p
    <3>1. <<n, o>> \in Steps /\ Phase(<<n, o>>) \in {0, 4, 5} /\ Phase(<<n, o>>) <= Phase(Head(todo[h]))
        BY <2>2, <2>3
    <3> QED BY <1>1, <2>4, <3>1, StepToOne
  <2>6. p[2] = o
      OBVIOUS
  <2> HIDE DEF p
  <2>7. /\ \A g \in Handlers : g # h => buf'[g] = buf[g] /\ handle'[g] = handle[g]
        /\ handle'[h] = DirOf(o) /\ file'[o] = Empty /\ \A f \in Outputs : f # o => file'[f] = file[f]
      BY <1>2, <2>1 DEF TreeTypeOK
  <2>8. /\ At(h, "write")' /\ On(h)' = o
        /\ ~At(h, "openDocuments")' /\ ~At(h, "saveDocuments")' /\ ~At(h, "reopen")'
      BY <2>3, <2>5, <2>6 DEF At, On, Working
  <2>9. ~Saves(h) /\ ~Saves(h)' /\ ~At(h, "write")
      BY <1>1, <2>8 DEF Saves, At
  <2>10. buf'[h] \in FileContent /\ buf'[h].state \in {"whole", "mixed"}
    <3>1. CASE At(h, "build")
      <4>1. Built(o, req[h].scope) \in Texts
          BY <1>2, DisplayedType
      <4>2. buf'[h] = Whole(Built(o, req[h].scope))
          BY <1>2, <2>1, <3>1 DEF TreeTypeOK
      <4> QED BY <4>1, <4>2, Contents
    <3>2. CASE ~At(h, "build")
      <4>1. buf'[h] = buf[h] /\ At(h, "reopen")
          BY <1>1, <2>1, <3>2
      <4>2. WriterOf(h)
          BY <1>2 DEF Files
      <4> QED BY <1>2, <4>1, <4>2 DEF WriterOf, TreeTypeOK
    <3> QED BY <3>1, <3>2
  <2>11. TreeTypeOK'
    <3>1. file' \in [Outputs -> FileContent]
        BY <1>2, <2>1, Contents DEF TreeTypeOK
    <3>2. handle' \in [Handlers -> {"none", "script", "tasks", "cut"}]
        BY <1>2, <2>1 DEF TreeTypeOK, DirOf
    <3>3. buf' \in [Handlers -> FileContent]
        BY <1>2, <2>1, <2>10 DEF TreeTypeOK
    <3> QED BY <1>2, <1>4, <2>1, <2>5, <3>1, <3>2, <3>3 DEF TreeTypeOK, env, treeHistory, Goes
  <2>12. \A g \in Handlers : ShapeOf(g)'
    <3> SUFFICES ASSUME NEW g \in Handlers PROVE ShapeOf(g)'
        OBVIOUS
    <3>1. CASE g = h
        BY <3>1, <2>1, <2>5 DEF Goes, ShapeOf
    <3>2. CASE g # h
        BY <3>2, <1>2, <2>1, <2>5 DEF Goes, ShapeOf
    <3> QED BY <3>1, <3>2
  <2>13. HasExtractedArtifacts' = HasExtractedArtifacts
      BY <1>4 DEF HasExtractedArtifacts
  <2>14. fresh' = fresh /\ tree' = tree /\ contended' = contended /\ spoiled' = spoiled
      BY <2>1 DEF treeHistory
  <2>15. Head(todo[h]) # Unlinks
      BY <1>1 DEF Unlinks
  <2>16. WasExtracted'
    <3>1. \A s \in {p} : Phase(s) \notin 1..3 /\ (Phase(s) \in 4..5 => Phase(Head(todo[h])) \in 4..5)
        BY <2>2, <2>3
    <3>2. Phase(Head(todo[h])) # 1 /\ Phase(Head(todo[h])) # 6
        BY <2>2
    <3>3. /\ fresh[h] = "no" \/ fresh'[h] # "no"
          /\ fresh'[h] # "no" => fresh[h] # "no"
          /\ tree' = "built" => tree = "built"
          /\ \A g \in Handlers : g # h => fresh'[g] = fresh[g]
        BY <2>14
    <3> QED BY <1>1, <1>2, <2>5, <2>13, <2>15, <3>1, <3>2, <3>3, ExtractedStep
  <2>17. Files'
    <3>1. \A f \in Outputs : file'[f].state # "absent" => DirOf(f) \in dirs'
        BY <1>2, <1>4, <1>6, <2>7 DEF Files
    <3>2. ASSUME NEW g \in Handlers PROVE WriterOf(g)'
      <4>1. CASE g = h
          BY <4>1, <2>7, <2>8, <2>10, Contents DEF WriterOf
      <4>2. CASE g # h
        <5>1. todo'[g] = todo[g] /\ buf'[g] = buf[g] /\ handle'[g] = handle[g]
            BY <4>2, <2>5, <2>7 DEF Goes
        <5>2. /\ \A name : At(g, name)' <=> At(g, name)
              /\ On(g)' = On(g)
            BY <5>1 DEF At, On, Working
        <5>3. WriterOf(g)
            BY <1>2 DEF Files
        <5>4. ASSUME At(g, "write"), handle'[g] # "cut" PROVE file'[On(g)].state # "absent"
          <6>1. PICK k \in Outputs : k = On(g)
              BY <5>4, <1>2, AtIs
          <6>2. file[k].state # "absent"
              BY <5>1, <5>3, <5>4, <6>1 DEF WriterOf
          <6>3. file'[k].state # "absent"
              BY <6>2, <2>7, Contents
          <6> QED BY <6>1, <6>3
        <5> QED BY <5>1, <5>2, <5>3, <5>4 DEF WriterOf
      <4> QED BY <4>1, <4>2
    <3> QED BY <3>1, <3>2 DEF Files
  <2>18. Documented'
      BY <1>2, <1>4, <2>5, <2>9, <2>14, DocumentedStep
  <2>19. fresh[h] # "no"
    <3>1. \A s \in Range(todo[h]) : Phase(s) \notin 1..3
      <4> SUFFICES ASSUME NEW s \in Range(todo[h]) PROVE Phase(s) \notin 1..3
          OBVIOUS
      <4>1. s = Head(todo[h]) \/ (s \in Steps /\ Phase(Head(todo[h])) <= Phase(s))
          BY <2>5 DEF Goes
      <4>2. s \in Steps => Phase(s) \in 0..7
          BY PhaseFacts
      <4> QED BY <4>1, <4>2, <2>2
    <3>2. Head(todo[h]) \in Range(todo[h])
        BY <2>5 DEF Goes
    <3>3. Phase(Unlinks) = 2
        BY DEF Phase, Unlinks
    <3>4. Checked(h) /\ Unlinks \notin Range(todo[h])
        BY <2>2, <3>1, <3>2, <3>3 DEF Checked
    <3> QED BY <1>2, <3>4 DEF WasExtracted, ExtractedOf
  <2>20. Promised'
    <3>1. Undisturbed' = Undisturbed
        BY <2>14 DEF Undisturbed
    <3>2. WillWrite(h, o)' /\ WillEnd(h, o)'
        BY <2>7, <2>8, <2>14, <2>19 DEF WillWrite, WillEnd, Writes
    <3>3. ASSUME NEW f \in Outputs, f # o, NEW g \in Handlers
          PROVE  (WillWrite(g, f) => WillWrite(g, f)') /\ (WillEnd(g, f) => WillEnd(g, f)')
      <4>1. CASE g # h
        <5>1. todo'[g] = todo[g] /\ handle'[g] = handle[g]
            BY <4>1, <2>5, <2>7 DEF Goes
        <5> QED BY <5>1, <2>14 DEF WillWrite, WillEnd, Writes, At, On, Working
      <4>2. CASE g = h
        <5> DEFINE b == <<"build", f>>
                   u == <<"unlink", DirOf(f)>>
                   s == Head(todo[h])
        <5>1. b[1] = "build" /\ b[2] = f /\ u[1] = "unlink" /\ s[1] \in {"build", "reopen"} /\ s[2] = o
            BY <1>3
        <5>2. Range(todo[h]) \subseteq {s} \cup Range(todo'[h])
            BY <2>5 DEF Goes
        <5> HIDE DEF b, u, s
        <5>3. (b \in Range(todo[h]) => b \in Range(todo'[h])) /\ (u \in Range(todo[h]) => u \in Range(todo'[h]))
            BY <5>1, <5>2, <3>3
        <5>4. ~Writes(h, f)
            BY <2>9 DEF Writes
        <5> QED BY <4>2, <5>3, <5>4, <2>14 DEF WillWrite, WillEnd, b, u
      <4> QED BY <4>1, <4>2
    <3>4. {"script", "index"} \subseteq Outputs
        BY DEF Outputs
    <3> QED BY <1>2, <2>7, <3>1, <3>2, <3>3, <3>4 DEF Promised
  <2>21. Holding' /\ Overlaps'
    <3>1. ASSUME NEW f \in Outputs, ~contended[h], Past(h, f)' PROVE HoldsOf(h, f)'
      <4>1. Head(todo[h]) # <<"build", f>> => Past(h, f) /\ HoldsOf(h, f)
          BY <1>1, <1>2, <2>1, <2>5, <3>1, PastStep DEF Holding
      <4>2. BuiltFor(h, f)' = BuiltFor(h, f)
          BY <1>4, <2>1 DEF BuiltFor, Built, Displayed
      <4>3. CASE f # o
        <5> DEFINE b == <<"build", f>>
                   s == Head(todo[h])
        <5>1. b[2] = f /\ s[2] = o
            BY <1>3
        <5> HIDE DEF b, s
        <5>2. s # b
            BY <4>3, <5>1
        <5>3. HoldsOf(h, f)
            BY <4>1, <5>2 DEF b, s
        <5>4. file'[f] = BuiltFor(h, f)
            BY <5>3, <4>3, <2>7, <2>9 DEF HoldsOf
        <5> QED BY <4>2, <4>3, <5>4, <2>8 DEF HoldsOf
      <4>4. CASE f = o
        <5>1. buf'[h] = BuiltFor(h, o)
          <6>1. CASE At(h, "build")
              BY <1>2, <2>1, <6>1 DEF TreeTypeOK, BuiltFor
          <6>2. CASE ~At(h, "build")
            <7>1. At(h, "reopen") /\ buf'[h] = buf[h] /\ Head(todo[h])[1] = "reopen"
                BY <1>1, <2>1, <6>2 DEF At
            <7> DEFINE b == <<"build", f>>
            <7>2. b[1] = "build"
                OBVIOUS
            <7> HIDE DEF b
            <7>3. Head(todo[h]) # b
                BY <7>1, <7>2
            <7>4. HoldsOf(h, f)
                BY <4>1, <7>3 DEF b
            <7> QED BY <4>4, <7>1, <7>4, <1>3 DEF HoldsOf
          <6> QED BY <6>1, <6>2
        <5> QED BY <4>2, <4>4, <5>1, <2>7, <2>8 DEF HoldsOf
      <4> QED BY <4>3, <4>4
    <3> QED BY <1>2, <2>5, <2>14, <3>1, OthersHold
  <2> QED BY <2>11, <2>12, <2>16, <2>17, <2>18, <2>20, <2>21 DEF TreeInv
<1> QED BY <1>5, <1>6

LEMMA WriteStep ==
    ASSUME TreeInv, NEW h \in Handlers, Write(h) PROVE TreeInv'
PROOF
<1>1. /\ Working(h) /\ Head(todo[h])[1] = "write" /\ At(h, "write") /\ Step(h)
      /\ todo \in [Handlers -> Seq(Steps)] /\ ShapeOf(h)
      BY DEF Write, At, TreeInv, TreeTypeOK
<1>2. /\ TreeTypeOK /\ \A g \in Handlers : ShapeOf(g)
      /\ WasExtracted /\ Files /\ Documented /\ Promised /\ Overlaps /\ Holding
      BY DEF TreeInv
<1>3. PICK o \in Outputs : o = On(h) /\ Head(todo[h]) = <<"write", o>>
      BY <1>1, AtIs
<1>4. /\ IF handle[h] = "cut" THEN UNCHANGED file
         ELSE \E new \in Overwritten(file[o], buf[h]) : file' = [file EXCEPT ![o] = new]
      /\ handle' = [handle EXCEPT ![h] = "none"]
      /\ buf' = [buf EXCEPT ![h] = Absent]
      /\ UNCHANGED <<env, stages, extracted, latest, described, dirs, improved, req, outcome, served, treeHistory>>
      BY <1>3 DEF Write
<1>5. Goes(h, {}) /\ todo' \in [Handlers -> Seq(Steps)]
      BY <1>1, StepGoes DEF Goes
<1>6. Head(todo[h]) \in Steps /\ Phase(Head(todo[h])) = 4
      BY <1>1, AtIs, PhaseFacts
<1>7. ASSUME NEW name \in Pushed PROVE ~At(h, name)'
      BY <1>5, NotHalfway
<1>8. ~At(h, "write")' /\ ~At(h, "reopen")' /\ ~At(h, "openDocuments")' /\ ~At(h, "saveDocuments")'
      BY <1>7 DEF Pushed
<1>9. WriterOf(h)' /\ ~Saves(h) /\ ~Saves(h)'
      BY <1>1, <1>8 DEF WriterOf, Saves, At
<1>10. HasExtractedArtifacts' = HasExtractedArtifacts
      BY <1>4 DEF HasExtractedArtifacts
<1>11. \A g \in Handlers : g # h => buf'[g] = buf[g] /\ handle'[g] = handle[g]
      BY <1>2, <1>4 DEF TreeTypeOK
<1>12. fresh' = fresh /\ tree' = tree /\ contended' = contended /\ spoiled' = spoiled
      BY <1>4 DEF treeHistory
<1>13. /\ buf[h] \in FileContent /\ buf[h].state \in {"whole", "mixed"}
       /\ handle[h] # "cut" => handle[h] = DirOf(o) /\ file[o].state # "absent"
       /\ file[o] \in FileContent
      BY <1>1, <1>2, <1>3 DEF Files, WriterOf, TreeTypeOK
<1>14. /\ \A f \in Outputs : file'[f] = file[f] \/ (f = o /\ handle[h] # "cut" /\ file'[f].state \in {"whole", "mixed"})
       /\ handle[h] # "cut" => file'[o].state \in {"whole", "mixed"}
       /\ handle[h] # "cut" /\ file[o] = Empty => file'[o] = buf[h]
       /\ file' \in [Outputs -> FileContent]
  <2>1. CASE handle[h] = "cut"
      BY <1>2, <1>4, <2>1 DEF TreeTypeOK
  <2>2. CASE handle[h] # "cut"
    <3>1. PICK new \in Overwritten(file[o], buf[h]) : file' = [file EXCEPT ![o] = new]
        BY <1>4, <2>2
    <3>2. new \in {buf[h], Mixed} /\ (file[o] = Empty => new = buf[h])
        BY <3>1, Contents DEF Overwritten
    <3>3. new \in FileContent /\ new.state \in {"whole", "mixed"}
        BY <3>2, <1>13, Contents
    <3> QED BY <1>2, <2>2, <3>1, <3>2, <3>3 DEF TreeTypeOK
  <2> QED BY <2>1, <2>2
<1>15. TreeTypeOK'
  <2>1. handle' \in [Handlers -> {"none", "script", "tasks", "cut"}]
      BY <1>2, <1>4 DEF TreeTypeOK
  <2>2. buf' \in [Handlers -> FileContent]
      BY <1>2, <1>4, Contents DEF TreeTypeOK
  <2> QED BY <1>2, <1>4, <1>5, <1>14, <2>1, <2>2 DEF TreeTypeOK, env, treeHistory
<1>16. \A g \in Handlers : ShapeOf(g)'
  <2> SUFFICES ASSUME NEW g \in Handlers PROVE ShapeOf(g)'
      OBVIOUS
  <2>1. CASE g = h
      BY <2>1, <1>4, <1>5 DEF Goes, ShapeOf
  <2>2. CASE g # h
      BY <2>2, <1>2, <1>4, <1>5 DEF Goes, ShapeOf
  <2> QED BY <2>1, <2>2
<1>17. WasExtracted'
  <2>1. Head(todo[h]) # Unlinks
      BY <1>1 DEF Unlinks
  <2> QED BY <1>1, <1>2, <1>5, <1>6, <1>10, <1>12, <2>1, ExtractedStep
<1>18. Files'
  <2>1. ASSUME NEW f \in Outputs
        PROVE  /\ file'[f].state # "absent" <=> file[f].state # "absent"
               /\ file'[f].state # "absent" => DirOf(f) \in dirs'
    <3>1. file'[f].state # "absent" <=> file[f].state # "absent"
        BY <1>13, <1>14
    <3> QED BY <3>1, <1>2, <1>4 DEF Files
  <2>2. ASSUME NEW g \in Handlers PROVE WriterOf(g)'
    <3>1. CASE g = h
        BY <3>1, <1>9
    <3>2. CASE g # h
      <4>1. todo'[g] = todo[g] /\ buf'[g] = buf[g] /\ handle'[g] = handle[g]
          BY <3>2, <1>5, <1>11 DEF Goes
      <4>2. /\ \A name : At(g, name)' <=> At(g, name)
            /\ On(g)' = On(g)
          BY <4>1 DEF At, On, Working
      <4>3. WriterOf(g)
          BY <1>2 DEF Files
      <4>4. ASSUME At(g, "write"), handle'[g] # "cut" PROVE file'[On(g)].state # "absent"
        <5>1. PICK k \in Outputs : k = On(g)
            BY <4>4, <1>2, AtIs
        <5>2. file[k].state # "absent"
            BY <4>1, <4>3, <4>4, <5>1 DEF WriterOf
        <5> QED BY <5>1, <5>2, <2>1
      <4> QED BY <4>1, <4>2, <4>3, <4>4 DEF WriterOf
    <3> QED BY <3>1, <3>2
  <2> QED BY <2>1, <2>2 DEF Files
<1>19. Documented'
  <2>1. latest' = latest
      BY <1>4
  <2> QED BY <1>2, <1>5, <1>9, <1>12, <2>1, DocumentedStep
<1>20. Promised'
  <2>1. Undisturbed' = Undisturbed
      BY <1>12 DEF Undisturbed
  <2>2. ASSUME NEW f \in Outputs, file'[f].state \notin {"whole", "mixed"}, NEW g \in Handlers
        PROVE  (WillWrite(g, f) => WillWrite(g, f)') /\ (WillEnd(g, f) => WillEnd(g, f)')
    <3>1. CASE g # h
      <4>1. todo'[g] = todo[g] /\ handle'[g] = handle[g]
          BY <3>1, <1>5, <1>11 DEF Goes
      <4> QED BY <4>1, <1>12 DEF WillWrite, WillEnd, Writes, At, On, Working
    <3>2. CASE g = h
      <4> DEFINE b == <<"build", f>>
                 u == <<"unlink", DirOf(f)>>
                 s == Head(todo[h])
      <4>1. b[1] = "build" /\ u[1] = "unlink" /\ s[1] = "write"
          BY <1>1
      <4>2. Range(todo[h]) \subseteq {s} \cup Range(todo'[h])
          BY <1>5 DEF Goes
      <4> HIDE DEF b, u, s
      <4>3. (b \in Range(todo[h]) => b \in Range(todo'[h])) /\ (u \in Range(todo[h]) => u \in Range(todo'[h]))
          BY <4>1, <4>2
      <4>4. ~Writes(h, f)
        <5> SUFFICES ASSUME Writes(h, f) PROVE FALSE
            OBVIOUS
        <5>1. f = o /\ handle[h] = DirOf(f) /\ DirOf(f) # "cut"
            BY <1>3 DEF Writes, DirOf
        <5> QED BY <5>1, <1>14, <2>2
      <4> QED BY <3>2, <4>3, <4>4, <1>12 DEF WillWrite, WillEnd, b, u
    <3> QED BY <3>1, <3>2
  <2>3. {"script", "index"} \subseteq Outputs
      BY DEF Outputs
  <2>4. \A f \in Outputs : file'[f].state \in {"whole", "mixed"} \/ file'[f] = file[f]
      BY <1>14
  <2>5. ASSUME Undisturbed', NEW f \in {"script", "index"}
        PROVE  file'[f].state \in {"whole", "mixed"} \/ \E g \in Handlers : WillWrite(g, f)'
      BY <1>2, <2>1, <2>2, <2>3, <2>4, <2>5 DEF Promised
  <2>6. ASSUME Undisturbed', NEW f \in Outputs, file'[f].state = "empty"
        PROVE  \E g \in Handlers : WillEnd(g, f)'
      BY <1>2, <2>1, <2>2, <2>4, <2>6 DEF Promised
  <2> QED BY <2>5, <2>6 DEF Promised
<1>21. Holding' /\ Overlaps'
  <2>1. ASSUME NEW f \in Outputs, ~contended[h], Past(h, f)' PROVE HoldsOf(h, f)'
    <3>1. HoldsOf(h, f)
      <4> DEFINE b == <<"build", f>>
      <4>1. b[1] = "build"
          OBVIOUS
      <4> HIDE DEF b
      <4>2. Head(todo[h]) # b
          BY <1>1, <4>1
      <4>3. Past(h, f)
          BY <1>1, <1>4, <1>5, <2>1, <4>2, PastStep DEF b
      <4> QED BY <4>3, <2>1, <1>2 DEF Holding
    <3>2. BuiltFor(h, f)' = BuiltFor(h, f)
        BY <1>4 DEF BuiltFor, Built, Displayed
    <3>3. file'[f] = BuiltFor(h, f)
      <4>1. CASE f = o
        <5>1. file[o] = Empty /\ handle[h] = DirOf(o) /\ buf[h] = BuiltFor(h, o)
            BY <1>1, <1>3, <3>1, <4>1 DEF HoldsOf
        <5>2. DirOf(o) # "cut"
            BY DEF DirOf
        <5> QED BY <4>1, <5>1, <5>2, <1>14
      <4>2. CASE f # o
        <5>1. file[f] = BuiltFor(h, f)
            BY <1>3, <3>1, <4>2 DEF HoldsOf
        <5> QED BY <4>2, <5>1, <1>14
      <4> QED BY <4>1, <4>2
    <3> QED BY <3>2, <3>3, <1>8 DEF HoldsOf
  <2> QED BY <1>2, <1>5, <1>12, <2>1, OthersHold
<1> QED BY <1>15, <1>16, <1>17, <1>18, <1>19, <1>20, <1>21 DEF TreeInv

LEMMA AcceptStep ==
    ASSUME TreeInv, NEW h \in Handlers, NEW kind \in Kinds, NEW scope \in SUBSET Materials,
           NEW which \in Materials \cup {Nil}, Accept(h, kind, scope, which)
    PROVE  TreeInv'
PROOF
<1> DEFINE q == Asked(kind, scope, which)
<1>1. /\ TreeTypeOK /\ \A g \in Handlers : ShapeOf(g)
      /\ WasExtracted /\ Files /\ Documented /\ Promised /\ Overlaps /\ Holding
      BY DEF TreeInv
<1>2. /\ ~Working(h) /\ requests < MaxRequests /\ requests' = requests + 1
      /\ req' = [req EXCEPT ![h] = [kind |-> kind, scope |-> scope, target |-> which]]
      /\ todo' = [todo EXCEPT ![h] = q]
      /\ outcome' = [outcome EXCEPT ![h] = "none"] /\ served' = [served EXCEPT ![h] = Absent]
      /\ Nothing /\ UNCHANGED <<live, buf, handle, tree, fresh, spoiled>>
      BY DEF Accept, Asked
<1>3. contended' = [g \in Handlers |-> IF g = h THEN {k \in Handlers : Working(k)} # {}
                                       ELSE contended[g] \/ g \in {k \in Handlers : Working(k)}]
      BY DEF Accept
<1>4. kind \in AllKinds /\ (kind = "refine" => which \in Materials)
      BY KindsAreKnown DEF Accept, Course
<1>5. /\ Shape(q, kind, scope) /\ Block(q, 0, 7)
      /\ (\A s \in Range(q) : Phase(s) = 0) \/ (\E s \in Range(q) : Phase(s) = 1)
      /\ kind \in {"curated", "view"} => \E s \in Range(q) : Phase(s) = 1
      BY <1>4, ProgramShape
<1> HIDE DEF q
<1>6. q \in Seq(Steps) /\ (\A s \in Range(q) : s[1] \notin Pushed)
      BY <1>5 DEF Block
<1>7. q # <<>> => Head(q) \in Range(q)
      BY <1>6, RangeOfTail
<1>8. /\ todo'[h] = q /\ \A g \in Handlers : g # h => todo'[g] = todo[g]
      /\ req'[h] = [kind |-> kind, scope |-> scope, target |-> which]
      /\ \A g \in Handlers : g # h => req'[g] = req[g]
      BY <1>1, <1>2 DEF TreeTypeOK
<1>9. /\ stages' = stages /\ extracted' = extracted /\ latest' = latest /\ described' = described
      /\ dirs' = dirs /\ file' = file /\ improved' = improved /\ live' = live /\ buf' = buf
      /\ handle' = handle /\ tree' = tree /\ fresh' = fresh /\ spoiled' = spoiled
      BY <1>2 DEF Nothing
<1>10. ASSUME NEW name \in Pushed PROVE ~At(h, name) /\ ~At(h, name)'
      BY <1>2, <1>6, <1>7, <1>8 DEF At, Working
<1>11. /\ ~At(h, "write") /\ ~At(h, "saveDocuments")
       /\ ~At(h, "write")' /\ ~At(h, "reopen")' /\ ~At(h, "openDocuments")' /\ ~At(h, "saveDocuments")'
      BY <1>10 DEF Pushed
<1>12. todo[h] = <<>> /\ Range(todo[h]) = {}
      BY <1>2, EmptyBlock DEF Working
<1>13. TreeTypeOK'
  <2>1. req' \in [Handlers -> TreeRequests]
      BY <1>1, <1>2, <1>4 DEF TreeTypeOK, TreeRequests
  <2>2. requests' \in 0..MaxRequests
      BY <1>1, <1>2, BoundsAreNaturals DEF TreeTypeOK
  <2>3. todo' \in [Handlers -> Seq(Steps)]
      BY <1>1, <1>2, <1>6 DEF TreeTypeOK
  <2>4. served' \in [Handlers -> FileContent]
      BY <1>1, <1>2, Contents DEF TreeTypeOK
  <2>5. contended' \in [Handlers -> BOOLEAN]
      BY <1>1, <1>3 DEF TreeTypeOK
  <2>6. outcome' \in [Handlers -> {"none", "ok", "needs_review", "error"}]
      BY <1>1, <1>2 DEF TreeTypeOK
  <2> QED BY <1>1, <1>9, <2>1, <2>2, <2>3, <2>4, <2>5, <2>6 DEF TreeTypeOK
<1>14. \A g \in Handlers : ShapeOf(g)'
  <2> SUFFICES ASSUME NEW g \in Handlers PROVE ShapeOf(g)'
      OBVIOUS
  <2>1. CASE g = h
      BY <2>1, <1>5, <1>8 DEF ShapeOf
  <2>2. CASE g # h
      BY <2>2, <1>1, <1>8 DEF ShapeOf
  <2> QED BY <2>1, <2>2
<1>15. WasExtracted'
  <2>1. HasExtractedArtifacts' = HasExtractedArtifacts
      BY <1>9 DEF HasExtractedArtifacts
  <2>2. ASSUME NEW g \in Handlers PROVE ExtractedOf(g)'
    <3>1. CASE g = h
      <4>1. ~Checked(h)'
          BY <1>5, <1>8 DEF Checked
      <4>2. ExtractedOf(h)
          BY <1>1 DEF WasExtracted
      <4> QED BY <3>1, <4>1, <4>2, <2>1, <1>9 DEF ExtractedOf
    <3>2. CASE g # h
      <4>1. ExtractedOf(g) /\ todo'[g] = todo[g] /\ fresh' = fresh
          BY <1>1, <1>8, <1>9, <3>2 DEF WasExtracted
      <4> QED BY <2>1, <4>1 DEF ExtractedOf, Checked
    <3> QED BY <3>1, <3>2
  <2> QED BY <1>1, <1>9, <2>1, <2>2 DEF WasExtracted
<1>16. Files'
  <2>1. ASSUME NEW g \in Handlers PROVE WriterOf(g)'
    <3>1. CASE g = h
        BY <3>1, <1>11 DEF WriterOf
    <3>2. CASE g # h
      <4>1. todo'[g] = todo[g]
          BY <1>8, <3>2
      <4>2. /\ \A name : At(g, name)' <=> At(g, name)
            /\ On(g)' = On(g)
          BY <4>1 DEF At, On, Working
      <4>3. WriterOf(g)
          BY <1>1 DEF Files
      <4> QED BY <4>2, <4>3, <1>9 DEF WriterOf
    <3> QED BY <3>1, <3>2
  <2> QED BY <1>1, <1>9, <2>1 DEF Files
<1>17. Documented'
  <2>1. \A g \in Handlers : Saves(g)' <=> Saves(g)
    <3> SUFFICES ASSUME NEW g \in Handlers PROVE Saves(g)' <=> Saves(g)
        OBVIOUS
    <3>1. CASE g = h
        BY <3>1, <1>11 DEF Saves
    <3>2. CASE g # h
        BY <3>2, <1>8 DEF Saves, At, Working
    <3> QED BY <3>1, <3>2
  <2> QED BY <1>1, <1>9, <2>1 DEF Documented
<1>18. Promised'
  <2>1. ASSUME NEW g \in Handlers, NEW f \in Outputs
        PROVE  (WillWrite(g, f) => WillWrite(g, f)') /\ (WillEnd(g, f) => WillEnd(g, f)')
    <3>1. CASE g = h
      <4>1. ~Writes(h, f)
          BY <1>11 DEF Writes
      <4> QED BY <3>1, <4>1, <1>12 DEF WillWrite, WillEnd
    <3>2. CASE g # h
        BY <3>2, <1>8, <1>9 DEF WillWrite, WillEnd, Writes, At, On, Working
    <3> QED BY <3>1, <3>2
  <2>2. {"script", "index"} \subseteq Outputs
      BY DEF Outputs
  <2>3. Undisturbed' = Undisturbed
      BY <1>9 DEF Undisturbed
  <2> QED BY <1>1, <1>9, <2>1, <2>2, <2>3 DEF Promised
<1>19. \A g \in Handlers : g # h => (Working(g)' <=> Working(g))
      BY <1>8 DEF Working
<1>20. Overlaps'
  <2> SUFFICES ASSUME NEW g \in Handlers, NEW k \in Handlers, g # k, Working(g)', Working(k)'
               PROVE  contended'[k]
      BY DEF Overlaps
  <2>1. CASE k = h
      BY <2>1, <1>3, <1>19
  <2>2. CASE k # h
      BY <2>2, <1>3, <1>19
  <2> QED BY <2>1, <2>2
<1>21. Holding'
  <2> SUFFICES ASSUME NEW g \in Handlers, ~contended'[g], NEW f \in Outputs, Past(g, f)' PROVE FALSE
      BY DEF Holding
  <2>1. CASE g = h
    <3>1. kind \in {"curated", "view"} /\ \A s \in Range(q) : Phase(s) \notin 1..3
        BY <2>1, <1>8 DEF Past
    <3> QED BY <3>1, <1>5
  <2>2. CASE g # h
    <3>1. Working(g)
        BY <2>2, <1>19 DEF Past
    <3> QED BY <2>2, <3>1, <1>3
  <2> QED BY <2>1, <2>2
<1> QED BY <1>13, <1>14, <1>15, <1>16, <1>17, <1>18, <1>20, <1>21 DEF TreeInv

(* What the invariant says does not depend on what is in the course.      *)
Still ==
    /\ stages' = stages /\ extracted' = extracted /\ latest' = latest /\ described' = described
    /\ dirs' = dirs /\ file' = file /\ improved' = improved /\ requests' = requests
    /\ req' = req /\ todo' = todo /\ buf' = buf /\ handle' = handle /\ outcome' = outcome /\ served' = served
    /\ tree' = tree /\ fresh' = fresh /\ contended' = contended /\ spoiled' = spoiled

LEMMA StillStep ==
    ASSUME TreeInv, Still, live' \in [Materials -> 0..MaxVersion]
    PROVE  TreeInv'
PROOF
<1>1. /\ TreeTypeOK /\ \A g \in Handlers : ShapeOf(g)
      /\ WasExtracted /\ Files /\ Documented /\ Promised /\ Overlaps /\ Holding
      BY DEF TreeInv
<1>2. Still
      OBVIOUS
<1>3. TreeTypeOK'
      BY <1>1 DEF Still, TreeTypeOK
<1>4. /\ \A g \in Handlers : /\ ShapeOf(g)' <=> ShapeOf(g)
                             /\ Working(g)' <=> Working(g)
                             /\ \A name : At(g, name)' <=> At(g, name)
                             /\ On(g)' = On(g)
                             /\ Checked(g)' <=> Checked(g)
      /\ HasExtractedArtifacts' <=> HasExtractedArtifacts
      BY <1>2 DEF Still, ShapeOf, Working, At, On, Checked, HasExtractedArtifacts
<1>5. WasExtracted'
      BY <1>1, <1>2, <1>4 DEF Still, WasExtracted, ExtractedOf
<1>6. Files'
      BY <1>1, <1>2, <1>4 DEF Still, Files, WriterOf
<1>7. Documented'
      BY <1>1, <1>2, <1>4 DEF Still, Documented, Saves
<1>8. Promised'
  <2>1. Undisturbed' = Undisturbed
      BY <1>2 DEF Still, Undisturbed
  <2>2. ASSUME NEW g \in Handlers, NEW f \in Outputs
        PROVE  (WillWrite(g, f)' <=> WillWrite(g, f)) /\ (WillEnd(g, f)' <=> WillEnd(g, f))
      BY <1>2, <1>4 DEF Still, WillWrite, WillEnd, Writes
  <2>3. {"script", "index"} \subseteq Outputs
      BY DEF Outputs
  <2> QED BY <1>1, <1>2, <2>1, <2>2, <2>3 DEF Still, Promised
<1>9. Overlaps'
      BY <1>1, <1>2, <1>4 DEF Still, Overlaps
<1>10. Holding'
  <2>1. ASSUME NEW g \in Handlers, NEW f \in Outputs
        PROVE  (Past(g, f)' <=> Past(g, f)) /\ (HoldsOf(g, f)' <=> HoldsOf(g, f))
    <3>1. BuiltFor(g, f)' = BuiltFor(g, f)
        BY <1>2 DEF Still, BuiltFor, Built, Displayed
    <3> QED BY <1>2, <1>4, <3>1 DEF Still, Past, HoldsOf
  <2> QED BY <1>1, <1>2, <2>1 DEF Still, Holding
<1> QED BY <1>1, <1>3, <1>4, <1>5, <1>6, <1>7, <1>8, <1>9, <1>10 DEF TreeInv

LEMMA UploadStep ==
    ASSUME TreeInv, NEW m \in Materials, Upload(m) PROVE TreeInv'
PROOF
<1>1. live \in [Materials -> 0..MaxVersion] /\ live[m] < MaxVersion /\ live' = [live EXCEPT ![m] = live[m] + 1]
      BY DEF Upload, TreeInv, TreeTypeOK
<1>2. Still
      BY DEF Still, Upload, Nothing, handlerVars, treeHistory
<1>3. live' \in [Materials -> 0..MaxVersion]
  <2>1. live[m] + 1 \in 0..MaxVersion
      BY <1>1, BoundsAreNaturals
  <2> QED BY <1>1, <2>1
<1> QED BY <1>2, <1>3, StillStep

LEMMA TreeInvUnchanged == TreeInv /\ UNCHANGED treeVars => TreeInv'
PROOF
<1> SUFFICES ASSUME TreeInv, UNCHANGED treeVars PROVE TreeInv'
    OBVIOUS
<1>1. Still /\ live' = live
      BY DEF Still, treeVars, env, handlerVars, treeHistory
<1>2. live' \in [Materials -> 0..MaxVersion]
      BY <1>1 DEF TreeInv, TreeTypeOK
<1> QED BY <1>1, <1>2, StillStep

LEMMA TreeInvInit == TreeInit => TreeInv
PROOF
<1> SUFFICES ASSUME TreeInit PROVE TreeInv
    OBVIOUS
<1>1. /\ \A h \in Handlers : todo[h] = <<>> /\ fresh[h] = "no" /\ ~Working(h)
      /\ \A h \in Handlers : req[h].kind = "inventory"
      /\ tree = "unbuilt" /\ \A f \in Outputs : file[f] = Absent
      BY DEF TreeInit, Working
<1>2. Range(<<>>) = {}
      BY EmptyBlock
<1>3. /\ live \in [Materials -> 0..MaxVersion] /\ stages \subseteq {"inventory", "raw"}
      /\ extracted \in [Materials -> 0..MaxVersion \cup {Nil}]
      /\ latest \in FileContent /\ latest.state \in {"absent", "whole"}
  <2>1. 0 \in 0..MaxVersion /\ 1 \in 0..MaxVersion
      BY BoundsAreNaturals
  <2> DEFINE texts == [m \in Materials |-> [version |-> 1, style |-> "extracted"]]
  <2>2. texts \in Texts
      BY <2>1 DEF Texts, Text
  <2> HIDE DEF texts
  <2>3. Whole(texts) \in FileContent /\ Whole(texts).state = "whole" /\ Absent \in FileContent
      BY <2>2, Contents
  <2>4. /\ \/ live \in [Materials -> {0, 1}] \/ live = [m \in Materials |-> 1]
        /\ stages = {} \/ stages = {"raw"}
        /\ extracted = [m \in Materials |-> Nil] \/ extracted = [m \in Materials |-> 1]
        /\ latest = Absent \/ latest = Whole(texts)
      BY DEF TreeInit, texts
  <2>5. live \in [Materials -> 0..MaxVersion]
    <3>1. CASE live \in [Materials -> {0, 1}]
        BY <2>1, <3>1
    <3>2. CASE live = [m \in Materials |-> 1]
        BY <2>1, <3>2
    <3> QED BY <2>4, <3>1, <3>2
  <2>6. extracted \in [Materials -> 0..MaxVersion \cup {Nil}]
    <3>1. CASE extracted = [m \in Materials |-> Nil]
        BY <3>1
    <3>2. CASE extracted = [m \in Materials |-> 1]
        BY <2>1, <3>2
    <3> QED BY <2>4, <3>1, <3>2
  <2>7. Absent.state = "absent"
      BY Contents
  <2>8. stages \subseteq {"inventory", "raw"}
      BY <2>4
  <2> QED BY <2>3, <2>4, <2>5, <2>6, <2>7, <2>8
<1>4. TreeTypeOK
  <2>0. /\ requests = 0 /\ described = FALSE /\ dirs = {} /\ improved = NoTexts
        /\ file = [f \in Outputs |-> Absent] /\ Absent \in FileContent /\ NoTexts \in Texts
      BY Contents DEF TreeInit
  <2>1. /\ requests \in 0..MaxRequests /\ described \in BOOLEAN /\ dirs \subseteq {"script", "tasks"}
        /\ file \in [Outputs -> FileContent] /\ improved \in Texts
    <3>1. 0 \in 0..MaxRequests
        BY BoundsAreNaturals
    <3> QED BY <2>0, <3>1
  <2>2. /\ req \in [Handlers -> TreeRequests]
        /\ buf \in [Handlers -> FileContent] /\ served \in [Handlers -> FileContent]
      BY Contents DEF TreeInit, TreeRequests, AllKinds
  <2>3. todo \in [Handlers -> Seq(Steps)]
    <3>1. <<>> \in Seq(Steps)
        BY EmptySeq
    <3> QED BY <3>1 DEF TreeInit
  <2>4. /\ handle \in [Handlers -> {"none", "script", "tasks", "cut"}]
        /\ outcome \in [Handlers -> {"none", "ok", "needs_review", "error"}]
        /\ fresh \in [Handlers -> {"no", "fresh", "stale"}] /\ contended \in [Handlers -> BOOLEAN]
        /\ tree \in {"unbuilt", "built", "broken"} /\ spoiled \in BOOLEAN
      BY DEF TreeInit
  <2> QED BY <1>3, <2>1, <2>2, <2>3, <2>4 DEF TreeTypeOK
<1>5. ASSUME NEW h \in Handlers PROVE ShapeOf(h)
  <2>1. Shape(<<>>, req[h].kind, req[h].scope)
    <3>1. req[h].kind \notin {"curated", "view"} /\ \A s \in Range(<<>>) : s[1] = "load" => req[h].kind = "documents"
        BY <1>1, <1>2
    <3> QED BY <3>1, EmptyBlock, ShapeOfPlain
  <2> QED BY <1>1, <2>1 DEF ShapeOf
<1>6. WasExtracted
      BY <1>1, <1>2 DEF WasExtracted, ExtractedOf, Checked
<1>7. Files /\ Documented
      BY <1>1, <1>3, Contents DEF Files, WriterOf, Documented, Saves, At
<1>8. Promised
      BY <1>1 DEF Promised, Undisturbed
<1>9. Overlaps /\ Holding
      BY <1>1 DEF Overlaps, Holding, Past
<1> QED BY <1>4, <1>5, <1>6, <1>7, <1>8, <1>9 DEF TreeInv


LEMMA TreeInvNext == TreeInv /\ [TreeNext]_treeVars => TreeInv'
PROOF
<1> SUFFICES ASSUME TreeInv, [TreeNext]_treeVars PROVE TreeInv'
    OBVIOUS
<1>1. ASSUME NEW h \in Handlers, NEW kind \in Kinds, NEW scope \in SUBSET Materials,
             NEW which \in Materials \cup {Nil}, Accept(h, kind, scope, which)
      PROVE  TreeInv'
      BY <1>1, AcceptStep
<1>2. ASSUME NEW h \in Handlers, Work(h) PROVE TreeInv'
  <2>1. CASE WriteStage(h) \/ Extract(h) \/ Documents(h) \/ OpenDocuments(h) \/ SaveDocuments(h) \/ LoadDocuments(h)
      BY <2>1, WriteStageStep, ExtractStep, DocumentsStep, OpenDocumentsStep, SaveDocumentsStep, LoadDocumentsStep
  <2>2. CASE Check(h) \/ Unlink(h) \/ RemoveDir(h) \/ MakeDir(h) \/ Open(h) \/ Write(h)
      BY <2>2, CheckStep, UnlinkStep, RemoveDirStep, MakeDirStep, OpenStep, WriteStep
  <2>3. CASE Hook(h) \/ ReadBack(h) \/ Rebuilt(h) \/ Assemble(h) \/ Serve(h) \/ Refine(h) \/ Improve(h)
      BY <2>3, HookStep, ReadBackStep, RebuiltStep, AssembleStep, ServeStep, RefineStep, ImproveStep
  <2> QED BY <1>2, <2>1, <2>2, <2>3 DEF Work
<1>3. ASSUME NEW h \in Handlers, Fails(h) PROVE TreeInv'
      BY <1>3, FailsStep
<1>4. CASE Crash
      BY <1>4, CrashStep
<1>5. ASSUME NEW m \in Materials, Upload(m) PROVE TreeInv'
      BY <1>5, UploadStep
<1>6. CASE UNCHANGED treeVars
      BY <1>6, TreeInvUnchanged
<1> QED BY <1>1, <1>2, <1>3, <1>4, <1>5, <1>6 DEF TreeNext

(* The strengthening of the properties below is invariant.                 *)
THEOREM TreeInvariance == TreeSpec => []TreeInv
PROOF
<1> QED BY TreeInvInit, TreeInvNext, PTL DEF TreeSpec

(* The state of the artifact tree keeps its type.                          *)
THEOREM TreeTypeCorrect == TreeSpec => []TreeTypeOK
PROOF
<1>1. TreeInv => TreeTypeOK
      BY DEF TreeInv
<1> QED BY <1>1, TreeInvariance, PTL

(* However many rebuilds overlapped, once the last of them has returned    *)
(* and none has failed since, the curated files are all there.             *)
THEOREM RebuildsAreComplete == TreeSpec => []CompleteWhenQuiet
PROOF
<1>1. TreeInv => CompleteWhenQuiet
  <2> SUFFICES ASSUME TreeInv, Quiet, tree = "built"
               PROVE  /\ dirs = {"script", "tasks"}
                      /\ \A f \in {"script", "index"} : file[f].state \in {"whole", "mixed"}
                      /\ \A f \in Outputs : file[f].state # "empty"
                      /\ Status = "curated"
      BY DEF CompleteWhenQuiet
  <2>1. TreeTypeOK /\ WasExtracted /\ Files /\ Promised
      BY DEF TreeInv
  <2>2. ASSUME NEW h \in Handlers, NEW f PROVE ~WillWrite(h, f) /\ ~WillEnd(h, f)
    <3>1. todo[h] = <<>> /\ Range(todo[h]) = {} /\ ~At(h, "write")
        BY EmptyBlock DEF Quiet, Working, At
    <3> QED BY <3>1 DEF WillWrite, WillEnd, Writes
  <2>3. /\ \A f \in {"script", "index"} : file[f].state \in {"whole", "mixed"}
        /\ \A f \in Outputs : file[f].state # "empty"
      BY <2>1, <2>2 DEF Promised, Undisturbed
  <2>4. dirs = {"script", "tasks"}
    <3>1. {"script", "index"} \subseteq Outputs /\ DirOf("script") = "script" /\ DirOf("index") = "tasks"
        BY DEF Outputs, DirOf
    <3> QED BY <2>1, <2>3, <3>1 DEF Files, TreeTypeOK
  <2>5. Status = "curated"
      BY <2>1, <2>3 DEF Status, WasExtracted
  <2> QED BY <2>3, <2>4, <2>5
<1> QED BY <1>1, TreeInvariance, PTL

(* The latest documents can be read when nobody writes them, unless their  *)
(* writer was cut off or was not alone.                                    *)
THEOREM DocumentsAreReadable == TreeSpec => []DocumentsReadableWhenQuiet
PROOF
<1>1. TreeInv => DocumentsReadableWhenQuiet
  <2> SUFFICES ASSUME TreeInv, Quiet, latest.state \in {"empty", "mixed"} PROVE spoiled
      BY DEF DocumentsReadableWhenQuiet
  <2>1. Documented
      BY DEF TreeInv
  <2>2. \A h \in Handlers : ~Saves(h)
      BY DEF Quiet, Saves, At
  <2> QED BY <2>1, <2>2 DEF Documented
<1> QED BY <1>1, TreeInvariance, PTL

(* At the end of a request that nothing overlapped, its files show what    *)
(* they were built from.                                                   *)
LEMMA BuiltAtTheEnd ==
    ASSUME TreeInv, NEW h \in Handlers, At(h, "assemble") \/ At(h, "serve"), ~contended[h],
           NEW f \in Outputs, f \in OutputSet(req[h].scope)
    PROVE  /\ file[f] = BuiltFor(h, f) /\ file[f].state = "whole"
           /\ \A m \in Materials : m \in req[h].scope /\ OutputOf(m) = f => file[f].shows[m] = Displayed(m)
PROOF
<1>1. /\ ShapeOf(h) /\ Holding /\ Working(h) /\ todo[h] # <<>>
      /\ Head(todo[h])[1] \in {"assemble", "serve"}
      BY DEF TreeInv, At, Working
<1>2. /\ Shape(todo[h], req[h].kind, req[h].scope)
      /\ Head(todo[h]) \in Steps /\ Head(todo[h]) \in Range(todo[h])
      BY <1>1, AtIs DEF ShapeOf
<1>3. Phase(Head(todo[h])) = 7
      BY <1>1, <1>2, PhaseFacts
<1>4. /\ Range(todo[h]) = {Head(todo[h])} \cup Range(Tail(todo[h])) /\ Range(todo[h]) \subseteq Steps
      /\ \A s \in Range(Tail(todo[h])) : Phase(Head(todo[h])) <= Phase(s)
      BY <1>1, <1>2, TailShape
<1>5. ASSUME NEW s \in Range(todo[h]) PROVE Phase(s) = 7 /\ s[1] \notin {"extract", "build"}
  <2>1. s \in Steps /\ Phase(s) \in 0..7 /\ 7 <= Phase(s)
      BY <1>3, <1>4, PhaseFacts
  <2>2. Phase(s) = 7
      BY <2>1
  <2> QED BY <2>1, <2>2, PhaseFacts
<1>6. req[h].kind \in {"curated", "view"}
      BY <1>1, <1>2 DEF Shape, Fitting
<1>7. Past(h, f)
  <2>1. ASSUME NEW s \in Range(todo[h]) PROVE s # <<"build", f>>
    <3> DEFINE b == <<"build", f>>
    <3>1. b[1] = "build"
        OBVIOUS
    <3> HIDE DEF b
    <3>2. s # b
        BY <1>5, <3>1
    <3> QED BY <3>2 DEF b
  <2> QED BY <1>1, <1>5, <1>6, <2>1 DEF Past
<1>8. HoldsOf(h, f) /\ ~At(h, "write")
      BY <1>1, <1>7 DEF Holding, At
<1>9. file[f] = BuiltFor(h, f)
      BY <1>8 DEF HoldsOf
<1>10. BuiltFor(h, f).state = "whole" /\ BuiltFor(h, f).shows = Built(f, req[h].scope)
      BY Contents DEF BuiltFor
<1>11. \A m \in Materials : m \in req[h].scope /\ OutputOf(m) = f => Built(f, req[h].scope)[m] = Displayed(m)
      BY DEF Built
<1> QED BY <1>9, <1>10, <1>11

(* What a step does to how requests ended, and to what was answered.       *)
LEMMA AnswersStep ==
    ASSUME TreeInv, [TreeNext]_treeVars, NEW h \in Handlers
    PROVE  /\ outcome'[h] \in {outcome[h], "none", "ok", "error"} \/ Assemble(h)
           /\ served'[h] \in {served[h], Absent} \/ Serve(h)
PROOF
<1>1. outcome \in [Handlers -> {"none", "ok", "needs_review", "error"}] /\ served \in [Handlers -> FileContent]
      BY DEF TreeInv, TreeTypeOK
<1>2. ASSUME NEW g \in Handlers, StepOrEnd(g) PROVE outcome'[h] \in {outcome[h], "ok"}
      BY <1>1, <1>2 DEF StepOrEnd, End
<1>3. ASSUME NEW G, Abandon(G) PROVE outcome'[h] \in {outcome[h], "error"} /\ served'[h] = served[h]
      BY <1>1, <1>3 DEF Abandon
<1>4. ASSUME NEW g \in Handlers, NEW kind, NEW scope, NEW which, Accept(g, kind, scope, which)
      PROVE  outcome'[h] \in {outcome[h], "none"} /\ served'[h] \in {served[h], Absent}
      BY <1>1, <1>4 DEF Accept
<1>5. ASSUME NEW g \in Handlers, Work(g)
      PROVE  /\ outcome'[h] \in {outcome[h], "ok", "error"} \/ Assemble(h)
             /\ served'[h] = served[h] \/ Serve(h)
  <2>1. CASE WriteStage(g) \/ Extract(g) \/ SaveDocuments(g) \/ Improve(g)
      BY <1>2, <2>1 DEF WriteStage, Extract, SaveDocuments, Improve
  <2>2. CASE Documents(g) \/ OpenDocuments(g)
      BY <2>2 DEF Documents, OpenDocuments
  <2>3. CASE LoadDocuments(g)
      BY <1>2, <1>3, <2>3 DEF LoadDocuments
  <2>4. CASE Check(g) \/ RemoveDir(g) \/ Open(g) \/ Refine(g)
      BY <1>3, <2>4 DEF Check, RemoveDir, Open, Refine
  <2>5. CASE Unlink(g) \/ MakeDir(g) \/ Write(g) \/ Hook(g) \/ ReadBack(g)
      BY <2>5 DEF Unlink, MakeDir, Write, Hook, ReadBack
  <2>6. CASE Rebuilt(g)
      BY <1>2, <2>6 DEF Rebuilt
  <2>7. CASE Serve(g)
    <3>1. outcome'[h] \in {outcome[h], "ok"}
        BY <1>2, <2>7 DEF Serve
    <3>2. g # h => served'[h] = served[h]
        BY <1>1, <2>7 DEF Serve
    <3> QED BY <2>7, <3>1, <3>2
  <2>8. CASE Assemble(g)
    <3>1. CASE Abandon({g})
        BY <1>3, <3>1
    <3>2. CASE ~Abandon({g})
      <4>1. served' = served
          BY <2>8, <3>2 DEF Assemble
      <4>2. outcome' = outcome \/ End(g, "ok") \/ End(g, "needs_review")
          BY <2>8, <3>2 DEF Assemble
      <4>3. g # h => outcome'[h] = outcome[h]
          BY <1>1, <4>2 DEF End
      <4> QED BY <2>8, <4>1, <4>3
    <3> QED BY <3>1, <3>2
  <2> QED BY <1>5, <2>1, <2>2, <2>3, <2>4, <2>5, <2>6, <2>7, <2>8 DEF Work
<1>6. CASE Crash \/ (\E m \in Materials : Upload(m)) \/ UNCHANGED treeVars
      BY <1>3, <1>6 DEF Crash, Upload, treeVars, handlerVars
<1>7. ASSUME NEW g \in Handlers, Fails(g)
      PROVE  outcome'[h] \in {outcome[h], "error"} /\ served'[h] = served[h]
      BY <1>3, <1>7 DEF Fails
<1> QED BY <1>4, <1>5, <1>6, <1>7 DEF TreeNext

(* A curation that nothing overlapped asks for review only if its texts    *)
(* were rewritten, or changed after the documents were described.          *)
THEOREM ReviewsForCause == TreeSpec => NeedsReviewForCause
PROOF
<1>1. ASSUME TreeInv, [TreeNext]_treeVars PROVE \A h \in Handlers : ReviewHasCause(h)
  <2> SUFFICES ASSUME NEW h \in Handlers, outcome'[h] = "needs_review", outcome[h] # "needs_review", ~contended[h],
                      ~ \A m \in req[h].scope : latest.shows[m] = Nil
               PROVE  \E m \in req[h].scope :
                        /\ latest.shows[m] # Nil
                        /\ \/ Displayed(m) = Nil
                           \/ Displayed(m).style # "extracted"
                           \/ Displayed(m).version # latest.shows[m].version
      BY DEF ReviewHasCause
  <2>0. outcome'[h] = "needs_review" /\ outcome[h] # "needs_review"
      OBVIOUS
  <2>1. Assemble(h) /\ At(h, "assemble")
    <3>1. Assemble(h)
        BY <1>1, AnswersStep
    <3> QED BY <3>1 DEF Assemble
  <2>2. outcome \in [Handlers -> {"none", "ok", "needs_review", "error"}] /\ req[h].scope \subseteq Materials
      BY <1>1 DEF TreeInv, TreeTypeOK, TreeRequests
  <2>3. ~Complete(h)
    <3>1. ASSUME NEW how \in {"ok", "error"}, outcome'[h] = how PROVE FALSE
        BY <3>1, <2>0
    <3>2. ~End(h, "ok") /\ ~Abandon({h}) /\ ~UNCHANGED outcome
        BY <2>2, <2>0, <3>1 DEF End, Abandon
    <3> QED BY <2>1, <3>2 DEF Assemble
  <2>4. PICK m \in req[h].scope : latest.shows[m] # Nil /\ ~Represented(m)
      BY <2>3 DEF Complete, Accounted
  <2>5. file[OutputOf(m)].shows[m] = Displayed(m)
    <3>1. m \in Materials
        BY <2>2
    <3>2. PICK f \in Outputs : f = OutputOf(m) /\ f \in OutputSet(req[h].scope)
        BY <3>1 DEF OutputOf, OutputSet, Outputs, Materials
    <3> QED BY <1>1, <2>1, <3>1, <3>2, BuiltAtTheEnd
  <2>6. Displayed(m) = Nil \/ Displayed(m).style # "extracted" \/ Displayed(m).version # latest.shows[m].version
      BY <2>4, <2>5 DEF Represented
  <2> QED BY <2>4, <2>6
<1> QED BY <1>1, TreeInvariance, PTL DEF TreeSpec, NeedsReviewForCause

(* A reader that nothing overlapped gets a whole script with every slide   *)
(* that there is a text of.                                                *)
THEOREM ScriptsAreComplete == TreeSpec => ServedScriptIsComplete
PROOF
<1>1. ASSUME TreeInv, [TreeNext]_treeVars PROVE \A h \in Handlers : AnswerIsComplete(h)
  <2> SUFFICES ASSUME NEW h \in Handlers, served'[h] # served[h], served'[h] # Absent, ~contended[h]
               PROVE  /\ served'[h].state = "whole"
                      /\ \A m \in Slides \cap req[h].scope :
                           served'[h].shows[m] = Nil => extracted[m] = Nil /\ improved[m] = Nil
      BY DEF AnswerIsComplete
  <2>1. Serve(h) /\ At(h, "serve")
    <3>1. Serve(h)
        BY <1>1, AnswersStep
    <3> QED BY <3>1 DEF Serve
  <2>2. served \in [Handlers -> FileContent] /\ TreeTypeOK
      BY <1>1 DEF TreeInv, TreeTypeOK
  <2>3. served'[h] = IF file["script"].state = "absent" THEN Whole(Built("script", req[h].scope)) ELSE file["script"]
      BY <2>1, <2>2 DEF Serve
  <2>4. "script" \in Outputs /\ "script" \in OutputSet(req[h].scope)
      BY DEF Outputs, OutputSet
  <2>5. /\ file["script"].state = "whole"
        /\ \A m \in Materials : m \in req[h].scope /\ OutputOf(m) = "script" => file["script"].shows[m] = Displayed(m)
      BY <1>1, <2>1, <2>4, BuiltAtTheEnd
  <2>6. served'[h] = file["script"]
      BY <2>3, <2>5
  <2>7. \A m \in Slides : m \in Materials /\ OutputOf(m) = "script"
      BY DEF Materials, OutputOf
  <2> QED BY <2>2, <2>5, <2>6, <2>7, DisplayedType
<1> QED BY <1>1, TreeInvariance, PTL DEF TreeSpec, ServedScriptIsComplete
=============================================================================
