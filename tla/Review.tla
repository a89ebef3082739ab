------------------------------- MODULE Review -------------------------------
(***************************************************************************)
(* internal/store/study_pipeline_review.go with its handlers in            *)
(* api/materials.go: feedback on a course's material and proposals for it, *)
(* and their review.  A moderation is one transaction that sets a row's    *)
(* status and writes an audit event; creating a row and submitting a       *)
(* proposal are single statements and are not audited.  No operation looks *)
(* at the earlier status: what is dismissed can be promoted, resolved or   *)
(* submitted again.  A listing of a course is three queries without a      *)
(* common snapshot: feedback, proposals, events.                           *)
(*                                                                         *)
(* An event's created_at is the time its transaction began, and events are *)
(* listed by it: a transaction that waited for its row commits after one   *)
(* that began later.  Abstracted: the text of a row and what it refers to; *)
(* the trim of the parameters; the users, whom no statement looks at.  The *)
(* database's clock does not run backwards.                                *)
(***************************************************************************)
EXTENDS Integers, FiniteSets

CONSTANTS Requests, Ids, Courses, None,
          Limit \* the most events a listing shows

VARIABLES rows,   \* tables study_pipeline_feedback and _proposals, by id
          audit,  \* table study_pipeline_audit_events
          clock,
          began,  \* when the transaction of a request began
          ended,  \* when it was committed
          locked, \* the request whose transaction holds the row
          ask,    \* what a request asks for
          pc, reply,
          seen,   \* the rows a listing has read
          shown   \* the events a listing has read

vars == <<rows, audit, clock, began, ended, locked, ask, pc, reply, seen, shown>>

Kinds == {"feedback", "proposal"}
Statuses == {"open", "private", "submitted_for_review", "resolved", "promoted", "dismissed"}
Row == [kind : Kinds, course : Courses, status : Statuses, submitted : BOOLEAN]
Event == [by : Requests, id : Ids \cup {None}, course : Courses, status : Statuses, at : Nat]
Ask == [op : {"none", "record", "submit", "moderate", "publish", "list"}, id : Ids \cup {None},
        kind : Kinds \cup {"none"}, status : Statuses \cup {"none"}, course : Courses \cup {None}]

(* The status a moderation sets, by the kind of the row.                   *)
Moderation(kind) == {"dismissed", IF kind = "feedback" THEN "resolved" ELSE "promoted"}
Initial(kind) == IF kind = "feedback" THEN "open" ELSE "private"
NoAsk == [op |-> "none", id |-> None, kind |-> "none", status |-> "none", course |-> None]

Answer(r, a) == pc' = [pc EXCEPT ![r] = "done"] /\ reply' = [reply EXCEPT ![r] = a]

(* An answer to what was committed: the acknowledgement may get lost, and  *)
(* the caller is told of an error.                                         *)
Committed(r) == \E a \in {"ok", "lost"} : Answer(r, a)

Init ==
    /\ rows = [i \in Ids |-> None] /\ audit = {} /\ locked = [i \in Ids |-> None]
    /\ clock = 0 /\ began = [r \in Requests |-> 0] /\ ended = [r \in Requests |-> 0]
    /\ ask = [r \in Requests |-> NoAsk]
    /\ pc = [r \in Requests |-> "idle"] /\ reply = [r \in Requests |-> "none"]
    /\ seen = [r \in Requests |-> [i \in Ids |-> None]]
    /\ shown = [r \in Requests |-> {}]

(* A request is refused for its method, its body or a parameter, for want  *)
(* of a store, or because its statement fails.                             *)
Refuse(r) ==
    /\ pc[r] = "idle"
    /\ Answer(r, "error")
    /\ UNCHANGED <<rows, audit, clock, began, ended, locked, ask>>

Asks(r, op, i, kind, s, c) ==
    /\ pc[r] = "idle"
    /\ ask' = [ask EXCEPT ![r] = [op |-> op, id |-> i, kind |-> kind, status |-> s, course |-> c]]

(* Feedback, or a proposal: of a user, or by a refinement that succeeded   *)
(* and does not look at how the recording ends.                            *)
Record(r, i, kind, c) ==
    /\ Asks(r, "record", i, kind, Initial(kind), c)
    /\ rows[i] = None
    /\ rows' = [rows EXCEPT ![i] = [kind |-> kind, course |-> c, status |-> Initial(kind), submitted |-> FALSE]]
    /\ Committed(r)
    /\ UNCHANGED <<audit, clock, began, ended, locked>>

(* "update ... where id = $1 and course_id = $2", of one of the tables.    *)
Matches(i, kind, c) == rows[i] # None /\ rows[i].kind = kind /\ rows[i].course = c

Set(i, s, submitted) ==
    rows' = [rows EXCEPT ![i] =
                [kind |-> rows[i].kind, course |-> rows[i].course, status |-> s, submitted |-> submitted]]

Submit(r, i, c) ==
    /\ Asks(r, "submit", i, "proposal", "submitted_for_review", c)
    /\ Matches(i, "proposal", c) /\ locked[i] = None
    /\ Set(i, "submitted_for_review", TRUE)
    /\ Committed(r)
    /\ UNCHANGED <<audit, clock, began, ended, locked>>

(* setStudyPipelineProposalStatus, setStudyPipelineFeedbackStatus: the     *)
(* transaction begins, maybe at the same instant as another;               *)
Begin(r, i, kind, s, c) ==
    /\ Asks(r, "moderate", i, kind, s, c)
    /\ s \in Moderation(kind)
    /\ clock' \in {clock, clock + 1}
    /\ began' = [began EXCEPT ![r] = clock']
    /\ pc' = [pc EXCEPT ![r] = "begun"]
    /\ UNCHANGED <<rows, audit, ended, locked, reply>>

(* the row is updated, once no other open transaction has updated it;      *)
Update(r) ==
    LET i == ask[r].id
    IN  /\ pc[r] = "begun"
        /\ Matches(i, ask[r].kind, ask[r].course) /\ locked[i] = None
        /\ locked' = [locked EXCEPT ![i] = r]
        /\ pc' = [pc EXCEPT ![r] = "updated"]
        /\ UNCHANGED <<rows, audit, clock, began, ended, ask, reply>>

(* the event is inserted;                                                  *)
InsertAudit(r) ==
    /\ pc[r] = "updated"
    /\ pc' = [pc EXCEPT ![r] = "audited"]
    /\ UNCHANGED <<rows, audit, clock, began, ended, locked, ask, reply>>

(* both are committed, and the row can be updated by others;               *)
Commit(r) ==
    LET i == ask[r].id
    IN  /\ pc[r] = "audited"
        /\ Set(i, ask[r].status, rows[i].submitted)
        /\ audit' = audit \cup {[by |-> r, id |-> i, course |-> ask[r].course, status |-> ask[r].status, at |-> began[r]]}
        /\ locked' = [locked EXCEPT ![i] = None]
        /\ clock' = clock + 1
        /\ ended' = [ended EXCEPT ![r] = clock']
        /\ Committed(r)
        /\ UNCHANGED <<began, ask>>

(* or there is no such row, a statement fails or the process dies, and     *)
(* neither is there.                                                       *)
Abort(r) ==
    /\ pc[r] \in {"begun", "updated", "audited"}
    /\ locked' = [i \in Ids |-> IF locked[i] = r THEN None ELSE locked[i]]
    /\ Answer(r, "error")
    /\ UNCHANGED <<rows, audit, clock, began, ended, ask>>

(* PublishStudyPipelineRun and UnpublishStudyPipelineRun, in one step: the *)
(* event, of no row here, is in the same table and takes a place in the    *)
(* course's listings.                                                      *)
Publish(r, c) ==
    /\ Asks(r, "publish", None, "none", "none", c)
    /\ \E t \in 0..clock :
           audit' = audit \cup {[by |-> r, id |-> None, course |-> c, status |-> "promoted", at |-> t]}
    /\ Committed(r)
    /\ UNCHANGED <<rows, clock, began, ended, locked>>

InCourse(i, c) == rows[i] # None /\ rows[i].course = c

(* What a query for the course's rows of one table adds to what was read.  *)
Reads(r, kind, c) ==
    seen' = [seen EXCEPT ![r] =
                [i \in Ids |-> IF InCourse(i, c) /\ rows[i].kind = kind THEN rows[i] ELSE seen[r][i]]]

(* ListStudyPipelineReview: the course's feedback,                         *)
ListFeedback(r, c) ==
    /\ pc[r] = "idle"
    /\ ask' = [ask EXCEPT ![r] = [op |-> "list", id |-> None, kind |-> "none", status |-> "none", course |-> c]]
    /\ pc' = [pc EXCEPT ![r] = "feedback"]
    /\ Reads(r, "feedback", c)
    /\ UNCHANGED <<rows, audit, clock, began, ended, locked, reply, shown>>

(* its proposals,                                                          *)
ListProposals(r) ==
    /\ pc[r] = "feedback"
    /\ pc' = [pc EXCEPT ![r] = "proposals"]
    /\ Reads(r, "proposal", ask[r].course)
    /\ UNCHANGED <<rows, audit, clock, began, ended, locked, ask, reply, shown>>

Full(page) == Cardinality(page) = Limit

(* "order by created_at desc, id desc limit": the latest of some events,   *)
(* in any order among those of one instant, whose ids are random.          *)
Latest(page, events) ==
    /\ page \subseteq events
    /\ page # events => Full(page)
    /\ Cardinality(page) <= Limit
    /\ \A e \in page, f \in events \ page : f.at <= e.at

(* and its events.                                                         *)
ListAudit(r) ==
    /\ pc[r] = "proposals"
    /\ \E page \in SUBSET audit :
           /\ Latest(page, {e \in audit : e.course = ask[r].course})
           /\ shown' = [shown EXCEPT ![r] = page]
    /\ Answer(r, "ok")
    /\ UNCHANGED <<rows, audit, clock, began, ended, locked, ask, seen>>

(* A query fails.                                                          *)
ListFails(r) ==
    /\ pc[r] \in {"feedback", "proposals"}
    /\ Answer(r, "error")
    /\ UNCHANGED <<rows, audit, clock, began, ended, locked, ask, seen, shown>>

Changes(r) ==
    /\ \/ Refuse(r) \/ Update(r) \/ InsertAudit(r) \/ Commit(r) \/ Abort(r)
       \/ \E c \in Courses : Publish(r, c)
       \/ \E i \in Ids, c \in Courses :
              \/ Submit(r, i, c)
              \/ \E kind \in Kinds : Record(r, i, kind, c) \/ \E s \in Moderation(kind) : Begin(r, i, kind, s, c)
    /\ UNCHANGED <<seen, shown>>

Lists(r) == ListProposals(r) \/ ListAudit(r) \/ ListFails(r) \/ \E c \in Courses : ListFeedback(r, c)

Next == \E r \in Requests : Changes(r) \/ Lists(r)

Spec == Init /\ [][Next]_vars

-----------------------------------------------------------------------------
(* Properties *)

(* Every variable keeps its type.                                          *)
TypeOK ==
    /\ rows \in [Ids -> Row \cup {None}]
    /\ audit \subseteq Event
    /\ clock \in Nat /\ began \in [Requests -> Nat] /\ ended \in [Requests -> Nat]
    /\ locked \in [Ids -> Requests \cup {None}]
    /\ ask \in [Requests -> Ask]
    /\ pc \in [Requests -> {"idle", "begun", "updated", "audited", "feedback", "proposals", "done"}]
    /\ reply \in [Requests -> {"none", "ok", "lost", "error"}]
    /\ seen \in [Requests -> [Ids -> Row \cup {None}]]
    /\ shown \in [Requests -> SUBSET Event]

EventsOf(i) == {e \in audit : e.id = i}

(* The moderation behind f ran while the one behind e was open.            *)
Within(f, e) == e.at <= f.at /\ ended[f.by] < ended[e.by]

Audited(i) ==
    LET row == rows[i]
    IN  IF row = None \/ row.status = Initial(row.kind) THEN EventsOf(i) = {}
        ELSE IF row.status = "submitted_for_review" THEN row.kind = "proposal" /\ row.submitted
        ELSE \E e \in EventsOf(i) :
                 /\ e.status = row.status /\ row.status \in Moderation(row.kind)
                 /\ \A f \in EventsOf(i) \ {e} : f.at < e.at \/ Within(f, e)

(* The audit tells where a row stands: a row that was promoted, dismissed  *)
(* or resolved has this as its latest event, by the times events are       *)
(* listed by, or below events of moderations that ran while this one was   *)
(* open and waited for the row; a row in its initial status was never      *)
(* moderated; only a proposal that was submitted again, which no event     *)
(* tells, stands elsewhere.                                                *)
StatusIsAudited == \A i \in Ids : Audited(i)

Moderated(r) == ask[r].op = "moderate" /\ reply[r] \in {"ok", "lost"}
Tells(e) ==
    /\ Moderated(e.by) /\ ask[e.by].id = e.id /\ ask[e.by].status = e.status /\ ask[e.by].course = e.course
    /\ rows[e.id] # None /\ rows[e.id].course = e.course /\ rows[e.id].kind = ask[e.by].kind

(* An event of a row is there if, and only if, a moderation of this row by *)
(* a request for the row's course was answered with ok or committed with   *)
(* its acknowledgement lost, and it is there once: an error that was not   *)
(* such a loss left nothing behind.                                        *)
TrailIsTruthful ==
    /\ \A e \in audit : e.id # None => Tells(e)
    /\ \A e, f \in audit : e.by = f.by => e = f
    /\ \A r \in Requests : Moderated(r) => \E e \in audit : e.by = r

Stays(i) ==
    rows[i] # None => /\ rows'[i] # None /\ rows'[i].kind = rows[i].kind /\ rows'[i].course = rows[i].course
                      /\ rows[i].submitted => rows'[i].submitted

(* A row stays in its course and its table, a submission is not forgotten, *)
(* and events are only added: no operation undoes another one's traces.    *)
NothingIsUndone == [][audit \subseteq audit' /\ \A i \in Ids : Stays(i)]_vars

(* Of some events, one is of the row and tells its status, or could not be *)
(* among them, with as many later ones as a listing shows.                 *)
Backs(e, i, row) == e.id = i /\ e.status = row.status
Backed(i, row, page) ==
    row.status \in Moderation(row.kind) =>
        \E e \in audit :
            /\ Backs(e, i, row)
            /\ \/ e \in page
               \/ Full(page) /\ \A f \in page : e.at <= f.at

(* A listing reads its rows before their events, while they are moderated: *)
(* it shows the event behind every moderated row it shows, unless it is    *)
(* full of events that are no earlier, and nothing of another course.      *)
ListingIsBacked ==
    \A r \in Requests : ask[r].op = "list" /\ reply[r] = "ok" =>
        /\ \A i \in Ids : seen[r][i] # None => seen[r][i].course = ask[r].course /\ Backed(i, seen[r][i], shown[r])
        /\ \A e \in shown[r] : e.course = ask[r].course
=============================================================================
