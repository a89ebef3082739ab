------------------------------ MODULE TaskState ------------------------------
(***************************************************************************)
(* pkg/studypipeline/artifacts.go: the students' attempts, task statuses   *)
(* and chat messages of one course, kept in one JSON file.  Every handler  *)
(* reads the whole file, changes its copy and writes the whole file back,  *)
(* without a lock; the file is truncated before it is written, and a file  *)
(* that cannot be read counts as an empty one.                             *)
(*                                                                         *)
(* Each handler posts one update, which stands for its attempt, status or  *)
(* message; answers, verdicts and texts are abstracted.                    *)
(***************************************************************************)
EXTENDS Naturals, Sequences, SequencesExt

CONSTANTS Handlers,  \* the requests
          Tasks,
          None

ASSUME NoneIsNew == None \notin Handlers

VARIABLES file,      \* task-state.json
          pc,        \* "idle", "loaded", "opened", "saved" or "failed"
          update,    \* what the handler was asked to do
          memory,    \* its copy of the state
          answered,  \* order in which updates were acknowledged
          excused    \* history: updates that may be lost, and why not

vars == <<file, pc, update, memory, answered, excused>>

(* A task's attempt, by who gave its answer and who its status, and the    *)
(* messages, by their handlers.                                            *)
Attempt == [answer : Handlers \cup {None}, status : Handlers \cup {None}]
NoAttempt == [answer |-> None, status |-> None]
State == [attempts : [Tasks -> Attempt], messages : [Tasks -> Seq(Handlers)]]
EmptyState == [attempts |-> [t \in Tasks |-> NoAttempt], messages |-> [t \in Tasks |-> <<>>]]

(* The file is absent, torn (cut short, or a mixture of two writers), or a *)
(* state.                                                                  *)
Readable(s) == [kind |-> "state", state |-> s]
Absent == [kind |-> "absent", state |-> EmptyState]
Torn == [kind |-> "torn", state |-> EmptyState]
Truncated == [kind |-> "truncated", state |-> EmptyState]

TypeOK ==
    /\ file.kind \in {"absent", "torn", "truncated", "state"} /\ file.state \in State
    /\ pc \in [Handlers -> {"idle", "loaded", "opened", "saved", "failed"}]
    /\ memory \in [Handlers -> State]
    /\ update \in [Handlers -> [kind : {"none", "attempt", "status", "message"}, task : Tasks \cup {None}]]
    /\ answered \in Seq(Handlers) /\ excused \subseteq Handlers

Init ==
    /\ file = Absent
    /\ pc = [h \in Handlers |-> "idle"]
    /\ update = [h \in Handlers |-> [kind |-> "none", task |-> None]]
    /\ memory = [h \in Handlers |-> EmptyState]
    /\ answered = <<>> /\ excused = {}

-----------------------------------------------------------------------------
(* The updates *)

Updates == [kind : {"attempt", "status", "message"}, task : Tasks]

(* Slip for the mutants: a status starts a new attempt.                    *)
AppliedToNewAttempt(h, s) ==
    LET t == update[h].task
    IN  CASE update[h].kind = "attempt" -> [s EXCEPT !.attempts[t] = [answer |-> h, status |-> h]]
          [] update[h].kind = "status" -> [s EXCEPT !.attempts[t] = [answer |-> None, status |-> h]]
          [] OTHER -> [s EXCEPT !.messages[t] = Append(@, h)]

(* An attempt replaces the task's, answer and status; a status leaves the  *)
(* answer; a message is appended.                                          *)
Applied(h, s) ==
    LET t == update[h].task
    IN  CASE update[h].kind = "attempt" -> [s EXCEPT !.attempts[t] = [answer |-> h, status |-> h]]
          [] update[h].kind = "status" -> [s EXCEPT !.attempts[t].status = h]
          [] OTHER -> [s EXCEPT !.messages[t] = Append(@, h)]

-----------------------------------------------------------------------------
(* The handlers *)

Busy(h) == pc[h] \in {"loaded", "opened"}
Acknowledged == {h \in Handlers : pc[h] = "saved"}

(* readTaskState, its error ignored: what was acknowledged before is lost  *)
(* to this handler if the file is torn or being written.                   *)
Load(h, u) ==
    /\ pc[h] = "idle"
    /\ update' = [update EXCEPT ![h] = u]
    /\ memory' = [memory EXCEPT ![h] = file.state]
    /\ pc' = [pc EXCEPT ![h] = "loaded"]
    /\ excused' = excused \cup (IF file.kind \in {"torn", "truncated"} THEN Acknowledged ELSE {})
    /\ UNCHANGED <<file, answered>>

(* writeJSONFile opens the file and truncates it.                          *)
Open(h) ==
    /\ pc[h] = "loaded"
    /\ memory' = [memory EXCEPT ![h] = Applied(h, @)]
    /\ file' = Truncated
    /\ pc' = [pc EXCEPT ![h] = "opened"]
    /\ UNCHANGED <<update, answered, excused>>

(* Slip: the error of the write is ignored.                                *)
SaveIgnoringErrors(h) ==
    /\ pc[h] = "opened"
    /\ file' \in {file, Readable(memory[h])}
    /\ pc' = [pc EXCEPT ![h] = "saved"]
    /\ answered' = Append(answered, h)
    /\ LET others == {g \in Handlers \ {h} : Busy(g)}
       IN  excused' = excused \cup others \cup (IF others = {} THEN {} ELSE {h})
    /\ UNCHANGED <<update, memory>>

(* It writes its copy over what others wrote since.  Two handlers that     *)
(* were busy at once may have lost each other's update.                    *)
Save(h) ==
    /\ pc[h] = "opened"
    /\ \/ file' = Readable(memory[h])
       \/ file.kind \in {"state", "torn"} /\ file.state # memory[h] /\ file' = Torn
    /\ pc' = [pc EXCEPT ![h] = "saved"]
    /\ answered' = Append(answered, h)
    /\ LET others == {g \in Handlers \ {h} : Busy(g)}
       IN  excused' = excused \cup others \cup (IF others = {} THEN {} ELSE {h})
    /\ UNCHANGED <<update, memory>>

(* A file that cannot be opened or written is an error; the process may    *)
(* die with all its requests.  A write may have been done in part, or      *)
(* wholly, its answer lost.                                                *)
Fail(gone) ==
    /\ gone # {} /\ \A h \in gone : Busy(h)
    /\ pc' = [h \in Handlers |-> IF h \in gone THEN "failed" ELSE pc[h]]
    /\ LET writing == {h \in gone : pc[h] = "opened"}
       IN  file' \in {file} \cup {Readable(memory[h]) : h \in writing}
                     \cup (IF writing = {} THEN {} ELSE {Torn})
    /\ UNCHANGED <<update, memory, answered, excused>>

Next ==
    \/ \E h \in Handlers : (\E u \in Updates : Load(h, u)) \/ Open(h) \/ Save(h)
    \/ \E gone \in SUBSET Handlers : Fail(gone)

Spec == Init /\ [][Next]_vars
-----------------------------------------------------------------------------
(* Properties *)

Position(h) == CHOOSE i \in 1..Len(answered) : answered[i] = h
Later(g, h) == g # None /\ (g \in Acknowledged => Position(g) >= Position(h))

(* A state has the update of h, or a later one that replaced it.           *)
Holds(s, h) ==
    LET t == update[h].task
    IN  /\ update[h].kind = "message" => \E i \in 1..Len(s.messages[t]) : s.messages[t][i] = h
        /\ update[h].kind = "attempt" => Later(s.attempts[t].answer, h)
        /\ update[h].kind \in {"attempt", "status"} => Later(s.attempts[t].status, h)

(* An update that was acknowledged is in the file, or was replaced by a    *)
(* later one of its task, unless another request was busy when it or the   *)
(* other was saved, or a request read the file while it was unreadable.    *)
LossHasACause ==
    file.kind = "state" => \A h \in Acknowledged \ excused : Holds(file.state, h)

(* The file is readable when nobody writes it, unless a request failed or  *)
(* two overlapped.                                                         *)
ReadableWhenQuiet ==
    (\A h \in Handlers : ~Busy(h)) /\ file.kind \in {"torn", "truncated"} =>
        excused # {} \/ \E h \in Handlers : pc[h] = "failed"
=============================================================================
