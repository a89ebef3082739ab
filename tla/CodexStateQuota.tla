--------------------------- MODULE CodexStateQuota ---------------------------
(***************************************************************************)
(* internal/store/codex_state.go, pkg/codexstate/handler.go and            *)
(* internal/store/admin.go: the Codex state snapshots of one user, kept    *)
(* within a byte quota by pruning the oldest ones when a new one is saved, *)
(* while other saves of the same user and quota changes by an admin run at *)
(* the same time.                                                          *)
(*                                                                         *)
(* A save is one POST and runs once.  Its transaction is modelled by its   *)
(* statements under READ COMMITTED: the prune sees what was committed when *)
(* it started, and the transaction's own row.  Two prunes that pick the    *)
(* same row wait for each other's row lock; as the second then finds the   *)
(* row gone, or still there after a rollback, the wait changes no outcome  *)
(* and is left out.  Abstracted: the zip, its encryption and its metadata. *)
(***************************************************************************)
EXTENDS Naturals, Functions

CONSTANTS Saves,          \* save requests
          Sizes,          \* zip sizes that may be posted
          Kinds,          \* kinds of state
          DefaultQuota, AdminQuota,
          Overrides,      \* values an admin may set
          MaxChanges,     \* bound on the admin's changes
          NoOverride      \* no override is set

ASSUME QuotasPositive ==
    /\ DefaultQuota \in Nat \ {0} /\ AdminQuota \in Nat \ {0}
    /\ Sizes \subseteq Nat \ {0} /\ Overrides \subseteq Nat \ {0}
    /\ MaxChanges \in Nat /\ NoOverride \notin Overrides

VARIABLES rows,       \* codex_state_snapshots: the saves whose row is committed
          size, snapKind,   \* what each save posts: its zip_size_bytes and its kind
          stamp,      \* created_at: when the save's transaction began
          clock,      \* the database clock
          override, isAdmin,   \* the user's quota columns
          changes,    \* admin changes so far (bounded)
          stage, quota,  \* where a save is, and the quota it read
          doomed,     \* the rows its prune deletes
          earlier,    \* history: the rows that were there when it read its quota
          reply

posted == <<size, snapKind>>
user == <<override, isAdmin, changes>>
quotaVars == <<rows, posted, stamp, clock, user, stage, quota, doomed, earlier, reply>>

(* lost: the client is told of an error, but the commit took effect.       *)
Replies == {"none", "saved", "too_large", "error", "lost"}

QuotaTypeOK ==
    /\ rows \subseteq Saves
    /\ size \in [Saves -> Sizes] /\ snapKind \in [Saves -> Kinds]
    /\ stamp \in [Saves -> Nat] /\ clock \in Nat
    /\ override \in Overrides \cup {NoOverride}
    /\ isAdmin \in BOOLEAN
    /\ changes \in 0..MaxChanges
    /\ stage \in [Saves -> {"idle", "checked", "inserted", "pruned", "done"}]
    /\ quota \in [Saves -> Overrides \cup {0, DefaultQuota, AdminQuota}]
    /\ doomed \in [Saves -> SUBSET Saves]
    /\ earlier \in [Saves -> SUBSET Saves]
    /\ reply \in [Saves -> Replies]

QuotaInit ==
    /\ rows = {}
    /\ size \in [Saves -> Sizes] /\ snapKind \in [Saves -> Kinds]
    /\ stamp = [s \in Saves |-> 0]
    /\ clock = 0
    /\ override = NoOverride /\ isAdmin = FALSE /\ changes = 0
    /\ stage = [s \in Saves |-> "idle"]
    /\ quota = [s \in Saves |-> 0]
    /\ doomed = [s \in Saves |-> {}]
    /\ earlier = [s \in Saves |-> {}]
    /\ reply = [s \in Saves |-> "none"]

-----------------------------------------------------------------------------
(* Helpers *)

Bytes(S) == SumFunctionOnSet(size, S)

(* EffectiveCodexStateQuotaBytes: an explicit override, else the admins'   *)
(* default for admins, else the users' default.                            *)
EffectiveQuota ==
    IF override # NoOverride THEN override
    ELSE IF isAdmin THEN AdminQuota ELSE DefaultQuota

(* Slips for the mutants: the running sum runs from the oldest row, or it  *)
(* leaves out the row itself.                                              *)
RunningBytesFromOldest(s, S) == Bytes({t \in S : stamp[t] <= stamp[s]})
RunningBytesBefore(s, S) == Bytes({t \in S : stamp[t] > stamp[s]})

(* sum(zip_size_bytes) over (order by created_at desc): the row itself and *)
(* everything newer.                                                       *)
RunningBytes(s, S) == Bytes({t \in S : stamp[t] >= stamp[s]})

Answer(s, r) == reply' = [reply EXCEPT ![s] = r] /\ stage' = [stage EXCEPT ![s] = "done"]

-----------------------------------------------------------------------------
(* The handler reads the quota and refuses a zip larger than all of it.    *)
ReadQuota(s) ==
    /\ stage[s] = "idle"
    /\ quota' = [quota EXCEPT ![s] = EffectiveQuota]
    /\ earlier' = [earlier EXCEPT ![s] = rows]
    /\ IF size[s] > EffectiveQuota
       THEN Answer(s, "too_large")
       ELSE stage' = [stage EXCEPT ![s] = "checked"] /\ UNCHANGED reply
    /\ UNCHANGED <<rows, posted, stamp, clock, user, doomed>>

(* The transaction begins and inserts the row, seen by nobody else yet.    *)
Insert(s) ==
    /\ stage[s] = "checked"
    /\ clock' = clock + 1
    /\ stamp' = [stamp EXCEPT ![s] = clock + 1]
    /\ stage' = [stage EXCEPT ![s] = "inserted"]
    /\ UNCHANGED <<rows, posted, user, quota, doomed, earlier, reply>>

(* The prune deletes every row whose running sum exceeds the quota that    *)
(* was read before the transaction.                                        *)
Prune(s) ==
    /\ stage[s] = "inserted"
    /\ LET visible == rows \cup {s}
       IN  doomed' = [doomed EXCEPT ![s] = {t \in visible : RunningBytes(t, visible) > quota[s]}]
    /\ stage' = [stage EXCEPT ![s] = "pruned"]
    /\ UNCHANGED <<rows, posted, stamp, clock, user, quota, earlier, reply>>

(* The commit publishes the row and the deletions.                         *)
TakesEffect(s) == rows' = (rows \cup {s}) \ doomed[s]

Commit(s) ==
    /\ stage[s] = "pruned"
    /\ TakesEffect(s) /\ Answer(s, "saved")
    /\ UNCHANGED <<posted, stamp, clock, user, quota, doomed, earlier>>

(* A statement fails: nothing of the transaction remains.  When it was the *)
(* commit, only its answer may have been lost.                             *)
Fail(s) ==
    /\ \/ stage[s] \in {"idle", "checked", "inserted", "pruned"} /\ Answer(s, "error") /\ UNCHANGED rows
       \/ stage[s] = "pruned" /\ Answer(s, "lost") /\ TakesEffect(s)
    /\ UNCHANGED <<posted, stamp, clock, user, quota, doomed, earlier>>

(* UpdateAdminUser: an admin sets or resets the override, and may change   *)
(* the user's role in the same transaction.                                *)
UpdateAdminUser(newOverride, newAdmin) ==
    /\ changes < MaxChanges
    /\ changes' = changes + 1
    /\ override' = newOverride
    /\ isAdmin' = newAdmin
    /\ UNCHANGED <<rows, posted, stamp, clock, stage, quota, doomed, earlier, reply>>

QuotaNext ==
    \/ \E s \in Saves :
          \/ ReadQuota(s) \/ Insert(s) \/ Prune(s) \/ Commit(s) \/ Fail(s)
    \/ \E v \in Overrides \cup {NoOverride}, a \in BOOLEAN : UpdateAdminUser(v, a)

QuotaSpec == QuotaInit /\ [][QuotaNext]_quotaVars

-----------------------------------------------------------------------------
(* Properties *)

Committed(s) == reply[s] \in {"saved", "lost"}

(* The quota holds for whatever did not overlap: of the snapshots that     *)
(* were there when a save began, and its own, it leaves no more than the   *)
(* quota it then read, and none of them comes back.  Only saves that ran   *)
(* beside it, unseen by its prune, can be too much.                        *)
OverlapAloneOverruns ==
    \A s \in Saves : Committed(s) => Bytes(rows \cap (earlier[s] \cup {s})) <= quota[s]

(* LatestCodexStateSnapshot: what a client of the kind is given.           *)
Latest(k) == {t \in rows : snapKind[t] = k /\ \A x \in rows : snapKind[x] = k => stamp[x] <= stamp[t]}

(* The newest committed snapshot survives every prune, its own and those   *)
(* of older saves that commit after it, and is what a client of its kind   *)
(* gets back; only a save that read a quota too small for it may drop it.  *)
NewestSurvives ==
    \A t \in Saves : Committed(t) /\ (\A x \in Saves : Committed(x) => stamp[x] <= stamp[t]) =>
        \/ Latest(snapKind[t]) = {t}
        \/ \E s \in Saves : Committed(s) /\ quota[s] < size[t]
=============================================================================
