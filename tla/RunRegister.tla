---------------------------- MODULE RunRegister ----------------------------
(***************************************************************************)
(* What the study-pipeline store promises its callers, as if every call    *)
(* were one indivisible step: an append-only register of runs, and for     *)
(* every selection key (course and stage) at most one active run.          *)
(* RunStore is shown to implement it; the plan handlers (StagePlan) are    *)
(* composed with it.                                                       *)
(***************************************************************************)
CONSTANTS Runs,     \* run ids
          Keys,     \* selection keys
          None      \* no row

Statuses == {"succeeded", "failed"}
RunRow == [key : Keys, status : Statuses]

VARIABLES runs,     \* the run stored under each id, or None
          active    \* the id of the active run of each key, or None

registerVars == <<runs, active>>

RegisterTypeOK ==
    /\ runs \in [Runs -> RunRow \cup {None}]
    /\ active \in [Keys -> Runs \cup {None}]

RegisterInit ==
    /\ runs = [r \in Runs |-> None]
    /\ active = [k \in Keys |-> None]

(* A run is recorded under a fresh id; a successful one becomes active.    *)
Record(r, row) ==
    /\ runs[r] = None
    /\ runs' = [runs EXCEPT ![r] = row]
    /\ active' = IF row.status = "succeeded"
                 THEN [active EXCEPT ![row.key] = r] ELSE active

(* Any recorded run, failed ones too, can be made the active one.          *)
Select(r) ==
    /\ runs[r] # None
    /\ active' = [active EXCEPT ![runs[r].key] = r]
    /\ UNCHANGED runs

(* Taking a run back leaves the selection of any other run alone.          *)
Clear(r) ==
    /\ runs[r] # None
    /\ active[runs[r].key] = r
    /\ active' = [active EXCEPT ![runs[r].key] = None]
    /\ UNCHANGED runs

RegisterNext ==
    \E r \in Runs : \/ \E row \in RunRow : Record(r, row)
                    \/ Select(r)
                    \/ Clear(r)

RegisterSpec == RegisterInit /\ [][RegisterNext]_registerVars
=============================================================================
