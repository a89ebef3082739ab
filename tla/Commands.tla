------------------------------ MODULE Commands ------------------------------
(***************************************************************************)
(* internal/cli: commands of the moodle program, processes that share a    *)
(* home directory.  What the handling of sessions (Session) and the        *)
(* program's own update (Update) have in common: a command's course from   *)
(* its start to its result, and files that are opened, truncated and then  *)
(* written, as os.WriteFile does.                                          *)
(***************************************************************************)
EXTENDS Naturals

CONSTANTS Processes, None,
          Absent, Empty, Mixed \* a file that is not there, or cannot be read

ASSUME NoneIsNoResult == None \notin {"ok", "error"}

VARIABLES command, \* what a process was started for
          pc,      \* its next step
          own,     \* what it has in memory
          result,  \* how it ended
          excused  \* history: processes that something went wrong for

processVars == <<command, pc, own, result, excused>>

(* auth, data: commands that read from Moodle, the latter content with a   *)
(* mobile session; qr, launch: commands that make a mobile session.        *)
Kinds == {"auth", "data", "login", "qr", "launch", "update"}

(* client, attempt: the session it works with, and how it came by it       *)
(* (first, bootstrapped, relogged); runs: the version it was started from; *)
(* state: the update state it is about to save; release, archive: what it  *)
(* is about to install.                                                    *)
Blank == [client |-> None, attempt |-> "first", runs |-> None,
          state |-> None, release |-> None, archive |-> None]

Running(p) == pc[p] \notin {"idle", "done"}
At(p, step) == pc[p] = step

Step(p, step, memory) ==
    /\ pc' = [pc EXCEPT ![p] = step]
    /\ own' = [own EXCEPT ![p] = memory]
    /\ UNCHANGED <<command, result>>
Continue(p, step) == Step(p, step, own[p]) /\ UNCHANGED excused

(* The command's own first step, after the check for updates.              *)
First(k) == CASE k = "update" -> "release" [] k = "login" -> "logIn" [] OTHER -> "load"

Ends(p, how) ==
    /\ pc' = [pc EXCEPT ![p] = "done"]
    /\ own' = [own EXCEPT ![p] = Blank]
    /\ command' = [command EXCEPT ![p] = None]
    /\ result' = [result EXCEPT ![p] = how]

Succeeds(p) == Ends(p, "ok") /\ UNCHANGED excused

(* It ends with an error of its own: a request or a file that failed.      *)
Breaks(p) == Ends(p, "error") /\ excused' = excused \cup {p}

(* What a file holds after a write that began when it held old: the write  *)
(* covers the beginning of what another process wrote since the truncation. *)
Torn(content) == content \in {Empty, Mixed}
Readable(content) == content # Absent /\ ~Torn(content)
Overwritten(old, new) == IF old \in {Absent, Empty} \/ old = new THEN {new} ELSE {new, Mixed}

(* PersistentPreRunE: a command on a terminal checks for updates first.    *)
Start(p, k, version) ==
    /\ At(p, "idle")
    /\ command' = [command EXCEPT ![p] = k]
    /\ \E step \in {First(k)} \cup (IF k = "update" THEN {} ELSE {"check"}) : pc' = [pc EXCEPT ![p] = step]
    /\ own' = [own EXCEPT ![p].runs = version]
    /\ UNCHANGED result
=============================================================================
