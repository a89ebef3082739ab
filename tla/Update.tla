------------------------------- MODULE Update -------------------------------
(***************************************************************************)
(* internal/update and internal/cli/update*.go: the daily check for a      *)
(* release that most commands begin with, and the update command, which    *)
(* replaces the program.  A process is what the program file held when it  *)
(* was started; the latest release may also be withdrawn.                  *)
(*                                                                         *)
(* The state file remembers when the last check was, and the release that  *)
(* was told of last; everything happens within a day.  Abstracted:         *)
(* archives are whole or damaged, and the temporary file that is renamed   *)
(* over the program is written in one step; Windows, where a script moves  *)
(* the new program into place later.                                       *)
(***************************************************************************)
EXTENDS Commands

CONSTANTS MaxVersion, \* bound: releases with a number
          OtherTags,  \* releases whose tag is no number (x.y.z)
          Dev         \* the version of a program that is no release

ASSUME UpdateBounds ==
    /\ MaxVersion \in Nat
    /\ OtherTags \cap Nat = {} /\ Dev \notin Nat \cup OtherTags /\ None \notin Nat \cup OtherTags

Numbers == 0..MaxVersion
Tags == Numbers \cup OtherTags
Versions == Tags \cup {Dev}

VARIABLES latest,    \* the latest release
          program,   \* the program file: a version, and is it whole?
          stateFile

updateVars == <<latest, program, stateFile>>

(* A State; LoadState makes an empty one of a missing file.                *)
NoState == [today |-> FALSE, notified |-> None]
Loaded == IF stateFile = Absent THEN NoState ELSE stateFile
ShouldCheck(s) == ~s.today

(* Slip for the mutants: any other release will do.                        *)
NeedsUpdateIfOther(current, tag) == current # tag

(* A program that is no release always needs it; where there is no order,  *)
(* any other tag is an update.                                             *)
NeedsUpdate(current, tag) ==
    \/ current = Dev
    \/ {current, tag} \subseteq Numbers /\ current < tag
    \/ ~({current, tag} \subseteq Numbers) /\ current # tag

-----------------------------------------------------------------------------
(* maybeCheckForUpdates, and the state that is saved by it and after an    *)
(* update.                                                                 *)

Saves(p, step, s) == Step(p, step, [own[p] EXCEPT !.state = s]) /\ UNCHANGED excused
CheckDone(p) == Saves(p, First(command[p]), None)

(* An unreadable state, and one of today, end the check silently.          *)
CheckState(p) ==
    /\ At(p, "check")
    /\ IF ~Torn(stateFile) /\ ShouldCheck(Loaded)
       THEN Saves(p, "openChecked", [Loaded EXCEPT !.today = TRUE])
       ELSE CheckDone(p)
    /\ UNCHANGED updateVars

OpenState(p) ==
    /\ \/ At(p, "openChecked") /\ Continue(p, "saveChecked")
       \/ At(p, "openTold") /\ Continue(p, "saveTold")
       \/ At(p, "openInstalled") /\ Continue(p, "saveInstalled")
    /\ stateFile' = Empty
    /\ UNCHANGED <<latest, program>>

SaveState(p) ==
    /\ \/ At(p, "saveChecked") /\ Continue(p, "ask")
       \/ At(p, "saveTold") /\ CheckDone(p)
       \/ At(p, "saveInstalled") /\ Succeeds(p)
    /\ stateFile' \in Overwritten(stateFile, own[p].state)
    /\ UNCHANGED <<latest, program>>

(* A state that cannot be saved ends the check silently the first time,    *)
(* and the command with an error the second; after an update it is a       *)
(* warning.                                                                *)
StateFails(p) ==
    /\ \/ pc[p] \in {"openChecked", "saveChecked"} /\ CheckDone(p)
       \/ pc[p] \in {"openTold", "saveTold"} /\ Breaks(p)
       \/ pc[p] \in {"openInstalled", "saveInstalled"} /\ Succeeds(p)
    /\ UNCHANGED updateVars

(* Check: tell of a release once, and forget what was told when there is   *)
(* nothing to update to; a check that fails ends silently.                 *)
Ask(p) ==
    /\ At(p, "ask")
    /\ LET due == NeedsUpdate(own[p].runs, latest)
           notified == own[p].state.notified
           news == IF due THEN latest ELSE None
       IN  \/ notified # news /\ Saves(p, "openTold", [own[p].state EXCEPT !.notified = news])
           \/ notified = news /\ CheckDone(p)
           \/ CheckDone(p)
    /\ UNCHANGED updateVars

-----------------------------------------------------------------------------
(* The update command.  With --check, and when no release is published,    *)
(* asking is all it does.                                                  *)
CheckRelease(p) ==
    /\ At(p, "release")
    /\ \/ /\ NeedsUpdate(own[p].runs, latest)
          /\ Step(p, "download", [own[p] EXCEPT !.release = latest]) /\ UNCHANGED excused
       \/ Succeeds(p)
       \/ Breaks(p)
    /\ UNCHANGED updateVars

Download(p) ==
    /\ At(p, "download")
    /\ \/ \E whole \in BOOLEAN :
             Step(p, "verify", [own[p] EXCEPT !.archive = whole]) /\ UNCHANGED excused
       \/ Breaks(p)
    /\ UNCHANGED updateVars

(* verifyChecksumFile and extractBinary *)
Verify(p) ==
    /\ At(p, "verify")
    /\ (own[p].archive /\ Continue(p, "replace")) \/ Breaks(p)
    /\ UNCHANGED updateVars

(* replaceExecutableUnix *)
Replace(p) ==
    /\ At(p, "replace")
    /\ \/ /\ program' = [version |-> own[p].release, whole |-> own[p].archive]
          /\ Continue(p, "installed")
       \/ Breaks(p) /\ UNCHANGED program
    /\ UNCHANGED <<latest, stateFile>>

(* saveUpdateStateAfterInstall *)
Installed(p) ==
    /\ At(p, "installed")
    /\ IF Torn(stateFile) THEN Succeeds(p)
       ELSE Saves(p, "openInstalled", [today |-> TRUE, notified |-> own[p].release])
    /\ UNCHANGED updateVars

-----------------------------------------------------------------------------
(* Releases are published and withdrawn.                                   *)
Publish ==
    /\ \E v \in Tags \ {latest} : latest' = v
    /\ UNCHANGED <<processVars, program, stateFile>>

(* The program is up to date when the day begins, or no release.           *)
UpdateInit ==
    /\ latest = 0 /\ program \in [version : {0, Dev}, whole : {TRUE}]
    /\ stateFile \in {Absent} \cup {[today |-> FALSE, notified |-> v] : v \in Tags \ {0}}

UpdateStep(p) ==
    \/ CheckState(p) \/ OpenState(p) \/ SaveState(p) \/ StateFails(p) \/ Ask(p)
    \/ CheckRelease(p) \/ Download(p) \/ Verify(p) \/ Replace(p) \/ Installed(p)
=============================================================================
