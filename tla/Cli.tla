-------------------------------- MODULE Cli ---------------------------------
(***************************************************************************)
(* The commands of the program together: each begins with the check for    *)
(* updates, goes on with its session or with the update, and shares the    *)
(* files, the program and Moodle with the others.                          *)
(***************************************************************************)
EXTENDS Session, Update

vars == <<processVars, sessionVars, updateVars>>

(* A process is started from the program file.                             *)
Begin(p) ==
    /\ \E k \in Kinds : Start(p, k, program.version)
    /\ LET others == {q \in Processes : Running(q)}
       IN  excused' = excused \cup others \cup (IF others # {} \/ spoiled THEN {p} ELSE {})
    /\ UNCHANGED <<sessionVars, updateVars>>

(* A process is killed, between any two of its steps.                      *)
Dies(p) ==
    /\ Running(p)
    /\ Breaks(p)
    /\ spoiled' = (spoiled \/ At(p, "saveSession"))
    /\ UNCHANGED <<sessionFile, mobileFile, accepted, credentials, updateVars>>

Init ==
    /\ command = [p \in Processes |-> None] /\ pc = [p \in Processes |-> "idle"]
    /\ own = [p \in Processes |-> Blank]
    /\ result = [p \in Processes |-> None] /\ excused = {}
    /\ SessionInit /\ UpdateInit

Next ==
    \/ \E p \in Processes : Begin(p) \/ Dies(p)
    \/ \E p \in Processes : SessionStep(p) /\ UNCHANGED updateVars
    \/ \E p \in Processes : UpdateStep(p) /\ UNCHANGED sessionVars
    \/ \E n \in Logins : Expire(n) /\ UNCHANGED updateVars
    \/ Publish /\ UNCHANGED sessionVars

Spec == Init /\ [][Next]_vars

-----------------------------------------------------------------------------
(* Properties *)

(* With credentials configured, a command that ran alone and that no       *)
(* request, file or expiry failed ends well: sessions are made when there  *)
(* is none and renewed when they expired.  Only a session file that a save *)
(* had left cut, or that two commands had saved at once, excuses it.       *)
GivesUpForCause ==
    \A p \in Processes : result[p] = "error" /\ credentials => p \in excused

(* An installed release is never what was there, and between two numbers   *)
(* it is the greater one.                                                  *)
Supersedes(v, u) == v # u /\ (u \in Numbers /\ v \in Numbers => v > u)

(* The program file is only ever replaced by a whole release that          *)
(* supersedes the program the updating command was started from: the       *)
(* replaced one, unless another update got in between.                     *)
InstallsWholeNewer ==
    [][program' # program =>
          /\ program'.whole
          /\ \E p \in Processes :
                /\ At(p, "replace") /\ ~At(p, "replace")'
                /\ Supersedes(program'.version, own[p].runs)]_vars
=============================================================================
