------------------------------ MODULE Session -------------------------------
(***************************************************************************)
(* internal/cli/auth.go, login.go and mobile.go: the saved web session and *)
(* the saved mobile session.  A command loads the web session, logs in if  *)
(* there is none, has Moodle accept it, and logs in again if it expired;   *)
(* both files are written in place, by any process.                        *)
(*                                                                         *)
(* A session is named after the process that made it; Old is from before.  *)
(* Abstracted: schools, where the credentials come from (they are there or *)
(* not), the browser that logs in, and a launch whose callback was passed  *)
(* by hand, which needs no session.                                        *)
(***************************************************************************)
EXTENDS Commands

CONSTANT Old

Logins == Processes \cup {Old}

ASSUME FilesDiffer ==
    /\ Absent \notin Logins \cup {Empty, Mixed} /\ Empty \notin Logins /\ Mixed \notin Logins

VARIABLES sessionFile, mobileFile,
          accepted,    \* the web sessions that Moodle accepts
          credentials, \* are a username and a password configured?
          spoiled      \* history: was the last save of the session cut off, or one of two?

sessionVars == <<sessionFile, mobileFile, accepted, credentials, spoiled>>

-----------------------------------------------------------------------------
(* ensureValidatedSession gives up: ensureCourseDataClient still tries the *)
(* mobile session.                                                         *)
GiveUp(p) ==
    IF command[p] = "data" THEN Step(p, "loadMobile", own[p]) ELSE Ends(p, "error")

Has(p, content) == [own[p] EXCEPT !.client = content]
Attempts(p, how) == [own[p] EXCEPT !.attempt = how]

(* Slip for the mutants: a missing file is an error like any other.        *)
LoadAnyError(p) ==
    /\ At(p, "load")
    /\ IF Readable(sessionFile) THEN Step(p, "validate", Has(p, sessionFile)) ELSE GiveUp(p)
    /\ UNCHANGED <<excused, sessionVars>>

(* LoadSession: only a missing file makes the command log in, and what it  *)
(* loads after that login is not validated.                                *)
Load(p) ==
    /\ At(p, "load")
    /\ \/ /\ Readable(sessionFile)
          /\ Step(p, IF own[p].attempt = "bootstrapped" THEN "ensured" ELSE "validate", Has(p, sessionFile))
       \/ /\ sessionFile = Absent /\ credentials
          /\ Step(p, "logIn", Attempts(p, "bootstrapped"))
       \/ /\ Torn(sessionFile) \/ (sessionFile = Absent /\ ~credentials)
          /\ GiveUp(p)
    /\ UNCHANGED <<excused, sessionVars>>

(* ValidateSession: accepted, expired, or any other failure.               *)
Validate(p) ==
    /\ At(p, "validate")
    /\ \/ own[p].client \in accepted /\ Continue(p, "ensured")
       \/ /\ own[p].client \notin accepted
          /\ IF own[p].attempt = "first" /\ credentials THEN Step(p, "logIn", Attempts(p, "relogged"))
             ELSE GiveUp(p)
          /\ UNCHANGED excused
       \/ GiveUp(p) /\ excused' = excused \cup {p}
    /\ UNCHANGED sessionVars

(* loginAndSaveSession and the login command: the browser logs in.         *)
LogIn(p) ==
    /\ At(p, "logIn")
    /\ \/ accepted' = accepted \cup {p} /\ Continue(p, "openSession")
       \/ GiveUp(p) /\ excused' = excused \cup {p} /\ UNCHANGED accepted
    /\ UNCHANGED <<sessionFile, mobileFile, credentials, spoiled>>

(* SaveSession *)
OpenSession(p) ==
    /\ At(p, "openSession")
    /\ sessionFile' = Empty
    /\ spoiled' = \E q \in Processes \ {p} : At(q, "saveSession")
    /\ Continue(p, "saveSession")
    /\ UNCHANGED <<mobileFile, accepted, credentials>>

SaveSession(p) ==
    /\ At(p, "saveSession")
    /\ sessionFile' \in Overwritten(sessionFile, p)
    /\ IF command[p] = "login" THEN Succeeds(p) ELSE Continue(p, "load")
    /\ UNCHANGED <<mobileFile, accepted, credentials, spoiled>>

-----------------------------------------------------------------------------
(* What a command does with its session *)

(* The mobile session may have been revoked, and the request may fail.     *)
LoadMobile(p) ==
    /\ At(p, "loadMobile")
    /\ Ends(p, "error") \/ (Readable(mobileFile) /\ Ends(p, "ok"))
    /\ UNCHANGED <<excused, sessionVars>>

(* A command that reads has its client.                                    *)
Read(p) ==
    /\ At(p, "ensured") /\ command[p] \in {"auth", "data"}
    /\ Succeeds(p)
    /\ UNCHANGED sessionVars

(* runMobileQRLogin: the profile page shows a key, which is then redeemed. *)
FetchQR(p) ==
    /\ At(p, "ensured") /\ command[p] = "qr"
    /\ (own[p].client \in accepted /\ Continue(p, "exchange")) \/ Breaks(p)
    /\ UNCHANGED sessionVars

ExchangeQR(p) ==
    /\ At(p, "exchange")
    /\ Continue(p, "openMobile") \/ Breaks(p)
    /\ UNCHANGED sessionVars

(* runMobileLaunchLogin loads the session file once more.                  *)
LoadAgain(p) ==
    /\ At(p, "ensured") /\ command[p] = "launch"
    /\ IF Readable(sessionFile) THEN Step(p, "launch", Has(p, sessionFile)) ELSE Ends(p, "error")
    /\ UNCHANGED <<excused, sessionVars>>

(* LaunchMobileLoginWithSession, then the token is tried before it is saved. *)
Launch(p) ==
    /\ At(p, "launch")
    /\ (own[p].client \in accepted /\ Continue(p, "openMobile")) \/ Breaks(p)
    /\ UNCHANGED sessionVars

(* SaveMobileSession; the courses are read after that: the command may     *)
(* fail and leave a working mobile session.                                *)
OpenMobile(p) ==
    /\ At(p, "openMobile")
    /\ mobileFile' = Empty
    /\ Continue(p, "saveMobile")
    /\ UNCHANGED <<sessionFile, accepted, credentials, spoiled>>

SaveMobile(p) ==
    /\ At(p, "saveMobile")
    /\ mobileFile' \in Overwritten(mobileFile, p)
    /\ Succeeds(p) \/ Breaks(p)
    /\ UNCHANGED <<sessionFile, accepted, credentials, spoiled>>

-----------------------------------------------------------------------------
(* A file cannot be opened or written; Moodle forgets a web session.       *)
FileFails(p) ==
    /\ \/ pc[p] \in {"openSession", "saveSession"} /\ GiveUp(p) /\ excused' = excused \cup {p}
       \/ pc[p] \in {"openMobile", "saveMobile"} /\ Breaks(p)
    /\ spoiled' = (spoiled \/ At(p, "saveSession"))
    /\ UNCHANGED <<sessionFile, mobileFile, accepted, credentials>>

Expire(n) ==
    /\ n \in accepted
    /\ accepted' = accepted \ {n}
    /\ excused' = excused \cup {p \in Processes : Running(p)}
    /\ UNCHANGED <<command, pc, own, result, sessionFile, mobileFile, credentials, spoiled>>

SessionInit ==
    /\ sessionFile \in {Absent, Old} /\ mobileFile = Absent
    /\ accepted \in SUBSET ({sessionFile} \cap Logins) /\ credentials \in BOOLEAN
    /\ spoiled = FALSE

SessionStep(p) ==
    \/ Load(p) \/ Validate(p) \/ LogIn(p) \/ OpenSession(p) \/ SaveSession(p)
    \/ LoadMobile(p) \/ Read(p) \/ FetchQR(p) \/ ExchangeQR(p) \/ LoadAgain(p) \/ Launch(p)
    \/ OpenMobile(p) \/ SaveMobile(p) \/ FileFails(p)
=============================================================================
