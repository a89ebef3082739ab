----------------------------- MODULE Cli_proofs ------------------------------
(***************************************************************************)
(* Proofs about Cli, for any number of processes and releases, and about   *)
(* Export, for any semesters, courses and resources.                       *)
(***************************************************************************)
EXTENDS Cli, Export, TLAPS, SequenceTheorems, FiniteSetTheorems

States == [today : BOOLEAN, notified : Versions \cup {None}]

Memories == [client : {None, Absent, Empty, Mixed} \cup Logins,
             attempt : {"first", "bootstrapped", "relogged"},
             runs : Versions \cup {None}, state : States \cup {None},
             release : Versions \cup {None}, archive : BOOLEAN \cup {None}]

Steps ==
    {"idle", "check", "openChecked", "saveChecked", "ask", "openTold", "saveTold",
     "load", "validate", "logIn", "openSession", "saveSession", "ensured", "loadMobile",
     "exchange", "launch", "openMobile", "saveMobile",
     "release", "download", "verify", "replace", "installed", "openInstalled", "saveInstalled", "done"}

TypeOK ==
    /\ command \in [Processes -> Kinds \cup {None}] /\ pc \in [Processes -> Steps]
    /\ own \in [Processes -> Memories] /\ result \in [Processes -> {None, "ok", "error"}]
    /\ excused \subseteq Processes
    /\ sessionFile \in {Absent, Empty, Mixed} \cup Logins
    /\ accepted \subseteq Logins /\ credentials \in BOOLEAN /\ spoiled \in BOOLEAN
    /\ latest \in Tags /\ program \in [version : Versions, whole : BOOLEAN]
    /\ stateFile \in {Absent, Empty, Mixed} \cup States

(* What a process works with: the state it is about to save, the release   *)
(* it is about to install.                                                 *)
Checking == {"check", "openChecked", "saveChecked", "ask", "openTold", "saveTold"}
Keeping == {"openChecked", "saveChecked", "ask", "openTold", "saveTold", "openInstalled", "saveInstalled"}

Working(p) ==
    /\ Running(p) => own[p].runs \in Versions
    /\ At(p, "idle") => own[p] = Blank
    /\ pc[p] \in Checking => own[p].attempt = "first" /\ command[p] \in Kinds
    /\ pc[p] \in Keeping => own[p].state \in States
    /\ pc[p] \in {"download", "verify", "replace"} => own[p].release \in Tags /\ NeedsUpdate(own[p].runs, own[p].release)
    /\ At(p, "verify") => own[p].archive \in BOOLEAN
    /\ At(p, "replace") => own[p].archive = TRUE

(* A process that nothing excuses runs alone.                              *)
Alone(p) == Running(p) /\ p \notin excused => ~spoiled /\ \A q \in Processes \ {p} : ~Running(q)

Saving(p) == At(p, "saveSession")

(* The session file can be read, or is being written by one process.       *)
FileInv ==
    \/ spoiled
    \/ ~Torn(sessionFile) /\ \A p \in Processes : ~Saving(p)
    \/ sessionFile = Empty /\ \E p \in Processes : Saving(p) /\ \A q \in Processes \ {p} : ~Saving(q)

(* Where such a process stands with its session.                           *)
SessionOf(p) ==
    Running(p) /\ p \notin excused /\ credentials =>
        /\ pc[p] # "loadMobile"
        /\ pc[p] \in {"openSession", "saveSession"} => p \in accepted
        /\ pc[p] = "load" /\ own[p].attempt # "first" => sessionFile = p /\ p \in accepted
        /\ pc[p] = "validate" => Readable(sessionFile) /\ (own[p].attempt # "first" => own[p].client \in accepted)
        /\ pc[p] = "ensured" => Readable(sessionFile)

Ended(p) == result[p] = "error" /\ credentials => p \in excused

IInv == TypeOK /\ FileInv /\ \A p \in Processes : Working(p) /\ Alone(p) /\ SessionOf(p) /\ Ended(p)

-----------------------------------------------------------------------------
(* What a step does to the processes *)

(* One process takes a step, and no other.                                 *)
Moved(p) ==
    /\ command' \in [Processes -> Kinds \cup {None}] /\ pc' \in [Processes -> Steps]
    /\ own' \in [Processes -> Memories] /\ result' \in [Processes -> {None, "ok", "error"}]
    /\ \A q \in Processes \ {p} : pc'[q] = pc[q] /\ own'[q] = own[q] /\ command'[q] = command[q] /\ result'[q] = result[q]

LEMMA StepIs ==
  ASSUME TypeOK, NEW p \in Processes, NEW s \in Steps, NEW m \in Memories, Step(p, s, m)
  PROVE  Moved(p) /\ pc'[p] = s /\ own'[p] = m /\ command' = command /\ result' = result
  BY DEF Step, Moved, TypeOK

LEMMA ContinueIs ==
  ASSUME TypeOK, NEW p \in Processes, NEW s \in Steps, Continue(p, s)
  PROVE  Moved(p) /\ pc'[p] = s /\ own'[p] = own[p] /\ command' = command /\ result' = result /\ excused' = excused
  <1>1. own[p] \in Memories
    BY DEF TypeOK
  <1> QED
    BY <1>1, StepIs DEF Continue

LEMMA BlankIsMemory == Blank \in Memories /\ Blank.attempt = "first"
  BY DEF Blank, Memories

LEMMA EndsIs ==
  ASSUME TypeOK, NEW p \in Processes, NEW how \in {"ok", "error"}, Ends(p, how)
  PROVE  Moved(p) /\ pc'[p] = "done" /\ own'[p] = Blank /\ result'[p] = how
  <1>1. result' \in [Processes -> {None, "ok", "error"}] /\ result'[p] = how
    BY DEF Ends, TypeOK
  <1>2. own' \in [Processes -> Memories] /\ own'[p] = Blank
    BY BlankIsMemory DEF Ends, TypeOK
  <1>3. command' \in [Processes -> Kinds \cup {None}]
    BY DEF Ends, TypeOK
  <1>5. pc' \in [Processes -> Steps] /\ pc'[p] = "done"
    <2>1. pc \in [Processes -> Steps] /\ pc' = [pc EXCEPT ![p] = "done"]
      BY DEF Ends, TypeOK
    <2>2. "done" \in Steps
      BY DEF Steps
    <2> QED
      BY <2>1, <2>2
  <1>4. ASSUME NEW q \in Processes \ {p}
        PROVE  pc'[q] = pc[q] /\ own'[q] = own[q] /\ command'[q] = command[q] /\ result'[q] = result[q]
    BY DEF Ends, TypeOK
  <1> QED
    BY <1>1, <1>2, <1>3, <1>4, <1>5 DEF Moved

LEMMA SucceedsIs ==
  ASSUME TypeOK, NEW p \in Processes, Succeeds(p)
  PROVE  Moved(p) /\ pc'[p] = "done" /\ own'[p] = Blank /\ result'[p] = "ok" /\ excused' = excused
  BY EndsIs DEF Succeeds

LEMMA BreaksIs ==
  ASSUME TypeOK, NEW p \in Processes, Breaks(p)
  PROVE  Moved(p) /\ pc'[p] = "done" /\ own'[p] = Blank /\ excused' = excused \cup {p}
  BY EndsIs DEF Breaks

LEMMA GiveUpIs ==
  ASSUME TypeOK, NEW p \in Processes, GiveUp(p)
  PROVE  /\ Moved(p)
         /\ \/ pc'[p] = "loadMobile" /\ own'[p] = own[p] /\ result' = result
            \/ pc'[p] = "done" /\ own'[p] = Blank
  <1>1. own[p] \in Memories
    BY DEF TypeOK
  <1>2. CASE command[p] = "data"
    <2>1. Step(p, "loadMobile", own[p])
      BY <1>2 DEF GiveUp
    <2>2. "loadMobile" \in Steps
      BY DEF Steps
    <2>3. Moved(p) /\ pc'[p] = "loadMobile" /\ own'[p] = own[p] /\ result' = result
      BY <1>1, <2>1, <2>2, StepIs
    <2> QED
      BY <2>3
  <1>3. CASE command[p] # "data"
    <2>1. Ends(p, "error")
      BY <1>3 DEF GiveUp
    <2> QED
      BY <2>1, EndsIs
  <1> QED
    BY <1>2, <1>3

LEMMA AttemptsIs ==
  ASSUME TypeOK, NEW p \in Processes, NEW how \in {"first", "bootstrapped", "relogged"}
  PROVE  LET m == Attempts(p, how) IN
         /\ m \in Memories /\ m.attempt = how /\ m.runs = own[p].runs /\ m.state = own[p].state
         /\ m.release = own[p].release /\ m.archive = own[p].archive
  <1>1. own[p] \in Memories
    BY DEF TypeOK
  <1> QED
    BY <1>1 DEF Attempts, Memories

LEMMA HasIs ==
  ASSUME TypeOK, NEW p \in Processes, NEW c \in {Absent, Empty, Mixed} \cup Logins
  PROVE  LET m == Has(p, c) IN
         /\ m \in Memories /\ m.client = c /\ m.attempt = own[p].attempt /\ m.runs = own[p].runs /\ m.state = own[p].state
         /\ m.release = own[p].release /\ m.archive = own[p].archive
  <1>1. own[p] \in Memories
    BY DEF TypeOK
  <1> QED
    BY <1>1 DEF Has, Memories

(* What a process has to see to when it takes a step.                      *)
Shared == sessionFile' \in {Absent, Empty, Mixed} \cup Logins /\ accepted' \subseteq Logins /\ spoiled' \in BOOLEAN
          /\ latest' \in Tags /\ program' \in [version : Versions, whole : BOOLEAN]
          /\ stateFile' \in {Absent, Empty, Mixed} \cup States /\ UNCHANGED credentials

Cares(p) == Working(p)' /\ SessionOf(p)' /\ Ended(p)' /\ excused' \in {excused, excused \cup {p}}
            /\ (Running(p)' /\ p \notin excused' => ~spoiled')

LEMMA OwnStep ==
  ASSUME IInv, NEW p \in Processes, Running(p), Moved(p), Shared, Cares(p), FileInv'
  PROVE  IInv'
  <1> USE DEF IInv
  <1>1. TypeOK'
    BY DEF TypeOK, Moved, Shared, Cares
  <1>2. excused \subseteq excused' /\ \A q \in Processes : q \in excused' => q \in excused \/ q = p
    BY DEF Cares
  <1>3. ASSUME NEW q \in Processes PROVE Working(q)' /\ Alone(q)' /\ SessionOf(q)' /\ Ended(q)'
    <2>1. CASE q = p
      <3>1. Running(p)' /\ p \notin excused' => ~spoiled' /\ \A x \in Processes \ {p} : ~Running(x)'
        BY <1>2 DEF Cares, Alone, Moved, Running
      <3> QED
        BY <2>1, <3>1 DEF Cares, Alone
    <2>2. CASE q # p
      <3>1. pc'[q] = pc[q] /\ own'[q] = own[q] /\ command'[q] = command[q] /\ result'[q] = result[q]
        BY <2>2 DEF Moved
      <3>2. Working(q)'
        BY <3>1 DEF Working, Running, At
      <3>3. Running(q) => q \in excused
        BY <2>2 DEF Alone
      <3>4. Running(q)' => q \in excused'
        BY <1>2, <3>1, <3>3 DEF Running
      <3>5. Ended(q)'
        BY <1>2, <3>1 DEF Ended, Shared
      <3> QED
        BY <3>2, <3>4, <3>5 DEF Alone, SessionOf
    <2> QED
      BY <2>1, <2>2
  <1> QED
    BY <1>1, <1>3

(* A step that neither reads nor writes the session file.                  *)
LEMMA FileStays ==
  ASSUME IInv, NEW p \in Processes, Moved(p), UNCHANGED <<sessionFile, spoiled>>, ~Saving(p), ~Saving(p)'
  PROVE  FileInv'
  <1>1. \A q \in Processes : Saving(q)' = Saving(q)
    BY DEF Moved, Saving, At
  <1> QED
    BY <1>1 DEF IInv, FileInv, Torn

LEMMA FileSpoils ==
  ASSUME spoiled'
  PROVE  FileInv'
  BY DEF FileInv

(* A process that ends, and says why.                                      *)
LEMMA EndCares ==
  ASSUME IInv, NEW p \in Processes, Running(p), Moved(p), Shared, FileInv', pc'[p] = "done", own'[p] = Blank,
         excused' \in {excused, excused \cup {p}},
         result'[p] = "error" /\ credentials => p \in excused'
  PROVE  IInv'
  <1>1. ~Running(p)'
    BY DEF Running
  <1>2. Working(p)' /\ SessionOf(p)' /\ Ended(p)'
    BY <1>1 DEF Working, SessionOf, Ended, Shared, At, Checking, Keeping
  <1> QED
    BY <1>1, <1>2, OwnStep DEF Cares

(* A process that gives up, and is excused for it if it has credentials.   *)
LEMMA GiveUpCares ==
  ASSUME IInv, NEW p \in Processes, Running(p), GiveUp(p), Shared, FileInv',
         excused' \in {excused, excused \cup {p}},
         credentials => p \in excused', p \in excused' \/ spoiled' = spoiled
  PROVE  IInv'
  <1>1. Moved(p)
    BY GiveUpIs DEF IInv
  <1>2. CASE pc'[p] = "done" /\ own'[p] = Blank
    BY <1>1, <1>2, EndCares
  <1>3. CASE pc'[p] = "loadMobile" /\ own'[p] = own[p] /\ result' = result
    <2>1. Working(p)'
      BY <1>3 DEF IInv, Working, Running, At, Checking, Keeping
    <2>2. SessionOf(p)'
      BY DEF SessionOf, Shared
    <2>3. Ended(p)'
      BY DEF Ended, Shared
    <2>4. Running(p)' /\ p \notin excused' => ~spoiled'
      BY DEF IInv, Alone
    <2> QED
      BY <1>1, <2>1, <2>2, <2>3, <2>4, OwnStep DEF Cares
  <1> QED
    BY <1>2, <1>3, GiveUpIs DEF IInv

(* The steps of a command with its session.                                *)
SessionSteps == {"load", "validate", "logIn", "openSession", "saveSession", "ensured",
                 "exchange", "launch", "openMobile", "saveMobile", "release"}

LEMMA GoesOn ==
  ASSUME IInv, NEW p \in Processes, Running(p), Moved(p), Shared, FileInv',
         pc'[p] \in SessionSteps, own'[p].runs = own[p].runs, result' = result, excused' = excused,
         p \in excused \/ ~spoiled', SessionOf(p)'
  PROVE  IInv'
  <1>1. Working(p)'
    BY DEF IInv, Working, Running, At, Checking, Keeping, SessionSteps
  <1>2. Ended(p)'
    BY DEF IInv, Ended, Shared
  <1> QED
    BY <1>1, <1>2, OwnStep DEF Cares

LEMMA Freely ==
  ASSUME IInv, NEW p \in Processes, Running(p), p \notin excused
  PROVE  ~spoiled /\ \A q \in Processes \ {p} : ~Running(q) /\ ~Saving(q)
  BY DEF IInv, Alone, Running, Saving, At

-----------------------------------------------------------------------------
(* The session *)

LEMMA LoadKeeps ==
  ASSUME IInv, NEW p \in Processes, Load(p), UNCHANGED updateVars
  PROVE  IInv'
  <1>1. At(p, "load") /\ Running(p) /\ ~Saving(p) /\ TypeOK /\ SessionOf(p)
    BY DEF Load, At, Running, Saving, IInv
  <1>2. Shared /\ UNCHANGED <<sessionFile, accepted, credentials, spoiled, excused>>
    BY <1>1 DEF Load, Shared, TypeOK, sessionVars, updateVars
  <1>3. p \in excused \/ ~spoiled'
    BY <1>1, <1>2, Freely
  <1>4. CASE Readable(sessionFile)
             /\ Step(p, IF own[p].attempt = "bootstrapped" THEN "ensured" ELSE "validate", Has(p, sessionFile))
    <2> DEFINE s == IF own[p].attempt = "bootstrapped" THEN "ensured" ELSE "validate"
    <2>1. s \in Steps /\ s \in {"ensured", "validate"}
      BY DEF Steps
    <2>2. sessionFile \in {Absent, Empty, Mixed} \cup Logins
      BY <1>1 DEF TypeOK
    <2>3. /\ Has(p, sessionFile) \in Memories /\ Has(p, sessionFile).client = sessionFile
          /\ Has(p, sessionFile).attempt = own[p].attempt /\ Has(p, sessionFile).runs = own[p].runs
      BY <1>1, <2>2, HasIs
    <2>4. Moved(p) /\ pc'[p] = s /\ own'[p] = Has(p, sessionFile) /\ result' = result
      BY <1>1, <1>4, <2>1, <2>3, StepIs
    <2>5. FileInv'
      BY <1>1, <1>2, <2>1, <2>4, FileStays DEF Saving, At
    <2>6. SessionOf(p)'
      BY <1>1, <1>2, <1>4, <2>1, <2>3, <2>4 DEF SessionOf, Readable, Torn, At
    <2> HIDE DEF s
    <2> QED
      BY <1>1, <1>2, <1>3, <2>1, <2>3, <2>4, <2>5, <2>6, GoesOn DEF SessionSteps
  <1>5. CASE sessionFile = Absent /\ credentials /\ Step(p, "logIn", Attempts(p, "bootstrapped"))
    <2>1. Attempts(p, "bootstrapped") \in Memories /\ Attempts(p, "bootstrapped").runs = own[p].runs
      BY <1>1, AttemptsIs
    <2>2. Moved(p) /\ pc'[p] = "logIn" /\ own'[p].runs = own[p].runs /\ result' = result
      BY <1>1, <1>5, <2>1, StepIs DEF Steps
    <2>3. FileInv'
      BY <1>1, <1>2, <2>2, FileStays DEF Saving, At
    <2>4. SessionOf(p)'
      BY <2>2 DEF SessionOf
    <2> QED
      BY <1>1, <1>2, <1>3, <2>2, <2>3, <2>4, GoesOn DEF SessionSteps
  <1>6. CASE (Torn(sessionFile) \/ (sessionFile = Absent /\ ~credentials)) /\ GiveUp(p)
    <2>1. Moved(p) /\ ~Saving(p)'
      BY <1>1, <1>6, GiveUpIs DEF Saving, At
    <2>2. FileInv'
      BY <1>1, <1>2, <2>1, FileStays
    <2>3. credentials => p \in excused
      <3>1. ASSUME credentials, p \notin excused PROVE FALSE
        BY <1>1, <1>6, <3>1, Freely DEF IInv, FileInv, Saving, At
      <3> QED
        BY <3>1
    <2> QED
      BY <1>1, <1>2, <1>6, <2>1, <2>2, <2>3, GiveUpCares
  <1> QED
    BY <1>4, <1>5, <1>6 DEF Load

LEMMA ValidateKeeps ==
  ASSUME IInv, NEW p \in Processes, Validate(p), UNCHANGED updateVars
  PROVE  IInv'
  <1>1. At(p, "validate") /\ Running(p) /\ ~Saving(p) /\ TypeOK /\ SessionOf(p)
    BY DEF Validate, At, Running, Saving, IInv
  <1>2. UNCHANGED <<sessionFile, accepted, credentials, spoiled>>
    BY DEF Validate, sessionVars
  <1>3. Shared
    BY <1>1, <1>2 DEF Shared, TypeOK, updateVars
  <1>4. p \in excused \/ ~spoiled'
    BY <1>1, <1>2, Freely
  <1>5. CASE Continue(p, "ensured")
    <2>1. Moved(p) /\ pc'[p] = "ensured" /\ own'[p] = own[p] /\ result' = result /\ excused' = excused
      BY <1>1, <1>5, ContinueIs DEF Steps
    <2>2. FileInv'
      BY <1>1, <1>2, <2>1, FileStays DEF Saving, At
    <2>3. SessionOf(p)'
      BY <1>1, <1>2, <2>1 DEF SessionOf, Readable, Torn, At, Running
    <2> QED
      BY <1>1, <1>3, <1>4, <2>1, <2>2, <2>3, GoesOn DEF SessionSteps
  <1>6. CASE own[p].client \notin accepted /\ own[p].attempt = "first" /\ credentials
             /\ Step(p, "logIn", Attempts(p, "relogged")) /\ UNCHANGED excused
    <2>1. Attempts(p, "relogged") \in Memories /\ Attempts(p, "relogged").runs = own[p].runs
      BY <1>1, AttemptsIs
    <2>2. Moved(p) /\ pc'[p] = "logIn" /\ own'[p].runs = own[p].runs /\ result' = result
      BY <1>1, <1>6, <2>1, StepIs DEF Steps
    <2>3. FileInv'
      BY <1>1, <1>2, <2>2, FileStays DEF Saving, At
    <2>4. SessionOf(p)'
      BY <2>2 DEF SessionOf
    <2> QED
      BY <1>1, <1>3, <1>4, <1>6, <2>2, <2>3, <2>4, GoesOn DEF SessionSteps
  <1>7. ASSUME GiveUp(p), excused' \in {excused, excused \cup {p}}, credentials => p \in excused'
        PROVE  IInv'
    <2>1. Moved(p) /\ ~Saving(p)'
      BY <1>1, <1>7, GiveUpIs DEF Saving, At
    <2>2. FileInv'
      BY <1>1, <1>2, <2>1, FileStays
    <2> QED
      BY <1>1, <1>2, <1>3, <1>7, <2>2, GiveUpCares
  <1>8. CASE own[p].client \notin accepted /\ ~(own[p].attempt = "first" /\ credentials) /\ GiveUp(p) /\ UNCHANGED excused
    <2>1. credentials => p \in excused
      BY <1>1, <1>8 DEF SessionOf, At
    <2> QED
      BY <1>7, <1>8, <2>1
  <1>9. CASE GiveUp(p) /\ excused' = excused \cup {p}
    BY <1>7, <1>9
  <1> QED
    BY <1>5, <1>6, <1>8, <1>9 DEF Validate

LEMMA LogInKeeps ==
  ASSUME IInv, NEW p \in Processes, LogIn(p), UNCHANGED updateVars
  PROVE  IInv'
  <1>1. At(p, "logIn") /\ Running(p) /\ ~Saving(p) /\ TypeOK
    BY DEF LogIn, At, Running, Saving, IInv
  <1>2. UNCHANGED <<sessionFile, credentials, spoiled>> /\ accepted' \in {accepted, accepted \cup {p}}
    BY DEF LogIn
  <1>3. Shared
    BY <1>1, <1>2 DEF Shared, TypeOK, updateVars, Logins
  <1>4. CASE accepted' = accepted \cup {p} /\ Continue(p, "openSession")
    <2>1. Moved(p) /\ pc'[p] = "openSession" /\ own'[p] = own[p] /\ result' = result /\ excused' = excused
      BY <1>1, <1>4, ContinueIs DEF Steps
    <2>2. FileInv'
      BY <1>1, <1>2, <2>1, FileStays DEF Saving, At
    <2>3. SessionOf(p)'
      BY <1>4, <2>1 DEF SessionOf
    <2>4. p \in excused \/ ~spoiled'
      BY <1>1, <1>2, Freely
    <2> QED
      BY <1>1, <1>3, <2>1, <2>2, <2>3, <2>4, GoesOn DEF SessionSteps
  <1>5. CASE GiveUp(p) /\ excused' = excused \cup {p}
    <2>1. Moved(p) /\ ~Saving(p)'
      BY <1>1, <1>5, GiveUpIs DEF Saving, At
    <2>2. FileInv'
      BY <1>1, <1>2, <2>1, FileStays
    <2> QED
      BY <1>1, <1>2, <1>3, <1>5, <2>2, GiveUpCares
  <1> QED
    BY <1>4, <1>5 DEF LogIn

LEMMA OpenSessionKeeps ==
  ASSUME IInv, NEW p \in Processes, OpenSession(p), UNCHANGED updateVars
  PROVE  IInv'
  <1>1. At(p, "openSession") /\ Running(p) /\ TypeOK /\ Continue(p, "saveSession") /\ SessionOf(p)
    BY DEF OpenSession, At, Running, IInv
  <1>2. /\ sessionFile' = Empty /\ spoiled' = \E q \in Processes \ {p} : Saving(q)
        /\ UNCHANGED <<accepted, credentials>>
    BY DEF OpenSession, Saving
  <1>3. Shared
    <2>1. spoiled' \in BOOLEAN
      BY <1>2
    <2> QED
      BY <1>1, <1>2, <2>1 DEF Shared, TypeOK, updateVars
  <1>4. Moved(p) /\ pc'[p] = "saveSession" /\ own'[p] = own[p] /\ result' = result /\ excused' = excused
    BY <1>1, ContinueIs DEF Steps
  <1>5. FileInv'
    <2>1. \A q \in Processes \ {p} : Saving(q)' = Saving(q)
      BY <1>4 DEF Moved, Saving, At
    <2>2. Saving(p)'
      BY <1>4 DEF Saving, At
    <2> QED
      BY <1>2, <2>1, <2>2 DEF FileInv
  <1>6. p \in excused \/ ~spoiled'
    BY <1>1, <1>2, Freely
  <1>7. SessionOf(p)'
    BY <1>1, <1>2, <1>4 DEF SessionOf, At, Running
  <1> QED
    BY <1>1, <1>3, <1>4, <1>5, <1>6, <1>7, GoesOn DEF SessionSteps

LEMMA SaveSessionKeeps ==
  ASSUME IInv, NEW p \in Processes, SaveSession(p), UNCHANGED updateVars
  PROVE  IInv'
  <1>1. At(p, "saveSession") /\ Saving(p) /\ Running(p) /\ TypeOK /\ SessionOf(p) /\ FileInv
    BY DEF SaveSession, At, Running, Saving, IInv
  <1>2. UNCHANGED <<accepted, credentials, spoiled>> /\ sessionFile' \in Overwritten(sessionFile, p)
    BY DEF SaveSession
  <1>3. sessionFile' \in {p, Mixed} /\ (sessionFile = Empty => sessionFile' = p)
    BY <1>2 DEF Overwritten
  <1>4. Shared
    <2>1. p \in Logins
      BY DEF Logins
    <2> QED
      BY <1>1, <1>2, <1>3, <2>1 DEF Shared, TypeOK, updateVars
  <1>5. ASSUME Moved(p), ~Saving(p)'
        PROVE  FileInv'
    <2>1. \A q \in Processes \ {p} : Saving(q)' = Saving(q)
      BY <1>5 DEF Moved, Saving, At
    <2>2. CASE ~spoiled
      <3>1. sessionFile = Empty /\ \A q \in Processes \ {p} : ~Saving(q)
        BY <1>1, <2>2 DEF FileInv
      <3>2. ~Torn(sessionFile')
        BY <1>3, <3>1, FilesDiffer DEF Torn, Logins
      <3> QED
        BY <1>5, <2>1, <3>1, <3>2 DEF FileInv
    <2> QED
      BY <1>2, <2>2 DEF FileInv
  <1>6. CASE Continue(p, "load")
    <2>1. Moved(p) /\ pc'[p] = "load" /\ own'[p] = own[p] /\ result' = result /\ excused' = excused
      BY <1>1, <1>6, ContinueIs DEF Steps
    <2>2. FileInv'
      BY <1>5, <2>1 DEF Saving, At
    <2>3. p \in excused \/ ~spoiled'
      BY <1>1, <1>2, Freely
    <2>4. SessionOf(p)'
      <3>1. ASSUME p \notin excused, credentials
            PROVE  sessionFile' = p /\ p \in accepted
        BY <1>1, <1>3, <3>1, Freely DEF FileInv, SessionOf, At
      <3> QED
        BY <1>2, <2>1, <3>1 DEF SessionOf
    <2> QED
      BY <1>1, <1>4, <2>1, <2>2, <2>3, <2>4, GoesOn DEF SessionSteps
  <1>7. CASE Succeeds(p)
    <2>1. Moved(p) /\ pc'[p] = "done" /\ own'[p] = Blank /\ result'[p] = "ok" /\ excused' = excused
      BY <1>1, <1>7, SucceedsIs
    <2>2. FileInv'
      BY <1>5, <2>1 DEF Saving, At
    <2> QED
      BY <1>1, <1>4, <2>1, <2>2, EndCares
  <1> QED
    BY <1>6, <1>7 DEF SaveSession

(* A command that ends, or goes on, away from the session file.            *)
LEMMA Away ==
  ASSUME IInv, NEW p \in Processes, Running(p), ~Saving(p), UNCHANGED updateVars,
         UNCHANGED <<sessionFile, accepted, credentials, spoiled>>
  PROVE  /\ Shared
         /\ Succeeds(p) => IInv'
         /\ Breaks(p) => IInv'
         /\ \A s \in SessionSteps : Continue(p, s) /\ SessionOf(p)' /\ s # "saveSession" => IInv'
  <1>1. TypeOK
    BY DEF IInv
  <1>2. Shared
    BY <1>1 DEF Shared, TypeOK, updateVars
  <1>3. ASSUME Succeeds(p) PROVE IInv'
    <2>1. Moved(p) /\ pc'[p] = "done" /\ own'[p] = Blank /\ result'[p] = "ok" /\ excused' = excused
      BY <1>1, <1>3, SucceedsIs
    <2>2. FileInv'
      BY <2>1, FileStays DEF Saving, At
    <2> QED
      BY <1>2, <2>1, <2>2, EndCares
  <1>4. ASSUME Breaks(p) PROVE IInv'
    <2>1. Moved(p) /\ pc'[p] = "done" /\ own'[p] = Blank /\ excused' = excused \cup {p}
      BY <1>1, <1>4, BreaksIs
    <2>2. FileInv'
      BY <2>1, FileStays DEF Saving, At
    <2> QED
      BY <1>2, <2>1, <2>2, EndCares
  <1>5. ASSUME NEW s \in SessionSteps, Continue(p, s), SessionOf(p)', s # "saveSession" PROVE IInv'
    <2>1. s \in Steps
      BY DEF SessionSteps, Steps
    <2>2. Moved(p) /\ pc'[p] = s /\ own'[p] = own[p] /\ result' = result /\ excused' = excused
      BY <1>1, <1>5, <2>1, ContinueIs
    <2>3. FileInv'
      BY <1>5, <2>2, FileStays DEF Saving, At
    <2>4. p \in excused \/ ~spoiled'
      BY Freely
    <2> QED
      BY <1>2, <1>5, <2>2, <2>3, <2>4, GoesOn
  <1> QED
    BY <1>2, <1>3, <1>4, <1>5

LEMMA ReadingKeeps ==
  ASSUME IInv, NEW p \in Processes, Read(p) \/ FetchQR(p) \/ ExchangeQR(p) \/ Launch(p), UNCHANGED updateVars
  PROVE  IInv'
  <1>1. pc[p] \in {"ensured", "exchange", "launch"} /\ Running(p) /\ ~Saving(p) /\ TypeOK
    BY DEF Read, FetchQR, ExchangeQR, Launch, At, Running, Saving, IInv
  <1>2. UNCHANGED <<sessionFile, accepted, credentials, spoiled>>
    BY DEF Read, FetchQR, ExchangeQR, Launch, sessionVars
  <1>3. ASSUME NEW s \in {"exchange", "openMobile"}, Continue(p, s) PROVE IInv'
    <2>1. s \in SessionSteps /\ s \in Steps /\ s # "saveSession"
      BY DEF SessionSteps, Steps
    <2>2. pc'[p] = s
      BY <1>1, <1>3, <2>1, ContinueIs
    <2>3. SessionOf(p)'
      BY <2>2 DEF SessionOf
    <2> QED
      BY <1>1, <1>2, <1>3, <2>1, <2>3, Away
  <1>4. Succeeds(p) \/ Breaks(p) \/ (\E s \in {"exchange", "openMobile"} : Continue(p, s))
    BY DEF Read, FetchQR, ExchangeQR, Launch
  <1> QED
    BY <1>1, <1>2, <1>3, <1>4, Away

LEMMA LoadMobileKeeps ==
  ASSUME IInv, NEW p \in Processes, LoadMobile(p), UNCHANGED updateVars
  PROVE  IInv'
  <1>1. At(p, "loadMobile") /\ Running(p) /\ ~Saving(p) /\ TypeOK /\ SessionOf(p)
    BY DEF LoadMobile, At, Running, Saving, IInv
  <1>2. UNCHANGED <<sessionFile, accepted, credentials, spoiled, excused>>
    BY DEF LoadMobile, sessionVars
  <1>3. Shared
    BY <1>1, <1>2, Away
  <1>4. \E how \in {"ok", "error"} : Ends(p, how)
    BY DEF LoadMobile
  <1>5. Moved(p) /\ pc'[p] = "done" /\ own'[p] = Blank
    BY <1>1, <1>4, EndsIs
  <1>6. FileInv'
    BY <1>1, <1>2, <1>5, FileStays DEF Saving, At
  <1>7. credentials => p \in excused
    BY <1>1 DEF SessionOf, At
  <1> QED
    BY <1>1, <1>2, <1>3, <1>5, <1>6, <1>7, EndCares

LEMMA LoadAgainKeeps ==
  ASSUME IInv, NEW p \in Processes, LoadAgain(p), UNCHANGED updateVars
  PROVE  IInv'
  <1>1. At(p, "ensured") /\ Running(p) /\ ~Saving(p) /\ TypeOK /\ SessionOf(p)
    BY DEF LoadAgain, At, Running, Saving, IInv
  <1>2. UNCHANGED <<sessionFile, accepted, credentials, spoiled, excused>>
    BY DEF LoadAgain, sessionVars
  <1>3. Shared
    BY <1>1, <1>2, Away
  <1>4. CASE Step(p, "launch", Has(p, sessionFile))
    <2>1. Has(p, sessionFile) \in Memories /\ Has(p, sessionFile).runs = own[p].runs
      <3>1. sessionFile \in {Absent, Empty, Mixed} \cup Logins
        BY <1>1 DEF TypeOK
      <3> QED
        BY <1>1, <3>1, HasIs
    <2>2. Moved(p) /\ pc'[p] = "launch" /\ own'[p].runs = own[p].runs /\ result' = result
      BY <1>1, <1>4, <2>1, StepIs DEF Steps
    <2>3. FileInv'
      BY <1>1, <1>2, <2>2, FileStays DEF Saving, At
    <2>4. SessionOf(p)'
      BY <2>2 DEF SessionOf
    <2>5. p \in excused \/ ~spoiled'
      BY <1>1, <1>2, Freely
    <2> QED
      BY <1>1, <1>2, <1>3, <2>2, <2>3, <2>4, <2>5, GoesOn DEF SessionSteps
  <1>5. CASE ~Readable(sessionFile) /\ Ends(p, "error")
    <2>1. Moved(p) /\ pc'[p] = "done" /\ own'[p] = Blank
      BY <1>1, <1>5, EndsIs
    <2>2. FileInv'
      BY <1>1, <1>2, <2>1, FileStays DEF Saving, At
    <2>3. credentials => p \in excused
      BY <1>1, <1>5 DEF SessionOf, At
    <2> QED
      BY <1>1, <1>2, <1>3, <2>1, <2>2, <2>3, EndCares
  <1> QED
    BY <1>4, <1>5 DEF LoadAgain

LEMMA MobileKeeps ==
  ASSUME IInv, NEW p \in Processes, OpenMobile(p) \/ SaveMobile(p), UNCHANGED updateVars
  PROVE  IInv'
  <1>1. pc[p] \in {"openMobile", "saveMobile"} /\ Running(p) /\ ~Saving(p) /\ TypeOK
    BY DEF OpenMobile, SaveMobile, At, Running, Saving, IInv
  <1>2. UNCHANGED <<sessionFile, accepted, credentials, spoiled>>
    BY DEF OpenMobile, SaveMobile
  <1>3. ASSUME Continue(p, "saveMobile") PROVE IInv'
    <2>1. "saveMobile" \in SessionSteps /\ "saveMobile" \in Steps
      BY DEF SessionSteps, Steps
    <2>2. pc'[p] = "saveMobile"
      BY <1>1, <1>3, <2>1, ContinueIs
    <2>3. SessionOf(p)'
      BY <2>2 DEF SessionOf
    <2> QED
      BY <1>1, <1>2, <1>3, <2>1, <2>3, Away
  <1>4. Continue(p, "saveMobile") \/ Succeeds(p) \/ Breaks(p)
    BY DEF OpenMobile, SaveMobile
  <1> QED
    BY <1>1, <1>2, <1>3, <1>4, Away

(* A process that stops, excused: a file that fails, a kill.               *)
LEMMA StopKeeps ==
  ASSUME IInv, NEW p \in Processes, Running(p), UNCHANGED updateVars,
         UNCHANGED <<sessionFile, accepted, credentials>>, spoiled' = (spoiled \/ Saving(p)),
         Breaks(p) \/ (GiveUp(p) /\ excused' = excused \cup {p})
  PROVE  IInv'
  <1>1. TypeOK
    BY DEF IInv
  <1>2. Shared
    BY <1>1 DEF Shared, TypeOK, updateVars
  <1>3. Moved(p) /\ pc'[p] \in {"done", "loadMobile"} /\ excused' = excused \cup {p}
    BY <1>1, BreaksIs, GiveUpIs
  <1>4. FileInv'
    <2>1. CASE Saving(p)
      BY <2>1, FileSpoils
    <2>2. CASE ~Saving(p)
      BY <1>1, <1>3, <2>2, FileStays DEF Saving, At, TypeOK
    <2> QED
      BY <2>1, <2>2
  <1>5. CASE Breaks(p)
    <2>1. pc'[p] = "done" /\ own'[p] = Blank
      BY <1>1, <1>5, BreaksIs
    <2> QED
      BY <1>2, <1>3, <1>4, <2>1, EndCares
  <1>6. CASE GiveUp(p)
    BY <1>2, <1>3, <1>4, <1>6, GiveUpCares
  <1> QED
    BY <1>5, <1>6

LEMMA FileFailsKeeps ==
  ASSUME IInv, NEW p \in Processes, FileFails(p), UNCHANGED updateVars
  PROVE  IInv'
  <1>1. Running(p)
    BY DEF FileFails, Running
  <1>2. /\ spoiled' = (spoiled \/ Saving(p)) /\ UNCHANGED <<sessionFile, accepted, credentials>>
        /\ Breaks(p) \/ (GiveUp(p) /\ excused' = excused \cup {p})
    BY DEF FileFails, Saving
  <1> QED
    BY <1>1, <1>2, StopKeeps

LEMMA DiesKeeps ==
  ASSUME IInv, NEW p \in Processes, Dies(p)
  PROVE  IInv'
  <1>1. /\ Running(p) /\ Breaks(p) /\ spoiled' = (spoiled \/ Saving(p))
        /\ UNCHANGED <<sessionFile, accepted, credentials>> /\ UNCHANGED updateVars
    BY DEF Dies, Saving, updateVars
  <1> QED
    BY <1>1, StopKeeps

LEMMA ExpireKeeps ==
  ASSUME IInv, NEW n \in Logins, Expire(n), UNCHANGED updateVars
  PROVE  IInv'
  <1> USE DEF IInv
  <1>1. UNCHANGED <<command, pc, own, result, sessionFile, credentials, spoiled>>
    BY DEF Expire
  <1>2. accepted' = accepted \ {n} /\ excused' = excused \cup {p \in Processes : Running(p)}
    BY DEF Expire
  <1>3. TypeOK'
    BY <1>1, <1>2 DEF TypeOK, updateVars
  <1>4. FileInv'
    BY <1>1 DEF FileInv, Saving, At, Torn
  <1>5. ASSUME NEW p \in Processes PROVE Working(p)' /\ Alone(p)' /\ SessionOf(p)' /\ Ended(p)'
    <2>1. Working(p)'
      BY <1>1 DEF Working, Running, At
    <2>2. Running(p)' => p \in excused'
      BY <1>1, <1>2 DEF Running
    <2>3. Ended(p)'
      BY <1>1, <1>2 DEF Ended
    <2> QED
      BY <2>1, <2>2, <2>3 DEF Alone, SessionOf
  <1> QED
    BY <1>3, <1>4, <1>5

LEMMA BeginKeeps ==
  ASSUME IInv, NEW p \in Processes, Begin(p)
  PROVE  IInv'
  <1> USE DEF IInv
  <1> DEFINE others == {q \in Processes : Running(q)}
  <1>1. PICK k \in Kinds : Start(p, k, program.version)
    BY DEF Begin
  <1>2. At(p, "idle") /\ ~Running(p) /\ own[p] = Blank
    BY <1>1 DEF Start, Running, At, Working
  <1>3. UNCHANGED <<sessionFile, accepted, credentials, spoiled, latest, program, stateFile, result>>
    BY <1>1 DEF Begin, Start, sessionVars, updateVars
  <1>4. excused' = excused \cup others \cup (IF others # {} \/ spoiled THEN {p} ELSE {})
    BY DEF Begin
  <1>5. PICK s \in {First(k), "check"} : pc' = [pc EXCEPT ![p] = s]
    BY <1>1 DEF Start
  <1>6. s \in {"release", "logIn", "load", "check"}
    BY <1>5 DEF First
  <1>7. program.version \in Versions
    BY DEF TypeOK
  <1>8. own' = [own EXCEPT ![p] = [Blank EXCEPT !.runs = program.version]]
    BY <1>1, <1>2 DEF Start, TypeOK
  <1>9. [Blank EXCEPT !.runs = program.version] \in Memories
    BY <1>7, BlankIsMemory DEF Memories
  <1>10. TypeOK'
    <2>1. command' \in [Processes -> Kinds \cup {None}]
      BY <1>1 DEF Start, TypeOK
    <2>2. pc' \in [Processes -> Steps]
      BY <1>5, <1>6 DEF TypeOK, Steps
    <2>3. own' \in [Processes -> Memories]
      BY <1>8, <1>9 DEF TypeOK
    <2>4. excused' \subseteq Processes
      BY <1>4 DEF TypeOK
    <2> QED
      BY <1>3, <2>1, <2>2, <2>3, <2>4 DEF TypeOK
  <1>11. pc'[p] = s /\ own'[p] = [Blank EXCEPT !.runs = program.version] /\ command'[p] = k
    BY <1>1, <1>5, <1>8 DEF Start, TypeOK
  <1>12. \A q \in Processes \ {p} : pc'[q] = pc[q] /\ own'[q] = own[q]
    BY <1>5, <1>8 DEF TypeOK
  <1>13. FileInv'
    <2>1. \A q \in Processes : pc'[q] = "saveSession" <=> pc[q] = "saveSession"
      BY <1>2, <1>6, <1>11, <1>12 DEF At
    <2>2. \A q \in Processes : Saving(q)' <=> Saving(q)
      BY <2>1 DEF Saving, At
    <2> QED
      BY <1>3, <2>2 DEF FileInv, Torn
  <1>14. ASSUME NEW q \in Processes PROVE Working(q)' /\ Alone(q)' /\ SessionOf(q)' /\ Ended(q)'
    <2>1. Ended(q)'
      BY <1>3, <1>4 DEF Ended
    <2>2. CASE q # p
      <3>1. pc'[q] = pc[q] /\ own'[q] = own[q] /\ command'[q] = command[q]
        BY <1>1, <1>12, <2>2 DEF Start, TypeOK
      <3>2. Working(q)'
        BY <3>1 DEF Working, Running, At
      <3>3. Running(q)' => q \in excused'
        BY <1>4, <3>1 DEF Running
      <3> QED
        BY <2>1, <3>2, <3>3 DEF Alone, SessionOf
    <2>3. CASE q = p
      <3>1. own'[p].runs \in Versions /\ own'[p].attempt = "first"
        BY <1>7, <1>11, BlankIsMemory DEF Blank
      <3>2. Working(p)'
        BY <1>6, <1>11, <3>1 DEF Working, Running, At, Checking, Keeping
      <3>3. p \notin excused' => others = {} /\ ~spoiled
        BY <1>4
      <3>4. Alone(p)'
        BY <1>3, <1>12, <3>3 DEF Alone, Running
      <3>5. SessionOf(p)'
        BY <1>6, <1>11, <3>1 DEF SessionOf
      <3> QED
        BY <2>1, <2>3, <3>2, <3>4, <3>5
    <2> QED
      BY <2>2, <2>3
  <1> QED
    BY <1>10, <1>13, <1>14

-----------------------------------------------------------------------------
(* The update *)

(* A step that is nothing to the session.                                  *)
LEMMA Elsewhere ==
  ASSUME IInv, NEW p \in Processes, Running(p), ~Saving(p), Moved(p), UNCHANGED sessionVars,
         latest' = latest, program' \in [version : Versions, whole : BOOLEAN],
         stateFile' \in {Absent, Empty, Mixed} \cup States,
         pc'[p] \notin {"done", "saveSession", "openSession", "loadMobile", "validate", "ensured"},
         pc'[p] = "load" => own'[p].attempt = "first", result' = result, excused' = excused, Working(p)'
  PROVE  IInv'
  <1>1. TypeOK
    BY DEF IInv
  <1>2. UNCHANGED <<sessionFile, accepted, credentials, spoiled>>
    BY DEF sessionVars
  <1>3. Shared
    BY <1>1, <1>2 DEF Shared, TypeOK
  <1>4. FileInv'
    BY <1>2, FileStays DEF Saving, At
  <1>5. SessionOf(p)'
    BY DEF SessionOf
  <1>6. Ended(p)'
    BY <1>2 DEF Ended, IInv
  <1>7. p \in excused \/ ~spoiled'
    BY <1>2, Freely
  <1> QED
    BY <1>3, <1>4, <1>5, <1>6, <1>7, OwnStep DEF Cares

(* The end of an update, and of the check with an error.                   *)
LEMMA Finishes ==
  ASSUME IInv, NEW p \in Processes, Running(p), ~Saving(p), Succeeds(p) \/ Breaks(p), UNCHANGED sessionVars,
         latest' = latest, program' \in [version : Versions, whole : BOOLEAN],
         stateFile' \in {Absent, Empty, Mixed} \cup States
  PROVE  IInv'
  <1>1. TypeOK
    BY DEF IInv
  <1>2. UNCHANGED <<sessionFile, accepted, credentials, spoiled>>
    BY DEF sessionVars
  <1>3. Shared
    BY <1>1, <1>2 DEF Shared, TypeOK
  <1>4. /\ Moved(p) /\ pc'[p] = "done" /\ own'[p] = Blank /\ excused' \in {excused, excused \cup {p}}
        /\ result'[p] = "error" => p \in excused'
    BY <1>1, SucceedsIs, BreaksIs
  <1>5. FileInv'
    BY <1>2, <1>4, FileStays DEF Saving, At
  <1> QED
    BY <1>3, <1>4, <1>5, EndCares

LEMMA SavesIs ==
  ASSUME TypeOK, NEW p \in Processes, NEW s \in Steps, NEW state \in States \cup {None}, Saves(p, s, state)
  PROVE  /\ Moved(p) /\ pc'[p] = s /\ result' = result /\ excused' = excused /\ command' = command
         /\ own'[p].state = state /\ own'[p].attempt = own[p].attempt /\ own'[p].runs = own[p].runs
         /\ own'[p].release = own[p].release /\ own'[p].archive = own[p].archive
  <1>1. own[p] \in Memories
    BY DEF TypeOK
  <1>2. [own[p] EXCEPT !.state = state] \in Memories
    BY <1>1 DEF Memories
  <1>3. Moved(p) /\ pc'[p] = s /\ own'[p] = [own[p] EXCEPT !.state = state] /\ command' = command /\ result' = result
    BY <1>2, StepIs DEF Saves
  <1> QED
    BY <1>1, <1>3 DEF Saves, Memories

(* The check for a release is over, and the command begins.                *)
LEMMA CheckIsDone ==
  ASSUME IInv, NEW p \in Processes, pc[p] \in Checking, CheckDone(p), UNCHANGED sessionVars,
         latest' = latest, program' = program, stateFile' \in {Absent, Empty, Mixed} \cup States
  PROVE  IInv'
  <1> DEFINE s == First(command[p])
  <1>1. TypeOK /\ Running(p) /\ ~Saving(p) /\ Working(p)
    BY DEF IInv, Checking, Running, Saving, At
  <1>2. s \in {"release", "logIn", "load"} /\ s \in Steps
    BY DEF First, Steps
  <1>3. Saves(p, s, None)
    BY DEF CheckDone
  <1> HIDE DEF s
  <1>4. /\ Moved(p) /\ pc'[p] = s /\ result' = result /\ excused' = excused
        /\ own'[p].attempt = own[p].attempt /\ own'[p].runs = own[p].runs
    BY <1>1, <1>2, <1>3, SavesIs
  <1>5. own[p].attempt = "first" /\ own[p].runs \in Versions
    BY <1>1 DEF Working
  <1>6. Working(p)'
    BY <1>2, <1>4, <1>5 DEF Working, Running, At, Checking, Keeping
  <1>7. program' \in [version : Versions, whole : BOOLEAN]
    BY <1>1 DEF TypeOK
  <1> QED
    BY <1>1, <1>2, <1>4, <1>5, <1>6, <1>7, Elsewhere

LEMMA LoadedIsState ==
  ASSUME TypeOK, ~Torn(stateFile)
  PROVE  Loaded \in States /\ [Loaded EXCEPT !.today = TRUE] \in States
  <1>1. NoState \in States
    BY DEF NoState, States
  <1>2. Loaded \in States
    BY <1>1 DEF Loaded, TypeOK, Torn
  <1> QED
    BY <1>2 DEF States

LEMMA CheckStateKeeps ==
  ASSUME IInv, NEW p \in Processes, CheckState(p), UNCHANGED sessionVars
  PROVE  IInv'
  <1>1. At(p, "check") /\ pc[p] \in Checking /\ Running(p) /\ ~Saving(p) /\ TypeOK /\ Working(p)
    BY DEF CheckState, At, Checking, Running, Saving, IInv
  <1>2. latest' = latest /\ program' = program /\ stateFile' = stateFile
    BY DEF CheckState, updateVars
  <1>3. program' \in [version : Versions, whole : BOOLEAN] /\ stateFile' \in {Absent, Empty, Mixed} \cup States
    BY <1>1, <1>2 DEF TypeOK
  <1>4. CASE ~Torn(stateFile) /\ Saves(p, "openChecked", [Loaded EXCEPT !.today = TRUE])
    <2>1. [Loaded EXCEPT !.today = TRUE] \in States
      BY <1>1, <1>4, LoadedIsState
    <2>2. /\ Moved(p) /\ pc'[p] = "openChecked" /\ result' = result /\ excused' = excused /\ command' = command
          /\ own'[p].state \in States /\ own'[p].attempt = own[p].attempt /\ own'[p].runs = own[p].runs
      BY <1>1, <1>4, <2>1, SavesIs DEF Steps
    <2>3. Working(p)'
      BY <1>1, <2>2 DEF Working, Running, At, Checking, Keeping
    <2> QED
      BY <1>1, <1>2, <1>3, <2>2, <2>3, Elsewhere
  <1>5. CASE CheckDone(p)
    BY <1>1, <1>2, <1>3, <1>5, CheckIsDone
  <1> QED
    BY <1>4, <1>5 DEF CheckState

LEMMA Continues ==
  ASSUME IInv, NEW p \in Processes, NEW s \in Steps, Continue(p, s), Running(p), ~Saving(p), UNCHANGED sessionVars,
         latest' = latest, program' \in [version : Versions, whole : BOOLEAN],
         stateFile' \in {Absent, Empty, Mixed} \cup States,
         \/ pc[p] \in Checking /\ s \in {"saveChecked", "ask", "saveTold"} /\ own[p].state \in States
         \/ s = "saveInstalled" /\ own[p].state \in States
         \/ s = "replace" /\ own[p].archive = TRUE /\ own[p].release \in Tags /\ NeedsUpdate(own[p].runs, own[p].release)
         \/ s = "installed"
  PROVE  IInv'
  <1>1. TypeOK /\ Working(p)
    BY DEF IInv
  <1>2. Moved(p) /\ pc'[p] = s /\ own'[p] = own[p] /\ command' = command /\ result' = result /\ excused' = excused
    BY <1>1, ContinueIs
  <1>3. Working(p)'
    BY <1>1, <1>2 DEF Working, Running, At, Checking, Keeping
  <1> QED
    BY <1>2, <1>3, Elsewhere

LEMMA OpenStateKeeps ==
  ASSUME IInv, NEW p \in Processes, OpenState(p), UNCHANGED sessionVars
  PROVE  IInv'
  <1>1. pc[p] \in {"openChecked", "openTold", "openInstalled"} /\ Running(p) /\ ~Saving(p) /\ TypeOK /\ Working(p)
    BY DEF OpenState, At, Running, Saving, IInv
  <1>2. latest' = latest /\ program' = program /\ stateFile' = Empty
    BY DEF OpenState
  <1>3. program' \in [version : Versions, whole : BOOLEAN] /\ stateFile' \in {Absent, Empty, Mixed} \cup States
    BY <1>1, <1>2 DEF TypeOK
  <1>4. own[p].state \in States
    BY <1>1 DEF Working, Keeping
  <1>5. CASE At(p, "openInstalled") /\ Continue(p, "saveInstalled")
    BY <1>1, <1>2, <1>3, <1>4, <1>5, Continues DEF Steps
  <1>6. CASE At(p, "openChecked") /\ Continue(p, "saveChecked")
    BY <1>1, <1>2, <1>3, <1>4, <1>6, Continues DEF Steps, Checking, At
  <1>7. CASE At(p, "openTold") /\ Continue(p, "saveTold")
    BY <1>1, <1>2, <1>3, <1>4, <1>7, Continues DEF Steps, Checking, At
  <1> QED
    BY <1>5, <1>6, <1>7 DEF OpenState

LEMMA SaveStateKeeps ==
  ASSUME IInv, NEW p \in Processes, SaveState(p), UNCHANGED sessionVars
  PROVE  IInv'
  <1>1. pc[p] \in {"saveChecked", "saveTold", "saveInstalled"} /\ Running(p) /\ ~Saving(p) /\ TypeOK /\ Working(p)
    BY DEF SaveState, At, Running, Saving, IInv
  <1>2. latest' = latest /\ program' = program /\ stateFile' \in Overwritten(stateFile, own[p].state)
    BY DEF SaveState
  <1>3. own[p].state \in States
    BY <1>1 DEF Working, Keeping
  <1>4. program' \in [version : Versions, whole : BOOLEAN] /\ stateFile' \in {Absent, Empty, Mixed} \cup States
    BY <1>1, <1>2, <1>3 DEF TypeOK, Overwritten
  <1>5. CASE At(p, "saveChecked") /\ Continue(p, "ask")
    BY <1>1, <1>2, <1>3, <1>4, <1>5, Continues DEF Steps, Checking, At
  <1>6. CASE At(p, "saveTold") /\ CheckDone(p)
    BY <1>2, <1>4, <1>6, CheckIsDone DEF Checking, At
  <1>7. CASE Succeeds(p)
    BY <1>1, <1>2, <1>4, <1>7, Finishes
  <1> QED
    BY <1>5, <1>6, <1>7 DEF SaveState

LEMMA StateFailsKeeps ==
  ASSUME IInv, NEW p \in Processes, StateFails(p), UNCHANGED sessionVars
  PROVE  IInv'
  <1>1. pc[p] \in Keeping /\ Running(p) /\ ~Saving(p) /\ TypeOK
    BY DEF StateFails, Running, Saving, At, Keeping, IInv
  <1>2. latest' = latest /\ program' = program /\ stateFile' = stateFile
    BY DEF StateFails, updateVars
  <1>3. program' \in [version : Versions, whole : BOOLEAN] /\ stateFile' \in {Absent, Empty, Mixed} \cup States
    BY <1>1, <1>2 DEF TypeOK
  <1>4. CASE pc[p] \in {"openChecked", "saveChecked"} /\ CheckDone(p)
    BY <1>2, <1>3, <1>4, CheckIsDone DEF Checking
  <1>5. CASE Succeeds(p) \/ Breaks(p)
    BY <1>1, <1>2, <1>3, <1>5, Finishes
  <1> QED
    BY <1>4, <1>5 DEF StateFails

LEMMA AskKeeps ==
  ASSUME IInv, NEW p \in Processes, Ask(p), UNCHANGED sessionVars
  PROVE  IInv'
  <1>1. At(p, "ask") /\ pc[p] \in Checking /\ Running(p) /\ ~Saving(p) /\ TypeOK /\ Working(p)
    BY DEF Ask, At, Checking, Running, Saving, IInv
  <1>2. latest' = latest /\ program' = program /\ stateFile' = stateFile
    BY DEF Ask, updateVars
  <1>3. program' \in [version : Versions, whole : BOOLEAN] /\ stateFile' \in {Absent, Empty, Mixed} \cup States
    BY <1>1, <1>2 DEF TypeOK
  <1> DEFINE news == IF NeedsUpdate(own[p].runs, latest) THEN latest ELSE None
  <1>4. CASE Saves(p, "openTold", [own[p].state EXCEPT !.notified = news])
    <2>1. own[p].state \in States
      BY <1>1 DEF Working, Keeping, At
    <2>2. news \in Versions \cup {None}
      BY <1>1 DEF TypeOK, Versions
    <2> HIDE DEF news
    <2>3. [own[p].state EXCEPT !.notified = news] \in States
      BY <2>1, <2>2 DEF States
    <2>4. /\ Moved(p) /\ pc'[p] = "openTold" /\ result' = result /\ excused' = excused /\ command' = command
          /\ own'[p].state \in States /\ own'[p].attempt = own[p].attempt /\ own'[p].runs = own[p].runs
      BY <1>1, <1>4, <2>3, SavesIs DEF Steps
    <2>5. Working(p)'
      BY <1>1, <2>4 DEF Working, Running, At, Checking, Keeping
    <2> QED
      BY <1>1, <1>2, <1>3, <2>4, <2>5, Elsewhere
  <1>5. CASE CheckDone(p)
    BY <1>1, <1>2, <1>3, <1>5, CheckIsDone
  <1> QED
    BY <1>4, <1>5 DEF Ask

LEMMA CheckReleaseKeeps ==
  ASSUME IInv, NEW p \in Processes, CheckRelease(p), UNCHANGED sessionVars
  PROVE  IInv'
  <1>1. At(p, "release") /\ Running(p) /\ ~Saving(p) /\ TypeOK /\ Working(p)
    BY DEF CheckRelease, At, Running, Saving, IInv
  <1>2. latest' = latest /\ program' = program /\ stateFile' = stateFile
    BY DEF CheckRelease, updateVars
  <1>3. program' \in [version : Versions, whole : BOOLEAN] /\ stateFile' \in {Absent, Empty, Mixed} \cup States
    BY <1>1, <1>2 DEF TypeOK
  <1>4. CASE /\ NeedsUpdate(own[p].runs, latest)
             /\ Step(p, "download", [own[p] EXCEPT !.release = latest]) /\ UNCHANGED excused
    <2>1. own[p] \in Memories /\ latest \in Tags
      BY <1>1 DEF TypeOK
    <2>2. [own[p] EXCEPT !.release = latest] \in Memories
      BY <2>1 DEF Memories, Versions
    <2>3. Moved(p) /\ pc'[p] = "download" /\ own'[p] = [own[p] EXCEPT !.release = latest] /\ result' = result
      BY <1>1, <1>4, <2>2, StepIs DEF Steps
    <2>4. own'[p].release = latest /\ own'[p].runs = own[p].runs
      BY <2>1, <2>3 DEF Memories
    <2>5. NeedsUpdate(own[p].runs, latest)
      BY <1>4
    <2>6. own[p].runs \in Versions
      BY <1>1 DEF Working
    <2>7. Working(p)'
      BY <2>1, <2>3, <2>4, <2>5, <2>6 DEF Working, Running, At, Checking, Keeping
    <2> QED
      BY <1>1, <1>2, <1>3, <1>4, <2>3, <2>7, Elsewhere
  <1>5. CASE Succeeds(p) \/ Breaks(p)
    BY <1>1, <1>2, <1>3, <1>5, Finishes
  <1> QED
    BY <1>4, <1>5 DEF CheckRelease

LEMMA DownloadKeeps ==
  ASSUME IInv, NEW p \in Processes, Download(p), UNCHANGED sessionVars
  PROVE  IInv'
  <1>1. At(p, "download") /\ Running(p) /\ ~Saving(p) /\ TypeOK /\ Working(p)
    BY DEF Download, At, Running, Saving, IInv
  <1>2. latest' = latest /\ program' = program /\ stateFile' = stateFile
    BY DEF Download, updateVars
  <1>3. program' \in [version : Versions, whole : BOOLEAN] /\ stateFile' \in {Absent, Empty, Mixed} \cup States
    BY <1>1, <1>2 DEF TypeOK
  <1>4. ASSUME NEW whole \in BOOLEAN, Step(p, "verify", [own[p] EXCEPT !.archive = whole]), UNCHANGED excused
        PROVE  IInv'
    <2>1. own[p] \in Memories
      BY <1>1 DEF TypeOK
    <2>2. [own[p] EXCEPT !.archive = whole] \in Memories
      BY <2>1 DEF Memories
    <2>3. Moved(p) /\ pc'[p] = "verify" /\ own'[p] = [own[p] EXCEPT !.archive = whole] /\ result' = result
      BY <1>1, <1>4, <2>2, StepIs DEF Steps
    <2>4. own'[p].release = own[p].release /\ own'[p].runs = own[p].runs /\ own'[p].archive \in BOOLEAN
      BY <2>1, <2>3 DEF Memories
    <2>5. Working(p)'
      BY <1>1, <2>3, <2>4 DEF Working, Running, At, Checking, Keeping
    <2> QED
      BY <1>1, <1>2, <1>3, <1>4, <2>3, <2>5, Elsewhere
  <1>5. CASE Breaks(p)
    BY <1>1, <1>2, <1>3, <1>5, Finishes
  <1> QED
    BY <1>4, <1>5 DEF Download

LEMMA VerifyKeeps ==
  ASSUME IInv, NEW p \in Processes, Verify(p), UNCHANGED sessionVars
  PROVE  IInv'
  <1>1. At(p, "verify") /\ Running(p) /\ ~Saving(p) /\ TypeOK /\ Working(p)
    BY DEF Verify, At, Running, Saving, IInv
  <1>2. latest' = latest /\ program' = program /\ stateFile' = stateFile
    BY DEF Verify, updateVars
  <1>3. program' \in [version : Versions, whole : BOOLEAN] /\ stateFile' \in {Absent, Empty, Mixed} \cup States
    BY <1>1, <1>2 DEF TypeOK
  <1>4. CASE own[p].archive /\ Continue(p, "replace")
    <2>1. own[p].archive = TRUE
      BY <1>1, <1>4 DEF Working, At
    <2>2. own[p].release \in Tags /\ NeedsUpdate(own[p].runs, own[p].release)
      BY <1>1 DEF Working, At
    <2> QED
      BY <1>1, <1>2, <1>3, <1>4, <2>1, <2>2, Continues DEF Steps
  <1>5. CASE Breaks(p)
    BY <1>1, <1>2, <1>3, <1>5, Finishes
  <1> QED
    BY <1>4, <1>5 DEF Verify

LEMMA ReplaceKeeps ==
  ASSUME IInv, NEW p \in Processes, Replace(p), UNCHANGED sessionVars
  PROVE  IInv'
  <1>1. At(p, "replace") /\ Running(p) /\ ~Saving(p) /\ TypeOK /\ Working(p)
    BY DEF Replace, At, Running, Saving, IInv
  <1>2. latest' = latest /\ stateFile' = stateFile
    BY DEF Replace
  <1>3. stateFile' \in {Absent, Empty, Mixed} \cup States
    BY <1>1, <1>2 DEF TypeOK
  <1>4. CASE program' = [version |-> own[p].release, whole |-> own[p].archive] /\ Continue(p, "installed")
    <2>1. own[p].release \in Versions /\ own[p].archive = TRUE
      BY <1>1 DEF Working, At, Versions
    <2>2. program' \in [version : Versions, whole : BOOLEAN]
      BY <1>4, <2>1
    <2> QED
      BY <1>1, <1>2, <1>3, <1>4, <2>2, Continues DEF Steps
  <1>5. CASE Breaks(p) /\ program' = program
    <2>1. program' \in [version : Versions, whole : BOOLEAN]
      BY <1>1, <1>5 DEF TypeOK
    <2> QED
      BY <1>1, <1>2, <1>3, <1>5, <2>1, Finishes
  <1> QED
    BY <1>4, <1>5 DEF Replace

LEMMA InstalledKeeps ==
  ASSUME IInv, NEW p \in Processes, Installed(p), UNCHANGED sessionVars
  PROVE  IInv'
  <1>1. At(p, "installed") /\ Running(p) /\ ~Saving(p) /\ TypeOK /\ Working(p)
    BY DEF Installed, At, Running, Saving, IInv
  <1>2. latest' = latest /\ program' = program /\ stateFile' = stateFile
    BY DEF Installed, updateVars
  <1>3. program' \in [version : Versions, whole : BOOLEAN] /\ stateFile' \in {Absent, Empty, Mixed} \cup States
    BY <1>1, <1>2 DEF TypeOK
  <1>4. CASE Saves(p, "openInstalled", [today |-> TRUE, notified |-> own[p].release])
    <2>1. own[p] \in Memories
      BY <1>1 DEF TypeOK
    <2>2. [today |-> TRUE, notified |-> own[p].release] \in States
      BY <2>1 DEF States, Memories
    <2>3. /\ Moved(p) /\ pc'[p] = "openInstalled" /\ result' = result /\ excused' = excused
          /\ own'[p].state \in States /\ own'[p].runs = own[p].runs
      BY <1>1, <1>4, <2>2, SavesIs DEF Steps
    <2>4. Working(p)'
      BY <1>1, <2>3 DEF Working, Running, At, Checking, Keeping
    <2> QED
      BY <1>1, <1>2, <1>3, <2>3, <2>4, Elsewhere
  <1>5. CASE Succeeds(p)
    BY <1>1, <1>2, <1>3, <1>5, Finishes
  <1> QED
    BY <1>4, <1>5 DEF Installed

LEMMA PublishKeeps ==
  ASSUME IInv, Publish, UNCHANGED sessionVars
  PROVE  IInv'
  <1> USE DEF IInv
  <1>1. UNCHANGED <<command, pc, own, result, excused, sessionFile, accepted, credentials, spoiled, program, stateFile>>
    BY DEF Publish, processVars, sessionVars
  <1>2. latest' \in Tags
    BY DEF Publish
  <1>3. TypeOK'
    BY <1>1, <1>2 DEF TypeOK
  <1> QED
    BY <1>1, <1>3 DEF FileInv, Saving, At, Torn, Working, Running, Alone, SessionOf, Readable, Ended

LEMMA StutterKeeps ==
  ASSUME IInv, UNCHANGED vars
  PROVE  IInv'
  BY DEF IInv, vars, processVars, sessionVars, updateVars, TypeOK, FileInv, Saving, At, Torn, Working, Running,
         Alone, SessionOf, Readable, Ended

LEMMA InitIsGood ==
  ASSUME Init
  PROVE  IInv
  <1>1. /\ command = [p \in Processes |-> None] /\ pc = [p \in Processes |-> "idle"]
        /\ own = [p \in Processes |-> Blank] /\ result = [p \in Processes |-> None] /\ excused = {}
    BY DEF Init
  <1>2. sessionFile \in {Absent, Old} /\ accepted \subseteq Logins /\ credentials \in BOOLEAN /\ spoiled = FALSE
    BY DEF Init, SessionInit
  <1>3. latest = 0 /\ program \in [version : {0, Dev}, whole : {TRUE}] /\ 0 \in Tags /\ Tags \subseteq Versions /\ Dev \in Versions
    <2>1. 0 \in Numbers
      BY UpdateBounds DEF Numbers
    <2>2. 0 \in Tags /\ Tags \subseteq Versions /\ Dev \in Versions
      BY <2>1 DEF Versions, Tags
    <2> QED
      BY <2>2 DEF Init, UpdateInit
  <1>4. stateFile \in {Absent} \cup States
    <2>1. \A v \in Versions : [today |-> FALSE, notified |-> v] \in States
      BY DEF States
    <2> QED
      BY <1>3, <2>1 DEF Init, UpdateInit
  <1>5. TypeOK
    <2>1. Old \in Logins
      BY DEF Logins
    <2>2. pc \in [Processes -> Steps] /\ command \in [Processes -> Kinds \cup {None}]
      BY <1>1 DEF Steps
    <2>3. own \in [Processes -> Memories] /\ result \in [Processes -> {None, "ok", "error"}]
      BY <1>1, BlankIsMemory
    <2> QED
      BY <1>1, <1>2, <1>3, <1>4, <2>1, <2>2, <2>3 DEF TypeOK
  <1>6. FileInv
    <2>1. ~Torn(sessionFile)
      BY <1>2, FilesDiffer DEF Torn, Logins
    <2> QED
      BY <1>1, <2>1 DEF FileInv, Saving, At
  <1>7. ASSUME NEW p \in Processes PROVE Working(p) /\ Alone(p) /\ SessionOf(p) /\ Ended(p)
    <2>1. pc[p] = "idle" /\ own[p] = Blank /\ ~Running(p)
      BY <1>1 DEF Running
    <2>2. Working(p)
      BY <2>1 DEF Working, At, Checking, Keeping
    <2>3. Ended(p)
      BY <1>1, NoneIsNoResult DEF Ended
    <2> QED
      BY <2>1, <2>2, <2>3 DEF Alone, SessionOf
  <1> QED
    BY <1>5, <1>6, <1>7 DEF IInv

LEMMA Invariance == Spec => []IInv
  <1>1. Init => IInv
    BY InitIsGood
  <1>2. IInv /\ [Next]_vars => IInv'
    <2> SUFFICES ASSUME IInv, [Next]_vars PROVE IInv'
      OBVIOUS
    <2>1. ASSUME NEW p \in Processes, Begin(p) \/ Dies(p) PROVE IInv'
      BY <2>1, BeginKeeps, DiesKeeps
    <2>2. ASSUME NEW p \in Processes, SessionStep(p), UNCHANGED updateVars PROVE IInv'
      BY <2>2, LoadKeeps, ValidateKeeps, LogInKeeps, OpenSessionKeeps, SaveSessionKeeps, LoadMobileKeeps,
         ReadingKeeps, LoadAgainKeeps, MobileKeeps, FileFailsKeeps DEF SessionStep
    <2>3. ASSUME NEW p \in Processes, UpdateStep(p), UNCHANGED sessionVars PROVE IInv'
      BY <2>3, CheckStateKeeps, OpenStateKeeps, SaveStateKeeps, StateFailsKeeps, AskKeeps, CheckReleaseKeeps,
         DownloadKeeps, VerifyKeeps, ReplaceKeeps, InstalledKeeps DEF UpdateStep
    <2>4. ASSUME NEW n \in Logins, Expire(n), UNCHANGED updateVars PROVE IInv'
      BY <2>4, ExpireKeeps
    <2>5. ASSUME Publish, UNCHANGED sessionVars PROVE IInv'
      BY <2>5, PublishKeeps
    <2>6. ASSUME UNCHANGED vars PROVE IInv'
      BY <2>6, StutterKeeps
    <2> QED
      BY <2>1, <2>2, <2>3, <2>4, <2>5, <2>6 DEF Next
  <1> QED
    BY <1>1, <1>2, PTL DEF Spec

(* With credentials configured, a command that ran alone and that nothing  *)
(* failed ends well (auth.go, mobile.go).                                  *)
THEOREM CommandsGiveUpForCause == Spec => []GivesUpForCause
  <1>1. IInv => GivesUpForCause
    BY DEF IInv, Ended, GivesUpForCause
  <1> QED
    BY <1>1, Invariance, PTL

(* Only Replace writes the program file.                                   *)
LEMMA WrittenByReplace ==
  ASSUME IInv, [Next]_vars, program' # program
  PROVE  \E p \in Processes : Replace(p) /\ program' = [version |-> own[p].release, whole |-> own[p].archive]
                              /\ Continue(p, "installed")
  <1>1. ASSUME NEW p \in Processes, Begin(p) \/ Dies(p) PROVE program' = program
    BY <1>1 DEF Begin, Dies, updateVars
  <1>3. ASSUME NEW p \in Processes, UpdateStep(p)
        PROVE  program' = program \/ Replace(p)
    BY <1>3 DEF UpdateStep, CheckState, OpenState, SaveState, StateFails, Ask, CheckRelease, Download, Verify,
                Installed, updateVars
  <1>4. PICK p \in Processes : Replace(p)
    BY <1>1, <1>3 DEF Next, vars, updateVars, Publish
  <1> QED
    BY <1>4 DEF Replace

(* The program is only replaced by a whole archive, of another release     *)
(* than the one which the updating process runs, and of a newer one where  *)
(* both are numbers (update.go, release.go).                               *)
THEOREM UpdatesInstallWholeNewer == Spec => InstallsWholeNewer
  <1> DEFINE Goal ==
        program' # program =>
          /\ program'.whole
          /\ \E p \in Processes :
                /\ At(p, "replace") /\ ~At(p, "replace")'
                /\ Supersedes(program'.version, own[p].runs)
  <1>1. ASSUME IInv, [Next]_vars PROVE Goal
    <2>1. CASE program' # program
      <3>1. PICK p \in Processes : /\ Replace(p) /\ program' = [version |-> own[p].release, whole |-> own[p].archive]
                                   /\ Continue(p, "installed")
        BY <1>1, <2>1, WrittenByReplace
      <3>2. At(p, "replace") /\ TypeOK /\ Working(p)
        BY <1>1, <3>1 DEF Replace, IInv
      <3>3. own[p].archive = TRUE /\ own[p].release \in Tags /\ NeedsUpdate(own[p].runs, own[p].release)
        BY <3>2 DEF Working, At
      <3>4. program'.whole /\ program'.version = own[p].release
        BY <3>1, <3>3
      <3>5. ~At(p, "replace")'
        <4>1. pc'[p] = "installed"
          BY <3>1, <3>2, ContinueIs DEF Steps
        <4> QED
          BY <4>1 DEF At
      <3>6. own[p].release # Dev /\ Dev \notin Numbers
        BY <3>3, UpdateBounds DEF Tags, Numbers
      <3>7. Supersedes(own[p].release, own[p].runs)
        <4>1. CASE own[p].runs = Dev
          BY <3>6, <4>1 DEF Supersedes
        <4>2. CASE {own[p].runs, own[p].release} \subseteq Numbers /\ own[p].runs < own[p].release
          BY <4>2 DEF Supersedes, Numbers
        <4>3. CASE ~({own[p].runs, own[p].release} \subseteq Numbers) /\ own[p].runs # own[p].release
          BY <4>3 DEF Supersedes
        <4> QED
          BY <3>3, <4>1, <4>2, <4>3 DEF NeedsUpdate
      <3> QED
        BY <3>2, <3>4, <3>5, <3>7
    <2> QED
      BY <2>1
  <1>2. IInv /\ [Next]_vars => [Goal]_vars
    BY <1>1
  <1> QED
    BY <1>2, Invariance, PTL DEF Spec, InstallsWholeNewer

-----------------------------------------------------------------------------
(* Export: sequences that hold a set, and paths.                           *)

(* SetToSeq lists each element of a finite set once.                       *)
LEMMA SetToSeqIs ==
    ASSUME NEW S, IsFiniteSet(S)
    PROVE  /\ SetToSeq(S) \in Seq(S) /\ IsInjective(SetToSeq(S))
           /\ Range(SetToSeq(S)) = S /\ Len(SetToSeq(S)) = Cardinality(S)
PROOF
<1> DEFINE n == Cardinality(S)
           F == [1..n -> S]
<1>1. n \in Nat /\ ExistsBijection(1..n, S)
      BY FS_CardinalityType
<1>2. PICK f : f \in Bijection(1..n, S)
      BY <1>1 DEF ExistsBijection
<1>3. f \in F /\ IsInjective(f)
      BY <1>2 DEF Bijection, Injection, IsInjective
<1>4. SetToSeq(S) = CHOOSE g \in F : IsInjective(g)
      BY DEF SetToSeq
<1>5. SetToSeq(S) \in F /\ IsInjective(SetToSeq(S))
      BY <1>3, <1>4
<1> DEFINE q == SetToSeq(S)
<1> HIDE DEF q, n
<1>6. q \in [1..n -> S] /\ IsInjective(q)
      BY <1>5 DEF q
<1>7. q \in Seq(S) /\ Len(q) = n
      BY <1>6, <1>1, SeqDef DEF F
<1>8. q \in Injection(1..n, S)
      BY <1>6 DEF Injection, IsInjective
<1>9. IsFiniteSet(1..n) /\ Cardinality(1..n) = n
      BY <1>1, FS_Interval
<1>10. Cardinality(1..n) = Cardinality(S)
      BY <1>9 DEF n
<1>11. q \in Surjection(1..n, S)
      BY <1>8, <1>10, FS_Injection
<1>12. Range(q) = S
      BY <1>6, <1>11 DEF Surjection, Range
<1> QED BY <1>6, <1>7, <1>12 DEF q, n

(* What is left of a list after its head.                                  *)
LEMMA TailIs ==
    ASSUME NEW S, NEW q \in Seq(S), IsInjective(q), q # <<>>
    PROVE  /\ Head(q) \in S /\ Tail(q) \in Seq(S) /\ IsInjective(Tail(q)) /\ Len(Tail(q)) = Len(q) - 1
           /\ Range(q) = {Head(q)} \cup Range(Tail(q)) /\ Head(q) \notin Range(Tail(q))
PROOF
<1>1. /\ Len(q) \in Nat \ {0} /\ q \in [1..Len(q) -> S]
      /\ Head(q) = q[1] /\ Tail(q) \in Seq(S) /\ Len(Tail(q)) = Len(q) - 1
      /\ \A i \in 1..(Len(q) - 1) : Tail(q)[i] = q[i + 1]
      BY EmptySeq, LenProperties, HeadTailProperties
<1>2. DOMAIN Tail(q) = 1..(Len(q) - 1) /\ DOMAIN q = 1..Len(q)
      BY <1>1, LenProperties
<1>3. IsInjective(Tail(q))
  <2> SUFFICES ASSUME NEW i \in 1..(Len(q) - 1), NEW j \in 1..(Len(q) - 1), Tail(q)[i] = Tail(q)[j]
               PROVE  i = j
      BY <1>2 DEF IsInjective
  <2>1. i + 1 \in 1..Len(q) /\ j + 1 \in 1..Len(q) /\ q[i + 1] = q[j + 1]
      BY <1>1
  <2>2. i + 1 = j + 1
      BY <2>1, <1>2 DEF IsInjective
  <2> QED BY <2>2
<1>4. Head(q) \notin Range(Tail(q))
  <2> SUFFICES ASSUME NEW i \in 1..(Len(q) - 1), Tail(q)[i] = Head(q) PROVE FALSE
      BY <1>2 DEF Range
  <2>1. i + 1 \in 1..Len(q) /\ 1 \in 1..Len(q) /\ q[i + 1] = q[1]
      BY <1>1
  <2>2. i + 1 = 1
      BY <2>1, <1>2 DEF IsInjective
  <2> QED BY <2>2
<1>5. Range(q) \subseteq {Head(q)} \cup Range(Tail(q))
  <2> SUFFICES ASSUME NEW i \in 1..Len(q) PROVE q[i] \in {Head(q)} \cup Range(Tail(q))
      BY <1>2 DEF Range
  <2>1. CASE i = 1
      BY <2>1, <1>1
  <2>2. CASE i # 1
    <3>1. i - 1 \in 1..(Len(q) - 1)
        BY <2>2, <1>1
    <3>2. Tail(q)[i - 1] = q[i]
        BY <3>1, <1>1
    <3> QED BY <3>1, <3>2, <1>2 DEF Range
  <2> QED BY <2>1, <2>2
<1>6. {Head(q)} \cup Range(Tail(q)) \subseteq Range(q)
  <2>1. Head(q) \in Range(q)
      BY <1>1, <1>2 DEF Range
  <2>2. ASSUME NEW i \in 1..(Len(q) - 1) PROVE Tail(q)[i] \in Range(q)
    <3>1. i + 1 \in 1..Len(q) /\ Tail(q)[i] = q[i + 1]
        BY <1>1
    <3> QED BY <3>1, <1>2 DEF Range
  <2> QED BY <2>1, <2>2, <1>2 DEF Range
<1> QED BY <1>1, <1>3, <1>4, <1>5, <1>6

LEMMA RangeOfEmpty == Range(<<>>) = {} /\ IsInjective(<<>>)
PROOF BY DEF Range, IsInjective

LEMMA Joined ==
    ASSUME NEW T, NEW u \in Seq(T), NEW v \in Seq(T), NEW w \in Seq(T), Len(w) = Len(u) + Len(v),
           \A i \in 1..Len(u) : w[i] = u[i], \A i \in 1..Len(v) : w[Len(u) + i] = v[i]
    PROVE  u \o v = w
PROOF
<1>1. Len(u) \in Nat /\ Len(v) \in Nat
      BY LenProperties
<1>2. /\ u \o v \in Seq(T) /\ Len(u \o v) = Len(u) + Len(v)
      /\ \A i \in 1..(Len(u) + Len(v)) : (u \o v)[i] = IF i <= Len(u) THEN u[i] ELSE v[i - Len(u)]
      BY ConcatProperties
<1>3. ASSUME NEW i \in 1..(Len(u) + Len(v)) PROVE (u \o v)[i] = w[i]
  <2>1. CASE i <= Len(u)
      BY <2>1, <1>1, <1>2
  <2>2. CASE i > Len(u)
    <3>1. i - Len(u) \in 1..Len(v) /\ Len(u) + (i - Len(u)) = i
        BY <2>2, <1>1
    <3>2. w[Len(u) + (i - Len(u))] = v[i - Len(u)]
        BY <3>1
    <3>3. (u \o v)[i] = v[i - Len(u)]
        BY <2>2, <1>1, <1>2
    <3> QED BY <3>1, <3>2, <3>3
  <2> QED BY <2>1, <2>2, <1>1
<1> QED BY <1>2, <1>3, SeqEqual

LEMMA Join31 ==
    ASSUME NEW a, NEW b, NEW c, NEW d
    PROVE  <<a, b, c>> \o <<d>> = <<a, b, c, d>>
PROOF
<1> DEFINE T == {a, b, c, d}
<1> DEFINE x == <<a, b, c>>
             y == <<d>>
             z == <<a, b, c, d>>
<1>1. x \in Seq(T) /\ y \in Seq(T) /\ z \in Seq(T)
      OBVIOUS
<1>2. Len(x) = 3 /\ Len(y) = 1 /\ Len(z) = 4
      OBVIOUS
<1>3. z[1] = x[1] /\ z[2] = x[2] /\ z[3] = x[3]
      OBVIOUS
<1>4. z[4] = y[1]
      OBVIOUS
<1> HIDE DEF x, y, z, T
<1>5. \A i \in 1..Len(x) : z[i] = x[i]
  <2>1. 1..Len(x) = {1, 2, 3}
        BY <1>2
  <2> QED BY <2>1, <1>3
<1>6. \A i \in 1..Len(y) : z[Len(x) + i] = y[i]
  <2>1. 1..Len(y) = {1}
        BY <1>2
  <2> QED BY <2>1, <1>4, <1>2
<1>7. Len(z) = Len(x) + Len(y)
      BY <1>2
<1>8. x \o y = z
      BY <1>1, <1>7, <1>5, <1>6, Joined
<1> QED BY <1>8 DEF x, y, z

LEMMA Join32 ==
    ASSUME NEW a, NEW b, NEW c, NEW d, NEW e
    PROVE  <<a, b, c>> \o <<d, e>> = <<a, b, c, d, e>>
PROOF
<1> DEFINE T == {a, b, c, d, e}
<1> DEFINE x == <<a, b, c>>
             y == <<d, e>>
             z == <<a, b, c, d, e>>
<1>1. x \in Seq(T) /\ y \in Seq(T) /\ z \in Seq(T)
      OBVIOUS
<1>2. Len(x) = 3 /\ Len(y) = 2 /\ Len(z) = 5
      OBVIOUS
<1>3. z[1] = x[1] /\ z[2] = x[2] /\ z[3] = x[3]
      OBVIOUS
<1>4. z[4] = y[1] /\ z[5] = y[2]
      OBVIOUS
<1> HIDE DEF x, y, z, T
<1>5. \A i \in 1..Len(x) : z[i] = x[i]
  <2>1. 1..Len(x) = {1, 2, 3}
        BY <1>2
  <2> QED BY <2>1, <1>3
<1>6. \A i \in 1..Len(y) : z[Len(x) + i] = y[i]
  <2>1. 1..Len(y) = {1, 2}
        BY <1>2
  <2> QED BY <2>1, <1>4, <1>2
<1>7. Len(z) = Len(x) + Len(y)
      BY <1>2
<1>8. x \o y = z
      BY <1>1, <1>7, <1>5, <1>6, Joined
<1> QED BY <1>8 DEF x, y, z

LEMMA Join21 ==
    ASSUME NEW a, NEW b, NEW c
    PROVE  <<a, b>> \o <<c>> = <<a, b, c>>
PROOF
<1> DEFINE T == {a, b, c}
<1> DEFINE x == <<a, b>>
             y == <<c>>
             z == <<a, b, c>>
<1>1. x \in Seq(T) /\ y \in Seq(T) /\ z \in Seq(T)
      OBVIOUS
<1>2. Len(x) = 2 /\ Len(y) = 1 /\ Len(z) = 3
      OBVIOUS
<1>3. z[1] = x[1] /\ z[2] = x[2]
      OBVIOUS
<1>4. z[3] = y[1]
      OBVIOUS
<1> HIDE DEF x, y, z, T
<1>5. \A i \in 1..Len(x) : z[i] = x[i]
  <2>1. 1..Len(x) = {1, 2}
        BY <1>2
  <2> QED BY <2>1, <1>3
<1>6. \A i \in 1..Len(y) : z[Len(x) + i] = y[i]
  <2>1. 1..Len(y) = {1}
        BY <1>2
  <2> QED BY <2>1, <1>4, <1>2
<1>7. Len(z) = Len(x) + Len(y)
      BY <1>2
<1>8. x \o y = z
      BY <1>1, <1>7, <1>5, <1>6, Joined
<1> QED BY <1>8 DEF x, y, z

LEMMA Join22 ==
    ASSUME NEW a, NEW b, NEW c, NEW d
    PROVE  <<a, b>> \o <<c, d>> = <<a, b, c, d>>
PROOF
<1> DEFINE T == {a, b, c, d}
<1> DEFINE x == <<a, b>>
             y == <<c, d>>
             z == <<a, b, c, d>>
<1>1. x \in Seq(T) /\ y \in Seq(T) /\ z \in Seq(T)
      OBVIOUS
<1>2. Len(x) = 2 /\ Len(y) = 2 /\ Len(z) = 4
      OBVIOUS
<1>3. z[1] = x[1] /\ z[2] = x[2]
      OBVIOUS
<1>4. z[3] = y[1] /\ z[4] = y[2]
      OBVIOUS
<1> HIDE DEF x, y, z, T
<1>5. \A i \in 1..Len(x) : z[i] = x[i]
  <2>1. 1..Len(x) = {1, 2}
        BY <1>2
  <2> QED BY <2>1, <1>3
<1>6. \A i \in 1..Len(y) : z[Len(x) + i] = y[i]
  <2>1. 1..Len(y) = {1, 2}
        BY <1>2
  <2> QED BY <2>1, <1>4, <1>2
<1>7. Len(z) = Len(x) + Len(y)
      BY <1>2
<1>8. x \o y = z
      BY <1>1, <1>7, <1>5, <1>6, Joined
<1> QED BY <1>8 DEF x, y, z

LEMMA Join23 ==
    ASSUME NEW a, NEW b, NEW c, NEW d, NEW e
    PROVE  <<a, b>> \o <<c, d, e>> = <<a, b, c, d, e>>
PROOF
<1> DEFINE T == {a, b, c, d, e}
<1> DEFINE x == <<a, b>>
             y == <<c, d, e>>
             z == <<a, b, c, d, e>>
<1>1. x \in Seq(T) /\ y \in Seq(T) /\ z \in Seq(T)
      OBVIOUS
<1>2. Len(x) = 2 /\ Len(y) = 3 /\ Len(z) = 5
      OBVIOUS
<1>3. z[1] = x[1] /\ z[2] = x[2]
      OBVIOUS
<1>4. z[3] = y[1] /\ z[4] = y[2] /\ z[5] = y[3]
      OBVIOUS
<1> HIDE DEF x, y, z, T
<1>5. \A i \in 1..Len(x) : z[i] = x[i]
  <2>1. 1..Len(x) = {1, 2}
        BY <1>2
  <2> QED BY <2>1, <1>3
<1>6. \A i \in 1..Len(y) : z[Len(x) + i] = y[i]
  <2>1. 1..Len(y) = {1, 2, 3}
        BY <1>2
  <2> QED BY <2>1, <1>4, <1>2
<1>7. Len(z) = Len(x) + Len(y)
      BY <1>2
<1>8. x \o y = z
      BY <1>1, <1>7, <1>5, <1>6, Joined
<1> QED BY <1>8 DEF x, y, z

LEMMA PathsAre ==
    /\ \A s, run, a : InRun(s, run, <<a>>) = <<s, "runs", run, a>>
    /\ \A s, run, a, b : InRun(s, run, <<a, b>>) = <<s, "runs", run, a, b>>
    /\ \A s, a : InCurrent(s, <<a>>) = <<s, "current", a>>
    /\ \A s, a, b : InCurrent(s, <<a, b>>) = <<s, "current", a, b>>
    /\ \A s, a, b, c : InCurrent(s, <<a, b, c>>) = <<s, "current", a, b, c>>
PROOF
<1>1. ASSUME NEW s, NEW run, NEW a PROVE <<s, "runs", run>> \o <<a>> = <<s, "runs", run, a>>
      BY Join31
<1>2. ASSUME NEW s, NEW run, NEW a, NEW b PROVE <<s, "runs", run>> \o <<a, b>> = <<s, "runs", run, a, b>>
      BY Join32
<1>3. ASSUME NEW s, NEW a PROVE <<s, "current">> \o <<a>> = <<s, "current", a>>
      BY Join21
<1>4. ASSUME NEW s, NEW a, NEW b PROVE <<s, "current">> \o <<a, b>> = <<s, "current", a, b>>
      BY Join22
<1>5. ASSUME NEW s, NEW a, NEW b, NEW c PROVE <<s, "current">> \o <<a, b, c>> = <<s, "current", a, b, c>>
      BY Join23
<1> QED BY <1>1, <1>2, <1>3, <1>4, <1>5 DEF InRun, InCurrent

-----------------------------------------------------------------------------
(* Export: what an upload does to Drive.                                   *)

(* A path is as it was.                                                    *)
Kept(p) == /\ p \in DOMAIN drive' <=> p \in DOMAIN drive
           /\ p \in DOMAIN drive => drive'[p] = drive[p]

Arrived(p, content) == p \in DOMAIN drive' /\ drive'[p] = content

(* A file is there with its content; or it was to replace another, and is  *)
(* one of those of which nobody knows.                                     *)
Doubtful(p) == p \in DOMAIN drive /\ p \in unconfirmed'
Landed(f) == Arrived(f.path, f.content) \/ (f.over /\ Doubtful(f.path))

LEMMA SendIs ==
    ASSUME NEW S, NEW files \in Seq(S), NEW ok \in BOOLEAN, job.upload \in BOOLEAN, Send(files, ok)
    PROVE  /\ ok \/ job.upload
           /\ ~job.upload => drive' = drive
           /\ unconfirmed \subseteq unconfirmed'
           /\ \A p : Kept(p) \/ \E i \in 1..Len(files) : files[i].path = p /\ Arrived(p, files[i].content)
           /\ job.upload /\ ok =>
                \A i \in 1..Len(files) : \E k \in 1..Len(files) : files[k].path = files[i].path /\ Landed(files[k])
PROOF
<1>1. PICK n \in 0..Len(files), lost \in SUBSET {i \in 1..Len(files) : files[i].over /\ files[i].path \in DOMAIN drive} :
          /\ ok \/ job.upload
          /\ ok => n = Len(files)
          /\ drive' = IF job.upload THEN Uploaded(SubSeq(files, 1, n), lost) ELSE drive
          /\ unconfirmed' = unconfirmed \cup {files[i].path : i \in lost}
  <2>1. PICK n \in 0..Len(files) :
          \E lost \in SUBSET {i \in 1..n : files[i].over /\ files[i].path \in DOMAIN drive} :
              /\ ok \/ job.upload
              /\ ok => n = Len(files)
              /\ drive' = IF job.upload THEN Uploaded(SubSeq(files, 1, n), lost) ELSE drive
              /\ unconfirmed' = unconfirmed \cup {files[i].path : i \in lost}
      BY DEF Send
  <2>2. PICK lost \in SUBSET {i \in 1..n : files[i].over /\ files[i].path \in DOMAIN drive} :
              /\ ok \/ job.upload
              /\ ok => n = Len(files)
              /\ drive' = IF job.upload THEN Uploaded(SubSeq(files, 1, n), lost) ELSE drive
              /\ unconfirmed' = unconfirmed \cup {files[i].path : i \in lost}
      BY <2>1
  <2>3. 1..n \subseteq 1..Len(files)
      BY LenProperties
  <2>4. lost \in SUBSET {i \in 1..Len(files) : files[i].over /\ files[i].path \in DOMAIN drive}
      BY <2>2, <2>3
  <2> QED BY <2>2, <2>4
<1>3. ASSUME ~job.upload PROVE drive' = drive
      BY <1>1, <1>3
<1>4. ASSUME job.upload
      PROVE  /\ \A p : Kept(p) \/ \E i \in 1..Len(files) : files[i].path = p /\ Arrived(p, files[i].content)
             /\ ok => \A i \in 1..Len(files) :
                    \E k \in 1..Len(files) : files[k].path = files[i].path /\ Landed(files[k])
  <2> DEFINE q == SubSeq(files, 1, n)
             arriving == DOMAIN q \ lost
             paths == {q[i].path : i \in arriving}
             ContentOf(p) == q[CHOOSE i \in arriving : q[i].path = p].content
  <2>1. Len(files) \in Nat /\ n \in Nat /\ \A i \in 1..n : files[i] \in S
      BY LenProperties, ElementOfSeq
  <2>2. q \in Seq(S) /\ DOMAIN q = 1..n /\ \A i \in 1..n : q[i] = files[i]
    <3>1. /\ q \in Seq(S)
          /\ Len(q) = IF 1 <= n THEN n - 1 + 1 ELSE 0
          /\ \A i \in 1..(n - 1 + 1) : q[i] = files[1 + i - 1]
        BY <2>1, SubSeqProperties
    <3>2. Len(q) = n /\ n - 1 + 1 = n
        BY <3>1, <2>1
    <3>3. DOMAIN q = 1..n
        BY <3>1, <3>2, LenProperties
    <3>4. \A i \in 1..n : 1 + i - 1 = i
        BY <2>1
    <3> QED BY <3>1, <3>2, <3>3, <3>4
  <2>3. drive' = Uploaded(q, lost)
      BY <1>1, <1>4
  <2>4. drive' = [p \in DOMAIN drive \cup paths |-> IF p \in paths THEN ContentOf(p) ELSE drive[p]]
      BY <2>3 DEF Uploaded
  <2>5. ASSUME NEW p \in paths
        PROVE  \E i \in 1..n : files[i].path = p /\ Arrived(p, files[i].content)
    <3>1. \E i \in arriving : q[i].path = p
        OBVIOUS
    <3> DEFINE k == CHOOSE i \in arriving : q[i].path = p
    <3>2. k \in arriving /\ q[k].path = p
        BY <3>1
    <3>3. ContentOf(p) = q[k].content
        OBVIOUS
    <3> HIDE DEF k
    <3>4. k \in 1..n /\ files[k].path = p /\ ContentOf(p) = files[k].content
        BY <2>2, <3>2, <3>3
    <3> HIDE DEF ContentOf
    <3>5. Arrived(p, files[k].content)
        BY <2>4, <3>4 DEF Arrived
    <3> QED BY <3>4, <3>5
  <2>6. ASSUME NEW p, p \notin paths PROVE Kept(p)
    <3> HIDE DEF ContentOf
    <3> QED BY <2>4, <2>6 DEF Kept
  <2>7. 1..n \subseteq 1..Len(files)
      BY <2>1
  <2>8. ASSUME NEW p PROVE Kept(p) \/ \E i \in 1..Len(files) : files[i].path = p /\ Arrived(p, files[i].content)
    <3>1. CASE p \in paths
        BY <3>1, <2>5, <2>7
    <3>2. CASE p \notin paths
        BY <3>2, <2>6
    <3> QED BY <3>1, <3>2
  <2>9. ASSUME ok, NEW i \in 1..Len(files)
        PROVE  \E k \in 1..Len(files) : files[k].path = files[i].path /\ Landed(files[k])
    <3>1. n = Len(files)
        BY <1>1, <2>9
    <3>2. i \in DOMAIN q /\ q[i] = files[i]
        BY <3>1, <2>2
    <3>3. CASE i \in lost
        BY <1>1, <3>3 DEF Landed, Doubtful
    <3>4. CASE i \notin lost
      <4>1. files[i].path \in paths
          BY <3>2, <3>4
      <4> QED BY <4>1, <3>1, <2>5 DEF Landed
    <3> QED BY <3>3, <3>4
  <2> QED BY <2>8, <2>9
<1>5. ASSUME ~job.upload PROVE \A p : Kept(p)
      BY <1>3, <1>5 DEF Kept
<1> QED BY <1>1, <1>3, <1>4, <1>5

(* One file, whichever.                                                    *)
LEMMA SendAnyIs ==
    ASSUME NEW f, NEW ok \in BOOLEAN, job.upload \in BOOLEAN, Send(<<f>>, ok)
    PROVE  /\ ok \/ job.upload
           /\ ~job.upload => drive' = drive
           /\ unconfirmed \subseteq unconfirmed'
           /\ \A q : q # f.path => Kept(q)
           /\ Kept(f.path) \/ Arrived(f.path, f.content)
           /\ job.upload /\ ok => Landed(f)
PROOF
<1> DEFINE files == <<f>>
<1>1. files \in Seq({f}) /\ Len(files) = 1 /\ files[1] = f
      OBVIOUS
<1> HIDE DEF files
<1>3. Send(files, ok)
      BY DEF files
<1>4. 1..Len(files) = {1}
      BY <1>1
<1>5. \A i \in 1..Len(files) : files[i] = f
      BY <1>1, <1>4
<1>6. /\ ok \/ job.upload
      /\ ~job.upload => drive' = drive
      /\ unconfirmed \subseteq unconfirmed'
      /\ \A q : Kept(q) \/ \E i \in 1..Len(files) : files[i].path = q /\ Arrived(q, files[i].content)
      /\ job.upload /\ ok =>
            \A i \in 1..Len(files) : \E k \in 1..Len(files) : files[k].path = files[i].path /\ Landed(files[k])
      BY <1>1, <1>3, SendIs
<1>7. \A q : Kept(q) \/ (q = f.path /\ Arrived(q, f.content))
      BY <1>5, <1>6
<1>8. ASSUME job.upload, ok PROVE Landed(f)
      BY <1>8, <1>4, <1>5, <1>6
<1> QED BY <1>6, <1>7, <1>8

(* A new one is there, once the upload went well.                          *)
LEMMA SendOneIs ==
    ASSUME NEW p, NEW content, NEW ok \in BOOLEAN, job.upload \in BOOLEAN, Send(<<File(p, content)>>, ok)
    PROVE  /\ ok \/ job.upload
           /\ ~job.upload => drive' = drive
           /\ unconfirmed \subseteq unconfirmed'
           /\ \A q : q # p => Kept(q)
           /\ Kept(p) \/ Arrived(p, content)
           /\ job.upload /\ ok => Arrived(p, content)
PROOF
<1>1. PICK f : f = File(p, content)
      OBVIOUS
<1>2. f.path = p /\ f.content = content /\ f.over = FALSE
      BY <1>1 DEF File
<1> QED BY <1>1, <1>2, SendAnyIs DEF Landed

(* An update is; or the old one is, and nobody knows.                      *)
LEMMA SendOverIs ==
    ASSUME NEW p, NEW content, NEW ok \in BOOLEAN, job.upload \in BOOLEAN, Send(<<Over(p, content)>>, ok)
    PROVE  /\ ok \/ job.upload
           /\ ~job.upload => drive' = drive
           /\ unconfirmed \subseteq unconfirmed'
           /\ \A q : q # p => Kept(q)
           /\ Kept(p) \/ Arrived(p, content)
           /\ job.upload /\ ok => Arrived(p, content) \/ Doubtful(p)
PROOF
<1>1. PICK f : f = Over(p, content)
      OBVIOUS
<1>2. f.path = p /\ f.content = content
      BY <1>1 DEF Over
<1> QED BY <1>1, <1>2, SendAnyIs DEF Landed

-----------------------------------------------------------------------------
(* Export: how a command moves on.                                         *)

Fields == {"queue", "upload", "profile", "index", "s", "run", "failed", "courses", "c", "zip",
           "textOf", "resources", "r", "raw", "mine", "records"}

ResourceSteps == {"raw run", "raw current", "text"}
CourseSteps == {"course", "upload zip", "texts", "docs", "index"} \cup ResourceSteps
ClosingSteps == {"calendar", "report", "navigation", "archive", "rename", "latest"}
SemesterSteps == CourseSteps \cup ClosingSteps
Labels == SemesterSteps \cup {"idle", "semester", "write"}

Agree(j, k, F) == \A f \in F : k[f] = j[f]

(* The command keeps all but the fields F.                                 *)
KeepsAllBut(F) == DOMAIN job' = Fields /\ Agree(job, job', Fields \ F)

(* It stays with its course or its semester, or turns to the next one.     *)
MovesTo(label, F) == step' = label /\ KeepsAllBut(F)

NextCourse(F) ==
    /\ KeepsAllBut({"c", "courses", "mine"} \cup F)
    /\ \/ job.courses = <<>> /\ step' = "calendar" /\ job'.c = job.c /\ job'.courses = job.courses
       \/ /\ job.courses # <<>> /\ step' = "course" /\ job'.mine = {}
          /\ job'.c = Head(job.courses) /\ job'.courses = Tail(job.courses)

NextResource(x, F) ==
    /\ KeepsAllBut({"r", "resources", "mine"} \cup F)
    /\ job'.mine = job.mine \cup {x}
    /\ \/ job.resources = <<>> /\ step' = "docs" /\ job'.r = job.r /\ job'.resources = job.resources
       \/ /\ job.resources # <<>> /\ step' = "raw run"
          /\ job'.r = Head(job.resources) /\ job'.resources = Tail(job.resources)

Same(v) == v' = v

LEMMA EnterCourseIs ==
    ASSUME NEW j, DOMAIN j = Fields, EnterCourse(j)
    PROVE  /\ DOMAIN job' = Fields /\ Agree(j, job', Fields \ {"c", "courses", "mine"})
           /\ \/ j.courses = <<>> /\ step' = "calendar" /\ job' = j
              \/ /\ j.courses # <<>> /\ step' = "course" /\ job'.mine = {}
                 /\ job'.c = Head(j.courses) /\ job'.courses = Tail(j.courses)
PROOF
<1>1. CASE j.courses = <<>>
  <2>1. step' = "calendar" /\ job' = j
      BY <1>1 DEF EnterCourse, Goto
  <2> QED BY <1>1, <2>1 DEF Agree
<1>2. CASE j.courses # <<>>
  <2>1. step' = "course" /\ job' = [j EXCEPT !.c = Head(j.courses), !.courses = Tail(@), !.mine = {}]
      BY <1>2 DEF EnterCourse, Goto
  <2> QED BY <1>2, <2>1 DEF Agree, Fields
<1> QED BY <1>1, <1>2

LEMMA EnterResourceIs ==
    ASSUME NEW j, DOMAIN j = Fields, EnterResource(j)
    PROVE  /\ DOMAIN job' = Fields /\ Agree(j, job', Fields \ {"r", "resources"})
           /\ \/ j.resources = <<>> /\ step' = "docs" /\ job' = j
              \/ /\ j.resources # <<>> /\ step' = "raw run"
                 /\ job'.r = Head(j.resources) /\ job'.resources = Tail(j.resources)
PROOF
<1>1. CASE j.resources = <<>>
  <2>1. step' = "docs" /\ job' = j
      BY <1>1 DEF EnterResource, Goto
  <2> QED BY <1>1, <2>1 DEF Agree
<1>2. CASE j.resources # <<>>
  <2>1. step' = "raw run" /\ job' = [j EXCEPT !.r = Head(j.resources), !.resources = Tail(@)]
      BY <1>2 DEF EnterResource, Goto
  <2> QED BY <1>2, <2>1 DEF Agree, Fields
<1> QED BY <1>1, <1>2

LEMMA RecordedIs ==
    ASSUME DOMAIN job = Fields, NEW j, DOMAIN j = Fields, Agree(job, j, Fields \ {"raw"}),
           NEW sum, NEW text, Recorded(j, sum, text)
    PROVE  NextResource([of |-> job.r, sum |-> sum, text |-> text], {"raw"}) /\ job'.raw = j.raw
PROOF
<1> DEFINE x == [of |-> job.r, sum |-> sum, text |-> text]
           k == [j EXCEPT !.mine = @ \cup {[of |-> j.r, sum |-> sum, text |-> text]}]
<1>1. DOMAIN k = Fields /\ k.mine = j.mine \cup {[of |-> j.r, sum |-> sum, text |-> text]} /\ Agree(j, k, Fields \ {"mine"})
      BY DEF Agree, Fields
<1>2. j.r = job.r /\ j.mine = job.mine /\ j.resources = job.resources
      BY DEF Agree, Fields
<1>3. EnterResource(k)
      BY DEF Recorded
<1>4. k.mine = job.mine \cup {x} /\ k.resources = job.resources /\ k.raw = j.raw /\ k.r = job.r
      BY <1>1, <1>2 DEF Agree, Fields
<1>5. Agree(job, k, Fields \ {"mine", "raw"})
      BY <1>1 DEF Agree
<1> HIDE DEF k, x
<1>6. /\ DOMAIN job' = Fields /\ Agree(k, job', Fields \ {"r", "resources"})
      /\ \/ k.resources = <<>> /\ step' = "docs" /\ job' = k
         \/ /\ k.resources # <<>> /\ step' = "raw run"
            /\ job'.r = Head(k.resources) /\ job'.resources = Tail(k.resources)
      BY <1>1, <1>3, EnterResourceIs
<1>7. job'.mine = job.mine \cup {x} /\ job'.raw = j.raw
      BY <1>4, <1>6 DEF Agree, Fields
<1>8. KeepsAllBut({"r", "resources", "mine"} \cup {"raw"})
      BY <1>5, <1>6 DEF Agree, KeepsAllBut
<1>9. NextResource(x, {"raw"})
      BY <1>4, <1>6, <1>7, <1>8 DEF NextResource
<1> QED BY <1>7, <1>9 DEF x

Stops == step' = "idle" /\ job' = Null

Noted(sum, text) == [of |-> job.r, sum |-> sum, text |-> text]

LEMMA StaysIs ==
    ASSUME DOMAIN job = Fields, NEW label, Goto(label, job)
    PROVE  MovesTo(label, {})
PROOF BY DEF Goto, MovesTo, KeepsAllBut, Agree

LEMMA FailCourseIs ==
    ASSUME DOMAIN job = Fields, FailCourse(job)
    PROVE  NextCourse({"failed"}) /\ job'.failed = TRUE
PROOF
<1> DEFINE k == [job EXCEPT !.failed = TRUE]
<1>1. DOMAIN k = Fields /\ k.failed = TRUE /\ Agree(job, k, Fields \ {"failed"})
      BY DEF Agree, Fields
<1>2. EnterCourse(k)
      BY DEF FailCourse
<1> HIDE DEF k
<1>3. k.courses = job.courses /\ k.c = job.c
      BY <1>1 DEF Agree, Fields
<1>4. /\ DOMAIN job' = Fields /\ Agree(k, job', Fields \ {"c", "courses", "mine"})
      /\ \/ k.courses = <<>> /\ step' = "calendar" /\ job' = k
         \/ /\ k.courses # <<>> /\ step' = "course" /\ job'.mine = {}
            /\ job'.c = Head(k.courses) /\ job'.courses = Tail(k.courses)
      BY <1>1, <1>2, EnterCourseIs
<1>5. job'.failed = TRUE
      BY <1>1, <1>4 DEF Agree, Fields
<1>6. KeepsAllBut({"c", "courses", "mine"} \cup {"failed"})
      BY <1>1, <1>4 DEF Agree, KeepsAllBut
<1> QED BY <1>3, <1>4, <1>5, <1>6 DEF NextCourse

LEMMA RecordFailureIs ==
    ASSUME DOMAIN job = Fields, RecordFailure(job)
    PROVE  NextResource(Noted(Null, FALSE), {"raw"}) /\ job'.raw = job.raw
PROOF
<1>1. Agree(job, job, Fields \ {"raw"}) /\ Recorded(job, Null, FALSE)
      BY DEF Agree, RecordFailure
<1> QED BY <1>1, RecordedIs DEF Noted

LEMMA SnapshotCourseIs ==
    ASSUME DOMAIN job = Fields, NEW ok \in BOOLEAN, SnapshotCourse(ok)
    PROVE  \/ ok /\ MovesTo("upload zip", {"zip"}) /\ job'.zip = Put(job.zip, job.c, ZipContents(job.c))
           \/ ~ok /\ NextCourse({"failed"}) /\ job'.failed = TRUE
PROOF
<1>1. CASE ok
  <2> DEFINE z == Put(job.zip, job.c, ZipContents(job.c))
  <2>1. step' = "upload zip" /\ job' = [job EXCEPT !.zip = z]
      BY <1>1 DEF SnapshotCourse, Goto
  <2> HIDE DEF z
  <2>2. job'.zip = z /\ MovesTo("upload zip", {"zip"})
      BY <2>1 DEF MovesTo, KeepsAllBut, Agree, Fields
  <2> QED BY <2>2, <1>1 DEF z
<1>2. CASE ~ok
      BY <1>2, FailCourseIs DEF SnapshotCourse
<1> QED BY <1>1, <1>2

LEMMA UploadZipIs ==
    ASSUME DOMAIN job = Fields, NEW ok \in BOOLEAN, UploadZip(ok)
    PROVE  \/ ok /\ (MovesTo("index", {}) \/ MovesTo("texts", {}))
           \/ ~ok /\ NextCourse({"failed"}) /\ job'.failed = TRUE
PROOF
<1>1. CASE ok
      BY <1>1, StaysIs DEF UploadZip
<1>2. CASE ~ok
      BY <1>2, FailCourseIs DEF UploadZip
<1> QED BY <1>1, <1>2

(* The texts of a course, as they lie in the workspace.                    *)
TextsOf(c, found, t) ==
    \A r \in found : TitleOf[r] \in DOMAIN t /\ t[TitleOf[r]].of \in found /\ TitleOf[t[TitleOf[r]].of] = TitleOf[r]

LEMMA ExtractTextsIs ==
    ASSUME DOMAIN job = Fields, ExtractTexts, DOMAIN texts = Courses, job.c \in Courses
    PROVE  /\ DOMAIN texts' = Courses
           /\ KeepsAllBut({"textOf", "resources", "r"})
           /\ job'.textOf \subseteq ResourcesOf(job.c) /\ TextsOf(job.c, job'.textOf, texts'[job.c])
           /\ LET queue == SetToSeq(ResourcesOf(job.c))
              IN  \/ queue = <<>> /\ step' = "docs" /\ job'.resources = queue
                  \/ queue # <<>> /\ step' = "raw run" /\ job'.r = Head(queue) /\ job'.resources = Tail(queue)
PROOF
<1>1. PICK found \in SUBSET ResourcesOf(job.c) :
         /\ \E last \in [{TitleOf[r] : r \in found} -> found] :
              /\ \A t \in DOMAIN last : TitleOf[last[t]] = t
              /\ texts' = [texts EXCEPT ![job.c] =
                     [t \in DOMAIN last |-> [of |-> last[t], version |-> material[last[t]]]]]
         /\ EnterResource([job EXCEPT !.textOf = found, !.resources = SetToSeq(ResourcesOf(job.c))])
      BY DEF ExtractTexts
<1>2. PICK last \in [{TitleOf[r] : r \in found} -> found] :
              /\ \A t \in DOMAIN last : TitleOf[last[t]] = t
              /\ texts' = [texts EXCEPT ![job.c] =
                     [t \in DOMAIN last |-> [of |-> last[t], version |-> material[last[t]]]]]
      BY <1>1
<1> DEFINE queue == SetToSeq(ResourcesOf(job.c))
           k == [job EXCEPT !.textOf = found, !.resources = queue]
<1>3. /\ DOMAIN k = Fields /\ k.textOf = found /\ k.resources = queue
      /\ Agree(job, k, Fields \ {"textOf", "resources"})
  <2> HIDE DEF queue
  <2> QED BY DEF Agree, Fields
<1>4. EnterResource(k)
      BY <1>1
<1> HIDE DEF k, queue
<1>5. /\ DOMAIN job' = Fields /\ Agree(k, job', Fields \ {"r", "resources"})
      /\ \/ k.resources = <<>> /\ step' = "docs" /\ job' = k
         \/ /\ k.resources # <<>> /\ step' = "raw run"
            /\ job'.r = Head(k.resources) /\ job'.resources = Tail(k.resources)
      BY <1>3, <1>4, EnterResourceIs
<1>6. job'.textOf = found
      BY <1>3, <1>5 DEF Agree, Fields
<1>7. KeepsAllBut({"textOf", "resources", "r"})
      BY <1>3, <1>5 DEF Agree, KeepsAllBut
<1>8. /\ DOMAIN texts' = Courses
      /\ texts'[job.c] = [t \in DOMAIN last |-> [of |-> last[t], version |-> material[last[t]]]]
      BY <1>2
<1>9. TextsOf(job.c, found, texts'[job.c])
  <2> SUFFICES ASSUME NEW r \in found
               PROVE  /\ TitleOf[r] \in DOMAIN texts'[job.c] /\ texts'[job.c][TitleOf[r]].of \in found
                      /\ TitleOf[texts'[job.c][TitleOf[r]].of] = TitleOf[r]
      BY DEF TextsOf
  <2>1. TitleOf[r] \in DOMAIN last
      OBVIOUS
  <2>2. texts'[job.c][TitleOf[r]] = [of |-> last[TitleOf[r]], version |-> material[last[TitleOf[r]]]]
      BY <2>1, <1>8
  <2>3. texts'[job.c][TitleOf[r]].of = last[TitleOf[r]]
      BY <2>2
  <2>4. last[TitleOf[r]] \in found /\ TitleOf[last[TitleOf[r]]] = TitleOf[r]
      BY <2>1, <1>2
  <2>5. TitleOf[r] \in DOMAIN texts'[job.c]
      BY <2>1, <1>8
  <2> QED BY <2>3, <2>4, <2>5
<1>10. \/ queue = <<>> /\ step' = "docs" /\ job'.resources = queue
       \/ queue # <<>> /\ step' = "raw run" /\ job'.r = Head(queue) /\ job'.resources = Tail(queue)
      BY <1>3, <1>5
<1>11. found \subseteq ResourcesOf(job.c)
      BY <1>1
<1> QED BY <1>6, <1>7, <1>8, <1>9, <1>10, <1>11 DEF queue

LEMMA DownloadFailsIs ==
    ASSUME DOMAIN job = Fields, DownloadFails
    PROVE  NextResource(Noted(Null, FALSE), {"raw"}) /\ job'.raw = job.raw
PROOF BY RecordFailureIs DEF DownloadFails

LEMMA UploadRawToRunIs ==
    ASSUME DOMAIN job = Fields, NEW ok \in BOOLEAN, UploadRawToRun(ok)
    PROVE  /\ job'.raw = Put(job.raw, job.r, material[job.r])
           /\ \/ ok /\ MovesTo("raw current", {"raw"})
              \/ ~ok /\ NextResource(Noted(Null, FALSE), {"raw"})
PROOF
<1> DEFINE z == Put(job.raw, job.r, material[job.r])
           k == [job EXCEPT !.raw = z]
<1>1. DOMAIN k = Fields /\ k.raw = z /\ Agree(job, k, Fields \ {"raw"})
  <2> HIDE DEF z
  <2> QED BY DEF Agree, Fields
<1>2. IF ok THEN Goto("raw current", k) ELSE RecordFailure(k)
      BY DEF UploadRawToRun
<1> HIDE DEF k, z
<1>3. CASE ok
  <2>1. step' = "raw current" /\ job' = k
      BY <1>2, <1>3 DEF Goto
  <2> QED BY <2>1, <1>1, <1>3 DEF MovesTo, KeepsAllBut, z
<1>4. CASE ~ok
  <2>1. Recorded(k, Null, FALSE)
      BY <1>2, <1>4 DEF RecordFailure
  <2>2. NextResource(Noted(Null, FALSE), {"raw"}) /\ job'.raw = k.raw
      BY <2>1, <1>1, RecordedIs DEF Noted
  <2> QED BY <2>2, <1>1, <1>4 DEF z
<1> QED BY <1>3, <1>4

LEMMA UploadRawToCurrentIs ==
    ASSUME DOMAIN job = Fields, NEW ok \in BOOLEAN, UploadRawToCurrent(ok)
    PROVE  \/ ok /\ MovesTo("text", {})
           \/ ~ok /\ NextResource(Noted(Null, FALSE), {"raw"}) /\ job'.raw = job.raw
PROOF
<1>1. CASE ok
      BY <1>1, StaysIs DEF UploadRawToCurrent
<1>2. CASE ~ok
      BY <1>2, RecordFailureIs DEF UploadRawToCurrent
<1> QED BY <1>1, <1>2

LEMMA UploadTextIs ==
    ASSUME DOMAIN job = Fields, NEW ok \in BOOLEAN, UploadText(ok)
    PROVE  \E text \in BOOLEAN :
               /\ NextResource(Noted(job.raw[job.r], text), {"raw"}) /\ job'.raw = job.raw
               /\ text => ok /\ job.r \in job.textOf
PROOF
<1>1. Agree(job, job, Fields \ {"raw"})
      BY DEF Agree
<1>2. CASE job.r \in job.textOf
  <2>1. Recorded(job, job.raw[job.r], ok)
      BY <1>2 DEF UploadText
  <2>2. NextResource(Noted(job.raw[job.r], ok), {"raw"}) /\ job'.raw = job.raw
      BY <2>1, <1>1, RecordedIs DEF Noted
  <2> QED BY <2>2, <1>2
<1>3. CASE job.r \notin job.textOf
  <2>1. Recorded(job, job.raw[job.r], FALSE)
      BY <1>3 DEF UploadText
  <2>2. NextResource(Noted(job.raw[job.r], FALSE), {"raw"}) /\ job'.raw = job.raw
      BY <2>1, <1>1, RecordedIs DEF Noted
  <2> QED BY <2>2
<1> QED BY <1>2, <1>3

LEMMA UploadCourseDocsIs ==
    ASSUME DOMAIN job = Fields, NEW ok \in BOOLEAN, UploadCourseDocs(ok)
    PROVE  \/ ok /\ MovesTo("index", {})
           \/ ~ok /\ NextCourse({"failed"}) /\ job'.failed = TRUE
PROOF
<1>1. CASE ok
      BY <1>1, StaysIs DEF UploadCourseDocs
<1>2. CASE ~ok
      BY <1>2, FailCourseIs DEF UploadCourseDocs
<1> QED BY <1>1, <1>2

LEMMA WriteMaterialIndexIs ==
    ASSUME DOMAIN job = Fields, WriteMaterialIndex
    PROVE  NextCourse({"records"}) /\ job'.records = job.records \cup job.mine
PROOF
<1> DEFINE k == [job EXCEPT !.records = @ \cup job.mine]
<1>1. DOMAIN k = Fields /\ k.records = job.records \cup job.mine /\ Agree(job, k, Fields \ {"records"})
      BY DEF Agree, Fields
<1>2. EnterCourse(k)
      BY DEF WriteMaterialIndex
<1> HIDE DEF k
<1>3. k.courses = job.courses /\ k.c = job.c
      BY <1>1 DEF Agree, Fields
<1>4. /\ DOMAIN job' = Fields /\ Agree(k, job', Fields \ {"c", "courses", "mine"})
      /\ \/ k.courses = <<>> /\ step' = "calendar" /\ job' = k
         \/ /\ k.courses # <<>> /\ step' = "course" /\ job'.mine = {}
            /\ job'.c = Head(k.courses) /\ job'.courses = Tail(k.courses)
      BY <1>1, <1>2, EnterCourseIs
<1>5. job'.records = job.records \cup job.mine
      BY <1>1, <1>4 DEF Agree, Fields
<1>6. KeepsAllBut({"c", "courses", "mine"} \cup {"records"})
      BY <1>1, <1>4 DEF Agree, KeepsAllBut
<1> QED BY <1>3, <1>4, <1>5, <1>6 DEF NextCourse

LEMMA ExportCalendarIs ==
    ASSUME DOMAIN job = Fields, NEW ok \in BOOLEAN, ExportCalendar(ok)
    PROVE  MovesTo("report", {"failed"}) /\ job'.failed = (job.failed \/ ~ok)
PROOF
<1> DEFINE k == [job EXCEPT !.failed = @ \/ ~ok]
<1>1. DOMAIN k = Fields /\ k.failed = (job.failed \/ ~ok) /\ Agree(job, k, Fields \ {"failed"})
      BY DEF Agree, Fields
<1>2. step' = "report" /\ job' = k
      BY DEF ExportCalendar, Goto
<1> QED BY <1>1, <1>2 DEF MovesTo, KeepsAllBut

LEMMA UploadReportIs ==
    ASSUME DOMAIN job = Fields, NEW ok \in BOOLEAN, UploadReport(ok)
    PROVE  \/ ok /\ MovesTo("navigation", {})
           \/ ~ok /\ Stops
PROOF
<1>1. CASE ok
      BY <1>1, StaysIs DEF UploadReport
<1>2. CASE ~ok
      BY <1>2 DEF UploadReport, Abort, Goto, Stops
<1> QED BY <1>1, <1>2

LEMMA UploadNavigationIs ==
    ASSUME DOMAIN job = Fields, NEW ok \in BOOLEAN, UploadNavigation(ok)
    PROVE  \/ ok /\ (MovesTo("latest", {}) \/ MovesTo("archive", {}))
           \/ ~ok /\ Stops
PROOF
<1>1. CASE ok
      BY <1>1, StaysIs DEF UploadNavigation
<1>2. CASE ~ok
      BY <1>2 DEF UploadNavigation, Abort, Goto, Stops
<1> QED BY <1>1, <1>2

LEMMA WriteArchiveIs ==
    ASSUME DOMAIN job = Fields, WriteArchive
    PROVE  \/ ArchiveRefused(job) /\ Stops
           \/ ~ArchiveRefused(job) /\ MovesTo("rename", {}) /\ tmp' = ArchiveContents(job)
PROOF
<1>1. CASE ArchiveRefused(job)
      BY <1>1 DEF WriteArchive, Abort, Goto, Stops
<1>2. CASE ~ArchiveRefused(job)
      BY <1>2, StaysIs DEF WriteArchive
<1> QED BY <1>1, <1>2

LEMMA RenameArchiveIs ==
    ASSUME DOMAIN job = Fields, RenameArchive
    PROVE  MovesTo("latest", {})
PROOF BY StaysIs DEF RenameArchive

LEMMA UploadLatestIs ==
    ASSUME DOMAIN job = Fields, NEW ok \in BOOLEAN, UploadLatest(ok)
    PROVE  \/ /\ ok /\ job'.index = UpdatedIndex /\ KeepsAllBut({"index"})
              /\ \/ step' = "write"
                 \/ job.queue # <<>> /\ step' = "semester"
           \/ ~ok /\ Stops
PROOF
<1>1. CASE ok
  <2> DEFINE z == UpdatedIndex
             k == [job EXCEPT !.index = z]
  <2>1. DOMAIN k = Fields /\ k.index = z /\ Agree(job, k, Fields \ {"index"})
    <3> HIDE DEF z
    <3> QED BY DEF Agree, Fields
  <2>2. step' = (IF job.queue = <<>> THEN "write" ELSE "semester") /\ job' = k
      BY <1>1 DEF UploadLatest, Goto
  <2> HIDE DEF k
  <2> QED BY <1>1, <2>1, <2>2 DEF KeepsAllBut
<1>2. CASE ~ok
      BY <1>2 DEF UploadLatest, Abort, Goto, Stops
<1> QED BY <1>1, <1>2

LEMMA StopsIs ==
    ASSUME WriteIndex \/ Crash
    PROVE  Stops
PROOF BY DEF WriteIndex, Crash, Abort, Goto, Stops

LEMMA StartExportIs ==
    ASSUME NEW asked \in Commands, StartExport(asked)
    PROVE  /\ step' = "semester" /\ DOMAIN job' = Fields /\ job'.upload = asked.upload
           /\ job'.queue = SemestersToProcess(asked) /\ job'.index = index
PROOF
<1> DEFINE z == SemestersToProcess(asked)
<1> HIDE DEF z
<1>1. job' = NewJob(z, asked) /\ step' = "semester"
      BY DEF StartExport, Goto, z
<1>2. DOMAIN job' = Fields /\ job'.upload = asked.upload /\ job'.queue = z /\ job'.index = index
      BY <1>1 DEF NewJob, Fields
<1> QED BY <1>1, <1>2 DEF z

(* What a new run begins with.                                             *)
LEMMA BeginSemesterIs ==
    ASSUME DOMAIN job = Fields, NEW ok \in BOOLEAN, BeginSemester(ok)
    PROVE  \/ ~ok /\ Stops
           \/ LET s == Head(job.queue)
                  courses == SetToSeq(CoursesOf(s))
              IN  /\ ok /\ DOMAIN job' = Fields
                  /\ Agree(job, job', {"upload", "index", "profile"})
                  /\ job'.s = s /\ job'.queue = Tail(job.queue)
                  /\ job'.run = commands * Cardinality(Semesters) + Len(job.queue)
                  /\ job'.failed = (CoursesOf(s) = {})
                  /\ job'.raw = <<>> /\ job'.zip = <<>> /\ job'.records = {}
                  /\ \/ courses = <<>> /\ step' = "calendar"
                     \/ /\ courses # <<>> /\ step' = "course" /\ job'.mine = {}
                        /\ job'.c = Head(courses) /\ job'.courses = Tail(courses)
PROOF
<1>1. CASE ok
  <2> DEFINE s == Head(job.queue)
             courses == SetToSeq(CoursesOf(s))
             run == commands * Cardinality(Semesters) + Len(job.queue)
             none == CoursesOf(s) = {}
             k == [job EXCEPT !.s = s, !.queue = Tail(@),
                                !.run = run,
                                !.courses = courses, !.failed = none,
                                !.raw = <<>>, !.zip = <<>>, !.records = {}]
  <2>1. EnterCourse(k)
      BY <1>1 DEF BeginSemester
  <2>2. /\ DOMAIN k = Fields /\ k.s = s /\ k.queue = Tail(job.queue) /\ k.run = run
        /\ k.courses = courses /\ k.failed = none
        /\ k.raw = <<>> /\ k.zip = <<>> /\ k.records = {}
        /\ Agree(job, k, {"upload", "index", "profile"})
    <3> HIDE DEF s, courses, run, none
    <3> QED BY DEF Agree, Fields
  <2> HIDE DEF k, courses, run, none, s
  <2>3. /\ DOMAIN job' = Fields /\ Agree(k, job', Fields \ {"c", "courses", "mine"})
        /\ \/ k.courses = <<>> /\ step' = "calendar" /\ job' = k
           \/ /\ k.courses # <<>> /\ step' = "course" /\ job'.mine = {}
              /\ job'.c = Head(k.courses) /\ job'.courses = Tail(k.courses)
      BY <2>1, <2>2, EnterCourseIs
  <2>4. Agree(job, job', {"upload", "index", "profile"})
      BY <2>2, <2>3 DEF Agree, Fields
  <2>5. /\ job'.s = s /\ job'.queue = Tail(job.queue) /\ job'.run = run /\ job'.failed = none
        /\ job'.raw = <<>> /\ job'.zip = <<>> /\ job'.records = {}
      BY <2>2, <2>3 DEF Agree, Fields
  <2>6. \/ courses = <<>> /\ step' = "calendar"
        \/ /\ courses # <<>> /\ step' = "course" /\ job'.mine = {}
           /\ job'.c = Head(courses) /\ job'.courses = Tail(courses)
      BY <2>2, <2>3
  <2> QED BY <1>1, <2>3, <2>4, <2>5, <2>6 DEF s, courses, run, none
<1>2. CASE ~ok
      BY <1>2 DEF BeginSemester, Abort, Goto, Stops
<1> QED BY <1>1, <1>2

-----------------------------------------------------------------------------
(* Export: where a command is.                                             *)

N == Cardinality(Semesters)

LEMMA NIsNat == N \in Nat /\ IsFiniteSet(Semesters) /\ \A n \in Nat : n + 1 \in Nat /\ n * N \in Nat /\ n * N + N \in Nat /\ (n + 1) * N = n * N + N
PROOF
<1>1. IsFiniteSet(Semesters)
      BY ExportAssumption
<1>2. N \in Nat
      BY <1>1, FS_CardinalityType DEF N
<1>3. \A n \in Nat : n + 1 \in Nat /\ n * N \in Nat /\ n * N + N \in Nat /\ (n + 1) * N = n * N + N
      BY <1>2
<1> QED BY <1>1, <1>2, <1>3

AtQueue ==
    step # "idle" =>
        /\ DOMAIN job = Fields /\ job.upload \in BOOLEAN
        /\ job.queue \in Seq(Semesters) /\ IsInjective(job.queue)
        /\ step = "semester" => job.queue # <<>>

(* The runs of a command follow those of the commands before it.           *)
AtSemester ==
    step \in SemesterSteps =>
        /\ job.s \in Semesters /\ job.s \notin Range(job.queue)
        /\ job.run \in Nat /\ commands * N < job.run /\ job.run <= commands * N + N

AtCourse ==
    step \in CourseSteps =>
        /\ job.c \in CoursesOf(job.s) /\ job.c \notin Range(job.courses)
        /\ job.courses \in Seq(CoursesOf(job.s)) /\ IsInjective(job.courses)

AtResource ==
    step \in ResourceSteps =>
        /\ job.r \in ResourcesOf(job.c) /\ job.r \notin Range(job.resources)
        /\ job.resources \in Seq(ResourcesOf(job.c)) /\ IsInjective(job.resources)
        /\ job.textOf \subseteq ResourcesOf(job.c) /\ TextsOf(job.c, job.textOf, texts[job.c])

Placed ==
    /\ step \in Labels /\ commands \in Nat /\ dirs \subseteq Semesters
    /\ DOMAIN texts = Courses /\ DOMAIN courseIndex = Courses
    /\ AtQueue /\ AtSemester /\ AtCourse /\ AtResource

LEMMA LabelsDiffer ==
    /\ SemesterSteps \cap {"idle", "semester", "write"} = {} /\ CourseSteps \cap ClosingSteps = {}
    /\ CourseSteps \cup ClosingSteps = SemesterSteps /\ SemesterSteps \subseteq Labels
    /\ {"idle", "semester", "write"} \subseteq Labels
    /\ ResourceSteps \subseteq CourseSteps /\ {"course", "upload zip", "texts", "docs", "index"} \subseteq CourseSteps \ ResourceSteps
PROOF BY DEF SemesterSteps, CourseSteps, ClosingSteps, ResourceSteps, Labels

(* A step of the same course.                                              *)
LEMMA SameCoursePlaced ==
    ASSUME Placed, step \in CourseSteps, step' \in CourseSteps, DOMAIN job' = Fields,
           Agree(job, job', {"queue", "upload", "s", "run", "c", "courses"}), commands' = commands
    PROVE  AtQueue' /\ AtSemester' /\ AtCourse'
PROOF
<1>1. /\ job'.queue = job.queue /\ job'.upload = job.upload /\ job'.s = job.s /\ job'.run = job.run
      /\ job'.c = job.c /\ job'.courses = job.courses
      BY DEF Agree
<1>2. step # "idle" /\ step' # "semester" /\ step \in SemesterSteps
      BY LabelsDiffer
<1>3. AtQueue'
      BY <1>1, <1>2 DEF Placed, AtQueue
<1>4. AtSemester'
      BY <1>1, <1>2 DEF Placed, AtSemester
<1>5. AtCourse'
      BY <1>1 DEF Placed, AtCourse
<1> QED BY <1>3, <1>4, <1>5

(* A step after the courses of a semester.                                 *)
LEMMA ClosePlaced ==
    ASSUME Placed, step \in SemesterSteps, step' \in ClosingSteps, DOMAIN job' = Fields,
           Agree(job, job', {"queue", "upload", "s", "run"}), commands' = commands
    PROVE  AtQueue' /\ AtSemester' /\ AtCourse' /\ AtResource'
PROOF
<1>1. job'.queue = job.queue /\ job'.upload = job.upload /\ job'.s = job.s /\ job'.run = job.run
      BY DEF Agree
<1>2. step # "idle" /\ step' # "semester" /\ step' \notin CourseSteps /\ step' \notin ResourceSteps
      BY LabelsDiffer
<1>3. AtQueue'
      BY <1>1, <1>2 DEF Placed, AtQueue
<1>4. AtSemester'
      BY <1>1, <1>2 DEF Placed, AtSemester
<1> QED BY <1>2, <1>3, <1>4 DEF AtCourse, AtResource

LEMMA NextCoursePlaced ==
    ASSUME Placed, step \in CourseSteps, NEW F, F \cap {"queue", "upload", "s", "run"} = {}, NextCourse(F),
           commands' = commands
    PROVE  /\ AtQueue' /\ AtSemester' /\ AtCourse' /\ AtResource'
           /\ DOMAIN job' = Fields /\ step' \in {"course", "calendar"}
           /\ Agree(job, job', {"queue", "upload", "s", "run"})
           /\ step' = "course" => Range(job.courses) = {job'.c} \cup Range(job'.courses) /\ job'.mine = {}
PROOF
<1>1. DOMAIN job' = Fields /\ Agree(job, job', Fields \ ({"c", "courses", "mine"} \cup F))
      BY DEF NextCourse, KeepsAllBut
<1>2. Agree(job, job', {"queue", "upload", "s", "run"})
      BY <1>1 DEF Agree, Fields
<1>3. step \in SemesterSteps
      BY LabelsDiffer
<1>4. CASE job.courses = <<>>
  <2>1. step' = "calendar"
      BY <1>4 DEF NextCourse
  <2>2. step' \in ClosingSteps
      BY <2>1 DEF ClosingSteps
  <2> QED BY <1>1, <1>2, <1>3, <2>1, <2>2, ClosePlaced
<1>5. CASE job.courses # <<>>
  <2>1. /\ step' = "course" /\ job'.mine = {}
        /\ job'.c = Head(job.courses) /\ job'.courses = Tail(job.courses)
      BY <1>5 DEF NextCourse
  <2>2. step' \in CourseSteps /\ step' \notin ResourceSteps
      BY <2>1 DEF CourseSteps, ResourceSteps
  <2> DEFINE S == CoursesOf(job.s)
             q == job.courses
  <2>3. q \in Seq(S) /\ IsInjective(q) /\ q # <<>>
      BY <1>5 DEF Placed, AtCourse
  <2> HIDE DEF S, q
  <2>4. /\ Head(q) \in S /\ Tail(q) \in Seq(S) /\ IsInjective(Tail(q))
        /\ Range(q) = {Head(q)} \cup Range(Tail(q)) /\ Head(q) \notin Range(Tail(q))
      BY <2>3, TailIs
  <2>5. job'.queue = job.queue /\ job'.upload = job.upload /\ job'.s = job.s /\ job'.run = job.run
      BY <1>2 DEF Agree
  <2>6. AtCourse'
      BY <2>1, <2>4, <2>5 DEF AtCourse, S, q
  <2>7. step # "idle" /\ step' # "semester"
      BY <2>1, <1>3, LabelsDiffer
  <2>8. AtQueue'
      BY <1>1, <2>5, <2>7 DEF Placed, AtQueue
  <2>9. AtSemester'
      BY <1>3, <2>5 DEF Placed, AtSemester
  <2>10. AtResource'
      BY <2>2 DEF AtResource
  <2>11. Range(job.courses) = {job'.c} \cup Range(job'.courses)
      BY <2>1, <2>4 DEF q
  <2> QED BY <1>1, <1>2, <2>1, <2>6, <2>8, <2>9, <2>10, <2>11
<1> QED BY <1>4, <1>5

LEMMA NextResourcePlaced ==
    ASSUME Placed, step \in ResourceSteps, NEW x, NextResource(x, {"raw"}), commands' = commands, texts' = texts
    PROVE  /\ AtQueue' /\ AtSemester' /\ AtCourse' /\ AtResource'
           /\ DOMAIN job' = Fields /\ step' \in {"docs", "raw run"}
           /\ step' = "raw run" => Range(job.resources) = {job'.r} \cup Range(job'.resources)
PROOF
<1>1. DOMAIN job' = Fields /\ Agree(job, job', Fields \ ({"r", "resources", "mine"} \cup {"raw"}))
      BY DEF NextResource, KeepsAllBut
<1>2. Agree(job, job', {"queue", "upload", "s", "run", "c", "courses"}) /\ job'.textOf = job.textOf /\ job'.c = job.c
      BY <1>1 DEF Agree, Fields
<1>3. step \in CourseSteps
      BY LabelsDiffer
<1>4. step' \in {"docs", "raw run"}
      BY DEF NextResource
<1>5. step' \in CourseSteps
      BY <1>4 DEF CourseSteps, ResourceSteps
<1>6. AtQueue' /\ AtSemester' /\ AtCourse'
      BY <1>1, <1>2, <1>3, <1>5, SameCoursePlaced
<1>7. CASE job.resources = <<>>
  <2>1. step' = "docs"
      BY <1>7 DEF NextResource
  <2>2. AtResource'
      BY <2>1 DEF AtResource, ResourceSteps
  <2> QED BY <1>1, <1>4, <1>6, <2>1, <2>2
<1>8. CASE job.resources # <<>>
  <2>1. /\ step' = "raw run" /\ job'.r = Head(job.resources) /\ job'.resources = Tail(job.resources)
      BY <1>8 DEF NextResource
  <2> DEFINE S == ResourcesOf(job.c)
             q == job.resources
  <2>2. q \in Seq(S) /\ IsInjective(q) /\ q # <<>>
      BY <1>8 DEF Placed, AtResource
  <2> HIDE DEF S, q
  <2>3. /\ Head(q) \in S /\ Tail(q) \in Seq(S) /\ IsInjective(Tail(q))
        /\ Range(q) = {Head(q)} \cup Range(Tail(q)) /\ Head(q) \notin Range(Tail(q))
      BY <2>2, TailIs
  <2>4. AtResource'
      BY <1>2, <2>1, <2>3 DEF Placed, AtResource, S, q
  <2>5. Range(job.resources) = {job'.r} \cup Range(job'.resources)
      BY <2>1, <2>3 DEF q
  <2> QED BY <1>1, <1>4, <1>6, <2>4, <2>5
<1> QED BY <1>7, <1>8

(* A list of courses or of resources is finite.                            *)
LEMMA ListsAreFinite ==
    /\ \A s : IsFiniteSet(CoursesOf(s)) /\ CoursesOf(s) \subseteq Courses
    /\ \A c : IsFiniteSet(ResourcesOf(c)) /\ ResourcesOf(c) \subseteq Resources
PROOF
<1>1. IsFiniteSet(Courses) /\ IsFiniteSet(Resources)
      BY ExportAssumption
<1>2. \A s : CoursesOf(s) \in SUBSET Courses
      BY DEF CoursesOf
<1>3. \A c : ResourcesOf(c) \in SUBSET Resources
      BY DEF ResourcesOf
<1> QED BY <1>1, <1>2, <1>3, FS_Subset

(* What a command is to process: no semester twice.                        *)
LEMMA QueueIs ==
    ASSUME Placed, NEW asked \in Commands
    PROVE  /\ SemestersToProcess(asked) \in Seq(Semesters) /\ IsInjective(SemestersToProcess(asked))
           /\ SemestersToProcess(asked) # <<>>
PROOF
<1>1. asked.term \in Semesters \cup {Null} /\ CurrentTerm \in Semesters
      BY ExportAssumption
<1>2. CASE asked.term # Null
  <2> DEFINE t == asked.term
  <2>1. t \in Semesters
      BY <1>1, <1>2
  <2> HIDE DEF t
  <2>2. <<t>> \in Seq(Semesters) /\ Len(<<t>>) = 1 /\ DOMAIN <<t>> = {1}
      BY <2>1
  <2>3. IsInjective(<<t>>) /\ <<t>> # <<>>
      BY <2>2 DEF IsInjective
  <2>4. SemestersToProcess(asked) = <<t>>
      BY <1>2 DEF SemestersToProcess, t
  <2> QED BY <2>2, <2>3, <2>4
<1>3. CASE asked.term = Null
  <2> DEFINE S == {s \in dirs \ {CurrentTerm} : ~index[s].complete}
             q == SetToSeq(S)
             u == <<CurrentTerm>>
  <2>1. SemestersToProcess(asked) = u \o q
      BY <1>3 DEF SemestersToProcess
  <2>2. S \in SUBSET Semesters /\ CurrentTerm \notin S
      BY DEF Placed
  <2>3. IsFiniteSet(S)
      BY <2>2, NIsNat, FS_Subset
  <2> HIDE DEF S
  <2>4. q \in Seq(S) /\ IsInjective(q) /\ Range(q) = S
      BY <2>3, SetToSeqIs
  <2>5. u \in Seq(Semesters) /\ Len(u) = 1 /\ u[1] = CurrentTerm
      BY <1>1
  <2> HIDE DEF q, u
  <2>6. q \in Seq(Semesters)
      BY <2>2, <2>4, SeqMonotonic
  <2> DEFINE w == u \o q
  <2>7. /\ w \in Seq(Semesters) /\ Len(w) = 1 + Len(q)
        /\ \A i \in 1..(1 + Len(q)) : w[i] = IF i <= 1 THEN u[i] ELSE q[i - 1]
    <3>1. /\ w \in Seq(Semesters) /\ Len(w) = Len(u) + Len(q)
          /\ \A i \in 1..(Len(u) + Len(q)) : w[i] = IF i <= Len(u) THEN u[i] ELSE q[i - Len(u)]
        BY <2>5, <2>6, ConcatProperties
    <3> HIDE DEF w
    <3> QED BY <3>1, <2>5
  <2>8. Len(q) \in Nat /\ DOMAIN q = 1..Len(q) /\ \A i \in 1..Len(q) : q[i] \in S
      BY <2>4, LenProperties, ElementOfSeq
  <2> HIDE DEF w
  <2>9. DOMAIN w = 1..(1 + Len(q)) /\ w[1] = CurrentTerm
      BY <2>5, <2>7, <2>8, LenProperties
  <2>10. \A i \in 2..(1 + Len(q)) : i - 1 \in 1..Len(q) /\ w[i] = q[i - 1]
      BY <2>7, <2>8
  <2>11. \A i \in 2..(1 + Len(q)) : w[i] # w[1]
      BY <2>2, <2>8, <2>9, <2>10
  <2>12. ASSUME NEW i \in DOMAIN w, NEW k \in DOMAIN w, w[i] = w[k] PROVE i = k
    <3>1. CASE i = 1 \/ k = 1
        BY <3>1, <2>8, <2>9, <2>11, <2>12
    <3>2. CASE i # 1 /\ k # 1
      <4>1. i \in 2..(1 + Len(q)) /\ k \in 2..(1 + Len(q))
          BY <3>2, <2>8, <2>9
      <4>2. i - 1 \in DOMAIN q /\ k - 1 \in DOMAIN q /\ q[i - 1] = q[k - 1]
          BY <4>1, <2>8, <2>10, <2>12
      <4>3. i - 1 = k - 1
          BY <4>2, <2>4 DEF IsInjective
      <4> QED BY <4>1, <4>3
    <3> QED BY <3>1, <3>2
  <2>13. IsInjective(w)
      BY <2>12 DEF IsInjective
  <2>14. w # <<>>
      BY <2>7, <2>8
  <2>15. SemestersToProcess(asked) = w
      BY <2>1 DEF w
  <2> QED BY <2>7, <2>13, <2>14, <2>15
<1> QED BY <1>2, <1>3

LEMMA BeginSemesterPlaced ==
    ASSUME Placed, NEW ok \in BOOLEAN, BeginSemester(ok), step' # "idle"
    PROVE  /\ AtQueue' /\ AtSemester' /\ AtCourse' /\ AtResource'
           /\ ok /\ step' \in {"course", "calendar"} /\ Agree(job, job', {"upload", "index", "profile"})
           /\ job'.s = Head(job.queue) /\ Range(job.queue) = {job'.s} \cup Range(job'.queue)
           /\ job'.failed = (CoursesOf(job'.s) = {})
           /\ job'.raw = <<>> /\ job'.zip = <<>> /\ job'.records = {}
           /\ step' = "course" => job'.mine = {} /\ CoursesOf(job'.s) = {job'.c} \cup Range(job'.courses)
           /\ step' = "calendar" => CoursesOf(job'.s) = {}
PROOF
<1>1. step = "semester" /\ commands' = commands
      BY DEF BeginSemester
<1> DEFINE s == Head(job.queue)
           courses == SetToSeq(CoursesOf(s))
           q == job.queue
<1>2. DOMAIN job = Fields /\ job.upload \in BOOLEAN /\ q \in Seq(Semesters) /\ IsInjective(q) /\ q # <<>>
      BY <1>1 DEF Placed, AtQueue
<1>3. /\ ok /\ DOMAIN job' = Fields
      /\ Agree(job, job', {"upload", "index", "profile"})
      /\ job'.s = s /\ job'.queue = Tail(q)
      /\ job'.run = commands * N + Len(q)
      /\ job'.failed = (CoursesOf(s) = {})
      /\ job'.raw = <<>> /\ job'.zip = <<>> /\ job'.records = {}
      /\ \/ courses = <<>> /\ step' = "calendar"
         \/ /\ courses # <<>> /\ step' = "course" /\ job'.mine = {}
            /\ job'.c = Head(courses) /\ job'.courses = Tail(courses)
      BY <1>2, BeginSemesterIs DEF Stops, N
<1>4. CoursesOf(s) \subseteq Courses /\ IsFiniteSet(CoursesOf(s))
      BY ListsAreFinite
<1>5. courses \in Seq(CoursesOf(s)) /\ IsInjective(courses) /\ Range(courses) = CoursesOf(s)
      BY <1>4, SetToSeqIs
<1> HIDE DEF courses, q
<1>6. /\ Head(q) \in Semesters /\ Tail(q) \in Seq(Semesters) /\ IsInjective(Tail(q))
      /\ Range(q) = {Head(q)} \cup Range(Tail(q)) /\ Head(q) \notin Range(Tail(q))
      BY <1>2, TailIs
<1>7. s = Head(q)
      BY DEF q
<1> HIDE DEF s
<1>8. Len(q) \in Nat \ {0} /\ Len(q) <= N
  <2>1. Len(q) \in Nat /\ q \in [1..Len(q) -> Semesters] /\ DOMAIN q = 1..Len(q)
      BY <1>2, LenProperties
  <2>2. Len(q) # 0
      BY <1>2, EmptySeq, LenProperties
  <2>3. q \in Injection(1..Len(q), Semesters)
      BY <1>2, <2>1 DEF Injection, IsInjective
  <2>4. Cardinality(1..Len(q)) <= Cardinality(Semesters)
      BY <2>3, NIsNat, FS_Injection
  <2>5. Cardinality(1..Len(q)) = Len(q)
    <3> DEFINE m == Len(q)
    <3>1. m \in Nat
        BY <2>1
    <3> HIDE DEF m
    <3>2. Cardinality(1..m) = m
        BY <3>1, FS_Interval
    <3> QED BY <3>2 DEF m
  <2> QED BY <2>1, <2>2, <2>4, <2>5 DEF N
<1>9. job'.run \in Nat /\ commands * N < job'.run /\ job'.run <= commands * N + N
  <2> DEFINE b == commands * N
  <2>1. b \in Nat /\ N \in Nat
      BY NIsNat DEF Placed
  <2>2. job'.run = b + Len(q)
      BY <1>3
  <2> HIDE DEF b
  <2>3. job'.run \in Nat /\ b < job'.run /\ job'.run <= b + N
      BY <1>8, <2>1, <2>2
  <2> QED BY <2>3 DEF b
<1>10. AtSemester'
  <2>1. job'.s \in Semesters /\ job'.s \notin Range(job'.queue)
      BY <1>3, <1>6, <1>7
  <2> QED BY <1>1, <1>9, <2>1 DEF AtSemester, N
<1>11. job'.upload \in BOOLEAN
      BY <1>2, <1>3 DEF Agree
<1>12. step' # "semester"
      BY <1>3
<1>13. AtQueue'
      BY <1>3, <1>6, <1>11, <1>12 DEF AtQueue
<1>14. step' \notin ResourceSteps /\ step' \in {"course", "calendar"}
      BY <1>3 DEF ResourceSteps
<1>15. AtResource'
      BY <1>14 DEF AtResource
<1>16. Range(job.queue) = {job'.s} \cup Range(job'.queue) /\ job'.s = Head(job.queue)
      BY <1>3, <1>6, <1>7 DEF q
<1>17. job'.failed = (CoursesOf(job'.s) = {})
      BY <1>3
<1>18. CASE courses = <<>>
  <2>1. step' = "calendar"
      BY <1>3, <1>18
  <2>2. CoursesOf(job'.s) = {}
      BY <1>3, <1>5, <1>18, RangeOfEmpty
  <2>3. AtCourse'
      BY <2>1 DEF AtCourse, CourseSteps, ResourceSteps
  <2> QED BY <1>3, <1>10, <1>13, <1>14, <1>15, <1>16, <1>17, <2>1, <2>2, <2>3
<1>19. CASE courses # <<>>
  <2>1. step' = "course" /\ job'.mine = {} /\ job'.c = Head(courses) /\ job'.courses = Tail(courses)
      BY <1>3, <1>19
  <2>2. /\ Head(courses) \in CoursesOf(s) /\ Tail(courses) \in Seq(CoursesOf(s)) /\ IsInjective(Tail(courses))
        /\ Range(courses) = {Head(courses)} \cup Range(Tail(courses)) /\ Head(courses) \notin Range(Tail(courses))
      BY <1>5, <1>19, TailIs
  <2>3. CoursesOf(job'.s) = {job'.c} \cup Range(job'.courses)
      BY <1>3, <1>5, <2>1, <2>2
  <2>4. AtCourse'
      BY <1>3, <2>1, <2>2 DEF AtCourse
  <2> QED BY <1>3, <1>10, <1>13, <1>14, <1>15, <1>16, <1>17, <2>1, <2>3, <2>4
<1> QED BY <1>18, <1>19

LEMMA PlacedInit ==
    ASSUME ExportInit
    PROVE  Placed
PROOF
<1>1. step = "idle" /\ step \in Labels /\ step \notin SemesterSteps /\ step \notin CourseSteps /\ step \notin ResourceSteps
      BY LabelsDiffer DEF ExportInit
<1>2. commands \in Nat /\ dirs \subseteq Semesters /\ DOMAIN texts = Courses /\ DOMAIN courseIndex = Courses
      BY DEF ExportInit
<1> QED BY <1>1, <1>2 DEF Placed, AtQueue, AtSemester, AtCourse, AtResource

LEMMA StopsPlaced ==
    ASSUME Placed, step' = "idle", commands' \in Nat, dirs' \subseteq Semesters,
           DOMAIN texts' = Courses, DOMAIN courseIndex' = Courses
    PROVE  Placed'
PROOF
<1>1. step' \in Labels /\ step' \notin SemesterSteps /\ step' \notin CourseSteps /\ step' \notin ResourceSteps
      BY LabelsDiffer
<1> QED BY <1>1 DEF Placed, AtQueue, AtSemester, AtCourse, AtResource

LEMMA CoursePlaced ==
    ASSUME Placed, NEW ok \in BOOLEAN, Course(ok)
    PROVE  Placed'
PROOF
<1> USE LabelsDiffer
<1> DEFINE Rest == /\ commands' \in Nat /\ dirs' \subseteq Semesters
                   /\ DOMAIN texts' = Courses /\ DOMAIN courseIndex' = Courses
           Goal == AtQueue' /\ AtSemester' /\ AtCourse' /\ AtResource' /\ step' \in Labels
<1>1. ASSUME step \in CourseSteps PROVE DOMAIN job = Fields /\ job.s \in Semesters
      BY <1>1 DEF Placed, AtQueue, AtSemester
<1>2. ASSUME step \in CourseSteps, NEW F, F \cap {"queue", "upload", "s", "run"} = {}, NextCourse(F),
             commands' = commands
      PROVE  Goal
  <2>1. AtQueue' /\ AtSemester' /\ AtCourse' /\ AtResource' /\ step' \in {"course", "calendar"}
      BY <1>2, NextCoursePlaced
  <2> QED BY <2>1 DEF ClosingSteps
<1>3. ASSUME step \in CourseSteps, NEW label \in CourseSteps \ ResourceSteps, NEW F,
             F \cap {"queue", "upload", "s", "run", "c", "courses"} = {}, MovesTo(label, F), commands' = commands
      PROVE  Goal
  <2>1. step' = label /\ DOMAIN job' = Fields /\ Agree(job, job', {"queue", "upload", "s", "run", "c", "courses"})
      BY <1>3 DEF MovesTo, KeepsAllBut, Agree, Fields
  <2>2. AtQueue' /\ AtSemester' /\ AtCourse'
      BY <1>3, <2>1, SameCoursePlaced
  <2>3. AtResource'
      BY <2>1 DEF AtResource
  <2> QED BY <2>1, <2>2, <2>3
<1>4. ASSUME step \in ResourceSteps, NEW x, NextResource(x, {"raw"}), commands' = commands, texts' = texts
      PROVE  Goal
  <2>1. AtQueue' /\ AtSemester' /\ AtCourse' /\ AtResource' /\ step' \in {"docs", "raw run"}
      BY <1>4, NextResourcePlaced
  <2> QED BY <2>1 DEF ResourceSteps
<1>5. ASSUME step \in ResourceSteps, NEW label \in ResourceSteps, NEW F, F \subseteq {"raw"}, MovesTo(label, F),
             commands' = commands, texts' = texts
      PROVE  Goal
  <2>1. step' = label /\ DOMAIN job' = Fields /\ Agree(job, job', Fields \ {"raw"})
      BY <1>5 DEF MovesTo, KeepsAllBut, Agree
  <2>2. Agree(job, job', {"queue", "upload", "s", "run", "c", "courses"})
      BY <2>1 DEF Agree, Fields
  <2>3. AtQueue' /\ AtSemester' /\ AtCourse'
      BY <1>5, <2>1, <2>2, SameCoursePlaced
  <2>4. /\ job'.c = job.c /\ job'.r = job.r /\ job'.resources = job.resources /\ job'.textOf = job.textOf
      BY <2>1 DEF Agree, Fields
  <2>5. AtResource'
      BY <1>5, <2>1, <2>4 DEF Placed, AtResource
  <2> QED BY <2>1, <2>3, <2>5
<1>6. CASE SnapshotCourse(ok)
  <2>1. step \in CourseSteps /\ commands' = commands /\ texts' = texts /\ courseIndex' = courseIndex /\ dirs' = dirs \cup {job.s}
      BY <1>6 DEF SnapshotCourse, WithCourseFiles, CourseSteps
  <2>2. Rest
      BY <1>1, <2>1 DEF Placed
  <2>3. MovesTo("upload zip", {"zip"}) \/ NextCourse({"failed"})
      BY <1>1, <1>6, <2>1, SnapshotCourseIs
  <2>4. Goal
      BY <1>2, <1>3, <2>1, <2>3
  <2> QED BY <2>2, <2>4 DEF Placed
<1>7. CASE UploadZip(ok)
  <2>1. step \in CourseSteps /\ commands' = commands /\ texts' = texts /\ courseIndex' = courseIndex /\ dirs' = dirs
      BY <1>7 DEF UploadZip, CourseSteps, workspace
  <2>2. MovesTo("index", {}) \/ MovesTo("texts", {}) \/ NextCourse({"failed"})
      BY <1>1, <1>7, <2>1, UploadZipIs
  <2>3. Goal
      BY <1>2, <1>3, <2>1, <2>2
  <2> QED BY <2>1, <2>3 DEF Placed
<1>8. CASE UploadRawToRun(ok)
  <2>1. step \in ResourceSteps /\ commands' = commands /\ texts' = texts /\ courseIndex' = courseIndex /\ dirs' = dirs
      BY <1>8 DEF UploadRawToRun, ResourceSteps, workspace
  <2>2. MovesTo("raw current", {"raw"}) \/ NextResource(Noted(Null, FALSE), {"raw"})
      BY <1>1, <1>8, <2>1, UploadRawToRunIs
  <2>3. "raw current" \in ResourceSteps
      BY DEF ResourceSteps
  <2>4. Goal
      BY <1>4, <1>5, <2>1, <2>2, <2>3
  <2> QED BY <2>1, <2>4 DEF Placed
<1>9. CASE UploadRawToCurrent(ok)
  <2>1. step \in ResourceSteps /\ commands' = commands /\ texts' = texts /\ courseIndex' = courseIndex /\ dirs' = dirs
      BY <1>9 DEF UploadRawToCurrent, ResourceSteps, workspace
  <2>2. MovesTo("text", {}) \/ NextResource(Noted(Null, FALSE), {"raw"})
      BY <1>1, <1>9, <2>1, UploadRawToCurrentIs
  <2>3. "text" \in ResourceSteps
      BY DEF ResourceSteps
  <2>4. Goal
      BY <1>4, <1>5, <2>1, <2>2, <2>3
  <2> QED BY <2>1, <2>4 DEF Placed
<1>10. CASE UploadText(ok)
  <2>1. step \in ResourceSteps /\ commands' = commands /\ texts' = texts /\ courseIndex' = courseIndex /\ dirs' = dirs
      BY <1>10 DEF UploadText, ResourceSteps, workspace
  <2>2. PICK text \in BOOLEAN : NextResource(Noted(job.raw[job.r], text), {"raw"})
      BY <1>1, <1>10, <2>1, UploadTextIs
  <2>3. Goal
      BY <1>4, <2>1, <2>2
  <2> QED BY <2>1, <2>3 DEF Placed
<1>11. CASE UploadCourseDocs(ok)
  <2>1. step \in CourseSteps /\ commands' = commands /\ texts' = texts /\ courseIndex' = courseIndex /\ dirs' = dirs
      BY <1>11 DEF UploadCourseDocs, CourseSteps, workspace
  <2>2. MovesTo("index", {}) \/ NextCourse({"failed"})
      BY <1>1, <1>11, <2>1, UploadCourseDocsIs
  <2>3. Goal
      BY <1>2, <1>3, <2>1, <2>2
  <2> QED BY <2>1, <2>3 DEF Placed
<1> QED BY <1>6, <1>7, <1>8, <1>9, <1>10, <1>11 DEF Course

LEMMA SemesterPlaced ==
    ASSUME Placed, NEW ok \in BOOLEAN, Semester(ok)
    PROVE  Placed'
PROOF
<1> USE LabelsDiffer
<1>1. ASSUME step \in SemesterSteps PROVE DOMAIN job = Fields /\ job.s \in Semesters
      BY <1>1 DEF Placed, AtQueue, AtSemester
<1>2. ASSUME step \in SemesterSteps, NEW label \in ClosingSteps, NEW F, F \cap {"queue", "upload", "s", "run"} = {},
             MovesTo(label, F), commands' = commands, dirs' \subseteq Semesters, texts' = texts, courseIndex' = courseIndex
      PROVE  Placed'
  <2>1. step' = label /\ DOMAIN job' = Fields /\ Agree(job, job', {"queue", "upload", "s", "run"})
      BY <1>2 DEF MovesTo, KeepsAllBut, Agree, Fields
  <2>2. AtQueue' /\ AtSemester' /\ AtCourse' /\ AtResource' /\ step' \in Labels
      BY <1>2, <2>1, ClosePlaced
  <2> QED BY <1>2, <2>2 DEF Placed
<1>3. ASSUME step' = "idle", commands' = commands, dirs' \subseteq Semesters, texts' = texts, courseIndex' = courseIndex
      PROVE  Placed'
      BY <1>3, StopsPlaced DEF Placed
<1>4. CASE BeginSemester(ok)
  <2>1. commands' = commands /\ dirs' = dirs /\ texts' = texts /\ courseIndex' = courseIndex
      BY <1>4 DEF BeginSemester, workspace
  <2>2. CASE step' = "idle"
      BY <1>3, <2>1, <2>2 DEF Placed
  <2>3. CASE step' # "idle"
    <3>1. AtQueue' /\ AtSemester' /\ AtCourse' /\ AtResource' /\ step' \in {"course", "calendar"}
        BY <1>4, <2>3, BeginSemesterPlaced
    <3>2. step' \in Labels
        BY <3>1 DEF ClosingSteps
    <3> QED BY <2>1, <3>1, <3>2 DEF Placed
  <2> QED BY <2>2, <2>3
<1>5. CASE ExportCalendar(ok)
  <2>1. step \in SemesterSteps
      BY <1>5 DEF ExportCalendar, ClosingSteps, SemesterSteps
  <2>2. commands' = commands /\ texts' = texts /\ courseIndex' = courseIndex /\ dirs' \subseteq dirs \cup {job.s}
      BY <1>5 DEF ExportCalendar
  <2>3. dirs' \subseteq Semesters
      BY <1>1, <2>1, <2>2 DEF Placed
  <2>4. MovesTo("report", {"failed"})
      BY <1>1, <1>5, <2>1, ExportCalendarIs
  <2>5. "report" \in ClosingSteps
      BY DEF ClosingSteps
  <2> QED BY <1>2, <2>1, <2>2, <2>3, <2>4, <2>5
<1>6. CASE UploadReport(ok)
  <2>1. step \in SemesterSteps /\ "navigation" \in ClosingSteps
      BY <1>6 DEF UploadReport, ClosingSteps, SemesterSteps
  <2>2. commands' = commands /\ texts' = texts /\ courseIndex' = courseIndex /\ dirs' = dirs
      BY <1>6 DEF UploadReport, workspace
  <2>3. MovesTo("navigation", {}) \/ step' = "idle"
      BY <1>1, <1>6, <2>1, UploadReportIs DEF Stops
  <2> QED BY <1>2, <1>3, <2>1, <2>2, <2>3 DEF Placed
<1>7. CASE UploadNavigation(ok)
  <2>1. step \in SemesterSteps /\ "archive" \in ClosingSteps /\ "latest" \in ClosingSteps
      BY <1>7 DEF UploadNavigation, ClosingSteps, SemesterSteps
  <2>2. commands' = commands /\ texts' = texts /\ courseIndex' = courseIndex /\ dirs' = dirs
      BY <1>7 DEF UploadNavigation, workspace
  <2>3. MovesTo("latest", {}) \/ MovesTo("archive", {}) \/ step' = "idle"
      BY <1>1, <1>7, <2>1, UploadNavigationIs DEF Stops
  <2> QED BY <1>2, <1>3, <2>1, <2>2, <2>3 DEF Placed
<1>8. CASE UploadLatest(ok)
  <2>1. step \in SemesterSteps
      BY <1>8 DEF UploadLatest, ClosingSteps, SemesterSteps
  <2>2. commands' = commands /\ texts' = texts /\ courseIndex' = courseIndex /\ dirs' = dirs
      BY <1>8 DEF UploadLatest, workspace
  <2>3. CASE step' = "idle"
      BY <1>3, <2>2, <2>3 DEF Placed
  <2>4. CASE step' # "idle"
    <3>1. /\ KeepsAllBut({"index"})
          /\ \/ step' = "write"
             \/ job.queue # <<>> /\ step' = "semester"
        BY <1>1, <1>8, <2>1, <2>4, UploadLatestIs DEF Stops
    <3>2. DOMAIN job' = Fields /\ job'.queue = job.queue /\ job'.upload = job.upload
        BY <3>1 DEF KeepsAllBut, Agree, Fields
    <3>3. AtQueue'
        BY <2>1, <3>1, <3>2 DEF Placed, AtQueue
    <3>4. step' \notin SemesterSteps /\ step' \in Labels
        BY <3>1
    <3> QED BY <2>2, <3>3, <3>4 DEF Placed, AtSemester, AtCourse, AtResource
  <2> QED BY <2>3, <2>4
<1> QED BY <1>4, <1>5, <1>6, <1>7, <1>8 DEF Semester

LEMMA PlacedNext ==
    ASSUME Placed, [ExportNext]_exportVars
    PROVE  Placed'
PROOF
<1> USE LabelsDiffer
<1>1. ASSUME NEW asked \in Commands, StartExport(asked) PROVE Placed'
  <2>1. /\ step' = "semester" /\ DOMAIN job' = Fields /\ job'.upload = asked.upload
        /\ job'.queue = SemestersToProcess(asked)
      BY <1>1, StartExportIs
  <2>2. commands' = commands + 1 /\ dirs' = dirs /\ texts' = texts /\ courseIndex' = courseIndex
      BY <1>1 DEF StartExport, workspace
  <2>3. asked.upload \in BOOLEAN
      BY ExportAssumption
  <2>4. AtQueue'
      BY <2>1, <2>3, QueueIs DEF AtQueue
  <2>5. commands' \in Nat
    <3>1. commands \in Nat
        BY DEF Placed
    <3>2. commands + 1 \in Nat
        BY <3>1, NIsNat
    <3> QED BY <2>2, <3>2
  <2>6. step' \notin SemesterSteps /\ step' \in Labels
      BY <2>1
  <2> QED BY <2>2, <2>4, <2>5, <2>6 DEF Placed, AtSemester, AtCourse, AtResource
<1>2. CASE \E ok \in BOOLEAN : Course(ok) \/ Semester(ok)
      BY <1>2, CoursePlaced, SemesterPlaced
<1>3. CASE ExtractTexts
  <2>1. step \in CourseSteps /\ commands' = commands /\ dirs' = dirs /\ courseIndex' = courseIndex
      BY <1>3 DEF ExtractTexts, CourseSteps
  <2>2. DOMAIN job = Fields /\ job.c \in CoursesOf(job.s) /\ DOMAIN texts = Courses
      BY <2>1 DEF Placed, AtQueue, AtCourse
  <2>3. job.c \in Courses
      BY <2>2, ListsAreFinite
  <2> DEFINE S == ResourcesOf(job.c)
             q == SetToSeq(S)
  <2>4. /\ DOMAIN texts' = Courses
        /\ KeepsAllBut({"textOf", "resources", "r"})
        /\ job'.textOf \subseteq S /\ TextsOf(job.c, job'.textOf, texts'[job.c])
        /\ \/ q = <<>> /\ step' = "docs" /\ job'.resources = q
           \/ q # <<>> /\ step' = "raw run" /\ job'.r = Head(q) /\ job'.resources = Tail(q)
      BY <1>3, <2>2, <2>3, ExtractTextsIs
  <2>5. IsFiniteSet(S)
      BY ListsAreFinite
  <2>6. q \in Seq(S) /\ IsInjective(q)
      BY <2>5, SetToSeqIs
  <2>7. /\ DOMAIN job' = Fields /\ Agree(job, job', {"queue", "upload", "s", "run", "c", "courses"})
        /\ job'.c = job.c
      BY <2>4 DEF KeepsAllBut, Agree, Fields
  <2> HIDE DEF q
  <2>8. step' \in CourseSteps
      BY <2>4 DEF ResourceSteps
  <2>9. AtQueue' /\ AtSemester' /\ AtCourse'
      BY <2>1, <2>7, <2>8, SameCoursePlaced
  <2>10. AtResource'
    <3>1. CASE step' = "docs"
        BY <3>1 DEF AtResource
    <3>2. CASE step' # "docs"
      <4>1. q # <<>> /\ job'.r = Head(q) /\ job'.resources = Tail(q)
          BY <2>4, <3>2
      <4> HIDE DEF S
      <4>2. Head(q) \in S /\ Tail(q) \in Seq(S) /\ IsInjective(Tail(q)) /\ Head(q) \notin Range(Tail(q))
          BY <2>6, <4>1, TailIs
      <4> QED BY <2>4, <2>7, <4>1, <4>2 DEF AtResource, S
    <3> QED BY <3>1, <3>2
  <2> QED BY <2>1, <2>4, <2>8, <2>9, <2>10 DEF Placed
<1>4. CASE DownloadFails
  <2>1. step \in ResourceSteps /\ commands' = commands /\ texts' = texts /\ courseIndex' = courseIndex /\ dirs' = dirs
      BY <1>4 DEF DownloadFails, ResourceSteps, workspace
  <2>2. DOMAIN job = Fields
      BY <2>1 DEF Placed, AtQueue
  <2>3. NextResource(Noted(Null, FALSE), {"raw"})
      BY <1>4, <2>2, DownloadFailsIs
  <2>4. AtQueue' /\ AtSemester' /\ AtCourse' /\ AtResource' /\ step' \in {"docs", "raw run"}
      BY <2>1, <2>3, NextResourcePlaced
  <2> QED BY <2>1, <2>4 DEF Placed, ResourceSteps
<1>5. CASE WriteMaterialIndex
  <2>1. step \in CourseSteps /\ commands' = commands /\ texts' = texts /\ dirs' = dirs /\ DOMAIN courseIndex' = DOMAIN courseIndex
      BY <1>5 DEF WriteMaterialIndex, CourseSteps
  <2>2. DOMAIN job = Fields
      BY <2>1 DEF Placed, AtQueue
  <2>3. NextCourse({"records"})
      BY <1>5, <2>2, WriteMaterialIndexIs
  <2>4. {"records"} \cap {"queue", "upload", "s", "run"} = {}
      OBVIOUS
  <2>5. AtQueue' /\ AtSemester' /\ AtCourse' /\ AtResource' /\ step' \in {"course", "calendar"}
      BY <2>1, <2>3, <2>4, NextCoursePlaced
  <2> QED BY <2>1, <2>5 DEF Placed, ClosingSteps
<1>6. CASE WriteArchive \/ RenameArchive
  <2>1. step \in SemesterSteps /\ commands' = commands /\ texts' = texts /\ courseIndex' = courseIndex /\ dirs' = dirs
      BY <1>6 DEF WriteArchive, RenameArchive, ClosingSteps, SemesterSteps
  <2>2. DOMAIN job = Fields
      BY <2>1 DEF Placed, AtQueue
  <2>3. step' = "idle" \/ MovesTo("rename", {}) \/ MovesTo("latest", {})
      BY <1>6, <2>2, WriteArchiveIs, RenameArchiveIs DEF Stops
  <2>4. CASE step' = "idle"
      BY <2>1, <2>4, StopsPlaced DEF Placed
  <2>5. CASE step' # "idle"
    <3>1. step' \in ClosingSteps /\ DOMAIN job' = Fields /\ Agree(job, job', {"queue", "upload", "s", "run"})
        BY <2>3, <2>5 DEF MovesTo, KeepsAllBut, Agree, Fields, ClosingSteps
    <3>2. AtQueue' /\ AtSemester' /\ AtCourse' /\ AtResource' /\ step' \in Labels
        BY <2>1, <3>1, ClosePlaced
    <3> QED BY <2>1, <3>2 DEF Placed
  <2> QED BY <2>4, <2>5
<1>7. CASE WriteIndex \/ Crash
  <2>1. commands' = commands /\ texts' = texts /\ courseIndex' = courseIndex /\ dirs' = dirs
      BY <1>7 DEF WriteIndex, Crash
  <2>2. step' = "idle"
      BY <1>7, StopsIs DEF Stops
  <2> QED BY <2>1, <2>2, StopsPlaced DEF Placed
<1>8. CASE (\E r \in Resources : Edit(r)) \/ exportVars' = exportVars
  <2>1. /\ commands' = commands /\ texts' = texts /\ courseIndex' = courseIndex /\ dirs' = dirs
        /\ step' = step /\ job' = job
      BY <1>8 DEF Edit, exportVars, workspace
  <2> QED BY <2>1 DEF Placed, AtQueue, AtSemester, AtCourse, AtResource
<1> QED BY <1>1, <1>2, <1>3, <1>4, <1>5, <1>6, <1>7, <1>8 DEF ExportNext

-----------------------------------------------------------------------------
(* Export: the records of a run and the archive.                           *)

LEMMA PutIs ==
    ASSUME NEW a, NEW v, NEW f
    PROVE  /\ DOMAIN Put(f, a, v) = DOMAIN f \cup {a} /\ Put(f, a, v)[a] = v
           /\ \A b \in DOMAIN f : b # a => Put(f, a, v)[b] = f[b]
PROOF BY DEF Put

(* A record that has a sum has it of the raw file that was kept.           *)
Sound(records, raw) ==
    \A x \in records : x.of \in Resources /\ (x.sum # Null => x.of \in DOMAIN raw /\ raw[x.of] = x.sum)

Heard ==
    /\ step \in SemesterSteps =>
         Sound(job.records, job.raw) /\ \A x \in job.records : SemesterOf[CourseOf[x.of]] = job.s
    /\ step \in CourseSteps =>
         /\ \A x \in job.records : CourseOf[x.of] # job.c /\ CourseOf[x.of] \notin Range(job.courses)
         /\ Sound(job.mine, job.raw) /\ \A x \in job.mine : CourseOf[x.of] = job.c
    /\ step \in {"course", "upload zip", "texts"} => job.mine = {}
    /\ step \in ResourceSteps => \A x \in job.mine : x.of # job.r /\ x.of \notin Range(job.resources)
    /\ step \in {"raw current", "text"} => job.r \in DOMAIN job.raw

Wanted == {r \in Resources : r \in Pdfs /\ SectionOf[r] \notin GeneralSections}
HeldBy(a, x) == x.of \in DOMAIN a.raw /\ a.raw[x.of] = x.sum

WholeArchive(a) ==
    IF a.profile # "goodnotes" THEN \A x \in a.records : x.sum # Null => HeldBy(a, x)
    ELSE /\ DOMAIN a.raw \subseteq Wanted
         /\ IF \E x \in a.records : x.of \in Pdfs
            THEN \A x \in a.records : x.of \in Wanted => HeldBy(a, x)
            ELSE \A c \in CoursesOf(a.s) : ResourcesOf(c) \cap Wanted \subseteq DOMAIN a.raw

Archived ==
    /\ archive # Null => WholeArchive(archive)
    /\ step = "rename" => WholeArchive(tmp)

(* The steps of a course that change neither its records nor its files.    *)
LEMMA HeardKept ==
    ASSUME Heard, step \in CourseSteps, step' \in CourseSteps \ ResourceSteps,
           Agree(job, job', {"s", "c", "courses", "records", "mine", "raw"}),
           step' \in {"upload zip", "texts"} => step \in {"course", "upload zip", "texts"},
           step' # "course"
    PROVE  Heard'
PROOF
<1>1. /\ job'.s = job.s /\ job'.c = job.c /\ job'.courses = job.courses
      /\ job'.records = job.records /\ job'.mine = job.mine /\ job'.raw = job.raw
      BY DEF Agree
<1>2. step \in SemesterSteps /\ step' \notin {"raw current", "text"}
      BY LabelsDiffer DEF ResourceSteps
<1> QED BY <1>1, <1>2 DEF Heard

LEMMA HeardNextCourse ==
    ASSUME Placed, Heard, step \in CourseSteps, NEW F, F \cap {"queue", "upload", "s", "run", "raw"} = {},
           NextCourse(F), job'.records \subseteq job.records \cup job.mine, commands' = commands
    PROVE  Heard'
PROOF
<1>1. DOMAIN job' = Fields /\ Agree(job, job', Fields \ ({"c", "courses", "mine"} \cup F))
      BY DEF NextCourse, KeepsAllBut
<1>2. job'.s = job.s /\ job'.raw = job.raw
      BY <1>1 DEF Agree, Fields
<1>3. step \in SemesterSteps
      BY LabelsDiffer
<1>4. Sound(job.records, job.raw) /\ Sound(job.mine, job.raw)
      BY <1>3 DEF Heard
<1>5. Sound(job'.records, job'.raw)
      BY <1>2, <1>4 DEF Sound
<1>6. /\ \A x \in job.records : CourseOf[x.of] # job.c /\ CourseOf[x.of] \notin Range(job.courses)
      /\ \A x \in job.mine : CourseOf[x.of] = job.c
      /\ \A x \in job.records : SemesterOf[CourseOf[x.of]] = job.s
      BY <1>3 DEF Heard
<1>7. job.c \in CoursesOf(job.s) /\ job.c \notin Range(job.courses)
      BY DEF Placed, AtCourse
<1>8. SemesterOf[job.c] = job.s
      BY <1>7 DEF CoursesOf
<1>9. \A x \in job'.records : SemesterOf[CourseOf[x.of]] = job'.s
      BY <1>2, <1>6, <1>8
<1>10. /\ step' \in {"course", "calendar"}
       /\ step' = "course" => Range(job.courses) = {job'.c} \cup Range(job'.courses) /\ job'.mine = {}
      BY NextCoursePlaced
<1>11. CASE step' = "calendar"
  <2>1. step' \notin CourseSteps /\ step' \notin ResourceSteps
      BY <1>11 DEF CourseSteps, ResourceSteps
  <2> QED BY <1>5, <1>9, <1>11, <2>1 DEF Heard
<1>12. CASE step' = "course"
  <2>1. step' \notin ResourceSteps
      BY <1>12 DEF ResourceSteps
  <2>2. job'.mine = {} /\ Range(job.courses) = {job'.c} \cup Range(job'.courses)
      BY <1>10, <1>12
  <2>3. Sound(job'.mine, job'.raw)
      BY <2>2 DEF Sound
  <2>4. \A x \in job'.records : CourseOf[x.of] \notin Range(job.courses)
      BY <1>6, <1>7
  <2>5. \A x \in job'.records : CourseOf[x.of] # job'.c /\ CourseOf[x.of] \notin Range(job'.courses)
      BY <2>2, <2>4
  <2> QED BY <1>5, <1>9, <1>12, <2>1, <2>2, <2>3, <2>5 DEF Heard
<1> QED BY <1>10, <1>11, <1>12

LEMMA HeardNextResource ==
    ASSUME Placed, Heard, step \in ResourceSteps, NEW sum, NEW text, NextResource(Noted(sum, text), {"raw"}),
           \A r \in DOMAIN job.raw : r # job.r => r \in DOMAIN job'.raw /\ job'.raw[r] = job.raw[r],
           sum # Null => job.r \in DOMAIN job'.raw /\ job'.raw[job.r] = sum,
           commands' = commands, texts' = texts
    PROVE  Heard'
PROOF
<1> DEFINE x == Noted(sum, text)
<1>1. DOMAIN job' = Fields /\ Agree(job, job', Fields \ ({"r", "resources", "mine"} \cup {"raw"}))
      BY DEF NextResource, KeepsAllBut
<1>2. job'.s = job.s /\ job'.c = job.c /\ job'.courses = job.courses /\ job'.records = job.records
      BY <1>1 DEF Agree, Fields
<1>3. job'.mine = job.mine \cup {x} /\ x.of = job.r /\ x.sum = sum
      BY DEF NextResource, Noted
<1> HIDE DEF x
<1>4. step \in CourseSteps /\ step \in SemesterSteps
      BY LabelsDiffer
<1>5. /\ step' \in {"docs", "raw run"}
      /\ step' = "raw run" => Range(job.resources) = {job'.r} \cup Range(job'.resources)
      BY NextResourcePlaced
<1>6. /\ job.r \in ResourcesOf(job.c) /\ job.r \notin Range(job.resources)
      BY DEF Placed, AtResource
<1>7. job.r \in Resources /\ CourseOf[job.r] = job.c
      BY <1>6 DEF ResourcesOf
<1>8. /\ \A y \in job.records : CourseOf[y.of] # job.c /\ CourseOf[y.of] \notin Range(job.courses)
      /\ \A y \in job.mine : CourseOf[y.of] = job.c
      /\ \A y \in job.records : SemesterOf[CourseOf[y.of]] = job.s
      /\ \A y \in job.mine : y.of # job.r /\ y.of \notin Range(job.resources)
      /\ Sound(job.records, job.raw) /\ Sound(job.mine, job.raw)
      BY <1>4 DEF Heard
<1>9. Sound(job'.records, job'.raw)
  <2> SUFFICES ASSUME NEW y \in job.records
               PROVE  y.of \in Resources /\ (y.sum # Null => y.of \in DOMAIN job'.raw /\ job'.raw[y.of] = y.sum)
      BY <1>2 DEF Sound
  <2>1. y.of \in Resources /\ (y.sum # Null => y.of \in DOMAIN job.raw /\ job.raw[y.of] = y.sum)
      BY <1>8 DEF Sound
  <2>2. y.of # job.r
      BY <1>7, <1>8
  <2> QED BY <2>1, <2>2
<1>10. Sound(job'.mine, job'.raw)
  <2> SUFFICES ASSUME NEW y \in job'.mine
               PROVE  y.of \in Resources /\ (y.sum # Null => y.of \in DOMAIN job'.raw /\ job'.raw[y.of] = y.sum)
      BY DEF Sound
  <2>1. CASE y \in job.mine
    <3>1. y.of \in Resources /\ (y.sum # Null => y.of \in DOMAIN job.raw /\ job.raw[y.of] = y.sum)
        BY <2>1, <1>8 DEF Sound
    <3>2. y.of # job.r
        BY <2>1, <1>8
    <3> QED BY <3>1, <3>2
  <2>2. CASE y = x
      BY <2>2, <1>3, <1>7
  <2> QED BY <2>1, <2>2, <1>3
<1>11. /\ \A y \in job'.records : SemesterOf[CourseOf[y.of]] = job'.s
       /\ \A y \in job'.records : CourseOf[y.of] # job'.c /\ CourseOf[y.of] \notin Range(job'.courses)
       /\ \A y \in job'.mine : CourseOf[y.of] = job'.c
      BY <1>2, <1>3, <1>7, <1>8
<1>12. step' \in ResourceSteps => \A y \in job'.mine : y.of # job'.r /\ y.of \notin Range(job'.resources)
  <2> SUFFICES ASSUME step' \in ResourceSteps, NEW y \in job'.mine
               PROVE  y.of # job'.r /\ y.of \notin Range(job'.resources)
      OBVIOUS
  <2>1. step' = "raw run"
      BY <1>5 DEF ResourceSteps
  <2>2. Range(job.resources) = {job'.r} \cup Range(job'.resources)
      BY <2>1, <1>5
  <2>3. y.of \notin Range(job.resources)
      BY <1>3, <1>6, <1>8
  <2> QED BY <2>2, <2>3
<1> QED BY <1>5, <1>9, <1>10, <1>11, <1>12 DEF Heard

LEMMA HeardClosing ==
    ASSUME Heard, step \in SemesterSteps, step' \in ClosingSteps, Agree(job, job', {"s", "records", "raw"})
    PROVE  Heard'
PROOF
<1>1. job'.s = job.s /\ job'.records = job.records /\ job'.raw = job.raw
      BY DEF Agree
<1>2. step' \notin CourseSteps /\ step' \notin {"course", "upload zip", "texts"} /\ step' \notin ResourceSteps
      BY LabelsDiffer
<1>3. step' \notin {"raw current", "text"}
      BY <1>2 DEF ResourceSteps
<1> QED BY <1>1, <1>2, <1>3 DEF Heard

LEMMA HeardOutside ==
    ASSUME step' \in {"idle", "semester", "write"}
    PROVE  Heard'
PROOF
<1>1. step' \notin SemesterSteps /\ step' \notin CourseSteps /\ step' \notin ResourceSteps
      BY LabelsDiffer
<1>2. step' \notin {"raw current", "text"} /\ step' \notin {"course", "upload zip", "texts"}
      OBVIOUS
<1> QED BY <1>1, <1>2 DEF Heard

LEMMA HeardCourse ==
    ASSUME Placed, Heard, NEW ok \in BOOLEAN, Course(ok)
    PROVE  Heard'
PROOF
<1> USE LabelsDiffer
<1>1. step \in CourseSteps /\ commands' = commands /\ texts' = texts
      BY DEF Course, SnapshotCourse, UploadZip, UploadRawToRun, UploadRawToCurrent, UploadText, UploadCourseDocs,
             workspace, CourseSteps, ResourceSteps
<1>2. DOMAIN job = Fields /\ step \in SemesterSteps
      BY <1>1 DEF Placed, AtQueue
<1>3. ASSUME NextCourse({"failed"}) PROVE Heard'
  <2>1. job'.records = job.records
      BY <1>3 DEF NextCourse, KeepsAllBut, Agree, Fields
  <2>2. {"failed"} \cap {"queue", "upload", "s", "run", "raw"} = {}
      OBVIOUS
  <2>3. job'.records \subseteq job.records \cup job.mine
      BY <2>1
  <2> QED BY <1>1, <1>3, <2>2, <2>3, HeardNextCourse
<1>4. ASSUME NEW label \in CourseSteps \ ResourceSteps, NEW F, F \subseteq {"zip"}, MovesTo(label, F),
             label \in {"upload zip", "texts"} => step \in {"course", "upload zip", "texts"}, label # "course"
      PROVE  Heard'
  <2>1. step' = label /\ Agree(job, job', {"s", "c", "courses", "records", "mine", "raw"})
      BY <1>4 DEF MovesTo, KeepsAllBut, Agree, Fields
  <2> QED BY <1>1, <1>4, <2>1, HeardKept
<1>5. CASE SnapshotCourse(ok)
  <2>1. step = "course"
      BY <1>5 DEF SnapshotCourse
  <2>2. MovesTo("upload zip", {"zip"}) \/ NextCourse({"failed"})
      BY <1>2, <1>5, SnapshotCourseIs
  <2> QED BY <1>3, <1>4, <2>1, <2>2
<1>6. CASE UploadZip(ok)
  <2>1. step = "upload zip"
      BY <1>6 DEF UploadZip
  <2>2. MovesTo("index", {}) \/ MovesTo("texts", {}) \/ NextCourse({"failed"})
      BY <1>2, <1>6, UploadZipIs
  <2> QED BY <1>3, <1>4, <2>1, <2>2
<1>7. CASE UploadRawToRun(ok)
  <2>1. step \in ResourceSteps
      BY <1>7 DEF UploadRawToRun, ResourceSteps
  <2>2. /\ job'.raw = Put(job.raw, job.r, material[job.r])
        /\ MovesTo("raw current", {"raw"}) \/ NextResource(Noted(Null, FALSE), {"raw"})
      BY <1>2, <1>7, UploadRawToRunIs
  <2>3. /\ job.r \in DOMAIN job'.raw
        /\ \A r \in DOMAIN job.raw : r # job.r => r \in DOMAIN job'.raw /\ job'.raw[r] = job.raw[r]
    <3> DEFINE f == job.raw
               a == job.r
               v == material[a]
    <3> HIDE DEF f, a, v
    <3>1. /\ DOMAIN Put(f, a, v) = DOMAIN f \cup {a}
          /\ \A b \in DOMAIN f : b # a => Put(f, a, v)[b] = f[b]
        BY DEF Put
    <3>2. job'.raw = Put(f, a, v)
        BY <2>2 DEF f, a, v
    <3> QED BY <3>1, <3>2 DEF f, a
  <2>4. CASE NextResource(Noted(Null, FALSE), {"raw"})
      BY <1>1, <2>1, <2>3, <2>4, HeardNextResource
  <2>5. CASE MovesTo("raw current", {"raw"})
    <3>1. /\ step' = "raw current" /\ job'.s = job.s /\ job'.c = job.c /\ job'.courses = job.courses
          /\ job'.records = job.records /\ job'.mine = job.mine
          /\ job'.r = job.r /\ job'.resources = job.resources
        BY <2>5 DEF MovesTo, KeepsAllBut, Agree, Fields
    <3>2. job.r \in ResourcesOf(job.c)
        BY <2>1 DEF Placed, AtResource
    <3>3. CourseOf[job.r] = job.c
        BY <3>2 DEF ResourcesOf
    <3>4. /\ \A x \in job.records : CourseOf[x.of] # job.c
          /\ \A x \in job.mine : x.of # job.r
          /\ Sound(job.records, job.raw) /\ Sound(job.mine, job.raw)
        BY <1>1, <1>2, <2>1 DEF Heard
    <3>5. Sound(job'.records, job'.raw)
        BY <2>3, <3>1, <3>3, <3>4 DEF Sound
    <3>6. Sound(job'.mine, job'.raw)
        BY <2>3, <3>1, <3>4 DEF Sound
    <3> QED BY <1>1, <1>2, <2>1, <2>3, <3>1, <3>5, <3>6 DEF Heard
  <2> QED BY <2>2, <2>4, <2>5
<1>8. CASE UploadRawToCurrent(ok)
  <2>1. step \in ResourceSteps /\ step = "raw current"
      BY <1>8 DEF UploadRawToCurrent, ResourceSteps
  <2>2. MovesTo("text", {}) \/ (NextResource(Noted(Null, FALSE), {"raw"}) /\ job'.raw = job.raw)
      BY <1>2, <1>8, UploadRawToCurrentIs
  <2>3. CASE NextResource(Noted(Null, FALSE), {"raw"}) /\ job'.raw = job.raw
      BY <1>1, <2>1, <2>3, HeardNextResource
  <2>4. CASE MovesTo("text", {})
    <3>1. /\ step' = "text" /\ job'.s = job.s /\ job'.c = job.c /\ job'.courses = job.courses
          /\ job'.records = job.records /\ job'.mine = job.mine
          /\ job'.r = job.r /\ job'.resources = job.resources /\ job'.raw = job.raw
        BY <2>4 DEF MovesTo, KeepsAllBut, Agree, Fields
    <3> QED BY <1>1, <1>2, <2>1, <3>1 DEF Heard
  <2> QED BY <2>2, <2>3, <2>4
<1>9. CASE UploadText(ok)
  <2>1. step \in ResourceSteps /\ step = "text"
      BY <1>9 DEF UploadText, ResourceSteps
  <2>2. PICK text \in BOOLEAN : NextResource(Noted(job.raw[job.r], text), {"raw"}) /\ job'.raw = job.raw
      BY <1>2, <1>9, UploadTextIs
  <2>3. job.r \in DOMAIN job.raw
      BY <2>1 DEF Heard
  <2>4. job.r \in DOMAIN job'.raw /\ job'.raw[job.r] = job.raw[job.r]
      BY <2>2, <2>3
  <2> QED BY <1>1, <2>1, <2>2, <2>4, HeardNextResource
<1>10. CASE UploadCourseDocs(ok)
  <2>1. MovesTo("index", {}) \/ NextCourse({"failed"})
      BY <1>2, <1>10, UploadCourseDocsIs
  <2> QED BY <1>3, <1>4, <2>1
<1> QED BY <1>5, <1>6, <1>7, <1>8, <1>9, <1>10 DEF Course

LEMMA HeardSemester ==
    ASSUME Placed, Heard, NEW ok \in BOOLEAN, Semester(ok)
    PROVE  Heard'
PROOF
<1> USE LabelsDiffer
<1>1. ASSUME step \in SemesterSteps PROVE DOMAIN job = Fields
      BY <1>1 DEF Placed, AtQueue
<1>2. ASSUME step \in SemesterSteps, NEW label \in ClosingSteps, NEW F, F \subseteq {"failed"}, MovesTo(label, F)
      PROVE  Heard'
  <2>1. step' = label /\ Agree(job, job', {"s", "records", "raw"})
      BY <1>2 DEF MovesTo, KeepsAllBut, Agree, Fields
  <2> QED BY <1>2, <2>1, HeardClosing
<1>3. CASE BeginSemester(ok)
  <2>1. CASE step' = "idle"
      BY <2>1, HeardOutside
  <2>2. CASE step' # "idle"
    <3>1. /\ step' \in {"course", "calendar"} /\ job'.records = {}
          /\ step' = "course" => job'.mine = {}
        BY <1>3, <2>2, BeginSemesterPlaced
    <3>2. step' \notin ResourceSteps /\ (step' = "calendar" => step' \notin CourseSteps)
        BY <3>1 DEF CourseSteps, ResourceSteps
    <3> QED BY <3>1, <3>2 DEF Heard, Sound
  <2> QED BY <2>1, <2>2
<1>4. CASE ExportCalendar(ok)
  <2>1. step \in SemesterSteps /\ "report" \in ClosingSteps
      BY <1>4 DEF ExportCalendar, ClosingSteps, SemesterSteps
  <2>2. MovesTo("report", {"failed"})
      BY <1>1, <1>4, <2>1, ExportCalendarIs
  <2> QED BY <1>2, <2>1, <2>2
<1>5. CASE UploadReport(ok)
  <2>1. step \in SemesterSteps /\ "navigation" \in ClosingSteps
      BY <1>5 DEF UploadReport, ClosingSteps, SemesterSteps
  <2>2. MovesTo("navigation", {}) \/ step' = "idle"
      BY <1>1, <1>5, <2>1, UploadReportIs DEF Stops
  <2> QED BY <1>2, <2>1, <2>2, HeardOutside
<1>6. CASE UploadNavigation(ok)
  <2>1. step \in SemesterSteps /\ "archive" \in ClosingSteps /\ "latest" \in ClosingSteps
      BY <1>6 DEF UploadNavigation, ClosingSteps, SemesterSteps
  <2>2. MovesTo("latest", {}) \/ MovesTo("archive", {}) \/ step' = "idle"
      BY <1>1, <1>6, <2>1, UploadNavigationIs DEF Stops
  <2> QED BY <1>2, <2>1, <2>2, HeardOutside
<1>7. CASE UploadLatest(ok)
  <2>1. step \in SemesterSteps
      BY <1>7 DEF UploadLatest, ClosingSteps, SemesterSteps
  <2>2. step' \in {"idle", "semester", "write"}
      BY <1>1, <1>7, <2>1, UploadLatestIs DEF Stops
  <2> QED BY <2>2, HeardOutside
<1> QED BY <1>3, <1>4, <1>5, <1>6, <1>7 DEF Semester

LEMMA HeardNext ==
    ASSUME Placed, Heard, [ExportNext]_exportVars
    PROVE  Heard'
PROOF
<1> USE LabelsDiffer
<1>1. ASSUME NEW asked \in Commands, StartExport(asked) PROVE Heard'
  <2>1. step' = "semester"
      BY <1>1, StartExportIs
  <2> QED BY <2>1, HeardOutside
<1>2. CASE \E ok \in BOOLEAN : Course(ok) \/ Semester(ok)
      BY <1>2, HeardCourse, HeardSemester
<1>3. CASE ExtractTexts
  <2>1. step = "texts" /\ step \in CourseSteps
      BY <1>3 DEF ExtractTexts, CourseSteps
  <2>2. DOMAIN job = Fields /\ job.c \in CoursesOf(job.s) /\ DOMAIN texts = Courses
      BY <2>1 DEF Placed, AtQueue, AtCourse
  <2>3. job.c \in Courses
      BY <2>2, ListsAreFinite
  <2>4. KeepsAllBut({"textOf", "resources", "r"}) /\ step' \in {"docs", "raw run"}
      BY <1>3, <2>2, <2>3, ExtractTextsIs
  <2>5. /\ job'.s = job.s /\ job'.c = job.c /\ job'.courses = job.courses
        /\ job'.records = job.records /\ job'.mine = job.mine /\ job'.raw = job.raw
      BY <2>4 DEF KeepsAllBut, Agree, Fields
  <2>6. job.mine = {}
      BY <2>1 DEF Heard
  <2> QED BY <2>1, <2>4, <2>5, <2>6 DEF Heard
<1>4. CASE DownloadFails
  <2>1. step \in ResourceSteps /\ commands' = commands /\ texts' = texts
      BY <1>4 DEF DownloadFails, ResourceSteps, workspace
  <2>2. DOMAIN job = Fields
      BY <2>1 DEF Placed, AtQueue
  <2>3. NextResource(Noted(Null, FALSE), {"raw"}) /\ job'.raw = job.raw
      BY <1>4, <2>2, DownloadFailsIs
  <2> QED BY <2>1, <2>3, HeardNextResource
<1>5. CASE WriteMaterialIndex
  <2>1. step \in CourseSteps /\ commands' = commands
      BY <1>5 DEF WriteMaterialIndex, CourseSteps
  <2>2. DOMAIN job = Fields
      BY <2>1 DEF Placed, AtQueue
  <2>3. NextCourse({"records"}) /\ job'.records = job.records \cup job.mine
      BY <1>5, <2>2, WriteMaterialIndexIs
  <2>4. {"records"} \cap {"queue", "upload", "s", "run", "raw"} = {}
      OBVIOUS
  <2> QED BY <2>1, <2>3, <2>4, HeardNextCourse
<1>6. CASE WriteArchive \/ RenameArchive
  <2>1. step \in SemesterSteps
      BY <1>6 DEF WriteArchive, RenameArchive, ClosingSteps, SemesterSteps
  <2>2. DOMAIN job = Fields
      BY <2>1 DEF Placed, AtQueue
  <2>3. step' = "idle" \/ MovesTo("rename", {}) \/ MovesTo("latest", {})
      BY <1>6, <2>2, WriteArchiveIs, RenameArchiveIs DEF Stops
  <2>4. CASE step' = "idle"
      BY <2>4, HeardOutside
  <2>5. CASE step' # "idle"
    <3>1. step' \in ClosingSteps /\ Agree(job, job', {"s", "records", "raw"})
        BY <2>3, <2>5 DEF MovesTo, KeepsAllBut, Agree, Fields, ClosingSteps
    <3> QED BY <2>1, <3>1, HeardClosing
  <2> QED BY <2>4, <2>5
<1>7. CASE WriteIndex \/ Crash
  <2>1. step' = "idle"
      BY <1>7, StopsIs DEF Stops
  <2> QED BY <2>1, HeardOutside
<1>8. CASE (\E r \in Resources : Edit(r)) \/ exportVars' = exportVars
  <2>1. step' = step /\ job' = job
      BY <1>8 DEF Edit, exportVars
  <2> QED BY <2>1 DEF Heard
<1> QED BY <1>1, <1>2, <1>3, <1>4, <1>5, <1>6, <1>7, <1>8 DEF ExportNext

(* What writeExportArchive puts together, unless it refuses.               *)
LEMMA ContentsAreWhole ==
    ASSUME Sound(job.records, job.raw), ~ArchiveRefused(job)
    PROVE  WholeArchive(ArchiveContents(job))
PROOF
<1> DEFINE raw == RawFiles(job)
           a == ArchiveContents(job)
<1>1. a.s = job.s /\ a.profile = job.profile /\ a.records = job.records /\ a.raw = raw
      BY DEF ArchiveContents
<1>2. \A x \in job.records : x.of \in Resources /\ (x.sum # Null => x.of \in DOMAIN job.raw /\ job.raw[x.of] = x.sum)
      BY DEF Sound
<1>3. \A r \in Resources : r \in Wanted <=> GoodNotes(r)
      BY DEF Wanted, GoodNotes
<1>4. (\E x \in job.records : x.of \in Pdfs) <=> PdfRecords(job) # {}
      BY DEF PdfRecords
<1>5. CASE job.profile # "goodnotes"
  <2>1. raw = job.raw
      BY <1>5 DEF RawFiles
  <2> HIDE DEF a, raw
  <2>8. WholeArchive(a)
      BY <1>1, <1>2, <1>5, <2>1 DEF WholeArchive, HeldBy
  <2> QED BY <2>8 DEF a
<1>6. CASE job.profile = "goodnotes" /\ PdfRecords(job) # {}
  <2> DEFINE taken == {q \in DOMAIN job.raw : GoodNotes(q) /\ \E x \in PdfRecords(job) : x.of = q}
  <2>1. raw = [r \in taken |-> job.raw[r]]
      BY <1>6 DEF RawFiles
  <2>2. DOMAIN raw = taken /\ \A r \in taken : raw[r] = job.raw[r]
      BY <2>1
  <2>3. ~RecordsRefused(job)
      BY <1>6 DEF ArchiveRefused
  <2>4. taken \subseteq Wanted
      BY <1>2, <1>3 DEF PdfRecords
  <2>5. ASSUME NEW x \in job.records, x.of \in Wanted
        PROVE  x.of \in taken /\ job.raw[x.of] = x.sum
    <3>1. x \in PdfRecords(job) /\ GoodNotes(x.of)
        BY <2>5 DEF PdfRecords, Wanted, GoodNotes
    <3>2. x.sum # Null
        BY <3>1, <2>3 DEF RecordsRefused
    <3> QED BY <3>1, <3>2, <1>2
  <2> HIDE DEF a, raw, taken
  <2>6. DOMAIN a.raw \subseteq Wanted
      BY <1>1, <2>2, <2>4
  <2>7. \A x \in a.records : x.of \in Wanted => HeldBy(a, x)
      BY <1>1, <2>2, <2>5 DEF HeldBy
  <2>8. WholeArchive(a)
      BY <1>1, <1>4, <1>6, <2>6, <2>7 DEF WholeArchive
  <2> QED BY <2>8 DEF a
<1>7. CASE job.profile = "goodnotes" /\ PdfRecords(job) = {}
  <2> DEFINE taken == {q \in Resources : GoodNotes(q) /\ CourseOf[q] \in DOMAIN job.zip}
  <2>1. raw = [r \in taken |-> job.zip[CourseOf[r]][r]]
      BY <1>7 DEF RawFiles
  <2>2. DOMAIN raw = taken
      BY <2>1
  <2>3. taken \subseteq Wanted
      BY <1>3
  <2>4. \A c \in CoursesOf(job.s) : c \in DOMAIN job.zip
      BY <1>7 DEF ArchiveRefused, ZipsMissing
  <2>5. \A c \in CoursesOf(job.s) : ResourcesOf(c) \cap Wanted \subseteq taken
      BY <1>3, <2>4 DEF ResourcesOf
  <2> HIDE DEF a, raw, taken
  <2>6. DOMAIN a.raw \subseteq Wanted
      BY <1>1, <2>2, <2>3
  <2>7. \A c \in CoursesOf(a.s) : ResourcesOf(c) \cap Wanted \subseteq DOMAIN a.raw
      BY <1>1, <2>2, <2>5
  <2>8. WholeArchive(a)
      BY <1>1, <1>4, <1>7, <2>6, <2>7 DEF WholeArchive
  <2> QED BY <2>8 DEF a
<1> QED BY <1>5, <1>6, <1>7

LEMMA ArchivedNext ==
    ASSUME Placed, Heard, Archived, [ExportNext]_exportVars
    PROVE  Archived'
PROOF
<1> USE LabelsDiffer
<1>1. ASSUME NEW asked \in Commands, StartExport(asked) PROVE archive' = archive /\ step' # "rename"
      BY <1>1, StartExportIs DEF StartExport, workspace
<1>2. ASSUME NEW ok \in BOOLEAN, Course(ok) PROVE archive' = archive /\ step' # "rename"
  <2>1. archive' = archive /\ step \in CourseSteps
      BY <1>2 DEF Course, SnapshotCourse, UploadZip, UploadRawToRun, UploadRawToCurrent, UploadText, UploadCourseDocs,
             workspace, CourseSteps, ResourceSteps
  <2>2. DOMAIN job = Fields
      BY <2>1 DEF Placed, AtQueue
  <2>3. \/ step' \in {"upload zip", "texts", "raw current", "text", "index", "calendar", "course", "docs", "raw run"}
      BY <1>2, <2>2, SnapshotCourseIs, UploadZipIs, UploadRawToRunIs, UploadRawToCurrentIs, UploadTextIs, UploadCourseDocsIs
         DEF Course, MovesTo, NextCourse, NextResource
  <2> QED BY <2>1, <2>3
<1>3. ASSUME NEW ok \in BOOLEAN, Semester(ok) PROVE archive' = archive /\ step' # "rename"
  <2>1. archive' = archive
      BY <1>3 DEF Semester, BeginSemester, ExportCalendar, UploadReport, UploadNavigation, UploadLatest, workspace
  <2>2. step # "idle"
      BY <1>3 DEF Semester, BeginSemester, ExportCalendar, UploadReport, UploadNavigation, UploadLatest
  <2>3. DOMAIN job = Fields
      BY <2>2 DEF Placed, AtQueue
  <2>4. CASE BeginSemester(ok)
      BY <2>1, <2>3, <2>4, BeginSemesterIs DEF Stops
  <2>5. CASE ~BeginSemester(ok)
      BY <1>3, <2>1, <2>3, <2>5, ExportCalendarIs, UploadReportIs, UploadNavigationIs, UploadLatestIs
         DEF Semester, MovesTo, Stops
  <2> QED BY <2>4, <2>5
<1>4. CASE ExtractTexts \/ DownloadFails \/ WriteMaterialIndex
  <2>1. archive' = archive /\ step \in CourseSteps
      BY <1>4 DEF ExtractTexts, DownloadFails, WriteMaterialIndex, workspace, CourseSteps, ResourceSteps
  <2>2. DOMAIN job = Fields /\ job.c \in CoursesOf(job.s) /\ DOMAIN texts = Courses
      BY <2>1 DEF Placed, AtQueue, AtCourse
  <2>3. job.c \in Courses
      BY <2>2, ListsAreFinite
  <2>4. step' # "rename"
      BY <1>4, <2>2, <2>3, ExtractTextsIs, DownloadFailsIs, WriteMaterialIndexIs DEF NextCourse, NextResource
  <2> QED BY <2>1, <2>4 DEF Archived
<1>5. CASE WriteArchive
  <2>1. step \in SemesterSteps /\ archive' = archive
      BY <1>5 DEF WriteArchive, ClosingSteps, SemesterSteps
  <2>2. DOMAIN job = Fields
      BY <2>1 DEF Placed, AtQueue
  <2>3. step' = "rename" => ~ArchiveRefused(job) /\ tmp' = ArchiveContents(job)
      BY <1>5, <2>2, WriteArchiveIs DEF Stops
  <2>4. Sound(job.records, job.raw)
      BY <2>1 DEF Heard
  <2>5. step' = "rename" => WholeArchive(tmp')
      BY <2>3, <2>4, ContentsAreWhole
  <2> QED BY <2>1, <2>5 DEF Archived
<1>6. CASE RenameArchive
  <2>1. step = "rename" /\ archive' = tmp
      BY <1>6 DEF RenameArchive
  <2>2. DOMAIN job = Fields
      BY <2>1 DEF Placed, AtQueue
  <2>3. step' = "latest"
      BY <1>6, <2>2, RenameArchiveIs DEF MovesTo
  <2> QED BY <2>1, <2>3 DEF Archived
<1>7. CASE WriteIndex \/ Crash
  <2>1. archive' = archive
      BY <1>7 DEF WriteIndex, Crash
  <2>2. step' = "idle"
      BY <1>7, StopsIs DEF Stops
  <2> QED BY <2>1, <2>2 DEF Archived
<1>8. CASE (\E r \in Resources : Edit(r)) \/ exportVars' = exportVars
  <2>1. archive' = archive /\ tmp' = tmp /\ step' = step
      BY <1>8 DEF Edit, exportVars, workspace
  <2> QED BY <2>1 DEF Archived
<1> QED BY <1>1, <1>2, <1>3, <1>4, <1>5, <1>6, <1>7, <1>8 DEF ExportNext, Archived

(* A record is made of what was written, and writeGoodNotesArchiveContents *)
(* refuses a record without a file and a course without a zip, so that the *)
(* archive, renamed when it is complete, holds every file that its profile *)
(* takes.                                                                  *)
THEOREM ArchivesAreWhole == ExportSpec => []ArchiveIsWhole
PROOF
<1> DEFINE I == Placed /\ Heard /\ Archived
<1>1. ExportInit => I
  <2>1. ASSUME ExportInit PROVE Heard /\ Archived
    <3>1. step = "idle" /\ archive = Null
        BY <2>1 DEF ExportInit
    <3>2. step \notin SemesterSteps /\ step \notin CourseSteps /\ step \notin ResourceSteps
        BY <3>1, LabelsDiffer
    <3> QED BY <3>1, <3>2 DEF Heard, Archived
  <2> QED BY <2>1, PlacedInit
<1>2. I /\ [ExportNext]_exportVars => I'
      BY PlacedNext, HeardNext, ArchivedNext
<1>3. I => ArchiveIsWhole
      BY DEF Archived, WholeArchive, ArchiveIsWhole, Wanted, HeldBy
<1> QED BY <1>1, <1>2, <1>3, PTL DEF ExportSpec

-----------------------------------------------------------------------------
(* Export: the files that the indexes link to.                             *)

RawPath(r) == InCurrent(SemesterOf[CourseOf[r]], <<CourseOf[r], "raw", r>>)
TextPath(r) == InCurrent(SemesterOf[CourseOf[r]], <<CourseOf[r], "text", TitleOf[r]>>)

Linked == IndexPaths \cup {RawPath(r) : r \in Resources} \cup {TextPath(r) : r \in Resources}

LEMMA TuplesDiffer ==
    ASSUME NEW a, NEW b, NEW c, NEW d, NEW e, NEW f, NEW g, NEW h, NEW i, NEW j
    PROVE  /\ <<a, b>> # <<c, d, e>> /\ <<a, b>> # <<c, d, e, f>> /\ <<a, b>> # <<c, d, e, f, g>>
           /\ <<a, b, c>> # <<d, e, f, g>> /\ <<a, b, c>> # <<d, e, f, g, h>>
           /\ <<a, b, c, d>> # <<e, f, g, h, i>>
           /\ <<a>> # <<b, c>> /\ <<a>> # <<b, c, d>> /\ <<a>> # <<b, c, d, e>> /\ <<a>> # <<b, c, d, e, f>>
           /\ <<a, b>> = <<c, d>> => a = c /\ b = d
           /\ <<a, b, c>> = <<d, e, f>> => a = d /\ b = e /\ c = f
           /\ <<a, b, c, d>> = <<e, f, g, h>> => a = e /\ b = f /\ c = g /\ d = h
           /\ <<a, b, c, d, e>> = <<f, g, h, i, j>> => a = f /\ b = g /\ c = h /\ d = i /\ e = j
PROOF OBVIOUS

LEMMA LinkedPathsAre ==
    /\ SearchIndexPath = <<"_search", "query">>
    /\ \A s : SemesterIndexPath(s) = <<s, "current", "semester.index">>
    /\ \A s, c : CourseIndexPath(s, c) = <<s, "current", c, "course.index">>
    /\ \A r : RawPath(r) = <<SemesterOf[CourseOf[r]], "current", CourseOf[r], "raw", r>>
    /\ \A r : TextPath(r) = <<SemesterOf[CourseOf[r]], "current", CourseOf[r], "text", TitleOf[r]>>
PROOF
<1>1. \A s, a : InCurrent(s, <<a>>) = <<s, "current", a>>
      BY PathsAre
<1>2. \A s, a, b : InCurrent(s, <<a, b>>) = <<s, "current", a, b>>
      BY PathsAre
<1>3. \A s, a, b, c : InCurrent(s, <<a, b, c>>) = <<s, "current", a, b, c>>
      BY PathsAre
<1>4. \A s : SemesterIndexPath(s) = <<s, "current", "semester.index">>
      BY <1>1 DEF SemesterIndexPath
<1>5. ASSUME NEW s, NEW c PROVE CourseIndexPath(s, c) = <<s, "current", c, "course.index">>
  <2> DEFINE x == "course.index"
  <2> HIDE DEF x
  <2>1. InCurrent(s, <<c, x>>) = <<s, "current", c, x>>
      BY <1>2
  <2> QED BY <2>1 DEF CourseIndexPath, x
<1>6. ASSUME NEW r
      PROVE  RawPath(r) = <<SemesterOf[CourseOf[r]], "current", CourseOf[r], "raw", r>>
  <2> DEFINE x == "raw"
             c == CourseOf[r]
             s == SemesterOf[c]
  <2> HIDE DEF x, c, s
  <2>1. InCurrent(s, <<c, x, r>>) = <<s, "current", c, x, r>>
      BY <1>3
  <2> QED BY <2>1 DEF RawPath, x, c, s
<1>7. ASSUME NEW r
      PROVE  TextPath(r) = <<SemesterOf[CourseOf[r]], "current", CourseOf[r], "text", TitleOf[r]>>
  <2> DEFINE x == "text"
             c == CourseOf[r]
             s == SemesterOf[c]
             t == TitleOf[r]
  <2> HIDE DEF x, c, s, t
  <2>1. InCurrent(s, <<c, x, t>>) = <<s, "current", c, x, t>>
      BY <1>3
  <2> QED BY <2>1 DEF TextPath, x, c, s, t
<1> QED BY <1>4, <1>5, <1>6, <1>7 DEF SearchIndexPath

(* No other file has the path of an index or of a file that one links to.  *)
LEMMA OthersDiffer ==
    ASSUME NEW p \in Linked, NEW s, NEW run, NEW a, NEW b
    PROVE  /\ p # InRun(s, run, <<a>>) /\ p # InRun(s, run, <<a, b>>)
           /\ p # <<"latest.yaml">> /\ p # <<s, "latest.yaml">> /\ p # <<"_search", "calendar">>
           /\ p # InCurrent(s, <<"calendar", "raw">>) /\ p # InCurrent(s, <<"calendar", "index">>)
PROOF
<1> DEFINE Goal(q) ==
               /\ q # <<s, "runs", run, a>> /\ q # <<s, "runs", run, a, b>>
               /\ q # <<"latest.yaml">> /\ q # <<s, "latest.yaml">> /\ q # <<"_search", "calendar">>
               /\ q # <<s, "current", "calendar", "raw">> /\ q # <<s, "current", "calendar", "index">>
<1>1. Goal(<<"_search", "query">>)
      OBVIOUS
<1>2. \A t : Goal(<<t, "current", "semester.index">>)
      OBVIOUS
<1>3. \A t, c : Goal(<<t, "current", c, "course.index">>)
      OBVIOUS
<1>4. \A t, c, x : Goal(<<t, "current", c, "raw", x>>) /\ Goal(<<t, "current", c, "text", x>>)
      OBVIOUS
<1> HIDE DEF Goal
<1>5. p \in IndexPaths \/ (\E r \in Resources : p = RawPath(r) \/ p = TextPath(r))
      BY DEF Linked
<1>6. ASSUME p \in IndexPaths PROVE Goal(p)
      BY <1>1, <1>2, <1>3, <1>6, LinkedPathsAre DEF IndexPaths
<1>7. ASSUME \E r \in Resources : p = RawPath(r) \/ p = TextPath(r) PROVE Goal(p)
      BY <1>4, <1>7, LinkedPathsAre
<1>8. Goal(p)
      BY <1>5, <1>6, <1>7
<1>9. InRun(s, run, <<a>>) = <<s, "runs", run, a>> /\ InRun(s, run, <<a, b>>) = <<s, "runs", run, a, b>>
      BY PathsAre
<1>10. ASSUME NEW x PROVE InCurrent(s, <<"calendar", x>>) = <<s, "current", "calendar", x>>
  <2> DEFINE y == "calendar"
  <2> HIDE DEF y
  <2>1. InCurrent(s, <<y, x>>) = <<s, "current", y, x>>
      BY PathsAre
  <2> QED BY <2>1 DEF y
<1> QED BY <1>8, <1>9, <1>10 DEF Goal

(* The paths of an index and of what it links to differ, and two resources *)
(* that share the path of a text share a title.                            *)
LEMMA LinkedDiffer ==
    ASSUME NEW r \in Resources, NEW q \in Resources
    PROVE  /\ RawPath(r) \notin IndexPaths /\ TextPath(r) \notin IndexPaths /\ RawPath(r) # TextPath(q)
           /\ RawPath(r) = RawPath(q) => r = q
           /\ TextPath(r) = TextPath(q) => r = q \/ SharesTitle(r)
PROOF
<1>1. \A s, c, x, y, z :
        /\ <<s, "current", x, y, z>> # <<"_search", "query">>
        /\ \A t : <<s, "current", x, y, z>> # <<t, "current", "semester.index">>
        /\ \A t : <<s, "current", x, y, z>> # <<t, "current", c, "course.index">>
      OBVIOUS
<1>2. RawPath(r) \notin IndexPaths /\ TextPath(r) \notin IndexPaths
      BY <1>1, LinkedPathsAre DEF IndexPaths
<1>3. \A s, c, x, t, d, y : <<s, "current", c, "raw", x>> # <<t, "current", d, "text", y>>
      OBVIOUS
<1>4. RawPath(r) # TextPath(q)
      BY <1>3, LinkedPathsAre
<1>5. RawPath(r) = RawPath(q) => r = q
      BY LinkedPathsAre, TuplesDiffer
<1>6. TextPath(r) = TextPath(q) => CourseOf[r] = CourseOf[q] /\ TitleOf[r] = TitleOf[q]
      BY LinkedPathsAre, TuplesDiffer
<1> QED BY <1>2, <1>4, <1>5, <1>6 DEF SharesTitle

-----------------------------------------------------------------------------
(* Export: the order of the runs.                                          *)

Still == step' = step /\ job' = job /\ commands' = commands

SameCourse ==
    /\ step \in CourseSteps /\ step' \in CourseSteps /\ step # "index" /\ commands' = commands
    /\ Agree(job, job', {"queue", "upload", "s", "run", "c", "courses"})

TurnsToCourse ==
    /\ step \in CourseSteps /\ step' \in {"course", "calendar"} /\ commands' = commands
    /\ Agree(job, job', {"queue", "upload", "s", "run"})
    /\ step' = "course" => Range(job.courses) = {job'.c} \cup Range(job'.courses) /\ job'.mine = {}

Closes ==
    /\ step \in ClosingSteps /\ step' \in ClosingSteps \ {"calendar"} /\ commands' = commands
    /\ Agree(job, job', {"queue", "upload", "s", "run"})

TurnsToSemester ==
    /\ step = "semester" /\ step' \in {"course", "calendar"} /\ commands' = commands
    /\ job'.upload = job.upload /\ job'.records = {}
    /\ Range(job.queue) = {job'.s} \cup Range(job'.queue)
    /\ step' = "course" => job'.mine = {} /\ CoursesOf(job'.s) = {job'.c} \cup Range(job'.courses)
    /\ step' = "calendar" => CoursesOf(job'.s) = {}

LeavesSemester ==
    /\ step = "latest" /\ step' \in {"semester", "write"} /\ commands' = commands
    /\ job'.queue = job.queue

Starts == step = "idle" /\ step' = "semester" /\ commands' = commands + 1

Move ==
    \/ step' = "idle" /\ commands' = commands
    \/ Still \/ SameCourse \/ TurnsToCourse \/ Closes \/ TurnsToSemester \/ LeavesSemester \/ Starts

LEMMA MoveIs ==
    ASSUME Placed, [ExportNext]_exportVars
    PROVE  Move
PROOF
<1> USE LabelsDiffer
<1>1. ASSUME NEW asked \in Commands, StartExport(asked) PROVE Move
      BY <1>1, StartExportIs DEF StartExport, Move, Starts
<1>2. ASSUME step \in CourseSteps PROVE DOMAIN job = Fields /\ job.c \in CoursesOf(job.s) /\ DOMAIN texts = Courses
      BY <1>2 DEF Placed, AtQueue, AtCourse
<1>3. ASSUME step \in CourseSteps, commands' = commands, NEW F, F \subseteq {"failed", "records"}, NextCourse(F)
      PROVE  Move
  <2>1. F \cap {"queue", "upload", "s", "run"} = {}
      BY <1>3
  <2>2. /\ step' \in {"course", "calendar"} /\ Agree(job, job', {"queue", "upload", "s", "run"})
        /\ step' = "course" => Range(job.courses) = {job'.c} \cup Range(job'.courses) /\ job'.mine = {}
      BY <1>3, <2>1, NextCoursePlaced
  <2> QED BY <1>3, <2>2 DEF Move, TurnsToCourse
<1>4. ASSUME step \in CourseSteps, step # "index", commands' = commands, NEW F,
             F \cap {"queue", "upload", "s", "run", "c", "courses"} = {}, KeepsAllBut(F), step' \in CourseSteps
      PROVE  Move
  <2>1. Agree(job, job', {"queue", "upload", "s", "run", "c", "courses"})
      BY <1>4 DEF KeepsAllBut, Agree, Fields
  <2> QED BY <1>4, <2>1 DEF Move, SameCourse
<1>5. ASSUME step \in ResourceSteps, commands' = commands, NEW x, NextResource(x, {"raw"})
      PROVE  Move
  <2>1. step' \in CourseSteps /\ KeepsAllBut({"r", "resources", "mine", "raw"})
      BY <1>5 DEF NextResource, ResourceSteps, KeepsAllBut, Agree
  <2>2. step # "index" /\ step \in CourseSteps
      BY <1>5
  <2> QED BY <1>4, <1>5, <2>1, <2>2
<1>6. ASSUME NEW ok \in BOOLEAN, Course(ok) PROVE Move
  <2>1. step \in CourseSteps /\ commands' = commands /\ step # "index"
      BY <1>6 DEF Course, SnapshotCourse, UploadZip, UploadRawToRun, UploadRawToCurrent, UploadText, UploadCourseDocs,
             workspace, CourseSteps, ResourceSteps
  <2>2. DOMAIN job = Fields
      BY <1>2, <2>1
  <2>3. CASE SnapshotCourse(ok)
      BY <1>3, <1>4, <2>1, <2>2, <2>3, SnapshotCourseIs DEF MovesTo
  <2>4. CASE UploadZip(ok)
      BY <1>3, <1>4, <2>1, <2>2, <2>4, UploadZipIs DEF MovesTo
  <2>5. CASE UploadRawToRun(ok)
    <3>1. step \in ResourceSteps /\ "raw current" \in CourseSteps
        BY <2>5 DEF UploadRawToRun, ResourceSteps, CourseSteps
    <3>2. MovesTo("raw current", {"raw"}) \/ NextResource(Noted(Null, FALSE), {"raw"})
        BY <2>2, <2>5, UploadRawToRunIs
    <3> QED BY <1>4, <1>5, <2>1, <3>1, <3>2 DEF MovesTo
  <2>6. CASE UploadRawToCurrent(ok)
    <3>1. step \in ResourceSteps /\ "text" \in CourseSteps
        BY <2>6 DEF UploadRawToCurrent, ResourceSteps, CourseSteps
    <3>2. MovesTo("text", {}) \/ NextResource(Noted(Null, FALSE), {"raw"})
        BY <2>2, <2>6, UploadRawToCurrentIs
    <3> QED BY <1>4, <1>5, <2>1, <3>1, <3>2 DEF MovesTo
  <2>7. CASE UploadText(ok)
    <3>1. step \in ResourceSteps
        BY <2>7 DEF UploadText, ResourceSteps
    <3> QED BY <1>5, <2>1, <2>2, <2>7, <3>1, UploadTextIs
  <2>8. CASE UploadCourseDocs(ok)
      BY <1>3, <1>4, <2>1, <2>2, <2>8, UploadCourseDocsIs DEF MovesTo
  <2> QED BY <1>6, <2>3, <2>4, <2>5, <2>6, <2>7, <2>8 DEF Course
<1>7. ASSUME NEW label \in ClosingSteps \ {"calendar"}, NEW F, F \subseteq {"failed"}, MovesTo(label, F), step \in ClosingSteps,
             commands' = commands
      PROVE  Move
  <2>1. step' = label /\ Agree(job, job', {"queue", "upload", "s", "run"})
      BY <1>7 DEF MovesTo, KeepsAllBut, Agree, Fields
  <2> QED BY <1>7, <2>1 DEF Move, Closes
<1>8. ASSUME NEW ok \in BOOLEAN, Semester(ok) PROVE Move
  <2>1. commands' = commands /\ step # "idle"
      BY <1>8 DEF Semester, BeginSemester, ExportCalendar, UploadReport, UploadNavigation, UploadLatest
  <2>2. DOMAIN job = Fields
      BY <2>1 DEF Placed, AtQueue
  <2>3. CASE step' = "idle"
      BY <2>1, <2>3 DEF Move
  <2>4. CASE BeginSemester(ok) /\ step' # "idle"
    <3>1. step = "semester"
        BY <2>4 DEF BeginSemester
    <3>2. /\ step' \in {"course", "calendar"} /\ Agree(job, job', {"upload", "index", "profile"})
          /\ Range(job.queue) = {job'.s} \cup Range(job'.queue) /\ job'.records = {}
          /\ step' = "course" => job'.mine = {} /\ CoursesOf(job'.s) = {job'.c} \cup Range(job'.courses)
          /\ step' = "calendar" => CoursesOf(job'.s) = {}
        BY <2>4, BeginSemesterPlaced
    <3>3. job'.upload = job.upload
        BY <3>2 DEF Agree
    <3> QED BY <2>1, <3>1, <3>2, <3>3 DEF Move, TurnsToSemester
  <2>5. CASE ExportCalendar(ok)
    <3>1. step \in ClosingSteps /\ "report" \in ClosingSteps \ {"calendar"}
        BY <2>5 DEF ExportCalendar, ClosingSteps
    <3>2. MovesTo("report", {"failed"})
        BY <2>2, <2>5, ExportCalendarIs
    <3> QED BY <1>7, <2>1, <3>1, <3>2
  <2>6. CASE UploadReport(ok) /\ step' # "idle"
    <3>1. step \in ClosingSteps /\ "navigation" \in ClosingSteps \ {"calendar"}
        BY <2>6 DEF UploadReport, ClosingSteps
    <3>2. MovesTo("navigation", {})
        BY <2>2, <2>6, UploadReportIs DEF Stops
    <3> QED BY <1>7, <2>1, <3>1, <3>2
  <2>7. CASE UploadNavigation(ok) /\ step' # "idle"
    <3>1. step \in ClosingSteps /\ {"archive", "latest"} \subseteq ClosingSteps \ {"calendar"}
        BY <2>7 DEF UploadNavigation, ClosingSteps
    <3>2. MovesTo("archive", {}) \/ MovesTo("latest", {})
        BY <2>2, <2>7, UploadNavigationIs DEF Stops
    <3> QED BY <1>7, <2>1, <3>1, <3>2
  <2>8. CASE UploadLatest(ok) /\ step' # "idle"
    <3>1. step = "latest"
        BY <2>8 DEF UploadLatest
    <3>2. KeepsAllBut({"index"}) /\ step' \in {"semester", "write"}
        BY <2>2, <2>8, UploadLatestIs DEF Stops
    <3>3. job'.queue = job.queue
        BY <3>2 DEF KeepsAllBut, Agree, Fields
    <3> QED BY <2>1, <3>1, <3>2, <3>3 DEF Move, LeavesSemester
  <2> QED BY <1>8, <2>3, <2>4, <2>5, <2>6, <2>7, <2>8 DEF Semester
<1>9. CASE ExtractTexts
  <2>1. step \in CourseSteps /\ commands' = commands /\ step # "index"
      BY <1>9 DEF ExtractTexts, CourseSteps
  <2>2. job.c \in Courses
      BY <1>2, <2>1, ListsAreFinite
  <2>3. KeepsAllBut({"textOf", "resources", "r"}) /\ step' \in {"docs", "raw run"}
      BY <1>2, <1>9, <2>1, <2>2, ExtractTextsIs
  <2>4. step' \in CourseSteps
      BY <2>3 DEF ResourceSteps
  <2> QED BY <1>4, <2>1, <2>3, <2>4
<1>10. CASE DownloadFails
  <2>1. step \in ResourceSteps /\ commands' = commands /\ step \in CourseSteps
      BY <1>10 DEF DownloadFails, ResourceSteps
  <2> QED BY <1>2, <1>5, <1>10, <2>1, DownloadFailsIs
<1>11. CASE WriteMaterialIndex
  <2>1. step \in CourseSteps /\ commands' = commands
      BY <1>11 DEF WriteMaterialIndex, CourseSteps
  <2> QED BY <1>2, <1>3, <1>11, <2>1, WriteMaterialIndexIs
<1>12. CASE WriteArchive \/ RenameArchive
  <2>1. step \in ClosingSteps /\ commands' = commands /\ {"rename", "latest"} \subseteq ClosingSteps \ {"calendar"}
      BY <1>12 DEF WriteArchive, RenameArchive, ClosingSteps
  <2>2. DOMAIN job = Fields
      BY <2>1 DEF Placed, AtQueue
  <2>3. step' = "idle" \/ MovesTo("rename", {}) \/ MovesTo("latest", {})
      BY <1>12, <2>2, WriteArchiveIs, RenameArchiveIs DEF Stops
  <2> QED BY <1>7, <2>1, <2>3 DEF Move
<1>13. CASE WriteIndex \/ Crash
      BY <1>13, StopsIs DEF Stops, WriteIndex, Crash, Move
<1>14. CASE (\E r \in Resources : Edit(r)) \/ exportVars' = exportVars
      BY <1>14 DEF Edit, exportVars, Move, Still
<1> QED BY <1>1, <1>6, <1>8, <1>9, <1>10, <1>11, <1>12, <1>13, <1>14 DEF ExportNext

(* What a run has, or had, before this command comes to it.                *)
Ahead(c) ==
    /\ step \in CourseSteps
    /\ c \in Range(job.courses) \/ (c = job.c /\ step # "index")

Before(n, c) ==
    /\ n <= commands * N + N
    /\ step # "idle" /\ SemesterOf[c] \in Range(job.queue) => n <= commands * N
    /\ Ahead(c) => n < job.run

Older(n, s) ==
    /\ n <= commands * N + N
    /\ step # "idle" /\ s \in Range(job.queue) => n <= commands * N
    /\ step \in SemesterSteps /\ s = job.s => n < job.run

LEMMA OrderOfNumbers ==
    \A n, m, k \in Nat : /\ n <= m /\ m < k => n < k
                         /\ n <= m => n <= m + k
                         /\ n < m /\ m <= k => n <= k
PROOF OBVIOUS

LEMMA OrderIsKept ==
    ASSUME Placed, Placed', Move, NEW n \in Nat
    PROVE  /\ \A c \in Courses : Before(n, c) => Before(n, c)'
           /\ \A s \in Semesters : Older(n, s) => Older(n, s)'
PROOF
<1> USE LabelsDiffer
<1> DEFINE b == commands * N
<1>1. commands \in Nat /\ b \in Nat /\ N \in Nat /\ (commands + 1) * N = b + N
      BY NIsNat DEF Placed
<1>2. CASE step' = "idle" /\ commands' = commands
  <2>1. step' \notin CourseSteps /\ step' \notin SemesterSteps
      BY <1>2
  <2> QED BY <1>2, <2>1 DEF Before, Older, Ahead
<1>3. CASE Still
      BY <1>3 DEF Still, Before, Older, Ahead
<1>4. CASE SameCourse
  <2>1. /\ job'.queue = job.queue /\ job'.s = job.s /\ job'.run = job.run /\ job'.c = job.c /\ job'.courses = job.courses
        /\ step \in CourseSteps /\ step' \in CourseSteps /\ step # "index" /\ commands' = commands
      BY <1>4 DEF SameCourse, Agree
  <2>2. step # "idle" /\ step \in SemesterSteps
      BY <2>1
  <2> QED BY <2>1, <2>2 DEF Before, Older, Ahead
<1>5. CASE TurnsToCourse
  <2>1. /\ job'.queue = job.queue /\ job'.s = job.s /\ job'.run = job.run
        /\ step \in CourseSteps /\ step' \in {"course", "calendar"} /\ commands' = commands
        /\ step' = "course" => Range(job.courses) = {job'.c} \cup Range(job'.courses)
      BY <1>5 DEF TurnsToCourse, Agree
  <2>2. step # "idle" /\ step \in SemesterSteps
      BY <2>1
  <2>3. ASSUME NEW c, Ahead(c)' PROVE Ahead(c)
    <3>1. step' = "course"
        BY <2>1, <2>3 DEF Ahead, CourseSteps, ResourceSteps
    <3> QED BY <2>1, <2>3, <3>1 DEF Ahead
  <2> QED BY <2>1, <2>2, <2>3 DEF Before, Older
<1>6. CASE Closes
  <2>1. /\ job'.queue = job.queue /\ job'.s = job.s /\ job'.run = job.run
        /\ step \in ClosingSteps /\ step' \in ClosingSteps /\ commands' = commands
      BY <1>6 DEF Closes, Agree
  <2>2. step # "idle" /\ step \in SemesterSteps /\ step' \notin CourseSteps
      BY <2>1
  <2> QED BY <2>1, <2>2 DEF Before, Older, Ahead
<1>7. CASE TurnsToSemester
  <2>1. /\ step = "semester" /\ step' \in {"course", "calendar"} /\ commands' = commands
        /\ Range(job.queue) = {job'.s} \cup Range(job'.queue)
        /\ step' = "course" => CoursesOf(job'.s) = {job'.c} \cup Range(job'.courses)
      BY <1>7 DEF TurnsToSemester
  <2>2. step # "idle" /\ step' \in SemesterSteps
      BY <2>1 DEF ClosingSteps
  <2>3. commands * N < job'.run /\ job'.run \in Nat
      BY <2>1, <2>2 DEF Placed, AtSemester
  <2>4. ASSUME NEW c, Ahead(c)' PROVE SemesterOf[c] = job'.s
    <3>1. step' = "course"
        BY <2>1, <2>4 DEF Ahead, CourseSteps, ResourceSteps
    <3>2. c \in CoursesOf(job'.s)
        BY <2>1, <2>4, <3>1 DEF Ahead
    <3> QED BY <3>2 DEF CoursesOf
  <2>5. n <= b /\ b < job'.run => n < job'.run
      BY <1>1, <2>3, OrderOfNumbers
  <2>6. ASSUME NEW c \in Courses, Before(n, c) PROVE Before(n, c)'
      BY <2>1, <2>2, <2>3, <2>4, <2>5, <2>6 DEF Before
  <2>7. ASSUME NEW s \in Semesters, Older(n, s) PROVE Older(n, s)'
      BY <2>1, <2>2, <2>3, <2>5, <2>7 DEF Older
  <2> QED BY <2>6, <2>7
<1>8. CASE LeavesSemester
  <2>1. /\ step = "latest" /\ step' \in {"semester", "write"} /\ commands' = commands /\ job'.queue = job.queue
      BY <1>8 DEF LeavesSemester
  <2>2. step # "idle" /\ step' \notin SemesterSteps /\ step' \notin CourseSteps
      BY <2>1
  <2> QED BY <2>1, <2>2 DEF Before, Older, Ahead
<1>9. CASE Starts
  <2>1. step' = "semester" /\ commands' * N = b + N
      BY <1>1, <1>9 DEF Starts
  <2>2. step' \notin SemesterSteps /\ step' \notin CourseSteps
      BY <2>1
  <2> HIDE DEF b
  <2>3. n <= b + N => n <= b + N + N
    <3>1. b + N \in Nat
        BY <1>1, <2>1, NIsNat DEF b, Placed
    <3> QED BY <3>1, <1>1, OrderOfNumbers
  <2>4. ASSUME n <= b + N PROVE n <= commands' * N + N /\ n <= commands' * N
      BY <2>1, <2>3, <2>4
  <2> QED BY <2>2, <2>4 DEF Before, Older, Ahead, b
<1> QED BY <1>2, <1>3, <1>4, <1>5, <1>6, <1>7, <1>8, <1>9 DEF Move

-----------------------------------------------------------------------------
(* Export: the indexes and what they link to.                              *)

Matches(x, run) ==
    /\ x.sum # Null =>
         /\ RawPath(x.of) \in DOMAIN drive
         /\ \/ drive[RawPath(x.of)].version = x.sum \/ drive[RawPath(x.of)].run > run
            \/ RawPath(x.of) \in unconfirmed
    /\ x.text =>
         /\ TextPath(x.of) \in DOMAIN drive
         /\ \/ drive[TextPath(x.of)].of = x.of \/ SharesTitle(x.of) \/ drive[TextPath(x.of)].run > run
            \/ TextPath(x.of) \in unconfirmed

(* What is found under the path of an index, about courses that the        *)
(* command at work has yet to come to, is of an earlier run.               *)
Entry(content) ==
    /\ content.run \in Nat
    /\ \A x \in content.records :
         x.of \in Resources /\ Matches(x, content.run) /\ Before(content.run, CourseOf[x.of])

Indexed == \A path \in DOMAIN drive \cap IndexPaths : Entry(drive[path])

Ready ==
    /\ step \in SemesterSteps /\ job.upload => \A x \in job.records : Matches(x, job.run)
    /\ step \in CourseSteps /\ job.upload => \A x \in job.mine : Matches(x, job.run)
    /\ step = "text" /\ job.upload =>
         /\ RawPath(job.r) \in DOMAIN drive
         /\ drive[RawPath(job.r)].version = job.raw[job.r] \/ RawPath(job.r) \in unconfirmed

(* What once was in doubt stays so.                                        *)
Remembered == unconfirmed \subseteq unconfirmed'

LEMMA RememberedNext ==
    ASSUME [ExportNext]_exportVars
    PROVE  Remembered
PROOF
<1>1. ASSUME NEW files, NEW ok, Send(files, ok) PROVE Remembered
      BY <1>1 DEF Send, Remembered
<1>2. ASSUME unconfirmed' = unconfirmed PROVE Remembered
      BY <1>2 DEF Remembered
<1>3. ASSUME NEW ok \in BOOLEAN, Course(ok) PROVE Remembered
  <2>1. CASE SnapshotCourse(ok)
      BY <2>1, <1>2 DEF SnapshotCourse
  <2>2. CASE UploadZip(ok) \/ UploadRawToRun(ok) \/ UploadRawToCurrent(ok) \/ UploadCourseDocs(ok)
      BY <2>2, <1>1 DEF UploadZip, UploadRawToRun, UploadRawToCurrent, UploadCourseDocs
  <2>3. CASE UploadText(ok)
      BY <2>3, <1>1, <1>2 DEF UploadText
  <2> QED BY <1>3, <2>1, <2>2, <2>3 DEF Course
<1>4. ASSUME NEW ok \in BOOLEAN, Semester(ok) PROVE Remembered
  <2>1. CASE BeginSemester(ok)
      BY <2>1, <1>2 DEF BeginSemester
  <2>2. CASE ExportCalendar(ok)
      BY <2>2, <1>1, <1>2 DEF ExportCalendar
  <2>3. CASE UploadReport(ok) \/ UploadNavigation(ok)
      BY <2>3, <1>1 DEF UploadReport, UploadNavigation
  <2>4. CASE UploadLatest(ok)
      BY <2>4, <1>1, <1>2 DEF UploadLatest
  <2> QED BY <1>4, <2>1, <2>2, <2>3, <2>4 DEF Semester
<1>5. CASE \E asked \in Commands : StartExport(asked)
      BY <1>5, <1>2 DEF StartExport
<1>6. CASE ExtractTexts \/ DownloadFails \/ WriteMaterialIndex
      BY <1>6, <1>2 DEF ExtractTexts, DownloadFails, WriteMaterialIndex
<1>7. CASE WriteArchive \/ RenameArchive \/ WriteIndex \/ Crash
      BY <1>7, <1>2 DEF WriteArchive, RenameArchive, WriteIndex, Crash
<1>8. CASE (\E r \in Resources : Edit(r)) \/ exportVars' = exportVars
      BY <1>8, <1>2 DEF Edit, exportVars
<1> QED BY <1>3, <1>4, <1>5, <1>6, <1>7, <1>8 DEF ExportNext

Quiet == \A p \in Linked : Kept(p)

LEMMA MatchesKept ==
    ASSUME Remembered, NEW x, NEW n, Kept(RawPath(x.of)), Kept(TextPath(x.of)), Matches(x, n)
    PROVE  Matches(x, n)'
PROOF
<1> DEFINE p == RawPath(x.of)
           q == TextPath(x.of)
<1>1. /\ p \in DOMAIN drive => p \in DOMAIN drive' /\ drive'[p] = drive[p]
      /\ q \in DOMAIN drive => q \in DOMAIN drive' /\ drive'[q] = drive[q]
      BY DEF Kept
<1> HIDE DEF p, q
<1>2. /\ x.sum # Null => p \in DOMAIN drive /\ (drive[p].version = x.sum \/ drive[p].run > n \/ p \in unconfirmed)
      /\ x.text => q \in DOMAIN drive /\ (drive[q].of = x.of \/ SharesTitle(x.of) \/ drive[q].run > n \/ q \in unconfirmed)
      BY DEF Matches, p, q
<1>3. /\ x.sum # Null => p \in DOMAIN drive' /\ (drive'[p].version = x.sum \/ drive'[p].run > n \/ p \in unconfirmed')
      /\ x.text => q \in DOMAIN drive' /\ (drive'[q].of = x.of \/ SharesTitle(x.of) \/ drive'[q].run > n \/ q \in unconfirmed')
      BY <1>1, <1>2 DEF Remembered
<1> QED BY <1>3 DEF Matches, p, q

LEMMA QuietMatches ==
    ASSUME Remembered, Quiet, NEW x, x.of \in Resources, NEW n, Matches(x, n)
    PROVE  Matches(x, n)'
PROOF
<1>1. RawPath(x.of) \in Linked /\ TextPath(x.of) \in Linked
      BY DEF Linked
<1> QED BY <1>1, MatchesKept DEF Quiet

LEMMA EntryKept ==
    ASSUME Placed, Placed', Move, NEW content, Entry(content),
           \A x \in content.records : x.of \in Resources /\ Matches(x, content.run) => Matches(x, content.run)'
    PROVE  Entry(content)'
PROOF
<1>1. content.run \in Nat /\ \A x \in content.records : x.of \in Resources
      BY DEF Entry
<1>2. CourseOf \in [Resources -> Courses]
      BY ExportAssumption
<1>3. \A c \in Courses : Before(content.run, c) => Before(content.run, c)'
      BY <1>1, OrderIsKept
<1>4. ASSUME NEW x \in content.records PROVE Matches(x, content.run)' /\ Before(content.run, CourseOf[x.of])'
  <2>1. x.of \in Resources /\ Matches(x, content.run) /\ Before(content.run, CourseOf[x.of])
      BY DEF Entry
  <2>2. CourseOf[x.of] \in Courses
      BY <1>2, <2>1
  <2> QED BY <1>3, <2>1, <2>2
<1> QED BY <1>1, <1>4 DEF Entry

LEMMA QuietIndexed ==
    ASSUME Placed, Placed', Move, Remembered, Quiet, Indexed
    PROVE  Indexed'
PROOF
<1> SUFFICES ASSUME NEW path \in DOMAIN drive' \cap IndexPaths PROVE Entry(drive[path])'
      BY DEF Indexed
<1>1. path \in DOMAIN drive \cap IndexPaths /\ drive'[path] = drive[path]
      BY DEF Quiet, Kept, Linked
<1> DEFINE content == drive[path]
<1>2. Entry(content)
      BY <1>1 DEF Indexed
<1>3. PICK d : d = content
      OBVIOUS
<1> HIDE DEF content
<1>4. Entry(d)
      BY <1>2, <1>3
<1>5. \A x \in d.records : x.of \in Resources /\ Matches(x, d.run) => Matches(x, d.run)'
      BY QuietMatches
<1>6. Entry(d)'
      BY <1>4, <1>5, EntryKept
<1> QED BY <1>1, <1>3, <1>6 DEF content

-----------------------------------------------------------------------------
(* Export: what each upload sends.                                         *)

LEMMA CalendarFilesAre ==
    ASSUME NEW ok \in BOOLEAN, job.upload \in BOOLEAN,
           Send(<<File(InRun(job.s, job.run, <<"raw", "calendar">>), job.run),
                  Over(InCurrent(job.s, <<"calendar", "raw">>), job.run)>> \o CalendarIndexes, ok)
    PROVE  LET raw == InRun(job.s, job.run, <<"raw", "calendar">>)
           IN  /\ ~job.upload => drive' = drive
               /\ \A q : \/ Kept(q) \/ q = raw \/ q = InCurrent(job.s, <<"calendar", "raw">>)
                         \/ q = InCurrent(job.s, <<"calendar", "index">>) \/ q = <<"_search", "calendar">>
               /\ Kept(raw) \/ Arrived(raw, job.run)
               /\ job.upload /\ ok => Arrived(raw, job.run)
PROOF
<1> DEFINE p1 == InRun(job.s, job.run, <<"raw", "calendar">>)
           p2 == InCurrent(job.s, <<"calendar", "raw">>)
           p3 == InCurrent(job.s, <<"calendar", "index">>)
           p4 == <<"_search", "calendar">>
           f1 == File(p1, job.run)
           f2 == Over(p2, job.run)
           f3 == Over(p3, job.run)
           f4 == Over(p4, job.run)
           files == <<f1, f2, f3, f4>>
<1>1. Send(<<f1, f2>> \o <<f3, f4>>, ok)
      BY DEF CalendarIndexes
<1>2. /\ f1.path = p1 /\ f2.path = p2 /\ f3.path = p3 /\ f4.path = p4
      /\ f1.content = job.run /\ f2.content = job.run /\ f3.content = job.run /\ f4.content = job.run
      /\ f1.over = FALSE
  <2> HIDE DEF p1, p2, p3, p4
  <2> QED BY DEF File, Over
<1>0. p1 # p2 /\ p1 # p3 /\ p1 # p4
  <2>1. ASSUME NEW x, NEW y PROVE InRun(job.s, job.run, <<"raw", x>>) # InCurrent(job.s, <<"calendar", y>>)
    <3> DEFINE a == "raw"
               b == "calendar"
    <3> HIDE DEF a, b
    <3>1. /\ InRun(job.s, job.run, <<a, x>>) = <<job.s, "runs", job.run, a, x>>
          /\ InCurrent(job.s, <<b, y>>) = <<job.s, "current", b, y>>
        BY PathsAre
    <3>2. <<job.s, "current", b, y>> # <<job.s, "runs", job.run, a, x>>
        BY TuplesDiffer
    <3> QED BY <3>1, <3>2 DEF a, b
  <2>2. p1 # p4
    <3> DEFINE a == "raw"
               b == "calendar"
               d == "_search"
    <3> HIDE DEF a, b, d
    <3>1. InRun(job.s, job.run, <<a, b>>) = <<job.s, "runs", job.run, a, b>>
        BY PathsAre
    <3>2. <<d, b>> # <<job.s, "runs", job.run, a, b>>
        BY TuplesDiffer
    <3> QED BY <3>1, <3>2 DEF a, b, d
  <2> QED BY <2>1, <2>2
<1> HIDE DEF f1, f2, f3, f4
<1>3. <<f1, f2>> \o <<f3, f4>> = files
      BY Join22
<1> DEFINE T == {f1, f2, f3, f4}
<1>4. files \in Seq(T) /\ Len(files) = 4
      OBVIOUS
<1>5. files[1] = f1 /\ files[2] = f2 /\ files[3] = f3 /\ files[4] = f4
      OBVIOUS
<1> HIDE DEF files, T
<1>6. Send(files, ok)
      BY <1>1, <1>3
<1> HIDE DEF p1, p2, p3, p4
<1>7. /\ ok \/ job.upload
      /\ ~job.upload => drive' = drive
      /\ \A p : Kept(p) \/ \E i \in 1..Len(files) : files[i].path = p /\ Arrived(p, files[i].content)
      /\ job.upload /\ ok =>
           \A i \in 1..Len(files) :
               \E k \in 1..Len(files) : files[k].path = files[i].path /\ Landed(files[k])
      BY <1>4, <1>6, SendIs
<1>8. 1..Len(files) = {1, 2, 3, 4}
      BY <1>4
<1>9. \A i \in 1..Len(files) : files[i].content = job.run /\ files[i].path \in {p1, p2, p3, p4}
      BY <1>2, <1>5, <1>8
<1>10. \A q : Kept(q) \/ (q \in {p1, p2, p3, p4} /\ Arrived(q, job.run))
      BY <1>7, <1>9
<1>11. ASSUME job.upload, ok PROVE Arrived(p1, job.run)
  <2>1. 1 \in 1..Len(files) /\ files[1].path = p1
      BY <1>2, <1>5, <1>8
  <2>2. PICK k \in 1..Len(files) : files[k].path = p1 /\ Landed(files[k])
      BY <1>7, <1>11, <2>1
  <2>3. files[k] = f1
      BY <1>0, <1>2, <1>5, <1>8, <2>2
  <2> QED BY <1>2, <2>2, <2>3 DEF Landed
<1>12. \A q : Kept(q) \/ q = p1 \/ q = p2 \/ q = p3 \/ q = p4
      BY <1>10
<1>13. Kept(p1) \/ Arrived(p1, job.run)
      BY <1>10
<1> QED BY <1>7, <1>11, <1>12, <1>13 DEF p1, p2, p3, p4

LEMMA CalendarSends ==
    ASSUME NEW ok \in BOOLEAN, ExportCalendar(ok), job.upload \in BOOLEAN
    PROVE  LET raw == InRun(job.s, job.run, <<"raw", "calendar">>)
           IN  /\ ~job.upload => drive' = drive
               /\ \A q : \/ Kept(q) \/ q = raw \/ q = InCurrent(job.s, <<"calendar", "raw">>)
                         \/ q = InCurrent(job.s, <<"calendar", "index">>) \/ q = <<"_search", "calendar">>
               /\ Kept(raw) \/ Arrived(raw, job.run)
               /\ job.upload /\ ok => Arrived(raw, job.run)
PROOF
<1>1. CASE ~ok /\ drive' = drive
      BY <1>1 DEF Kept
<1>2. CASE ~(~ok /\ drive' = drive)
  <2>1. Send(<<File(InRun(job.s, job.run, <<"raw", "calendar">>), job.run),
              Over(InCurrent(job.s, <<"calendar", "raw">>), job.run)>> \o CalendarIndexes, ok)
      BY <1>2 DEF ExportCalendar
  <2> QED BY <2>1, CalendarFilesAre
<1> QED BY <1>1, <1>2

LEMMA NavigationSends ==
    ASSUME NEW ok \in BOOLEAN, UploadNavigation(ok), job.upload \in BOOLEAN
    PROVE  LET content == [run |-> job.run, records |-> job.records]
           IN  /\ ~job.upload => drive' = drive
               /\ \A q : \/ Kept(q) \/ q = <<"latest.yaml">>
                         \/ q \in {SearchIndexPath, SemesterIndexPath(job.s)} /\ Arrived(q, content)
PROOF
<1> DEFINE p1 == <<"latest.yaml">>
           p2 == SearchIndexPath
           p3 == SemesterIndexPath(job.s)
           content == [run |-> job.run, records |-> job.records]
           f1 == Over(p1, job.run)
           f2 == Over(p2, content)
           f3 == Over(p3, content)
           files == <<f1, f2, f3>>
<1>1. Send(<<f1, f2, f3>>, ok)
      BY DEF UploadNavigation, SearchIndex, SemesterIndex
<1>2. /\ f1.path = p1 /\ f2.path = p2 /\ f3.path = p3
      /\ f2.content = content /\ f3.content = content
  <2> HIDE DEF p1, p2, p3, content
  <2> QED BY DEF Over
<1> HIDE DEF f1, f2, f3
<1>3. files \in Seq({f1, f2, f3}) /\ Len(files) = 3
      OBVIOUS
<1>4. files[1] = f1 /\ files[2] = f2 /\ files[3] = f3
      OBVIOUS
<1> HIDE DEF files
<1>5. Send(files, ok)
      BY <1>1 DEF files
<1>6. /\ ~job.upload => drive' = drive
      /\ \A p : Kept(p) \/ \E i \in 1..Len(files) : files[i].path = p /\ Arrived(p, files[i].content)
      BY <1>3, <1>5, SendIs
<1>7. 1..Len(files) = {1, 2, 3}
      BY <1>3
<1> HIDE DEF p1, p2, p3, content
<1>8. \A i \in 1..Len(files) : files[i].path = p1 \/ (files[i].path \in {p2, p3} /\ files[i].content = content)
      BY <1>2, <1>4, <1>7
<1>9. ASSUME NEW q PROVE \/ Kept(q) \/ q = p1
                         \/ q \in {p2, p3} /\ Arrived(q, content)
      BY <1>6, <1>8
<1> QED BY <1>6, <1>9 DEF p1, p2, p3, content

LEMMA ReportSends ==
    ASSUME Placed, NEW ok \in BOOLEAN, UploadReport(ok), job.upload \in BOOLEAN
    PROVE  LET Processed(c) == InRun(job.s, job.run, <<"processed", c>>)
               report == InRun(job.s, job.run, <<"run.yaml">>)
           IN  /\ ~job.upload => drive' = drive
               /\ \A q : \/ Kept(q) \/ q = report
                         \/ \E c \in CoursesOf(job.s) : q = Processed(c)
               /\ job.upload /\ ok =>
                    /\ Arrived(report, ~job.failed)
                    /\ \A c \in CoursesOf(job.s) : courseIndex[c] # 0 => Arrived(Processed(c), courseIndex[c])
PROOF
<1> DEFINE Processed(c) == InRun(job.s, job.run, <<"processed", c>>)
           report == InRun(job.s, job.run, <<"run.yaml">>)
           whole == ~job.failed
           f == File(report, whole)
           C == {d \in CoursesOf(job.s) : courseIndex[d] # 0}
           S == {File(Processed(c), courseIndex[c]) : c \in C}
           q == SetToSeq(S)
           u == <<f>>
           files == u \o q
<1>1. Send(files, ok)
      BY DEF UploadReport, ProcessedFiles
<1>2. IsFiniteSet(S)
  <2>1. IsFiniteSet(CoursesOf(job.s)) /\ C \in SUBSET CoursesOf(job.s)
      BY ListsAreFinite
  <2>2. IsFiniteSet(C)
      BY <2>1, FS_Subset
  <2> DEFINE g == [c \in C |-> File(Processed(c), courseIndex[c])]
  <2> HIDE DEF C
  <2>3. g \in Surjection(C, S)
    <3>1. g \in [C -> S] /\ \A t \in S : \E c \in C : g[c] = t
        OBVIOUS
    <3> QED BY <3>1 DEF Surjection
  <2> QED BY <2>2, <2>3, FS_Surjection
<1>3. \A c \in C : /\ File(Processed(c), courseIndex[c]).path = Processed(c)
                   /\ File(Processed(c), courseIndex[c]).content = courseIndex[c]
                   /\ File(Processed(c), courseIndex[c]).over = FALSE
  <2> HIDE DEF Processed
  <2> QED BY DEF File
<1>4. f.path = report /\ f.content = whole /\ f.over = FALSE
  <2> HIDE DEF report, whole
  <2> QED BY DEF File
<1> HIDE DEF f
<1>5. \A t \in S : \E c \in C : t.path = Processed(c) /\ t.content = courseIndex[c] /\ t.over = FALSE
      BY <1>3
<1>6. \A c \in C : \E t \in S : t.path = Processed(c)
      BY <1>3
<1> HIDE DEF S
<1>7. q \in Seq(S) /\ Range(q) = S
      BY <1>2, SetToSeqIs
<1> DEFINE T == S \cup {f}
<1>8. q \in Seq(T)
      BY <1>7, SeqMonotonic
<1>9. u \in Seq(T) /\ Len(u) = 1 /\ u[1] = f
      OBVIOUS
<1> HIDE DEF q, u, T
<1>10. /\ files \in Seq(T) /\ Len(files) = Len(u) + Len(q)
       /\ \A i \in 1..(Len(u) + Len(q)) : files[i] = IF i <= Len(u) THEN u[i] ELSE q[i - Len(u)]
      BY <1>8, <1>9, ConcatProperties
<1>11. Len(q) \in Nat /\ DOMAIN q = 1..Len(q) /\ \A i \in 1..Len(q) : q[i] \in S
      BY <1>7, LenProperties, ElementOfSeq
<1> HIDE DEF files
<1>12. /\ Len(files) = 1 + Len(q) /\ files[1] = f
       /\ \A i \in 1..Len(q) : i + 1 \in 1..Len(files) /\ files[i + 1] = q[i]
  <2>1. Len(files) = 1 + Len(q) /\ files[1] = f
      BY <1>9, <1>10, <1>11
  <2>2. ASSUME NEW i \in 1..Len(q) PROVE i + 1 \in 1..Len(files) /\ files[i + 1] = q[i]
    <3>1. i + 1 \in 1..(Len(u) + Len(q)) /\ ~(i + 1 <= Len(u)) /\ (i + 1) - Len(u) = i
        BY <1>9, <1>11
    <3>2. files[i + 1] = q[(i + 1) - Len(u)]
        BY <1>10, <3>1
    <3> QED BY <1>10, <3>1, <3>2
  <2> QED BY <2>1, <2>2
<1>13. \A i \in 1..Len(files) : files[i] = f \/ files[i] \in S
  <2> SUFFICES ASSUME NEW i \in 1..Len(files) PROVE files[i] = f \/ files[i] \in S
      OBVIOUS
  <2>1. CASE i = 1
      BY <2>1, <1>12
  <2>2. CASE i # 1
    <3>1. i - 1 \in 1..Len(q) /\ (i - 1) + 1 = i
        BY <2>2, <1>11, <1>12
    <3>2. files[i] = q[i - 1]
        BY <3>1, <1>12
    <3> QED BY <3>1, <3>2, <1>11
  <2> QED BY <2>1, <2>2
<1>14. \A t \in S : \E i \in 1..Len(files) : files[i] = t
  <2> SUFFICES ASSUME NEW t \in S PROVE \E i \in 1..Len(files) : files[i] = t
      OBVIOUS
  <2>1. PICK i \in 1..Len(q) : q[i] = t
      BY <1>7, <1>11 DEF Range
  <2> QED BY <2>1, <1>12
<1>15. 1 \in 1..Len(files)
      BY <1>11, <1>12
<1>16. /\ ~job.upload => drive' = drive
       /\ \A p : Kept(p) \/ \E i \in 1..Len(files) : files[i].path = p /\ Arrived(p, files[i].content)
       /\ job.upload /\ ok =>
            \A i \in 1..Len(files) :
                \E k \in 1..Len(files) : files[k].path = files[i].path /\ Arrived(files[i].path, files[k].content)
  <2>1. /\ ~job.upload => drive' = drive
        /\ \A p : Kept(p) \/ \E i \in 1..Len(files) : files[i].path = p /\ Arrived(p, files[i].content)
        /\ job.upload /\ ok =>
             \A i \in 1..Len(files) :
                 \E k \in 1..Len(files) : files[k].path = files[i].path /\ Landed(files[k])
      BY <1>1, <1>10, SendIs
  <2>2. \A k \in 1..Len(files) : files[k].over = FALSE
      BY <1>4, <1>5, <1>13
  <2> QED BY <2>1, <2>2 DEF Landed
<1> HIDE DEF Processed, report, whole
<1>17. ASSUME NEW p PROVE \/ Kept(p) \/ p = report
                          \/ \E c \in CoursesOf(job.s) : p = Processed(c)
  <2>1. CASE \E i \in 1..Len(files) : files[i].path = p
      BY <2>1, <1>4, <1>5, <1>13
  <2> QED BY <2>1, <1>16
<1>18. \A a, c : report # Processed(c)
  <2>1. \A s, n, c : <<s, "runs", n, "run.yaml">> # <<s, "runs", n, "processed", c>>
      OBVIOUS
  <2>2. report = <<job.s, "runs", job.run, "run.yaml">>
    <3> DEFINE x == "run.yaml"
    <3> HIDE DEF x
    <3>1. InRun(job.s, job.run, <<x>>) = <<job.s, "runs", job.run, x>>
        BY PathsAre
    <3> QED BY <3>1 DEF x, report
  <2>3. ASSUME NEW c PROVE Processed(c) = <<job.s, "runs", job.run, "processed", c>>
    <3> DEFINE x == "processed"
    <3> HIDE DEF x
    <3>1. InRun(job.s, job.run, <<x, c>>) = <<job.s, "runs", job.run, x, c>>
        BY PathsAre
    <3> QED BY <3>1 DEF x, Processed
  <2> QED BY <2>1, <2>2, <2>3
<1>19. \A c, d : Processed(c) = Processed(d) => c = d
  <2>1. ASSUME NEW c PROVE Processed(c) = <<job.s, "runs", job.run, "processed", c>>
    <3> DEFINE x == "processed"
    <3> HIDE DEF x
    <3>1. InRun(job.s, job.run, <<x, c>>) = <<job.s, "runs", job.run, x, c>>
        BY PathsAre
    <3> QED BY <3>1 DEF x, Processed
  <2>2. \A s, n, x, c, d : <<s, "runs", n, x, c>> = <<s, "runs", n, x, d>> => c = d
      OBVIOUS
  <2> QED BY <2>1, <2>2
<1>20. ASSUME job.upload, ok PROVE Arrived(report, whole)
  <2>1. PICK k \in 1..Len(files) : files[k].path = report /\ Arrived(report, files[k].content)
      BY <1>4, <1>12, <1>15, <1>16, <1>20
  <2>2. files[k] = f
      BY <2>1, <1>5, <1>13, <1>18
  <2> QED BY <1>4, <2>1, <2>2
<1>21. ASSUME job.upload, ok, NEW c \in CoursesOf(job.s), courseIndex[c] # 0 PROVE Arrived(Processed(c), courseIndex[c])
  <2>1. c \in C
      BY <1>21
  <2>2. PICK t \in S : t.path = Processed(c)
      BY <2>1, <1>6
  <2>3. PICK i \in 1..Len(files) : files[i].path = Processed(c)
      BY <2>2, <1>14
  <2>4. PICK k \in 1..Len(files) : files[k].path = Processed(c) /\ Arrived(Processed(c), files[k].content)
      BY <2>3, <1>16, <1>21
  <2>5. files[k] \in S
      BY <2>4, <1>4, <1>13, <1>18
  <2>6. files[k].content = courseIndex[c]
      BY <2>4, <2>5, <1>5, <1>19
  <2> QED BY <2>4, <2>6
<1> QED BY <1>16, <1>17, <1>20, <1>21 DEF Processed, report, whole

-----------------------------------------------------------------------------
(* Export: the records of the command at work.                             *)

(* Only p was written, if anything was.                                    *)
Only(p, content) == (\A q : q # p => Kept(q)) /\ (Kept(p) \/ Arrived(p, content))

Known(x) == x \in job.records \/ (step \in CourseSteps /\ x \in job.mine)

LEMMA ReadyNext ==
    ASSUME Heard, Ready, step \in SemesterSteps, job'.run = job.run, job'.upload = job.upload,
           job.upload => \A x, n : Known(x) /\ n = job.run /\ Matches(x, n) => Matches(x, n)',
           \A x \in job'.records : Known(x),
           step' \in CourseSteps /\ job.upload => \A x \in job'.mine : \A n : n = job.run => Known(x) \/ Matches(x, n)',
           step' = "text" /\ job.upload =>
               /\ RawPath(job'.r) \in DOMAIN drive'
               /\ drive'[RawPath(job'.r)].version = job'.raw[job'.r] \/ RawPath(job'.r) \in unconfirmed'
    PROVE  Ready'
PROOF
<1>1. PICK n : n = job.run
      OBVIOUS
<1>2. ASSUME NEW x, Known(x), job.upload PROVE Matches(x, n)'
  <2>1. Matches(x, n)
      BY <1>1, <1>2 DEF Known, Ready
  <2> QED BY <1>1, <1>2, <2>1
<1>3. ASSUME NEW x, Matches(x, n)' PROVE Matches(x, job.run)'
      BY <1>1, <1>3 DEF Matches
<1>4. ASSUME job.upload, NEW x \in job'.records PROVE Matches(x, job.run)'
      BY <1>2, <1>3, <1>4
<1>5. ASSUME job.upload, step' \in CourseSteps, NEW x \in job'.mine PROVE Matches(x, job.run)'
      BY <1>1, <1>2, <1>3, <1>5
<1> QED BY <1>4, <1>5 DEF Ready

LEMMA KnownIs ==
    ASSUME Heard, step \in SemesterSteps, NEW x, Known(x)
    PROVE  /\ x.of \in Resources
           /\ step \in ResourceSteps /\ Placed => x.of # job.r
PROOF
<1>1. x.of \in Resources
      BY LabelsDiffer DEF Heard, Known, Sound
<1>2. ASSUME step \in ResourceSteps, Placed PROVE x.of # job.r
  <2>1. step \in CourseSteps /\ job.r \in ResourcesOf(job.c)
      BY <1>2, LabelsDiffer DEF Placed, AtResource
  <2>2. CASE x \in job.records
      BY <2>1, <2>2 DEF Heard, ResourcesOf
  <2>3. CASE x \in job.mine
      BY <1>2, <2>3 DEF Heard
  <2> QED BY <2>2, <2>3 DEF Known
<1> QED BY <1>1, <1>2

(* The raw file of a resource written: what older runs recorded of it is   *)
(* overwritten by a later run, and the rest is as it was.                  *)
LEMMA RawMatches ==
    ASSUME Remembered, NEW r \in Resources, NEW run, NEW version, Only(RawPath(r), [run |-> run, version |-> version]),
           NEW x, x.of \in Resources, NEW n, Matches(x, n), x.of = r => n < run
    PROVE  Matches(x, n)'
PROOF
<1> DEFINE p == RawPath(r)
           content == [run |-> run, version |-> version]
<1>1. TextPath(x.of) # p /\ (RawPath(x.of) = p => x.of = r)
      BY LinkedDiffer
<1>2. content.run = run
      OBVIOUS
<1> HIDE DEF p, content
<1>3. (\A q : q # p => Kept(q)) /\ (Kept(p) \/ Arrived(p, content))
      BY DEF Only, p, content
<1>4. Kept(TextPath(x.of))
      BY <1>1, <1>3
<1>5. CASE Kept(RawPath(x.of))
      BY <1>4, <1>5, MatchesKept
<1>6. CASE RawPath(x.of) = p /\ Arrived(p, content)
  <2> DEFINE t == TextPath(x.of)
  <2>1. t \in DOMAIN drive => t \in DOMAIN drive' /\ drive'[t] = drive[t]
      BY <1>4 DEF Kept
  <2>2. n < run
      BY <1>1, <1>6
  <2>3. p \in DOMAIN drive' /\ drive'[p].run > n
      BY <1>2, <1>6, <2>2 DEF Arrived
  <2>4. x.text => t \in DOMAIN drive /\ (drive[t].of = x.of \/ SharesTitle(x.of) \/ drive[t].run > n \/ t \in unconfirmed)
      BY DEF Matches
  <2> HIDE DEF t
  <2>5. x.text => t \in DOMAIN drive' /\ (drive'[t].of = x.of \/ SharesTitle(x.of) \/ drive'[t].run > n \/ t \in unconfirmed')
      BY <2>1, <2>4 DEF Remembered
  <2> QED BY <1>6, <2>3, <2>5 DEF Matches, t
<1> QED BY <1>3, <1>5, <1>6

LEMMA TextMatches ==
    ASSUME Remembered, NEW r \in Resources, NEW run, NEW of, Only(TextPath(r), [run |-> run, of |-> of]),
           NEW x, x.of \in Resources, NEW n, Matches(x, n), x.of = r => n < run
    PROVE  Matches(x, n)'
PROOF
<1> DEFINE p == TextPath(r)
           content == [run |-> run, of |-> of]
<1>1. RawPath(x.of) # p /\ (TextPath(x.of) = p => x.of = r \/ SharesTitle(x.of))
      BY LinkedDiffer
<1>2. content.run = run
      OBVIOUS
<1> HIDE DEF p, content
<1>3. (\A q : q # p => Kept(q)) /\ (Kept(p) \/ Arrived(p, content))
      BY DEF Only, p, content
<1>4. Kept(RawPath(x.of))
      BY <1>1, <1>3
<1>5. CASE Kept(TextPath(x.of))
      BY <1>4, <1>5, MatchesKept
<1>6. CASE TextPath(x.of) = p /\ Arrived(p, content)
  <2> DEFINE t == RawPath(x.of)
  <2>1. t \in DOMAIN drive => t \in DOMAIN drive' /\ drive'[t] = drive[t]
      BY <1>4 DEF Kept
  <2>2. n < run \/ SharesTitle(x.of)
      BY <1>1, <1>6
  <2>3. p \in DOMAIN drive' /\ (SharesTitle(x.of) \/ drive'[p].run > n)
      BY <1>2, <1>6, <2>2 DEF Arrived
  <2>4. x.sum # Null => t \in DOMAIN drive /\ (drive[t].version = x.sum \/ drive[t].run > n \/ t \in unconfirmed)
      BY DEF Matches
  <2> HIDE DEF t
  <2>5. x.sum # Null => t \in DOMAIN drive' /\ (drive'[t].version = x.sum \/ drive'[t].run > n \/ t \in unconfirmed')
      BY <2>1, <2>4 DEF Remembered
  <2> QED BY <1>6, <2>3, <2>5 DEF Matches, t, SharesTitle
<1> QED BY <1>3, <1>5, <1>6

(* No index was written.                                                   *)
LEMMA IndexedKept ==
    ASSUME Placed, Placed', Move, Indexed, \A q \in IndexPaths : Kept(q),
           \A x, n : n \in Nat /\ x.of \in Resources /\ Matches(x, n) /\ Before(n, CourseOf[x.of]) => Matches(x, n)'
    PROVE  Indexed'
PROOF
<1> SUFFICES ASSUME NEW path \in DOMAIN drive' \cap IndexPaths PROVE Entry(drive[path])'
      BY DEF Indexed
<1>1. path \in DOMAIN drive \cap IndexPaths /\ drive'[path] = drive[path]
      BY DEF Kept
<1>2. PICK d : d = drive[path]
      OBVIOUS
<1>3. Entry(d)
      BY <1>1, <1>2 DEF Indexed
<1>4. \A x \in d.records : x.of \in Resources /\ Matches(x, d.run) => Matches(x, d.run)'
  <2> SUFFICES ASSUME NEW x \in d.records, Matches(x, d.run) PROVE Matches(x, d.run)'
      OBVIOUS
  <2>1. d.run \in Nat /\ x.of \in Resources /\ Before(d.run, CourseOf[x.of])
      BY <1>3 DEF Entry
  <2> QED BY <2>1
<1>5. Entry(d)'
      BY <1>3, <1>4, EntryKept
<1> QED BY <1>1, <1>2, <1>5

(* What a command knows after a step that recorded no file.                *)
Carried ==
    /\ step \in SemesterSteps /\ job'.run = job.run /\ job'.upload = job.upload
    /\ \A x \in job'.records : Known(x)
    /\ step' \in CourseSteps => \A x \in job'.mine : Known(x) \/ (x.sum = Null /\ ~x.text)

LEMMA NextCourseCarried ==
    ASSUME step \in CourseSteps, NEW F, F \subseteq {"failed", "records"}, NextCourse(F),
           job'.records \subseteq job.records \cup job.mine
    PROVE  Carried /\ step' # "text"
PROOF
<1>1. step \in SemesterSteps /\ "calendar" \notin CourseSteps
      BY LabelsDiffer DEF CourseSteps, ResourceSteps
<1>2. job'.run = job.run /\ job'.upload = job.upload
      BY DEF NextCourse, KeepsAllBut, Agree, Fields
<1>3. \A x \in job'.records : Known(x)
      BY DEF Known
<1>4. step' \in CourseSteps => job'.mine = {}
      BY <1>1 DEF NextCourse
<1>5. step' # "text"
      BY DEF NextCourse
<1> QED BY <1>1, <1>2, <1>3, <1>4, <1>5 DEF Carried

LEMMA NextResourceCarried ==
    ASSUME step \in ResourceSteps, NextResource(Noted(Null, FALSE), {"raw"})
    PROVE  Carried /\ step' # "text"
PROOF
<1>1. step \in SemesterSteps /\ step \in CourseSteps
      BY LabelsDiffer
<1>2. job'.run = job.run /\ job'.upload = job.upload /\ job'.records = job.records
      BY DEF NextResource, KeepsAllBut, Agree, Fields
<1>3. \A x \in job'.records : Known(x)
      BY <1>2 DEF Known
<1> DEFINE y == Noted(Null, FALSE)
<1>4. y.sum = Null /\ ~y.text
      BY DEF Noted
<1>5. job'.mine = job.mine \cup {y}
      BY DEF NextResource
<1> HIDE DEF y
<1>6. \A x \in job'.mine : Known(x) \/ (x.sum = Null /\ ~x.text)
      BY <1>1, <1>4, <1>5 DEF Known
<1>7. step' # "text"
      BY DEF NextResource
<1> QED BY <1>1, <1>2, <1>3, <1>6, <1>7 DEF Carried

LEMMA StaysCarried ==
    ASSUME step \in SemesterSteps, NEW F, F \cap {"run", "upload", "records", "mine"} = {}, KeepsAllBut(F),
           step' \in CourseSteps => step \in CourseSteps
    PROVE  Carried
PROOF
<1>1. job'.run = job.run /\ job'.upload = job.upload /\ job'.records = job.records /\ job'.mine = job.mine
      BY DEF KeepsAllBut, Agree, Fields
<1> QED BY <1>1 DEF Carried, Known

LEMMA CarriedReady ==
    ASSUME Heard, Ready, Carried,
           job.upload => \A x, n : Known(x) /\ n = job.run /\ Matches(x, n) => Matches(x, n)',
           step' = "text" /\ job.upload =>
               /\ RawPath(job'.r) \in DOMAIN drive'
               /\ drive'[RawPath(job'.r)].version = job'.raw[job'.r] \/ RawPath(job'.r) \in unconfirmed'
    PROVE  Ready'
PROOF
<1>1. ASSUME step' \in CourseSteps, NEW x \in job'.mine, NEW n PROVE Known(x) \/ Matches(x, n)'
      BY <1>1 DEF Carried, Matches
<1> QED BY <1>1, ReadyNext DEF Carried

LEMMA QuietRecords ==
    ASSUME Placed, Placed', Move, Remembered, Heard, Indexed, Ready, Quiet, Carried, step' # "text"
    PROVE  Indexed' /\ Ready'
PROOF
<1>1. ASSUME NEW x, Known(x), NEW n, Matches(x, n) PROVE Matches(x, n)'
  <2>1. x.of \in Resources
      BY <1>1, KnownIs DEF Carried
  <2> QED BY <1>1, <2>1, QuietMatches
<1>2. Ready'
      BY <1>1, CarriedReady
<1> QED BY <1>2, QuietIndexed

LEMMA OutsideReady ==
    ASSUME step' \notin SemesterSteps
    PROVE  Ready'
PROOF BY LabelsDiffer DEF Ready, CourseSteps, ResourceSteps, SemesterSteps

LEMMA FreshReady ==
    ASSUME step' \in {"course", "calendar"}, job'.records = {}, step' = "course" => job'.mine = {}
    PROVE  Ready'
PROOF
<1>1. "calendar" \notin CourseSteps
      BY DEF CourseSteps, ResourceSteps
<1> QED BY <1>1 DEF Ready

LEMMA SameDriveIsQuiet == ASSUME drive' = drive PROVE Quiet
PROOF BY DEF Quiet, Kept

(* A file whose path is no index and nothing that one links to.            *)
LEMMA OtherFileIsQuiet ==
    ASSUME NEW p, p \notin Linked, \A q : q # p => Kept(q)
    PROVE  Quiet
PROOF BY DEF Quiet

-----------------------------------------------------------------------------
(* Export: the steps of a course.                                          *)

(* The current folder of a course, told by the command or by the resource. *)
LEMMA CurrentPathsAre ==
    ASSUME Placed, step \in CourseSteps
    PROVE  /\ job.s \in Semesters /\ job.c \in Courses /\ SemesterOf[job.c] = job.s /\ job.run \in Nat
           /\ job.upload \in BOOLEAN /\ DOMAIN job = Fields
           /\ \A r \in ResourcesOf(job.c) :
                /\ r \in Resources /\ CourseOf[r] = job.c
                /\ InCurrent(job.s, <<job.c, "raw", r>>) = RawPath(r)
                /\ InCurrent(job.s, <<job.c, "text", TitleOf[r]>>) = TextPath(r)
PROOF
<1>1. step \in SemesterSteps /\ step # "idle"
      BY LabelsDiffer
<1>2. job.s \in Semesters /\ job.run \in Nat /\ job.upload \in BOOLEAN /\ DOMAIN job = Fields /\ job.c \in CoursesOf(job.s)
      BY <1>1 DEF Placed, AtSemester, AtQueue, AtCourse
<1>3. job.c \in Courses /\ SemesterOf[job.c] = job.s
      BY <1>2 DEF CoursesOf
<1>4. \A r \in ResourcesOf(job.c) : r \in Resources /\ CourseOf[r] = job.c
      BY DEF ResourcesOf
<1> QED BY <1>2, <1>3, <1>4 DEF RawPath, TextPath

LEMMA RawToCurrentRecords ==
    ASSUME Placed, Placed', Move, Remembered, Heard, Indexed, Ready, NEW ok \in BOOLEAN, UploadRawToCurrent(ok)
    PROVE  Indexed' /\ Ready'
PROOF
<1>1. step = "raw current" /\ step \in ResourceSteps /\ step \in CourseSteps /\ step \in SemesterSteps
      BY LabelsDiffer DEF UploadRawToCurrent, ResourceSteps
<1>2. /\ DOMAIN job = Fields /\ job.upload \in BOOLEAN /\ job.r \in ResourcesOf(job.c) /\ job.c \in Courses
      /\ job.r \in Resources /\ CourseOf[job.r] = job.c /\ InCurrent(job.s, <<job.c, "raw", job.r>>) = RawPath(job.r)
      BY <1>1, CurrentPathsAre DEF Placed, AtResource
<1>3. PICK r, run, v : r = job.r /\ run = job.run /\ v = job.raw[job.r]
      OBVIOUS
<1> DEFINE p == RawPath(r)
           content == [run |-> run, version |-> v]
<1>4. Send(<<Over(p, content)>>, ok)
      BY <1>2, <1>3 DEF UploadRawToCurrent, RawCurrent
<1>5. /\ ok \/ job.upload
      /\ \A q : q # p => Kept(q)
      /\ Kept(p) \/ Arrived(p, content)
      /\ job.upload /\ ok => Arrived(p, content) \/ Doubtful(p)
  <2> HIDE DEF p, content
  <2> QED BY <1>2, <1>4, SendOverIs
<1>6. Only(p, content)
      BY <1>5 DEF Only
<1>7. content.version = v
      OBVIOUS
<1>8. r \in Resources
      BY <1>2, <1>3
<1>9. \A x, n : x.of \in Resources /\ Matches(x, n) /\ (x.of = r => n < run) => Matches(x, n)'
      BY <1>6, <1>8, RawMatches
<1>10. Indexed'
  <2>1. \A q \in IndexPaths : Kept(q)
      BY <1>5, <1>8, LinkedDiffer
  <2>2. ASSUME NEW x, NEW n \in Nat, x.of \in Resources, Matches(x, n), Before(n, CourseOf[x.of]) PROVE Matches(x, n)'
    <3>1. ASSUME x.of = r PROVE n < run
      <4>1. Ahead(job.c)
          BY <1>1 DEF Ahead
      <4>2. CourseOf[x.of] = job.c
          BY <1>2, <1>3, <3>1
      <4> QED BY <1>3, <2>2, <4>1, <4>2 DEF Before
    <3> QED BY <1>9, <2>2, <3>1
  <2> QED BY <2>1, <2>2, IndexedKept
<1>11. \A x, n : Known(x) /\ n = job.run /\ Matches(x, n) => Matches(x, n)'
  <2> SUFFICES ASSUME NEW x, NEW n, Known(x), Matches(x, n) PROVE Matches(x, n)'
      OBVIOUS
  <2>1. x.of \in Resources /\ x.of # r
      BY <1>1, <1>3, KnownIs
  <2> QED BY <1>9, <2>1
<1>12. CASE MovesTo("text", {})
  <2>1. /\ KeepsAllBut({}) /\ step' = "text" /\ job'.r = r /\ job'.upload = job.upload
        /\ job'.raw = job.raw
      BY <1>3, <1>12 DEF MovesTo, KeepsAllBut, Agree, Fields
  <2>2. Carried
      BY <1>1, <2>1, StaysCarried
  <2>3. ASSUME job.upload PROVE p \in DOMAIN drive' /\ (drive'[p].version = v \/ p \in unconfirmed')
    <3>1. ok
        BY <1>12, <2>1 DEF UploadRawToCurrent, RecordFailure, Recorded, EnterResource, Goto
    <3> HIDE DEF content, p
    <3>2. CASE Arrived(p, content)
        BY <1>7, <3>2 DEF Arrived
    <3>3. CASE Doubtful(p)
        BY <1>5, <3>3 DEF Arrived, Kept, Doubtful
    <3> QED BY <1>5, <2>3, <3>1, <3>2, <3>3
  <2>4. job'.raw[job'.r] = v
      BY <1>3, <2>1
  <2>5. job.upload => /\ RawPath(job'.r) \in DOMAIN drive'
                      /\ drive'[RawPath(job'.r)].version = job'.raw[job'.r] \/ RawPath(job'.r) \in unconfirmed'
      BY <2>1, <2>3, <2>4
  <2>6. Ready'
      BY <1>11, <2>2, <2>5, CarriedReady
  <2> QED BY <1>10, <2>6
<1>13. CASE NextResource(Noted(Null, FALSE), {"raw"})
  <2>1. Carried /\ step' # "text"
      BY <1>1, <1>13, NextResourceCarried
  <2>2. Ready'
      BY <1>11, <2>1, CarriedReady
  <2> QED BY <1>10, <2>2
<1> QED BY <1>2, <1>12, <1>13, UploadRawToCurrentIs

LEMMA TextRecords ==
    ASSUME Placed, Placed', Move, Remembered, Heard, Indexed, Ready, NEW ok \in BOOLEAN, UploadText(ok)
    PROVE  Indexed' /\ Ready'
PROOF
<1>1. step = "text" /\ step \in ResourceSteps /\ step \in CourseSteps /\ step \in SemesterSteps
      BY LabelsDiffer DEF UploadText, ResourceSteps
<1>2. /\ DOMAIN job = Fields /\ job.upload \in BOOLEAN /\ job.r \in ResourcesOf(job.c) /\ job.c \in Courses
      /\ job.r \in Resources /\ CourseOf[job.r] = job.c
      /\ InCurrent(job.s, <<job.c, "text", TitleOf[job.r]>>) = TextPath(job.r)
      /\ job.textOf \subseteq ResourcesOf(job.c) /\ TextsOf(job.c, job.textOf, texts[job.c])
      BY <1>1, CurrentPathsAre DEF Placed, AtResource
<1>3. PICK r, run, of, sum :
          r = job.r /\ run = job.run /\ of = texts[job.c][TitleOf[job.r]].of /\ sum = job.raw[job.r]
      OBVIOUS
<1> DEFINE p == TextPath(r)
           content == [run |-> run, of |-> of]
<1>4. PICK text \in BOOLEAN :
          /\ NextResource(Noted(job.raw[job.r], text), {"raw"}) /\ job'.raw = job.raw
          /\ text => ok /\ job.r \in job.textOf
      BY <1>2, UploadTextIs
<1>5. PICK y : y = [of |-> r, sum |-> sum, text |-> text]
      OBVIOUS
<1>6. y.of = r /\ y.sum = sum /\ y.text = text /\ Noted(job.raw[job.r], text) = y
      BY <1>3, <1>5 DEF Noted
<1>7. /\ \A q : q # p => Kept(q)
      /\ Kept(p) \/ Arrived(p, content)
      /\ job.upload /\ text => Arrived(p, content) \/ Doubtful(p)
  <2>1. CASE job.r \in job.textOf
    <3>1. Send(<<Over(p, content)>>, ok)
        BY <1>2, <1>3, <2>1 DEF UploadText
    <3> HIDE DEF p, content
    <3>2. /\ \A q : q # p => Kept(q)
          /\ Kept(p) \/ Arrived(p, content)
          /\ job.upload /\ ok => Arrived(p, content) \/ Doubtful(p)
        BY <1>2, <3>1, SendOverIs
    <3> QED BY <1>4, <3>2
  <2>2. CASE job.r \notin job.textOf
    <3>1. drive' = drive
        BY <2>2 DEF UploadText
    <3> QED BY <1>4, <2>2, <3>1 DEF Kept
  <2> QED BY <2>1, <2>2
<1>8. Only(p, content)
      BY <1>7 DEF Only
<1>9. content.of = of
      OBVIOUS
<1>10. r \in Resources
      BY <1>2, <1>3
<1>11. \A x, n : x.of \in Resources /\ Matches(x, n) /\ (x.of = r => n < run) => Matches(x, n)'
      BY <1>8, <1>10, TextMatches
<1>12. Indexed'
  <2>1. \A q \in IndexPaths : Kept(q)
      BY <1>7, <1>10, LinkedDiffer
  <2>2. ASSUME NEW x, NEW n \in Nat, x.of \in Resources, Matches(x, n), Before(n, CourseOf[x.of]) PROVE Matches(x, n)'
    <3>1. ASSUME x.of = r PROVE n < run
      <4>1. Ahead(job.c)
          BY <1>1 DEF Ahead
      <4>2. CourseOf[x.of] = job.c
          BY <1>2, <1>3, <3>1
      <4> QED BY <1>3, <2>2, <4>1, <4>2 DEF Before
    <3> QED BY <1>11, <2>2, <3>1
  <2> QED BY <2>1, <2>2, IndexedKept
<1>13. \A x, n : Known(x) /\ n = job.run /\ Matches(x, n) => Matches(x, n)'
  <2> SUFFICES ASSUME NEW x, NEW n, Known(x), Matches(x, n) PROVE Matches(x, n)'
      OBVIOUS
  <2>1. x.of \in Resources /\ x.of # r
      BY <1>1, <1>3, KnownIs
  <2> QED BY <1>11, <2>1
<1>14. ASSUME job.upload, NEW n PROVE Matches(y, n)'
  <2>1. RawPath(r) \in DOMAIN drive /\ (drive[RawPath(r)].version = sum \/ RawPath(r) \in unconfirmed)
      BY <1>1, <1>3, <1>14 DEF Ready
  <2>2. Kept(RawPath(r))
      BY <1>7, <1>10, LinkedDiffer
  <2>3. RawPath(r) \in DOMAIN drive' /\ (drive'[RawPath(r)].version = sum \/ RawPath(r) \in unconfirmed')
      BY <2>1, <2>2 DEF Kept, Remembered
  <2>4. ASSUME text PROVE of = r \/ SharesTitle(r)
    <3>1. r \in job.textOf
        BY <1>3, <1>4, <2>4
    <3>2. of \in job.textOf /\ TitleOf[of] = TitleOf[r]
        BY <1>2, <1>3, <3>1 DEF TextsOf
    <3>3. of \in Resources /\ CourseOf[of] = CourseOf[r]
        BY <1>2, <1>3, <3>2 DEF ResourcesOf
    <3> QED BY <3>2, <3>3 DEF SharesTitle
  <2>5. ASSUME text PROVE p \in DOMAIN drive' /\ (drive'[p].of = of \/ p \in unconfirmed')
    <3> HIDE DEF content, p
    <3>1. CASE Arrived(p, content)
        BY <1>9, <3>1 DEF Arrived
    <3>2. CASE Doubtful(p)
        BY <1>7, <3>2 DEF Arrived, Kept, Doubtful
    <3> QED BY <1>7, <1>14, <2>5, <3>1, <3>2
  <2> QED BY <1>6, <2>3, <2>4, <2>5 DEF Matches, SharesTitle
<1>15. Ready'
  <2>1. step' # "text" /\ job'.run = job.run /\ job'.upload = job.upload /\ job'.records = job.records
      BY <1>4 DEF NextResource, KeepsAllBut, Agree, Fields
  <2>2. job'.mine = job.mine \cup {y}
      BY <1>4, <1>6 DEF NextResource
  <2>3. \A x \in job'.records : Known(x)
      BY <2>1 DEF Known
  <2>4. ASSUME job.upload, NEW x \in job'.mine, NEW n PROVE Known(x) \/ Matches(x, n)'
      BY <1>1, <1>14, <2>2, <2>4 DEF Known
  <2> QED BY <1>1, <1>13, <2>1, <2>3, <2>4, ReadyNext
<1> QED BY <1>12, <1>15

(* What was known of a run is of this run, now that it is past the course. *)
LEMMA BeforeNow ==
    ASSUME Placed, step \in SemesterSteps, commands' = commands, step' # "idle" => job'.queue = job.queue,
           NEW c, SemesterOf[c] = job.s, ~Ahead(c)', NEW n, n = job.run
    PROVE  Before(n, c)'
PROOF
<1>1. /\ job.s \notin Range(job.queue) /\ job.run <= commands * N + N
      BY DEF Placed, AtSemester
<1> QED BY <1>1 DEF Before

LEMMA CourseDocsRecords ==
    ASSUME Placed, Placed', Move, Remembered, Heard, Indexed, Ready, NEW ok \in BOOLEAN, UploadCourseDocs(ok)
    PROVE  Indexed' /\ Ready'
PROOF
<1>1. step = "docs" /\ step \in CourseSteps /\ step \in SemesterSteps
      BY LabelsDiffer DEF UploadCourseDocs
<1>2. /\ DOMAIN job = Fields /\ job.upload \in BOOLEAN /\ job.c \in Courses /\ SemesterOf[job.c] = job.s
      /\ job.run \in Nat /\ job.c \notin Range(job.courses)
      BY <1>1, CurrentPathsAre DEF Placed, AtCourse
<1>3. PICK run, mine, p : run = job.run /\ mine = job.mine /\ p = CourseIndexPath(job.s, job.c)
      OBVIOUS
<1>4. PICK content : content = [run |-> run, records |-> mine]
      OBVIOUS
<1>5. content.run = run /\ content.records = mine
      BY <1>4
<1>6. Send(<<Over(p, content)>>, ok)
      BY <1>3, <1>4 DEF UploadCourseDocs
<1>7. /\ \A q : q # p => Kept(q)
      /\ ~job.upload => drive' = drive
      /\ Kept(p) \/ Arrived(p, content)
      BY <1>2, <1>6, SendOverIs
<1>8. p \in IndexPaths
      BY <1>2, <1>3 DEF IndexPaths
<1>9. \A r \in Resources : Kept(RawPath(r)) /\ Kept(TextPath(r))
      BY <1>7, <1>8, LinkedDiffer
<1>10. \A x, n : x.of \in Resources /\ Matches(x, n) => Matches(x, n)'
      BY <1>9, MatchesKept
<1>11. \/ ok /\ MovesTo("index", {})
       \/ ~ok /\ NextCourse({"failed"}) /\ job'.failed = TRUE
      BY <1>2, UploadCourseDocsIs
<1>12. Ready'
  <2>1. Carried /\ step' # "text"
    <3>1. CASE MovesTo("index", {})
        BY <1>1, <3>1, StaysCarried DEF MovesTo
    <3>2. CASE NextCourse({"failed"})
      <4>1. job'.records = job.records
          BY <3>2 DEF NextCourse, KeepsAllBut, Agree, Fields
      <4> QED BY <1>1, <3>2, <4>1, NextCourseCarried
    <3> QED BY <1>11, <3>1, <3>2
  <2>2. ASSUME NEW x, Known(x), NEW n, Matches(x, n) PROVE Matches(x, n)'
    <3>1. x.of \in Resources
        BY <1>1, <2>2, KnownIs
    <3> QED BY <1>10, <2>2, <3>1
  <2> QED BY <2>1, <2>2, CarriedReady
<1>13. ASSUME job.upload PROVE Entry(content)'
  <2>1. ASSUME NEW x \in mine PROVE x.of \in Resources /\ Matches(x, run)' /\ Before(run, CourseOf[x.of])'
    <3>1. x.of \in Resources /\ CourseOf[x.of] = job.c
        BY <1>1, <1>3, <2>1 DEF Heard, Sound
    <3>2. Matches(x, run)
        BY <1>1, <1>3, <1>13, <2>1 DEF Ready
    <3>3. Matches(x, run)'
        BY <1>10, <3>1, <3>2
    <3>4. PICK c : c = job.c
        OBVIOUS
    <3>5. ~Ahead(c)' /\ commands' = commands /\ job'.queue = job.queue
      <4>1. commands' = commands
          BY DEF UploadCourseDocs
      <4>2. CASE MovesTo("index", {})
        <5>1. step' = "index" /\ job'.courses = job.courses /\ job'.queue = job.queue
            BY <4>2 DEF MovesTo, KeepsAllBut, Agree, Fields
        <5> QED BY <1>2, <3>4, <4>1, <5>1 DEF Ahead
      <4>3. CASE NextCourse({"failed"})
        <5>1. job'.queue = job.queue
            BY <4>3 DEF NextCourse, KeepsAllBut, Agree, Fields
        <5>2. {"failed"} \cap {"queue", "upload", "s", "run"} = {}
            OBVIOUS
        <5>3. /\ step' \in {"course", "calendar"}
              /\ step' = "course" => Range(job.courses) = {job'.c} \cup Range(job'.courses)
            BY <1>1, <4>1, <4>3, <5>2, NextCoursePlaced
        <5>4. "calendar" \notin CourseSteps
            BY DEF CourseSteps, ResourceSteps
        <5> QED BY <1>2, <3>4, <4>1, <5>1, <5>3, <5>4 DEF Ahead
      <4> QED BY <1>11, <4>2, <4>3
    <3>6. Before(run, c)'
        BY <1>1, <1>2, <1>3, <3>4, <3>5, BeforeNow
    <3>7. CourseOf[x.of] = c
        BY <3>1, <3>4
    <3> QED BY <3>1, <3>3, <3>6, <3>7
  <2>2. run \in Nat
      BY <1>2, <1>3
  <2> QED BY <1>5, <2>1, <2>2 DEF Entry
<1>14. Indexed'
  <2> SUFFICES ASSUME NEW path \in DOMAIN drive' \cap IndexPaths PROVE Entry(drive[path])'
      BY DEF Indexed
  <2>1. CASE Kept(path)
    <3>1. path \in DOMAIN drive /\ drive'[path] = drive[path]
        BY <2>1 DEF Kept
    <3>2. PICK d : d = drive[path]
        OBVIOUS
    <3>3. Entry(d)
        BY <3>1, <3>2 DEF Indexed
    <3>4. \A x \in d.records : x.of \in Resources /\ Matches(x, d.run) => Matches(x, d.run)'
        BY <1>10
    <3>5. Entry(d)'
        BY <3>3, <3>4, EntryKept
    <3> QED BY <3>1, <3>2, <3>5
  <2>2. CASE ~Kept(path)
    <3>1. Arrived(path, content) /\ path = p
        BY <1>7, <2>2
    <3>2. job.upload
        BY <1>7, <2>2 DEF Kept
    <3>3. drive'[path] = content
        BY <3>1 DEF Arrived
    <3> QED BY <1>13, <3>2, <3>3
  <2> QED BY <2>1, <2>2
<1> QED BY <1>12, <1>14

LEMMA QuietCourseRecords ==
    ASSUME Placed, Placed', Move, Remembered, Heard, Indexed, Ready, NEW ok \in BOOLEAN,
           SnapshotCourse(ok) \/ UploadZip(ok) \/ UploadRawToRun(ok) \/ ExtractTexts \/ DownloadFails \/ WriteMaterialIndex
    PROVE  Indexed' /\ Ready'
PROOF
<1>1. step \in CourseSteps /\ step \in SemesterSteps
      BY LabelsDiffer DEF SnapshotCourse, UploadZip, UploadRawToRun, ExtractTexts, DownloadFails, WriteMaterialIndex,
         CourseSteps, ResourceSteps
<1>2. /\ DOMAIN job = Fields /\ job.upload \in BOOLEAN /\ job.c \in Courses /\ DOMAIN texts = Courses
      BY <1>1, CurrentPathsAre DEF Placed
<1>3. ASSUME NEW F, F \subseteq {"failed"}, NextCourse(F) PROVE Carried /\ step' # "text"
  <2>1. job'.records = job.records
      BY <1>3 DEF NextCourse, KeepsAllBut, Agree, Fields
  <2> QED BY <1>1, <1>3, <2>1, NextCourseCarried
<1>4. CASE SnapshotCourse(ok)
  <2>1. Quiet
      BY <1>4, SameDriveIsQuiet DEF SnapshotCourse
  <2>2. MovesTo("upload zip", {"zip"}) \/ NextCourse({"failed"})
      BY <1>2, <1>4, SnapshotCourseIs
  <2>3. Carried /\ step' # "text"
      BY <1>1, <1>3, <2>2, StaysCarried DEF MovesTo
  <2> QED BY <2>1, <2>3, QuietRecords
<1>5. CASE UploadZip(ok)
  <2> DEFINE p == InRun(job.s, job.run, <<"raw-zips", job.c>>)
             content == job.zip[job.c]
  <2>1. Send(<<File(p, content)>>, ok)
      BY <1>5 DEF UploadZip
  <2>2. p \notin Linked
      BY OthersDiffer
  <2> HIDE DEF p, content
  <2>3. Quiet
      BY <1>2, <2>1, <2>2, SendOneIs, OtherFileIsQuiet
  <2>4. MovesTo("index", {}) \/ MovesTo("texts", {}) \/ NextCourse({"failed"})
      BY <1>2, <1>5, UploadZipIs
  <2>5. Carried /\ step' # "text"
      BY <1>1, <1>3, <2>4, StaysCarried DEF MovesTo
  <2> QED BY <2>3, <2>5, QuietRecords
<1>6. CASE UploadRawToRun(ok)
  <2> DEFINE p == InRun(job.s, job.run, <<"raw-files", job.r>>)
             content == material[job.r]
  <2>1. Send(<<File(p, content)>>, ok) /\ step \in ResourceSteps
      BY <1>6 DEF UploadRawToRun, ResourceSteps
  <2>2. p \notin Linked
      BY OthersDiffer
  <2> HIDE DEF p, content
  <2>3. Quiet
      BY <1>2, <2>1, <2>2, SendOneIs, OtherFileIsQuiet
  <2>4. MovesTo("raw current", {"raw"}) \/ NextResource(Noted(Null, FALSE), {"raw"})
      BY <1>2, <1>6, UploadRawToRunIs
  <2>5. CASE MovesTo("raw current", {"raw"})
    <3>1. Carried /\ step' # "text"
        BY <1>1, <2>5, StaysCarried DEF MovesTo
    <3> QED BY <2>3, <3>1, QuietRecords
  <2>6. CASE NextResource(Noted(Null, FALSE), {"raw"})
    <3>1. Carried /\ step' # "text"
        BY <2>1, <2>6, NextResourceCarried
    <3> QED BY <2>3, <3>1, QuietRecords
  <2> QED BY <2>4, <2>5, <2>6
<1>7. CASE ExtractTexts
  <2>1. Quiet
      BY <1>7, SameDriveIsQuiet DEF ExtractTexts
  <2>2. KeepsAllBut({"textOf", "resources", "r"}) /\ step' \in {"docs", "raw run"}
      BY <1>2, <1>7, ExtractTextsIs
  <2>3. Carried /\ step' # "text"
      BY <1>1, <2>2, StaysCarried
  <2> QED BY <2>1, <2>3, QuietRecords
<1>8. CASE DownloadFails
  <2>1. Quiet /\ step \in ResourceSteps
      BY <1>8, SameDriveIsQuiet DEF DownloadFails, ResourceSteps
  <2>2. NextResource(Noted(Null, FALSE), {"raw"})
      BY <1>2, <1>8, DownloadFailsIs
  <2>3. Carried /\ step' # "text"
      BY <2>1, <2>2, NextResourceCarried
  <2> QED BY <2>1, <2>3, QuietRecords
<1>9. CASE WriteMaterialIndex
  <2>1. Quiet
      BY <1>9, SameDriveIsQuiet DEF WriteMaterialIndex
  <2>2. NextCourse({"records"}) /\ job'.records \subseteq job.records \cup job.mine
      BY <1>2, <1>9, WriteMaterialIndexIs
  <2>3. Carried /\ step' # "text"
      BY <1>1, <2>2, NextCourseCarried
  <2> QED BY <2>1, <2>3, QuietRecords
<1> QED BY <1>4, <1>5, <1>6, <1>7, <1>8, <1>9

-----------------------------------------------------------------------------
(* Export: the steps that close a semester.                                *)

LEMMA NavigationRecords ==
    ASSUME Placed, Placed', Move, Remembered, Heard, Indexed, Ready, NEW ok \in BOOLEAN, UploadNavigation(ok)
    PROVE  Indexed' /\ Ready'
PROOF
<1>1. step = "navigation" /\ step \in ClosingSteps /\ step \in SemesterSteps
      BY LabelsDiffer DEF UploadNavigation, ClosingSteps
<1>2. DOMAIN job = Fields /\ job.upload \in BOOLEAN /\ job.run \in Nat /\ job.s \in Semesters
      BY <1>1, LabelsDiffer DEF Placed, AtQueue, AtSemester
<1>3. PICK run, records : run = job.run /\ records = job.records
      OBVIOUS
<1>4. PICK content : content = [run |-> run, records |-> records]
      OBVIOUS
<1>5. content.run = run /\ content.records = records
      BY <1>4
<1>6. /\ ~job.upload => drive' = drive
      /\ \A q : \/ Kept(q) \/ q = <<"latest.yaml">>
                \/ q \in {SearchIndexPath, SemesterIndexPath(job.s)} /\ Arrived(q, content)
      BY <1>2, <1>3, <1>4, NavigationSends
<1>7. <<"latest.yaml">> \notin Linked
      BY OthersDiffer
<1>8. {SearchIndexPath, SemesterIndexPath(job.s)} \subseteq IndexPaths
      BY <1>2 DEF IndexPaths
<1>9. \A r \in Resources : Kept(RawPath(r)) /\ Kept(TextPath(r))
  <2> SUFFICES ASSUME NEW r \in Resources PROVE Kept(RawPath(r)) /\ Kept(TextPath(r))
      OBVIOUS
  <2>1. RawPath(r) \in Linked /\ TextPath(r) \in Linked
      BY DEF Linked
  <2>2. RawPath(r) \notin IndexPaths /\ TextPath(r) \notin IndexPaths
      BY LinkedDiffer
  <2> QED BY <1>6, <1>7, <1>8, <2>1, <2>2
<1>10. \A x, n : x.of \in Resources /\ Matches(x, n) => Matches(x, n)'
      BY <1>9, MatchesKept
<1>11. \/ ok /\ (MovesTo("latest", {}) \/ MovesTo("archive", {}))
       \/ ~ok /\ Stops
      BY <1>2, UploadNavigationIs
<1>12. step' \in {"latest", "archive", "idle"} /\ step' \notin CourseSteps
      BY <1>11 DEF MovesTo, Stops, CourseSteps, ResourceSteps
<1>13. Ready'
  <2>1. CASE step' = "idle"
      BY <2>1, LabelsDiffer, OutsideReady
  <2>2. CASE step' # "idle"
    <3>1. Carried
        BY <1>1, <1>11, <1>12, <2>2, StaysCarried DEF MovesTo, Stops
    <3>2. ASSUME NEW x, Known(x), NEW n, Matches(x, n) PROVE Matches(x, n)'
      <4>1. x.of \in Resources
          BY <1>1, <3>2, KnownIs
      <4> QED BY <1>10, <3>2, <4>1
    <3> QED BY <1>12, <3>1, <3>2, CarriedReady
  <2> QED BY <2>1, <2>2
<1>14. ASSUME job.upload PROVE Entry(content)'
  <2>1. ASSUME NEW x \in records PROVE x.of \in Resources /\ Matches(x, run)' /\ Before(run, CourseOf[x.of])'
    <3>1. x.of \in Resources /\ SemesterOf[CourseOf[x.of]] = job.s
        BY <1>1, <1>3, <2>1 DEF Heard, Sound
    <3>2. Matches(x, run)
        BY <1>1, <1>3, <1>14, <2>1 DEF Ready
    <3>3. Matches(x, run)'
        BY <1>10, <3>1, <3>2
    <3>4. PICK c : c = CourseOf[x.of]
        OBVIOUS
    <3>5. commands' = commands
        BY DEF UploadNavigation
    <3>6. ~Ahead(c)'
        BY <1>12 DEF Ahead
    <3>7. step' # "idle" => job'.queue = job.queue
        BY <1>11 DEF MovesTo, Stops, KeepsAllBut, Agree, Fields
    <3>8. Before(run, c)'
        BY <1>1, <1>3, <3>1, <3>4, <3>5, <3>6, <3>7, BeforeNow
    <3> QED BY <3>1, <3>3, <3>4, <3>8
  <2>2. run \in Nat
      BY <1>2, <1>3
  <2> QED BY <1>5, <2>1, <2>2 DEF Entry
<1>15. Indexed'
  <2> SUFFICES ASSUME NEW path \in DOMAIN drive' \cap IndexPaths PROVE Entry(drive[path])'
      BY DEF Indexed
  <2>1. CASE Kept(path)
    <3>1. path \in DOMAIN drive /\ drive'[path] = drive[path]
        BY <2>1 DEF Kept
    <3>2. PICK d : d = drive[path]
        OBVIOUS
    <3>3. Entry(d)
        BY <3>1, <3>2 DEF Indexed
    <3>4. \A x \in d.records : x.of \in Resources /\ Matches(x, d.run) => Matches(x, d.run)'
        BY <1>10
    <3>5. Entry(d)'
        BY <3>3, <3>4, EntryKept
    <3> QED BY <3>1, <3>2, <3>5
  <2>2. CASE ~Kept(path)
    <3>1. path \in Linked
        BY DEF Linked
    <3>2. Arrived(path, content)
        BY <1>6, <1>7, <2>2, <3>1
    <3>3. job.upload
        BY <1>6, <2>2 DEF Kept
    <3>4. drive'[path] = content
        BY <3>2 DEF Arrived
    <3> QED BY <1>14, <3>3, <3>4
  <2> QED BY <2>1, <2>2
<1> QED BY <1>13, <1>15

LEMMA QuietSemesterRecords ==
    ASSUME Placed, Placed', Move, Remembered, Heard, Indexed, Ready, NEW ok \in BOOLEAN,
           ExportCalendar(ok) \/ UploadReport(ok) \/ UploadLatest(ok) \/ WriteArchive \/ RenameArchive
    PROVE  Indexed' /\ Ready'
PROOF
<1>1. step \in ClosingSteps /\ step \in SemesterSteps
      BY LabelsDiffer DEF ExportCalendar, UploadReport, UploadLatest, WriteArchive, RenameArchive, ClosingSteps
<1>2. DOMAIN job = Fields /\ job.upload \in BOOLEAN
      BY <1>1, LabelsDiffer DEF Placed, AtQueue
<1>3. ASSUME Quiet, NEW label \in ClosingSteps, NEW F, F \subseteq {"failed"}, MovesTo(label, F)
      PROVE  Indexed' /\ Ready'
  <2>1. KeepsAllBut(F) /\ step' \notin CourseSteps /\ F \cap {"run", "upload", "records", "mine"} = {}
      BY <1>3, LabelsDiffer DEF MovesTo
  <2>2. Carried
      BY <1>1, <2>1, StaysCarried
  <2>3. step' # "text"
      BY <2>1 DEF CourseSteps, ResourceSteps
  <2> QED BY <1>3, <2>2, <2>3, QuietRecords
<1>4. ASSUME Quiet, step' \notin SemesterSteps PROVE Indexed' /\ Ready'
      BY <1>4, OutsideReady, QuietIndexed
<1>5. "report" \in ClosingSteps /\ "navigation" \in ClosingSteps /\ "rename" \in ClosingSteps /\ "latest" \in ClosingSteps
      BY DEF ClosingSteps
<1>6. Stops => step' \notin SemesterSteps
      BY LabelsDiffer DEF Stops
<1>7. CASE ExportCalendar(ok)
  <2> DEFINE p1 == InRun(job.s, job.run, <<"raw", "calendar">>)
             p2 == InCurrent(job.s, <<"calendar", "raw">>)
             p3 == InCurrent(job.s, <<"calendar", "index">>)
             p4 == <<"_search", "calendar">>
  <2>1. \A q : Kept(q) \/ q = p1 \/ q = p2 \/ q = p3 \/ q = p4
      BY <1>2, <1>7, CalendarSends
  <2>2. \A q \in Linked : q # p1 /\ q # p2 /\ q # p3 /\ q # p4
      BY OthersDiffer
  <2> HIDE DEF p1, p2, p3, p4
  <2>3. Quiet
      BY <2>1, <2>2 DEF Quiet
  <2>4. MovesTo("report", {"failed"})
      BY <1>2, <1>7, ExportCalendarIs
  <2> QED BY <1>3, <1>5, <2>3, <2>4
<1>8. CASE UploadReport(ok)
  <2> DEFINE Processed(c) == InRun(job.s, job.run, <<"processed", c>>)
             report == InRun(job.s, job.run, <<"run.yaml">>)
  <2>1. \A q : Kept(q) \/ q = report \/ \E c \in CoursesOf(job.s) : q = Processed(c)
      BY <1>2, <1>8, ReportSends
  <2>2. \A q \in Linked : q # report /\ \A c : q # Processed(c)
      BY OthersDiffer
  <2> HIDE DEF report, Processed
  <2>3. Quiet
      BY <2>1, <2>2 DEF Quiet
  <2>4. MovesTo("navigation", {}) \/ Stops
      BY <1>2, <1>8, UploadReportIs
  <2> QED BY <1>3, <1>4, <1>5, <1>6, <2>3, <2>4
<1>9. CASE UploadLatest(ok)
  <2>1. Quiet
    <3>1. CASE job.failed
        BY <1>9, <3>1, SameDriveIsQuiet DEF UploadLatest
    <3>2. CASE ~job.failed
      <4> DEFINE p == <<job.s, "latest.yaml">>
                 content == job.run
      <4>1. Send(<<Over(p, content)>>, ok)
          BY <1>9, <3>2 DEF UploadLatest
      <4>2. p \notin Linked
          BY OthersDiffer
      <4> HIDE DEF p, content
      <4> QED BY <1>2, <4>1, <4>2, SendOverIs, OtherFileIsQuiet
    <3> QED BY <3>1, <3>2
  <2>2. step' \notin SemesterSteps
      BY <1>2, <1>6, <1>9, LabelsDiffer, UploadLatestIs
  <2> QED BY <1>4, <2>1, <2>2
<1>10. CASE WriteArchive
  <2>1. Quiet
      BY <1>10, SameDriveIsQuiet DEF WriteArchive
  <2>2. MovesTo("rename", {}) \/ Stops
      BY <1>2, <1>10, WriteArchiveIs
  <2> QED BY <1>3, <1>4, <1>5, <1>6, <2>1, <2>2
<1>11. CASE RenameArchive
  <2>1. Quiet
      BY <1>11, SameDriveIsQuiet DEF RenameArchive
  <2> QED BY <1>2, <1>3, <1>5, <1>11, <2>1, RenameArchiveIs
<1> QED BY <1>7, <1>8, <1>9, <1>10, <1>11

LEMMA RecordsNext ==
    ASSUME Placed, Placed', Heard, Indexed, Ready, [ExportNext]_exportVars
    PROVE  Indexed' /\ Ready'
PROOF
<1>1. Move /\ Remembered
      BY MoveIs, RememberedNext
<1>2. ASSUME Quiet, step' \notin SemesterSteps PROVE Indexed' /\ Ready'
      BY <1>1, <1>2, OutsideReady, QuietIndexed
<1>3. ASSUME NEW asked \in Commands, StartExport(asked) PROVE Indexed' /\ Ready'
  <2>1. drive' = drive /\ step' \notin SemesterSteps
      BY <1>3, StartExportIs, LabelsDiffer DEF StartExport
  <2> QED BY <1>2, <2>1, SameDriveIsQuiet
<1>4. CASE \E ok \in BOOLEAN : Course(ok)
      BY <1>1, <1>4, QuietCourseRecords, RawToCurrentRecords, TextRecords, CourseDocsRecords DEF Course
<1>5. ASSUME NEW ok \in BOOLEAN, BeginSemester(ok) PROVE Indexed' /\ Ready'
  <2>1. Quiet
      BY <1>5, SameDriveIsQuiet DEF BeginSemester
  <2>2. CASE step' = "idle"
      BY <1>2, <2>1, <2>2, LabelsDiffer
  <2>3. CASE step' # "idle"
    <3>1. step' \in {"course", "calendar"} /\ job'.records = {} /\ (step' = "course" => job'.mine = {})
        BY <1>5, <2>3, BeginSemesterPlaced
    <3> QED BY <1>1, <2>1, <3>1, FreshReady, QuietIndexed
  <2> QED BY <2>2, <2>3
<1>6. CASE \E ok \in BOOLEAN : Semester(ok)
      BY <1>1, <1>5, <1>6, QuietSemesterRecords, NavigationRecords DEF Semester
<1>7. CASE ExtractTexts \/ DownloadFails \/ WriteMaterialIndex
      BY <1>1, <1>7, QuietCourseRecords
<1>8. CASE WriteArchive \/ RenameArchive
      BY <1>1, <1>8, QuietSemesterRecords
<1>9. CASE WriteIndex \/ Crash
  <2>1. drive' = drive
      BY <1>9 DEF WriteIndex, Crash
  <2>2. step' \notin SemesterSteps
      BY <1>9, StopsIs, LabelsDiffer DEF Stops
  <2> QED BY <1>2, <2>1, <2>2, SameDriveIsQuiet
<1>10. CASE (\E r \in Resources : Edit(r)) \/ exportVars' = exportVars
  <2>1. drive' = drive /\ unconfirmed' = unconfirmed /\ step' = step /\ job' = job
      BY <1>10 DEF Edit, exportVars
  <2> QED BY <1>1, <2>1, SameDriveIsQuiet, QuietIndexed DEF Ready, Matches
<1> QED BY <1>3, <1>4, <1>6, <1>7, <1>8, <1>9, <1>10 DEF ExportNext

(* Every record of an index on Drive describes the files it links to, or   *)
(* files that a later run has written since: a record is made after its    *)
(* files, and an index after its records.                                  *)
THEOREM RecordsDescribeFiles == ExportSpec => []RecordsMatchFiles
PROOF
<1> DEFINE I == Placed /\ Heard /\ Indexed /\ Ready
<1>1. ExportInit => I
  <2>1. ASSUME ExportInit PROVE Heard /\ Indexed /\ Ready
    <3>1. step = "idle" /\ drive = <<>>
        BY <2>1 DEF ExportInit
    <3>2. step \notin SemesterSteps /\ step \notin CourseSteps /\ step \notin ResourceSteps
        BY <3>1, LabelsDiffer
    <3> QED BY <3>1, <3>2 DEF Heard, Indexed, Ready
  <2> QED BY <2>1, PlacedInit
<1>2. I /\ [ExportNext]_exportVars => I'
      BY PlacedNext, HeardNext, RecordsNext
<1>3. I => RecordsMatchFiles
  <2> SUFFICES ASSUME Indexed, NEW path \in DOMAIN drive \cap IndexPaths, NEW x \in drive[path].records
               PROVE  Matches(x, drive[path].run)
      BY DEF RecordsMatchFiles, Matches, RawPath, TextPath
  <2> QED BY DEF Indexed, Entry
<1> QED BY <1>1, <1>2, <1>3, PTL DEF ExportSpec

-----------------------------------------------------------------------------
(* Export: what a run leaves, and what points to it.                       *)

OfRun(p, s, n) == (\E a : p = InRun(s, n, <<a>>)) \/ (\E a, b : p = InRun(s, n, <<a, b>>))
LatestPath(s) == <<s, "latest.yaml">>

(* The files of no run, and of no semester's pointer.                      *)
Floating(p) == (\A s, n : ~OfRun(p, s, n)) /\ \A s : p # LatestPath(s)

LEMMA RunPathsAre ==
    /\ \A p, s, n : OfRun(p, s, n) <=> (\E a : p = <<s, "runs", n, a>>) \/ (\E a, b : p = <<s, "runs", n, a, b>>)
    /\ \A s, n, a : OfRun(InRun(s, n, <<a>>), s, n)
    /\ \A s, n, a, b : OfRun(InRun(s, n, <<a, b>>), s, n)
PROOF
<1>1. /\ \A s, n, a : InRun(s, n, <<a>>) = <<s, "runs", n, a>>
      /\ \A s, n, a, b : InRun(s, n, <<a, b>>) = <<s, "runs", n, a, b>>
      BY PathsAre
<1>2. ASSUME NEW p, NEW s, NEW n
      PROVE  OfRun(p, s, n) <=> (\E a : p = <<s, "runs", n, a>>) \/ (\E a, b : p = <<s, "runs", n, a, b>>)
      BY <1>1 DEF OfRun
<1> QED BY <1>2 DEF OfRun

(* A file belongs to one run, and a pointer to none.                       *)
LEMMA RunsDiffer ==
    ASSUME NEW p, NEW s, NEW n, OfRun(p, s, n)
    PROVE  /\ \A t, m : OfRun(p, t, m) => t = s /\ m = n
           /\ \A t : p # LatestPath(t)
PROOF
<1> DEFINE R4(x, t, m) == \E a : x = <<t, "runs", m, a>>
           R5(x, t, m) == \E a, b : x = <<t, "runs", m, a, b>>
<1>1. ASSUME NEW a, NEW t, NEW m, R4(<<s, "runs", n, a>>, t, m) \/ R5(<<s, "runs", n, a>>, t, m)
      PROVE  t = s /\ m = n
  <2>1. \A b, d : <<s, "runs", n, a>> # <<t, "runs", m, b, d>>
      OBVIOUS
  <2>2. \A b : <<s, "runs", n, a>> = <<t, "runs", m, b>> => t = s /\ m = n
      OBVIOUS
  <2> QED BY <1>1, <2>1, <2>2
<1>2. ASSUME NEW a, NEW b, NEW t, NEW m, R4(<<s, "runs", n, a, b>>, t, m) \/ R5(<<s, "runs", n, a, b>>, t, m)
      PROVE  t = s /\ m = n
  <2>1. \A d : <<s, "runs", n, a, b>> # <<t, "runs", m, d>>
      OBVIOUS
  <2>2. \A d, e : <<s, "runs", n, a, b>> = <<t, "runs", m, d, e>> => t = s /\ m = n
      OBVIOUS
  <2> QED BY <1>2, <2>1, <2>2
<1>3. \A a, b, t : <<s, "runs", n, a>> # <<t, "latest.yaml">> /\ <<s, "runs", n, a, b>> # <<t, "latest.yaml">>
      OBVIOUS
<1>4. R4(p, s, n) \/ R5(p, s, n)
      BY RunPathsAre
<1>5. ASSUME NEW t, NEW m, OfRun(p, t, m) PROVE t = s /\ m = n
  <2>1. R4(p, t, m) \/ R5(p, t, m)
      BY <1>5, RunPathsAre
  <2>2. CASE R4(p, s, n)
    <3>1. PICK a : p = <<s, "runs", n, a>>
        BY <2>2
    <3> HIDE DEF R4, R5
    <3> QED BY <1>1, <2>1, <3>1
  <2>3. CASE R5(p, s, n)
    <3>1. PICK a, b : p = <<s, "runs", n, a, b>>
        BY <2>3
    <3> HIDE DEF R4, R5
    <3> QED BY <1>2, <2>1, <3>1
  <2> QED BY <1>4, <2>2, <2>3
<1>6. \A t : p # LatestPath(t)
      BY <1>3, <1>4 DEF LatestPath
<1> QED BY <1>5, <1>6

(* Indexes, files in the current folders, and what else floats.            *)
LEMMA OthersFloat ==
    /\ \A s, x, y, z : Floating(InCurrent(s, <<x>>)) /\ Floating(InCurrent(s, <<x, y>>)) /\ Floating(InCurrent(s, <<x, y, z>>))
    /\ Floating(SearchIndexPath) /\ Floating(<<"_search", "calendar">>) /\ Floating(<<"latest.yaml">>)
PROOF
<1> DEFINE Free(q) ==
               /\ \A s, n, a : q # <<s, "runs", n, a>>
               /\ \A s, n, a, b : q # <<s, "runs", n, a, b>>
               /\ \A s : q # <<s, "latest.yaml">>
<1>1. ASSUME NEW s, NEW x PROVE Free(<<s, "current", x>>)
      OBVIOUS
<1>2. ASSUME NEW s, NEW x, NEW y PROVE Free(<<s, "current", x, y>>)
      OBVIOUS
<1>3. ASSUME NEW s, NEW x, NEW y, NEW z PROVE Free(<<s, "current", x, y, z>>)
      OBVIOUS
<1>4. Free(<<"_search", "query">>) /\ Free(<<"_search", "calendar">>) /\ Free(<<"latest.yaml">>)
      OBVIOUS
<1>5. \A q : Free(q) => Floating(q)
      BY RunPathsAre DEF Floating, LatestPath
<1> HIDE DEF Free
<1>6. /\ \A s, a : InCurrent(s, <<a>>) = <<s, "current", a>>
      /\ \A s, a, b : InCurrent(s, <<a, b>>) = <<s, "current", a, b>>
      /\ \A s, a, b, c : InCurrent(s, <<a, b, c>>) = <<s, "current", a, b, c>>
      BY PathsAre
<1>7. ASSUME NEW s, NEW x, NEW y, NEW z
      PROVE  Floating(InCurrent(s, <<x>>)) /\ Floating(InCurrent(s, <<x, y>>)) /\ Floating(InCurrent(s, <<x, y, z>>))
      BY <1>1, <1>2, <1>3, <1>5, <1>6
<1> QED BY <1>4, <1>5, <1>7 DEF SearchIndexPath

Grows == DOMAIN drive \subseteq DOMAIN drive'

Touches(p) ==
    \/ Floating(p)
    \/ step \in SemesterSteps /\ OfRun(p, job.s, job.run)
    \/ step = "latest" /\ ~job.failed /\ p = LatestPath(job.s)

Footprint == Grows /\ \A p : Kept(p) \/ Touches(p)

LEMMA SendGrows ==
    ASSUME NEW files, NEW ok, Send(files, ok)
    PROVE  Grows
PROOF
<1>1. PICK n \in 0..Len(files) : \E lost : drive' = IF job.upload THEN Uploaded(SubSeq(files, 1, n), lost) ELSE drive
      BY DEF Send
<1>2. PICK lost : drive' = IF job.upload THEN Uploaded(SubSeq(files, 1, n), lost) ELSE drive
      BY <1>1
<1> DEFINE q == SubSeq(files, 1, n)
<1> HIDE DEF q
<1>3. DOMAIN drive \subseteq DOMAIN Uploaded(q, lost)
      BY DEF Uploaded
<1> QED BY <1>2, <1>3 DEF Grows, q

LEMMA SameDriveFootprint == ASSUME drive' = drive PROVE Footprint
PROOF BY DEF Footprint, Grows, Kept

LEMMA SendOneFootprint ==
    ASSUME NEW p, NEW content, NEW ok \in BOOLEAN, job.upload \in BOOLEAN, Touches(p),
           Send(<<File(p, content)>>, ok) \/ Send(<<Over(p, content)>>, ok)
    PROVE  Footprint
PROOF
<1>1. \A q : q # p => Kept(q)
      BY SendOneIs, SendOverIs
<1>2. Grows
      BY SendGrows
<1> QED BY <1>1, <1>2 DEF Footprint

LEMMA CourseFootprint ==
    ASSUME Placed, NEW ok \in BOOLEAN, Course(ok)
    PROVE  Footprint
PROOF
<1>1. step \in CourseSteps /\ step \in SemesterSteps
      BY LabelsDiffer DEF Course, SnapshotCourse, UploadZip, UploadRawToRun, UploadRawToCurrent, UploadText, UploadCourseDocs,
             CourseSteps, ResourceSteps
<1>2. job.upload \in BOOLEAN
      BY <1>1, CurrentPathsAre
<1>3. ASSUME NEW p, NEW content, Floating(p) \/ OfRun(p, job.s, job.run),
             Send(<<File(p, content)>>, ok) \/ Send(<<Over(p, content)>>, ok)
      PROVE  Footprint
      BY <1>1, <1>2, <1>3, SendOneFootprint DEF Touches
<1>4. CASE SnapshotCourse(ok)
      BY <1>4, SameDriveFootprint DEF SnapshotCourse
<1>5. CASE UploadZip(ok)
  <2> DEFINE p == InRun(job.s, job.run, <<"raw-zips", job.c>>)
             content == job.zip[job.c]
  <2>1. Send(<<File(p, content)>>, ok)
      BY <1>5 DEF UploadZip
  <2>2. OfRun(p, job.s, job.run)
      BY RunPathsAre
  <2> HIDE DEF p, content
  <2> QED BY <1>3, <2>1, <2>2
<1>6. CASE UploadRawToRun(ok)
  <2> DEFINE p == InRun(job.s, job.run, <<"raw-files", job.r>>)
             content == material[job.r]
  <2>1. Send(<<File(p, content)>>, ok)
      BY <1>6 DEF UploadRawToRun
  <2>2. OfRun(p, job.s, job.run)
      BY RunPathsAre
  <2> HIDE DEF p, content
  <2> QED BY <1>3, <2>1, <2>2
<1>7. CASE UploadRawToCurrent(ok)
  <2> DEFINE p == InCurrent(job.s, <<job.c, "raw", job.r>>)
             content == [run |-> job.run, version |-> job.raw[job.r]]
  <2>1. Send(<<Over(p, content)>>, ok)
      BY <1>7 DEF UploadRawToCurrent, RawCurrent
  <2>2. Floating(p)
      BY OthersFloat
  <2> HIDE DEF p, content
  <2> QED BY <1>3, <2>1, <2>2
<1>8. CASE UploadText(ok)
  <2>1. CASE job.r \in job.textOf
    <3> DEFINE p == InCurrent(job.s, <<job.c, "text", TitleOf[job.r]>>)
               content == [run |-> job.run, of |-> texts[job.c][TitleOf[job.r]].of]
    <3>1. Send(<<Over(p, content)>>, ok)
        BY <1>8, <2>1 DEF UploadText
    <3>2. Floating(p)
        BY OthersFloat
    <3> HIDE DEF p, content
    <3> QED BY <1>3, <3>1, <3>2
  <2>2. CASE job.r \notin job.textOf
      BY <1>8, <2>2, SameDriveFootprint DEF UploadText
  <2> QED BY <2>1, <2>2
<1>9. CASE UploadCourseDocs(ok)
  <2> DEFINE p == CourseIndexPath(job.s, job.c)
             content == [run |-> job.run, records |-> job.mine]
  <2>1. Send(<<Over(p, content)>>, ok)
      BY <1>9 DEF UploadCourseDocs
  <2>2. Floating(p)
      BY OthersFloat DEF CourseIndexPath
  <2> HIDE DEF p, content
  <2> QED BY <1>3, <2>1, <2>2
<1> QED BY <1>4, <1>5, <1>6, <1>7, <1>8, <1>9 DEF Course

LEMMA SemesterFootprint ==
    ASSUME Placed, NEW ok \in BOOLEAN, Semester(ok)
    PROVE  Footprint
PROOF
<1>1. ASSUME step \in SemesterSteps PROVE job.upload \in BOOLEAN
      BY <1>1, LabelsDiffer DEF Placed, AtQueue
<1>2. CASE BeginSemester(ok)
      BY <1>2, SameDriveFootprint DEF BeginSemester
<1>3. CASE ExportCalendar(ok)
  <2>1. step \in SemesterSteps
      BY <1>3, LabelsDiffer DEF ExportCalendar, ClosingSteps
  <2>2. Grows
      BY <1>3, SendGrows DEF ExportCalendar, Grows
  <2> DEFINE p1 == InRun(job.s, job.run, <<"raw", "calendar">>)
             p2 == InCurrent(job.s, <<"calendar", "raw">>)
             p3 == InCurrent(job.s, <<"calendar", "index">>)
             p4 == <<"_search", "calendar">>
  <2>3. \A q : Kept(q) \/ q = p1 \/ q = p2 \/ q = p3 \/ q = p4
      BY <1>1, <1>3, <2>1, CalendarSends
  <2>4. OfRun(p1, job.s, job.run) /\ Floating(p2) /\ Floating(p3) /\ Floating(p4)
      BY RunPathsAre, OthersFloat
  <2> HIDE DEF p1, p2, p3, p4
  <2> QED BY <2>1, <2>2, <2>3, <2>4 DEF Footprint, Touches
<1>4. CASE UploadReport(ok)
  <2>1. step \in SemesterSteps
      BY <1>4, LabelsDiffer DEF UploadReport, ClosingSteps
  <2>2. Grows
      BY <1>4, SendGrows DEF UploadReport
  <2> DEFINE Processed(c) == InRun(job.s, job.run, <<"processed", c>>)
             report == InRun(job.s, job.run, <<"run.yaml">>)
  <2>3. \A q : Kept(q) \/ q = report \/ \E c \in CoursesOf(job.s) : q = Processed(c)
      BY <1>1, <1>4, <2>1, ReportSends
  <2>4. OfRun(report, job.s, job.run) /\ \A c : OfRun(Processed(c), job.s, job.run)
      BY RunPathsAre
  <2> HIDE DEF report, Processed
  <2> QED BY <2>1, <2>2, <2>3, <2>4 DEF Footprint, Touches
<1>5. CASE UploadNavigation(ok)
  <2>1. step \in SemesterSteps
      BY <1>5, LabelsDiffer DEF UploadNavigation, ClosingSteps
  <2>2. Grows
      BY <1>5, SendGrows DEF UploadNavigation
  <2>3. \A q : Kept(q) \/ q = <<"latest.yaml">> \/ q \in {SearchIndexPath, SemesterIndexPath(job.s)}
      BY <1>1, <1>5, <2>1, NavigationSends
  <2>4. Floating(<<"latest.yaml">>) /\ Floating(SearchIndexPath) /\ Floating(SemesterIndexPath(job.s))
      BY OthersFloat DEF SemesterIndexPath
  <2> QED BY <2>2, <2>3, <2>4 DEF Footprint, Touches
<1>6. CASE UploadLatest(ok)
  <2>1. step \in SemesterSteps /\ step = "latest"
      BY <1>6, LabelsDiffer DEF UploadLatest, ClosingSteps
  <2>2. CASE job.failed
      BY <1>6, <2>2, SameDriveFootprint DEF UploadLatest
  <2>3. CASE ~job.failed
    <3> DEFINE p == LatestPath(job.s)
               content == job.run
    <3>1. Send(<<Over(p, content)>>, ok)
        BY <1>6, <2>3 DEF UploadLatest, LatestPath
    <3>2. Touches(p)
        BY <2>1, <2>3 DEF Touches
    <3> HIDE DEF p, content
    <3> QED BY <1>1, <2>1, <3>1, <3>2, SendOneFootprint
  <2> QED BY <2>2, <2>3
<1> QED BY <1>2, <1>3, <1>4, <1>5, <1>6 DEF Semester

LEMMA FootprintIs ==
    ASSUME Placed, [ExportNext]_exportVars
    PROVE  Footprint
PROOF
<1>1. CASE \E ok \in BOOLEAN : Course(ok) \/ Semester(ok)
      BY <1>1, CourseFootprint, SemesterFootprint
<1>2. CASE ~\E ok \in BOOLEAN : Course(ok) \/ Semester(ok)
  <2>1. drive' = drive
      BY <1>2 DEF ExportNext, StartExport, ExtractTexts, DownloadFails, WriteMaterialIndex, WriteArchive, RenameArchive,
         WriteIndex, Crash, Edit, exportVars
  <2> QED BY <2>1, SameDriveFootprint
<1> QED BY <1>1, <1>2

-----------------------------------------------------------------------------
(* Export: how far the run at work has come.                               *)

ReportPath(s, n) == InRun(s, n, <<"run.yaml">>)
CalendarPath(s, n) == InRun(s, n, <<"raw", "calendar">>)
ZipPath(s, n, c) == InRun(s, n, <<"raw-zips", c>>)
ProcessedPath(s, n, c) == InRun(s, n, <<"processed", c>>)

Pending(c) == step \in CourseSteps /\ (c = job.c \/ c \in Range(job.courses))
Holding == step \in SemesterSteps /\ job.upload /\ ~job.failed
ZipSteps == CourseSteps \ {"course", "upload zip"}

Zipped ==
    Holding =>
        /\ \A c \in CoursesOf(job.s) :
             ~Pending(c) => ZipPath(job.s, job.run, c) \in DOMAIN drive /\ courseIndex[c] = job.run
        /\ step \in ZipSteps => ZipPath(job.s, job.run, job.c) \in DOMAIN drive

Covered(s, n) == OnDrive(ReportPath(s, n), TRUE) /\ \A c \in CoursesOf(s) : OnDrive(ProcessedPath(s, n, c), n)

Closed ==
    Holding =>
        /\ step \in ClosingSteps \ {"calendar"} => OnDrive(CalendarPath(job.s, job.run), job.run)
        /\ step \in ClosingSteps \ {"calendar", "report"} => Covered(job.s, job.run)

LEMMA OutsideProgress ==
    ASSUME ~(step' \in SemesterSteps /\ job'.upload /\ ~job'.failed)
    PROVE  Zipped' /\ Closed'
PROOF BY DEF Zipped, Closed, Holding

LEMMA WithinCourse ==
    ASSUME Zipped, Grows, step \in CourseSteps, step' \in CourseSteps, courseIndex' = courseIndex,
           Agree(job, job', {"upload", "s", "run", "c", "courses", "failed"}),
           step' \in ZipSteps /\ job.upload => step \in ZipSteps \/ ZipPath(job.s, job.run, job.c) \in DOMAIN drive'
    PROVE  Zipped' /\ Closed'
PROOF
<1>1. /\ job'.upload = job.upload /\ job'.s = job.s /\ job'.run = job.run /\ job'.c = job.c
      /\ job'.courses = job.courses /\ job'.failed = job.failed
      BY DEF Agree
<1>2. step' \notin ClosingSteps /\ step \in SemesterSteps
      BY LabelsDiffer
<1>3. Closed'
      BY <1>2 DEF Closed
<1>4. Holding' <=> Holding
      BY <1>1, <1>2, LabelsDiffer DEF Holding
<1>5. \A c : Pending(c)' <=> Pending(c)
      BY <1>1 DEF Pending
<1>6. \A c : ZipPath(job.s, job.run, c)' = ZipPath(job.s, job.run, c)
      BY <1>1
<1>7. ASSUME Holding PROVE \A c \in CoursesOf(job.s) :
             ~Pending(c) => ZipPath(job.s, job.run, c) \in DOMAIN drive' /\ courseIndex'[c] = job.run
      BY <1>7 DEF Zipped, Grows
<1>8. ASSUME Holding, step' \in ZipSteps PROVE ZipPath(job.s, job.run, job.c) \in DOMAIN drive'
      BY <1>8 DEF Zipped, Grows, Holding
<1>9. Zipped'
      BY <1>1, <1>4, <1>5, <1>7, <1>8 DEF Zipped
<1> QED BY <1>3, <1>9

LEMMA CourseProgress ==
    ASSUME Placed, Zipped, Closed, NEW ok \in BOOLEAN, Course(ok) \/ ExtractTexts \/ DownloadFails
    PROVE  Zipped' /\ Closed'
PROOF
<1>1. step \in CourseSteps /\ courseIndex' = courseIndex
      BY DEF Course, SnapshotCourse, UploadZip, UploadRawToRun, UploadRawToCurrent, UploadText, UploadCourseDocs,
             ExtractTexts, DownloadFails, CourseSteps, ResourceSteps, workspace
<1>2. DOMAIN job = Fields /\ job.upload \in BOOLEAN /\ job.c \in Courses /\ DOMAIN texts = Courses
      BY <1>1, CurrentPathsAre DEF Placed
<1>3. Grows
  <2>1. CASE Course(ok)
      BY <2>1, CourseFootprint DEF Footprint
  <2>2. CASE ~Course(ok)
      BY <2>2 DEF Grows, ExtractTexts, DownloadFails
  <2> QED BY <2>1, <2>2
<1>4. CASE NextCourse({"failed"}) /\ job'.failed = TRUE
      BY <1>4, OutsideProgress
<1>5. ASSUME NEW F, F \subseteq {"zip", "raw", "textOf", "resources", "r", "mine"}, KeepsAllBut(F), step' \in CourseSteps,
             step' \in ZipSteps /\ job.upload => step \in ZipSteps \/ ZipPath(job.s, job.run, job.c) \in DOMAIN drive'
      PROVE  Zipped' /\ Closed'
  <2>1. Agree(job, job', {"upload", "s", "run", "c", "courses", "failed"})
      BY <1>5 DEF KeepsAllBut, Agree, Fields
  <2> QED BY <1>1, <1>3, <1>5, <2>1, WithinCourse
<1>6. ASSUME step \in ResourceSteps, NEW x, NextResource(x, {"raw"}) PROVE Zipped' /\ Closed'
  <2> DEFINE F == {"r", "resources", "mine"} \cup {"raw"}
  <2>1. KeepsAllBut(F) /\ step' \in CourseSteps
      BY <1>6 DEF NextResource, CourseSteps, ResourceSteps
  <2>2. F \subseteq {"zip", "raw", "textOf", "resources", "r", "mine"}
      OBVIOUS
  <2>3. step \in ZipSteps
      BY <1>6 DEF ZipSteps, CourseSteps, ResourceSteps
  <2> HIDE DEF F
  <2> QED BY <1>5, <2>1, <2>2, <2>3
<1>7. CASE SnapshotCourse(ok)
  <2>1. CASE MovesTo("upload zip", {"zip"})
    <3>1. step' \in CourseSteps \ ZipSteps
        BY <2>1 DEF MovesTo, CourseSteps, ZipSteps
    <3> QED BY <1>5, <2>1, <3>1 DEF MovesTo
  <2> QED BY <1>2, <1>4, <1>7, <2>1, SnapshotCourseIs
<1>8. CASE UploadZip(ok)
  <2>1. CASE ok
    <3>1. MovesTo("index", {}) \/ MovesTo("texts", {})
        BY <1>2, <1>8, <2>1, UploadZipIs
    <3> DEFINE p == ZipPath(job.s, job.run, job.c)
               content == job.zip[job.c]
    <3>2. Send(<<File(p, content)>>, ok)
        BY <1>8 DEF UploadZip, ZipPath
    <3> HIDE DEF p, content
    <3>3. job.upload => p \in DOMAIN drive'
        BY <1>2, <2>1, <3>2, SendOneIs DEF Arrived
    <3>4. KeepsAllBut({}) /\ step' \in CourseSteps
        BY <3>1 DEF MovesTo, CourseSteps
    <3> QED BY <1>5, <3>3, <3>4 DEF p
  <2>2. CASE ~ok
      BY <1>2, <1>4, <1>8, <2>2, UploadZipIs
  <2> QED BY <2>1, <2>2
<1>9. CASE UploadRawToRun(ok)
  <2>1. step \in ResourceSteps /\ step \in ZipSteps
      BY <1>9 DEF UploadRawToRun, ResourceSteps, ZipSteps, CourseSteps
  <2>2. CASE MovesTo("raw current", {"raw"})
    <3>1. step' \in CourseSteps
        BY <2>2 DEF MovesTo, CourseSteps, ResourceSteps
    <3> QED BY <1>5, <2>1, <2>2, <3>1 DEF MovesTo
  <2> QED BY <1>2, <1>6, <1>9, <2>1, <2>2, UploadRawToRunIs
<1>10. CASE UploadRawToCurrent(ok)
  <2>1. step \in ResourceSteps /\ step \in ZipSteps
      BY <1>10 DEF UploadRawToCurrent, ResourceSteps, ZipSteps, CourseSteps
  <2>2. CASE MovesTo("text", {})
    <3>1. step' \in CourseSteps
        BY <2>2 DEF MovesTo, CourseSteps, ResourceSteps
    <3> QED BY <1>5, <2>1, <2>2, <3>1 DEF MovesTo
  <2> QED BY <1>2, <1>6, <1>10, <2>1, <2>2, UploadRawToCurrentIs
<1>11. CASE UploadText(ok)
  <2>1. step \in ResourceSteps
      BY <1>11 DEF UploadText, ResourceSteps
  <2> QED BY <1>2, <1>6, <1>11, <2>1, UploadTextIs
<1>12. CASE UploadCourseDocs(ok)
  <2>1. step \in ZipSteps
      BY <1>12 DEF UploadCourseDocs, ZipSteps, CourseSteps
  <2>2. CASE MovesTo("index", {})
    <3>1. step' \in CourseSteps
        BY <2>2 DEF MovesTo, CourseSteps
    <3> QED BY <1>5, <2>1, <2>2, <3>1 DEF MovesTo
  <2> QED BY <1>2, <1>4, <1>12, <2>2, UploadCourseDocsIs
<1>13. CASE ExtractTexts
  <2>1. step \in ZipSteps
      BY <1>13 DEF ExtractTexts, ZipSteps, CourseSteps
  <2>2. KeepsAllBut({"textOf", "resources", "r"}) /\ step' \in {"docs", "raw run"}
      BY <1>2, <1>13, ExtractTextsIs
  <2>3. step' \in CourseSteps
      BY <2>2 DEF CourseSteps, ResourceSteps
  <2> QED BY <1>5, <2>1, <2>2, <2>3
<1>14. CASE DownloadFails
  <2>1. step \in ResourceSteps
      BY <1>14 DEF DownloadFails, ResourceSteps
  <2> QED BY <1>2, <1>6, <1>14, <2>1, DownloadFailsIs
<1> QED BY <1>7, <1>8, <1>9, <1>10, <1>11, <1>12, <1>13, <1>14 DEF Course

LEMMA IndexProgress ==
    ASSUME Placed, Zipped, WriteMaterialIndex
    PROVE  Zipped' /\ Closed'
PROOF
<1>1. step = "index" /\ step \in CourseSteps /\ step \in SemesterSteps /\ step \in ZipSteps /\ drive' = drive /\ commands' = commands
      BY LabelsDiffer DEF WriteMaterialIndex, CourseSteps, ZipSteps
<1>2. DOMAIN job = Fields /\ job.c \in Courses /\ DOMAIN courseIndex = Courses /\ job.c \in CoursesOf(job.s)
      BY <1>1, CurrentPathsAre DEF Placed, AtCourse
<1>3. NextCourse({"records"})
      BY <1>2, WriteMaterialIndexIs
<1>4. {"records"} \cap {"queue", "upload", "s", "run"} = {}
      OBVIOUS
<1>5. /\ step' \in {"course", "calendar"}
      /\ step' = "course" => Range(job.courses) = {job'.c} \cup Range(job'.courses)
      BY <1>1, <1>3, <1>4, NextCoursePlaced
<1>6. job'.s = job.s /\ job'.run = job.run /\ job'.upload = job.upload /\ job'.failed = job.failed
      BY <1>3 DEF NextCourse, KeepsAllBut, Agree, Fields
<1>7. courseIndex' = [courseIndex EXCEPT ![job.c] = job.run]
      BY DEF WriteMaterialIndex
<1>8. CoursesOf(job.s) \subseteq Courses
      BY DEF CoursesOf
<1>9. step' \in SemesterSteps /\ step' \notin ClosingSteps \ {"calendar"} /\ step' \notin ZipSteps
      /\ "calendar" \notin CourseSteps
      BY <1>5, LabelsDiffer DEF ClosingSteps, CourseSteps, ResourceSteps, ZipSteps
<1>10. Closed'
      BY <1>9 DEF Closed
<1>11. ASSUME Holding, NEW c \in CoursesOf(job.s), ~Pending(c)'
       PROVE  ZipPath(job.s, job.run, c) \in DOMAIN drive' /\ courseIndex'[c] = job.run
  <2>1. CASE c = job.c
      BY <1>1, <1>2, <1>7, <1>11, <2>1 DEF Zipped
  <2>2. CASE c # job.c
    <3>3. step' = "calendar" => Range(job.courses) = {}
        BY <1>3, RangeOfEmpty DEF NextCourse
    <3>1. ~Pending(c)
        BY <1>1, <1>5, <1>11, <2>2, <3>3 DEF Pending, CourseSteps
    <3>2. ZipPath(job.s, job.run, c) \in DOMAIN drive /\ courseIndex[c] = job.run
        BY <1>11, <3>1 DEF Zipped
    <3> QED BY <1>1, <1>2, <1>7, <1>8, <2>2, <3>2
  <2> QED BY <2>1, <2>2
<1>12. Zipped'
  <2>1. Holding' => Holding
      BY <1>1, <1>6 DEF Holding
  <2> QED BY <1>6, <1>9, <1>11, <2>1 DEF Zipped
<1> QED BY <1>10, <1>12

LEMMA BeginProgress ==
    ASSUME Placed, NEW ok \in BOOLEAN, BeginSemester(ok)
    PROVE  Zipped' /\ Closed'
PROOF
<1>1. CASE step' = "idle"
      BY <1>1, LabelsDiffer, OutsideProgress
<1>2. CASE step' # "idle"
  <2>1. DOMAIN job = Fields
      BY DEF BeginSemester, Placed, AtQueue
  <2>2. job'.failed = (CoursesOf(job'.s) = {})
      BY <1>2, <2>1, BeginSemesterIs DEF Stops
  <2>3. /\ step' \in {"course", "calendar"}
        /\ step' = "course" => CoursesOf(job'.s) = {job'.c} \cup Range(job'.courses)
        /\ step' = "calendar" => CoursesOf(job'.s) = {}
      BY <1>2, BeginSemesterPlaced
  <2>4. CASE step' = "calendar"
      BY <2>2, <2>3, <2>4, OutsideProgress
  <2>5. CASE step' = "course"
    <3>1. step' \in CourseSteps /\ step' \notin ZipSteps /\ step' \notin ClosingSteps
        BY <2>5 DEF CourseSteps, ZipSteps, ClosingSteps
    <3>2. \A c \in CoursesOf(job'.s) : Pending(c)'
        BY <2>3, <2>5, <3>1 DEF Pending
    <3> QED BY <3>1, <3>2 DEF Zipped, Closed
  <2> QED BY <2>3, <2>4, <2>5
<1> QED BY <1>1, <1>2

(* After the courses, their files stay as they are.                        *)
LEMMA ClosingZipped ==
    ASSUME Zipped, Grows, courseIndex' = courseIndex, step \in ClosingSteps, step' \in ClosingSteps,
           Agree(job, job', {"upload", "s", "run"}), ~job'.failed => ~job.failed
    PROVE  Zipped'
PROOF
<1>1. job'.upload = job.upload /\ job'.s = job.s /\ job'.run = job.run
      BY DEF Agree
<1>2. step \in SemesterSteps /\ step \notin CourseSteps /\ step' \notin CourseSteps /\ step' \notin ZipSteps
      BY LabelsDiffer DEF ZipSteps
<1>3. ASSUME Holding, NEW c \in CoursesOf(job.s)
      PROVE  ZipPath(job.s, job.run, c) \in DOMAIN drive' /\ courseIndex'[c] = job.run
      BY <1>2, <1>3 DEF Zipped, Pending, Grows
<1>4. Holding' => Holding
      BY <1>1, <1>2 DEF Holding
<1> QED BY <1>1, <1>2, <1>3, <1>4 DEF Zipped

LEMMA ClosingClosed ==
    ASSUME Closed, step \in ClosingSteps \ {"calendar", "report"}, step' \in ClosingSteps,
           Agree(job, job', {"upload", "s", "run"}), ~job'.failed => ~job.failed,
           \A p : OfRun(p, job.s, job.run) => Kept(p)
    PROVE  Closed'
PROOF
<1>1. job'.upload = job.upload /\ job'.s = job.s /\ job'.run = job.run
      BY DEF Agree
<1>2. step \in SemesterSteps
      BY LabelsDiffer
<1>3. Holding' => Holding
      BY <1>1, <1>2 DEF Holding
<1>4. PICK s, n : s = job.s /\ n = job.run
      OBVIOUS
<1>5. /\ Kept(CalendarPath(s, n)) /\ Kept(ReportPath(s, n)) /\ \A c : Kept(ProcessedPath(s, n, c))
      BY <1>4, RunPathsAre DEF CalendarPath, ReportPath, ProcessedPath
<1>6. ASSUME Holding PROVE OnDrive(CalendarPath(s, n), n)' /\ Covered(s, n)'
  <2>1. OnDrive(CalendarPath(s, n), n) /\ Covered(s, n)
      BY <1>4, <1>6 DEF Closed
  <2> QED BY <1>5, <2>1 DEF Covered, OnDrive, Kept
<1>7. ASSUME Holding' PROVE OnDrive(CalendarPath(job.s, job.run), job.run)' /\ Covered(job.s, job.run)'
      BY <1>1, <1>3, <1>4, <1>6, <1>7 DEF OnDrive, Covered
<1> QED BY <1>7 DEF Closed

LEMMA CalendarProgress ==
    ASSUME Placed, Zipped, NEW ok \in BOOLEAN, ExportCalendar(ok)
    PROVE  Zipped' /\ Closed'
PROOF
<1>1. step \in ClosingSteps /\ step \in SemesterSteps /\ step \notin CourseSteps /\ courseIndex' = courseIndex
      BY LabelsDiffer DEF ExportCalendar, ClosingSteps
<1>2. DOMAIN job = Fields /\ job.upload \in BOOLEAN
      BY <1>1, LabelsDiffer DEF Placed, AtQueue
<1>3. MovesTo("report", {"failed"}) /\ job'.failed = (job.failed \/ ~ok)
      BY <1>2, ExportCalendarIs
<1>4. step' = "report" /\ Agree(job, job', {"upload", "s", "run"})
      BY <1>3 DEF MovesTo, KeepsAllBut, Agree, Fields
<1>5. step' \in ClosingSteps /\ step' \notin ClosingSteps \ {"calendar", "report"}
      BY <1>4 DEF ClosingSteps
<1>6. Grows
      BY SendGrows DEF ExportCalendar, Grows
<1>7. Zipped'
      BY <1>1, <1>3, <1>4, <1>5, <1>6, ClosingZipped
<1>8. job.upload /\ ok => Arrived(CalendarPath(job.s, job.run), job.run)
      BY <1>2, CalendarSends DEF CalendarPath
<1>9. job'.upload = job.upload /\ job'.s = job.s /\ job'.run = job.run
      BY <1>4 DEF Agree
<1>10. Holding' => OnDrive(CalendarPath(job.s, job.run), job.run)'
      BY <1>3, <1>8, <1>9 DEF Holding, OnDrive, Arrived
<1>11. Closed'
      BY <1>5, <1>10 DEF Closed
<1> QED BY <1>7, <1>11

LEMMA ReportProgress ==
    ASSUME Placed, Zipped, Closed, NEW ok \in BOOLEAN, UploadReport(ok)
    PROVE  Zipped' /\ Closed'
PROOF
<1>1. step = "report" /\ step \in ClosingSteps /\ step \in SemesterSteps /\ step \notin CourseSteps /\ courseIndex' = courseIndex
      BY LabelsDiffer DEF UploadReport, ClosingSteps, workspace
<1>2. DOMAIN job = Fields /\ job.upload \in BOOLEAN /\ job.run \in Nat /\ commands * N < job.run /\ commands \in Nat
      BY <1>1, LabelsDiffer DEF Placed, AtQueue, AtSemester
<1>3. job.run # 0
      BY <1>2, NIsNat
<1>4. CASE ~ok
      BY <1>2, <1>4, UploadReportIs, OutsideProgress, LabelsDiffer DEF Stops
<1>5. CASE ok
  <2>1. MovesTo("navigation", {})
      BY <1>2, <1>5, UploadReportIs
  <2>2. step' = "navigation" /\ Agree(job, job', {"upload", "s", "run", "failed"})
      BY <2>1 DEF MovesTo, KeepsAllBut, Agree, Fields
  <2>3. step' \in ClosingSteps
      BY <2>2 DEF ClosingSteps
  <2>4. Grows
      BY SendGrows DEF UploadReport
  <2>5. job'.upload = job.upload /\ job'.s = job.s /\ job'.run = job.run /\ job'.failed = job.failed
      BY <2>2 DEF Agree
  <2>6. Agree(job, job', {"upload", "s", "run"})
      BY <2>5 DEF Agree
  <2>7. Zipped'
      BY <1>1, <2>3, <2>4, <2>5, <2>6, ClosingZipped
  <2>8. PICK s, n : s = job.s /\ n = job.run
      OBVIOUS
  <2>9. Holding' => Holding
      BY <1>1, <2>5 DEF Holding
  <2>10. ASSUME Holding PROVE OnDrive(CalendarPath(s, n), n)' /\ Covered(s, n)'
    <3>1. /\ \A q : \/ Kept(q) \/ q = ReportPath(s, n)
                    \/ \E c \in CoursesOf(s) : q = ProcessedPath(s, n, c)
          /\ Arrived(ReportPath(s, n), ~job.failed)
          /\ \A c \in CoursesOf(s) : courseIndex[c] # 0 => Arrived(ProcessedPath(s, n, c), courseIndex[c])
        BY <1>2, <1>5, <2>8, <2>10, ReportSends DEF Holding, ReportPath, ProcessedPath
    <3>2. \A c \in CoursesOf(s) : courseIndex[c] = n
        BY <1>1, <2>8, <2>10 DEF Zipped, Pending
    <3>3. (~job.failed) = TRUE
        BY <2>10 DEF Holding
    <3>4. OnDrive(CalendarPath(s, n), n)
        BY <1>1, <2>8, <2>10 DEF Closed
    <3>5. CalendarPath(s, n) # ReportPath(s, n) /\ \A c : CalendarPath(s, n) # ProcessedPath(s, n, c)
      <4>1. \A c : /\ <<s, "runs", n, "raw", "calendar">> # <<s, "runs", n, "run.yaml">>
                   /\ <<s, "runs", n, "raw", "calendar">> # <<s, "runs", n, "processed", c>>
          OBVIOUS
      <4>2. /\ \A a : InRun(s, n, <<a>>) = <<s, "runs", n, a>>
            /\ \A a, b : InRun(s, n, <<a, b>>) = <<s, "runs", n, a, b>>
          BY PathsAre
      <4>3. ReportPath(s, n) = <<s, "runs", n, "run.yaml">>
        <5> DEFINE x == "run.yaml"
        <5> HIDE DEF x
        <5>1. InRun(s, n, <<x>>) = <<s, "runs", n, x>>
            BY <4>2
        <5> QED BY <5>1 DEF ReportPath, x
      <4>4. ASSUME NEW c PROVE ProcessedPath(s, n, c) = <<s, "runs", n, "processed", c>>
        <5> DEFINE x == "processed"
        <5> HIDE DEF x
        <5>1. InRun(s, n, <<x, c>>) = <<s, "runs", n, x, c>>
            BY <4>2
        <5> QED BY <5>1 DEF ProcessedPath, x
      <4>5. CalendarPath(s, n) = <<s, "runs", n, "raw", "calendar">>
        <5> DEFINE x == "raw"
                   y == "calendar"
        <5> HIDE DEF x, y
        <5>1. InRun(s, n, <<x, y>>) = <<s, "runs", n, x, y>>
            BY <4>2
        <5> QED BY <5>1 DEF CalendarPath, x, y
      <4> QED BY <4>1, <4>3, <4>4, <4>5
    <3>6. Kept(CalendarPath(s, n))
        BY <3>1, <3>5
    <3>7. OnDrive(CalendarPath(s, n), n)'
        BY <3>4, <3>6 DEF OnDrive, Kept
    <3>8. OnDrive(ReportPath(s, n), TRUE)'
        BY <3>1, <3>3 DEF OnDrive, Arrived
    <3>9. \A c \in CoursesOf(s) : OnDrive(ProcessedPath(s, n, c), n)'
        BY <1>3, <2>8, <3>1, <3>2 DEF OnDrive, Arrived
    <3> QED BY <3>7, <3>8, <3>9 DEF Covered
  <2>11. ASSUME Holding' PROVE OnDrive(CalendarPath(job.s, job.run), job.run)' /\ Covered(job.s, job.run)'
      BY <2>5, <2>8, <2>9, <2>10, <2>11 DEF OnDrive, Covered
  <2>12. Closed'
      BY <2>11 DEF Closed
  <2> QED BY <2>7, <2>12
<1> QED BY <1>4, <1>5

LEMMA LaterProgress ==
    ASSUME Placed, Zipped, Closed, NEW ok \in BOOLEAN,
           UploadNavigation(ok) \/ WriteArchive \/ RenameArchive \/ UploadLatest(ok)
    PROVE  Zipped' /\ Closed'
PROOF
<1>1. step \in ClosingSteps \ {"calendar", "report"} /\ step \in SemesterSteps /\ courseIndex' = courseIndex
      BY LabelsDiffer DEF UploadNavigation, WriteArchive, RenameArchive, UploadLatest, ClosingSteps, workspace
<1>2. DOMAIN job = Fields /\ job.upload \in BOOLEAN
      BY <1>1, LabelsDiffer DEF Placed, AtQueue
<1>3. CASE step' \notin SemesterSteps
      BY <1>3, OutsideProgress
<1>4. CASE step' \in SemesterSteps
  <2>1. ~UploadLatest(ok)
      BY <1>2, <1>4, UploadLatestIs, LabelsDiffer DEF Stops
  <2>2. MovesTo("latest", {}) \/ MovesTo("archive", {}) \/ MovesTo("rename", {})
      BY <1>2, <1>4, <2>1, UploadNavigationIs, WriteArchiveIs, RenameArchiveIs, LabelsDiffer DEF Stops
  <2>3. step' \in ClosingSteps /\ Agree(job, job', {"upload", "s", "run"}) /\ job'.failed = job.failed
      BY <2>2 DEF MovesTo, KeepsAllBut, Agree, Fields, ClosingSteps
  <2>4. Grows /\ \A p : OfRun(p, job.s, job.run) => Kept(p)
    <3>1. CASE UploadNavigation(ok)
      <4>1. Grows
          BY <3>1, SendGrows DEF UploadNavigation
      <4>2. \A q : Kept(q) \/ q = <<"latest.yaml">> \/ q \in {SearchIndexPath, SemesterIndexPath(job.s)}
          BY <1>2, <3>1, NavigationSends
      <4>3. Floating(<<"latest.yaml">>) /\ Floating(SearchIndexPath) /\ Floating(SemesterIndexPath(job.s))
          BY OthersFloat DEF SemesterIndexPath
      <4> QED BY <4>1, <4>2, <4>3 DEF Floating
    <3>2. CASE WriteArchive \/ RenameArchive
        BY <3>2 DEF WriteArchive, RenameArchive, Grows, Kept
    <3> QED BY <2>1, <3>1, <3>2
  <2>5. Zipped'
      BY <1>1, <2>3, <2>4, ClosingZipped
  <2>6. Closed'
      BY <1>1, <2>3, <2>4, ClosingClosed
  <2> QED BY <2>5, <2>6
<1> QED BY <1>3, <1>4

LEMMA ProgressNext ==
    ASSUME Placed, Zipped, Closed, [ExportNext]_exportVars
    PROVE  Zipped' /\ Closed'
PROOF
<1>1. ASSUME NEW asked \in Commands, StartExport(asked) PROVE Zipped' /\ Closed'
      BY <1>1, StartExportIs, LabelsDiffer, OutsideProgress
<1>2. CASE \E ok \in BOOLEAN : Course(ok)
      BY <1>2, CourseProgress
<1>3. CASE \E ok \in BOOLEAN : Semester(ok)
      BY <1>3, BeginProgress, CalendarProgress, ReportProgress, LaterProgress DEF Semester
<1>4. CASE ExtractTexts \/ DownloadFails
  <2>1. TRUE \in BOOLEAN
      OBVIOUS
  <2> QED BY <1>4, <2>1, CourseProgress
<1>5. CASE WriteMaterialIndex
      BY <1>5, IndexProgress
<1>6. CASE WriteArchive \/ RenameArchive
  <2>1. TRUE \in BOOLEAN
      OBVIOUS
  <2> QED BY <1>6, <2>1, LaterProgress
<1>7. CASE WriteIndex \/ Crash
      BY <1>7, StopsIs, LabelsDiffer, OutsideProgress DEF Stops
<1>8. CASE (\E r \in Resources : Edit(r)) \/ exportVars' = exportVars
  <2>1. drive' = drive /\ step' = step /\ job' = job /\ courseIndex' = courseIndex
      BY <1>8 DEF Edit, exportVars, workspace
  <2> QED BY <2>1 DEF Zipped, Closed, Holding, Pending, Covered, OnDrive
<1> QED BY <1>1, <1>2, <1>3, <1>4, <1>5, <1>6, <1>7, <1>8 DEF ExportNext

-----------------------------------------------------------------------------
(* Export: the pointers.                                                   *)

Trusted(s, n) == n \in Nat /\ Older(n, s) /\ WholeRun(s, n)
Reached(s, n) == LatestPath(s) \in DOMAIN drive /\ (drive[LatestPath(s)] >= n \/ LatestPath(s) \in unconfirmed)

Latests == \A s \in Semesters : LatestPath(s) \in DOMAIN drive => Trusted(s, drive[LatestPath(s)])

Entitled(ix) ==
    /\ DOMAIN ix = Semesters
    /\ \A s \in Semesters : ix[s].complete /\ ix[s].uploaded => Trusted(s, ix[s].run) /\ Reached(s, ix[s].run)

Pointers == Latests /\ Entitled(index) /\ (step # "idle" => Entitled(job.index))

LEMMA WholeRunKept ==
    ASSUME NEW s, NEW n, \A p : OfRun(p, s, n) => Kept(p), WholeRun(s, n)
    PROVE  WholeRun(s, n)'
PROOF
<1>1. /\ Kept(InRun(s, n, <<"run.yaml">>)) /\ Kept(InRun(s, n, <<"raw", "calendar">>))
      /\ \A c : Kept(InRun(s, n, <<"raw-zips", c>>)) /\ Kept(InRun(s, n, <<"processed", c>>))
      BY RunPathsAre
<1> QED BY <1>1 DEF WholeRun, OnDrive, Kept

(* A run once whole stays so, as later ones write elsewhere.               *)
LEMMA TrustedNext ==
    ASSUME Placed, Placed', [ExportNext]_exportVars, NEW s \in Semesters, NEW n, Trusted(s, n)
    PROVE  Trusted(s, n)'
PROOF
<1>1. n \in Nat /\ Older(n, s) /\ WholeRun(s, n)
      BY DEF Trusted
<1>2. Older(n, s)'
      BY <1>1, MoveIs, OrderIsKept
<1>3. ASSUME NEW p, OfRun(p, s, n) PROVE Kept(p)
  <2>1. ~Floating(p) /\ \A t : p # LatestPath(t)
      BY <1>3, RunsDiffer DEF Floating
  <2>2. ASSUME step \in SemesterSteps, OfRun(p, job.s, job.run) PROVE FALSE
    <3>1. job.s = s /\ job.run = n
        BY <1>3, <2>2, RunsDiffer
    <3> QED BY <1>1, <2>2, <3>1 DEF Older
  <2> QED BY <2>1, <2>2, FootprintIs DEF Footprint, Touches
<1> QED BY <1>1, <1>2, <1>3, WholeRunKept DEF Trusted

LEMMA WholeNow ==
    ASSUME Zipped, Closed, step = "latest", job.upload, ~job.failed
    PROVE  WholeRun(job.s, job.run)
PROOF
<1>1. step \in SemesterSteps /\ step \notin CourseSteps /\ step \in ClosingSteps \ {"calendar", "report"}
      BY LabelsDiffer DEF ClosingSteps
<1>2. Holding
      BY <1>1 DEF Holding
<1>3. \A c \in CoursesOf(job.s) : ZipPath(job.s, job.run, c) \in DOMAIN drive
      BY <1>1, <1>2 DEF Zipped, Pending
<1>4. OnDrive(CalendarPath(job.s, job.run), job.run) /\ Covered(job.s, job.run)
      BY <1>1, <1>2 DEF Closed
<1> QED BY <1>3, <1>4 DEF WholeRun, Covered, CalendarPath, ReportPath, ZipPath, ProcessedPath

(* What the upload of a semester's pointer leads to.                       *)
LEMMA TrustedNow ==
    ASSUME Placed, Zipped, Closed, NEW ok \in BOOLEAN, UploadLatest(ok), job.upload, ~job.failed,
           NEW s, NEW n, s = job.s, n = job.run
    PROVE  /\ Trusted(s, n)'
           /\ \A q : q # LatestPath(s) => Kept(q)
           /\ Kept(LatestPath(s)) \/ Arrived(LatestPath(s), n)
           /\ ok => Arrived(LatestPath(s), n) \/ Doubtful(LatestPath(s))
PROOF
<1>1. step = "latest" /\ step \in SemesterSteps /\ commands' = commands
      BY LabelsDiffer DEF UploadLatest, ClosingSteps
<1>2. /\ DOMAIN job = Fields /\ job.upload \in BOOLEAN /\ n \in Nat /\ n <= commands * N + N
      /\ s \notin Range(job.queue)
      BY <1>1, LabelsDiffer DEF Placed, AtQueue, AtSemester
<1>3. step' \notin SemesterSteps /\ (step' # "idle" => job'.queue = job.queue)
      BY <1>2, UploadLatestIs, LabelsDiffer DEF Stops, KeepsAllBut, Agree, Fields
<1>4. Older(n, s)'
      BY <1>1, <1>2, <1>3 DEF Older
<1> DEFINE p == LatestPath(s)
<1>5. Send(<<Over(p, n)>>, ok)
      BY DEF UploadLatest, LatestPath
<1> HIDE DEF p
<1>6. /\ \A q : q # p => Kept(q)
      /\ Kept(p) \/ Arrived(p, n)
      /\ ok => Arrived(p, n) \/ Doubtful(p)
      BY <1>2, <1>5, SendOverIs
<1>7. \A q : OfRun(q, s, n) => Kept(q)
      BY <1>6, RunsDiffer DEF p
<1>8. WholeRun(s, n)
      BY <1>1, WholeNow
<1>9. WholeRun(s, n)'
      BY <1>7, <1>8, WholeRunKept
<1> QED BY <1>2, <1>4, <1>6, <1>9 DEF Trusted, p

LEMMA PointerMoves ==
    ASSUME Placed, [ExportNext]_exportVars, NEW s, ~Kept(LatestPath(s))
    PROVE  /\ s = job.s /\ ~job.failed /\ job.upload
           /\ \E ok \in BOOLEAN : UploadLatest(ok)
PROOF
<1>1. step = "latest" /\ ~job.failed /\ LatestPath(s) = LatestPath(job.s)
  <2>1. ~Floating(LatestPath(s)) /\ \A t, n : ~OfRun(LatestPath(s), t, n)
      BY RunsDiffer DEF Floating
  <2>2. Touches(LatestPath(s))
      BY FootprintIs DEF Footprint
  <2> QED BY <2>1, <2>2 DEF Touches
<1>2. s = job.s
      BY <1>1, TuplesDiffer DEF LatestPath
<1>3. drive' # drive
      BY DEF Kept
<1>4. \E ok \in BOOLEAN : UploadLatest(ok)
      BY <1>1, <1>3 DEF ExportNext, StartExport, Course, Semester, ExtractTexts, DownloadFails, WriteMaterialIndex,
         WriteArchive, RenameArchive, WriteIndex, Crash, Edit, exportVars, SnapshotCourse, UploadZip, UploadRawToRun,
         UploadRawToCurrent, UploadText, UploadCourseDocs, BeginSemester, ExportCalendar, UploadReport, UploadNavigation
<1>5. job.upload
  <2>1. PICK ok \in BOOLEAN : UploadLatest(ok)
      BY <1>4
  <2> DEFINE p == LatestPath(job.s)
             n == job.run
  <2>2. Send(<<Over(p, n)>>, ok)
      BY <1>1, <2>1 DEF UploadLatest, LatestPath
  <2>3. job.upload \in BOOLEAN
      BY <1>1 DEF Placed, AtQueue
  <2> HIDE DEF p, n
  <2> QED BY <1>3, <2>2, <2>3, SendOverIs
<1> QED BY <1>1, <1>2, <1>4, <1>5

LEMMA LatestsNext ==
    ASSUME Placed, Placed', Zipped, Closed, Latests, [ExportNext]_exportVars
    PROVE  Latests'
PROOF
<1> SUFFICES ASSUME NEW s \in Semesters, LatestPath(s) \in DOMAIN drive' PROVE Trusted(s, drive[LatestPath(s)])'
      BY DEF Latests, LatestPath
<1>1. PICK n : n = drive'[LatestPath(s)]
      OBVIOUS
<1>2. CASE Kept(LatestPath(s))
  <2>1. LatestPath(s) \in DOMAIN drive /\ drive[LatestPath(s)] = n
      BY <1>1, <1>2 DEF Kept
  <2>2. Trusted(s, n)
      BY <2>1 DEF Latests
  <2>3. Trusted(s, n)'
      BY <2>2, TrustedNext
  <2> QED BY <1>1, <2>3 DEF LatestPath
<1>3. CASE ~Kept(LatestPath(s))
  <2>1. s = job.s /\ ~job.failed /\ job.upload
      BY <1>3, PointerMoves
  <2>2. PICK ok \in BOOLEAN : UploadLatest(ok)
      BY <1>3, PointerMoves
  <2>3. PICK m : m = job.run
      OBVIOUS
  <2>4. Trusted(s, m)' /\ Arrived(LatestPath(s), m)
      BY <1>3, <2>1, <2>2, <2>3, TrustedNow
  <2>5. m = n
      BY <1>1, <2>4 DEF Arrived
  <2> QED BY <1>1, <2>4, <2>5 DEF LatestPath
<1> QED BY <1>2, <1>3

LEMMA ReachedNext ==
    ASSUME Placed, Zipped, Closed, [ExportNext]_exportVars, NEW s \in Semesters, NEW n,
           Trusted(s, n), Reached(s, n)
    PROVE  Reached(s, n)'
PROOF
<1>1. CASE Kept(LatestPath(s))
      BY <1>1, RememberedNext DEF Kept, Reached, LatestPath, Remembered
<1>2. CASE ~Kept(LatestPath(s))
  <2>1. s = job.s /\ ~job.failed /\ job.upload
      BY <1>2, PointerMoves
  <2>2. PICK ok \in BOOLEAN : UploadLatest(ok)
      BY <1>2, PointerMoves
  <2>3. PICK m : m = job.run
      OBVIOUS
  <2>4. Arrived(LatestPath(s), m)
      BY <1>2, <2>1, <2>2, <2>3, TrustedNow
  <2>5. step \in SemesterSteps
      BY <2>2, LabelsDiffer DEF UploadLatest, ClosingSteps
  <2>6. m \in Nat /\ n \in Nat /\ n < m
      BY <2>1, <2>3, <2>5 DEF Placed, AtSemester, Trusted, Older
  <2>7. m >= n
      BY <2>6
  <2> QED BY <2>4, <2>7 DEF Reached, Arrived, LatestPath
<1> QED BY <1>1, <1>2

LEMMA EntitledNext ==
    ASSUME Placed, Placed', Zipped, Closed, [ExportNext]_exportVars, NEW ix, Entitled(ix)
    PROVE  Entitled(ix)'
PROOF
<1> SUFFICES ASSUME NEW s \in Semesters, ix[s].complete /\ ix[s].uploaded
             PROVE  Trusted(s, ix[s].run)' /\ Reached(s, ix[s].run)'
      BY DEF Entitled
<1>1. PICK n : n = ix[s].run
      OBVIOUS
<1>2. Trusted(s, n) /\ Reached(s, n)
      BY <1>1 DEF Entitled
<1>3. Trusted(s, n)' /\ Reached(s, n)'
      BY <1>2, TrustedNext, ReachedNext
<1> QED BY <1>1, <1>3

LEMMA UpdatedEntitled ==
    ASSUME Placed, Placed', Zipped, Closed, [ExportNext]_exportVars, UploadLatest(TRUE), Entitled(job.index),
           NEW u, u = UpdatedIndex
    PROVE  Entitled(u)'
PROOF
<1>1. PICK ix, s, n : ix = job.index /\ s = job.s /\ n = job.run
      OBVIOUS
<1>2. step \in SemesterSteps
      BY LabelsDiffer DEF UploadLatest, ClosingSteps
<1>3. s \in Semesters
      BY <1>1, <1>2 DEF Placed, AtSemester
<1>4. Entitled(ix)'
      BY <1>1, EntitledNext
<1>5. DOMAIN ix = Semesters
      BY <1>4 DEF Entitled
<1> DEFINE e == [run |-> n, complete |-> ~job.failed, uploaded |-> job.upload]
<1>6. u = [ix EXCEPT ![s] = e]
      BY <1>1 DEF UpdatedIndex
<1>7. e.run = n /\ e.complete = (~job.failed) /\ e.uploaded = job.upload
      OBVIOUS
<1> HIDE DEF e
<1>8. DOMAIN u = Semesters /\ u[s] = e /\ \A t \in Semesters : t # s => u[t] = ix[t]
      BY <1>3, <1>5, <1>6
<1>9. ASSUME NEW t \in Semesters, u[t].complete /\ u[t].uploaded
      PROVE  Trusted(t, u[t].run)' /\ Reached(t, u[t].run)'
  <2>1. CASE t # s
    <3>1. u[t] = ix[t]
        BY <1>8, <2>1
    <3>2. PICK m : m = ix[t].run
        OBVIOUS
    <3>3. Trusted(t, m)' /\ Reached(t, m)'
        BY <1>4, <1>9, <3>1, <3>2 DEF Entitled
    <3> QED BY <3>1, <3>2, <3>3
  <2>2. CASE t = s
    <3>1. ~job.failed /\ job.upload
        BY <1>7, <1>8, <1>9, <2>2
    <3>2. TRUE \in BOOLEAN
        OBVIOUS
    <3>3. /\ Trusted(s, n)'
          /\ Kept(LatestPath(s)) \/ Arrived(LatestPath(s), n)
          /\ Arrived(LatestPath(s), n) \/ Doubtful(LatestPath(s))
        BY <1>1, <3>1, <3>2, TrustedNow
    <3>4. n \in Nat
        BY <1>1, <1>2 DEF Placed, AtSemester
    <3>5. n >= n
        BY <3>4
    <3>6. Reached(s, n)'
        BY <3>3, <3>5 DEF Reached, Arrived, Doubtful, Kept, LatestPath
    <3>7. u[t].run = n
        BY <1>7, <1>8, <2>2
    <3> QED BY <2>2, <3>3, <3>6, <3>7
  <2> QED BY <2>1, <2>2
<1> QED BY <1>8, <1>9 DEF Entitled

LEMMA IndexKept ==
    ASSUME Placed, [ExportNext]_exportVars, step' # "idle", step # "idle", ~UploadLatest(TRUE)
    PROVE  job'.index = job.index
PROOF
<1>1. DOMAIN job = Fields /\ job.upload \in BOOLEAN
      BY DEF Placed, AtQueue
<1>2. ASSUME NEW F, "index" \notin F, KeepsAllBut(F) PROVE job'.index = job.index
      BY <1>2 DEF KeepsAllBut, Agree, Fields
<1>3. ASSUME NEW label, NEW F, "index" \notin F, MovesTo(label, F) PROVE job'.index = job.index
      BY <1>2, <1>3 DEF MovesTo
<1>4. ASSUME NEW F, "index" \notin F, NextCourse(F) PROVE job'.index = job.index
      BY <1>2, <1>4 DEF NextCourse
<1>5. ASSUME NEW x, NextResource(x, {"raw"}) PROVE job'.index = job.index
      BY <1>2, <1>5 DEF NextResource
<1>6. ASSUME NEW ok \in BOOLEAN, Course(ok) PROVE job'.index = job.index
      BY <1>1, <1>3, <1>4, <1>5, <1>6, SnapshotCourseIs, UploadZipIs, UploadRawToRunIs, UploadRawToCurrentIs,
         UploadTextIs, UploadCourseDocsIs DEF Course
<1>7. ASSUME NEW ok \in BOOLEAN, Semester(ok) PROVE job'.index = job.index
  <2>1. CASE BeginSemester(ok)
      BY <1>1, <2>1, BeginSemesterIs DEF Stops, Agree
  <2>2. CASE UploadLatest(ok)
    <3>1. ok = FALSE
        BY <2>2
    <3> QED BY <1>1, <2>2, <3>1, UploadLatestIs DEF Stops
  <2>3. CASE ExportCalendar(ok) \/ UploadReport(ok) \/ UploadNavigation(ok)
      BY <1>1, <1>3, <2>3, ExportCalendarIs, UploadReportIs, UploadNavigationIs DEF Stops
  <2> QED BY <1>7, <2>1, <2>2, <2>3 DEF Semester
<1>8. CASE ExtractTexts
  <2>1. step \in CourseSteps
      BY <1>8 DEF ExtractTexts, CourseSteps
  <2>2. job.c \in Courses /\ DOMAIN texts = Courses
      BY <2>1, CurrentPathsAre DEF Placed
  <2>3. KeepsAllBut({"textOf", "resources", "r"})
      BY <1>1, <1>8, <2>2, ExtractTextsIs
  <2> QED BY <1>2, <2>3
<1>9. CASE DownloadFails \/ WriteMaterialIndex \/ WriteArchive \/ RenameArchive
      BY <1>1, <1>3, <1>4, <1>5, <1>9, DownloadFailsIs, WriteMaterialIndexIs, WriteArchiveIs, RenameArchiveIs DEF Stops
<1>10. CASE WriteIndex \/ Crash
      BY <1>10, StopsIs DEF Stops
<1>11. CASE (\E r \in Resources : Edit(r)) \/ exportVars' = exportVars
      BY <1>11 DEF Edit, exportVars
<1>12. ~\E asked \in Commands : StartExport(asked)
      BY DEF StartExport
<1> QED BY <1>6, <1>7, <1>8, <1>9, <1>10, <1>11, <1>12 DEF ExportNext

LEMMA PointersNext ==
    ASSUME Placed, Placed', Zipped, Closed, Pointers, [ExportNext]_exportVars
    PROVE  Pointers'
PROOF
<1>1. Latests'
      BY LatestsNext DEF Pointers
<1>2. Entitled(index)'
  <2>1. index' = index \/ (step = "write" /\ index' = job.index)
      BY DEF ExportNext, StartExport, Course, Semester, ExtractTexts, DownloadFails, WriteMaterialIndex,
         WriteArchive, RenameArchive, WriteIndex, Crash, Edit, exportVars, SnapshotCourse, UploadZip, UploadRawToRun,
         UploadRawToCurrent, UploadText, UploadCourseDocs, BeginSemester, ExportCalendar, UploadReport, UploadNavigation,
         UploadLatest, workspace
  <2>2. PICK ix : ix = index'
      OBVIOUS
  <2>3. Entitled(ix)
      BY <2>1, <2>2 DEF Pointers
  <2>4. Entitled(ix)'
      BY <2>3, EntitledNext
  <2> QED BY <2>2, <2>4 DEF Entitled
<1>3. ASSUME step' # "idle" PROVE Entitled(job.index)'
  <2>1. PICK ix : ix = job'.index
      OBVIOUS
  <2>2. CASE step = "idle"
    <3>1. \/ \E asked \in Commands : StartExport(asked)
          \/ job' = job /\ step' = step
        BY <1>3, <2>2 DEF ExportNext, Course, Semester, ExtractTexts, DownloadFails, WriteMaterialIndex,
           WriteArchive, RenameArchive, WriteIndex, Crash, Edit, exportVars, SnapshotCourse, UploadZip, UploadRawToRun,
           UploadRawToCurrent, UploadText, UploadCourseDocs, BeginSemester, ExportCalendar, UploadReport, UploadNavigation,
           UploadLatest
    <3>2. ix = index
        BY <1>3, <2>1, <2>2, <3>1, StartExportIs
    <3>3. Entitled(ix)'
        BY <3>2, EntitledNext DEF Pointers
    <3> QED BY <2>1, <3>3 DEF Entitled
  <2>3. CASE step # "idle" /\ UploadLatest(TRUE)
    <3>1. DOMAIN job = Fields
        BY <2>3 DEF Placed, AtQueue
    <3>2. TRUE \in BOOLEAN
        OBVIOUS
    <3>3. ix = UpdatedIndex
        BY <1>3, <2>1, <2>3, <3>1, <3>2, UploadLatestIs DEF Stops
    <3>4. Entitled(job.index)
        BY <2>3 DEF Pointers
    <3>5. Entitled(ix)'
        BY <2>3, <3>3, <3>4, UpdatedEntitled
    <3> QED BY <2>1, <3>5 DEF Entitled
  <2>4. CASE step # "idle" /\ ~UploadLatest(TRUE)
    <3>1. ix = job.index
        BY <1>3, <2>1, <2>4, IndexKept
    <3>2. Entitled(ix)'
        BY <2>4, <3>1, EntitledNext DEF Pointers
    <3> QED BY <2>1, <3>2 DEF Entitled
  <2> QED BY <2>2, <2>3, <2>4
<1> QED BY <1>1, <1>2, <1>3 DEF Pointers

(* Whoever follows a semester's pointer, or trusts the index of exports,   *)
(* finds a run with everything in it: runs write into folders of their     *)
(* own, and the pointer and the index are written last.                    *)
THEOREM CompleteRunsAreWhole == ExportSpec => []CompleteMeansWhole
PROOF
<1> DEFINE I == Placed /\ Zipped /\ Closed /\ Pointers
<1>1. ExportInit => I
  <2>1. ASSUME ExportInit PROVE Zipped /\ Closed /\ Pointers
    <3>1. step = "idle" /\ drive = <<>> /\ index = [s \in Semesters |-> Unexported]
        BY <2>1 DEF ExportInit
    <3>2. step \notin SemesterSteps
        BY <3>1, LabelsDiffer
    <3>3. \A s \in Semesters : ~index[s].complete
        BY <3>1 DEF Unexported
    <3> QED BY <3>1, <3>2, <3>3 DEF Zipped, Closed, Holding, Pointers, Latests, Entitled
  <2> QED BY <2>1, PlacedInit
<1>2. I /\ [ExportNext]_exportVars => I'
      BY PlacedNext, ProgressNext, PointersNext DEF Pointers
<1>3. I => CompleteMeansWhole
      BY DEF Pointers, Latests, Entitled, Trusted, Reached, LatestPath, CompleteMeansWhole
<1> QED BY <1>1, <1>2, <1>3, PTL DEF ExportSpec
=============================================================================
