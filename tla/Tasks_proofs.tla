---------------------------- MODULE Tasks_proofs -----------------------------
(***************************************************************************)
(* Proofs about the tasks of a course: their saved state, for any requests *)
(* and tasks (TaskState), and their solutions, for listings of any length  *)
(* (Pairing, whose names have the prefix PR).                              *)
(***************************************************************************)
EXTENDS TaskState, TLAPS

-----------------------------------------------------------------------------
(* The task state.  An update that is neither lost nor excused is in the   *)
(* file and in every copy that may be written next.                        *)

(* The updates are acknowledged once each, in the order of answered.       *)
AnsweredOnce ==
    /\ \A i \in 1..Len(answered) : pc[answered[i]] = "saved"
    /\ \A h \in Acknowledged : \E i \in 1..Len(answered) : answered[i] = h
    /\ \A i, j \in 1..Len(answered) : answered[i] = answered[j] => i = j

(* A state has the update of h itself.                                     *)
HasOwn(s, h) ==
    LET t == update[h].task
    IN  /\ update[h].kind = "message" => \E i \in 1..Len(s.messages[t]) : s.messages[t][i] = h
        /\ update[h].kind = "attempt" => s.attempts[t].answer = h
        /\ update[h].kind \in {"attempt", "status"} => s.attempts[t].status = h

(* A handler that has begun knows what to do; its copy, once changed, has  *)
(* its own update.                                                         *)
CopiesHaveOwn ==
    \A h \in Handlers :
        /\ pc[h] \in {"loaded", "opened", "saved"} => update[h] \in Updates
        /\ pc[h] = "opened" => HasOwn(memory[h], h)

CopiesHaveOthers ==
    \A g, h \in Handlers : Busy(g) /\ h \in Acknowledged \ excused => Holds(memory[g], h)

Failed == \E h \in Handlers : pc[h] = "failed"

(* A file that is not there has never been opened, and one that is neither *)
(* whole nor just truncated has a cause.                                   *)
FileHasCause ==
    /\ file.kind = "absent" => \A h \in Handlers : pc[h] \notin {"opened", "saved"}
    /\ file.kind = "truncated" => excused # {} \/ Failed \/ \E h \in Handlers : pc[h] = "opened"
    /\ file.kind = "torn" => excused # {} \/ Failed
    /\ \A h \in Handlers : pc[h] = "opened" /\ file.kind # "truncated" => excused # {} \/ Failed

IInv == TypeOK /\ AnsweredOnce /\ CopiesHaveOwn /\ CopiesHaveOthers /\ FileHasCause /\ LossHasACause

LEMMA Appended ==
  ASSUME NEW S, NEW a \in Seq(S), NEW e \in S
  PROVE  /\ Append(a, e) \in Seq(S) /\ Len(Append(a, e)) = Len(a) + 1
         /\ \A i \in 1..Len(a) : i \in 1..Len(Append(a, e)) /\ Append(a, e)[i] = a[i]
         /\ Len(a) + 1 \in 1..Len(Append(a, e)) /\ Append(a, e)[Len(a) + 1] = e
  OBVIOUS

(* The place of a name that is in a sequence once.                         *)
LEMMA PlaceOf ==
  ASSUME NEW S, NEW a \in Seq(S), NEW k \in 1..Len(a),
         \A i, j \in 1..Len(a) : a[i] = a[j] => i = j
  PROVE  (CHOOSE i \in 1..Len(a) : a[i] = a[k]) = k
  OBVIOUS

-----------------------------------------------------------------------------
(* An update in a copy *)

LEMMA AppliedIsState ==
  ASSUME NEW g \in Handlers, NEW s \in State, update[g] \in Updates
  PROVE  Applied(g, s) \in State
  <1> DEFINE t == update[g].task
  <1>1. t \in Tasks /\ update[g].kind \in {"attempt", "status", "message"}
    BY DEF Updates
  <1>2. Append(s.messages[t], g) \in Seq(Handlers)
    BY <1>1 DEF State
  <1>3. CASE update[g].kind = "attempt"
    <2>1. Applied(g, s) = [s EXCEPT !.attempts[t] = [answer |-> g, status |-> g]]
      BY <1>3 DEF Applied
    <2>2. [s.attempts EXCEPT ![t] = [answer |-> g, status |-> g]] \in [Tasks -> Attempt]
      BY <1>1 DEF State, Attempt
    <2> QED
      BY <2>1, <2>2 DEF State
  <1>4. CASE update[g].kind = "status"
    <2>1. Applied(g, s) = [s EXCEPT !.attempts[t].status = g]
      BY <1>4 DEF Applied
    <2>2. [s.attempts EXCEPT ![t].status = g] \in [Tasks -> Attempt]
      BY <1>1 DEF State, Attempt
    <2> QED
      BY <2>1, <2>2 DEF State
  <1>5. CASE update[g].kind = "message"
    <2>1. Applied(g, s) = [s EXCEPT !.messages[t] = Append(@, g)]
      BY <1>5 DEF Applied
    <2> QED
      BY <1>1, <1>2, <2>1 DEF State
  <1> QED
    BY <1>1, <1>3, <1>4, <1>5

(* A handler's copy has its own update.                                    *)
LEMMA AppliedHasOwn ==
  ASSUME NEW g \in Handlers, NEW s \in State, update[g] \in Updates
  PROVE  HasOwn(Applied(g, s), g)
  <1> DEFINE t == update[g].task
  <1>1. t \in Tasks /\ update[g].kind \in {"attempt", "status", "message"}
    BY DEF Updates
  <1>3. CASE update[g].kind = "attempt"
    <2>1. Applied(g, s) = [s EXCEPT !.attempts[t] = [answer |-> g, status |-> g]]
      BY <1>3 DEF Applied
    <2>2. Applied(g, s).attempts[t] = [answer |-> g, status |-> g]
      BY <1>1, <2>1 DEF State
    <2> QED
      BY <1>3, <2>2 DEF HasOwn
  <1>4. CASE update[g].kind = "status"
    <2>1. Applied(g, s) = [s EXCEPT !.attempts[t].status = g]
      BY <1>4 DEF Applied
    <2>2. Applied(g, s).attempts[t].status = g
      BY <1>1, <2>1 DEF State, Attempt
    <2> QED
      BY <1>4, <2>2 DEF HasOwn
  <1>5. CASE update[g].kind = "message"
    <2>1. Applied(g, s) = [s EXCEPT !.messages[t] = Append(@, g)]
      BY <1>5 DEF Applied
    <2>2. Applied(g, s).messages[t] = Append(s.messages[t], g) /\ s.messages[t] \in Seq(Handlers)
      BY <1>1, <2>1 DEF State
    <2>3. PICK m \in Seq(Handlers) : m = s.messages[t]
      BY <2>2
    <2>4. \E n \in 1..Len(Append(m, g)) : Append(m, g)[n] = g
      BY Appended
    <2> QED
      BY <1>5, <2>2, <2>3, <2>4 DEF HasOwn
  <1> QED
    BY <1>1, <1>3, <1>4, <1>5

(* It keeps what another has done, or replaces it.                         *)
LEMMA AppliedKeepsOthers ==
  ASSUME NEW g \in Handlers, NEW h \in Handlers, NEW s \in State, pc[g] # "saved",
         update[g] \in Updates, update[h] \in Updates, Holds(s, h)
  PROVE  Holds(Applied(g, s), h)
  <1> DEFINE t == update[g].task
             u == update[h].task
  <1>1. /\ t \in Tasks /\ update[g].kind \in {"attempt", "status", "message"}
        /\ u \in Tasks /\ update[h].kind \in {"attempt", "status", "message"}
    BY DEF Updates
  <1>2. Later(g, h)
    BY NoneIsNew DEF Later, Acknowledged
  <1>3. CASE update[g].kind = "attempt"
    <2>1. Applied(g, s) = [s EXCEPT !.attempts[t] = [answer |-> g, status |-> g]]
      BY <1>3 DEF Applied
    <2>2. /\ Applied(g, s).messages[u] = s.messages[u]
          /\ Applied(g, s).attempts[u] = IF t = u THEN [answer |-> g, status |-> g] ELSE s.attempts[u]
      BY <1>1, <2>1 DEF State
    <2> QED
      BY <1>2, <2>2 DEF Holds
  <1>4. CASE update[g].kind = "status"
    <2>1. Applied(g, s) = [s EXCEPT !.attempts[t].status = g]
      BY <1>4 DEF Applied
    <2>2. /\ Applied(g, s).messages[u] = s.messages[u]
          /\ Applied(g, s).attempts[u].answer = s.attempts[u].answer
          /\ Applied(g, s).attempts[u].status = IF t = u THEN g ELSE s.attempts[u].status
      BY <1>1, <2>1 DEF State, Attempt
    <2> QED
      BY <1>2, <2>2 DEF Holds
  <1>5. CASE update[g].kind = "message"
    <2>1. Applied(g, s) = [s EXCEPT !.messages[t] = Append(@, g)]
      BY <1>5 DEF Applied
    <2>2. /\ Applied(g, s).attempts = s.attempts
          /\ Applied(g, s).messages[u] = IF t = u THEN Append(s.messages[u], g) ELSE s.messages[u]
          /\ s.messages[u] \in Seq(Handlers)
      BY <1>1, <2>1 DEF State
    <2>3. ASSUME NEW i \in 1..Len(s.messages[u]), s.messages[u][i] = h
          PROVE  \E j \in 1..Len(Applied(g, s).messages[u]) : Applied(g, s).messages[u][j] = h
      BY <2>2, <2>3, Appended
    <2> QED
      BY <2>2, <2>3 DEF Holds
  <1> QED
    BY <1>1, <1>3, <1>4, <1>5

-----------------------------------------------------------------------------
(* The order of the answers *)

Grows == Len(answered) <= Len(answered') /\ \A i \in 1..Len(answered) : answered'[i] = answered[i]

LEMMA PositionIsPlace ==
  ASSUME TypeOK, AnsweredOnce, NEW i \in 1..Len(answered)
  PROVE  Position(answered[i]) = i
  BY PlaceOf DEF TypeOK, AnsweredOnce, Position

(* What is acknowledged later has a later position, so that a state has an *)
(* update for good.                                                        *)
LEMMA LaterStays ==
  ASSUME TypeOK, AnsweredOnce, TypeOK', AnsweredOnce', Grows,
         NEW g, NEW h \in Acknowledged, Later(g, h)
  PROVE  Later(g, h)'
  <1>1. PICK i \in 1..Len(answered) : answered[i] = h
    BY DEF AnsweredOnce
  <1>2. Position(h) = i
    BY <1>1, PositionIsPlace
  <1>3. i \in 1..Len(answered') /\ answered'[i] = h /\ Len(answered) \in Nat
    BY <1>1 DEF Grows, TypeOK
  <1>4. Position(h)' = i
    BY <1>3, PlaceOf DEF TypeOK, AnsweredOnce, Position
  <1>5. SUFFICES ASSUME g \in Acknowledged' PROVE Position(g)' >= i
    BY <1>4 DEF Later
  <1>6. PICK j \in 1..Len(answered') : answered'[j] = g
    BY <1>5 DEF AnsweredOnce
  <1>7. Position(g)' = j
    BY <1>6, PlaceOf DEF TypeOK, AnsweredOnce, Position
  <1>8. CASE j \in 1..Len(answered)
    <2>1. answered[j] = g
      BY <1>6, <1>8 DEF Grows
    <2>2. Position(g) = j
      BY <1>8, <2>1, PositionIsPlace
    <2>3. g \in Acknowledged
      BY <1>5, <1>8, <2>1 DEF AnsweredOnce, Acknowledged
    <2> QED
      BY <1>2, <1>7, <2>2, <2>3 DEF Later
  <1>9. CASE j \notin 1..Len(answered)
    BY <1>3, <1>7, <1>9
  <1> QED
    BY <1>8, <1>9

LEMMA HoldsStays ==
  ASSUME TypeOK, AnsweredOnce, TypeOK', AnsweredOnce', Grows,
         NEW s, NEW h \in Acknowledged, update'[h] = update[h], Holds(s, h)
  PROVE  Holds(s, h)'
  BY LaterStays DEF Holds

-----------------------------------------------------------------------------
(* The steps *)

LEMMA InitHolds == Init => IInv
  <1> SUFFICES ASSUME Init PROVE IInv
    OBVIOUS
  <1>1. TypeOK
    BY DEF Init, TypeOK, Absent, EmptyState, State, Attempt, NoAttempt
  <1>2. AnsweredOnce /\ CopiesHaveOwn /\ CopiesHaveOthers /\ LossHasACause
    BY DEF Init, AnsweredOnce, CopiesHaveOwn, CopiesHaveOthers, LossHasACause, Acknowledged, Busy
  <1>3. FileHasCause
    BY DEF Init, FileHasCause, Absent
  <1> QED
    BY <1>1, <1>2, <1>3 DEF IInv

(* What Holds needs of a step: no update changes hands, and the order of   *)
(* the answers grows.                                                      *)
LEMMA HasOwnStays ==
  ASSUME NEW s, NEW h, update'[h] = update[h], HasOwn(s, h)
  PROVE  HasOwn(s, h)'
  BY DEF HasOwn

LEMMA OwnHolds ==
  ASSUME TypeOK', AnsweredOnce', NEW s, NEW h \in Handlers, HasOwn(s, h)'
  PROVE  Holds(s, h)'
  <1>1. Later(h, h)'
    <2> SUFFICES ASSUME h \in Acknowledged' PROVE Position(h)' >= Position(h)'
      BY NoneIsNew DEF Later
    <2>1. PICK i \in 1..Len(answered') : answered'[i] = h
      BY DEF AnsweredOnce
    <2>2. Position(h)' = i
      BY <2>1, PlaceOf DEF TypeOK, AnsweredOnce, Position
    <2> QED
      BY <2>2
  <1> QED
    BY <1>1 DEF HasOwn, Holds

LEMMA EmptyIsState == EmptyState \in State
  BY DEF EmptyState, State, Attempt, NoAttempt

LEMMA LoadStep ==
  ASSUME IInv, NEW g \in Handlers, NEW u \in Updates, Load(g, u)
  PROVE  IInv'
  <1> USE DEF IInv, Load
  <1>1. TypeOK'
    BY DEF TypeOK, Updates, Acknowledged
  <1>2. Acknowledged' = Acknowledged /\ excused \subseteq excused' /\ \A h \in Acknowledged : h # g
    BY DEF TypeOK, Acknowledged
  <1>3. AnsweredOnce'
    BY <1>2 DEF TypeOK, AnsweredOnce, Acknowledged
  <1>4. Grows
    BY DEF Grows, TypeOK
  <1>5. ASSUME NEW h \in Acknowledged, NEW s, Holds(s, h)
        PROVE  Holds(s, h)'
    <2>1. update'[h] = update[h]
      BY <1>2 DEF TypeOK
    <2> QED
      BY <1>1, <1>3, <1>4, <1>5, <2>1, HoldsStays
  <1>6. LossHasACause'
    <2> SUFFICES ASSUME file.kind = "state", NEW h \in Acknowledged \ excused' PROVE Holds(file.state, h)'
      BY <1>2 DEF LossHasACause
    <2>1. PICK s : s = file.state
      OBVIOUS
    <2>2. Holds(s, h)
      BY <1>2, <2>1 DEF LossHasACause
    <2>3. Holds(s, h)'
      BY <1>5, <2>2
    <2> QED
      BY <2>1, <2>3 DEF Holds
  <1>7. CopiesHaveOwn'
    <2> SUFFICES ASSUME NEW h \in Handlers
                 PROVE  /\ pc'[h] \in {"loaded", "opened", "saved"} => update'[h] \in Updates
                        /\ pc'[h] = "opened" => HasOwn(memory[h], h)'
      BY DEF CopiesHaveOwn
    <2>1. CASE h = g
      BY <2>1 DEF TypeOK
    <2>2. CASE h # g
      BY <2>2 DEF TypeOK, CopiesHaveOwn, HasOwn
    <2> QED
      BY <2>1, <2>2
  <1>8. CopiesHaveOthers'
    <2> SUFFICES ASSUME NEW k \in Handlers, NEW h \in Acknowledged \ excused', Busy(k)'
                 PROVE  Holds(memory[k], h)'
      BY <1>2 DEF CopiesHaveOthers
    <2>1. PICK s : s = memory'[k]
      OBVIOUS
    <2>2. Holds(s, h)
      <3>1. CASE k # g
        BY <1>2, <2>1, <3>1 DEF TypeOK, CopiesHaveOthers, Busy, Acknowledged
      <3>2. CASE k = g
        <4>1. s = file.state /\ file.kind = "state"
          <5>1. file.kind \notin {"torn", "truncated"}
            BY <1>2
          <5>2. file.kind # "absent"
            BY DEF FileHasCause, Acknowledged
          <5> QED
            BY <2>1, <3>2, <5>1, <5>2 DEF TypeOK
        <4> QED
          BY <1>2, <4>1 DEF LossHasACause
      <3> QED
        BY <3>1, <3>2
    <2>3. Holds(s, h)'
      BY <1>5, <2>2
    <2> QED
      BY <2>1, <2>3 DEF Holds
  <1>9. FileHasCause'
    BY <1>2 DEF TypeOK, FileHasCause, Failed
  <1> QED
    BY <1>1, <1>3, <1>6, <1>7, <1>8, <1>9

LEMMA OpenStep ==
  ASSUME IInv, NEW g \in Handlers, Open(g)
  PROVE  IInv'
  <1> USE DEF IInv, Open
  <1>1. update[g] \in Updates /\ memory[g] \in State /\ pc[g] # "saved" /\ Busy(g)
    BY DEF TypeOK, CopiesHaveOwn, Busy
  <1> DEFINE s == Applied(g, memory[g])
  <1>2. s \in State
    BY <1>1, AppliedIsState
  <1>3. memory' = [memory EXCEPT ![g] = s]
    OBVIOUS
  <1> HIDE DEF s
  <1>4. TypeOK'
    BY <1>2, <1>3 DEF TypeOK, Truncated, EmptyState, State, Attempt, NoAttempt
  <1>5. Acknowledged' = Acknowledged /\ excused' = excused
    BY DEF TypeOK, Acknowledged
  <1>6. AnsweredOnce'
    BY <1>5 DEF TypeOK, AnsweredOnce, Acknowledged
  <1>7. Grows
    BY DEF Grows, TypeOK
  <1>8. LossHasACause'
    BY DEF LossHasACause, Truncated
  <1>9. CopiesHaveOwn'
    <2>1. HasOwn(s, g)
      BY <1>1, AppliedHasOwn DEF s
    <2> SUFFICES ASSUME NEW h \in Handlers
                 PROVE  /\ pc'[h] \in {"loaded", "opened", "saved"} => update'[h] \in Updates
                        /\ pc'[h] = "opened" => HasOwn(memory[h], h)'
      BY DEF CopiesHaveOwn
    <2>2. CASE h = g
      BY <1>1, <1>3, <2>1, <2>2 DEF TypeOK, HasOwn
    <2>3. CASE h # g
      BY <1>3, <2>3 DEF TypeOK, CopiesHaveOwn, HasOwn
    <2> QED
      BY <2>2, <2>3
  <1>10. CopiesHaveOthers'
    <2> SUFFICES ASSUME NEW k \in Handlers, NEW h \in Acknowledged \ excused, Busy(k)'
                 PROVE  Holds(memory[k], h)'
      BY <1>5 DEF CopiesHaveOthers
    <2>1. PICK m : m = memory'[k]
      OBVIOUS
    <2>2. Holds(m, h)
      <3>1. CASE k # g
        BY <1>3, <2>1, <3>1 DEF TypeOK, CopiesHaveOthers, Busy, Acknowledged
      <3>2. CASE k = g
        <4>1. Holds(memory[g], h) /\ update[h] \in Updates /\ h \in Handlers
          BY <1>1 DEF CopiesHaveOthers, CopiesHaveOwn, Acknowledged
        <4>2. m = s
          BY <1>3, <2>1, <3>2 DEF TypeOK
        <4> QED
          BY <1>1, <4>1, <4>2, AppliedKeepsOthers DEF s
      <3> QED
        BY <3>1, <3>2
    <2>3. Holds(m, h)'
      BY <1>4, <1>6, <1>7, <2>2, HoldsStays
    <2> QED
      BY <2>1, <2>3 DEF Holds
  <1>11. FileHasCause'
    BY DEF TypeOK, FileHasCause, Failed, Truncated
  <1> QED
    BY <1>4, <1>6, <1>8, <1>9, <1>10, <1>11

(* The handlers that were busy beside it excuse it, and are excused.       *)
LEMMA SaveStep ==
  ASSUME IInv, NEW g \in Handlers, Save(g)
  PROVE  IInv'
  <1> USE DEF IInv, Save
  <1> DEFINE others == {k \in Handlers \ {g} : Busy(k)}
  <1>1. pc[g] = "opened" /\ Busy(g) /\ g \notin Acknowledged /\ g \in Acknowledged'
    BY DEF TypeOK, Busy, Acknowledged
  <1>2. Acknowledged' = Acknowledged \cup {g}
    BY DEF TypeOK, Acknowledged
  <1>3. excused' = excused \cup others \cup (IF others = {} THEN {} ELSE {g})
    OBVIOUS
  <1>4. TypeOK'
    <2>1. file'.kind \in {"torn", "state"} /\ file'.state \in State
      BY EmptyIsState DEF TypeOK, Readable, Torn
    <2> QED
      BY <1>3, <2>1, Appended DEF TypeOK
  <1>5. Grows /\ Len(answered') = Len(answered) + 1 /\ answered'[Len(answered) + 1] = g /\ Len(answered) \in Nat
    BY Appended DEF TypeOK, Grows
  <1>6. AnsweredOnce'
    <2>1. ASSUME NEW i \in 1..Len(answered')
          PROVE  \/ i \in 1..Len(answered) /\ answered'[i] = answered[i]
                 \/ i = Len(answered) + 1 /\ answered'[i] = g
      BY <1>5 DEF Grows
    <2>2. \A i \in 1..Len(answered) : answered[i] \in Acknowledged /\ i \in 1..Len(answered')
      BY <1>5 DEF AnsweredOnce, Acknowledged, TypeOK
    <2>3. \A i \in 1..Len(answered') : answered'[i] \in Acknowledged'
      BY <1>2, <2>1, <2>2
    <2>4. \A i, j \in 1..Len(answered') : answered'[i] = answered'[j] => i = j
      BY <1>1, <2>1, <2>2 DEF AnsweredOnce
    <2>5. \A h \in Acknowledged' : \E i \in 1..Len(answered') : answered'[i] = h
      BY <1>2, <1>5, <2>2 DEF AnsweredOnce, Grows
    <2> QED
      BY <2>3, <2>4, <2>5 DEF AnsweredOnce, Acknowledged
  <1>7. ASSUME NEW h \in Acknowledged, NEW s, Holds(s, h)
        PROVE  Holds(s, h)'
    BY <1>4, <1>5, <1>6, <1>7, HoldsStays
  <1>8. LossHasACause'
    <2> SUFFICES ASSUME file'.kind = "state", NEW h \in Acknowledged' \ excused' PROVE Holds(file.state, h)'
      BY DEF LossHasACause
    <2>1. PICK s : s = memory[g]
      OBVIOUS
    <2>2. file'.state = s
      BY <2>1 DEF Readable, Torn
    <2>3. Holds(s, h)'
      <3>1. CASE h = g
        BY <1>1, <1>4, <1>6, <2>1, <3>1, OwnHolds, HasOwnStays DEF CopiesHaveOwn
      <3>2. CASE h # g
        <4>1. h \in Acknowledged \ excused
          BY <1>2, <1>3, <3>2
        <4>2. Holds(s, h)
          BY <1>1, <2>1, <4>1 DEF CopiesHaveOthers, Acknowledged
        <4> QED
          BY <1>7, <4>1, <4>2
      <3> QED
        BY <3>1, <3>2
    <2> QED
      BY <2>2, <2>3 DEF Holds
  <1>9. CopiesHaveOwn'
    BY <1>1 DEF TypeOK, CopiesHaveOwn, HasOwn
  <1>10. CopiesHaveOthers'
    <2> SUFFICES ASSUME NEW k \in Handlers, NEW h \in Acknowledged' \ excused', Busy(k)'
                 PROVE  Holds(memory[k], h)'
      BY DEF CopiesHaveOthers
    <2>1. k \in others
      BY DEF TypeOK, Busy
    <2>2. h \in Acknowledged \ excused
      BY <1>2, <1>3, <2>1
    <2>3. PICK s : s = memory[k]
      OBVIOUS
    <2>4. Holds(s, h)
      BY <2>1, <2>2, <2>3 DEF CopiesHaveOthers, Acknowledged
    <2>5. Holds(s, h)'
      BY <1>7, <2>2, <2>4
    <2> QED
      BY <2>3, <2>5 DEF Holds
  <1>11. FileHasCause'
    <2>1. Failed => Failed'
      BY DEF TypeOK, Failed
    <2>2. ASSUME NEW h \in Handlers, pc'[h] = "opened" PROVE excused' # {}
      <3>1. h \in others
        BY <2>2 DEF TypeOK, Busy
      <3> QED
        BY <1>3, <3>1
    <2>3. file'.kind \in {"state", "torn"}
      BY DEF Readable, Torn
    <2>4. file'.kind = "torn" => excused' # {} \/ Failed'
      <3> SUFFICES ASSUME file'.kind = "torn" PROVE excused' # {} \/ Failed'
        OBVIOUS
      <3>1. file.kind \in {"state", "torn"}
        BY DEF Readable
      <3>2. excused # {} \/ Failed
        BY <1>1, <3>1 DEF FileHasCause
      <3> QED
        BY <1>3, <2>1, <3>2
    <2> QED
      BY <2>2, <2>3, <2>4 DEF FileHasCause
  <1> QED
    BY <1>4, <1>6, <1>8, <1>9, <1>10, <1>11

LEMMA FailStep ==
  ASSUME IInv, NEW gone \in SUBSET Handlers, Fail(gone)
  PROVE  IInv'
  <1> USE DEF IInv, Fail
  <1>1. \A h \in Handlers : pc'[h] = IF h \in gone THEN "failed" ELSE pc[h]
    OBVIOUS
  <1>2. TypeOK'
    <2>1. pc' \in [Handlers -> {"idle", "loaded", "opened", "saved", "failed"}]
      BY DEF TypeOK
    <2>2. file'.kind \in {"absent", "torn", "truncated", "state"} /\ file'.state \in State
      BY EmptyIsState DEF TypeOK, Readable, Torn
    <2> QED
      BY <2>1, <2>2 DEF TypeOK
  <1>3. Acknowledged' = Acknowledged
    BY <1>1 DEF Acknowledged, Busy
  <1>4. AnsweredOnce'
    <2>1. \A i \in 1..Len(answered) : answered[i] \in Acknowledged /\ pc[answered[i]] = "saved"
      BY DEF TypeOK, AnsweredOnce, Acknowledged
    <2>2. \A h \in Acknowledged : pc'[h] = "saved"
      BY <1>1 DEF Acknowledged, Busy
    <2> QED
      BY <1>3, <2>1, <2>2 DEF AnsweredOnce
  <1>5. Grows
    BY DEF Grows, TypeOK
  <1>6. ASSUME NEW h \in Acknowledged, NEW s, Holds(s, h)
        PROVE  Holds(s, h)'
    BY <1>2, <1>4, <1>5, <1>6, HoldsStays
  <1>7. LossHasACause'
    <2> SUFFICES ASSUME file'.kind = "state", NEW h \in Acknowledged \ excused PROVE Holds(file.state, h)'
      BY <1>3 DEF LossHasACause
    <2>1. PICK s : s = file'.state
      OBVIOUS
    <2>2. Holds(s, h)
      <3>1. CASE file' = file
        BY <2>1, <3>1 DEF LossHasACause
      <3>2. CASE \E g \in gone : file' = Readable(memory[g])
        BY <2>1, <3>2 DEF CopiesHaveOthers, Readable, Acknowledged
      <3> QED
        BY <3>1, <3>2 DEF Torn
    <2>3. Holds(s, h)'
      BY <1>6, <2>2
    <2> QED
      BY <2>1, <2>3 DEF Holds
  <1>8. CopiesHaveOwn'
    BY <1>1 DEF CopiesHaveOwn, HasOwn
  <1>9. CopiesHaveOthers'
    <2> SUFFICES ASSUME NEW k \in Handlers, NEW h \in Acknowledged \ excused, Busy(k)'
                 PROVE  Holds(memory[k], h)'
      BY <1>3 DEF CopiesHaveOthers
    <2>1. PICK s : s = memory[k]
      OBVIOUS
    <2>2. Holds(s, h)
      BY <1>1, <2>1 DEF CopiesHaveOthers, Acknowledged, Busy
    <2>3. Holds(s, h)'
      BY <1>6, <2>2
    <2> QED
      BY <2>1, <2>3 DEF Holds
  <1>10. FileHasCause'
    <2>1. Failed'
      BY <1>1 DEF Failed
    <2>2. file'.kind = "absent" => \A h \in Handlers : pc'[h] \notin {"opened", "saved"}
      BY <1>1 DEF FileHasCause, Readable, Torn
    <2> QED
      BY <2>1, <2>2 DEF FileHasCause
  <1> QED
    BY <1>2, <1>4, <1>7, <1>8, <1>9, <1>10

LEMMA Invariance == Spec => []IInv
  <1>1. IInv /\ [Next]_vars => IInv'
    <2> SUFFICES ASSUME IInv, [Next]_vars PROVE IInv'
      OBVIOUS
    <2>1. CASE Next
      BY <2>1, LoadStep, OpenStep, SaveStep, FailStep DEF Next
    <2>2. CASE UNCHANGED vars
      <3> USE <2>2 DEF vars, IInv, Acknowledged, Busy
      <3>1. TypeOK' /\ AnsweredOnce'
        BY DEF TypeOK, AnsweredOnce
      <3>2. CopiesHaveOwn' /\ FileHasCause'
        BY DEF CopiesHaveOwn, HasOwn, FileHasCause, Failed
      <3>3. ASSUME NEW h \in Acknowledged, NEW s, Holds(s, h)
            PROVE  Holds(s, h)'
        BY <3>1, <3>3, HoldsStays DEF Grows, TypeOK
      <3>4. LossHasACause'
        <4> SUFFICES ASSUME file.kind = "state", NEW h \in Acknowledged \ excused PROVE Holds(file.state, h)'
          BY DEF LossHasACause
        <4>1. PICK s : s = file.state
          OBVIOUS
        <4>2. Holds(s, h)'
          BY <3>3, <4>1 DEF LossHasACause
        <4> QED
          BY <4>1, <4>2 DEF Holds
      <3>5. CopiesHaveOthers'
        <4> SUFFICES ASSUME NEW k \in Handlers, NEW h \in Acknowledged \ excused, Busy(k) PROVE Holds(memory[k], h)'
          BY DEF CopiesHaveOthers
        <4>1. PICK s : s = memory[k]
          OBVIOUS
        <4>2. Holds(s, h)'
          BY <3>3, <4>1 DEF CopiesHaveOthers
        <4> QED
          BY <4>1, <4>2 DEF Holds
      <3> QED
        BY <3>1, <3>2, <3>4, <3>5
    <2> QED
      BY <2>1, <2>2
  <1> QED
    BY InitHolds, <1>1, PTL DEF Spec

(* An attempt, a status or a message that was acknowledged is lost only    *)
(* for a cause, however many requests overlap, fail or die.                *)
THEOREM NoLossWithoutCause == Spec => []LossHasACause
  BY Invariance, PTL DEF IInv

(* The file is left unreadable only by a request that failed or by two     *)
(* that overlapped.                                                        *)
THEOREM TornForCause == Spec => []ReadableWhenQuiet
  <1>1. IInv => ReadableWhenQuiet
    BY DEF IInv, FileHasCause, ReadableWhenQuiet, Failed, Busy
  <1> QED
    BY <1>1, Invariance, PTL

-----------------------------------------------------------------------------
(* The solutions of the tasks, as the plan links them and as the inventory *)
(* groups them.                                                            *)

CONSTANTS Ids, Sections, NoSection, Materials, Nodes

VARIABLES linked, link, used, grouped, group, paired

PR == INSTANCE Pairing

Listings == Materials \in Seq(PR!Resource) /\ Nodes \in Seq(PR!Resource)

M == 1..Len(Materials)
N == 1..Len(Nodes)

PairingTypeOK ==
    /\ linked \in 0..Len(Materials) /\ link \in [M -> 0..Len(Materials)]
    /\ grouped \in 0..Len(Nodes) /\ group \in [N -> SUBSET N]

(* What the plan has in hand: the solutions it has linked, all of them to  *)
(* tasks it has passed.                                                    *)
PlanInv ==
    /\ used = {Materials[link[k]].id : k \in PR!Linked}
    /\ \A i \in M : link[i] # 0 => i <= linked /\ PR!Kind(Materials[i]) = "task"
    /\ PR!PlanIsGreedy

(* The solutions of the pairs among the first n nodes.                     *)
Solutions(n) == {j \in N : \E k \in 1..n : group[k] = {j}}

(* What the inventory has in hand: the solutions of the pairs.             *)
InventoryInv ==
    /\ paired = {Nodes[j].id : j \in Solutions(grouped)}
    /\ \A i \in N : group[i] # {} => i <= grouped /\ PR!IsSheet(Nodes[i])
    /\ PR!InventoryIsCareful

PairingInv == PairingTypeOK /\ PlanInv /\ InventoryInv

LEMMA Lengths == ASSUME Listings PROVE Len(Materials) \in Nat /\ Len(Nodes) \in Nat
  BY DEF Listings

LEMMA PairingInit == ASSUME Listings PROVE PR!Init => PairingInv
  <1> SUFFICES ASSUME PR!Init PROVE PairingInv
    OBVIOUS
  <1> USE Lengths DEF PR!Init, M, N
  <1>1. PairingTypeOK
    BY DEF PairingTypeOK
  <1>2. PlanInv
    BY DEF PlanInv, PR!PlanIsGreedy, PR!Linked, PR!TaskLinks
  <1>3. InventoryInv
    BY DEF InventoryInv, PR!InventoryIsCareful, PR!TaskGroups, Solutions
  <1> QED
    BY <1>1, <1>2, <1>3 DEF PairingInv

(* What a step of the plan leaves of its earlier links.                    *)
LEMMA PlanGrows ==
    ASSUME Listings, PairingTypeOK, PlanInv, linked < Len(Materials), NEW j \in 0..Len(Materials),
           linked' = linked + 1, link' = [link EXCEPT ![linked + 1] = j]
    PROVE  /\ linked + 1 \in M /\ link'[linked + 1] = j
           /\ \A k \in 1..linked : k \in M /\ link'[k] = link[k]
           /\ \A i \in 1..(linked + 1) : \A id : PR!Taken(i, id) <=> \E k \in 1..(i - 1) :
                  link'[k] # 0 /\ Materials[link'[k]].id = id
           /\ \A i \in M : link'[i] # 0 => i <= linked + 1 /\ (i = linked + 1 \/ PR!Kind(Materials[i]) = "task")
  <1> USE Lengths DEF M
  <1>1. linked + 1 \in M /\ link'[linked + 1] = j
    BY DEF PairingTypeOK
  <1>2. \A k \in 1..linked : k \in M /\ link'[k] = link[k]
    BY DEF PairingTypeOK
  <1>3. \A i \in 1..(linked + 1) : \A k \in 1..(i - 1) : k \in 1..linked
    BY DEF PairingTypeOK
  <1>4. \A i \in 1..(linked + 1) : \A id : PR!Taken(i, id) <=> \E k \in 1..(i - 1) :
            link'[k] # 0 /\ Materials[link'[k]].id = id
    BY <1>2, <1>3 DEF PR!Taken
  <1>5. \A i \in M : link'[i] # 0 => i <= linked + 1 /\ (i = linked + 1 \/ PR!Kind(Materials[i]) = "task")
    BY DEF PairingTypeOK, PlanInv
  <1> QED
    BY <1>1, <1>2, <1>4, <1>5

LEMMA PlanStep == ASSUME Listings, PairingTypeOK, PlanInv, [PR!Next]_(PR!vars) PROVE PlanInv' /\ linked' \in 0..Len(Materials) /\ link' \in [M -> 0..Len(Materials)]
  <1> USE Lengths DEF M
  (* The next material gets the solution j, or none.                       *)
  <1>1. ASSUME linked < Len(Materials), NEW j \in 0..Len(Materials),
               linked' = linked + 1, link' = [link EXCEPT ![linked + 1] = j],
               j # 0 <=> PR!Kind(Materials[linked + 1]) = "task" /\ PR!Free(Materials, linked + 1, used) # {},
               j # 0 => /\ j \in PR!Free(Materials, linked + 1, used)
                        /\ \A k \in PR!Free(Materials, linked + 1, used) : j <= k,
               used' = IF j = 0 THEN used ELSE used \cup {Materials[j].id}
        PROVE  PlanInv' /\ linked' \in 0..Len(Materials) /\ link' \in [M -> 0..Len(Materials)]
    <2> DEFINE i == linked + 1
    <2>1. /\ i \in M /\ link'[i] = j
          /\ \A k \in 1..linked : k \in M /\ link'[k] = link[k]
          /\ \A l \in 1..(linked + 1) : \A id : PR!Taken(l, id) <=> \E k \in 1..(l - 1) :
                 link'[k] # 0 /\ Materials[link'[k]].id = id
          /\ \A l \in M : link'[l] # 0 => l <= linked + 1 /\ (l = linked + 1 \/ PR!Kind(Materials[l]) = "task")
      BY <1>1, PlanGrows
    <2>2. \A l \in 1..i : \A id : PR!Taken(l, id)' <=> PR!Taken(l, id)
      BY <2>1 DEF PR!Taken
    <2>3. \A id : id \in used <=> PR!Taken(i, id)
      <3>1. 1..(i - 1) = 1..linked
        BY DEF PairingTypeOK
      <3> QED
        BY <3>1 DEF PlanInv, PR!Linked, PR!Taken
    <2>4. used' = {Materials[link'[k]].id : k \in PR!Linked'}
      <3>1. PR!Linked' = PR!Linked \cup (IF j = 0 THEN {} ELSE {i})
        BY <1>1, <2>1 DEF PR!Linked, PairingTypeOK
      <3>2. \A k \in PR!Linked : link'[k] = link[k]
        BY <2>1 DEF PR!Linked
      <3> QED
        BY <1>1, <2>1, <3>1, <3>2 DEF PlanInv
    <2>5. ASSUME NEW l \in PR!TaskLinks'
          PROVE  /\ link'[l] # 0 => PR!Fits(Materials[l], Materials[link'[l]]) /\ ~PR!Taken(l, Materials[link'[l]].id)
                 /\ \A k \in M : PR!Fits(Materials[l], Materials[k]) /\ (link'[l] = 0 \/ k < link'[l]) => PR!Taken(l, Materials[k].id)
      <3>1. CASE l = i
        <4>1. PR!Kind(Materials[i]) = "task"
          BY <2>5, <3>1 DEF PR!TaskLinks
        <4>2. \A k \in M : PR!Fits(Materials[i], Materials[k]) => k \in PR!Free(Materials, i, used) \/ PR!Taken(i, Materials[k].id)
          BY <2>3 DEF PR!Free
        <4>3. \A k \in PR!Free(Materials, i, used) : PR!Fits(Materials[i], Materials[k]) /\ ~PR!Taken(i, Materials[k].id) /\ k \in Int
          BY <2>3 DEF PR!Free
        <4> HIDE DEF i
        <4>4. link'[l] = j /\ i = linked + 1
          BY <2>1, <3>1 DEF i
        <4> QED
          BY <1>1, <3>1, <4>1, <4>2, <4>3, <4>4
      <3>2. CASE l \in 1..linked
        <4>1. l \in PR!TaskLinks /\ link'[l] = link[l]
          BY <2>1, <2>5, <3>2 DEF PR!TaskLinks
        <4> QED
          BY <4>1 DEF PlanInv, PR!PlanIsGreedy
      <3> QED
        BY <1>1, <2>5, <3>1, <3>2 DEF PR!TaskLinks, PairingTypeOK
    <2>6. PR!PlanIsGreedy'
      <3>1. \A l \in PR!TaskLinks' : l \in 1..i
        BY <1>1 DEF PR!TaskLinks
      <3>2. \A l \in PR!TaskLinks' : \A id : PR!Taken(l, id)' <=> PR!Taken(l, id)
        BY <2>2, <3>1
      <3> QED
        BY <2>5, <3>2 DEF PR!PlanIsGreedy
    <2>7. \A l \in M : link'[l] # 0 => l <= linked' /\ PR!Kind(Materials[l]) = "task"
      BY <1>1, <2>1
    <2>8. linked' \in 0..Len(Materials) /\ link' \in [M -> 0..Len(Materials)]
      BY <1>1 DEF PairingTypeOK
    <2> QED
      BY <2>4, <2>6, <2>7, <2>8 DEF PlanInv
  <1>2. CASE PR!SkipMaterial
    <2>1. linked + 1 \in M /\ link[linked + 1] = 0
      BY <1>2 DEF PR!SkipMaterial, PairingTypeOK, PlanInv
    <2>2. link' = [link EXCEPT ![linked + 1] = 0]
      BY <1>2, <2>1 DEF PR!SkipMaterial, PairingTypeOK
    <2>3. linked < Len(Materials) /\ linked' = linked + 1 /\ used' = used /\ PR!Kind(Materials[linked + 1]) # "task"
      BY <1>2 DEF PR!SkipMaterial
    <2>4. 0 \in 0..Len(Materials)
      OBVIOUS
    <2> QED
      BY <1>1, <2>2, <2>3, <2>4
  <1>3. CASE PR!LinkTask
    <2> DEFINE free == PR!Free(Materials, linked + 1, used)
    <2>1. CASE free = {} /\ UNCHANGED <<link, used>>
      <3>1. linked + 1 \in M /\ link[linked + 1] = 0
        BY <1>3 DEF PR!LinkTask, PairingTypeOK, PlanInv
      <3>2. link' = [link EXCEPT ![linked + 1] = 0]
        BY <2>1, <3>1 DEF PairingTypeOK
      <3>3. linked < Len(Materials) /\ linked' = linked + 1 /\ used' = used /\ 0 \in 0..Len(Materials)
        BY <1>3, <2>1 DEF PR!LinkTask
      <3> QED
        BY <1>1, <2>1, <3>2, <3>3
    <2>2. ASSUME NEW j \in free, \A k \in free : j <= k, link' = [link EXCEPT ![linked + 1] = j],
                 used' = used \cup {Materials[j].id}
          PROVE  PlanInv' /\ linked' \in 0..Len(Materials) /\ link' \in [M -> 0..Len(Materials)]
      <3>1. j \in 0..Len(Materials) /\ j # 0
        BY <2>2 DEF PR!Free
      <3>2. linked < Len(Materials) /\ linked' = linked + 1 /\ PR!Kind(Materials[linked + 1]) = "task" /\ free # {}
        BY <1>3, <2>2 DEF PR!LinkTask
      <3>3. used' = IF j = 0 THEN used ELSE used \cup {Materials[j].id}
        BY <2>2, <3>1
      <3> QED
        BY <1>1, <2>2, <3>1, <3>2, <3>3
    <2> QED
      BY <1>3, <2>1, <2>2 DEF PR!LinkTask
  <1>4. ASSUME UNCHANGED <<linked, link, used>>
        PROVE  PlanInv' /\ linked' \in 0..Len(Materials) /\ link' \in [M -> 0..Len(Materials)]
    BY <1>4 DEF PlanInv, PR!PlanIsGreedy, PR!TaskLinks, PR!Linked, PR!Taken, PairingTypeOK
  <1> QED
    BY <1>2, <1>3, <1>4 DEF PR!Next, PR!SkipNode, PR!GroupSheet, PR!vars

(* What a step of the inventory leaves of its earlier groups.              *)
LEMMA InventoryStep ==
    ASSUME Listings, PairingTypeOK, InventoryInv, [PR!Next]_(PR!vars)
    PROVE  InventoryInv' /\ grouped' \in 0..Len(Nodes) /\ group' \in [N -> SUBSET N]
  <1> USE Lengths DEF N
  (* The next node gets the candidates C, which are all that is free, or   *)
  (* none where that is no single one, or where it is no sheet.            *)
  <1>1. ASSUME grouped < Len(Nodes), NEW C, C \in SUBSET N,
               grouped' = grouped + 1, group' = [group EXCEPT ![grouped + 1] = C],
               paired' = paired \cup {Nodes[j].id : j \in {k \in C : C = {k}}},
               C # {} => PR!IsSheet(Nodes[grouped + 1]),
               PR!IsSheet(Nodes[grouped + 1]) =>
                   \/ C = PR!Free(Nodes, grouped + 1, paired)
                   \/ /\ C = {} /\ Nodes[grouped + 1].number = 0
                      /\ ~\E j \in PR!Free(Nodes, grouped + 1, paired) : PR!Free(Nodes, grouped + 1, paired) = {j}
        PROVE  InventoryInv' /\ grouped' \in 0..Len(Nodes) /\ group' \in [N -> SUBSET N]
    <2> DEFINE i == grouped + 1
    <2>1. /\ i \in N /\ group'[i] = C /\ i \in Nat
          /\ \A k \in 1..grouped : k \in N /\ group'[k] = group[k]
          /\ \A l \in 1..i : \A k \in 1..(l - 1) : k \in 1..grouped
          /\ 1..(i - 1) = 1..grouped /\ 1..((grouped + 1) + 1 - 1) = 1..grouped \cup {i}
      BY <1>1 DEF PairingTypeOK
    <2>2. \A l \in 1..i : \A id : PR!TakenOfGroups(l, id)' <=> PR!TakenOfGroups(l, id)
      BY <2>1 DEF PR!TakenOfGroups
    <2>3. \A id : id \in paired <=> PR!TakenOfGroups(i, id)
      <3>1. \A id : id \in paired <=> \E j \in Solutions(grouped) : Nodes[j].id = id
        BY DEF InventoryInv
      <3> QED
        BY <2>1, <3>1 DEF PR!TakenOfGroups, Solutions
    <2>4. paired' = {Nodes[j].id : j \in Solutions(grouped)'}
      <3>1. Solutions(grouped)' = {j \in N : \E k \in 1..(grouped + 1) : group'[k] = {j}}
        BY <1>1 DEF Solutions
      <3>2. 1..(grouped + 1) = 1..grouped \cup {i}
        BY <1>1 DEF PairingTypeOK
      <3>3. Solutions(grouped)' = Solutions(grouped) \cup {k \in C : C = {k}}
        BY <1>1, <2>1, <3>1, <3>2 DEF Solutions
      <3> QED
        BY <1>1, <3>3 DEF InventoryInv
    <2>5. ASSUME NEW l \in PR!TaskGroups' PROVE PR!AllOrNone(l, group'[l], PR!Fitting(l))
      <3>1. CASE l = i
        <4>1. PR!Fitting(i) = PR!Free(Nodes, i, paired)
          BY <2>3 DEF PR!Free, PR!Fitting
        <4>2. PR!IsSheet(Nodes[i])
          BY <2>5, <3>1 DEF PR!TaskGroups
        <4>3. PR!AllOrNone(i, C, PR!Fitting(i))
          BY <1>1, <4>1, <4>2 DEF PR!AllOrNone
        <4> QED
          BY <2>1, <3>1, <4>3
      <3>2. CASE l \in 1..grouped
        <4>1. l \in PR!TaskGroups /\ group'[l] = group[l]
          BY <2>1, <2>5, <3>2 DEF PR!TaskGroups
        <4> QED
          BY <4>1 DEF InventoryInv, PR!InventoryIsCareful
      <3>3. l = i \/ l \in 1..grouped
        BY <1>1, <2>5 DEF PR!TaskGroups, PairingTypeOK
      <3> QED
        BY <3>1, <3>2, <3>3
    <2>6. PR!InventoryIsCareful'
      <3>1. \A l \in PR!TaskGroups' : l \in 1..i
        BY <1>1 DEF PR!TaskGroups
      <3>2. \A l \in PR!TaskGroups' : \A id : PR!TakenOfGroups(l, id)' <=> PR!TakenOfGroups(l, id)
        BY <2>2, <3>1
      <3>3. \A l \in PR!TaskGroups' : PR!Fitting(l)' = PR!Fitting(l)
        BY <3>2 DEF PR!Fitting
      <3>4. \A l \in PR!TaskGroups' : PR!AllOrNone(l, group'[l], PR!Fitting(l)')
        BY <2>5, <3>3
      <3> QED
        BY <3>4 DEF PR!InventoryIsCareful, PR!AllOrNone
    <2>7. \A l \in N : group'[l] # {} => l <= grouped' /\ PR!IsSheet(Nodes[l])
      BY <1>1, <2>1 DEF PairingTypeOK, InventoryInv
    <2>8. grouped' \in 0..Len(Nodes) /\ group' \in [N -> SUBSET N]
      BY <1>1 DEF PairingTypeOK
    <2> QED
      BY <1>1, <2>4, <2>6, <2>7, <2>8 DEF InventoryInv
  <1>2. CASE PR!SkipNode
    <2>1. grouped + 1 \in N /\ group[grouped + 1] = {}
      BY <1>2 DEF PR!SkipNode, PairingTypeOK, InventoryInv
    <2>2. group' = [group EXCEPT ![grouped + 1] = {}]
      BY <1>2, <2>1 DEF PR!SkipNode, PairingTypeOK
    <2>3. grouped < Len(Nodes) /\ grouped' = grouped + 1 /\ paired' = paired /\ ~PR!IsSheet(Nodes[grouped + 1])
      BY <1>2 DEF PR!SkipNode
    <2>4. paired' = paired \cup {Nodes[j].id : j \in {k \in {} : {} = {k}}}
      BY <2>3
    <2> QED
      BY <1>1, <2>2, <2>3, <2>4
  <1>3. CASE PR!GroupSheet
    <2> DEFINE C == PR!Candidates(grouped + 1)
    <2>1. /\ grouped < Len(Nodes) /\ grouped' = grouped + 1 /\ PR!IsSheet(Nodes[grouped + 1])
          /\ group' = [group EXCEPT ![grouped + 1] = C]
          /\ paired' = paired \cup {Nodes[j].id : j \in {k \in C : C = {k}}}
      BY <1>3 DEF PR!GroupSheet
    <2>2. /\ C \in SUBSET N
          /\ \/ C = PR!Free(Nodes, grouped + 1, paired)
             \/ /\ C = {} /\ Nodes[grouped + 1].number = 0
                /\ ~\E j \in PR!Free(Nodes, grouped + 1, paired) : PR!Free(Nodes, grouped + 1, paired) = {j}
      BY DEF PR!Candidates, PR!Free
    <2> HIDE DEF C
    <2> QED
      BY <1>1, <2>1, <2>2
  <1>4. ASSUME UNCHANGED <<grouped, group, paired>>
        PROVE  InventoryInv' /\ grouped' \in 0..Len(Nodes) /\ group' \in [N -> SUBSET N]
    <2>1. \A i \in PR!TaskGroups : PR!Fitting(i)' = PR!Fitting(i)
      BY <1>4 DEF PR!Fitting, PR!TakenOfGroups
    <2>2. PR!InventoryIsCareful'
      BY <1>4, <2>1 DEF InventoryInv, PR!InventoryIsCareful, PR!TaskGroups, PR!AllOrNone
    <2> QED
      BY <1>4, <2>2 DEF InventoryInv, Solutions, PairingTypeOK
  <1> QED
    BY <1>2, <1>3, <1>4 DEF PR!Next, PR!SkipMaterial, PR!LinkTask, PR!vars

LEMMA PairingInvariance == ASSUME Listings PROVE PR!Spec => []PairingInv
  <1>1. PairingInv /\ [PR!Next]_(PR!vars) => PairingInv'
    BY PlanStep, InventoryStep DEF PairingInv, PairingTypeOK
  <1> QED
    BY PairingInit, <1>1, PTL DEF PR!Spec

(* A task's solution is the first free one that fits, and a task is        *)
(* without one only if earlier tasks have all that fit.                    *)
THEOREM LinksAreGreedy == ASSUME Listings PROVE PR!Spec => []PR!PlanIsGreedy
  BY PairingInvariance, PTL DEF PairingInv, PlanInv

(* A pair of the inventory is the only one possible at its turn.           *)
THEOREM PairsAreCareful == ASSUME Listings PROVE PR!Spec => []PR!InventoryIsCareful
  BY PairingInvariance, PTL DEF PairingInv, InventoryInv

(* No solution is given away twice.                                        *)
THEOREM EachSolutionOnce == ASSUME Listings PROVE PR!Spec => []PR!SolutionsAreLinkedOnce
  <1> SUFFICES ASSUME Listings PROVE PairingInv => PR!SolutionsAreLinkedOnce
    BY PairingInvariance, PTL
  <1> SUFFICES ASSUME PairingInv PROVE PR!SolutionsAreLinkedOnce
    OBVIOUS
  <1> USE Lengths DEF PairingInv, PairingTypeOK
  <1>1. ASSUME NEW i \in PR!Linked, NEW k \in PR!Linked, i < k, Materials[link[i]].id = Materials[link[k]].id PROVE FALSE
    <2>1. i \in 1..(k - 1) /\ link[i] # 0 /\ k \in PR!TaskLinks /\ link[k] # 0
      BY <1>1 DEF PR!Linked, PR!TaskLinks, PlanInv, M
    <2>2. PR!Taken(k, Materials[link[k]].id)
      BY <1>1, <2>1 DEF PR!Taken
    <2> QED
      BY <2>1, <2>2 DEF PlanInv, PR!PlanIsGreedy
  <1>2. ASSUME NEW i \in PR!PairedGroups, NEW k \in PR!PairedGroups, i < k,
               NEW j \in group[i], NEW l \in group[k], Nodes[j].id = Nodes[l].id
        PROVE  FALSE
    <2>1. i \in 1..(k - 1) /\ PR!Pairs(i) /\ k \in PR!TaskGroups /\ group[k] # {}
      BY <1>2 DEF PR!PairedGroups, PR!TaskGroups, InventoryInv, N
    <2>2. group[i] = {j} /\ j \in N
      BY <1>2, <2>1 DEF PR!Pairs, PR!PairedGroups, InventoryInv, N
    <2>3. PR!TakenOfGroups(k, Nodes[l].id)
      BY <1>2, <2>1, <2>2 DEF PR!TakenOfGroups, N
    <2>4. group[k] = PR!Fitting(k)
      BY <2>1 DEF InventoryInv, PR!InventoryIsCareful, PR!AllOrNone
    <2> QED
      BY <1>2, <2>3, <2>4 DEF PR!Fitting
  <1>3. \A i, k \in PR!Linked : i \in Int /\ k \in Int /\ (i = k \/ i < k \/ k < i)
    BY DEF PR!Linked
  <1>4. \A i, k \in PR!PairedGroups : i \in Int /\ k \in Int /\ (i = k \/ i < k \/ k < i)
    BY DEF PR!PairedGroups
  <1>5. \A i, k \in PR!Linked : Materials[link[i]].id = Materials[link[k]].id => i = k
    BY <1>1, <1>3
  <1>6. \A i, k \in PR!PairedGroups : \A j \in group[i], l \in group[k] : Nodes[j].id = Nodes[l].id => i = k
    BY <1>2, <1>4
  <1> QED
    BY <1>5, <1>6 DEF PR!SolutionsAreLinkedOnce

=============================================================================
