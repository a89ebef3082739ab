---------------------------- MODULE Pages_proofs -----------------------------
(***************************************************************************)
(* Proofs about the pages of a document.  AppServer, for any number of     *)
(* pages and any channel: what text a page gets when it is read, and what  *)
(* the caller can be left waiting for.  PdfViewer, for any viewers and     *)
(* servers: what the server tells of the pages that are shown.             *)
(***************************************************************************)
EXTENDS AppServer, SequenceTheorems, TLAPS

Texts == {1, 2}
Answers == [kind : {"answer"}, of : Requests, text : BOOLEAN]
Tellings == [kind : {"item", "delta"}, of : 1..Pages, text : Texts]
Ends == [kind : {"done"}, of : 1..Pages, text : {None}]
Others == [kind : {"error", "other"}, of : (1..Pages) \cup {None}, text : {None}]
Messages == Answers \cup Tellings \cup Ends \cup Others

(* All that the server has sent and the caller has not taken, in order.    *)
All == channel \o wire

TypeOK ==
    /\ wire \in Seq(Messages) /\ channel \in Seq(Messages)
    /\ pc \in {"write", "call", "collect", "ok", "error"} /\ id \in 0..(Setup + Pages)
    /\ delta \in Seq(Texts) /\ completed \in Texts \cup {None} /\ texts \in Seq(Seq(Texts))
    /\ alive \in BOOLEAN /\ owed \subseteq Requests /\ plan \in Seq(Messages)
    /\ said \in [1..Pages -> [item : Texts \cup {None}, deltas : Seq(Texts), done : BOOLEAN]]

IsItem(m, t) == m.kind = "item" /\ m.of = t
IsDelta(m, t) == m.kind = "delta" /\ m.of = t
IsDone(m, t) == m.kind = "done" /\ m.of = t
IsTold(m, t) == IsItem(m, t) \/ IsDelta(m, t) \/ IsDone(m, t)

(* What is left of the turn once the messages of s are taken: the last     *)
(* item, or c; the one delta, or d.                                        *)
ItemIs(s, t, c, v) ==
    \/ v = c /\ \A i \in 1..Len(s) : ~IsItem(s[i], t)
    \/ \E i \in 1..Len(s) : /\ IsItem(s[i], t) /\ v = s[i].text
                            /\ \A j \in (i + 1)..Len(s) : ~IsItem(s[j], t)

DeltasAre(s, t, d, v) ==
    \/ v = d /\ \A i \in 1..Len(s) : ~IsDelta(s[i], t)
    \/ /\ d = <<>>
       /\ \E i \in 1..Len(s) : /\ IsDelta(s[i], t) /\ v = <<s[i].text>>
                               /\ \A j \in 1..Len(s) : j # i => ~IsDelta(s[j], t)

(* The completion of a turn is the last thing that is told of it.          *)
EndsLast(s, t) ==
    \A i \in 1..Len(s) : IsDone(s[i], t) => \A j \in (i + 1)..Len(s) : ~IsTold(s[j], t)

Has(s, t) == \E i \in 1..Len(s) : IsDone(s[i], t)

(* What the server still has to tell is of the turn that the caller began  *)
(* last.                                                                   *)
PlanIs(s, t) ==
    /\ \A i \in 1..Len(s) : s[i].kind \in {"item", "delta", "done"} => s[i].of = t
    /\ \A i \in 1..Len(s) : s[i].kind = "done" => i = Len(s)
    /\ \A i, j \in 1..Len(s) : s[i].kind = "delta" /\ s[j].kind = "delta" => i = j

Fresh == [item |-> None, deltas |-> <<>>, done |-> FALSE]

Planned ==
    alive /\ plan # <<>> =>
        /\ id > Setup /\ PlanIs(plan, Turn(id)) /\ ~said[Turn(id)].done
        /\ (\E i \in 1..Len(plan) : plan[i].kind = "delta") => said[Turn(id)].deltas = <<>>

Place ==
    /\ pc = "collect" => id > Setup
    /\ pc \in {"call", "collect"} /\ id > Setup => Len(texts) = Turn(id) - 1
    /\ pc = "call" => id > 0
    /\ pc = "write" /\ id > Setup => Len(texts) = Turn(id) /\ Turn(id) < Pages
    /\ pc \in {"write", "call"} /\ id <= Setup => texts = <<>>

(* Of a turn to come nothing is told; of a completed one nothing more.     *)
Ahead == \A t \in 1..Pages : t > Turn(id) => said[t] = Fresh /\ \A i \in 1..Len(All) : ~IsTold(All[i], t)

Ended == \A t \in 1..Pages : EndsLast(All, t) /\ (Has(All, t) => said[t].done)

(* The current turn: what the caller has, and what it is still to take.    *)
Current ==
    pc \in {"call", "collect"} /\ id > Setup =>
        /\ \/ Turn(id) \in dropped
           \/ /\ ItemIs(All, Turn(id), completed, said[Turn(id)].item)
              /\ DeltasAre(All, Turn(id), delta, said[Turn(id)].deltas)
        /\ said[Turn(id)].done => Turn(id) \in dropped \/ Has(All, Turn(id))

Pasts ==
    \A t \in 1..Len(texts) :
        /\ t <= Turn(id) /\ said[t].done
        /\ t \in dropped \/ texts[t] = TextOf(said[t].item, said[t].deltas)

IInv == TypeOK /\ Planned /\ Place /\ Ahead /\ Ended /\ Current /\ Pasts

-----------------------------------------------------------------------------
(* Sequences that grow at the end and shrink at the front *)

Longer(s, u, m) ==
    /\ Len(s) \in Nat /\ Len(u) = Len(s) + 1
    /\ \A i \in 1..Len(s) : u[i] = s[i]
    /\ u[Len(u)] = m

Shorter(s, u, m) ==
    /\ Len(s) \in Nat \ {0} /\ Len(u) = Len(s) - 1
    /\ m = s[1] /\ \A i \in 1..Len(u) : u[i] = s[i + 1]

LEMMA ItemLonger ==
  ASSUME NEW s, NEW u, NEW m, NEW t, NEW c, NEW v, Longer(s, u, m), ItemIs(s, t, c, v)
  PROVE  ItemIs(u, t, c, IF IsItem(m, t) THEN m.text ELSE v)
  <1>1. Len(u) \in Nat /\ Len(u) = Len(s) + 1 /\ Len(s) \in Nat /\ u[Len(u)] = m /\ \A i \in 1..Len(s) : u[i] = s[i]
    BY DEF Longer
  <1>2. CASE IsItem(m, t)
    BY <1>1, <1>2 DEF ItemIs
  <1>3. CASE ~IsItem(m, t)
    <2>1. CASE v = c /\ \A i \in 1..Len(s) : ~IsItem(s[i], t)
      BY <1>1, <1>3, <2>1 DEF ItemIs
    <2>2. ASSUME NEW i \in 1..Len(s), IsItem(s[i], t), v = s[i].text, \A j \in (i + 1)..Len(s) : ~IsItem(s[j], t)
          PROVE  ItemIs(u, t, c, v)
      <3>1. i \in 1..Len(u) /\ IsItem(u[i], t) /\ v = u[i].text
        BY <1>1, <2>2
      <3>2. \A j \in (i + 1)..Len(u) : ~IsItem(u[j], t)
        BY <1>1, <1>3, <2>2
      <3> QED
        BY <3>1, <3>2 DEF ItemIs
    <2> QED
      BY <1>3, <2>1, <2>2 DEF ItemIs
  <1> QED
    BY <1>2, <1>3

LEMMA ItemShorter ==
  ASSUME NEW s, NEW u, NEW m, NEW t, NEW c, NEW v, Shorter(s, u, m), ItemIs(s, t, c, v)
  PROVE  ItemIs(u, t, IF IsItem(m, t) THEN m.text ELSE c, v)
  <1>1. Len(s) \in Nat \ {0} /\ Len(u) = Len(s) - 1 /\ m = s[1] /\ \A i \in 1..Len(u) : u[i] = s[i + 1]
    BY DEF Shorter
  <1>2. \A i \in 1..Len(u) : i + 1 \in 1..Len(s)
    BY <1>1
  <1>3. CASE v = c /\ \A i \in 1..Len(s) : ~IsItem(s[i], t)
    BY <1>1, <1>2, <1>3 DEF ItemIs
  <1>4. ASSUME NEW i \in 1..Len(s), IsItem(s[i], t), v = s[i].text, \A j \in (i + 1)..Len(s) : ~IsItem(s[j], t)
        PROVE  ItemIs(u, t, IF IsItem(m, t) THEN m.text ELSE c, v)
    <2>1. CASE i = 1
      <3>1. \A j \in 1..Len(u) : ~IsItem(u[j], t)
        BY <1>1, <1>4, <2>1
      <3> QED
        BY <1>1, <1>4, <2>1, <3>1 DEF ItemIs
    <2>2. CASE i # 1
      <3>1. PICK k \in 1..Len(u) : k = i - 1
        BY <1>1, <2>2
      <3>2. u[k] = s[i]
        BY <1>1, <3>1
      <3>3. ASSUME NEW j \in (k + 1)..Len(u) PROVE ~IsItem(u[j], t)
        <4>1. j \in 1..Len(u) /\ j + 1 \in (i + 1)..Len(s)
          BY <1>1, <3>1
        <4> QED
          BY <1>1, <1>4, <4>1
      <3> QED
        BY <1>4, <3>2, <3>3 DEF ItemIs
    <2> QED
      BY <2>1, <2>2
  <1> QED
    BY <1>3, <1>4 DEF ItemIs

LEMMA DeltaLonger ==
  ASSUME NEW s, NEW u, NEW m, NEW t, NEW d, NEW v, Longer(s, u, m), DeltasAre(s, t, d, v)
  PROVE  /\ ~IsDelta(m, t) => DeltasAre(u, t, d, v)
         /\ IsDelta(m, t) /\ v = <<>> => DeltasAre(u, t, d, <<m.text>>)
  <1>1. Len(u) \in Nat /\ Len(u) = Len(s) + 1 /\ Len(s) \in Nat /\ u[Len(u)] = m /\ \A i \in 1..Len(s) : u[i] = s[i]
    BY DEF Longer
  <1>2. CASE v = d /\ \A i \in 1..Len(s) : ~IsDelta(s[i], t)
    <2>1. \A i \in 1..Len(u) : i # Len(u) => ~IsDelta(u[i], t)
      BY <1>1, <1>2
    <2>2. Len(u) \in 1..Len(u)
      BY <1>1
    <2> QED
      BY <1>1, <1>2, <2>1, <2>2 DEF DeltasAre
  <1>3. ASSUME d = <<>>, NEW i \in 1..Len(s), IsDelta(s[i], t), v = <<s[i].text>>,
               \A j \in 1..Len(s) : j # i => ~IsDelta(s[j], t)
        PROVE  v # <<>> /\ (~IsDelta(m, t) => DeltasAre(u, t, d, v))
    <2>1. v # <<>>
      BY <1>3
    <2>2. i \in 1..Len(u) /\ IsDelta(u[i], t) /\ v = <<u[i].text>>
      BY <1>1, <1>3
    <2>3. ~IsDelta(m, t) => \A j \in 1..Len(u) : j # i => ~IsDelta(u[j], t)
      BY <1>1, <1>3
    <2> QED
      BY <1>3, <2>1, <2>2, <2>3 DEF DeltasAre
  <1> QED
    BY <1>2, <1>3 DEF DeltasAre

LEMMA DeltaShorter ==
  ASSUME NEW s, NEW u, NEW m, NEW t, NEW d, NEW v, Shorter(s, u, m), DeltasAre(s, t, d, v)
  PROVE  /\ ~IsDelta(m, t) => DeltasAre(u, t, d, v)
         /\ IsDelta(m, t) => DeltasAre(u, t, Append(d, m.text), v)
  <1>1. Len(s) \in Nat \ {0} /\ Len(u) = Len(s) - 1 /\ m = s[1] /\ \A i \in 1..Len(u) : u[i] = s[i + 1]
    BY DEF Shorter
  <1>2. 1 \in 1..Len(s) /\ \A i \in 1..Len(u) : i + 1 \in 1..Len(s) /\ i + 1 # 1
    BY <1>1
  <1>3. CASE v = d /\ \A i \in 1..Len(s) : ~IsDelta(s[i], t)
    BY <1>1, <1>2, <1>3 DEF DeltasAre
  <1>4. ASSUME d = <<>>, NEW i \in 1..Len(s), IsDelta(s[i], t), v = <<s[i].text>>,
               \A j \in 1..Len(s) : j # i => ~IsDelta(s[j], t)
        PROVE  /\ ~IsDelta(m, t) => DeltasAre(u, t, d, v)
               /\ IsDelta(m, t) => DeltasAre(u, t, Append(d, m.text), v)
    <2>1. CASE i = 1
      <3>1. \A j \in 1..Len(u) : ~IsDelta(u[j], t)
        BY <1>1, <1>2, <1>4, <2>1
      <3>2. Append(d, m.text) = v
        BY <1>1, <1>4, <2>1
      <3> QED
        BY <1>1, <1>4, <2>1, <3>1, <3>2 DEF DeltasAre
    <2>2. CASE i # 1
      <3>1. PICK k \in 1..Len(u) : k = i - 1
        BY <1>1, <2>2
      <3>2. u[k] = s[i] /\ ~IsDelta(m, t)
        BY <1>1, <1>2, <1>4, <2>2, <3>1
      <3>3. \A j \in 1..Len(u) : j # k => ~IsDelta(u[j], t)
        BY <1>1, <1>2, <1>4, <3>1
      <3> QED
        BY <1>4, <3>2, <3>3 DEF DeltasAre
    <2> QED
      BY <2>1, <2>2
  <1> QED
    BY <1>3, <1>4 DEF DeltasAre

LEMMA EndsLonger ==
  ASSUME NEW s, NEW u, NEW m, NEW t, Longer(s, u, m)
  PROVE  /\ Has(u, t) <=> Has(s, t) \/ IsDone(m, t)
         /\ EndsLast(s, t) /\ (IsTold(m, t) => ~Has(s, t)) => EndsLast(u, t)
  <1>1. Len(u) \in Nat /\ Len(u) = Len(s) + 1 /\ Len(s) \in Nat /\ u[Len(u)] = m /\ \A i \in 1..Len(s) : u[i] = s[i]
    BY DEF Longer
  <1>2. 1..Len(u) = (1..Len(s)) \cup {Len(u)}
    BY <1>1
  <1>3. Has(u, t) <=> Has(s, t) \/ IsDone(m, t)
    BY <1>1, <1>2 DEF Has
  <1>4. ASSUME EndsLast(s, t), IsTold(m, t) => ~Has(s, t), NEW i \in 1..Len(u), IsDone(u[i], t), NEW j \in (i + 1)..Len(u)
        PROVE  ~IsTold(u[j], t)
    <2>1. i \in 1..Len(s) /\ IsDone(s[i], t)
      BY <1>1, <1>4
    <2>2. CASE j = Len(u)
      BY <1>1, <1>4, <2>1, <2>2 DEF Has
    <2>3. CASE j # Len(u)
      BY <1>1, <1>4, <2>1, <2>3 DEF EndsLast
    <2> QED
      BY <2>2, <2>3
  <1> QED
    BY <1>3, <1>4 DEF EndsLast

LEMMA EndsShorter ==
  ASSUME NEW s, NEW u, NEW m, NEW t, Shorter(s, u, m)
  PROVE  /\ Has(s, t) <=> Has(u, t) \/ IsDone(m, t)
         /\ EndsLast(s, t) => EndsLast(u, t)
  <1>1. Len(s) \in Nat \ {0} /\ Len(u) = Len(s) - 1 /\ m = s[1] /\ \A i \in 1..Len(u) : u[i] = s[i + 1]
    BY DEF Shorter
  <1>2. ASSUME Has(s, t) PROVE Has(u, t) \/ IsDone(m, t)
    <2>1. PICK i \in 1..Len(s) : IsDone(s[i], t)
      BY <1>2 DEF Has
    <2>2. CASE i # 1
      <3>1. i - 1 \in 1..Len(u) /\ u[i - 1] = s[i]
        BY <1>1, <2>2
      <3> QED
        BY <2>1, <3>1 DEF Has
    <2> QED
      BY <1>1, <2>1, <2>2
  <1>3. ASSUME Has(u, t) \/ IsDone(m, t) PROVE Has(s, t)
    BY <1>1, <1>3 DEF Has
  <1>4. ASSUME EndsLast(s, t), NEW i \in 1..Len(u), IsDone(u[i], t), NEW j \in (i + 1)..Len(u)
        PROVE  ~IsTold(u[j], t)
    <2>1. i + 1 \in 1..Len(s) /\ IsDone(s[i + 1], t) /\ j + 1 \in ((i + 1) + 1)..Len(s) /\ u[j] = s[j + 1]
      BY <1>1, <1>4
    <2> QED
      BY <1>4, <2>1 DEF EndsLast
  <1> QED
    BY <1>2, <1>3, <1>4 DEF EndsLast

-----------------------------------------------------------------------------
(* The queue *)

LEMMA AllIsSeq ==
  ASSUME TypeOK
  PROVE  All \in Seq(Messages) /\ Len(All) \in Nat /\ \A i \in 1..Len(All) : All[i] \in Messages
  BY ConcatProperties, ElementOfSeq, LenProperties DEF All, TypeOK

LEMMA SendGrows ==
  ASSUME TypeOK, NEW m \in Messages, Send(m), UNCHANGED channel
  PROVE  /\ wire' \in Seq(Messages)
         /\ Longer(All, All', m)
  <1>1. wire' = Append(wire, m) /\ wire \in Seq(Messages) /\ channel \in Seq(Messages)
    BY DEF Send, TypeOK
  <1>2. /\ wire' \in Seq(Messages) /\ Len(wire') = Len(wire) + 1 /\ wire'[Len(wire) + 1] = m
        /\ \A i \in 1..Len(wire) : wire'[i] = wire[i]
    BY <1>1, AppendProperties
  <1>3. /\ Len(channel \o wire) = Len(channel) + Len(wire)
        /\ \A i \in 1..(Len(channel) + Len(wire)) :
              (channel \o wire)[i] = IF i <= Len(channel) THEN channel[i] ELSE wire[i - Len(channel)]
    BY <1>1, ConcatProperties
  <1>4. /\ Len(channel \o wire') = Len(channel) + Len(wire')
        /\ \A i \in 1..(Len(channel) + Len(wire')) :
              (channel \o wire')[i] = IF i <= Len(channel) THEN channel[i] ELSE wire'[i - Len(channel)]
    BY <1>1, <1>2, ConcatProperties
  <1>5. All' = channel \o wire' /\ Len(channel) \in Nat /\ Len(wire) \in Nat
    BY <1>1, LenProperties DEF All
  <1> QED
    BY <1>2, <1>3, <1>4, <1>5 DEF All, Longer

LEMMA ReceiveShrinks ==
  ASSUME TypeOK, NEW m, Receive(m), UNCHANGED wire
  PROVE  /\ channel' \in Seq(Messages) /\ m \in Messages
         /\ Shorter(All, All', m)
  <1>1. channel' = Tail(channel) /\ m = Head(channel) /\ channel # <<>> /\ wire \in Seq(Messages) /\ channel \in Seq(Messages)
    BY DEF Receive, TypeOK
  <1>2. /\ m = channel[1] /\ m \in Messages
        /\ channel' \in Seq(Messages) /\ Len(channel') = Len(channel) - 1
        /\ \A i \in 1..Len(channel') : channel'[i] = channel[i + 1]
        /\ Len(channel) \in Nat \ {0}
    BY <1>1, HeadTailProperties, EmptySeq
  <1>3. /\ Len(channel \o wire) = Len(channel) + Len(wire)
        /\ \A i \in 1..(Len(channel) + Len(wire)) :
              (channel \o wire)[i] = IF i <= Len(channel) THEN channel[i] ELSE wire[i - Len(channel)]
    BY <1>1, ConcatProperties
  <1>4. /\ Len(channel' \o wire) = Len(channel') + Len(wire)
        /\ \A i \in 1..(Len(channel') + Len(wire)) :
              (channel' \o wire)[i] = IF i <= Len(channel') THEN channel'[i] ELSE wire[i - Len(channel')]
    BY <1>1, <1>2, ConcatProperties
  <1>5. All' = channel' \o wire /\ Len(wire) \in Nat
    BY <1>1, LenProperties DEF All
  <1>6. (channel \o wire)[1] = m
    BY <1>2, <1>3, <1>5
  <1>7. ASSUME NEW i \in 1..Len(channel' \o wire) PROVE (channel' \o wire)[i] = (channel \o wire)[i + 1]
    <2>1. i \in 1..(Len(channel') + Len(wire)) /\ i + 1 \in 1..(Len(channel) + Len(wire))
      BY <1>2, <1>4, <1>5
    <2>2. CASE i <= Len(channel')
      BY <1>2, <1>3, <1>4, <2>1, <2>2
    <2>3. CASE ~(i <= Len(channel'))
      <3>1. ~(i + 1 <= Len(channel)) /\ (i + 1) - Len(channel) = i - Len(channel')
        BY <1>2, <2>1, <2>3
      <3> QED
        BY <1>3, <1>4, <2>1, <2>3, <3>1
    <2> QED
      BY <2>2, <2>3
  <1> QED
    BY <1>2, <1>3, <1>4, <1>5, <1>6, <1>7 DEF All, Shorter

LEMMA ReadKeeps ==
  ASSUME TypeOK, Read
  PROVE  wire' \in Seq(Messages) /\ channel' \in Seq(Messages) /\ All' = All
  <1>1. /\ wire \in Seq(Messages) /\ channel \in Seq(Messages) /\ wire # <<>>
        /\ wire' = Tail(wire) /\ channel' = Append(channel, Head(wire))
    BY DEF Read, TypeOK
  <1>2. /\ wire' \in Seq(Messages) /\ Len(wire') = Len(wire) - 1 /\ Head(wire) = wire[1] /\ Head(wire) \in Messages
        /\ \A i \in 1..Len(wire') : wire'[i] = wire[i + 1]
        /\ Len(wire) \in Nat \ {0} /\ Len(channel) \in Nat
    BY <1>1, HeadTailProperties, EmptySeq, LenProperties
  <1>3. /\ channel' \in Seq(Messages) /\ Len(channel') = Len(channel) + 1 /\ channel'[Len(channel) + 1] = wire[1]
        /\ \A i \in 1..Len(channel) : channel'[i] = channel[i]
    BY <1>1, <1>2, AppendProperties
  <1>4. /\ channel \o wire \in Seq(Messages) /\ Len(channel \o wire) = Len(channel) + Len(wire)
        /\ \A i \in 1..(Len(channel) + Len(wire)) :
              (channel \o wire)[i] = IF i <= Len(channel) THEN channel[i] ELSE wire[i - Len(channel)]
    BY <1>1, ConcatProperties
  <1>5. /\ channel' \o wire' \in Seq(Messages) /\ Len(channel' \o wire') = Len(channel') + Len(wire')
        /\ \A i \in 1..(Len(channel') + Len(wire')) :
              (channel' \o wire')[i] = IF i <= Len(channel') THEN channel'[i] ELSE wire'[i - Len(channel')]
    BY <1>2, <1>3, ConcatProperties
  <1>6. Len(channel \o wire) = Len(channel' \o wire')
    BY <1>2, <1>3, <1>4, <1>5
  <1>7. ASSUME NEW i \in 1..Len(channel \o wire) PROVE (channel' \o wire')[i] = (channel \o wire)[i]
    <2>1. i \in 1..(Len(channel) + Len(wire)) /\ i \in 1..(Len(channel') + Len(wire'))
      BY <1>4, <1>5, <1>6
    <2>2. CASE i <= Len(channel)
      BY <1>2, <1>3, <1>4, <1>5, <2>1, <2>2
    <2>3. CASE i = Len(channel) + 1
      BY <1>2, <1>3, <1>4, <1>5, <2>1, <2>3
    <2>4. CASE i > Len(channel) + 1
      <3>1. i - Len(channel') \in 1..Len(wire') /\ (i - Len(channel')) + 1 = i - Len(channel)
        BY <1>2, <1>3, <2>1, <2>4
      <3>2. wire'[i - Len(channel')] = wire[i - Len(channel)]
        BY <1>2, <3>1
      <3> QED
        BY <1>2, <1>3, <1>4, <1>5, <2>1, <2>4, <3>2
    <2> QED
      BY <1>2, <2>1, <2>2, <2>3, <2>4
  <1>8. channel' \o wire' = channel \o wire
    BY <1>4, <1>5, <1>6, <1>7, SeqEqual
  <1> QED
    BY <1>2, <1>3, <1>8 DEF All

-----------------------------------------------------------------------------
(* Steps *)

Rest == Planned /\ Place /\ Ahead /\ Ended /\ Current /\ Pasts

LEMMA InitHolds == Init => IInv
  <1> SUFFICES ASSUME Init PROVE IInv
    OBVIOUS
  <1>1. TypeOK
    BY AppServerBounds DEF Init, TypeOK, Setup, Fresh
  <1>2. All = <<>> /\ Len(All) = 0
    BY DEF Init, All
  <1>3. Planned /\ Place
    BY DEF Init, Planned, Place, Setup
  <1>4. Ahead /\ Ended
    BY <1>2 DEF Init, Ahead, Ended, Fresh, Has, EndsLast
  <1>5. Current /\ Pasts
    BY DEF Init, Current, Pasts
  <1> QED
    BY <1>1, <1>3, <1>4, <1>5 DEF IInv

(* Nothing that a page is made of is sent, taken or told.                  *)
LEMMA Noise ==
  ASSUME IInv, UNCHANGED <<id, delta, completed, texts, dropped, said, plan>>,
         alive' => alive, pc' \in {pc, "error"},
         All' = All \/ \E m \in Messages : Longer(All, All', m) /\ m.kind \in {"answer", "other"}
  PROVE  Rest'
  <1> USE DEF IInv
  <1>1. Planned'
    BY DEF Planned
  <1>2. Place'
    BY DEF Place
  <1>3. Pasts'
    BY DEF Pasts
  <1> DEFINE Same(t) == /\ (\A i \in 1..Len(All) : ~IsTold(All[i], t)) => \A i \in 1..Len(All') : ~IsTold(All'[i], t)
                        /\ EndsLast(All, t) => EndsLast(All', t)
                        /\ Has(All', t) <=> Has(All, t)
                        /\ \A c, v : ItemIs(All, t, c, v) => ItemIs(All', t, c, v)
                        /\ \A d, v : DeltasAre(All, t, d, v) => DeltasAre(All', t, d, v)
  <1>4. ASSUME NEW t PROVE Same(t)
    <2>1. CASE All' = All
      BY <2>1
    <2>2. ASSUME NEW m \in Messages, Longer(All, All', m), m.kind \in {"answer", "other"}
          PROVE  Same(t)
      <3>1. ~IsItem(m, t) /\ ~IsDelta(m, t) /\ ~IsDone(m, t) /\ ~IsTold(m, t)
        BY <2>2 DEF IsItem, IsDelta, IsDone, IsTold
      <3>2. (\A i \in 1..Len(All) : ~IsTold(All[i], t)) => \A i \in 1..Len(All') : ~IsTold(All'[i], t)
        BY <2>2, <3>1 DEF Longer
      <3>3. (EndsLast(All, t) => EndsLast(All', t)) /\ (Has(All', t) <=> Has(All, t))
        BY <2>2, <3>1, EndsLonger
      <3>4. \A c, v : ItemIs(All, t, c, v) => ItemIs(All', t, c, v)
        BY <2>2, <3>1, ItemLonger
      <3>5. \A d, v : DeltasAre(All, t, d, v) => DeltasAre(All', t, d, v)
        BY <2>2, <3>1, DeltaLonger
      <3> QED
        BY <3>2, <3>3, <3>4, <3>5
    <2> QED
      BY <2>1, <2>2
  <1>5. Ahead'
    BY <1>4 DEF Ahead
  <1>6. Ended'
    BY <1>4 DEF Ended
  <1>7. Current'
    BY <1>4 DEF Current
  <1> QED
    BY <1>1, <1>2, <1>3, <1>5, <1>6, <1>7 DEF Rest

LEMMA PlanShorter ==
  ASSUME TypeOK, plan # <<>>, plan' = Tail(plan)
  PROVE  Shorter(plan, plan', Head(plan)) /\ Head(plan) \in Messages /\ plan' \in Seq(Messages)
  <1>1. plan \in Seq(Messages)
    BY DEF TypeOK
  <1> QED
    BY <1>1, HeadTailProperties, EmptySeq DEF Shorter

LEMMA AppendOne == \A d, x : d = <<>> => Append(d, x) = <<x>>
  OBVIOUS

(* What the server tells of the current turn, and of no other.             *)
LEMMA TellSays ==
  ASSUME IInv, Tell, NEW m, m = Head(plan)
  PROVE  LET t == Turn(id)
         IN  /\ t \in 1..Pages /\ m \in Messages
             /\ m.kind \in {"item", "delta", "done"} => m.of = t
             /\ said' \in [1..Pages -> [item : Texts \cup {None}, deltas : Seq(Texts), done : BOOLEAN]]
             /\ \A u \in 1..Pages : u # t => said'[u] = said[u]
             /\ said'[t].item = IF m.kind = "item" THEN m.text ELSE said[t].item
             /\ said'[t].deltas = IF m.kind = "delta" THEN <<m.text>> ELSE said[t].deltas
             /\ said'[t].done <=> m.kind = "done"
             /\ m.kind = "delta" => said[t].deltas = <<>>
  <1> USE DEF IInv
  <1> DEFINE t == Turn(id)
  <1>1. /\ plan # <<>> /\ plan' = Tail(plan) /\ alive
        /\ said' = CASE m.kind = "item" -> [said EXCEPT ![m.of].item = m.text]
                     [] m.kind = "delta" -> [said EXCEPT ![m.of].deltas = Append(@, m.text)]
                     [] m.kind = "done" -> [said EXCEPT ![m.of].done = TRUE]
                     [] OTHER -> said
    BY DEF Tell
  <1>2. Shorter(plan, plan', m) /\ m \in Messages /\ 1 \in 1..Len(plan) /\ plan[1] = m
    BY <1>1, PlanShorter DEF Shorter
  <1>3. t \in 1..Pages
    <2>1. id > Setup
      BY <1>1 DEF Planned
    <2>2. id \in 0..(Setup + Pages) /\ Pages \in Nat
      BY AppServerBounds DEF TypeOK
    <2> QED
      BY <2>1, <2>2 DEF Turn, Setup
  <1>4. /\ m.kind \in {"item", "delta", "done"} => m.of = t
        /\ ~said[t].done /\ (m.kind = "delta" => said[t].deltas = <<>>)
    BY <1>1, <1>2 DEF Planned, PlanIs
  <1>5. m.kind \in {"item", "delta"} => m.text \in Texts
    BY <1>2 DEF Messages, Answers, Tellings, Ends, Others
  <1>6. said[t] \in [item : Texts \cup {None}, deltas : Seq(Texts), done : BOOLEAN] /\ said \in [1..Pages -> [item : Texts \cup {None}, deltas : Seq(Texts), done : BOOLEAN]]
    BY <1>3 DEF TypeOK
  <1>7. CASE m.kind = "item"
    <2>1. said' = [said EXCEPT ![t].item = m.text]
      BY <1>1, <1>4, <1>7
    <2> QED
      BY <1>2, <1>3, <1>4, <1>5, <1>6, <1>7, <2>1
  <1>8. CASE m.kind = "delta"
    <2>0. Append(said[t].deltas, m.text) = <<m.text>>
      <3>1. said[t].deltas = <<>>
        BY <1>4, <1>8
      <3> QED
        BY <3>1, AppendOne
    <2>1. said' = [said EXCEPT ![t].deltas = Append(said[t].deltas, m.text)]
      BY <1>1, <1>3, <1>4, <1>8 DEF TypeOK
    <2>2. <<m.text>> \in Seq(Texts)
      BY <1>5, <1>8
    <2> QED
      BY <1>2, <1>3, <1>4, <1>6, <1>8, <2>0, <2>1, <2>2
  <1>9. CASE m.kind = "done"
    <2>1. said' = [said EXCEPT ![t].done = TRUE]
      BY <1>1, <1>4, <1>9
    <2> QED
      BY <1>2, <1>3, <1>4, <1>6, <1>9, <2>1
  <1>10. CASE m.kind \notin {"item", "delta", "done"}
    <2>1. said' = said
      BY <1>1, <1>10
    <2> QED
      BY <1>2, <1>3, <1>4, <1>6, <1>10, <2>1
  <1> QED
    BY <1>7, <1>8, <1>9, <1>10

LEMMA TellStep ==
  ASSUME IInv, Tell
  PROVE  Rest'
  <1> USE DEF IInv
  <1>1. PICK m : m = Head(plan)
    OBVIOUS
  <1>2. PICK t : t = Turn(id)
    OBVIOUS
  <1>3. UNCHANGED <<channel, pc, id, delta, completed, texts, dropped, alive>> /\ Send(m) /\ plan # <<>> /\ plan' = Tail(plan) /\ alive
    BY <1>1 DEF Tell, callerVars
  <1>4. Shorter(plan, plan', m) /\ m \in Messages /\ Longer(All, All', m)
    BY <1>1, <1>3, PlanShorter, SendGrows
  <1>5. /\ t \in 1..Pages /\ t' = t /\ Turn(id)' = t
        /\ m.kind \in {"item", "delta", "done"} => m.of = t
        /\ \A u \in 1..Pages : u # t => said'[u] = said[u]
        /\ said'[t].item = IF m.kind = "item" THEN m.text ELSE said[t].item
        /\ said'[t].deltas = IF m.kind = "delta" THEN <<m.text>> ELSE said[t].deltas
        /\ said'[t].done <=> m.kind = "done"
        /\ m.kind = "delta" => said[t].deltas = <<>>
    BY <1>1, <1>2, <1>3, TellSays DEF Turn
  <1>6. \A u \in 1..Pages : IsTold(m, u) => u = t
    BY <1>5 DEF IsTold, IsItem, IsDelta, IsDone
  <1>7. PlanIs(plan, t) /\ ~said[t].done /\ id > Setup /\ ((\E i \in 1..Len(plan) : plan[i].kind = "delta") => said[t].deltas = <<>>)
    BY <1>2, <1>3 DEF Planned
  <1>8. Planned'
    <2>1. Len(plan) \in Nat \ {0} /\ Len(plan') = Len(plan) - 1 /\ m = plan[1] /\ \A i \in 1..Len(plan') : plan'[i] = plan[i + 1]
      BY <1>4 DEF Shorter
    <2>2. \A i \in 1..Len(plan') : i + 1 \in 1..Len(plan) /\ i + 1 # 1 /\ 1 \in 1..Len(plan)
      BY <2>1
    <2>3. PlanIs(plan', t)
      <3>1. \A i \in 1..Len(plan') : plan'[i].kind \in {"item", "delta", "done"} => plan'[i].of = t
        BY <1>7, <2>1, <2>2 DEF PlanIs
      <3>2. \A i \in 1..Len(plan') : plan'[i].kind = "done" => i = Len(plan')
        BY <1>7, <2>1, <2>2 DEF PlanIs
      <3>3. ASSUME NEW i \in 1..Len(plan'), NEW j \in 1..Len(plan'), plan'[i].kind = "delta", plan'[j].kind = "delta" PROVE i = j
        <4>1. plan[i + 1].kind = "delta" /\ plan[j + 1].kind = "delta"
          BY <2>1, <3>3
        <4>2. i + 1 = j + 1
          BY <1>7, <2>2, <4>1 DEF PlanIs
        <4> QED
          BY <2>1, <4>2
      <3> QED
        BY <3>1, <3>2, <3>3 DEF PlanIs
    <2>4. plan' # <<>> => ~said'[t].done
      <3>1. plan' # <<>> => Len(plan) # 1
        BY <2>1, <1>3, EmptySeq, PlanShorter
      <3> QED
        BY <1>5, <1>7, <2>1, <3>1 DEF PlanIs
    <2>5. (\E i \in 1..Len(plan') : plan'[i].kind = "delta") => said'[t].deltas = <<>>
      <3>1. ASSUME NEW i \in 1..Len(plan'), plan'[i].kind = "delta" PROVE m.kind # "delta" /\ said[t].deltas = <<>>
        BY <1>7, <2>1, <2>2, <3>1 DEF PlanIs
      <3> QED
        BY <1>5, <3>1
    <2> QED
      BY <1>3, <1>5, <1>7, <2>3, <2>4, <2>5 DEF Planned
  <1>9. Place'
    BY <1>3 DEF Place, Turn
  <1>10. Ahead'
    BY <1>2, <1>4, <1>5, <1>6 DEF Ahead, Longer
  <1>11. Ended'
    <2>1. \A u \in 1..Pages : IsTold(m, u) => ~Has(All, u)
      BY <1>6, <1>7 DEF Ended
    <2>2. \A u \in 1..Pages : EndsLast(All', u) /\ (Has(All', u) <=> Has(All, u) \/ IsDone(m, u))
      BY <1>4, <2>1, EndsLonger DEF Ended
    <2>3. \A u \in 1..Pages : IsDone(m, u) => u = t /\ m.kind = "done"
      BY <1>6 DEF IsTold, IsDone
    <2>4. \A u \in 1..Pages : Has(All, u) => u # t
      BY <1>7 DEF Ended
    <2> QED
      BY <1>5, <2>2, <2>3, <2>4 DEF Ended
  <1>12. Current'
    <2>1. ASSUME pc \in {"call", "collect"}
          PROVE  \/ t \in dropped
                 \/ ItemIs(All', t, completed, said'[t].item) /\ DeltasAre(All', t, delta, said'[t].deltas)
      <3>1. CASE t \in dropped
        BY <3>1
      <3>2. CASE t \notin dropped
        <4>1. ItemIs(All, t, completed, said[t].item) /\ DeltasAre(All, t, delta, said[t].deltas)
          BY <1>2, <1>7, <2>1, <3>2 DEF Current
        <4>2. ItemIs(All', t, completed, IF IsItem(m, t) THEN m.text ELSE said[t].item)
          BY <1>4, <4>1, ItemLonger
        <4>3. ItemIs(All', t, completed, said'[t].item)
          BY <1>5, <4>2 DEF IsItem
        <4>4. DeltasAre(All', t, delta, said'[t].deltas)
          BY <1>4, <1>5, <4>1, DeltaLonger DEF IsDelta
        <4> QED
          BY <4>3, <4>4
      <3> QED
        BY <3>1, <3>2
    <2>2. said'[t].done => Has(All', t)
      BY <1>4, <1>5, EndsLonger DEF IsDone
    <2> QED
      BY <1>3, <1>5, <2>1, <2>2 DEF Current
  <1>13. Pasts'
    <2>1. \A u \in 1..Len(texts) : u <= t /\ u # t /\ u \in 1..Pages
      <3>1. Len(texts) \in Nat /\ t <= Pages /\ Pages \in Nat
        BY <1>5, AppServerBounds, LenProperties DEF TypeOK
      <3>2. \A u \in 1..Len(texts) : u <= t /\ said[u].done
        BY <1>2 DEF Pasts
      <3> QED
        BY <1>5, <1>7, <3>1, <3>2
    <2> QED
      BY <1>2, <1>3, <1>5, <2>1 DEF Pasts
  <1> QED
    BY <1>8, <1>9, <1>10, <1>11, <1>12, <1>13 DEF Rest

(* Whatever the server does with a page, it tells of that page only, and   *)
(* its completion at last.                                                 *)
LEMMA PlansAreRight ==
  ASSUME NEW t \in 1..Pages, NEW p \in Plans(t), NEW s, s = Append(p, Event("done", t, None))
  PROVE  s \in Seq(Messages) /\ PlanIs(s, t)
  <1>1. PICK D, d1, d2, m1, m2, e, x :
           /\ D = Event("done", t, None) /\ e = Event("error", t, None) /\ x = Event("error", None, None)
           /\ d1 = Event("delta", t, 1) /\ d2 = Event("delta", t, 2) /\ m1 = Event("item", t, 1) /\ m2 = Event("item", t, 2)
    OBVIOUS
  <1>2. /\ D.kind = "done" /\ D.of = t /\ e.kind = "error" /\ x.kind = "error"
        /\ d1.kind = "delta" /\ d1.of = t /\ d2.kind = "delta" /\ d2.of = t
        /\ m1.kind = "item" /\ m1.of = t /\ m2.kind = "item" /\ m2.of = t
    BY <1>1 DEF Event
  <1>3. D \in Messages /\ e \in Messages /\ x \in Messages
    BY <1>1 DEF Event, Messages, Ends, Others
  <1>4. d1 \in Messages /\ d2 \in Messages /\ m1 \in Messages /\ m2 \in Messages
    BY <1>1 DEF Event, Messages, Tellings, Texts
  <1>5. p \in {<<d1, m1>>, <<m1, d2, m2>>, <<d1>>, <<>>, <<e>>, <<m1, x>>}
    BY <1>1 DEF Plans
  <1>6. s = Append(p, D)
    BY <1>1
  <1> DEFINE Script == /\ p \in Seq(Messages)
                       /\ \A i \in 1..Len(p) : p[i].kind \in {"item", "delta"} => p[i].of = t
                       /\ \A i \in 1..Len(p) : p[i].kind # "done"
                       /\ \A i, j \in 1..Len(p) : p[i].kind = "delta" /\ p[j].kind = "delta" => i = j
  <1>7. ASSUME p = <<d1, m1>> PROVE Script
    <2>1. p \in Seq(Messages) /\ Len(p) = 2 /\ p[1] = d1 /\ p[2] = m1
      BY <1>3, <1>4, <1>7
    <2>2. \A i \in 1..Len(p) : i = 1 \/ i = 2
      BY <2>1
    <2> QED
      BY <1>2, <2>1, <2>2
  <1>8. ASSUME p = <<m1, d2, m2>> PROVE Script
    <2>1. p \in Seq(Messages) /\ Len(p) = 3 /\ p[1] = m1 /\ p[2] = d2 /\ p[3] = m2
      BY <1>3, <1>4, <1>8
    <2>2. \A i \in 1..Len(p) : i = 1 \/ i = 2 \/ i = 3
      BY <2>1
    <2> QED
      BY <1>2, <2>1, <2>2
  <1>9. ASSUME p = <<d1>> PROVE Script
    <2>1. p \in Seq(Messages) /\ Len(p) = 1 /\ p[1] = d1
      BY <1>3, <1>4, <1>9
    <2>2. \A i \in 1..Len(p) : i = 1
      BY <2>1
    <2> QED
      BY <1>2, <2>1, <2>2
  <1>10. ASSUME p = <<>> PROVE Script
    <2>1. p \in Seq(Messages) /\ Len(p) = 0
      BY <1>10, EmptySeq
    <2> QED
      BY <2>1
  <1>11. ASSUME p = <<e>> PROVE Script
    <2>1. p \in Seq(Messages) /\ Len(p) = 1 /\ p[1] = e
      BY <1>3, <1>4, <1>11
    <2>2. \A i \in 1..Len(p) : i = 1
      BY <2>1
    <2> QED
      BY <1>2, <2>1, <2>2
  <1>12. ASSUME p = <<m1, x>> PROVE Script
    <2>1. p \in Seq(Messages) /\ Len(p) = 2 /\ p[1] = m1 /\ p[2] = x
      BY <1>3, <1>4, <1>12
    <2>2. \A i \in 1..Len(p) : i = 1 \/ i = 2
      BY <2>1
    <2> QED
      BY <1>2, <2>1, <2>2
  <1>13. Script
    BY <1>5, <1>7, <1>8, <1>9, <1>10, <1>11, <1>12
  <1>14. /\ s \in Seq(Messages) /\ Len(s) = Len(p) + 1 /\ s[Len(p) + 1] = D /\ Len(p) \in Nat
         /\ \A i \in 1..Len(p) : s[i] = p[i]
    BY <1>3, <1>6, <1>13, AppendProperties, LenProperties
  <1>15. \A i \in 1..Len(s) : i \in 1..Len(p) \/ (i = Len(s) /\ s[i] = D)
    BY <1>14
  <1> QED
    BY <1>2, <1>13, <1>14, <1>15 DEF PlanIs

LEMMA WriteBegins ==
  ASSUME IInv, Write
  PROVE  /\ id' = id + 1 /\ id' \in 1..(Setup + Pages)
         /\ plan' \in Seq(Messages)
         /\ alive /\ plan' # <<>> => id' > Setup /\ PlanIs(plan', Turn(id'))
  <1> USE DEF IInv
  <1>1. id \in 0..(Setup + Pages) /\ Pages \in Nat \ {0} /\ Setup = 2
    BY AppServerBounds DEF TypeOK, Setup
  <1>2. id' = id + 1 /\ pc = "write"
    BY DEF Write
  <1>3. id # Setup + Pages
    BY <1>1, <1>2 DEF Place, Turn
  <1>4. id' \in 1..(Setup + Pages)
    BY <1>1, <1>2, <1>3
  <1>5. CASE UNCHANGED plan
    <2>1. plan' \in Seq(Messages)
      BY <1>5 DEF TypeOK
    <2>2. CASE ~(alive /\ plan # <<>>)
      BY <1>2, <1>4, <1>5, <2>1, <2>2
    <2>3. CASE alive /\ plan # <<>>
      <3>1. id > Setup
        BY <2>3 DEF Planned
      <3>2. id + 1 > Setup
        BY <1>1, <3>1
      <3>3. \E p \in Plans(Turn(id + 1)) : plan' = Append(p, Event("done", Turn(id + 1), None))
        BY <2>3, <3>2 DEF Write
      <3>4. Turn(id + 1) \in 1..Pages
        BY <1>1, <1>2, <1>4, <3>2 DEF Turn
      <3>5. PlanIs(plan', Turn(id + 1))
        BY <3>3, <3>4, PlansAreRight
      <3> QED
        BY <1>2, <1>4, <2>1, <3>2, <3>5
    <2> QED
      BY <2>2, <2>3
  <1>6. CASE ~ UNCHANGED plan
    <2>1. id + 1 > Setup /\ \E p \in Plans(Turn(id + 1)) : plan' = Append(p, Event("done", Turn(id + 1), None))
      BY <1>6 DEF Write
    <2>2. Turn(id + 1) \in 1..Pages
      BY <1>1, <1>2, <1>4, <2>1 DEF Turn
    <2>3. plan' \in Seq(Messages) /\ PlanIs(plan', Turn(id + 1))
      BY <2>1, <2>2, PlansAreRight
    <2> QED
      BY <1>2, <1>4, <2>1, <2>3
  <1> QED
    BY <1>5, <1>6

LEMMA WriteStep ==
  ASSUME IInv, Write
  PROVE  Rest'
  <1> USE DEF IInv
  <1>1. /\ UNCHANGED <<wire, channel, texts, dropped, alive, said>>
        /\ delta' = <<>> /\ completed' = None /\ pc = "write" /\ pc' \in {"call", "error"}
    BY DEF Write
  <1>2. /\ id' = id + 1 /\ id' \in 1..(Setup + Pages) /\ id \in Nat /\ Pages \in Nat /\ Setup = 2
        /\ alive /\ plan' # <<>> => id' > Setup /\ PlanIs(plan', Turn(id'))
    BY WriteBegins, AppServerBounds DEF TypeOK, Setup
  <1>3. PICK t : t = Turn(id + 1)
    OBVIOUS
  <1>4. /\ Turn(id)' = t /\ Turn(id') = t /\ t = Turn(id) + 1 /\ Turn(id) \in Int /\ t \in Int /\ (id' > Setup => t \in 1..Pages)
        /\ All' = All
    BY <1>1, <1>2, <1>3 DEF Turn, All
  <1>5. id' > Setup => said[t] = Fresh /\ (\A i \in 1..Len(All) : ~IsTold(All[i], t))
    BY <1>4 DEF Ahead
  <1>6. said[t] = Fresh => said[t].item = None /\ said[t].deltas = <<>> /\ said[t].done = FALSE
    BY DEF Fresh
  <1>7. Planned'
    BY <1>1, <1>2, <1>4, <1>5, <1>6 DEF Planned
  <1>8. Place'
    <2>1. id' > Setup => Len(texts) = t - 1
      <3>1. CASE id > Setup
        BY <1>1, <1>4, <3>1 DEF Place
      <3>2. CASE id = Setup
        <4>1. texts = <<>> /\ t = 1
          BY <1>1, <1>2, <1>3, <3>2 DEF Place, Turn
        <4> QED
          BY <4>1
      <3> QED
        BY <1>2, <3>1, <3>2
    <2>2. id' <= Setup => texts = <<>>
      BY <1>1, <1>2 DEF Place
    <2> QED
      BY <1>1, <1>2, <1>4, <2>1, <2>2 DEF Place
  <1>9. Ahead'
    <2>1. \A u \in 1..Pages : u > t => u > Turn(id)
      BY <1>4
    <2> QED
      BY <1>1, <1>4, <2>1 DEF Ahead
  <1>10. Ended'
    BY <1>1, <1>4 DEF Ended
  <1>11. Current'
    <2>1. id' > Setup => ItemIs(All, t, None, said[t].item) /\ DeltasAre(All, t, <<>>, said[t].deltas)
      BY <1>5, <1>6 DEF ItemIs, DeltasAre, IsTold
    <2> QED
      BY <1>1, <1>4, <1>5, <1>6, <2>1 DEF Current
  <1>12. Pasts'
    <2>1. \A u \in 1..Len(texts) : u <= Turn(id) => u <= t
      BY <1>4
    <2> QED
      BY <1>1, <1>4, <2>1 DEF Pasts
  <1> QED
    BY <1>7, <1>8, <1>9, <1>10, <1>11, <1>12 DEF Rest

(* A message is taken: nothing else of the server changes.                 *)
LEMMA TakeKeeps ==
  ASSUME IInv, NEW m, Shorter(All, All', m), UNCHANGED <<id, said, plan, alive>>
  PROVE  Planned' /\ Ahead' /\ Ended'
  <1> USE DEF IInv
  <1>1. Planned'
    BY DEF Planned
  <1>2. Ahead'
    <2>1. Len(All) \in Nat \ {0} /\ Len(All') = Len(All) - 1 /\ \A i \in 1..Len(All') : All'[i] = All[i + 1]
      BY DEF Shorter
    <2>2. \A i \in 1..Len(All') : i + 1 \in 1..Len(All)
      BY <2>1
    <2> QED
      BY <2>1, <2>2 DEF Ahead
  <1>3. Ended'
    BY EndsShorter DEF Ended
  <1> QED
    BY <1>1, <1>2, <1>3

LEMMA CurrentPage ==
  ASSUME TypeOK, id > Setup
  PROVE  Turn(id) \in 1..Pages /\ Len(texts) \in Nat
  BY AppServerBounds, LenProperties DEF TypeOK, Turn, Setup

(* A call drops a message: of the current turn, then it says so.           *)
LEMMA DropStep ==
  ASSUME IInv, NEW m, DropMessage(m)
  PROVE  Rest'
  <1> USE DEF IInv
  <1>1. /\ UNCHANGED <<wire, pc, id, delta, completed, texts, plan, alive, said>> /\ pc = "call" /\ Receive(m)
        /\ dropped' = IF m.kind \in {"delta", "item", "done", "error"} THEN dropped \cup {m.of} ELSE dropped
    BY DEF DropMessage, serverVars
  <1>2. Shorter(All, All', m)
    BY <1>1, ReceiveShrinks
  <1>3. Planned' /\ Ahead' /\ Ended'
    BY <1>1, <1>2, TakeKeeps
  <1>4. Place' /\ Pasts'
    BY <1>1 DEF Place, Pasts
  <1>5. PICK t : t = Turn(id)
    OBVIOUS
  <1>6. ASSUME id > Setup, t \notin dropped' PROVE ~IsItem(m, t) /\ ~IsDelta(m, t) /\ ~IsDone(m, t) /\ t \notin dropped
    BY <1>1, <1>6 DEF IsItem, IsDelta, IsDone
  <1>7. ASSUME id > Setup, t \notin dropped'
        PROVE  /\ ItemIs(All', t, completed, said[t].item) /\ DeltasAre(All', t, delta, said[t].deltas)
               /\ said[t].done => Has(All', t)
    <2>1. /\ ItemIs(All, t, completed, said[t].item) /\ DeltasAre(All, t, delta, said[t].deltas)
          /\ said[t].done => Has(All, t)
      BY <1>1, <1>5, <1>6, <1>7 DEF Current
    <2>2. ItemIs(All', t, completed, said[t].item)
      BY <1>2, <1>6, <1>7, <2>1, ItemShorter
    <2>3. DeltasAre(All', t, delta, said[t].deltas)
      BY <1>2, <1>6, <1>7, <2>1, DeltaShorter
    <2> QED
      BY <1>2, <1>6, <1>7, <2>1, <2>2, <2>3, EndsShorter
  <1>8. Current'
    BY <1>1, <1>5, <1>7 DEF Current, Turn
  <1> QED
    BY <1>3, <1>4, <1>8 DEF Rest

LEMMA AnswerStep ==
  ASSUME IInv, NEW m, TakeAnswer(m)
  PROVE  Rest'
  <1> USE DEF IInv
  <1>1. /\ UNCHANGED <<wire, id, delta, completed, texts, dropped, plan, alive, said>> /\ pc = "call" /\ Receive(m)
        /\ m.kind = "answer"
        /\ pc' = "error" \/ (id > Setup /\ pc' = "collect") \/ (~(id > Setup) /\ pc' = "write")
    BY DEF TakeAnswer, serverVars
  <1>2. Shorter(All, All', m)
    BY <1>1, ReceiveShrinks
  <1>3. Planned' /\ Ahead' /\ Ended'
    BY <1>1, <1>2, TakeKeeps
  <1>4. Place' /\ Pasts'
    BY <1>1 DEF Place, Pasts, TypeOK
  <1>5. PICK t : t = Turn(id)
    OBVIOUS
  <1>6. ~IsItem(m, t) /\ ~IsDelta(m, t) /\ ~IsDone(m, t)
    BY <1>1 DEF IsItem, IsDelta, IsDone
  <1>7. ASSUME id > Setup
        PROVE  /\ t \in dropped \/ (ItemIs(All', t, completed, said[t].item) /\ DeltasAre(All', t, delta, said[t].deltas))
               /\ said[t].done => t \in dropped \/ Has(All', t)
    <2>1. /\ t \in dropped \/ (ItemIs(All, t, completed, said[t].item) /\ DeltasAre(All, t, delta, said[t].deltas))
          /\ said[t].done => t \in dropped \/ Has(All, t)
      BY <1>1, <1>5, <1>7 DEF Current
    <2> QED
      BY <1>2, <1>6, <2>1, ItemShorter, DeltaShorter, EndsShorter
  <1>8. Current'
    BY <1>1, <1>5, <1>7 DEF Current, Turn
  <1> QED
    BY <1>3, <1>4, <1>8 DEF Rest

LEMMA CollectStep ==
  ASSUME IInv, NEW m, Collect(m)
  PROVE  Rest'
  <1> USE DEF IInv
  <1>1. PICK t : t = Turn(id)
    OBVIOUS
  <1> DEFINE mine == m.kind # "answer" /\ (m.of = t \/ (m.kind = "error" /\ m.of = None))
  <1>2. /\ UNCHANGED <<wire, id, dropped, plan, alive, said>> /\ pc = "collect" /\ Receive(m)
        /\ completed' = IF mine /\ m.kind = "item" THEN m.text ELSE completed
        /\ delta' = IF mine /\ m.kind = "delta" THEN Append(delta, m.text) ELSE delta
        /\ IF mine /\ m.kind = "done" THEN EndPage(completed, delta)
           ELSE pc' = (IF mine /\ m.kind = "error" THEN "error" ELSE pc) /\ UNCHANGED texts
    BY <1>1 DEF Collect, serverVars
  <1>3. Shorter(All, All', m) /\ All[1] = m /\ 1 \in 1..Len(All)
    BY <1>2, ReceiveShrinks DEF Shorter
  <1>4. Planned' /\ Ahead' /\ Ended'
    BY <1>2, <1>3, TakeKeeps
  <1>5. id > Setup /\ Len(texts) = t - 1 /\ t \in 1..Pages /\ Turn(id)' = t
    BY <1>1, <1>2, CurrentPage DEF Place, Turn
  <1>6. /\ completed' = IF IsItem(m, t) THEN m.text ELSE completed
        /\ delta' = IF IsDelta(m, t) THEN Append(delta, m.text) ELSE delta
        /\ mine /\ m.kind = "done" <=> IsDone(m, t)
    BY <1>2 DEF IsItem, IsDelta, IsDone
  <1>7. /\ \/ t \in dropped
           \/ ItemIs(All, t, completed, said[t].item) /\ DeltasAre(All, t, delta, said[t].deltas)
        /\ said[t].done => t \in dropped \/ Has(All, t)
    BY <1>1, <1>2, <1>5 DEF Current
  <1>8. CASE ~IsDone(m, t)
    <2>1. UNCHANGED texts /\ pc' \in {"collect", "error"}
      BY <1>2, <1>6, <1>8
    <2>2. ItemIs(All, t, completed, said[t].item) => ItemIs(All', t, completed', said[t].item)
      BY <1>3, <1>6, ItemShorter
    <2>3. DeltasAre(All, t, delta, said[t].deltas) => DeltasAre(All', t, delta', said[t].deltas)
      BY <1>3, <1>6, DeltaShorter
    <2>4. Has(All, t) => Has(All', t)
      BY <1>3, <1>8, EndsShorter
    <2>5. Current'
      BY <1>2, <1>5, <1>7, <2>2, <2>3, <2>4 DEF Current
    <2>6. Place' /\ Pasts'
      BY <1>2, <2>1 DEF Place, Pasts
    <2> QED
      BY <1>4, <2>5, <2>6 DEF Rest
  <1>9. CASE IsDone(m, t)
    <2>1. EndPage(completed, delta)
      BY <1>2, <1>6, <1>9
    <2>2. said[t].done
      BY <1>3, <1>5, <1>9 DEF Ended, Has
    <2>3. \A j \in 1..Len(All) : ~IsItem(All[j], t) /\ ~IsDelta(All[j], t)
      <3>1. \A j \in (1 + 1)..Len(All) : ~IsTold(All[j], t)
        BY <1>3, <1>5, <1>9 DEF Ended, EndsLast
      <3>2. \A j \in 1..Len(All) : j = 1 \/ j \in (1 + 1)..Len(All)
        BY <1>3 DEF Shorter
      <3> QED
        BY <1>3, <1>9, <3>1, <3>2 DEF IsTold, IsItem, IsDelta, IsDone
    <2>4. t \in dropped \/ (completed = said[t].item /\ delta = said[t].deltas)
      BY <1>7, <2>3 DEF ItemIs, DeltasAre
    <2>5. Current'
      BY <2>1, <1>2 DEF Current, EndPage
    <2>6. CASE pc' = "error" /\ UNCHANGED texts
      BY <1>2, <1>4, <2>5, <2>6 DEF Rest, Place, Pasts
    <2>7. ASSUME texts' = Append(texts, TextOf(completed, delta)), pc' = IF Turn(id) = Pages THEN "ok" ELSE "write"
          PROVE  Place' /\ Pasts'
      <3>1. /\ Len(texts') = t /\ texts'[t] = TextOf(completed, delta) /\ \A u \in 1..(t - 1) : texts'[u] = texts[u]
        BY <1>5, <2>7, CurrentPage DEF TypeOK
      <3>2. Place'
        <4>1. pc' \in {"ok", "write"} /\ (pc' = "write" => t < Pages) /\ ~(id <= Setup)
          BY <1>1, <1>5, <2>7, AppServerBounds DEF TypeOK, Setup
        <4> QED
          BY <1>2, <1>5, <3>1, <4>1 DEF Place
      <3>3. ASSUME NEW u \in 1..Len(texts') PROVE u <= t /\ said[u].done /\ (u \in dropped \/ texts'[u] = TextOf(said[u].item, said[u].deltas))
        <4>1. CASE u = t
          BY <2>2, <2>4, <3>1, <4>1
        <4>2. CASE u # t
          <5>1. u \in 1..Len(texts) /\ u \in 1..(t - 1)
            BY <1>5, <3>1, <4>2
          <5> QED
            BY <1>1, <3>1, <5>1 DEF Pasts
        <4> QED
          BY <4>1, <4>2
      <3> QED
        BY <1>2, <1>5, <3>2, <3>3 DEF Pasts
    <2> QED
      BY <1>4, <2>1, <2>5, <2>6, <2>7 DEF Rest, EndPage
  <1> QED
    BY <1>8, <1>9

LEMMA TypeStep ==
  ASSUME IInv, [Next]_vars
  PROVE  TypeOK'
  <1> USE DEF IInv, callerVars, serverVars
  <1>1. ASSUME NEW n \in owed, NEW ok \in BOOLEAN, Send(Answer(n, ok)), owed' = owed \ {n},
               UNCHANGED <<channel, readErr, callerVars, alive, plan, chatter, said>>
        PROVE  TypeOK'
    <2>1. Answer(n, ok) \in Messages
      BY <1>1 DEF Answer, Messages, Answers, TypeOK
    <2>2. wire' \in Seq(Messages)
      BY <1>1, <2>1, SendGrows
    <2> QED
      BY <1>1, <2>2 DEF TypeOK
  <1>2. CASE Tell
    <2>1. PICK m : m = Head(plan)
      OBVIOUS
    <2>2. Send(m) /\ plan # <<>> /\ plan' = Tail(plan) /\ UNCHANGED <<channel, readErr, callerVars, alive, owed, chatter>>
      BY <1>2, <2>1 DEF Tell
    <2>3. m \in Messages /\ plan' \in Seq(Messages)
      BY <2>1, <2>2, PlanShorter
    <2>4. wire' \in Seq(Messages)
      BY <2>2, <2>3, SendGrows
    <2>5. said' \in [1..Pages -> [item : Texts \cup {None}, deltas : Seq(Texts), done : BOOLEAN]]
      BY <1>2, <2>1, TellSays
    <2> QED
      BY <2>2, <2>3, <2>4, <2>5 DEF TypeOK
  <1>3. CASE Chat
    <2>1. Chatter \in Messages
      BY DEF Chatter, Event, Messages, Others
    <2>2. Send(Chatter) /\ UNCHANGED <<channel, readErr, callerVars, alive, owed, plan, said>>
      BY <1>3 DEF Chat
    <2>3. wire' \in Seq(Messages)
      BY <2>1, <2>2, SendGrows
    <2> QED
      BY <2>2, <2>3 DEF TypeOK
  <1>4. CASE Exit
    BY <1>4 DEF Exit, TypeOK
  <1>5. CASE Read
    <2>1. wire' \in Seq(Messages) /\ channel' \in Seq(Messages)
      BY <1>5, ReadKeeps
    <2> QED
      BY <1>5, <2>1 DEF Read, TypeOK
  <1>6. CASE EndOfStream
    BY <1>6 DEF EndOfStream, TypeOK
  <1>7. CASE Write
    <2>1. id' = id + 1 /\ id' \in 1..(Setup + Pages) /\ plan' \in Seq(Messages)
      BY <1>7, WriteBegins
    <2>2. id' \in 0..(Setup + Pages) /\ id + 1 \in Requests
      BY <2>1, AppServerBounds DEF Requests, Setup
    <2>3. owed' \subseteq Requests
      BY <1>7, <2>2 DEF Write, TypeOK
    <2>4. /\ UNCHANGED <<wire, channel, texts, alive, said>>
          /\ delta' = <<>> /\ completed' = None /\ pc' \in {"call", "error"}
      BY <1>7 DEF Write
    <2> QED
      BY <2>1, <2>2, <2>3, <2>4 DEF TypeOK
  <1>8. ASSUME NEW m, DropMessage(m) PROVE TypeOK'
    <2>1. channel' \in Seq(Messages)
      BY <1>8, ReceiveShrinks DEF DropMessage
    <2> QED
      BY <1>8, <2>1 DEF DropMessage, TypeOK
  <1>9. ASSUME NEW m, TakeAnswer(m) PROVE TypeOK'
    <2>1. channel' \in Seq(Messages)
      BY <1>9, ReceiveShrinks DEF TakeAnswer
    <2> QED
      BY <1>9, <2>1 DEF TakeAnswer, TypeOK
  <1>10. ASSUME NEW m, Collect(m) PROVE TypeOK'
    <2>1. /\ UNCHANGED <<wire, id, alive, owed, plan, said>> /\ Receive(m)
          /\ completed' \in {completed} \/ (m.kind = "item" /\ completed' = m.text)
          /\ delta' = delta \/ (m.kind = "delta" /\ delta' = Append(delta, m.text))
          /\ EndPage(completed, delta) \/ (pc' \in {"error", pc} /\ UNCHANGED texts)
      BY <1>10 DEF Collect
    <2>2. channel' \in Seq(Messages) /\ m \in Messages
      BY <2>1, ReceiveShrinks
    <2>3. m.kind \in {"item", "delta"} => m.text \in Texts
      BY <2>2 DEF Messages, Answers, Tellings, Ends, Others
    <2>4. completed' \in Texts \cup {None} /\ delta' \in Seq(Texts)
      <3>1. completed \in Texts \cup {None} /\ delta \in Seq(Texts)
        BY DEF TypeOK
      <3>2. ASSUME m.kind = "delta" PROVE Append(delta, m.text) \in Seq(Texts)
        BY <2>3, <3>1, <3>2, AppendProperties
      <3> QED
        BY <2>1, <2>3, <3>1, <3>2
    <2>5. TextOf(completed, delta) \in Seq(Texts)
      BY DEF TextOf, TypeOK
    <2>6. texts' \in Seq(Seq(Texts)) /\ pc' \in {"write", "call", "collect", "ok", "error"}
      <3>1. texts \in Seq(Seq(Texts)) /\ pc \in {"write", "call", "collect", "ok", "error"}
        BY DEF TypeOK
      <3>2. Append(texts, TextOf(completed, delta)) \in Seq(Seq(Texts))
        BY <2>5, <3>1, AppendProperties
      <3>3. CASE EndPage(completed, delta)
        BY <3>1, <3>2, <3>3 DEF EndPage
      <3> QED
        BY <2>1, <3>1, <3>3
    <2> QED
      BY <2>1, <2>2, <2>4, <2>6 DEF TypeOK
  <1>11. CASE GiveUp
    BY <1>11 DEF GiveUp, TypeOK
  <1>12. CASE UNCHANGED vars
    BY <1>12 DEF vars, TypeOK
  <1>13. CASE Respond
    BY <1>1, <1>13 DEF Respond
  <1> QED
    BY <1>2, <1>3, <1>4, <1>5, <1>6, <1>7, <1>8, <1>9, <1>10, <1>11, <1>12, <1>13 DEF Next, Server, Caller

LEMMA RestStep ==
  ASSUME IInv, [Next]_vars
  PROVE  Rest'
  <1> USE DEF IInv, callerVars, serverVars
  <1>1. CASE Respond
    <2>1. PICK n \in owed, ok \in BOOLEAN : Send(Answer(n, ok))
      BY <1>1 DEF Respond
    <2>2. Answer(n, ok) \in Messages /\ Answer(n, ok).kind = "answer"
      BY DEF Answer, Messages, Answers, TypeOK
    <2>3. UNCHANGED <<channel, callerVars, alive, plan, said>>
      BY <1>1 DEF Respond
    <2>4. Longer(All, All', Answer(n, ok))
      BY <2>1, <2>2, <2>3, SendGrows
    <2> QED
      BY <2>2, <2>3, <2>4, Noise
  <1>2. CASE Chat
    <2>1. Chatter \in Messages /\ Chatter.kind = "other"
      BY DEF Chatter, Event, Messages, Others
    <2>2. UNCHANGED <<channel, callerVars, alive, plan, said>> /\ Send(Chatter)
      BY <1>2 DEF Chat
    <2>3. Longer(All, All', Chatter)
      BY <2>1, <2>2, SendGrows
    <2> QED
      BY <2>1, <2>2, <2>3, Noise
  <1>3. CASE Exit
    BY <1>3, Noise DEF Exit, All
  <1>4. CASE Read
    <2>1. All' = All
      BY <1>4, ReadKeeps
    <2> QED
      BY <1>4, <2>1, Noise DEF Read
  <1>5. CASE EndOfStream
    BY <1>5, Noise DEF EndOfStream, All
  <1>6. CASE GiveUp
    BY <1>6, Noise DEF GiveUp, All
  <1>7. CASE UNCHANGED vars
    BY <1>7, Noise DEF vars, All
  <1> QED
    BY <1>1, <1>2, <1>3, <1>4, <1>5, <1>6, <1>7, TellStep, WriteStep, DropStep, AnswerStep, CollectStep DEF Next, Server, Caller

LEMMA Invariance == Spec => []IInv
  <1>1. IInv /\ [Next]_vars => IInv'
    BY TypeStep, RestStep DEF IInv, Rest
  <1> QED
    BY InitHolds, <1>1, PTL DEF Spec

-----------------------------------------------------------------------------
(* Theorems *)

(* A page's text is what the server told of its turn in the end, unless    *)
(* something of the turn came before the answer to the call.               *)
THEOREM PagesAreFinal == Spec => []PageTextIsFinal
  <1>1. IInv => PageTextIsFinal
    BY DEF IInv, Pasts, PageTextIsFinal
  <1> QED
    BY <1>1, Invariance, PTL

(* The caller is never left waiting for a turn that it was told all of,    *)
(* unless it dropped a part of it: nothing is lost between the reader and  *)
(* the caller, however small the channel.                                  *)
THEOREM WaitsForCause == Spec => []WaitsOnlyIfDropped
  <1>1. ASSUME IInv, pc = "collect", said[Turn(id)].done, wire = <<>>, channel = <<>>
        PROVE  Turn(id) \in dropped
    <2>1. All = <<>> /\ Len(All) = 0
      BY <1>1 DEF All
    <2>2. ~Has(All, Turn(id))
      BY <2>1 DEF Has
    <2> QED
      BY <1>1, <2>2 DEF IInv, Current, Place
  <1>2. IInv => WaitsOnlyIfDropped
    BY <1>1 DEF WaitsOnlyIfDropped
  <1> QED
    BY <1>2, Invariance, PTL

-----------------------------------------------------------------------------
(* The pages as a viewer shows them: what the widget reports and the       *)
(* server tells of a document, for any number of viewers, documents,       *)
(* reports and servers.  "calls" is the "wire" of PdfViewer.               *)

CONSTANTS Viewers, Docs, Queries, Reports, Servers, Numbers, Count

VARIABLES stage, shown, pdf, current, rendered, canvases, selecting, draft, selection, queued, applied, searches,
          report, await, calls, heard, prompted, view, seen, asked, moved, made

PV == INSTANCE PdfViewer WITH wire <- calls

(* Documents have pages, which are numbered; None and "error" are none of  *)
(* the values.                                                             *)
Documents ==
    /\ Numbers \subseteq Nat \ {0} /\ 1 \in Numbers
    /\ Count \in [Docs -> Numbers] /\ \A d \in Docs : 1 .. Count[d] \subseteq Numbers
    /\ "error" \notin Docs
    /\ None \notin Docs \cup Numbers \cup {0, "error"} \cup PV!Targets \cup PV!Selections \cup PV!States

ViewersTypeOK ==
    /\ stage \in [Viewers -> {"new", "open", "closed"}] /\ shown \in [Viewers -> PV!Targets \cup {None}]
    /\ pdf \in [Viewers -> Docs \cup {None, "error"}] /\ current \in [Viewers -> Numbers]
    /\ rendered \in [Viewers -> SUBSET Numbers] /\ canvases \in [Viewers -> [Numbers -> Docs \cup {None}]]
    /\ selecting \in [Viewers -> BOOLEAN] /\ draft \in [Viewers -> Numbers \cup {None}]
    /\ selection \in [Viewers -> PV!Selections \cup {None}]
    /\ queued \in [Viewers -> PV!States \cup {None}] /\ applied \in [Viewers -> PV!Targets \cup {None}]
    /\ searches \in [Viewers -> SUBSET PV!Lookups]
    /\ report \in [Reports -> PV!States \cup {None}]
    /\ await \in [Reports -> {"none", "first", "second", "ok", "failed", "unsent"}]
    /\ calls \in [Reports -> SUBSET {"first", "second"}] /\ heard \in [Reports -> SUBSET {"first", "second"}]
    /\ prompted \in SUBSET Reports /\ view \in [Servers -> PV!States \cup {None}]
    /\ seen \in [Viewers -> SUBSET Docs] /\ asked \in [Viewers -> Nat]
    /\ moved \in [Viewers -> Nat] /\ made \in [Viewers -> Nat]

(* What a viewer shows, and the canvases it has: of another document than  *)
(* the one it shows only if it has shown several.                          *)
Paper(v) ==
    /\ stage[v] = "new" => pdf[v] = None /\ asked[v] = 0 /\ \A p \in Numbers : canvases[v][p] = None
    /\ stage[v] # "new" => shown[v] \in PV!Targets /\ shown[v].doc \in seen[v]
    /\ pdf[v] \in Docs => pdf[v] = shown[v].doc
    /\ \A p \in Numbers : canvases[v][p] # None => canvases[v][p] \in seen[v] /\ p <= Count[canvases[v][p]]
    /\ \A p \in rendered[v] : pdf[v] \in Docs /\ canvases[v][p] = pdf[v]
    /\ \/ pdf[v] \in Docs
       \/ \A p \in Numbers : canvases[v][p] = None
       \/ \A d \in Docs : seen[v] # {d}

(* The selection, as a viewer has it and as a report holds it.             *)
Cut(v, s) == s.doc # None => s.doc \in seen[v] /\ s.page <= Count[s.doc]

Marked(v) ==
    /\ selection[v] = None => made[v] = 0
    /\ selection[v] # None => made[v] > 0 /\ selection[v].no = made[v] /\ Cut(v, selection[v])

Good(c) ==
    /\ c.doc \in seen[c.from]
    /\ c.sel = None => c.taken = 0
    /\ c.sel # None => c.taken > 0 /\ c.sel.no = c.taken /\ Cut(c.from, c.sel)

(* What waits to be reported, with the page count of a document.           *)
WaitingReport(v, c) == c.from = v /\ Good(c) /\ ~c.ask /\ \E d \in seen[v] : c.count = Count[d]

Waits(v) == (queued[v] # None => WaitingReport(v, queued[v])) /\ \A l \in searches[v] : WaitingReport(v, l.save)

Aimed(v) == moved[v] <= asked[v] /\ (stage[v] # "new" /\ applied[v] # shown[v] => moved[v] < asked[v])

Asks(c) ==
    c.ask => /\ c.sel # None /\ c.sel.page = c.page /\ c.page <= c.count /\ c.count = Count[c.doc]
             /\ c.sel.doc # None => c.sel.doc = c.doc /\ c.shot = c.doc

Call(i) ==
    /\ report[i] # None => Good(report[i]) /\ PV!Telling(report[i]) /\ Asks(report[i])
    /\ calls[i] # {} \/ heard[i] # {} \/ await[i] # "none" => report[i] # None
    /\ await[i] = "ok" => heard[i] # {}
    /\ await[i] = "unsent" => calls[i] = {}
    /\ i \in prompted => heard[i] # {} \/ await[i] = "unsent"

Known(k) == view[k] # None => /\ PV!Telling(view[k])
                              /\ view[k].sel # None => view[k].taken > 0 /\ view[k].sel.no = view[k].taken

ViewerInv(v) == Paper(v) /\ Marked(v) /\ Waits(v) /\ Aimed(v)

ViewersInv == ViewersTypeOK /\ (\A v \in Viewers : ViewerInv(v)) /\ (\A i \in Reports : Call(i)) /\ (\A k \in Servers : Known(k))

(* States, and what is changed in them.                                    *)
LEMMA SavedIsState ==
    ASSUME Documents, ViewersTypeOK, NEW v \in Viewers, NEW d \in Docs, NEW n \in Numbers, NEW p \in Numbers
    PROVE  /\ PV!Saved(v, d, n, p) \in PV!States
           /\ PV!Saved(v, d, n, p).from = v /\ PV!Saved(v, d, n, p).doc = d /\ PV!Saved(v, d, n, p).page = p
           /\ PV!Saved(v, d, n, p).count = n /\ PV!Saved(v, d, n, p).sel = selection[v]
           /\ PV!Saved(v, d, n, p).taken = made[v] /\ PV!Saved(v, d, n, p).ask = FALSE
  BY DEF PV!Saved, PV!States, ViewersTypeOK

LEMMA OtherPage ==
    ASSUME NEW c \in PV!States, NEW p \in Numbers
    PROVE  LET e == [c EXCEPT !.page = p]
           IN  /\ e \in PV!States /\ e.page = p
               /\ e.from = c.from /\ e.doc = c.doc /\ e.count = c.count /\ e.sel = c.sel /\ e.taken = c.taken /\ e.ask = c.ask
  BY DEF PV!States

LEMMA OtherShot ==
    ASSUME NEW c \in PV!States, NEW x \in Docs \cup {None}
    PROVE  LET e == [c EXCEPT !.shot = x]
           IN  /\ e \in PV!States /\ e.shot = x /\ e.page = c.page
               /\ e.from = c.from /\ e.doc = c.doc /\ e.count = c.count /\ e.sel = c.sel /\ e.taken = c.taken /\ e.ask = c.ask
  BY DEF PV!States

LEMMA KeptIsState ==
    ASSUME NEW c \in PV!States, NEW a \in BOOLEAN, NEW b \in BOOLEAN
    PROVE  LET e == PV!Kept(c, a, b)
           IN  /\ e \in PV!States /\ e.shot \in {c.shot, None} /\ e.sel \in {c.sel, None} /\ e.page = c.page
               /\ e.from = c.from /\ e.doc = c.doc /\ e.count = c.count /\ e.taken = c.taken
  BY DEF PV!States, PV!Kept

(* What a state tells stays true as its viewer shows more.                 *)
LEMMA StaysWaiting ==
    ASSUME NEW v \in Viewers, NEW c, WaitingReport(v, c), seen[v] \subseteq seen'[v]
    PROVE  WaitingReport(v, c)'
  BY DEF WaitingReport, Good, Cut

LEMMA StaysTrue ==
    ASSUME Documents, ViewersTypeOK, NEW c \in PV!States, seen[c.from] \subseteq seen'[c.from], PV!Telling(c), c.doc \in seen[c.from]
    PROVE  PV!Telling(c)'
  <1>1. seen'[c.from] = {c.doc} => seen[c.from] = {c.doc}
    OBVIOUS
  <1> QED
    BY <1>1 DEF PV!Telling

LEMMA StaysGood ==
    ASSUME NEW c, seen[c.from] \subseteq seen'[c.from], Good(c)
    PROVE  Good(c)'
  BY DEF Good, Cut

LEMMA SeenGrows ==
    ASSUME ViewersTypeOK, NEW v \in Viewers, PV!Step(v), NEW w \in Viewers
    PROVE  seen[w] \subseteq seen'[w]
  <1>1. ASSUME NEW s \in PV!Targets, PV!Mount(v, s) \/ \E b \in BOOLEAN : PV!Show(v, s, b)
        PROVE  seen[w] \subseteq seen'[w]
    <2>1. seen' = [seen EXCEPT ![v] = @ \cup {s.doc}]
      BY <1>1 DEF PV!Mount, PV!Show
    <2> QED
      BY <2>1 DEF ViewersTypeOK
  <1>2. CASE seen' = seen
    BY <1>2
  <1> QED
    BY <1>1, <1>2 DEF PV!Step, PV!Unmount, PV!Zoom, PV!ToggleSelect, PV!Load, PV!RenderPage, PV!Scroll, PV!BeginSelection, PV!DropSelection, PV!EndSearch, PV!FireTimer, PV!Screenshot, PV!EndSelection, PV!paper

(* A state that is taken now waits, once the document is seen.             *)
LEMMA TakenWaits ==
    ASSUME Documents, ViewersTypeOK, NEW v \in Viewers, Marked(v), NEW d \in Docs, d \in seen'[v], NEW n \in Docs, n \in seen'[v],
           seen[v] \subseteq seen'[v], NEW p \in Numbers, NEW c, c = PV!Saved(v, d, Count[n], p)
    PROVE  c \in PV!States /\ WaitingReport(v, c)' /\ c.page = p
  <1>1. Count[n] \in Numbers
    BY DEF Documents
  <1>2. c \in PV!States /\ c.from = v /\ c.doc = d /\ c.page = p /\ c.count = Count[n] /\ c.sel = selection[v] /\ c.taken = made[v] /\ c.ask = FALSE
    BY <1>1 DEF PV!Saved, PV!States, ViewersTypeOK
  <1>3. Good(c)'
    BY <1>2 DEF Marked, Good, Cut
  <1> QED
    BY <1>2, <1>3 DEF WaitingReport

(* scrollToPage: what is queued afterwards is a state that waits.          *)
Scrolled(v, c, p) ==
    \/ UNCHANGED <<current, queued>>
    \/ /\ current' = [current EXCEPT ![v] = p]
       /\ queued' = [queued EXCEPT ![v] = [c EXCEPT !.page = p]]

LEMMA ScrolledQueues ==
    ASSUME Documents, ViewersTypeOK, NEW v \in Viewers, NEW c \in PV!States, WaitingReport(v, c)', NEW p \in Numbers, Scrolled(v, c, p)
    PROVE  /\ current' \in [Viewers -> Numbers] /\ queued' \in [Viewers -> PV!States \cup {None}]
           /\ \A w \in Viewers : w # v => queued'[w] = queued[w]
           /\ queued'[v] = queued[v] \/ (queued'[v] # None /\ WaitingReport(v, queued[v])')
  <1>1. PICK e : e = [c EXCEPT !.page = p]
    OBVIOUS
  <1>2. /\ e \in PV!States
        /\ e.from = c.from /\ e.doc = c.doc /\ e.count = c.count /\ e.sel = c.sel /\ e.taken = c.taken /\ e.ask = c.ask
    BY <1>1, OtherPage
  <1>3. WaitingReport(v, e)'
    BY <1>2 DEF WaitingReport, Good
  <1>4. CASE UNCHANGED <<current, queued>>
    BY <1>4 DEF ViewersTypeOK
  <1>5. CASE current' = [current EXCEPT ![v] = p] /\ queued' = [queued EXCEPT ![v] = e]
    <2>1. queued'[v] = e /\ e # None
      BY <1>5, <1>2 DEF ViewersTypeOK, Documents
    <2>2. WaitingReport(v, queued[v])'
      BY <1>3, <2>1 DEF WaitingReport, Good, Cut
    <2> QED
      BY <1>5, <1>2, <2>1, <2>2 DEF ViewersTypeOK
  <1> QED
    BY <1>1, <1>4, <1>5 DEF Scrolled

LEMMA OldWaits ==
    ASSUME NEW v \in Viewers, Waits(v), seen[v] \subseteq seen'[v]
    PROVE  /\ queued'[v] = queued[v] /\ queued[v] # None => WaitingReport(v, queued[v])'
           /\ \A l \in searches[v] : l.save = l.save /\ WaitingReport(v, l.save)'
  <1>1. ASSUME queued'[v] = queued[v], queued[v] # None PROVE WaitingReport(v, queued[v])'
    BY <1>1 DEF Waits, WaitingReport, Good, Cut
  <1>2. ASSUME NEW l \in searches[v] PROVE WaitingReport(v, l.save)'
    <2>1. PICK c : c = l.save
      OBVIOUS
    <2>2. WaitingReport(v, c)
      BY <2>1 DEF Waits
    <2>3. WaitingReport(v, c)'
      BY <2>2, StaysWaiting
    <2> QED
      BY <2>1, <2>3
  <1> QED
    BY <1>1, <1>2

(* The effect for the target moves at most once, towards the target given. *)
Applied(v, s) ==
    /\ current' \in [Viewers -> Numbers] /\ queued' \in [Viewers -> PV!States \cup {None}]
    /\ applied' \in [Viewers -> PV!Targets \cup {None}] /\ moved' \in [Viewers -> Nat]
    /\ searches' \in [Viewers -> SUBSET PV!Lookups]
    /\ \A w \in Viewers : w # v => /\ queued'[w] = queued[w] /\ searches'[w] = searches[w]
                                   /\ applied'[w] = applied[w] /\ moved'[w] = moved[w]
    /\ \/ applied'[v] = applied[v] /\ moved'[v] = moved[v]
       \/ applied[v] # s /\ applied'[v] = s /\ moved'[v] = moved[v] + 1

LEMMA TargetApplied ==
    ASSUME Documents, ViewersTypeOK, NEW v \in Viewers, NEW s \in PV!Targets, NEW done, NEW known, PV!ApplyTarget(v, s, done, known),
           s.doc \in seen'[v], pdf[v] \in Docs => pdf[v] \in seen'[v], seen[v] \subseteq seen'[v], Marked(v), Waits(v)
    PROVE  Applied(v, s) /\ Waits(v)'
  <1>1. CASE UNCHANGED <<PV!aim, current, queued>>
    <2>1. Applied(v, s)
      BY <1>1 DEF Applied, ViewersTypeOK, PV!aim
    <2>2. queued'[v] = queued[v] /\ searches'[v] = searches[v]
      BY <1>1 DEF PV!aim
    <2>3. Waits(v)'
      BY <2>2, OldWaits DEF Waits
    <2> QED
      BY <2>1, <2>3
  <1>2. CASE ~ UNCHANGED <<PV!aim, current, queued>>
    <2>1. /\ pdf[v] \in Docs /\ applied[v] # s
          /\ applied' = [applied EXCEPT ![v] = s] /\ moved' = [moved EXCEPT ![v] = @ + 1]
      BY <1>2 DEF PV!ApplyTarget
    <2>2. PICK d \in Docs : d = pdf[v] /\ d \in seen'[v]
      BY <2>1
    <2>3. PICK p : p = PV!Within(s.page, Count[d])
      OBVIOUS
    <2>4. p \in Numbers
      BY <2>3 DEF PV!Within, Documents, PV!Targets
    <2>5. PICK c : c = PV!Saved(v, s.doc, Count[d], p)
      OBVIOUS
    <2>6. PICK e \in Docs : e = s.doc
      BY DEF PV!Targets
    <2>7. c \in PV!States /\ WaitingReport(v, c)' /\ c.page = p
      BY <2>2, <2>4, <2>5, <2>6, TakenWaits
    <2>8. /\ applied' \in [Viewers -> PV!Targets \cup {None}] /\ moved' \in [Viewers -> Nat]
          /\ \A w \in Viewers : w # v => applied'[w] = applied[w] /\ moved'[w] = moved[w]
          /\ applied'[v] = s /\ moved'[v] = moved[v] + 1
      BY <2>1 DEF ViewersTypeOK
    <2>9. CASE s.query = None
      <3>1. PV!ScrollToPage(v, c, c.page, known) /\ searches' = searches
        BY <1>2, <2>1, <2>2, <2>3, <2>5, <2>9 DEF PV!ApplyTarget
      <3>2. Scrolled(v, c, p)
        BY <3>1, <2>7 DEF PV!ScrollToPage, Scrolled
      <3>3. /\ current' \in [Viewers -> Numbers] /\ queued' \in [Viewers -> PV!States \cup {None}]
            /\ \A w \in Viewers : w # v => queued'[w] = queued[w]
            /\ queued'[v] = queued[v] \/ (queued'[v] # None /\ WaitingReport(v, queued[v])')
        BY <3>2, <2>7, <2>4, ScrolledQueues
      <3>4. Applied(v, s)
        BY <2>1, <2>8, <3>1, <3>3 DEF Applied, ViewersTypeOK
      <3>5. Waits(v)'
        BY <3>1, <3>3, OldWaits DEF Waits
      <3> QED
        BY <3>4, <3>5
    <2>10. CASE s.query # None
      <3>1. PICK l : l = [in |-> d, save |-> c, no |-> moved[v]]
        OBVIOUS
      <3>2. searches' = [searches EXCEPT ![v] = @ \cup {l}] /\ current' = current /\ queued' = queued
        BY <1>2, <2>1, <2>2, <2>3, <2>5, <2>10, <3>1 DEF PV!ApplyTarget
      <3>3. l \in PV!Lookups /\ l.save = c
        BY <3>1, <2>7 DEF PV!Lookups, ViewersTypeOK
      <3>4. Applied(v, s)
        BY <2>1, <2>8, <3>2, <3>3 DEF Applied, ViewersTypeOK
      <3>5. queued'[v] = queued[v] /\ searches'[v] = searches[v] \cup {l}
        BY <3>2 DEF ViewersTypeOK
      <3>6. ASSUME NEW m \in searches'[v] PROVE WaitingReport(v, m.save)'
        <4>1. CASE m = l
          <5>1. WaitingReport(v, c)' /\ m.save = c
            BY <2>7, <3>3, <4>1
          <5> QED
            BY <5>1
        <4>2. CASE m \in searches[v]
          BY <4>2, OldWaits
        <4> QED
          BY <3>5, <4>1, <4>2
      <3>7. Waits(v)'
        BY <3>5, <3>6, OldWaits DEF Waits
      <3> QED
        BY <3>4, <3>7
    <2> QED
      BY <2>9, <2>10
  <1> QED
    BY <1>1, <1>2

(* A step of one viewer leaves what the others have alone.                 *)
LEMMA OtherViewers ==
    ASSUME Documents, ViewersTypeOK, NEW v \in Viewers, ViewerInv(v), PV!Step(v), NEW w \in Viewers, w # v
    PROVE  /\ stage'[w] = stage[w] /\ shown'[w] = shown[w] /\ pdf'[w] = pdf[w] /\ rendered'[w] = rendered[w]
           /\ canvases'[w] = canvases[w] /\ seen'[w] = seen[w] /\ asked'[w] = asked[w]
           /\ selection'[w] = selection[w] /\ made'[w] = made[w]
           /\ queued'[w] = queued[w] /\ searches'[w] = searches[w] /\ applied'[w] = applied[w] /\ moved'[w] = moved[w]
  <1> DEFINE Same == /\ stage'[w] = stage[w] /\ shown'[w] = shown[w] /\ pdf'[w] = pdf[w] /\ rendered'[w] = rendered[w]
                     /\ canvases'[w] = canvases[w] /\ seen'[w] = seen[w] /\ asked'[w] = asked[w]
                     /\ selection'[w] = selection[w] /\ made'[w] = made[w]
                     /\ queued'[w] = queued[w] /\ searches'[w] = searches[w] /\ applied'[w] = applied[w] /\ moved'[w] = moved[w]
  <1> SUFFICES Same
    OBVIOUS
  <1> USE DEF ViewersTypeOK, PV!paper, PV!mark, PV!aim
  <1>1. ASSUME NEW s \in PV!Targets, PV!Mount(v, s) PROVE Same
    BY <1>1 DEF PV!Mount
  <1>2. ASSUME NEW s \in PV!Targets, NEW b \in BOOLEAN, PV!Show(v, s, b) PROVE Same
    BY <1>2 DEF PV!Show, PV!ApplyTarget, PV!ScrollToPage
  <1>3. CASE PV!Unmount(v)
    BY <1>3 DEF PV!Unmount
  <1>4. CASE PV!Zoom(v)
    BY <1>4 DEF PV!Zoom
  <1>5. CASE PV!ToggleSelect(v)
    BY <1>5 DEF PV!ToggleSelect
  <1>6. ASSUME NEW b \in BOOLEAN, PV!Load(v, b) PROVE Same
    BY <1>6 DEF PV!Load
  <1>7. ASSUME NEW p \in Numbers, PV!RenderPage(v, p) PROVE Same
    BY <1>7 DEF PV!RenderPage, PV!ApplyTarget, PV!ScrollToPage
  <1>8. ASSUME NEW p \in Numbers, PV!Scroll(v, p) PROVE Same
    BY <1>8 DEF PV!Scroll
  <1>9. ASSUME NEW p \in Numbers, PV!BeginSelection(v, p) PROVE Same
    BY <1>9 DEF PV!BeginSelection
  <1>10. ASSUME NEW p \in Numbers, PV!DropSelection(v, p) PROVE Same
    BY <1>10 DEF PV!DropSelection, PV!EndDraft
  <1>11. ASSUME NEW l \in searches[v], NEW p \in Numbers \cup {0, None}, PV!EndSearch(v, l, p) PROVE Same
    BY <1>11 DEF PV!EndSearch, PV!ScrollToPage
  <1>12. ASSUME NEW i \in Reports, PV!FireTimer(v, i) PROVE Same
    BY <1>12 DEF PV!FireTimer
  <1>13. ASSUME NEW i \in Reports, PV!Screenshot(v, i) PROVE Same
    BY <1>13 DEF PV!Screenshot
  <1>14. ASSUME NEW i \in Reports, NEW p \in Numbers, PV!EndSelection(v, p, i) PROVE Same
    BY <1>14 DEF PV!EndSelection
  <1> QED
    BY <1>1, <1>2, <1>3, <1>4, <1>5, <1>6, <1>7, <1>8, <1>9, <1>10, <1>11, <1>12, <1>13, <1>14 DEF PV!Step

(* Two actions apply a target.                                             *)
LEMMA ShowApplies ==
    ASSUME Documents, ViewersTypeOK, NEW v \in Viewers, ViewerInv(v), NEW s \in PV!Targets, NEW b \in BOOLEAN, PV!Show(v, s, b)
    PROVE  Applied(v, s) /\ Waits(v)'
  <1>1. seen'[v] = seen[v] \cup {s.doc} /\ PV!ApplyTarget(v, s, rendered[v], canvases[v])
    BY DEF PV!Show, ViewersTypeOK
  <1>2. pdf[v] \in Docs => pdf[v] \in seen[v]
    BY DEF ViewerInv, Paper, PV!Show
  <1> QED
    BY <1>1, <1>2, TargetApplied DEF ViewerInv

LEMMA RenderApplies ==
    ASSUME Documents, ViewersTypeOK, NEW v \in Viewers, ViewerInv(v), NEW p \in Numbers, PV!RenderPage(v, p)
    PROVE  Applied(v, shown[v]) /\ Waits(v)'
  <1>1. seen' = seen /\ PV!ApplyTarget(v, shown[v], rendered[v] \cup {p}, [canvases[v] EXCEPT ![p] = pdf[v]])
    BY DEF PV!RenderPage
  <1>2. shown[v] \in PV!Targets /\ shown[v].doc \in seen[v] /\ (pdf[v] \in Docs => pdf[v] \in seen[v])
    BY DEF PV!RenderPage, PV!HasPage, ViewerInv, Paper
  <1> QED
    BY <1>1, <1>2, TargetApplied DEF ViewerInv

LEMMA PaperStep ==
    ASSUME Documents, ViewersTypeOK, NEW v \in Viewers, ViewerInv(v), PV!Step(v)
    PROVE  Paper(v)'
  <1>0. Paper(v)
    BY DEF ViewerInv
  <1>1. ASSUME NEW s \in PV!Targets, PV!Mount(v, s) PROVE Paper(v)'
    BY <1>0, <1>1 DEF PV!Mount, Documents, ViewersTypeOK, Paper
  <1>2. ASSUME NEW s \in PV!Targets, NEW b \in BOOLEAN, PV!Show(v, s, b) PROVE Paper(v)'
    <2>1. /\ stage' = stage /\ stage[v] = "open" /\ canvases' = canvases /\ shown'[v] = s /\ s \in PV!Targets /\ s.doc \in Docs
          /\ seen'[v] = seen[v] \cup {s.doc} /\ shown[v].doc \in seen[v]
      BY <1>0, <1>2 DEF PV!Show, PV!Targets, ViewersTypeOK, Paper
    <2>2. CASE s.doc = shown[v].doc
      <3>1. pdf'[v] = pdf[v] /\ rendered'[v] \subseteq rendered[v] /\ seen'[v] = seen[v]
        BY <1>2, <2>1, <2>2 DEF PV!Show, ViewersTypeOK
      <3> QED
        BY <1>0, <2>1, <2>2, <3>1 DEF Paper, Documents, ViewersTypeOK
    <2>3. CASE s.doc # shown[v].doc
      <3>1. pdf'[v] = None /\ rendered'[v] = {}
        BY <1>2, <2>3 DEF PV!Show, ViewersTypeOK
      <3>2. \A d \in Docs : seen'[v] # {d}
        <4> SUFFICES ASSUME NEW d \in Docs, seen'[v] = {d} PROVE FALSE
          OBVIOUS
        <4>1. s.doc \in seen'[v] /\ shown[v].doc \in seen'[v]
          BY <2>1
        <4>2. s.doc = d /\ shown[v].doc = d
          BY <4>1
        <4> QED
          BY <4>2, <2>3
      <3>3. \A p \in Numbers : canvases'[v][p] # None => canvases'[v][p] \in seen'[v] /\ p <= Count[canvases'[v][p]]
        BY <1>0, <2>1 DEF Paper
      <3> QED
        BY <2>1, <3>1, <3>2, <3>3, Documents DEF Paper, Documents
    <2> QED
      BY <2>2, <2>3
  <1>3. CASE PV!Unmount(v)
    BY <1>0, <1>3, Documents DEF PV!Unmount, Documents, ViewersTypeOK, Paper
  <1>4. CASE PV!Zoom(v)
    BY <1>0, <1>4, Documents DEF PV!Zoom, Documents, ViewersTypeOK, Paper
  <1>5. ASSUME NEW b \in BOOLEAN, PV!Load(v, b) PROVE Paper(v)'
    BY <1>0, <1>5, Documents DEF PV!Load, Documents, ViewersTypeOK, Paper
  <1>6. ASSUME NEW p \in Numbers, PV!RenderPage(v, p) PROVE Paper(v)'
    <2>1. /\ stage' = stage /\ shown' = shown /\ pdf' = pdf /\ seen' = seen
          /\ pdf[v] \in Docs /\ stage[v] = "open" /\ p <= Count[pdf[v]] /\ pdf[v] \in seen[v]
      BY <1>0, <1>6, Documents DEF PV!RenderPage, PV!HasPage, Documents, Paper, ViewersTypeOK
    <2>2. rendered'[v] = rendered[v] \cup {p} /\ canvases'[v] = [canvases[v] EXCEPT ![p] = pdf[v]]
      BY <1>6 DEF PV!RenderPage, ViewersTypeOK
    <2>3. canvases'[v][p] = pdf[v] /\ \A q \in Numbers : q # p => canvases'[v][q] = canvases[v][q]
      BY <2>2 DEF ViewersTypeOK
    <2>4. \A q \in Numbers : canvases'[v][q] # None => canvases'[v][q] \in seen[v] /\ q <= Count[canvases'[v][q]]
      BY <1>0, <2>1, <2>3 DEF Paper
    <2>5. \A q \in rendered'[v] : canvases'[v][q] = pdf[v]
      BY <1>0, <2>2, <2>3 DEF Paper, ViewersTypeOK
    <2> QED
      BY <1>0, <2>1, <2>4, <2>5 DEF Paper
  <1>7. CASE UNCHANGED PV!paper
    BY <1>0, <1>7 DEF PV!paper, Paper
  <1> QED
    BY <1>1, <1>2, <1>3, <1>4, <1>5, <1>6, <1>7 DEF PV!Step, PV!Scroll, PV!BeginSelection, PV!DropSelection, PV!EndSearch, PV!FireTimer, PV!Screenshot, PV!EndSelection, PV!ToggleSelect

LEMMA MarkedStep ==
    ASSUME Documents, ViewersTypeOK, NEW v \in Viewers, ViewerInv(v), PV!Step(v)
    PROVE  Marked(v)'
  <1>0. Marked(v) /\ seen[v] \subseteq seen'[v]
    BY SeenGrows DEF ViewerInv
  <1>1. ASSUME NEW i \in Reports, NEW p \in Numbers, PV!EndSelection(v, p, i) PROVE Marked(v)'
    <2>1. PICK c : c = PV!Crop(v, p)
      OBVIOUS
    <2>2. c.no = made[v] + 1 /\ c.page = p /\ c.doc = IF p \in rendered[v] THEN canvases[v][p] ELSE None
      BY <2>1 DEF PV!Crop
    <2>3. c \in PV!Selections
      BY <2>1 DEF PV!Crop, PV!Selections, ViewersTypeOK
    <2>4. selection'[v] = c /\ made'[v] = made[v] + 1 /\ seen' = seen
      BY <1>1, <2>1 DEF PV!EndSelection, PV!paper, ViewersTypeOK
    <2>5. Cut(v, c)
      BY <2>2 DEF Cut, ViewerInv, Paper
    <2> QED
      BY <2>2, <2>3, <2>4, <2>5 DEF Marked, Cut, ViewersTypeOK, Documents
  <1>2. CASE selection' = selection /\ made' = made
    BY <1>0, <1>2 DEF Marked, Cut
  <1> QED
    BY <1>1, <1>2 DEF PV!Step, PV!Mount, PV!Show, PV!Unmount, PV!Zoom, PV!ToggleSelect, PV!Load, PV!RenderPage, PV!Scroll, PV!BeginSelection, PV!DropSelection, PV!EndSearch, PV!FireTimer, PV!Screenshot, PV!mark

LEMMA AimedStep ==
    ASSUME Documents, ViewersTypeOK, NEW v \in Viewers, ViewerInv(v), PV!Step(v)
    PROVE  Aimed(v)'
  <1> USE DEF ViewersTypeOK
  <1>0. Aimed(v)
    BY DEF ViewerInv
  <1>1. ASSUME NEW s \in PV!Targets, PV!Mount(v, s) PROVE Aimed(v)'
    BY <1>0, <1>1 DEF PV!Mount, Aimed, PV!aim, ViewerInv, Paper
  <1>2. ASSUME NEW s \in PV!Targets, NEW b \in BOOLEAN, PV!Show(v, s, b) PROVE Aimed(v)'
    <2>1. asked'[v] = asked[v] + 1 /\ shown'[v] = s
      BY <1>2 DEF PV!Show
    <2>2. Applied(v, s)
      BY <1>2, ShowApplies
    <2> QED
      BY <1>0, <2>1, <2>2 DEF Applied, Aimed
  <1>3. ASSUME NEW p \in Numbers, PV!RenderPage(v, p) PROVE Aimed(v)'
    <2>1. asked' = asked /\ shown' = shown /\ stage' = stage /\ stage[v] # "new"
      BY <1>3 DEF PV!RenderPage, PV!HasPage
    <2>2. Applied(v, shown[v])
      BY <1>3, RenderApplies
    <2> QED
      BY <1>0, <2>1, <2>2 DEF Applied, Aimed
  <1>4. CASE PV!Unmount(v)
    BY <1>0, <1>4 DEF PV!Unmount, Aimed, PV!aim
  <1>5. CASE UNCHANGED <<stage, shown, asked, applied, moved>>
    BY <1>0, <1>5 DEF Aimed
  <1> QED
    BY <1>1, <1>2, <1>3, <1>4, <1>5 DEF PV!Step, PV!Zoom, PV!ToggleSelect, PV!Load, PV!Scroll, PV!BeginSelection, PV!DropSelection, PV!EndSearch, PV!FireTimer, PV!Screenshot, PV!EndSelection, PV!paper, PV!aim

LEMMA WaitsStep ==
    ASSUME Documents, ViewersTypeOK, NEW v \in Viewers, ViewerInv(v), PV!Step(v)
    PROVE  Waits(v)'
  <1>0. Waits(v) /\ Marked(v) /\ seen[v] \subseteq seen'[v]
    BY SeenGrows DEF ViewerInv
  <1>1. ASSUME NEW s \in PV!Targets, NEW b \in BOOLEAN, PV!Show(v, s, b) PROVE Waits(v)'
    BY <1>1, ShowApplies
  <1>2. ASSUME NEW p \in Numbers, PV!RenderPage(v, p) PROVE Waits(v)'
    BY <1>2, RenderApplies
  <1>3. ASSUME NEW p \in Numbers, PV!Scroll(v, p) PROVE Waits(v)'
    <2>1. PICK d \in Docs : d = pdf[v] /\ d = shown[v].doc /\ d \in seen'[v]
      BY <1>0, <1>3 DEF PV!Scroll, ViewerInv, Paper
    <2>2. PICK c : c = PV!Saved(v, d, Count[d], p)
      OBVIOUS
    <2>3. c \in PV!States /\ WaitingReport(v, c)'
      BY <1>0, <2>1, <2>2, TakenWaits
    <2>4. queued'[v] = c /\ searches' = searches
      BY <1>3, <2>1, <2>2 DEF PV!Scroll, PV!PageCount, ViewersTypeOK, PV!aim
    <2>5. WaitingReport(v, queued[v])'
      BY <2>3, <2>4 DEF WaitingReport, Good, Cut
    <2> QED
      BY <1>0, <2>4, <2>5, OldWaits DEF Waits
  <1>4. ASSUME NEW l \in searches[v], NEW p \in Numbers \cup {0, None}, PV!EndSearch(v, l, p) PROVE Waits(v)'
    <2>1. searches'[v] = searches[v] \ {l}
      BY <1>4 DEF PV!EndSearch, ViewersTypeOK
    <2>2. PICK c : c = l.save
      OBVIOUS
    <2>3. WaitingReport(v, c)
      BY <1>0, <2>2 DEF Waits
    <2>4. WaitingReport(v, c)'
      BY <1>0, <2>3, StaysWaiting
    <2>5. c \in PV!States
      BY <2>2 DEF ViewersTypeOK, PV!Lookups
    <2>6. \A m \in searches'[v] : WaitingReport(v, m.save)'
      BY <1>0, <2>1, OldWaits
    <2>7. queued' = queued \/ \E x \in Numbers : Scrolled(v, c, x)
      <3>1. c.page \in Numbers /\ \A x \in 1 .. Count[l.in] : x \in Numbers
        BY <2>5 DEF PV!States, Documents, ViewersTypeOK, PV!Lookups
      <3> QED
        BY <1>4, <2>2, <3>1 DEF PV!EndSearch, PV!ScrollToPage, Scrolled
    <2>8. queued'[v] = queued[v] \/ (queued'[v] # None /\ WaitingReport(v, queued[v])')
      BY <2>7, <2>4, <2>5, ScrolledQueues
    <2> QED
      BY <1>0, <2>6, <2>8, OldWaits DEF Waits
  <1>5. ASSUME NEW i \in Reports, PV!FireTimer(v, i) PROVE Waits(v)'
    <2>1. queued'[v] = None /\ searches' = searches
      BY <1>5 DEF PV!FireTimer, ViewersTypeOK, PV!aim
    <2> QED
      BY <1>0, <2>1, OldWaits DEF Waits
  <1>6. CASE queued' = queued /\ searches' = searches
    BY <1>0, <1>6, OldWaits DEF Waits
  <1> QED
    BY <1>1, <1>2, <1>3, <1>4, <1>5, <1>6 DEF PV!Step, PV!Mount, PV!Unmount, PV!Zoom, PV!ToggleSelect, PV!Load, PV!BeginSelection, PV!DropSelection, PV!Screenshot, PV!EndSelection, PV!aim

(* A call made with a state that is true tells the truth.                  *)
LEMMA SendTells ==
    ASSUME Documents, ViewersTypeOK, NEW i \in Reports, Call(i), NEW c \in PV!States, PV!Send(i, c), Good(c), Paper(c.from), seen' = seen,
           (\E d \in seen[c.from] : c.count = Count[d]) \/ pdf[c.from] \notin Docs,
           Asks([c EXCEPT !.shot = canvases[c.from][c.page]])
    PROVE  /\ report' \in [Reports -> PV!States \cup {None}]
           /\ await' \in [Reports -> {"none", "first", "second", "ok", "failed", "unsent"}]
           /\ calls' \in [Reports -> SUBSET {"first", "second"}] /\ heard' = heard
           /\ \A j \in Reports : j # i => report'[j] = report[j] /\ await'[j] = await[j] /\ calls'[j] = calls[j]
           /\ report[i] = None /\ report'[i] # None
           /\ await'[i] = "first" \/ (await'[i] = "unsent" /\ calls'[i] = calls[i])
           /\ Good(report[i])' /\ PV!Telling(report[i])' /\ Asks(report[i])'
  <1>1. PICK x : x = canvases[c.from][c.page]
    OBVIOUS
  <1>2. x \in Docs \cup {None} /\ c.from \in Viewers /\ c.page \in Numbers /\ c.doc \in Docs
    BY <1>1 DEF ViewersTypeOK, PV!States
  <1>3. PICK e : e = [c EXCEPT !.shot = x]
    OBVIOUS
  <1>4. /\ e \in PV!States /\ e.shot = x /\ e.page = c.page
        /\ e.from = c.from /\ e.doc = c.doc /\ e.count = c.count /\ e.sel = c.sel /\ e.taken = c.taken /\ e.ask = c.ask
    BY <1>2, <1>3, OtherShot
  <1>5. report' = [report EXCEPT ![i] = e]
    BY <1>1, <1>3 DEF PV!Send
  <1>6. report'[i] = e /\ e # None
    BY <1>4, <1>5 DEF ViewersTypeOK, Documents
  <1>7. Good(e) /\ Asks(e)
    BY <1>1, <1>3, <1>4 DEF Good
  <1>8. x # None => x \in seen[c.from] /\ c.page <= Count[x]
    BY <1>1, <1>2 DEF Paper
  <1>9. ASSUME x # None, seen[c.from] = {c.doc} PROVE c.page <= c.count /\ c.count = Count[c.doc]
    <2>1. pdf[c.from] \in Docs
      BY <1>1, <1>2, <1>9 DEF Paper
    <2>2. PICK d \in seen[c.from] : c.count = Count[d]
      BY <2>1
    <2>3. d = c.doc /\ x = c.doc
      BY <1>8, <1>9, <2>2
    <2> QED
      BY <1>8, <1>9, <2>2, <2>3
  <1>10. c.sel # None /\ c.sel.doc # None => c.sel.doc \in seen[c.from] /\ c.sel.page <= Count[c.sel.doc]
    BY DEF Good, Cut
  <1>11. PV!Telling(e)
    BY <1>4, <1>7, <1>8, <1>9, <1>10 DEF PV!Telling, Good
  <1>12. Good(report[i])' /\ PV!Telling(report[i])' /\ Asks(report[i])'
    BY <1>6, <1>7, <1>11 DEF Good, PV!Telling, Asks, Cut
  <1>13. report' \in [Reports -> PV!States \cup {None}] /\ \A j \in Reports : j # i => report'[j] = report[j]
    BY <1>4, <1>5 DEF ViewersTypeOK
  <1>14. /\ await' \in [Reports -> {"none", "first", "second", "ok", "failed", "unsent"}]
         /\ calls' \in [Reports -> SUBSET {"first", "second"}] /\ heard' = heard /\ report[i] = None
         /\ \A j \in Reports : j # i => await'[j] = await[j] /\ calls'[j] = calls[j]
         /\ await'[i] = "first" \/ (await'[i] = "unsent" /\ calls'[i] = calls[i])
    <2>0. await \in [Reports -> {"none", "first", "second", "ok", "failed", "unsent"}] /\ calls \in [Reports -> SUBSET {"first", "second"}]
      BY DEF ViewersTypeOK
    <2>1. CASE await' = [await EXCEPT ![i] = "first"] /\ calls' = [calls EXCEPT ![i] = {"first"}]
      BY <2>0, <2>1 DEF PV!Send
    <2>2. CASE await' = [await EXCEPT ![i] = "unsent"] /\ calls' = calls
      BY <2>0, <2>2 DEF PV!Send
    <2> QED
      BY <2>1, <2>2 DEF PV!Send
  <1> QED
    BY <1>6, <1>12, <1>13, <1>14

(* The three ways to send a report.                                        *)
LEMMA Sends ==
    ASSUME Documents, ViewersTypeOK, NEW v \in Viewers, ViewerInv(v), NEW i \in Reports, Call(i),
           PV!FireTimer(v, i) \/ PV!Screenshot(v, i) \/ \E p \in Numbers : PV!EndSelection(v, p, i)
    PROVE  /\ report' \in [Reports -> PV!States \cup {None}]
           /\ await' \in [Reports -> {"none", "first", "second", "ok", "failed", "unsent"}]
           /\ calls' \in [Reports -> SUBSET {"first", "second"}] /\ heard' = heard
           /\ \A j \in Reports : j # i => report'[j] = report[j] /\ await'[j] = await[j] /\ calls'[j] = calls[j]
           /\ report[i] = None /\ report'[i] # None
           /\ await'[i] = "first" \/ (await'[i] = "unsent" /\ calls'[i] = calls[i])
           /\ Good(report[i])' /\ PV!Telling(report[i])' /\ Asks(report[i])'
  <1>0. seen' = seen
    BY DEF PV!FireTimer, PV!Screenshot, PV!EndSelection, PV!paper
  <1> DEFINE Sent(c) == /\ PV!Send(i, c) /\ Good(c) /\ c.from = v
                        /\ (\E d \in seen[v] : c.count = Count[d]) \/ pdf[v] \notin Docs
                        /\ Asks([c EXCEPT !.shot = canvases[c.from][c.page]])
  <1>1. \E c \in PV!States : Sent(c)
    <2>1. CASE PV!FireTimer(v, i)
      <3>1. PICK c : c = queued[v]
        OBVIOUS
      <3>2. c \in PV!States /\ PV!Send(i, c) /\ WaitingReport(v, c)
        BY <2>1, <3>1 DEF PV!FireTimer, ViewersTypeOK, ViewerInv, Waits
      <3>3. [c EXCEPT !.shot = canvases[c.from][c.page]].ask = c.ask
        BY <3>2 DEF PV!States
      <3> QED
        BY <3>2, <3>3 DEF WaitingReport, Asks
    <2>2. CASE PV!Screenshot(v, i)
      <3>1. PICK c : c = PV!Saved(v, shown[v].doc, PV!PageCount(v), current[v])
        OBVIOUS
      <3>2. shown[v].doc \in Docs /\ shown[v].doc \in seen[v] /\ PV!PageCount(v) \in Numbers /\ current[v] \in Numbers
        BY <2>2 DEF PV!Screenshot, ViewerInv, Paper, PV!Targets, PV!PageCount, Documents, ViewersTypeOK
      <3>3. /\ c \in PV!States /\ c.from = v /\ c.doc = shown[v].doc /\ c.count = PV!PageCount(v)
            /\ c.sel = selection[v] /\ c.taken = made[v] /\ c.ask = FALSE
        BY <3>1, <3>2 DEF PV!Saved, PV!States, ViewersTypeOK
      <3>4. Good(c)
        BY <3>2, <3>3 DEF Good, ViewerInv, Marked, Cut
      <3>5. (\E d \in seen[v] : c.count = Count[d]) \/ pdf[v] \notin Docs
        BY <3>2, <3>3 DEF PV!PageCount, ViewerInv, Paper
      <3>6. [c EXCEPT !.shot = canvases[c.from][c.page]].ask = FALSE
        BY <3>3 DEF PV!States
      <3> QED
        BY <2>2, <3>1, <3>3, <3>4, <3>5, <3>6 DEF PV!Screenshot, Asks
    <2>3. ASSUME NEW p \in Numbers, PV!EndSelection(v, p, i) PROVE \E c \in PV!States : Sent(c)
      <3>0. /\ pdf[v] \in Docs /\ p \in 1 .. Count[pdf[v]] /\ stage[v] = "open" /\ shown[v].doc = pdf[v] /\ pdf[v] \in seen[v]
            /\ PV!PageCount(v) = Count[pdf[v]] /\ Count[pdf[v]] \in Numbers
        BY <2>3 DEF PV!EndSelection, PV!EndDraft, PV!HasPage, ViewerInv, Paper, PV!PageCount, Documents
      <3>1. PICK s : s = PV!Crop(v, p)
        OBVIOUS
      <3>2. s.no = made[v] + 1 /\ s.page = p /\ s.doc = IF p \in rendered[v] THEN canvases[v][p] ELSE None
        BY <3>1 DEF PV!Crop
      <3>3. s \in PV!Selections /\ s # None
        BY <3>1 DEF PV!Crop, PV!Selections, ViewersTypeOK, Documents
      <3>4. PICK c : c = [PV!Saved(v, shown[v].doc, PV!PageCount(v), p) EXCEPT !.sel = s, !.taken = made[v] + 1, !.ask = TRUE]
        OBVIOUS
      <3>5. /\ c \in PV!States /\ c.from = v /\ c.doc = pdf[v] /\ c.page = p /\ c.count = Count[pdf[v]]
            /\ c.sel = s /\ c.taken = made[v] + 1
        <4>1. PICK b : b = PV!Saved(v, shown[v].doc, PV!PageCount(v), p)
          OBVIOUS
        <4>2. b \in PV!States /\ b.from = v /\ b.doc = pdf[v] /\ b.page = p /\ b.count = Count[pdf[v]]
          BY <3>0, <4>1 DEF PV!Saved, PV!States, ViewersTypeOK
        <4>3. c = [b EXCEPT !.sel = s, !.taken = made[v] + 1, !.ask = TRUE] /\ made[v] + 1 \in Nat
          BY <3>4, <4>1 DEF ViewersTypeOK
        <4> QED
          BY <3>3, <4>2, <4>3 DEF PV!States
      <3>6. Cut(v, s)
        BY <3>2 DEF Cut, ViewerInv, Paper
      <3>7. Good(c)
        BY <3>0, <3>2, <3>3, <3>5, <3>6 DEF Good, ViewersTypeOK
      <3>8. PICK e : e = [c EXCEPT !.shot = canvases[c.from][c.page]]
        OBVIOUS
      <3>9. /\ e.shot = canvases[v][p] /\ e.doc = pdf[v] /\ e.page = p /\ e.count = Count[pdf[v]] /\ e.sel = s
        BY <3>5, <3>8 DEF PV!States
      <3>10. s.doc # None => canvases[v][p] = pdf[v] /\ s.doc = pdf[v]
        BY <3>2 DEF ViewerInv, Paper
      <3>11. Asks(e)
        BY <3>0, <3>2, <3>3, <3>9, <3>10 DEF Asks, Documents
      <3>12. PV!Send(i, c)
        BY <2>3, <3>1, <3>4 DEF PV!EndSelection, PV!SavedSelection
      <3> QED
        BY <3>0, <3>5, <3>7, <3>8, <3>11, <3>12
    <2> QED
      BY <2>1, <2>2, <2>3
  <1>2. PICK c \in PV!States : Sent(c)
    BY <1>1
  <1>3. Paper(c.from)
    BY <1>2 DEF ViewerInv
  <1> QED
    BY <1>0, <1>2, <1>3, SendTells

(* Reports and what servers know of them stay true.                        *)
LEMMA CallStays ==
    ASSUME Documents, ViewersTypeOK, NEW i \in Reports, Call(i), \A w \in Viewers : seen[w] \subseteq seen'[w],
           report'[i] = report[i], await'[i] = await[i], calls'[i] = calls[i], heard'[i] = heard[i], prompted' = prompted
    PROVE  Call(i)'
  <1>1. CASE report[i] = None
    BY <1>1 DEF Call
  <1>2. CASE report[i] # None
    <2>1. PICK c : c = report[i]
      OBVIOUS
    <2>2. c \in PV!States /\ c.from \in Viewers /\ Good(c) /\ PV!Telling(c) /\ Asks(c)
      BY <1>2, <2>1 DEF Call, ViewersTypeOK, PV!States
    <2>3. Good(c)' /\ PV!Telling(c)'
      BY <2>2, StaysGood, StaysTrue DEF Good
    <2>4. Good(report[i])' /\ PV!Telling(report[i])' /\ Asks(report[i])'
      BY <2>1, <2>2, <2>3 DEF Good, PV!Telling, Asks, Cut
    <2> QED
      BY <1>2, <2>4 DEF Call
  <1> QED
    BY <1>1, <1>2

LEMMA KnownStays ==
    ASSUME Documents, ViewersTypeOK, NEW k \in Servers, Known(k), \A w \in Viewers : seen[w] \subseteq seen'[w], view'[k] = view[k]
    PROVE  Known(k)'
  <1>1. CASE view[k] = None
    BY <1>1 DEF Known
  <1>2. CASE view[k] # None
    <2>1. PICK c : c = view[k]
      OBVIOUS
    <2>2. c \in PV!States /\ c.from \in Viewers /\ PV!Telling(c) /\ c.doc \in seen[c.from]
      BY <1>2, <2>1 DEF Known, ViewersTypeOK, PV!States, PV!Telling
    <2>3. PV!Telling(c)'
      BY <2>2, StaysTrue
    <2>4. PV!Telling(view[k])'
      BY <2>1, <2>3 DEF PV!Telling
    <2> QED
      BY <1>2, <2>4 DEF Known
  <1> QED
    BY <1>1, <1>2

LEMMA NetStep ==
    ASSUME Documents, ViewersInv, NEW v \in Viewers, PV!Step(v)
    PROVE  /\ report' \in [Reports -> PV!States \cup {None}]
           /\ await' \in [Reports -> {"none", "first", "second", "ok", "failed", "unsent"}]
           /\ calls' \in [Reports -> SUBSET {"first", "second"}] /\ heard' = heard
           /\ prompted' = prompted /\ view' = view
           /\ (\A j \in Reports : Call(j)') /\ (\A k \in Servers : Known(k)')
  <1>1. ViewersTypeOK /\ ViewerInv(v) /\ \A w \in Viewers : seen[w] \subseteq seen'[w]
    BY SeenGrows DEF ViewersInv
  <1>2. prompted' = prompted /\ view' = view
    BY DEF PV!Step, PV!Mount, PV!Show, PV!Unmount, PV!Zoom, PV!ToggleSelect, PV!Load, PV!RenderPage, PV!Scroll, PV!BeginSelection, PV!DropSelection, PV!EndSearch, PV!FireTimer, PV!Screenshot, PV!EndSelection
  <1>3. \A k \in Servers : Known(k)'
    BY <1>1, <1>2, KnownStays DEF ViewersInv
  <1>4. ASSUME NEW i \in Reports, PV!FireTimer(v, i) \/ PV!Screenshot(v, i) \/ \E p \in Numbers : PV!EndSelection(v, p, i)
        PROVE  /\ report' \in [Reports -> PV!States \cup {None}]
               /\ await' \in [Reports -> {"none", "first", "second", "ok", "failed", "unsent"}]
               /\ calls' \in [Reports -> SUBSET {"first", "second"}] /\ heard' = heard
               /\ \A j \in Reports : Call(j)'
    <2>1. Call(i)
      BY DEF ViewersInv
    <2>2. /\ report' \in [Reports -> PV!States \cup {None}]
          /\ await' \in [Reports -> {"none", "first", "second", "ok", "failed", "unsent"}]
          /\ calls' \in [Reports -> SUBSET {"first", "second"}] /\ heard' = heard
          /\ \A j \in Reports : j # i => report'[j] = report[j] /\ await'[j] = await[j] /\ calls'[j] = calls[j]
          /\ report[i] = None /\ report'[i] # None
          /\ await'[i] = "first" \/ (await'[i] = "unsent" /\ calls'[i] = calls[i])
          /\ Good(report[i])' /\ PV!Telling(report[i])' /\ Asks(report[i])'
      BY <1>1, <1>4, <2>1, Sends
    <2>3. Call(i)'
      <3>0. report[i] = None /\ report'[i] # None /\ heard' = heard
        BY <2>2
      <3>1. calls[i] = {} /\ heard[i] = {} /\ i \notin prompted
        BY <2>1, <3>0 DEF Call
      <3>2. heard'[i] = {} /\ i \notin prompted' /\ report'[i] # None
        BY <1>2, <3>0, <3>1
      <3>3. await'[i] # "ok" /\ (await'[i] = "unsent" => calls'[i] = {})
        BY <2>2, <3>1
      <3> QED
        BY <2>2, <3>2, <3>3 DEF Call
    <2>4. ASSUME NEW j \in Reports, j # i PROVE Call(j)'
      BY <1>1, <1>2, <2>2, <2>4, CallStays DEF ViewersInv
    <2> QED
      BY <2>2, <2>3, <2>4
  <1>5. CASE UNCHANGED <<report, await, calls, heard>>
    <2>1. \A j \in Reports : Call(j)'
      BY <1>1, <1>2, <1>5, CallStays DEF ViewersInv
    <2> QED
      BY <1>1, <1>2, <1>3, <1>5, <2>1 DEF ViewersTypeOK
  <1>6. UNCHANGED <<report, await, calls, heard>> \/ \E i \in Reports : PV!FireTimer(v, i) \/ PV!Screenshot(v, i) \/ \E p \in Numbers : PV!EndSelection(v, p, i)
    BY DEF PV!Step, PV!Mount, PV!Show, PV!Unmount, PV!Zoom, PV!ToggleSelect, PV!Load, PV!RenderPage, PV!Scroll, PV!BeginSelection, PV!DropSelection, PV!EndSearch, PV!net
  <1> QED
    BY <1>2, <1>3, <1>4, <1>5, <1>6

(* The types of what a viewer has.                                         *)
LEMMA ViewersTypeStep ==
    ASSUME Documents, ViewersInv, NEW v \in Viewers, PV!Step(v)
    PROVE  ViewersTypeOK'
  <1> USE DEF ViewersTypeOK, PV!paper, PV!mark, PV!aim
  <1>0. ViewersTypeOK /\ ViewerInv(v)
    BY DEF ViewersInv
  <1>1. ASSUME NEW s \in PV!Targets, PV!Mount(v, s) PROVE ViewersTypeOK'
    BY <1>0, <1>1, NetStep DEF PV!Mount, PV!Targets
  <1>2. ASSUME NEW s \in PV!Targets, NEW b \in BOOLEAN, PV!Show(v, s, b) PROVE ViewersTypeOK'
    <2>1. Applied(v, s)
      BY <1>0, <1>2, ShowApplies
    <2>2. s.doc \in Docs
      BY DEF PV!Targets
    <2>3. seen' \in [Viewers -> SUBSET Docs] /\ asked' \in [Viewers -> Nat] /\ pdf' \in [Viewers -> Docs \cup {None, "error"}]
          /\ rendered' \in [Viewers -> SUBSET Numbers] /\ shown' \in [Viewers -> PV!Targets \cup {None}]
      BY <1>0, <1>2, <2>2 DEF PV!Show
    <2> QED
      BY <1>0, <1>2, <2>1, <2>3, NetStep DEF PV!Show, Applied
  <1>3. CASE PV!Unmount(v)
    BY <1>0, <1>3, NetStep DEF PV!Unmount
  <1>4. CASE PV!Zoom(v)
    BY <1>0, <1>4, NetStep DEF PV!Zoom
  <1>5. CASE PV!ToggleSelect(v)
    BY <1>0, <1>5, NetStep DEF PV!ToggleSelect
  <1>6. ASSUME NEW b \in BOOLEAN, PV!Load(v, b) PROVE ViewersTypeOK'
    <2>1. shown[v].doc \in Docs
      BY <1>0, <1>6 DEF PV!Load, ViewerInv, Paper, PV!Targets
    <2> QED
      BY <1>0, <1>6, <2>1, NetStep DEF PV!Load
  <1>7. ASSUME NEW p \in Numbers, PV!RenderPage(v, p) PROVE ViewersTypeOK'
    <2>1. Applied(v, shown[v])
      BY <1>0, <1>7, RenderApplies
    <2>2. pdf[v] \in Docs
      BY <1>7 DEF PV!RenderPage, PV!HasPage
    <2>3. canvases' \in [Viewers -> [Numbers -> Docs \cup {None}]] /\ rendered' \in [Viewers -> SUBSET Numbers]
      BY <1>0, <1>7, <2>2 DEF PV!RenderPage
    <2> QED
      BY <1>0, <1>7, <2>1, <2>3, NetStep DEF PV!RenderPage, Applied
  <1>8. ASSUME NEW p \in Numbers, PV!Scroll(v, p) PROVE ViewersTypeOK'
    <2>1. shown[v].doc \in Docs /\ PV!PageCount(v) \in Numbers
      BY <1>0, <1>8, Documents DEF PV!Scroll, ViewerInv, Paper, PV!Targets, PV!PageCount, Documents
    <2>2. PV!Saved(v, shown[v].doc, PV!PageCount(v), p) \in PV!States
      BY <1>0, <2>1, SavedIsState
    <2> QED
      BY <1>0, <1>8, <2>2, NetStep DEF PV!Scroll
  <1>9. ASSUME NEW p \in Numbers, PV!BeginSelection(v, p) PROVE ViewersTypeOK'
    BY <1>0, <1>9, NetStep DEF PV!BeginSelection
  <1>10. ASSUME NEW p \in Numbers, PV!DropSelection(v, p) PROVE ViewersTypeOK'
    BY <1>0, <1>10, NetStep DEF PV!DropSelection, PV!EndDraft
  <1>11. ASSUME NEW l \in searches[v], NEW p \in Numbers \cup {0, None}, PV!EndSearch(v, l, p) PROVE ViewersTypeOK'
    <2>1. l.save \in PV!States /\ l.save.page \in Numbers /\ \A x \in 1 .. Count[l.in] : x \in Numbers
      BY <1>0, Documents DEF PV!Lookups, PV!States, Documents
    <2>2. \A x \in Numbers : [l.save EXCEPT !.page = x] \in PV!States
      BY <2>1, OtherPage
    <2>3. current' \in [Viewers -> Numbers] /\ queued' \in [Viewers -> PV!States \cup {None}]
      <3>1. ASSUME NEW x \in Numbers, PV!ScrollToPage(v, l.save, x, canvases[v])
            PROVE  current' \in [Viewers -> Numbers] /\ queued' \in [Viewers -> PV!States \cup {None}]
        <4>1. PICK e \in PV!States : e = [l.save EXCEPT !.page = x]
          BY <2>2
        <4>2. \/ UNCHANGED <<current, queued>>
              \/ current' = [current EXCEPT ![v] = x] /\ queued' = [queued EXCEPT ![v] = e]
          BY <3>1, <4>1 DEF PV!ScrollToPage
        <4>3. CASE UNCHANGED <<current, queued>>
          BY <1>0, <4>3
        <4>4. CASE current' = [current EXCEPT ![v] = x] /\ queued' = [queued EXCEPT ![v] = e]
          <5>1. current' \in [Viewers -> Numbers]
            BY <1>0, <4>4
          <5>2. queued' \in [Viewers -> PV!States \cup {None}]
            BY <1>0, <4>1, <4>4
          <5> QED
            BY <5>1, <5>2
        <4> QED
          BY <4>2, <4>3, <4>4
      <3>2. CASE UNCHANGED <<current, queued>>
        BY <1>0, <3>2
      <3>3. UNCHANGED <<current, queued>> \/ \E x \in Numbers : PV!ScrollToPage(v, l.save, x, canvases[v])
        BY <1>11, <2>1 DEF PV!EndSearch
      <3> QED
        BY <3>1, <3>2, <3>3
    <2> QED
      BY <1>0, <1>11, <2>3, NetStep DEF PV!EndSearch
  <1>12. ASSUME NEW i \in Reports, PV!FireTimer(v, i) PROVE ViewersTypeOK'
    BY <1>0, <1>12, NetStep DEF PV!FireTimer
  <1>13. ASSUME NEW i \in Reports, PV!Screenshot(v, i) PROVE ViewersTypeOK'
    BY <1>0, <1>13, NetStep DEF PV!Screenshot
  <1>14. ASSUME NEW i \in Reports, NEW p \in Numbers, PV!EndSelection(v, p, i) PROVE ViewersTypeOK'
    <2>1. PV!Crop(v, p) \in PV!Selections
      BY <1>0 DEF PV!Crop, PV!Selections
    <2> QED
      BY <1>0, <1>14, <2>1, NetStep DEF PV!EndSelection, PV!EndDraft
  <1> QED
    BY <1>1, <1>2, <1>3, <1>4, <1>5, <1>6, <1>7, <1>8, <1>9, <1>10, <1>11, <1>12, <1>13, <1>14 DEF PV!Step

(* Reports that travel, and servers that start anew, leave viewers alone.  *)
LEMMA TravelStep ==
    ASSUME Documents, ViewersInv, (\E i \in Reports : PV!Travel(i)) \/ \E k \in Servers : PV!Restart(k)
    PROVE  ViewersInv'
  <1>1. /\ stage' = stage /\ shown' = shown /\ pdf' = pdf /\ rendered' = rendered /\ canvases' = canvases
        /\ seen' = seen /\ asked' = asked /\ current' = current /\ selecting' = selecting /\ draft' = draft
        /\ selection' = selection /\ made' = made /\ queued' = queued
        /\ applied' = applied /\ searches' = searches /\ moved' = moved /\ report' = report
    BY DEF PV!Travel, PV!Restart, PV!Hear, PV!Answer, PV!Throw, PV!FollowUp, PV!paper, PV!mark, PV!aim
  <1>2. ASSUME NEW v \in Viewers PROVE ViewerInv(v)'
    BY <1>1 DEF ViewersInv, ViewerInv, Paper, Marked, Waits, Aimed, WaitingReport, Good, Cut
  <1>3. ViewersTypeOK
    BY DEF ViewersInv
  <1>4. ASSUME NEW i \in Reports, NEW a \in calls[i], NEW k \in Servers, NEW b \in BOOLEAN, NEW f \in BOOLEAN, PV!Hear(i, a, k, b, f)
        PROVE  ViewersInv'
    <2>1. PICK c : c = report[i]
      OBVIOUS
    <2>2. c \in PV!States /\ Good(c) /\ PV!Telling(c)
      BY <2>1, <1>3 DEF ViewersInv, Call, ViewersTypeOK
    <2>3. PICK e : e = PV!Kept(c, b, f)
      OBVIOUS
    <2>4. /\ e \in PV!States /\ e.shot \in {c.shot, None} /\ e.sel \in {c.sel, None} /\ e.page = c.page
          /\ e.from = c.from /\ e.doc = c.doc /\ e.count = c.count /\ e.taken = c.taken
      BY <2>2, <2>3, KeptIsState
    <2>5. PV!Telling(e) /\ (e.sel # None => e.taken > 0 /\ e.sel.no = e.taken)
      BY <2>2, <2>4 DEF PV!Telling, Good
    <2>6. view' = [view EXCEPT ![k] = e] /\ prompted' = prompted /\ await' = await
      BY <1>4, <2>1, <2>3 DEF PV!Hear
    <2>7. calls' = [calls EXCEPT ![i] = @ \ {a}] /\ heard' = [heard EXCEPT ![i] = @ \cup {a}]
      BY <1>4 DEF PV!Hear
    <2>8. ViewersTypeOK'
      BY <1>1, <1>3, <2>4, <2>6, <2>7 DEF ViewersTypeOK
    <2>9. ASSUME NEW j \in Reports PROVE Call(j)'
      BY <1>1, <1>3, <2>6, <2>7 DEF ViewersInv, Call, Good, PV!Telling, Asks, Cut, ViewersTypeOK
    <2>10. ASSUME NEW m \in Servers PROVE Known(m)'
      <3>1. CASE m = k
        <4>1. view'[m] = e
          BY <1>3, <2>6, <3>1 DEF ViewersTypeOK
        <4> QED
          BY <1>1, <2>5, <4>1 DEF Known, PV!Telling
      <3>2. CASE m # k
        <4>1. view'[m] = view[m]
          BY <1>3, <2>6, <3>2 DEF ViewersTypeOK
        <4> QED
          BY <1>1, <4>1 DEF ViewersInv, Known, PV!Telling
      <3> QED
        BY <3>1, <3>2
    <2> QED
      BY <1>2, <2>8, <2>9, <2>10 DEF ViewersInv
  <1>5. ASSUME NEW i \in Reports, PV!Answer(i) \/ PV!Throw(i) \/ PV!FollowUp(i) PROVE ViewersInv'
    <2>1. view' = view /\ heard' = heard
      BY <1>5 DEF PV!Answer, PV!Throw, PV!FollowUp, PV!net
    <2>2. ViewersTypeOK'
      <3>1. await' \in [Reports -> {"none", "first", "second", "ok", "failed", "unsent"}]
        BY <1>3, <1>5 DEF ViewersTypeOK, PV!Answer, PV!Throw, PV!FollowUp, PV!net
      <3>2. calls' \in [Reports -> SUBSET {"first", "second"}]
        BY <1>3, <1>5 DEF ViewersTypeOK, PV!Answer, PV!Throw, PV!FollowUp, PV!net
      <3>3. prompted' \in SUBSET Reports
        BY <1>3, <1>5 DEF ViewersTypeOK, PV!Answer, PV!Throw, PV!FollowUp
      <3> QED
        BY <1>1, <1>3, <2>1, <3>1, <3>2, <3>3 DEF ViewersTypeOK
    <2>3. ASSUME NEW j \in Reports PROVE Call(j)'
      <3>1. Call(j) /\ Call(i)
        BY DEF ViewersInv
      <3>2. report[j] # None => Good(report[j])' /\ PV!Telling(report[j])' /\ Asks(report[j])'
        BY <1>1, <3>1 DEF Call, Good, PV!Telling, Asks, Cut
      <3>3. calls'[j] # {} \/ heard[j] # {} \/ await'[j] # "none" => report[j] # None
        BY <1>3, <1>5, <3>1 DEF Call, PV!Answer, PV!Throw, PV!FollowUp, PV!net, ViewersTypeOK
      <3>4. await'[j] = "ok" => heard[j] # {}
        BY <1>3, <1>5, <3>1 DEF Call, PV!Answer, PV!Throw, PV!FollowUp, PV!net, ViewersTypeOK
      <3>5. await'[j] = "unsent" => calls'[j] = {}
        BY <1>3, <1>5, <3>1 DEF Call, PV!Answer, PV!Throw, PV!FollowUp, PV!net, ViewersTypeOK
      <3>6. j \in prompted' => heard[j] # {} \/ await'[j] = "unsent"
        BY <1>3, <1>5, <3>1 DEF Call, PV!Answer, PV!Throw, PV!FollowUp, PV!net, ViewersTypeOK
      <3> QED
        BY <1>1, <2>1, <3>2, <3>3, <3>4, <3>5, <3>6 DEF Call
    <2>4. ASSUME NEW m \in Servers PROVE Known(m)'
      BY <1>1, <2>1 DEF ViewersInv, Known, PV!Telling
    <2> QED
      BY <1>2, <2>2, <2>3, <2>4 DEF ViewersInv
  <1>6. ASSUME NEW k \in Servers, PV!Restart(k) PROVE ViewersInv'
    <2>1. await' = await /\ calls' = calls /\ heard' = heard /\ prompted' = prompted /\ view' = [view EXCEPT ![k] = None]
      BY <1>6 DEF PV!Restart, PV!net
    <2>2. ViewersTypeOK'
      BY <1>1, <1>3, <2>1 DEF ViewersTypeOK
    <2>3. ASSUME NEW j \in Reports PROVE Call(j)'
      BY <1>1, <2>1 DEF ViewersInv, Call, Good, PV!Telling, Asks, Cut
    <2>4. ASSUME NEW m \in Servers PROVE Known(m)'
      <3>1. view'[m] \in {view[m], None}
        BY <1>3, <2>1 DEF ViewersTypeOK
      <3> QED
        BY <1>1, <3>1 DEF ViewersInv, Known, PV!Telling
    <2> QED
      BY <1>2, <2>2, <2>3, <2>4 DEF ViewersInv
  <1> QED
    BY <1>4, <1>5, <1>6 DEF PV!Travel

LEMMA ViewersInvariance == ASSUME Documents PROVE PV!Spec => []ViewersInv
  <1>1. PV!Init => ViewersInv
    <2> SUFFICES ASSUME PV!Init PROVE ViewersInv
      OBVIOUS
    <2>1. ViewersTypeOK
      BY DEF PV!Init, ViewersTypeOK, Documents
    <2>2. ASSUME NEW v \in Viewers PROVE ViewerInv(v)
      BY <2>1, Documents DEF PV!Init, ViewerInv, Paper, Marked, Waits, Aimed, Documents
    <2>3. ASSUME NEW i \in Reports PROVE Call(i)
      BY DEF PV!Init, Call
    <2>4. ASSUME NEW k \in Servers PROVE Known(k)
      BY DEF PV!Init, Known
    <2> QED
      BY <2>1, <2>2, <2>3, <2>4 DEF ViewersInv
  <1>2. ASSUME Documents, ViewersInv, [PV!Next]_(PV!vars) PROVE ViewersInv'
    <2>1. ASSUME NEW v \in Viewers, PV!Step(v) PROVE ViewersInv'
      <3>1. ViewersTypeOK /\ ViewerInv(v)
        BY <1>2 DEF ViewersInv
      <3>2. ViewerInv(v)'
        BY <1>2, <2>1, <3>1, PaperStep, MarkedStep, WaitsStep, AimedStep DEF ViewerInv
      <3>3. ASSUME NEW w \in Viewers, w # v PROVE ViewerInv(w)'
        <4>1. /\ stage'[w] = stage[w] /\ shown'[w] = shown[w] /\ pdf'[w] = pdf[w] /\ rendered'[w] = rendered[w]
              /\ canvases'[w] = canvases[w] /\ seen'[w] = seen[w] /\ asked'[w] = asked[w]
              /\ selection'[w] = selection[w] /\ made'[w] = made[w]
              /\ queued'[w] = queued[w] /\ searches'[w] = searches[w] /\ applied'[w] = applied[w] /\ moved'[w] = moved[w]
          BY <1>2, <2>1, <3>1, <3>3, OtherViewers
        <4>2. Paper(w) /\ Marked(w) /\ Waits(w) /\ Aimed(w)
          BY <1>2 DEF ViewersInv, ViewerInv
        <4>3. Paper(w)' /\ Aimed(w)'
          BY <4>1, <4>2 DEF Paper, Aimed
        <4>4. Marked(w)'
          BY <4>1, <4>2 DEF Marked, Cut
        <4>5. Waits(w)'
          BY <4>1, <4>2, OldWaits DEF Waits
        <4> QED
          BY <4>3, <4>4, <4>5 DEF ViewerInv
      <3> QED
        BY <1>2, <2>1, <3>2, <3>3, ViewersTypeStep, NetStep DEF ViewersInv
    <2>2. CASE UNCHANGED PV!vars
      <3> USE DEF PV!vars, PV!paper, PV!mark, PV!aim, PV!net
      <3>1. ViewersTypeOK'
        BY <1>2, <2>2 DEF ViewersInv, ViewersTypeOK
      <3>2. \A v \in Viewers : ViewerInv(v)'
        BY <1>2, <2>2 DEF ViewersInv, ViewerInv, Paper, Marked, Waits, Aimed, WaitingReport, Good, Cut
      <3>3. (\A i \in Reports : Call(i)') /\ \A k \in Servers : Known(k)'
        BY <1>2, <2>2 DEF ViewersInv, Call, Known, Good, PV!Telling, Asks, Cut
      <3> QED
        BY <3>1, <3>2, <3>3 DEF ViewersInv
    <2> QED
      BY <1>2, <2>1, <2>2, TravelStep DEF PV!Next
  <1> QED
    BY <1>1, <1>2, PTL DEF PV!Spec

(* What the server tells of a PDF was seen in a viewer, and is of the      *)
(* document it names as long as that viewer has shown no other: pdf-viewer *)
(* resets canvases, selection and page for none.                           *)
THEOREM ViewsWereSeen == ASSUME Documents PROVE PV!Spec => []PV!TellsWhatWasSeen
  <1>1. ViewersInv => PV!TellsWhatWasSeen
    BY DEF ViewersInv, Known, PV!TellsWhatWasSeen
  <1> QED
    BY <1>1, ViewersInvariance, PTL

(* endSelection reports image, page and document as they belong together,  *)
(* also after another document was shown.                                  *)
THEOREM AsksBelongTogether == ASSUME Documents PROVE PV!Spec => []PV!AsksAreRight
  <1>1. ViewersInv => PV!AsksAreRight
    BY DEF ViewersInv, Call, Asks, PV!AsksAreRight
  <1> QED
    BY <1>1, ViewersInvariance, PTL

(* endSelection prompts the chat after callToolCompat has returned: some   *)
(* attempt to report the selection was carried out by a server, or the     *)
(* host has no callTool and no attempt was or will be made.                *)
THEOREM PromptsComeAfter == ASSUME Documents PROVE PV!Spec => []PV!PromptsAreBacked
  <1>1. ViewersInv => PV!PromptsAreBacked
    BY DEF ViewersInv, Call, PV!PromptsAreBacked, ViewersTypeOK
  <1> QED
    BY <1>1, ViewersInvariance, PTL

(* A selection is erased at a server only by what was made up before it:   *)
(* saveState reports the last selection of its render, which no render     *)
(* forgets.                                                                *)
THEOREM SelectionsAreKept == ASSUME Documents PROVE PV!Spec => PV!SelectionsStay
  <1>1. ViewersInv /\ ViewersInv' => PV!ErasedForCause
    <2> SUFFICES ASSUME ViewersInv, ViewersInv', NEW k \in Servers, view[k] # None, view'[k] # None, view[k].sel # None,
                        ~(view'[k].taken < view[k].sel.no), ~(view'[k].sel = None /\ view'[k].taken > 0)
                 PROVE  view'[k].sel # None /\ view'[k].sel.no >= view[k].sel.no
      BY DEF PV!ErasedForCause
    <2>1. view[k].taken > 0 /\ view[k].sel.no = view[k].taken /\ view[k].taken \in Nat
      BY DEF ViewersInv, Known, ViewersTypeOK, PV!States
    <2>2. view'[k].taken \in Nat /\ (view'[k].sel # None => view'[k].sel.no = view'[k].taken)
      BY DEF ViewersInv, Known, ViewersTypeOK, PV!States
    <2> QED
      BY <2>1, <2>2
  <1> QED
    BY <1>1, ViewersInvariance, PTL DEF PV!SelectionsStay

(* The effect for the target runs again with every render, and scrolls     *)
(* once at most for each tool result.                                      *)
THEOREM NoScrollUnasked == ASSUME Documents PROVE PV!Spec => []PV!ScrollsWhenAsked
  <1>1. ViewersInv => PV!ScrollsWhenAsked
    BY DEF ViewersInv, ViewerInv, Aimed, PV!ScrollsWhenAsked
  <1> QED
    BY <1>1, ViewersInvariance, PTL

=============================================================================
