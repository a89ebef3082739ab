----------------------------- MODULE AppServer ------------------------------
(***************************************************************************)
(* internal/moodle/codex_app_server.go and pdf_vision.go: the pages of a   *)
(* document are read by a Codex app-server, a child process.  One          *)
(* goroutine reads its output into a bounded channel; the caller writes    *)
(* requests and takes messages from the channel, first until the answer to *)
(* its request, then, for a page, until the turn is completed.             *)
(*                                                                         *)
(* The server answers a request and tells of the turn it begins in any     *)
(* order, and may die.  A turn and its page have the same number.          *)
(* Abstracted: the pipes (messages in order), the rendering of the pages,  *)
(* and messages that cannot be decoded, which the reader skips.            *)
(***************************************************************************)
EXTENDS Integers, Sequences, SequencesExt

CONSTANTS Pages,      \* the number of pages
          Capacity,   \* of the channel
          MaxChatter, \* bound: messages that belong to no turn
          None

ASSUME AppServerBounds == Pages \in Nat \ {0} /\ Capacity \in Nat \ {0} /\ MaxChatter \in Nat

VARIABLES wire,     \* what the server has sent, unread
          channel, readErr,
          pc,       \* the caller: write, call, collect, ok or error
          id,       \* its last request: initialize, thread/start, then turns
          delta, completed, \* the turn's text as told so far
          texts,    \* the pages' texts
          alive, owed, plan, chatter, \* the server: requests to answer, events to tell
          said,     \* history: each turn's text as the server told it
          dropped   \* history: turns that a call dropped an event of

serverVars == <<alive, owed, plan, chatter, said>>
callerVars == <<pc, id, delta, completed, texts, dropped>>
vars == <<wire, channel, readErr, callerVars, serverVars>>

(* The first two requests set up the connection and the thread.            *)
Setup == 2
Turn(request) == request - Setup
Requests == 1..(Setup + Pages)

Answer(n, ok) == [kind |-> "answer", of |-> n, text |-> ok]
Event(kind, t, text) == [kind |-> kind, of |-> t, text |-> text]
Chatter == Event("other", None, None)

(* What a server may tell of a turn: some text as it goes along, messages, *)
(* the last of which is the page's text, and that the turn is completed.   *)
Plans(t) ==
    LET d(k) == Event("delta", t, k)
        m(k) == Event("item", t, k)
    IN  {<<d(1), m(1)>>, <<m(1), d(2), m(2)>>, <<d(1)>>, <<>>,
         <<Event("error", t, None)>>, <<m(1), Event("error", None, None)>>}

(* text(): the last message, or else what was told as it went along.       *)
TextOf(item, deltas) == IF item # None THEN <<item>> ELSE deltas

-----------------------------------------------------------------------------
(* The server *)

Send(m) == wire' = Append(wire, m)

Respond ==
    /\ alive /\ owed # {}
    /\ \E n \in owed, ok \in BOOLEAN : Send(Answer(n, ok)) /\ owed' = owed \ {n}
    /\ UNCHANGED <<channel, readErr, callerVars, alive, plan, chatter, said>>

Tell ==
    /\ alive /\ plan # <<>>
    /\ Send(Head(plan))
    /\ plan' = Tail(plan)
    /\ said' = LET e == Head(plan)
               IN  CASE e.kind = "item" -> [said EXCEPT ![e.of].item = e.text]
                     [] e.kind = "delta" -> [said EXCEPT ![e.of].deltas = Append(@, e.text)]
                     [] e.kind = "done" -> [said EXCEPT ![e.of].done = TRUE]
                     [] OTHER -> said
    /\ UNCHANGED <<channel, readErr, callerVars, alive, owed, chatter>>

Chat ==
    /\ alive /\ chatter < MaxChatter
    /\ Send(Chatter)
    /\ chatter' = chatter + 1
    /\ UNCHANGED <<channel, readErr, callerVars, alive, owed, plan, said>>

(* It dies by itself, or is killed when the deadline passes.               *)
Exit ==
    /\ alive /\ alive' = FALSE
    /\ UNCHANGED <<wire, channel, readErr, callerVars, owed, plan, chatter, said>>

-----------------------------------------------------------------------------
(* readStdout *)

(* Slip for the mutants: a message that finds the channel full is skipped. *)
ReadSkipping ==
    /\ wire # <<>>
    /\ wire' = Tail(wire)
    /\ channel' = IF Len(channel) < Capacity THEN Append(channel, Head(wire)) ELSE channel
    /\ UNCHANGED <<readErr, callerVars, serverVars>>

(* The reader waits while the channel is full.                             *)
Read ==
    /\ wire # <<>> /\ Len(channel) < Capacity
    /\ wire' = Tail(wire)
    /\ channel' = Append(channel, Head(wire))
    /\ UNCHANGED <<readErr, callerVars, serverVars>>

EndOfStream ==
    /\ ~alive /\ wire = <<>> /\ ~readErr
    /\ readErr' = TRUE
    /\ UNCHANGED <<wire, channel, callerVars, serverVars>>

-----------------------------------------------------------------------------
(* The caller *)

(* write: the server begins with a request as soon as it is sent; a server *)
(* that is gone is noticed or not.                                         *)
Write ==
    /\ pc = "write"
    /\ id' = id + 1
    /\ delta' = <<>> /\ completed' = None
    /\ \/ /\ pc' = "call"
          /\ owed' = IF alive THEN owed \cup {id + 1} ELSE owed
          /\ IF alive /\ id + 1 > Setup
             THEN \E p \in Plans(Turn(id + 1)) : plan' = Append(p, Event("done", Turn(id + 1), None))
             ELSE UNCHANGED plan
       \/ ~alive /\ pc' = "error" /\ UNCHANGED <<owed, plan>>
    /\ UNCHANGED <<wire, channel, readErr, texts, dropped, alive, chatter, said>>

Waiting == pc \in {"call", "collect"}
Receive(m) == Waiting /\ channel # <<>> /\ m = Head(channel) /\ channel' = Tail(channel)

(* call: every message but the answer is dropped.                          *)
DropMessage(m) ==
    /\ pc = "call" /\ Receive(m)
    /\ m.kind # "answer" \/ m.of # id
    /\ dropped' = IF m.kind \in {"delta", "item", "done", "error"} THEN dropped \cup {m.of} ELSE dropped
    /\ UNCHANGED <<wire, readErr, pc, id, delta, completed, texts, serverVars>>

TakeAnswer(m) ==
    /\ pc = "call" /\ Receive(m)
    /\ m.kind = "answer" /\ m.of = id
    /\ pc' = IF ~m.text THEN "error" ELSE IF id > Setup THEN "collect" ELSE "write"
    /\ UNCHANGED <<wire, readErr, id, delta, completed, texts, dropped, serverVars>>

(* What a page ends with: its text, or the error that there is none.       *)
EndPage(item, deltas) ==
    IF TextOf(item, deltas) = <<>> THEN pc' = "error" /\ UNCHANGED texts
    ELSE /\ texts' = Append(texts, TextOf(item, deltas))
         /\ pc' = IF Turn(id) = Pages THEN "ok" ELSE "write"

(* Slip: the first message is taken for the page's text.                   *)
CollectFirst(m) ==
    /\ pc = "collect" /\ Receive(m)
    /\ completed' = IF m.kind = "item" THEN m.text ELSE completed
    /\ delta' = IF m.kind = "delta" THEN Append(delta, m.text) ELSE delta
    /\ IF m.kind \in {"item", "done"} THEN EndPage(completed', delta')
       ELSE pc' = (IF m.kind = "error" THEN "error" ELSE pc) /\ UNCHANGED texts
    /\ UNCHANGED <<wire, readErr, id, dropped, serverVars>>

(* codexTurnTextCollector.handle: the events of the turn; an error may be  *)
(* told of the whole thread.                                               *)
Collect(m) ==
    /\ pc = "collect" /\ Receive(m)
    /\ LET mine == m.kind # "answer" /\ (m.of = Turn(id) \/ (m.kind = "error" /\ m.of = None))
       IN  /\ completed' = IF mine /\ m.kind = "item" THEN m.text ELSE completed
           /\ delta' = IF mine /\ m.kind = "delta" THEN Append(delta, m.text) ELSE delta
           /\ IF mine /\ m.kind = "done" THEN EndPage(completed, delta)
              ELSE pc' = (IF mine /\ m.kind = "error" THEN "error" ELSE pc) /\ UNCHANGED texts
    /\ UNCHANGED <<wire, readErr, id, dropped, serverVars>>

(* nextMessage gives up: the deadline, or the end of the stream, which may *)
(* be taken before the messages that are still in the channel.             *)
GiveUp ==
    /\ Waiting
    /\ readErr' \in {readErr, FALSE}
    /\ pc' = "error"
    /\ UNCHANGED <<wire, channel, id, delta, completed, texts, dropped, serverVars>>

-----------------------------------------------------------------------------
Init ==
    /\ wire = <<>> /\ channel = <<>> /\ readErr = FALSE
    /\ pc = "write" /\ id = 0 /\ delta = <<>> /\ completed = None /\ texts = <<>> /\ dropped = {}
    /\ alive = TRUE /\ owed = {} /\ plan = <<>> /\ chatter = 0
    /\ said = [t \in 1..Pages |-> [item |-> None, deltas |-> <<>>, done |-> FALSE]]

Server == Respond \/ Tell \/ Chat \/ Exit
Caller == Write \/ (\E m \in Range(channel) : DropMessage(m) \/ TakeAnswer(m) \/ Collect(m)) \/ GiveUp

Next == Server \/ Read \/ EndOfStream \/ Caller

Spec == Init /\ [][Next]_vars

-----------------------------------------------------------------------------
(* Properties *)

(* A page's text is what the server told of its turn in the end, its last  *)
(* message, or all it told as it went along if there was no message; only  *)
(* what it told before it answered the request may be missing.             *)
PageTextIsFinal ==
    \A t \in 1..Len(texts) : t \notin dropped => texts[t] = TextOf(said[t].item, said[t].deltas)

(* Once the server has answered and told all of a turn and everything has  *)
(* been received, the caller still waits for it only because an event of   *)
(* the turn came before the answer and was dropped.                        *)
WaitsOnlyIfDropped ==
    /\ pc = "collect" /\ said[Turn(id)].done /\ wire = <<>> /\ channel = <<>>
    => Turn(id) \in dropped
=============================================================================
