-------------------------------- MODULE Webex --------------------------------
(***************************************************************************)
(* The Webex recordings of one course for one user: api/courses.go serves  *)
(* them from a cache of a day or lists them with the stored web session,   *)
(* and renews that session once from the stored credentials if it is       *)
(* refused; api/keys.go signs in with new credentials.                     *)
(* internal/moodleservice walks from page to page as a browser does, then  *)
(* asks for the meetings page by page, for the recordings of each, and for *)
(* the stream of each recording.  Requests run beside each other on one    *)
(* row of the database.                                                    *)
(*                                                                         *)
(* Abstracted: the pages themselves, cookies and forms (a page is a kind); *)
(* the texts and links of a recording (it has a stream or not); the order  *)
(* of a listing, and what is listed twice.  Moodle and Webex answer as     *)
(* they like, and an accepted session may end at any time.                 *)
(***************************************************************************)
EXTENDS Integers

CONSTANTS Requests, Credentials, Meetings, Recordings, None,
          MaxAge,    \* webexRecordingCacheMaxAge
          MaxSteps,  \* how far a login or a flow is followed
          MaxPages   \* maxWebexPages

VARIABLES account,  \* the stored web session and credentials
          cache,    \* the stored listing and when it was stored
          clock,
          alive,    \* web sessions that are accepted
          worked,   \* credentials a login has succeeded with
          opened,   \* how many sessions a request has opened
          ask, pc, answer,
          mine,     \* the session and credentials a request uses
          login,    \* whether it opens a session now, or has done so
          page, step,
          meetings, \* of the listing: found and not yet looked into
          items,    \* of the meeting looked into: found and not yet looked at
          got       \* the listing so far

own == <<ask, mine>>
walk == <<page, step>>
listing == <<meetings, items, got>>
web == <<alive, worked, opened>>
vars == <<account, cache, clock, alive, worked, opened, ask, pc, answer, mine, login, page, step, meetings, items, got>>

Sessions == Credentials \X Requests \X Nat
Accounts == [session : Sessions \cup {None}, creds : Credentials \cup {None}]
Pages == {"redirect", "form", "launch", "application", "other"}
Asks == {"none", "list", "refresh", "signin"}

(* A listing: the meetings found and those looked into, the recordings     *)
(* found, those listed and those left out for want of a stream.            *)
Listings == [found : SUBSET Meetings, done : SUBSET Meetings,
             offered : SUBSET Recordings, listed : SUBSET Recordings, dropped : SUBSET Recordings]
Empty == [found |-> {}, done |-> {}, offered |-> {}, listed |-> {}, dropped |-> {}]

Found(g, some) == [g EXCEPT !.found = @ \cup some]
LookedInto(g, m) == [g EXCEPT !.done = @ \cup {m}]
Offered(g, some) == [g EXCEPT !.offered = @ \cup some]
LookedAt(g, i, found) == IF found THEN [g EXCEPT !.listed = @ \cup {i}] ELSE [g EXCEPT !.dropped = @ \cup {i}]

Init ==
    /\ account = [session |-> None, creds |-> None] /\ cache = None /\ clock = 0
    /\ alive = {} /\ worked = {} /\ opened = [r \in Requests |-> 0]
    /\ ask = [r \in Requests |-> "none"] /\ pc = [r \in Requests |-> "idle"] /\ answer = [r \in Requests |-> "none"]
    /\ mine = [r \in Requests |-> account] /\ login = [r \in Requests |-> "no"]
    /\ page = [r \in Requests |-> "other"] /\ step = [r \in Requests |-> 0]
    /\ meetings = [r \in Requests |-> {}] /\ items = [r \in Requests |-> {}] /\ got = [r \in Requests |-> Empty]

Goes(r, to) == pc' = [pc EXCEPT ![r] = to]
Answers(r, a) == Goes(r, "done") /\ answer' = [answer EXCEPT ![r] = a]

(* Courses and Keys read the account once, as a request begins.            *)
AskToList(r, refresh) ==
    /\ pc[r] = "idle"
    /\ ask' = [ask EXCEPT ![r] = IF refresh THEN "refresh" ELSE "list"]
    /\ mine' = [mine EXCEPT ![r] = account]
    /\ Goes(r, IF refresh THEN "open" ELSE "cache")
    /\ UNCHANGED <<account, cache, clock, web, answer, login, walk, listing>>

AskToSignIn(r, k) ==
    /\ pc[r] = "idle"
    /\ ask' = [ask EXCEPT ![r] = "signin"]
    /\ mine' = [mine EXCEPT ![r] = [session |-> None, creds |-> k]]
    /\ login' = [login EXCEPT ![r] = "now"]
    /\ Goes(r, "login")
    /\ \E p \in Pages : page' = [page EXCEPT ![r] = p]
    /\ step' = [step EXCEPT ![r] = 0]
    /\ UNCHANGED <<account, cache, clock, web, answer, listing>>

Fresh == cache # None /\ clock - cache.at <= MaxAge

ReadCache(r) ==
    /\ pc[r] = "cache"
    /\ IF Fresh THEN /\ got' = [got EXCEPT ![r] = cache.listing]
                     /\ Answers(r, "ok")
       ELSE Goes(r, "open") /\ UNCHANGED <<got, answer>>
    /\ UNCHANGED <<account, cache, clock, web, own, login, walk, meetings, items>>

(* An error of the first attempt to list that is no refusal ends the       *)
(* request; what goes wrong with a renewal is answered as the refusal was. *)
Fail(r) ==
    /\ pc[r] \notin {"idle", "done"}
    /\ Answers(r, IF login[r] = "now" /\ ask[r] # "signin" THEN "refused" ELSE "error")
    /\ UNCHANGED <<account, cache, clock, web, own, login, walk, listing>>

(* ListWebexRecordings: without a session the request is refused; without  *)
(* an activity in the course the listing is empty.                         *)
NoActivity(r) ==
    /\ pc[r] = "open" /\ mine[r].session # None
    /\ got' = [got EXCEPT ![r] = Empty]
    /\ Goes(r, "save")
    /\ UNCHANGED <<account, cache, clock, web, own, answer, login, walk, meetings, items>>

Arrives(r, p) == p \in Pages /\ (p = "application" => mine[r].session \in alive)

Open(r, p) ==
    /\ pc[r] = "open" /\ mine[r].session # None
    /\ Arrives(r, p)
    /\ page' = [page EXCEPT ![r] = p] /\ step' = [step EXCEPT ![r] = 0]
    /\ Goes(r, "flow")
    /\ UNCHANGED <<account, cache, clock, web, own, answer, login, listing>>

(* loadWebexRecordingsWithRenew: a first refusal leads to a login with the *)
(* stored credentials, if there are any.                                   *)
Renew(r, p) ==
    /\ login[r] = "no" /\ mine[r].creds # None
    /\ \/ pc[r] = "open" /\ mine[r].session = None
       \/ pc[r] = "refused"
    /\ login' = [login EXCEPT ![r] = "now"]
    /\ page' = [page EXCEPT ![r] = p] /\ step' = [step EXCEPT ![r] = 0]
    /\ Goes(r, "login")
    /\ UNCHANGED <<account, cache, clock, web, own, answer, listing>>

GiveUp(r) ==
    /\ login[r] # "no" \/ mine[r].creds = None
    /\ \/ pc[r] = "open" /\ mine[r].session = None
       \/ pc[r] = "refused"
    /\ Answers(r, "refused")
    /\ UNCHANGED <<account, cache, clock, web, own, login, walk, listing>>

(* followLogin, followWebexFlow: redirects and forms are followed, in the  *)
(* flow also a launch, up to a number of steps.                            *)
Moves(r) == /\ step[r] < MaxSteps
            /\ page[r] \in IF pc[r] = "login" THEN {"redirect", "form"} ELSE {"redirect", "form", "launch"}

Follow(r, p) ==
    /\ pc[r] \in {"login", "flow"} /\ Moves(r)
    /\ pc[r] = "flow" => Arrives(r, p)
    /\ page' = [page EXCEPT ![r] = p] /\ step' = [step EXCEPT ![r] = @ + 1]
    /\ UNCHANGED <<account, cache, clock, web, own, pc, answer, login, listing>>

NewSession(r) == <<mine[r].creds, r, opened[r]>>

(* loginFHGR: the login has left a session of Moodle.  With a course the   *)
(* flow to Webex is followed too; a sign-in may name none.                 *)
LogIn(r, flow, p) ==
    /\ pc[r] = "login" /\ ~Moves(r)
    /\ opened' = [opened EXCEPT ![r] = @ + 1]
    /\ alive' = alive \cup {NewSession(r)}
    /\ mine' = [mine EXCEPT ![r] = [session |-> NewSession(r), creds |-> mine[r].creds]]
    /\ worked' = worked \cup {mine[r].creds}
    /\ page' = [page EXCEPT ![r] = p] /\ step' = [step EXCEPT ![r] = 0]
    /\ ask[r] # "signin" => flow
    /\ Goes(r, IF flow THEN "flow" ELSE "store")
    /\ UNCHANGED <<account, cache, clock, ask, answer, login, listing>>

(* The flow has to end in the application; while a session is being opened *)
(* that is no refusal but a failure (Fail).                                *)
EndFlow(r) ==
    /\ pc[r] = "flow" /\ ~Moves(r)
    /\ page[r] # "application" => login[r] # "now"
    /\ Goes(r, IF page[r] # "application" THEN "refused" ELSE IF login[r] = "now" THEN "store" ELSE "meetings")
    /\ got' = [got EXCEPT ![r] = Empty] /\ step' = [step EXCEPT ![r] = 1]
    /\ UNCHANGED <<account, cache, clock, web, own, answer, login, page, meetings, items>>

(* UpsertWebexSession: a sign-in stores its credentials with the session;  *)
(* a renewal stores the session only and goes on if it cannot.             *)
Store(r, stored) ==
    /\ pc[r] = "store"
    /\ IF ask[r] = "signin"
       THEN account' = mine[r] /\ Answers(r, "ok")
       ELSE /\ account' = IF stored THEN [session |-> mine[r].session, creds |-> account.creds] ELSE account
            /\ Goes(r, "open") /\ UNCHANGED answer
    /\ login' = [login EXCEPT ![r] = "done"]
    /\ UNCHANGED <<cache, clock, web, own, walk, listing>>

(* fetchWebexPages: a page that is not answered ends the request (Fail);   *)
(* what lies beyond the last page asked for is not seen.                   *)
FetchMeetings(r, some, next) ==
    /\ pc[r] = "meetings" /\ mine[r].session \in alive
    /\ meetings' = [meetings EXCEPT ![r] = @ \cup some]
    /\ got' = [got EXCEPT ![r] = Found(@, some)]
    /\ step' = [step EXCEPT ![r] = @ + 1]
    /\ Goes(r, IF next /\ step[r] < MaxPages THEN "meetings" ELSE "next")
    /\ UNCHANGED <<account, cache, clock, web, own, answer, login, page, items>>

(* A meeting may say that it has no recordings.                            *)
NextMeeting(r, m, has) ==
    /\ pc[r] = "next" /\ m \in meetings[r]
    /\ meetings' = [meetings EXCEPT ![r] = @ \ {m}]
    /\ got' = [got EXCEPT ![r] = LookedInto(@, m)]
    /\ step' = [step EXCEPT ![r] = 1]
    /\ Goes(r, IF has THEN "recordings" ELSE "next")
    /\ UNCHANGED <<account, cache, clock, web, own, answer, login, page, items>>

FetchRecordings(r, some, next) ==
    /\ pc[r] = "recordings" /\ mine[r].session \in alive
    /\ items' = [items EXCEPT ![r] = @ \cup some]
    /\ got' = [got EXCEPT ![r] = Offered(@, some)]
    /\ step' = [step EXCEPT ![r] = @ + 1]
    /\ Goes(r, IF next /\ step[r] < MaxPages THEN "recordings" ELSE "streams")
    /\ UNCHANGED <<account, cache, clock, web, own, answer, login, page, meetings>>

(* recordingFromWebexItem: a recording is left out if it is short or no    *)
(* stream is found for it, also when the session has ended meanwhile.      *)
FindStream(r, i, found) ==
    /\ pc[r] = "streams" /\ i \in items[r]
    /\ items' = [items EXCEPT ![r] = @ \ {i}]
    /\ got' = [got EXCEPT ![r] = LookedAt(@, i, found)]
    /\ UNCHANGED <<account, cache, clock, web, own, pc, answer, login, walk, meetings>>

NextPart(r) ==
    /\ \/ pc[r] = "streams" /\ items[r] = {} /\ Goes(r, "next")
       \/ pc[r] = "next" /\ meetings[r] = {} /\ Goes(r, "save")
    /\ UNCHANGED <<account, cache, clock, web, own, answer, login, walk, listing>>

(* UpsertWebexRecordings stamps the listing with the time it is stored at; *)
(* a failure to store it is ignored.                                       *)
Save(r, stored) ==
    /\ pc[r] = "save"
    /\ cache' = IF stored THEN [listing |-> got[r], at |-> clock] ELSE cache
    /\ Answers(r, "ok")
    /\ UNCHANGED <<account, clock, web, own, login, walk, listing>>

EndSession(s) ==
    /\ alive' = alive \ {s}
    /\ UNCHANGED <<account, cache, clock, worked, opened, ask, pc, answer, mine, login, walk, listing>>

Tick ==
    /\ clock' = clock + 1
    /\ UNCHANGED <<account, cache, web, own, pc, answer, login, walk, listing>>

Step(r) ==
    \/ \E b \in BOOLEAN : AskToList(r, b) \/ Store(r, b) \/ Save(r, b)
    \/ \E k \in Credentials : AskToSignIn(r, k)
    \/ ReadCache(r) \/ Fail(r) \/ NoActivity(r) \/ GiveUp(r) \/ EndFlow(r) \/ NextPart(r)
    \/ \E p \in Pages : Open(r, p) \/ Renew(r, p) \/ Follow(r, p) \/ \E b \in BOOLEAN : LogIn(r, b, p)
    \/ \E b \in BOOLEAN :
          \/ \E some \in SUBSET Meetings : FetchMeetings(r, some, b)
          \/ \E m \in Meetings : NextMeeting(r, m, b)
          \/ \E some \in SUBSET Recordings : FetchRecordings(r, some, b)
          \/ \E i \in Recordings : FindStream(r, i, b)

Next == Tick \/ (\E r \in Requests : Step(r)) \/ (\E s \in alive : EndSession(s))

Spec == Init /\ [][Next]_vars

-----------------------------------------------------------------------------
(* Properties *)

(* Stored credentials have worked once, and so have those of the stored    *)
(* session: a sign-in that fails replaces nothing.  (The two need not      *)
(* belong together: a renewal that began before a sign-in with other       *)
(* credentials can store its session after it.)                            *)
StoredHaveWorked ==
    /\ account.creds \in worked \cup {None}
    /\ account.session # None => account.session[1] \in worked

(* However often it is refused, a request logs in at most once: a wrong or *)
(* useless session is not asked for in a loop.                             *)
OneLogin == \A r \in Requests : opened[r] <= 1

(* A listing that is served or cached is a whole one: every meeting found  *)
(* was looked into, and every recording found is listed or was left out    *)
(* for want of a stream.  What a request had when it failed is lost.       *)
Whole(g) == g.done = g.found /\ g.listed \cup g.dropped = g.offered

ListingsAreWhole ==
    /\ cache # None => Whole(cache.listing)
    /\ \A r \in Requests : answer[r] = "ok" => Whole(got[r])

(* Nobody is asked to sign in whose stored credentials were not tried.     *)
AskedForCause ==
    \A r \in Requests : answer[r] = "refused" => mine[r].creds = None \/ login[r] # "no"
=============================================================================
