------------------------------ MODULE PdfViewer ------------------------------
(***************************************************************************)
(* The PDF viewer of the ChatGPT widget and what the MCP server knows of   *)
(* it.  apps/chatgpt-widget shows the document a tool call names, scrolls  *)
(* to its target, and reports page, screenshot and selection with          *)
(* save_pdf_view_state, at once or 300 ms after the last scroll;           *)
(* pkg/chatgptapp/mcp.go keeps the last report of an API key and answers   *)
(* capture_pdf_view and get_pdf_selection from it.  Reports travel beside  *)
(* each other.                                                             *)
(*                                                                         *)
(* A viewer is one mount of the component PDFViewer.  A handler and the    *)
(* effects of the render it causes are one action, as React runs them;     *)
(* what waits for a timer, a document, a page, a text or an answer is      *)
(* another.  An effect or a callback sees the state of the render it was   *)
(* made in: Saved.  Abstracted: one API key; pixels (an image is the       *)
(* document it shows); titles; the zoom factor; the text of a document.    *)
(***************************************************************************)
EXTENDS Integers, FiniteSets

CONSTANTS Viewers, Docs, Queries, Reports, None,
          Servers,  \* processes that serve api/mcp.go, each with a map of its own
          Numbers,  \* page numbers
          Count     \* the number of pages of a document

VARIABLES stage,    \* new, open or closed
          shown,    \* the document of a viewer, with the target to scroll to
          pdf,      \* the document that is loaded
          current,  \* the page reported as visible
          rendered,
          canvases, \* canvasesRef and wrappersRef: the last canvas of a page
          selecting, draft, selection,
          queued,   \* saveTimer: the report that waits
          applied,  \* appliedTargetRef
          searches, \* texts that are looked for
          report,   \* the arguments of a call of save_pdf_view_state
          await, wire, heard, \* what its caller waits for, if it was sent; its attempts, under way and carried out
          prompted, \* selections the chat was asked about
          view,     \* the state a server keeps
          seen, asked, moved, made \* history: documents, targets, scrolls and selections of a viewer

paper == <<stage, shown, pdf, rendered, canvases, seen, asked>>
mark == <<selecting, draft, selection, made>>
aim == <<applied, searches, moved>>
net == <<await, wire, heard>>
vars == <<paper, current, mark, queued, aim, report, net, prompted, view>>

Targets == [doc : Docs, page : Numbers, query : Queries \cup {None}]
Selections == [by : Viewers, doc : Docs \cup {None}, page : Numbers, no : Nat]
States == [from : Viewers, doc : Docs, page : Numbers, count : Numbers, sel : Selections \cup {None},
           taken : Nat, shot : Docs \cup {None}, ask : BOOLEAN]
Lookups == [in : Docs, save : States, no : Nat]

Within(p, n) == IF p > n THEN n ELSE p

Init ==
    /\ stage = [v \in Viewers |-> "new"] /\ shown = [v \in Viewers |-> None] /\ pdf = [v \in Viewers |-> None]
    /\ current = [v \in Viewers |-> 1] /\ rendered = [v \in Viewers |-> {}]
    /\ canvases = [v \in Viewers |-> [p \in Numbers |-> None]]
    /\ selecting = [v \in Viewers |-> FALSE] /\ draft = [v \in Viewers |-> None] /\ selection = [v \in Viewers |-> None]
    /\ queued = [v \in Viewers |-> None] /\ applied = [v \in Viewers |-> None] /\ searches = [v \in Viewers |-> {}]
    /\ report = [i \in Reports |-> None] /\ await = [i \in Reports |-> "none"]
    /\ wire = [i \in Reports |-> {}] /\ heard = [i \in Reports |-> {}] /\ prompted = {}
    /\ view = [k \in Servers |-> None]
    /\ seen = [v \in Viewers |-> {}] /\ asked = [v \in Viewers |-> 0]
    /\ moved = [v \in Viewers |-> 0] /\ made = [v \in Viewers |-> 0]

(* saveState as the render of a viewer makes it, for a page: pageCount is  *)
(* that of the document loaded, or 1.  The screenshot is taken later.      *)
Saved(v, d, n, p) == [from |-> v, doc |-> d, page |-> p, count |-> n, sel |-> selection[v],
                      taken |-> made[v], shot |-> None, ask |-> FALSE]
PageCount(v) == IF pdf[v] \in Docs THEN Count[pdf[v]] ELSE 1

(* scrollToPage: only to a page that was rendered once.  queueSaveState    *)
(* takes the place of what is queued.                                      *)
ScrollToPage(v, c, p, known) ==
    IF known[p] = None THEN UNCHANGED <<current, queued>>
    ELSE /\ current' = [current EXCEPT ![v] = p]
         /\ queued' = [queued EXCEPT ![v] = [c EXCEPT !.page = p]]

(* The effect for the target, after three pages of the document loaded are *)
(* rendered.  It compares the target with the one applied last.            *)
ApplyTarget(v, s, done, known) ==
    IF pdf[v] \in Docs /\ Cardinality(done) >= Within(3, Count[pdf[v]]) /\ applied[v] # s
    THEN LET n == Count[pdf[v]]
             c == Saved(v, s.doc, n, Within(s.page, n))
         IN  /\ applied' = [applied EXCEPT ![v] = s]
             /\ moved' = [moved EXCEPT ![v] = @ + 1]
             /\ IF s.query = None
                THEN ScrollToPage(v, c, c.page, known) /\ UNCHANGED searches
                ELSE /\ searches' = [searches EXCEPT ![v] = @ \cup {[in |-> pdf[v], save |-> c, no |-> moved[v]]}]
                     /\ UNCHANGED <<current, queued>>
    ELSE UNCHANGED <<aim, current, queued>>

(* A tool result names a PDF.  A viewer that is open keeps its state, save *)
(* what belongs to the loading of another document.  The effect for the    *)
(* target runs before that document is loaded, and sees the old one.       *)
Mount(v, s) ==
    /\ stage[v] = "new"
    /\ stage' = [stage EXCEPT ![v] = "open"]
    /\ shown' = [shown EXCEPT ![v] = s] /\ current' = [current EXCEPT ![v] = s.page]
    /\ seen' = [seen EXCEPT ![v] = @ \cup {s.doc}] /\ asked' = [asked EXCEPT ![v] = 1]
    /\ UNCHANGED <<pdf, rendered, canvases, mark, queued, aim, report, net, prompted, view>>

Show(v, s, zoom) ==
    /\ stage[v] = "open"
    /\ shown' = [shown EXCEPT ![v] = s]
    /\ seen' = [seen EXCEPT ![v] = @ \cup {s.doc}] /\ asked' = [asked EXCEPT ![v] = @ + 1]
    /\ pdf' = [pdf EXCEPT ![v] = IF s.doc = shown[v].doc THEN @ ELSE None]
    /\ rendered' = [rendered EXCEPT ![v] = IF s.doc = shown[v].doc /\ ~zoom THEN @ ELSE {}]
    /\ ApplyTarget(v, s, rendered[v], canvases[v])
    /\ UNCHANGED <<stage, canvases, mark, report, net, prompted, view>>

(* The widget shows something else; what is queued or looked for goes on.  *)
Unmount(v) ==
    /\ stage[v] = "open"
    /\ stage' = [stage EXCEPT ![v] = "closed"]
    /\ UNCHANGED <<shown, pdf, rendered, canvases, seen, asked, current, mark, queued, aim, report, net, prompted, view>>

Load(v, ok) ==
    /\ stage[v] = "open" /\ pdf[v] = None
    /\ pdf' = [pdf EXCEPT ![v] = IF ok THEN shown[v].doc ELSE "error"]
    /\ UNCHANGED <<stage, shown, rendered, canvases, seen, asked, current, mark, queued, aim, report, net, prompted, view>>

HasPage(v, p) == stage[v] = "open" /\ pdf[v] \in Docs /\ p \in 1 .. Count[pdf[v]]

RenderPage(v, p) ==
    /\ HasPage(v, p) /\ p \notin rendered[v]
    /\ canvases' = [canvases EXCEPT ![v] = [@ EXCEPT ![p] = pdf[v]]]
    /\ rendered' = [rendered EXCEPT ![v] = @ \cup {p}]
    /\ ApplyTarget(v, shown[v], rendered[v] \cup {p}, [canvases[v] EXCEPT ![p] = pdf[v]])
    /\ UNCHANGED <<stage, shown, pdf, seen, asked, mark, report, net, prompted, view>>

(* The user zooms, or the window changes: all pages are rendered again.    *)
Zoom(v) ==
    /\ stage[v] = "open" /\ pdf[v] \in Docs
    /\ rendered' = [rendered EXCEPT ![v] = {}]
    /\ UNCHANGED <<stage, shown, pdf, canvases, seen, asked, current, mark, queued, aim, report, net, prompted, view>>

(* onScroll takes the nearest page, of all that were rendered once.        *)
Scroll(v, p) ==
    /\ stage[v] = "open" /\ pdf[v] \in Docs /\ canvases[v][p] # None /\ p # current[v]
    /\ current' = [current EXCEPT ![v] = p]
    /\ queued' = [queued EXCEPT ![v] = Saved(v, shown[v].doc, PageCount(v), p)]
    /\ UNCHANGED <<paper, mark, aim, report, net, prompted, view>>

(* findTextPage: the first page with the text, or none; or it fails.       *)
EndSearch(v, l, p) ==
    /\ l \in searches[v]
    /\ searches' = [searches EXCEPT ![v] = @ \ {l}]
    /\ \/ p = None /\ UNCHANGED <<current, queued>>
       \/ p \in 1 .. Count[l.in] /\ ScrollToPage(v, l.save, p, canvases[v])
       \/ p = 0 /\ ScrollToPage(v, l.save, l.save.page, canvases[v])
    /\ UNCHANGED <<paper, mark, applied, moved, report, net, prompted, view>>

(* callToolCompat: the screenshot is that of the canvas as it is now.  A   *)
(* host without callTool is sent nothing, and the call returns at once.    *)
Send(i, c) ==
    /\ report[i] = None
    /\ report' = [report EXCEPT ![i] = [c EXCEPT !.shot = canvases[c.from][c.page]]]
    /\ \/ await' = [await EXCEPT ![i] = "first"] /\ wire' = [wire EXCEPT ![i] = {"first"}]
       \/ await' = [await EXCEPT ![i] = "unsent"] /\ UNCHANGED wire
    /\ UNCHANGED heard

FireTimer(v, i) ==
    /\ queued[v] # None
    /\ Send(i, queued[v])
    /\ queued' = [queued EXCEPT ![v] = None]
    /\ UNCHANGED <<paper, current, mark, aim, prompted, view>>

Screenshot(v, i) ==
    /\ stage[v] = "open" /\ pdf[v] # "error"
    /\ Send(i, Saved(v, shown[v].doc, PageCount(v), current[v]))
    /\ UNCHANGED <<paper, current, mark, queued, aim, prompted, view>>

ToggleSelect(v) ==
    /\ stage[v] = "open" /\ pdf[v] # "error"
    /\ selecting' = [selecting EXCEPT ![v] = ~@]
    /\ UNCHANGED <<paper, current, draft, selection, made, queued, aim, report, net, prompted, view>>

BeginSelection(v, p) ==
    /\ HasPage(v, p) /\ selecting[v] /\ canvases[v][p] # None
    /\ draft' = [draft EXCEPT ![v] = p]
    /\ UNCHANGED <<paper, current, selecting, selection, made, queued, aim, report, net, prompted, view>>

EndDraft(v, p) ==
    /\ HasPage(v, p) /\ draft[v] = p /\ canvases[v][p] # None
    /\ draft' = [draft EXCEPT ![v] = None]
    /\ selecting' = [selecting EXCEPT ![v] = FALSE]

DropSelection(v, p) ==
    /\ EndDraft(v, p)
    /\ UNCHANGED <<paper, current, selection, made, queued, aim, report, net, prompted, view>>

(* cropCanvas: of a canvas that is no longer part of the page it cuts      *)
(* nothing.  saveSelectionState reports the new selection itself, as the   *)
(* render in which it was made does not hold it yet.                       *)
Crop(v, p) == [by |-> v, doc |-> IF p \in rendered[v] THEN canvases[v][p] ELSE None, page |-> p, no |-> made[v] + 1]

SavedSelection(v, p) ==
    [Saved(v, shown[v].doc, PageCount(v), p) EXCEPT !.sel = Crop(v, p), !.taken = made[v] + 1, !.ask = TRUE]

EndSelection(v, p, i) ==
    /\ EndDraft(v, p)
    /\ selection' = [selection EXCEPT ![v] = Crop(v, p)]
    /\ made' = [made EXCEPT ![v] = @ + 1]
    /\ Send(i, SavedSelection(v, p))
    /\ UNCHANGED <<paper, current, queued, aim, prompted, view>>

(* callTool and savePDFViewState: a server keeps what it hears last; an    *)
(* image may be too large to be kept.                                      *)
Kept(c, shot, sel) == [c EXCEPT !.shot = IF shot THEN @ ELSE None, !.sel = IF sel THEN @ ELSE None]

Hear(i, a, k, shot, sel) ==
    /\ a \in wire[i]
    /\ wire' = [wire EXCEPT ![i] = @ \ {a}]
    /\ heard' = [heard EXCEPT ![i] = @ \cup {a}]
    /\ view' = [view EXCEPT ![k] = Kept(report[i], shot, sel)]
    /\ UNCHANGED <<paper, current, mark, queued, aim, report, await, prompted>>

Restart(k) ==
    /\ view' = [view EXCEPT ![k] = None]
    /\ UNCHANGED <<paper, current, mark, queued, aim, report, net, prompted>>

(* An attempt may be answered, or seem to fail, also after it was heard;   *)
(* the second one has other arguments.                                     *)
Answer(i) ==
    /\ await[i] \in heard[i]
    /\ await' = [await EXCEPT ![i] = "ok"]
    /\ UNCHANGED <<paper, current, mark, queued, aim, report, wire, heard, prompted, view>>

Throw(i) ==
    /\ await[i] \in {"first", "second"}
    /\ await' = [await EXCEPT ![i] = IF @ = "first" THEN "second" ELSE "failed"]
    /\ wire' = [wire EXCEPT ![i] = IF await[i] = "first" THEN @ \cup {"second"} ELSE @]
    /\ UNCHANGED <<paper, current, mark, queued, aim, report, heard, prompted, view>>

(* sendSelectionFollowUp, once the call has returned: by a message, or by  *)
(* a note in the chat's context if the host takes no messages.             *)
FollowUp(i) ==
    /\ await[i] \in {"ok", "unsent"} /\ report[i].ask /\ i \notin prompted
    /\ prompted' = prompted \cup {i}
    /\ UNCHANGED <<paper, current, mark, queued, aim, report, net, view>>

Step(v) ==
    \/ \E s \in Targets : Mount(v, s) \/ \E b \in BOOLEAN : Show(v, s, b)
    \/ Unmount(v) \/ Zoom(v) \/ ToggleSelect(v)
    \/ \E b \in BOOLEAN : Load(v, b)
    \/ \E p \in Numbers : RenderPage(v, p) \/ Scroll(v, p) \/ BeginSelection(v, p) \/ DropSelection(v, p)
    \/ \E l \in searches[v], p \in Numbers \cup {0, None} : EndSearch(v, l, p)
    \/ \E i \in Reports : FireTimer(v, i) \/ Screenshot(v, i) \/ \E p \in Numbers : EndSelection(v, p, i)

Travel(i) ==
    \/ \E a \in wire[i], k \in Servers, shot \in BOOLEAN, sel \in BOOLEAN : Hear(i, a, k, shot, sel)
    \/ Answer(i) \/ Throw(i) \/ FollowUp(i)

Next == (\E v \in Viewers : Step(v)) \/ (\E i \in Reports : Travel(i)) \/ (\E k \in Servers : Restart(k))

Spec == Init /\ [][Next]_vars

-----------------------------------------------------------------------------
(* Properties *)

(* What capture_pdf_view and get_pdf_selection show was seen: the images   *)
(* are of documents the viewer has shown, of pages these have.  As long as *)
(* the viewer has shown but one, they are of the document that is named,   *)
(* and "page p of n" tells the truth.  (A viewer that goes from one        *)
(* document to another keeps canvases, selection and page.)                *)
Telling(c) ==
    LET docs == seen[c.from] IN
    /\ c.doc \in docs
    /\ c.shot # None => c.shot \in docs /\ c.page <= Count[c.shot]
    /\ c.sel # None /\ c.sel.doc # None => c.sel.doc \in docs /\ c.sel.page <= Count[c.sel.doc]
    /\ c.shot # None /\ docs = {c.doc} => c.page <= c.count /\ c.count = Count[c.doc]

TellsWhatWasSeen == \A k \in Servers : view[k] # None => Telling(view[k])

(* The report of a selection is right, whatever was shown before: image    *)
(* and selection are of the document and the page it names.                *)
AsksAreRight ==
    \A i \in Reports : report[i] # None /\ report[i].ask =>
        LET c == report[i] IN
        /\ c.sel # None /\ c.sel.page = c.page /\ c.page <= c.count /\ c.count = Count[c.doc]
        /\ c.sel.doc # None => c.sel.doc = c.doc /\ c.shot = c.doc

(* The chat is asked about a selection only when a server has heard of it  *)
(* (which another report may have replaced, or another server is asked);   *)
(* or in a host that calls no tools, and then no server ever hears of it:  *)
(* get_pdf_selection has nothing the chat could be told.                   *)
PromptsAreBacked ==
    \A i \in prompted : heard[i] # {} \/ (await[i] = "unsent" /\ wire[i] = {})

(* A selection a server knows gives way to none, or to an older one, of  *)
(* the same viewer only by a report that was made up before the selection  *)
(* was: a timer that fires late, or reports that overtake each other; or   *)
(* because the image is too large.                                         *)
ErasedForCause ==
    \A k \in Servers :
        view[k] # None /\ view'[k] # None /\ view'[k].from = view[k].from /\ view[k].sel # None =>
            \/ view'[k].sel # None /\ view'[k].sel.no >= view[k].sel.no
            \/ view'[k].taken < view[k].sel.no
            \/ view'[k].sel = None /\ view'[k].taken > 0

SelectionsStay == [][ErasedForCause]_view

(* A viewer scrolls by itself once at most for each tool result: not when  *)
(* it is zoomed, resized or rendered again.                                *)
ScrollsWhenAsked == \A v \in Viewers : moved[v] <= asked[v]
=============================================================================
