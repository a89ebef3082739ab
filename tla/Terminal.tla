------------------------------ MODULE Terminal ------------------------------
(***************************************************************************)
(* The terminal interface, internal/cli/tui.go: one loop handles key       *)
(* presses and the results of commands; every command runs in a goroutine  *)
(* of its own and reads and fills the caches of the navigation service     *)
(* without a lock.                                                         *)
(*                                                                         *)
(* ui is the model the loop owns; its handlers are operators from a ui to  *)
(* [ui, cmds], the next ui and the commands started.  Left out: colours,   *)
(* layout, scrolling, the preview's mode, wording.  A filter's text is     *)
(* abstracted to the kinds of entries it leaves.                           *)
(***************************************************************************)
EXTENDS NavTree, SequencesExt, Bags

CONSTANTS
    Calendars,   \* what today's events may be, each a sequence of events
    Filters,     \* what a filter may leave; Everything is no filter
    Everything,
    Folders,     \* the subfolders of each folder of the download dialog
    HomeFolder,
    MaxMoves,    \* bound on the keys that move, in the panes, a filter or the dialog
    MaxOthers    \* bound on the other keys

(* An event of the day begins at a time and has a summary.                 *)
ASSUME CalendarsAssumption ==
    \A events \in Calendars :
        /\ events \in Seq(Range(events))
        /\ \A e \in Range(events) : e.start \in Nat /\ e.summary \in DOMAIN Scores

VARIABLES ui, cmds, svc, keys, running

terminalVars == << ui, cmds, svc, keys, running >>

Actions == <<"open", "print", "download">>

-----------------------------------------------------------------------------
(* Reading the model.                                                      *)

Outcome(u, started) == [ui |-> u, cmds |-> started]

(* Go's empty string, which is the key of nothing.                         *)
NoKey == <<>>

SelectedNode(u) == IF u.selected \in DOMAIN u.nodes THEN u.nodes[u.selected] ELSE Root

(* A bound on the height of the tree.                                      *)
Depth == 6

(* A key and its ancestors, as parentByKey has them.                       *)
Ancestors(u, key) ==
    LET up[n \in 0..Depth] ==
            IF n = 0 THEN key
            ELSE IF up[n - 1] \in DOMAIN u.parent THEN u.parent[up[n - 1]] ELSE NoKey
    IN  up

SelectedPath(u) == (Range(Ancestors(u, u.selected)) \cup {Root.key}) \ {NoKey}

(* The rows of the tree: the children of the root, each followed by what   *)
(* is below it if it is open and on the way to the selected node.          *)
RowsBelow(u, path, deeper) ==
    [k \in path |->
        IF k \notin DOMAIN u.kids THEN <<>>
        ELSE FlattenSeq([i \in DOMAIN u.kids[k] |->
                LET node == u.kids[k][i]
                IN  <<node>> \o IF node.key \in path \cap u.expanded THEN deeper[node.key] ELSE <<>>])]

TreeRows(u) ==
    LET path == SelectedPath(u)
        below[n \in 0..Depth] == IF n = 0 THEN [k \in path |-> <<>>] ELSE RowsBelow(u, path, below[n - 1])
    IN  below[Depth][Root.key]

Leaves(filter, kind) == filter = Everything \/ kind \in filter

Filtered(nodes, filter) == Picked(nodes, {i \in DOMAIN nodes : Leaves(filter, nodes[i].kind)})

VisibleTreeRows(u) == Filtered(TreeRows(u), u.leftFilter)

(* An entry on the right is an action on the selected file, or a child.    *)
RightEntries(u) ==
    LET node == SelectedNode(u)
    IN  IF node.resource # Nil THEN Picked(Actions, {i \in DOMAIN Actions : Leaves(u.rightFilter, Actions[i])})
        ELSE IF node.key \in DOMAIN u.kids THEN Filtered(u.kids[node.key], u.rightFilter)
        ELSE <<>>

Keys(nodes) == {nodes[i].key : i \in DOMAIN nodes}

(* The keys that two loaded lists share: events are numbered per list.     *)
SharedKeys(u) ==
    {k \in DOMAIN u.nodes : \E p, q \in DOMAIN u.kids : p # q /\ k \in Keys(u.kids[p]) \cap Keys(u.kids[q])}

OnSharedPath(u) == SelectedPath(u) \cap SharedKeys(u) # {}

IsAction(u) == SelectedNode(u).resource # Nil

SelectedRightEntry(u) ==
    LET entries == RightEntries(u)
    IN  IF u.right + 1 \in DOMAIN entries THEN entries[u.right + 1] ELSE entries[1]

PreviewTargetNode(u) ==
    IF u.focus = "right" /\ RightEntries(u) # <<>> /\ ~IsAction(u)
    THEN SelectedRightEntry(u) ELSE SelectedNode(u)

(* What the lower pane shows of a node, and which node it is about.        *)
NodePreview(u, node) ==
    LET async == node.kind \in {"resource", "course"}
        here == node.key \in DOMAIN u.kids
    IN  IF async /\ node.key \in u.previews THEN "text"
        ELSE IF async /\ u.previewBusy = node.key THEN "loading"
        ELSE IF ~NodeMayHaveChildren(node) THEN "details"
        ELSE IF here /\ u.kids[node.key] = <<>> THEN "no items"
        ELSE IF here THEN "outline"
        ELSE IF node.key \in u.errors THEN "error"
        ELSE IF node.key \in u.busy THEN "loading"
        ELSE "closed"

PreviewSubject(u) ==
    LET node == SelectedNode(u)
        printing == u.previewBusy = node.key \/ node.key \in u.previews
    IN  IF u.focus = "right" /\ RightEntries(u) # <<>>
        THEN IF ~IsAction(u) THEN [node |-> SelectedRightEntry(u), shows |-> NodePreview(u, SelectedRightEntry(u))]
             ELSE [node |-> node,
                   shows |-> IF SelectedRightEntry(u) = "print" /\ printing THEN NodePreview(u, node)
                             ELSE "action"]
        ELSE [node |-> node, shows |-> NodePreview(u, node)]

CurrentUpperFocus(u) == IF u.focus = "right" THEN "right" ELSE "tree"

ItemCount(u) == IF u.focus = "right" THEN Len(RightEntries(u)) ELSE Len(VisibleTreeRows(u))

-----------------------------------------------------------------------------
(* Commands.                                                               *)

Cmd(op, node) == [op |-> op, node |-> node]

RequestChildrenTwice(u, node) ==
    IF NodeMayHaveChildren(node) /\ node.key \notin DOMAIN u.kids
    THEN Outcome([u EXCEPT !.busy = @ \cup {node.key}, !.errors = @ \ {node.key}], {Cmd("children", node)})
    ELSE Outcome(u, {})
RequestChildren(u, node) ==
    IF NodeMayHaveChildren(node) /\ node.key \notin DOMAIN u.kids \cup u.busy
    THEN Outcome([u EXCEPT !.busy = @ \cup {node.key}, !.errors = @ \ {node.key}], {Cmd("children", node)})
    ELSE Outcome(u, {})

AutoPreview(u) ==
    LET target == PreviewTargetNode(u)
    IN  IF /\ NodeSupportsAsyncPreview(target)
           /\ target.key \notin u.previews
           /\ u.previewBusy # target.key
        THEN Outcome([u EXCEPT !.previewBusy = target.key],
                    {Cmd(IF Printable(target) THEN "print" ELSE "preview", target)})
        ELSE Outcome(u, {})

(* The model is returned beside the call that marks its preview as busy:   *)
(* Go leaves open whether the copy is taken before the call or after it.   *)
SelectionChanged(r) ==
    LET asked == RequestChildren(r.ui, SelectedNode(r.ui))
        shown == AutoPreview(asked.ui)
        all == r.cmds \cup asked.cmds \cup shown.cmds
    IN  { Outcome(shown.ui, all), Outcome([shown.ui EXCEPT !.previewBusy = r.ui.previewBusy], all) }

-----------------------------------------------------------------------------
(* Keys.                                                                   *)

Clamp(i, n) == IF i < 0 THEN 0 ELSE IF i >= n THEN n - 1 ELSE i

SelectRow(u, i) ==
    LET rows == VisibleTreeRows(u)
    IN  IF rows = <<>> THEN u
        ELSE [u EXCEPT !.selected = rows[Clamp(i, Len(rows)) + 1].key, !.right = 0, !.stray = FALSE]

SetSelection(u, i) ==
    IF u.focus # "right" THEN SelectRow(u, i)
    ELSE IF RightEntries(u) = <<>> THEN u
    ELSE [u EXCEPT !.right = Clamp(i, Len(RightEntries(u)))]

(* The first row of the selected key; the top of the tree when none is.    *)
RowOfSelected(u) ==
    LET rows == VisibleTreeRows(u)
        here == {i \in DOMAIN rows : rows[i].key = u.selected}
    IN  IF here = {} THEN 0 ELSE CHOOSE i \in here : \A j \in here : i <= j

MoveSelection(u, delta) ==
    IF u.focus = "right" THEN SetSelection(u, u.right + delta)
    ELSE SelectRow(u, (IF RowOfSelected(u) = 0 THEN 0 ELSE RowOfSelected(u) - 1) + delta)

HandleLeft(u) ==
    LET node == SelectedNode(u)
        parent == IF node.key \in DOMAIN u.parent THEN u.parent[node.key] ELSE NoKey
        open == node.key \in DOMAIN u.kids /\ u.kids[node.key] # <<>> /\ node.key \in u.expanded
    IN  IF u.focus = "right" THEN [u EXCEPT !.focus = "tree", !.upper = "tree"]
        ELSE IF open THEN [u EXCEPT !.expanded = @ \ {node.key}]
        ELSE IF parent \in {NoKey, Root.key} THEN u
        ELSE [u EXCEPT !.selected = parent, !.right = 0, !.stray = @ \/ OnSharedPath(u)]

HandleRight(u) ==
    LET asked == RequestChildren(u, SelectedNode(u))
        moved == [asked.ui EXCEPT !.focus = "right", !.upper = "right"]
    IN  Outcome([moved EXCEPT !.right = IF @ >= Len(RightEntries(moved)) THEN 0 ELSE @], asked.cmds)

EnterOnTree(u) ==
    LET node == SelectedNode(u)
        cached == node.key \in DOMAIN u.kids
    IN  IF NodeMayHaveChildren(node) /\ ~cached
        THEN RequestChildren([u EXCEPT !.expanded = @ \cup {node.key}], node)
        ELSE IF NodeMayHaveChildren(node) /\ u.kids[node.key] # <<>>
        THEN Outcome([u EXCEPT !.expanded = IF node.key \in @ THEN @ \ {node.key} ELSE @ \cup {node.key}], {})
        ELSE IF node.resource # Nil
        THEN Outcome([u EXCEPT !.focus = "right", !.upper = "right", !.right = 0], {})
        ELSE Outcome(u, {})

(* Opens every ancestor of a key, the root excepted.                       *)
ExpandNothing(u, key) == u
ExpandVisiblePath(u, key) ==
    LET up == Ancestors(u, key)
    IN  [u EXCEPT !.expanded = @ \cup ({up[n] : n \in 1..Depth} \ {NoKey})]

Dialog(target) == [target |-> target, cwd |-> HomeFolder, entries |-> Folders[HomeFolder], selected |-> 0]

(* Every result an action may have; the dialog needs a folder it can read. *)
RunAction(u, action, target) ==
    IF action = "open" /\ Openable(target) THEN {Outcome(u, {Cmd("open", target)})}
    ELSE IF action = "print" /\ Printable(target)
    THEN {Outcome([u EXCEPT !.previewBusy = target.key], {Cmd("print", target)})}
    ELSE IF action = "download" /\ target.resource # Nil
    THEN {Outcome([u EXCEPT !.dialog = Dialog(target)], {}), Outcome(u, {})}
    ELSE {Outcome(u, {})}

CommitAt(u, index) ==
    LET node == SelectedRightEntry(u)
        chosen == ExpandVisiblePath([u EXCEPT !.selected = node.key, !.right = index, !.stray = FALSE], node.key)
        opened == [chosen EXCEPT !.expanded = @ \cup {node.key}, !.focus = "right"]
        cached == node.key \in DOMAIN u.kids
    IN  IF cached /\ u.kids[node.key] # <<>> THEN Outcome(opened, {})
        ELSE IF ~cached /\ NodeMayHaveChildren(node) THEN RequestChildren(opened, node)
        ELSE IF node.resource # Nil THEN Outcome([chosen EXCEPT !.focus = "right"], {})
        ELSE IF Openable(node) THEN Outcome(chosen, {Cmd("open", node)})
        ELSE Outcome(chosen, {})

CommitKeepsIndex(u) == CommitAt(u, u.right)
CommitRightSelection(u) == CommitAt(u, 0)

HandleEnter(u) ==
    IF u.focus # "right" THEN SelectionChanged(EnterOnTree(u))
    ELSE IF RightEntries(u) = <<>> THEN SelectionChanged(Outcome(u, {}))
    ELSE IF IsAction(u) THEN RunAction(u, SelectedRightEntry(u), SelectedNode(u))
    ELSE SelectionChanged(CommitRightSelection(u))

(* o, p and d act on what the right pane has selected, or the tree.        *)
ActionTarget(u) ==
    IF u.focus = "right" /\ RightEntries(u) # <<>> /\ ~IsAction(u)
    THEN SelectedRightEntry(u) ELSE SelectedNode(u)

FocusKey(u, key) ==
    IF key = "ctrl+h" THEN [u EXCEPT !.focus = "tree", !.upper = "tree"]
    ELSE IF key = "ctrl+l" THEN [u EXCEPT !.focus = "right", !.upper = "right"]
    ELSE IF key = "ctrl+j" THEN [u EXCEPT !.focus = "preview", !.upper = CurrentUpperFocus(u)]
    ELSE IF key = "ctrl+k" THEN [u EXCEPT !.focus = IF @ = "preview" THEN u.upper ELSE @]
    ELSE IF u.collapsed THEN [u EXCEPT !.collapsed = FALSE, !.focus = IF @ = "preview" THEN u.upper ELSE @]
    ELSE [u EXCEPT !.collapsed = TRUE, !.upper = CurrentUpperFocus(u), !.focus = "preview"]

FocusKeys == {"ctrl+h", "ctrl+l", "ctrl+j", "ctrl+k", "ctrl+w"}

MoveKey(u, key) ==
    IF key = "g" THEN SelectionChanged(Outcome(SetSelection(u, 0), {}))
    ELSE IF key = "G" THEN SelectionChanged(Outcome(SetSelection(u, ItemCount(u) - 1), {}))
    ELSE IF key = "j" THEN SelectionChanged(Outcome(MoveSelection(u, 1), {}))
    ELSE IF key = "k" THEN SelectionChanged(Outcome(MoveSelection(u, -1), {}))
    ELSE IF key = "h" THEN SelectionChanged(Outcome(HandleLeft(u), {}))
    ELSE IF key = "l" THEN SelectionChanged(HandleRight(u))
    ELSE HandleEnter(u)

MoveKeys == {"g", "G", "j", "k", "h", "l", "enter"}

(* Every result a key may have when neither a dialog nor a filter is open. *)
Pressed(u, key) ==
    IF key \in FocusKeys THEN {Outcome(FocusKey(u, key), {})}
    ELSE IF key \in Range(Actions) THEN RunAction(u, key, ActionTarget(u))
    ELSE IF u.focus = "preview" THEN {Outcome(u, {})}
    ELSE MoveKey(u, key)

(* A filter is typed: it holds at once for the pane that has the focus,    *)
(* and the selection moves to the top without anything being asked for.    *)
Typed(u, filter) ==
    SetSelection(IF u.focus = "right" THEN [u EXCEPT !.rightFilter = filter, !.right = 0]
                 ELSE [u EXCEPT !.leftFilter = filter], 0)

-----------------------------------------------------------------------------
(* The loop.                                                               *)

TerminalInit ==
    /\ ui = [focus |-> "tree", upper |-> "tree", collapsed |-> FALSE, typing |-> FALSE,
             leftFilter |-> Everything, rightFilter |-> Everything,
             selected |-> Root.key, right |-> 0, stray |-> FALSE, expanded |-> {Root.key},
             nodes |-> [k \in {Root.key} |-> Root], parent |-> [k \in {Root.key} |-> NoKey],
             kids |-> [k \in {} |-> <<>>], busy |-> {Root.key}, errors |-> {},
             previews |-> {}, previewBusy |-> NoKey, dialog |-> Nil]
    /\ cmds = SetToBag({Cmd("children", Root)})
    /\ svc = [loaded |-> {}, today |-> <<>>, current |-> Nil]
    /\ keys = [move |-> 0, other |-> 0]
    /\ running = TRUE

Handled(r) == /\ ui' = r.ui
              /\ cmds' = cmds (+) SetToBag(r.cmds)

(* A user presses one more key, of those that move or of the others.       *)
Pressing(kind) ==
    /\ running
    /\ keys[kind] < IF kind = "move" THEN MaxMoves ELSE MaxOthers
    /\ keys' = [keys EXCEPT ![kind] = @ + 1]

Key(key) ==
    /\ Pressing(IF key \in MoveKeys THEN "move" ELSE "other")
    /\ ui.dialog = Nil /\ ~ui.typing
    /\ \E r \in Pressed(ui, key) : Handled(r)
    /\ UNCHANGED << svc, running >>

StartFilter ==
    /\ Pressing("other")
    /\ ui.dialog = Nil /\ ~ui.typing /\ ui.focus # "preview"
    /\ ui' = [ui EXCEPT !.typing = TRUE]
    /\ UNCHANGED << cmds, svc, running >>

TypeFilter(filter) ==
    /\ Pressing("move")
    /\ ui.dialog = Nil /\ ui.typing
    /\ ui' = Typed(ui, filter)
    /\ UNCHANGED << cmds, svc, running >>

LeaveFilter(clear) ==
    /\ Pressing("move")
    /\ ui.dialog = Nil /\ ui.typing
    /\ ui' = [(IF clear THEN Typed(ui, Everything) ELSE ui) EXCEPT !.typing = FALSE]
    /\ UNCHANGED << cmds, svc, running >>

(* The download dialog: move, go down into a folder or up, save, or leave. *)
DialogKey(key) ==
    LET d == ui.dialog
        up == {f \in DOMAIN Folders : d.cwd \in Range(Folders[f])}
        Enter(folder) == [d EXCEPT !.cwd = folder, !.selected = 0]
        Moved(e) == ui' = [ui EXCEPT !.dialog = e] /\ UNCHANGED cmds
    IN  /\ Pressing("move")
        /\ d # Nil
        /\ \/ key = "esc" /\ Moved(Nil)
           \/ key = "j" /\ Moved([d EXCEPT !.selected = Clamp(@ + 1, Len(d.entries) + 1)])
           \/ key = "g" /\ Moved([d EXCEPT !.selected = 0])
           \/ key = "G" /\ Moved([d EXCEPT !.selected = Len(d.entries)])
           \/ key = "k" /\ Moved([d EXCEPT !.selected = Clamp(@ - 1, Len(d.entries) + 1)])
           \/ /\ key = "h" /\ up # {}
              /\ \E folder \in up, readable \in BOOLEAN :
                    Moved([Enter(folder) EXCEPT !.entries = IF readable THEN Folders[folder] ELSE @])
           \/ /\ key = "enter" /\ d.selected > 0
              /\ \E readable \in BOOLEAN :
                    LET folder == d.entries[d.selected]
                    IN  Moved([Enter(folder) EXCEPT !.entries = IF readable THEN Folders[folder] ELSE @])
           \/ /\ key = "enter" /\ d.selected = 0
              /\ Handled(Outcome(ui, {Cmd("download", d.target)}))
        /\ UNCHANGED << svc, running >>

(* The program ends and its memory is gone.                                *)
Ended ==
    /\ running' = FALSE
    /\ ui' = Nil /\ svc' = Nil /\ cmds' = EmptyBag
    /\ UNCHANGED keys

Quit ==
    /\ running
    /\ ui.dialog = Nil /\ ~ui.typing
    /\ Ended

-----------------------------------------------------------------------------
(* The goroutines of the commands, and the navigation service.             *)

Done(c) == cmds' = cmds (-) SetToBag({c})

NeedsOf(c) ==
    IF c.op = "children" THEN Needs(c.node)
    ELSE IF c.op = "preview" THEN << <<"page", c.node.course>> >>
    ELSE <<>>

Missing(c) ==
    LET needs == NeedsOf(c) IN Picked(needs, {i \in DOMAIN needs : needs[i] \notin svc.loaded})

(* What the service may keep of a fetch.  The timetable is the one of that *)
(* moment; a lecture whose resources could not be listed is kept as well.  *)
Kept(need) ==
    LET kept == [svc EXCEPT !.loaded = @ \cup {need}]
    IN  IF need = <<"current">>
        THEN {[kept EXCEPT !.current = CurrentResult(e, fails)] : e \in Calendars, fails \in BOOLEAN}
        ELSE IF need = <<"today">> THEN {[kept EXCEPT !.today = e] : e \in Calendars}
        ELSE {kept}

Fetch(c) ==
    /\ running
    /\ Missing(c) # <<>>
    /\ svc' \in Kept(Head(Missing(c)))
    /\ UNCHANGED << ui, cmds, keys, running >>

(* A week's events are fetched every time.  A course's page that cannot be *)
(* fetched is previewed as the error.                                      *)
ChildrenFail(c) ==
    /\ running
    /\ c.op = "children"
    /\ Missing(c) # <<>> \/ c.node.kind = "week"
    /\ ui' = [ui EXCEPT !.busy = @ \ {c.node.key}, !.errors = @ \cup {c.node.key}]
    /\ Done(c)
    /\ UNCHANGED << svc, keys, running >>

(* The children arrive: they are known by key, and a key keeps the parent  *)
(* it had first.  The first arrival moves the selection off the root.      *)
Arrived(u, node, children) ==
    LET new == Keys(children)
        Child(k) == children[CHOOSE i \in DOMAIN children : children[i].key = k]
    IN  [u EXCEPT !.busy = @ \ {node.key}, !.errors = @ \ {node.key},
                  !.kids = [k \in DOMAIN u.kids \cup {node.key} |->
                                IF k = node.key THEN children ELSE u.kids[k]],
                  !.nodes = [k \in DOMAIN u.nodes \cup new |-> IF k \in new THEN Child(k) ELSE u.nodes[k]],
                  !.parent = [k \in DOMAIN u.parent \cup new |->
                                IF k \in DOMAIN u.parent THEN u.parent[k] ELSE node.key]]

(* The resources of the current lecture's course are looked up on the way: *)
(* if that fails, the material is put together from what is known of it.   *)
ChildrenArrive(c) ==
    LET children == Children(c.node, svc.today, svc.current)
        u == Arrived(ui, c.node, children)
    IN  /\ running
        /\ c.op = "children" /\ Missing(c) = <<>>
        /\ IF c.node = Root /\ u.selected = Root.key
           THEN \E r \in SelectionChanged(Outcome([u EXCEPT !.selected = children[1].key], {})) :
                   ui' = r.ui /\ cmds' = (cmds (-) SetToBag({c})) (+) SetToBag(r.cmds)
           ELSE ui' = u /\ Done(c)
        /\ IF c.node.kind = "current" /\ svc.current.material # Nil
           THEN svc' \in {svc, [svc EXCEPT !.loaded = @ \cup {<<"resources", svc.current.course>>}]}
           ELSE UNCHANGED svc
        /\ UNCHANGED << keys, running >>

(* A preview or a printed file arrives, or its error, which names no key:  *)
(* either way nothing is marked as loading any more.                       *)
PreviewLeavesMark(c, succeeds) == [ui EXCEPT !.previews = IF succeeds THEN @ \cup {c.node.key} ELSE @]
PreviewArrived(c, succeeds) ==
    [ui EXCEPT !.previewBusy = NoKey,
               !.previews = IF succeeds THEN @ \cup {c.node.key} ELSE @]

PreviewArrives(c, succeeds) ==
    /\ running
    /\ c.op \in {"print", "preview"}
    /\ c.op = "preview" => succeeds
    /\ ui' = PreviewArrived(c, succeeds)
    /\ Done(c)
    /\ UNCHANGED << svc, keys, running >>

(* A file was opened, or not.                                              *)
Opened(c) ==
    /\ running
    /\ c.op = "open"
    /\ Done(c)
    /\ UNCHANGED << ui, svc, keys, running >>

(* A download that succeeds closes whatever dialog is open by then.        *)
Downloaded(c, succeeds) ==
    /\ running
    /\ c.op = "download"
    /\ ui' = IF succeeds THEN [ui EXCEPT !.dialog = Nil] ELSE ui
    /\ Done(c)
    /\ UNCHANGED << svc, keys, running >>

(* Two goroutines at one map of the service at a time, at least one of     *)
(* them writing: the Go runtime may stop the program.                      *)
ConcurrentMapAccess ==
    /\ running
    /\ \E c, d \in BagToSet(cmds) :
          /\ c # d \/ cmds[c] > 1
          /\ Missing(c) # <<>>
          /\ \E need \in Range(NeedsOf(d)) :
                Head(Missing(c))[1] = need[1] /\ need[1] \in {"resources", "page"}
    /\ Ended

Goroutine(c) ==
    \/ Fetch(c)
    \/ ChildrenFail(c)
    \/ ChildrenArrive(c)
    \/ \E succeeds \in BOOLEAN : PreviewArrives(c, succeeds) \/ Downloaded(c, succeeds)
    \/ Opened(c)

TerminalNext ==
    \/ \E key \in FocusKeys \cup MoveKeys \cup Range(Actions) : Key(key)
    \/ StartFilter
    \/ \E filter \in Filters : TypeFilter(filter)
    \/ \E clear \in BOOLEAN : LeaveFilter(clear)
    \/ \E key \in {"esc", "j", "k", "g", "G", "h", "enter"} : DialogKey(key)
    \/ Quit
    \/ \E c \in BagToSet(cmds) : Goroutine(c)
    \/ ConcurrentMapAccess

TerminalSpec == TerminalInit /\ [][TerminalNext]_terminalVars

-----------------------------------------------------------------------------
(* Properties.                                                             *)

SelectedHasRow(u) == u.selected \in {Root.key} \cup Keys(TreeRows(u))

(* The selection can be seen: the selected node is a row of the tree,      *)
(* whatever was expanded, collapsed, drilled into or loaded in the         *)
(* meantime (treeRows, expandVisiblePath, handleLeft).  An event that two  *)
(* lists number alike is excepted, with all that is below it and with what *)
(* "h" reaches from there: its parent is that of the list loaded first.    *)
SelectionVisible ==
    running /\ ~OnSharedPath(ui) /\ ~ui.stray => SelectedHasRow(ui)

(* The selection as a path of indexes from the root.                       *)
PathOfSelected(u) ==
    LET up == Ancestors(u, u.selected)
        length == CHOOSE n \in 0..Depth : up[n] = Root.key
        Index(key, parent) == CHOOSE i \in DOMAIN u.kids[parent] : u.kids[parent][i].key = key
    IN  [i \in 1..length |-> [form |-> "index", value |-> Index(up[length - i], up[length - i + 1])]]

(* The terminal and "moodle nav" agree: the path of the rows' numbers down *)
(* to the selection leads to the node that is selected, whatever was       *)
(* loaded, retried or lost on the way (ResolvePath, nodeByKey).            *)
PathsAgree ==
    running /\ ~OnSharedPath(ui)
        => ResolvePath(PathOfSelected(ui), svc.today, svc.current) = SelectedNode(ui)

Outstanding(ops, key) == {c \in BagToSet(cmds) : c.op \in ops /\ c.node.key = key}

(* What is shown as loading is being loaded: for every key whose children  *)
(* are marked as busy exactly one command is out, and none for another     *)
(* key; the preview marked as busy is being made (childBusy, previewBusy). *)
(* So a spinner never stays for good, and nothing is fetched twice.        *)
BusyMeansOutstanding ==
    running =>
        /\ \A c \in BagToSet(cmds) : c.op = "children" => c.node.key \in ui.busy /\ cmds[c] = 1
        /\ \A k \in ui.busy : Cardinality(Outstanding({"children"}, k)) = 1
        /\ ui.previewBusy # NoKey => Outstanding({"print", "preview"}, ui.previewBusy) # {}
        /\ PreviewSubject(ui).shows = "loading"
               => Outstanding({"children", "print", "preview"}, PreviewSubject(ui).node.key) # {}

(* What the highlight is on: on the right the entry at the index, whatever *)
(* there is at it; the selected node otherwise.                            *)
Highlighted(u) ==
    IF u.focus # "right" \/ IsAction(u) \/ RightEntries(u) = <<>> THEN {SelectedNode(u)}
    ELSE IF u.right + 1 \in DOMAIN RightEntries(u) THEN {RightEntries(u)[u.right + 1]}
    ELSE {}

(* What a key opens is what the highlight was on: never an entry that an   *)
(* index left over from another list falls back to (selectedRightEntry).   *)
ActsOnHighlighted ==
    [][ \A c \in BagToSet(cmds') \ BagToSet(cmds) :
            c.op = "open" => c.node \in Highlighted(ui) ]_terminalVars
=============================================================================
