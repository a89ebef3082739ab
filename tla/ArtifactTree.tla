---------------------------- MODULE ArtifactTree ----------------------------
(***************************************************************************)
(* pkg/studypipeline: the files below one course's artifact root, and the  *)
(* handlers that read and write them without a lock: the four stages, the  *)
(* readers that rebuild the curated files before they answer (script and   *)
(* task view), the extracted documents, and refinement by Codex.           *)
(*                                                                         *)
(* A handler is the sequence of its remaining file operations.  Writing a  *)
(* file is two of them, as in os.WriteFile: the file is opened and         *)
(* truncated, then written; a directory that another handler removed in    *)
(* between makes the first fail and the second write to a file nobody can  *)
(* see.  os.RemoveAll unlinks a directory's files and then the directory,  *)
(* and fails if a file appeared in between.                                *)
(*                                                                         *)
(* A text is the version of a material and the style it is shown in.       *)
(* Abstracted: folders and solutions (files like those of tasks), the raw  *)
(* downloads' content, and the accountability manifest's own files.        *)
(* Extracting or refining one material is one step, and so is gathering    *)
(* the texts that a file is built from.  The tool that renders the pages   *)
(* of a document is taken to be there: a document has page evidence.       *)
(***************************************************************************)
EXTENDS Naturals, Sequences, FiniteSets, SequencesExt

CONSTANTS Handlers,
          Slides, Tasks,   \* the materials, by what they are classified as
          Figures,         \* the materials with embedded images
          Kinds,           \* the requests that are made
          MaxVersion,      \* bound: versions of a material in Moodle
          MaxRequests,     \* bound: requests that may be made
          Nil

Materials == Slides \cup Tasks

ASSUME BoundsAreNaturals == MaxVersion \in Nat \ {0} /\ MaxRequests \in Nat
AllKinds == {"inventory", "raw", "extracted", "curated", "documents", "view", "refine"}
ASSUME KindsAreKnown == Kinds \subseteq AllKinds
ASSUME MaterialsAreClassified ==
    IsFiniteSet(Materials) /\ Slides \cap Tasks = {} /\ Figures \subseteq Materials

VARIABLES live,        \* the course in Moodle: versions, 0 before the upload
          requests,
          stages,      \* which of inventory and raw have been written
          extracted,   \* the extracted text files: a version, or Nil
          latest,      \* latest-documents.json
          described,   \* has an extraction run written its documents.json?
          dirs, file,  \* the curated directories and files
          improved,    \* the refined texts
          req,         \* a handler's request
          todo,        \* its remaining steps
          buf, handle, \* the text it is writing, and its open file
          outcome,     \* how its request ended
          served,      \* the script it answered with
          tree,        \* history: have the curated files been built?
          fresh,       \* history: rebuilds that no failure has disturbed
          contended,   \* history: requests that overlapped another
          spoiled      \* history: were the documents' writers cut off, or two?

env == <<live, requests>>
handlerVars == <<req, todo, buf, handle, outcome, served>>
treeHistory == <<tree, fresh, contended, spoiled>>
treeVars == <<env, stages, extracted, latest, described, dirs, file, improved, handlerVars, treeHistory>>

-----------------------------------------------------------------------------
(* Files *)

Text == [version : 0..MaxVersion, style : {"extracted", "kept", "rewritten"}]
Texts == [Materials -> Text \cup {Nil}]
ASSUME NilIsNothing == Nil \notin Text \cup 0..MaxVersion
ASSUME MaterialsAreNoFiles == Materials \cap {"script", "index"} = {}
NoTexts == [m \in Materials |-> Nil]

(* A file is absent, truncated, a mixture of two writers, or whole.        *)
FileContent == [state : {"absent", "empty", "mixed", "whole"}, shows : Texts]
Absent == [state |-> "absent", shows |-> NoTexts]
Empty == [state |-> "empty", shows |-> NoTexts]
Mixed == [state |-> "mixed", shows |-> NoTexts]
Whole(texts) == [state |-> "whole", shows |-> texts]

Outputs == {"script", "index"} \cup Tasks
DirOf(f) == IF f = "script" THEN "script" ELSE "tasks"
OutputOf(m) == IF m \in Slides THEN "script" ELSE m

(* What a write leaves in the file: it overwrites the beginning of what    *)
(* another handler wrote since the truncation.                             *)
Overwritten(old, new) ==
    IF old.state \in {"absent", "empty"} \/ old = new THEN {new} ELSE {new, Mixed}

(* Slip for the mutants: no fall-back on the extracted text.               *)
DisplayedIfImproved(m) == improved[m]

(* displayContentForMaterial: the refined text, or the extracted one.      *)
Displayed(m) ==
    IF improved[m] # Nil THEN improved[m]
    ELSE IF extracted[m] # Nil THEN [version |-> extracted[m], style |-> "extracted"]
    ELSE Nil

(* What a curated file is built from: the texts of the request's materials *)
(* that belong to it (none for the index of the tasks).                    *)
Built(f, scope) ==
    [m \in Materials |-> IF m \in scope /\ OutputOf(m) = f THEN Displayed(m) ELSE Nil]

HasExtractedArtifacts ==
    \/ \E m \in Materials : extracted[m] # Nil
    \/ latest.state # "absent"
    \/ described

(* The stage that Status reports.                                          *)
Status ==
    IF file["index"].state # "absent" /\ HasExtractedArtifacts THEN "curated"
    ELSE IF HasExtractedArtifacts THEN "extracted"
    ELSE IF "raw" \in stages THEN "raw"
    ELSE IF "inventory" \in stages THEN "inventory" ELSE "none"

-----------------------------------------------------------------------------
(* The steps of a request *)

One(name, on) == << <<name, on>> >>
Each(name, s) == [i \in 1..Len(s) |-> <<name, s[i]>>]
(* Slip for the mutants: the tasks' own files are forgotten.               *)
OutputsOfIndexOnly(scope) == <<"script", "index">>
OutputsOf(scope) == <<"script", "index">> \o SetToSeq(Tasks \cap scope)

ExtractSteps(scope) ==
    One("raw", Nil) \o Each("extract", SetToSeq(scope)) \o One("documents", Nil)

Clearing == << <<"unlink", "script">>, <<"rmdir", "script">>, <<"unlink", "tasks">>, <<"rmdir", "tasks">> >>
Making == << <<"mkdir", "script">>, <<"mkdir", "tasks">> >>
Pictured(scope) == {OutputOf(m) : m \in Figures \cap scope}

(* Slip for the mutants: the old files are removed after the new ones are  *)
(* written.                                                                *)
RebuildClearingLast(scope) ==
    One("check", Nil) \o Making \o Each("build", OutputsOf(scope)) \o Clearing
        \o << <<"hook", Nil>>, <<"rebuilt", Nil>> >>

(* writeCurated *)
Rebuild(scope) ==
    One("check", Nil) \o Clearing \o Making \o Each("build", OutputsOf(scope)) \o One("hook", Nil)
        \o Each("readBack", SetToSeq(Pictured(scope))) \o One("rebuilt", Nil)

(* RunStage, LoadExtractedDocuments, LoadScript and LoadTaskView, and      *)
(* RefineContent.                                                          *)
Program(kind, scope) ==
    CASE kind = "inventory" -> One("inventory", Nil)
      [] kind = "raw" -> One("inventory", Nil) \o One("raw", Nil)
      [] kind = "extracted" -> ExtractSteps(scope)
      [] kind = "curated" ->
            (IF HasExtractedArtifacts THEN <<>> ELSE ExtractSteps(scope))
            \o Rebuild(scope) \o One("assemble", Nil)
      [] kind = "documents" -> One("load", Nil)
      [] kind = "view" -> Rebuild(scope) \o One("serve", Nil)
      [] kind = "refine" -> Rebuild(scope)

-----------------------------------------------------------------------------
(* Handlers *)

Course == {m \in Materials : live[m] > 0}
Working(h) == todo[h] # <<>>
At(h, name) == Working(h) /\ Head(todo[h])[1] = name
On(h) == Head(todo[h])[2]

(* The handler is done with this step; has something to do for it first;   *)
(* or is done with its request.                                            *)
Step(h) == todo' = [todo EXCEPT ![h] = Tail(@)]
StepTo(h, steps) == todo' = [todo EXCEPT ![h] = steps \o Tail(@)]
End(h, how) == outcome' = [outcome EXCEPT ![h] = how]
StepOrEnd(h) ==
    /\ Step(h)
    /\ IF Len(todo[h]) = 1 THEN End(h, "ok") ELSE UNCHANGED outcome

(* Requests end early with an error, all their later steps are skipped.    *)
(* A rebuild that had begun to remove files leaves the tree broken.        *)
Abandon(gone) ==
    /\ todo' = [h \in Handlers |-> IF h \in gone THEN <<>> ELSE todo[h]]
    /\ outcome' = [h \in Handlers |-> IF h \in gone THEN "error" ELSE outcome[h]]
    /\ handle' = [h \in Handlers |-> IF h \in gone THEN "none" ELSE handle[h]]
    /\ IF \E h \in gone : fresh[h] # "no"
       THEN /\ tree' = "broken"
            /\ fresh' = [h \in Handlers |-> IF h \in gone \/ fresh[h] = "no" THEN "no" ELSE "stale"]
       ELSE UNCHANGED <<tree, fresh>>
    /\ spoiled' = (spoiled \/ \E h \in gone : At(h, "saveDocuments"))
    /\ buf' = [h \in Handlers |-> IF h \in gone THEN Absent ELSE buf[h]]
    /\ UNCHANGED <<req, served, contended>>

Nothing == UNCHANGED <<stages, extracted, latest, described, dirs, file, improved>>

(* Some time later a request comes in: its scope is the whole course, or   *)
(* one resource if the stage was asked for it (the earlier stages do not   *)
(* depend on it here); a refinement names its target.                      *)
Accept(h, kind, scope, target) ==
    /\ ~Working(h) /\ requests < MaxRequests /\ Course # {}
    /\ scope = Course \/ (kind \in {"extracted", "curated"} /\ \E m \in Course : scope = {m})
    /\ target \in IF kind = "refine" THEN Course ELSE {Nil}
    /\ requests' = requests + 1
    /\ req' = [req EXCEPT ![h] = [kind |-> kind, scope |-> scope, target |-> target]]
    /\ todo' = [todo EXCEPT ![h] = Program(kind, scope)
                  \o (IF kind = "refine" THEN One("refine", target) \o One("improve", target) ELSE <<>>)]
    /\ outcome' = [outcome EXCEPT ![h] = "none"]
    /\ served' = [served EXCEPT ![h] = Absent]
    /\ LET others == {g \in Handlers : Working(g)}
       IN  contended' = [g \in Handlers |->
                IF g = h THEN others # {} ELSE contended[g] \/ g \in others]
    /\ Nothing /\ UNCHANGED <<live, buf, handle, tree, fresh, spoiled>>

(* Files can fail to be written, downloads and the clean-up command fail.  *)
Fails(h) ==
    /\ Working(h) /\ Head(todo[h])[1] \notin {"rebuilt", "serve", "load"}
    /\ Abandon({h})
    /\ Nothing /\ UNCHANGED env

(* The process dies with every request it serves.                          *)
Crash ==
    /\ \E h \in Handlers : Working(h)
    /\ Abandon({h \in Handlers : Working(h)})
    /\ Nothing /\ UNCHANGED env

(* A teacher uploads a material or replaces it.                            *)
Upload(m) ==
    /\ live[m] < MaxVersion
    /\ live' = [live EXCEPT ![m] = @ + 1]
    /\ Nothing /\ UNCHANGED <<requests, handlerVars, treeHistory>>

-----------------------------------------------------------------------------
(* Raw materials, extraction and the extracted documents *)

WriteStage(h) ==
    /\ At(h, "inventory") \/ At(h, "raw")
    /\ stages' = stages \cup {Head(todo[h])[1]}
    /\ StepOrEnd(h)
    /\ UNCHANGED <<env, extracted, latest, described, dirs, file, improved, req, buf, handle, served, treeHistory>>

(* A download that fails leaves a placeholder, version 0.                  *)
Extract(h) ==
    /\ At(h, "extract")
    /\ \E v \in {0, live[On(h)]} : extracted' = [extracted EXCEPT ![On(h)] = v]
    /\ StepOrEnd(h)
    /\ UNCHANGED <<env, stages, latest, described, dirs, file, improved, req, buf, handle, served, treeHistory>>

(* writeExtractedDocumentRun: the run's own files; then the latest         *)
(* documents are truncated, and written.                                   *)
Documents(h) ==
    /\ At(h, "documents")
    /\ LET found == [m \in Materials |->
                        IF m \in req[h].scope /\ extracted[m] # Nil
                        THEN [version |-> extracted[m], style |-> "extracted"] ELSE Nil]
       IN  buf' = [buf EXCEPT ![h] = Whole(found)]
    /\ described' = TRUE
    /\ StepTo(h, One("openDocuments", Nil))
    /\ UNCHANGED <<env, stages, extracted, latest, dirs, file, improved, req, handle, outcome, served,
                   tree, fresh, contended, spoiled>>

(* Slip: the latest documents are opened and never written.                *)
OpenDocumentsOnly(h) ==
    /\ At(h, "openDocuments")
    /\ latest' = Empty
    /\ spoiled' = \E g \in Handlers \ {h} : At(g, "saveDocuments")
    /\ StepOrEnd(h)
    /\ UNCHANGED <<env, stages, extracted, described, dirs, file, improved, req, buf, handle, served,
                   tree, fresh, contended>>

OpenDocuments(h) ==
    /\ At(h, "openDocuments")
    /\ latest' = Empty
    /\ spoiled' = \E g \in Handlers \ {h} : At(g, "saveDocuments")
    /\ StepTo(h, One("saveDocuments", Nil))
    /\ UNCHANGED <<env, stages, extracted, described, dirs, file, improved, req, buf, handle, outcome, served,
                   tree, fresh, contended>>

SaveDocuments(h) ==
    /\ At(h, "saveDocuments")
    /\ latest' \in Overwritten(latest, buf[h])
    /\ StepOrEnd(h)
    /\ buf' = [buf EXCEPT ![h] = Absent]
    /\ UNCHANGED <<env, stages, extracted, described, dirs, file, improved, req, handle, served, treeHistory>>

(* LoadExtractedDocuments: the latest documents if there are any, an error *)
(* if they cannot be read, and otherwise an extraction.                    *)
LoadDocuments(h) ==
    /\ At(h, "load")
    /\ \/ /\ latest.state = "whole" /\ StepOrEnd(h)
          /\ UNCHANGED <<req, buf, handle, served, treeHistory>>
       \/ /\ latest.state = "absent"
          /\ StepTo(h, IF HasExtractedArtifacts THEN One("documents", Nil) ELSE ExtractSteps(req[h].scope))
          /\ UNCHANGED <<req, buf, handle, outcome, served, treeHistory>>
       \/ latest.state \in {"empty", "mixed"} /\ Abandon({h})
    /\ Nothing /\ UNCHANGED env

-----------------------------------------------------------------------------
(* writeCurated *)

Check(h) ==
    /\ At(h, "check")
    /\ IF HasExtractedArtifacts
       THEN Step(h) /\ UNCHANGED <<req, buf, handle, outcome, served, treeHistory>>
       ELSE Abandon({h})
    /\ Nothing /\ UNCHANGED env

(* The directory's files go; files open in other handlers are cut off.     *)
Unlink(h) ==
    /\ At(h, "unlink")
    /\ file' = [f \in Outputs |-> IF DirOf(f) = On(h) THEN Absent ELSE file[f]]
    /\ handle' = [g \in Handlers |-> IF handle[g] = On(h) THEN "cut" ELSE handle[g]]
    /\ fresh' = [fresh EXCEPT ![h] = IF @ = "no" THEN "fresh" ELSE @]
    /\ Step(h)
    /\ UNCHANGED <<env, stages, extracted, latest, described, dirs, improved, req, buf, outcome, served,
                   tree, contended, spoiled>>

RemoveDir(h) ==
    /\ At(h, "rmdir")
    /\ IF \E f \in Outputs : DirOf(f) = On(h) /\ file[f].state # "absent"
       THEN Abandon({h}) /\ UNCHANGED dirs
       ELSE /\ dirs' = dirs \ {On(h)} /\ Step(h)
            /\ UNCHANGED <<req, buf, handle, outcome, served, treeHistory>>
    /\ UNCHANGED <<env, stages, extracted, latest, described, file, improved>>

MakeDir(h) ==
    /\ At(h, "mkdir")
    /\ dirs' = dirs \cup {On(h)}
    /\ Step(h)
    /\ UNCHANGED <<env, stages, extracted, latest, described, file, improved, req, buf, handle, outcome,
                   served, treeHistory>>

(* The output's text is made, and the file opened and truncated.           *)
Open(h) ==
    /\ At(h, "build") \/ At(h, "reopen")
    /\ IF DirOf(On(h)) \in dirs
       THEN /\ file' = [file EXCEPT ![On(h)] = Empty]
            /\ handle' = [handle EXCEPT ![h] = DirOf(On(h))]
            /\ buf' = IF At(h, "build")
                      THEN [buf EXCEPT ![h] = Whole(Built(On(h), req[h].scope))] ELSE buf
            /\ StepTo(h, One("write", On(h)))
            /\ UNCHANGED <<req, outcome, served, treeHistory>>
       ELSE Abandon({h}) /\ UNCHANGED file
    /\ UNCHANGED <<env, stages, extracted, latest, described, dirs, improved>>

Write(h) ==
    /\ At(h, "write")
    /\ IF handle[h] = "cut" THEN UNCHANGED file
       ELSE \E new \in Overwritten(file[On(h)], buf[h]) : file' = [file EXCEPT ![On(h)] = new]
    /\ handle' = [handle EXCEPT ![h] = "none"]
    /\ buf' = [buf EXCEPT ![h] = Absent]
    /\ Step(h)
    /\ UNCHANGED <<env, stages, extracted, latest, described, dirs, improved, req, outcome, served, treeHistory>>

(* The clean-up command is not configured, or rewrites no text.            *)
Hook(h) ==
    /\ At(h, "hook")
    /\ Step(h)
    /\ Nothing /\ UNCHANGED <<env, req, buf, handle, outcome, served, treeHistory>>

(* reconcileCuratedVisualAssets: an output is read back, and written again *)
(* with the figures it lacks, if it does.                                  *)
ReadBack(h) ==
    /\ At(h, "readBack")
    /\ \/ Step(h) /\ UNCHANGED buf
       \/ /\ file[On(h)].state # "absent"
          /\ buf' = [buf EXCEPT ![h] = IF file[On(h)].state = "empty" THEN Whole(NoTexts) ELSE file[On(h)]]
          /\ StepTo(h, One("reopen", On(h)))
    /\ Nothing
    /\ UNCHANGED <<env, req, handle, outcome, served, tree, fresh, contended, spoiled>>

(* writeCurated returns.                                                   *)
Rebuilt(h) ==
    /\ At(h, "rebuilt")
    /\ tree' = IF fresh[h] = "fresh" THEN "built" ELSE tree
    /\ fresh' = [fresh EXCEPT ![h] = "no"]
    /\ StepOrEnd(h)
    /\ Nothing
    /\ UNCHANGED <<env, req, buf, handle, served, contended, spoiled>>

-----------------------------------------------------------------------------
(* What follows a rebuild *)

(* Are a document's elements found in the output of its material?          *)
Represented(m) ==
    LET shown == file[OutputOf(m)].shows[m]
    IN  shown # Nil /\ shown.version = latest.shows[m].version /\ shown.style # "rewritten"

(* buildCuratedAccountability: every element of the latest documents of    *)
(* the request's materials is looked for; no document is no evidence.      *)
Accounted(h) == {m \in req[h].scope : latest.shows[m] # Nil}
Complete(h) == Accounted(h) # {} /\ \A m \in Accounted(h) : Represented(m)

Assemble(h) ==
    /\ At(h, "assemble")
    /\ \/ /\ latest.state = "whole"
          /\ Step(h)
          /\ \/ Complete(h) /\ End(h, "ok")
             \/ ~Complete(h) /\ End(h, "needs_review")
             \/ (\E m \in Accounted(h) : file[OutputOf(m)].state = "mixed") /\ End(h, "ok")
          /\ UNCHANGED <<req, buf, handle, served, tree, fresh, contended, spoiled>>
       \/ /\ latest.state = "absent"
          /\ todo' = [todo EXCEPT ![h] = One("documents", Nil) \o @]
          /\ UNCHANGED <<req, buf, handle, outcome, served, treeHistory>>
       \/ latest.state \in {"empty", "mixed"} /\ Abandon({h})
    /\ Nothing /\ UNCHANGED env

(* loadScriptMarkdown: the file, whatever is in it, or a script built in   *)
(* memory if there is none.                                                *)
Serve(h) ==
    /\ At(h, "serve")
    /\ served' = [served EXCEPT ![h] =
            IF file["script"].state = "absent" THEN Whole(Built("script", req[h].scope))
            ELSE file["script"]]
    /\ StepOrEnd(h)
    /\ Nothing /\ UNCHANGED <<env, req, buf, handle, treeHistory>>

(* RefineContent: Codex rewrites the extracted text, and may or may not    *)
(* keep the wording of its elements; the result is saved beside it.        *)
Refine(h) ==
    /\ At(h, "refine")
    /\ IF extracted[On(h)] = Nil THEN Abandon({h}) /\ UNCHANGED improved
       ELSE /\ \E style \in {"kept", "rewritten"} :
                 buf' = [buf EXCEPT ![h] = Whole([NoTexts EXCEPT ![On(h)] =
                            [version |-> extracted[On(h)], style |-> style]])]
            /\ Step(h)
            /\ UNCHANGED <<improved, req, handle, outcome, served, treeHistory>>
    /\ UNCHANGED <<env, stages, extracted, latest, described, dirs, file>>

(* writeImprovedContent *)
Improve(h) ==
    /\ At(h, "improve")
    /\ improved' = [improved EXCEPT ![On(h)] = buf[h].shows[On(h)]]
    /\ buf' = [buf EXCEPT ![h] = Absent]
    /\ StepOrEnd(h)
    /\ UNCHANGED <<env, stages, extracted, latest, described, dirs, file, req, handle, served, treeHistory>>

-----------------------------------------------------------------------------
(* Specification *)

Steps ==
    ({"inventory", "raw", "documents", "openDocuments", "saveDocuments", "load", "check", "hook", "rebuilt",
      "assemble", "serve"} \X {Nil})
        \cup ({"extract", "refine", "improve"} \X Materials)
        \cup ({"unlink", "rmdir", "mkdir"} \X {"script", "tasks"})
        \cup ({"build", "write", "readBack", "reopen"} \X Outputs)

TreeRequests == [kind : AllKinds, scope : SUBSET Materials, target : Materials \cup {Nil}]

TreeTypeOK ==
    /\ live \in [Materials -> 0..MaxVersion] /\ requests \in 0..MaxRequests
    /\ stages \subseteq {"inventory", "raw"}
    /\ extracted \in [Materials -> 0..MaxVersion \cup {Nil}]
    /\ latest \in FileContent /\ described \in BOOLEAN
    /\ dirs \subseteq {"script", "tasks"} /\ file \in [Outputs -> FileContent]
    /\ improved \in Texts
    /\ req \in [Handlers -> TreeRequests] /\ todo \in [Handlers -> Seq(Steps)]
    /\ buf \in [Handlers -> FileContent] /\ served \in [Handlers -> FileContent]
    /\ handle \in [Handlers -> {"none", "script", "tasks", "cut"}]
    /\ outcome \in [Handlers -> {"none", "ok", "needs_review", "error"}]
    /\ fresh \in [Handlers -> {"no", "fresh", "stale"}] /\ contended \in [Handlers -> BOOLEAN]
    /\ tree \in {"unbuilt", "built", "broken"} /\ spoiled \in BOOLEAN

(* A new course, or one that was extracted before, completely or not, when *)
(* all its materials were in their first version.                          *)
TreeInit ==
    /\ requests = 0 /\ described = FALSE /\ dirs = {} /\ improved = NoTexts
    /\ file = [f \in Outputs |-> Absent]
    /\ \/ /\ live \in [Materials -> {0, 1}]
          /\ stages = {} /\ extracted = [m \in Materials |-> Nil] /\ latest = Absent
       \/ /\ live = [m \in Materials |-> 1]
          /\ stages = {"raw"} /\ extracted = [m \in Materials |-> 1]
          /\ latest \in {Absent, Whole([m \in Materials |-> [version |-> 1, style |-> "extracted"]])}
    /\ req = [h \in Handlers |-> [kind |-> "inventory", scope |-> {}, target |-> Nil]]
    /\ todo = [h \in Handlers |-> <<>>]
    /\ buf = [h \in Handlers |-> Absent] /\ served = [h \in Handlers |-> Absent]
    /\ handle = [h \in Handlers |-> "none"] /\ outcome = [h \in Handlers |-> "none"]
    /\ tree = "unbuilt" /\ fresh = [h \in Handlers |-> "no"]
    /\ contended = [h \in Handlers |-> FALSE] /\ spoiled = FALSE

Work(h) ==
    \/ WriteStage(h) \/ Extract(h) \/ Documents(h) \/ OpenDocuments(h) \/ SaveDocuments(h) \/ LoadDocuments(h)
    \/ Check(h) \/ Unlink(h) \/ RemoveDir(h) \/ MakeDir(h) \/ Open(h) \/ Write(h) \/ Hook(h)
    \/ ReadBack(h) \/ Rebuilt(h) \/ Assemble(h) \/ Serve(h) \/ Refine(h) \/ Improve(h)

TreeNext ==
    \/ \E h \in Handlers, kind \in Kinds, scope \in SUBSET Materials, target \in Materials \cup {Nil} :
          Accept(h, kind, scope, target)
    \/ \E h \in Handlers : Work(h) \/ Fails(h)
    \/ Crash
    \/ \E m \in Materials : Upload(m)

TreeSpec == TreeInit /\ [][TreeNext]_treeVars

-----------------------------------------------------------------------------
(* Properties *)

Quiet == \A h \in Handlers : ~Working(h)

(* However many rebuilds of the curated files overlapped, removing each    *)
(* other's directories: once all of them have returned, and none failed or *)
(* died after the last complete rebuild began, both directories, the       *)
(* script and the index are there, no output is cut short, and Status      *)
(* calls the course curated.                                               *)
CompleteWhenQuiet ==
    Quiet /\ tree = "built" =>
        /\ dirs = {"script", "tasks"}
        /\ \A f \in {"script", "index"} : file[f].state \in {"whole", "mixed"}
        /\ \A f \in Outputs : file[f].state # "empty"
        /\ Status = "curated"

(* A curation that nothing overlapped asks for review only if a text was   *)
(* rewritten, or the texts changed after the documents were described.     *)
ReviewHasCause(h) ==
    outcome'[h] = "needs_review" /\ outcome[h] # "needs_review" /\ ~contended[h] =>
        \/ \A m \in req[h].scope : latest.shows[m] = Nil
        \/ \E m \in req[h].scope :
              /\ latest.shows[m] # Nil
              /\ \/ Displayed(m) = Nil
                 \/ Displayed(m).style # "extracted"
                 \/ Displayed(m).version # latest.shows[m].version
NeedsReviewForCause == [][ \A h \in Handlers : ReviewHasCause(h) ]_treeVars

(* A reader that nothing overlapped is answered with a whole script that   *)
(* shows every slide of the course that was extracted or refined.          *)
AnswerIsComplete(h) ==
    served'[h] # served[h] /\ served'[h] # Absent /\ ~contended[h] =>
        /\ served'[h].state = "whole"
        /\ \A m \in Slides \cap req[h].scope :
             served'[h].shows[m] = Nil => extracted[m] = Nil /\ improved[m] = Nil
ServedScriptIsComplete == [][ \A h \in Handlers : AnswerIsComplete(h) ]_treeVars

(* The latest documents are readable when nobody writes them, unless their *)
(* last writer failed or died, or was one of two at once: reading them     *)
(* would be an error until the extraction is run again.                    *)
DocumentsReadableWhenQuiet == Quiet /\ latest.state \in {"empty", "mixed"} => spoiled
=============================================================================
