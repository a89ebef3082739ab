------------------------------- MODULE Export -------------------------------
(***************************************************************************)
(* internal/cli/export_*.go: the export of a school's semesters from       *)
(* Moodle to Google Drive, to the workspace and into an archive.           *)
(*                                                                         *)
(* One command works through its semesters and their courses in sequence.  *)
(* Between any two of its steps the command may die, Moodle may serve      *)
(* newer material, and a request may fail, after having had its effect or  *)
(* before.  A run has a folder on Drive of its own; the "current" folders, *)
(* the search indexes and the pointers to the latest run are overwritten   *)
(* in place.  The state that decides what a later command exports is       *)
(* export.index.yaml, written once, at the end.                            *)
(*                                                                         *)
(* Drive is a function from paths to contents.  Contents are what the      *)
(* properties compare: the version of a material, the records of an index, *)
(* the number of the run.  Folders, page images, the wording of the        *)
(* indexes and the choice of credentials are left out; slugs of courses    *)
(* are taken to differ.                                                    *)
(***************************************************************************)
EXTENDS Naturals, Sequences, FiniteSets, SequencesExt

CONSTANTS Semesters, CurrentTerm, Courses, Resources,
          SemesterOf,   \* [Courses -> Semesters]
          CourseOf,     \* [Resources -> Courses]
          TitleOf,      \* [Resources -> titles], the slug of the name
          SectionOf,    \* [Resources -> sections] of the course's page
          Pdfs, GeneralSections, \* what the goodnotes profile takes, and what it leaves out
          Commands,     \* what may be asked: [term, upload, profile]
          MaxCommands, MaxEdits, MaxFaults,
          Null

ASSUME ExportAssumption ==
    /\ \A S \in {Semesters, Courses, Resources} : IsFiniteSet(S)
    /\ CurrentTerm \in Semesters /\ Null \notin Semesters
    /\ SemesterOf \in [Courses -> Semesters] /\ CourseOf \in [Resources -> Courses]
    /\ DOMAIN SectionOf = Resources
    /\ Commands \subseteq [term : Semesters \cup {Null}, upload : BOOLEAN, profile : {"none", "full", "goodnotes"}]
    /\ {MaxCommands, MaxEdits, MaxFaults} \subseteq Nat

VARIABLES
    material,    \* the version of each resource that Moodle serves
    drive,       \* Google Drive: path -> content
    unconfirmed, \* history: paths with an update that was taken for done and had not arrived
    texts,       \* materials-text of each course in the workspace: title -> [of, version]
    courseIndex, \* materials.index.yaml of each course in the workspace: the run that wrote it
    dirs,        \* semesters with a directory in the workspace
    index,       \* export.index.yaml
    indexCut,    \* it was being written when the command died
    archive, tmp,  \* the archive, and what is written beside it
    step, job,     \* the command at work
    commands, edits, faults
workspace == <<texts, courseIndex, dirs, index, indexCut, archive, tmp>>
exportVars == <<material, drive, unconfirmed, workspace, step, job, commands, edits, faults>>

CoursesOf(s) == {c \in Courses : SemesterOf[c] = s}
ResourcesOf(c) == {r \in Resources : CourseOf[r] = c}
SharesTitle(r) == \E q \in Resources \ {r} : CourseOf[q] = CourseOf[r] /\ TitleOf[q] = TitleOf[r]

Unexported == [run |-> 0, complete |-> FALSE, uploaded |-> FALSE]

ExportInit ==
    /\ material = [r \in Resources |-> 0]
    /\ drive = <<>> /\ unconfirmed = {}
    /\ texts = [c \in Courses |-> <<>>]
    /\ courseIndex = [c \in Courses |-> 0]
    /\ dirs \in SUBSET (Semesters \ {CurrentTerm})
    /\ index = [s \in Semesters |-> Unexported] /\ indexCut = FALSE
    /\ archive = Null /\ tmp = Null
    /\ step = "idle" /\ job = Null
    /\ commands = 0 /\ edits = 0 /\ faults = 0

Put(f, key, value) == [k \in DOMAIN f \cup {key} |-> IF k = key THEN value ELSE f[k]]

Goto(label, j) == step' = label /\ job' = j

(* The error of a step that ends the command: the temporary directory goes *)
(* and with it what the command has learnt.                                *)
Abort == Goto("idle", Null)

Outcome(ok) == IF ok THEN UNCHANGED faults ELSE faults < MaxFaults /\ faults' = faults + 1

-----------------------------------------------------------------------------
(* Drive *)

(* A file to upload, as a new one or over the one that is there; the paths *)
(* of one upload differ.                                                   *)
File(path, content) == [path |-> path, content |-> content, over |-> FALSE]
Over(path, content) == [path |-> path, content |-> content, over |-> TRUE]

(* All but the lost ones arrive.                                           *)
Uploaded(files, lost) ==
    LET arriving == DOMAIN files \ lost
        paths == {files[i].path : i \in arriving}
        ContentOf(p) == files[CHOOSE i \in arriving : files[i].path = p].content
    IN  [p \in DOMAIN drive \cup paths |-> IF p \in paths THEN ContentOf(p) ELSE drive[p]]

(* Uploads in sequence, up to one that fails: its file may have arrived    *)
(* all the same.  When Drive could not prepare its answer to an update,    *)
(* updateMedia takes it for done if the file is there, which it was        *)
(* before.  A command without --upload only pretends.                      *)
Send(files, ok) ==
    \E n \in 0..Len(files) :
      \E lost \in SUBSET {i \in 1..n : files[i].over /\ files[i].path \in DOMAIN drive} :
        /\ Outcome(ok /\ lost = {})
        /\ (ok /\ lost = {}) \/ job.upload
        /\ ok => n = Len(files)
        /\ drive' = IF job.upload THEN Uploaded(SubSeq(files, 1, n), lost) ELSE drive
        /\ unconfirmed' = unconfirmed \cup {files[i].path : i \in lost}

InRun(s, run, rest) == <<s, "runs", run>> \o rest
InCurrent(s, rest) == <<s, "current">> \o rest

SearchIndexPath == <<"_search", "query">>
SemesterIndexPath(s) == InCurrent(s, <<"semester.index">>)
CourseIndexPath(s, c) == InCurrent(s, <<c, "course.index">>)

-----------------------------------------------------------------------------
(* The command *)

NewJob(queue, command) ==
    [queue |-> queue, upload |-> command.upload, profile |-> command.profile, index |-> index,
     s |-> Null, run |-> 0, failed |-> FALSE, courses |-> <<>>, c |-> Null,
     zip |-> <<>>, textOf |-> {}, resources |-> <<>>, r |-> Null, raw |-> <<>>,
     mine |-> {}, records |-> {}]

GoodNotesArchiveOnly(j) == ~j.upload /\ j.profile = "goodnotes"

(* The current term, then every semester with a directory that the index   *)
(* does not call complete; or the one named.                               *)
SemestersToProcess(command) ==
    IF command.term # Null THEN <<command.term>>
    ELSE <<CurrentTerm>> \o SetToSeq({s \in dirs \ {CurrentTerm} : ~index[s].complete})

StartExport(command) ==
    /\ step = "idle" /\ commands < MaxCommands /\ ~indexCut
    /\ commands' = commands + 1
    /\ Goto("semester", NewJob(SemestersToProcess(command), command))
    /\ UNCHANGED <<material, drive, unconfirmed, workspace, edits, faults>>

(* exportSemesterRun: the courses are fetched and the folders of a new run *)
(* are made.  A semester without courses is a failure of its own.          *)
EnterCourse(j) ==
    IF j.courses = <<>> THEN Goto("calendar", j)
    ELSE Goto("course", [j EXCEPT !.c = Head(j.courses), !.courses = Tail(@), !.mine = {}])

BeginSemester(ok) ==
    /\ step = "semester" /\ Outcome(ok)
    /\ LET s == Head(job.queue)
       IN  IF ~ok THEN Abort
           ELSE EnterCourse([job EXCEPT !.s = s, !.queue = Tail(@),
                                !.run = commands * Cardinality(Semesters) + Len(job.queue),
                                !.courses = SetToSeq(CoursesOf(s)), !.failed = CoursesOf(s) = {},
                                !.raw = <<>>, !.zip = <<>>, !.records = {}])
    /\ UNCHANGED <<material, drive, unconfirmed, workspace, commands, edits>>

(* Slip: the error of a course is not kept.                                *)
SkipCourse(j) == EnterCourse(j)

(* A course whose export fails is left out, with all its records.          *)
FailCourse(j) == EnterCourse([j EXCEPT !.failed = TRUE])

(* ensureExportCourseFiles and writeExportCourseSnapshot.                  *)
WithCourseFiles == dirs \cup {job.s}

(* exportCourseZip. *)
ZipContents(c) == [r \in ResourcesOf(c) |-> material[r]]

SnapshotCourse(ok) ==
    /\ step = "course" /\ Outcome(ok)
    /\ dirs' = WithCourseFiles
    /\ IF ~ok THEN FailCourse(job)
       ELSE Goto("upload zip", [job EXCEPT !.zip = Put(@, job.c, ZipContents(job.c))])
    /\ UNCHANGED <<material, drive, unconfirmed, texts, courseIndex, index, indexCut, archive, tmp, commands, edits>>

UploadZip(ok) ==
    /\ step = "upload zip"
    /\ Send(<<File(InRun(job.s, job.run, <<"raw-zips", job.c>>), job.zip[job.c])>>, ok)
    /\ IF ~ok THEN FailCourse(job)
       ELSE IF GoodNotesArchiveOnly(job) THEN Goto("index", job)
       ELSE Goto("texts", job)
    /\ UNCHANGED <<material, workspace, commands, edits>>

(* exportCourseDriveArtifacts goes from resource to resource.              *)
EnterResource(j) ==
    IF j.resources = <<>> THEN Goto("docs", j)
    ELSE Goto("raw run", [j EXCEPT !.r = Head(j.resources), !.resources = Tail(@)])

(* extractExportResourceTexts: the directory is emptied, and each resource *)
(* with a text writes the file of its title, over that of another with the *)
(* same title.                                                             *)
ExtractTexts ==
    /\ step = "texts"
    /\ \E found \in SUBSET ResourcesOf(job.c) :
         /\ \E last \in [{TitleOf[r] : r \in found} -> found] :
              /\ \A t \in DOMAIN last : TitleOf[last[t]] = t
              /\ texts' = [texts EXCEPT ![job.c] =
                     [t \in DOMAIN last |-> [of |-> last[t], version |-> material[last[t]]]]]
         /\ EnterResource([job EXCEPT !.textOf = found, !.resources = SetToSeq(ResourcesOf(job.c))])
    /\ UNCHANGED <<material, drive, unconfirmed, courseIndex, dirs, index, indexCut, archive, tmp, commands, edits, faults>>

Recorded(j, sum, text) ==
    EnterResource([j EXCEPT !.mine = @ \cup {[of |-> j.r, sum |-> sum, text |-> text]}])

(* failedExportRecord: no sum, no links, and no file name.                 *)
RecordFailure(j) == Recorded(j, Null, FALSE)

DownloadFails ==
    /\ step = "raw run" /\ Outcome(FALSE)
    /\ RecordFailure(job)
    /\ UNCHANGED <<material, drive, unconfirmed, workspace, commands, edits>>

UploadRawToRun(ok) ==
    /\ step = "raw run"
    /\ LET j == [job EXCEPT !.raw = Put(@, job.r, material[job.r])]
       IN  /\ Send(<<File(InRun(job.s, job.run, <<"raw-files", job.r>>), material[job.r])>>, ok)
           /\ IF ok THEN Goto("raw current", j) ELSE RecordFailure(j)
    /\ UNCHANGED <<material, workspace, commands, edits>>

RawCurrent ==
    Over(InCurrent(job.s, <<job.c, "raw", job.r>>), [run |-> job.run, version |-> job.raw[job.r]])

(* Slip: a record is made although the upload failed.                      *)
UploadRawToCurrentAnyway(ok) ==
    /\ step = "raw current"
    /\ Send(<<RawCurrent>>, ok)
    /\ Goto("text", job)
    /\ UNCHANGED <<material, workspace, commands, edits>>

UploadRawToCurrent(ok) ==
    /\ step = "raw current"
    /\ Send(<<RawCurrent>>, ok)
    /\ IF ok THEN Goto("text", job) ELSE RecordFailure(job)
    /\ UNCHANGED <<material, workspace, commands, edits>>

(* The text that was extracted, if there is one; a failed upload is noted  *)
(* in the record and nothing else.  Images follow, as best they can.       *)
UploadText(ok) ==
    /\ step = "text"
    /\ IF job.r \in job.textOf
       THEN /\ Send(<<Over(InCurrent(job.s, <<job.c, "text", TitleOf[job.r]>>),
                           [run |-> job.run, of |-> texts[job.c][TitleOf[job.r]].of])>>, ok)
            /\ Recorded(job, job.raw[job.r], ok)
       ELSE ok /\ Recorded(job, job.raw[job.r], FALSE) /\ UNCHANGED <<drive, unconfirmed, faults>>
    /\ UNCHANGED <<material, workspace, commands, edits>>

(* uploadCourseCurrentDocs. *)
UploadCourseDocs(ok) ==
    /\ step = "docs"
    /\ Send(<<Over(CourseIndexPath(job.s, job.c), [run |-> job.run, records |-> job.mine])>>, ok)
    /\ IF ok THEN Goto("index", job) ELSE FailCourse(job)
    /\ UNCHANGED <<material, workspace, commands, edits>>

(* writeExportMaterialIndex and the manifest.                              *)
WriteMaterialIndex ==
    /\ step = "index"
    /\ courseIndex' = [courseIndex EXCEPT ![job.c] = job.run]
    /\ EnterCourse([job EXCEPT !.records = @ \cup job.mine])
    /\ UNCHANGED <<material, drive, unconfirmed, texts, dirs, index, indexCut, archive, tmp, commands, edits, faults>>

(* uploadCalendarDriveFiles. *)
CalendarIndexes ==
    <<Over(InCurrent(job.s, <<"calendar", "index">>), job.run), Over(<<"_search", "calendar">>, job.run)>>

(* exportCalendarRun, which fails without a calendar address, too: then    *)
(* it has not come to the directory that it makes for the semester.        *)
ExportCalendar(ok) ==
    /\ step = "calendar"
    /\ \/ ~ok /\ Outcome(FALSE) /\ UNCHANGED <<drive, unconfirmed, dirs>>
       \/ /\ Send(<<File(InRun(job.s, job.run, <<"raw", "calendar">>), job.run),
                    Over(InCurrent(job.s, <<"calendar", "raw">>), job.run)>> \o CalendarIndexes, ok)
          /\ dirs' = dirs \cup {job.s}
    /\ Goto("report", [job EXCEPT !.failed = @ \/ ~ok])
    /\ UNCHANGED <<material, texts, courseIndex, index, indexCut, archive, tmp, commands, edits>>

(* uploadProcessedExportFiles: the files of the courses as they lie in the *)
(* workspace, from this run or an earlier one.                             *)
ProcessedFiles ==
    SetToSeq({File(InRun(job.s, job.run, <<"processed", c>>), courseIndex[c]) :
                c \in {d \in CoursesOf(job.s) : courseIndex[d] # 0}})

(* run.yaml, report.md and the processed files.                            *)
UploadReport(ok) ==
    /\ step = "report"
    /\ Send(<<File(InRun(job.s, job.run, <<"run.yaml">>), ~job.failed)>> \o ProcessedFiles, ok)
    /\ IF ok THEN Goto("navigation", job) ELSE Abort
    /\ UNCHANGED <<material, workspace, commands, edits>>

(* uploadSearchIndexes, over those of any other semester.                  *)
SearchIndex == Over(SearchIndexPath, [run |-> job.run, records |-> job.records])

(* buildSemesterIndex. *)
SemesterIndex == Over(SemesterIndexPath(job.s), [run |-> job.run, records |-> job.records])

(* uploadExportNavigation: complete or not, the run becomes the latest of  *)
(* the root, of the search and of the semester's current folder.           *)
UploadNavigation(ok) ==
    /\ step = "navigation"
    /\ Send(<<Over(<<"latest.yaml">>, job.run), SearchIndex, SemesterIndex>>, ok)
    /\ IF ~ok THEN Abort
       ELSE Goto(IF job.profile = "none" THEN "latest" ELSE "archive", job)
    /\ UNCHANGED <<material, workspace, commands, edits>>

(* goodNotesPDFRecords and shouldSkipGoodNotesSection.                     *)
PdfRecords(j) == {x \in j.records : x.of \in Pdfs}
GoodNotes(r) == r \in Pdfs /\ SectionOf[r] \notin GeneralSections

(* addGoodNotesCourseZips, which is for records without a PDF: the zips of *)
(* all courses, and one that is missing is an error.                       *)
ZipsMissing(j) == \E c \in CoursesOf(j.s) : c \notin DOMAIN j.zip

Place(r) == <<CourseOf[r], SectionOf[r], TitleOf[r]>>

(* Slip: a record without a file is passed over.                           *)
PlacesTaken(j) ==
    \E x, y \in PdfRecords(j) : x # y /\ GoodNotes(x.of) /\ Place(x.of) = Place(y.of)

(* writeGoodNotesArchiveContents reads a raw file for each PDF, and for a  *)
(* failed record, which names no file, their directory; two that belong    *)
(* under one title are one path too many.                                  *)
RecordsRefused(j) ==
    \E x \in PdfRecords(j) :
        /\ GoodNotes(x.of)
        /\ x.sum = Null \/ \E y \in PdfRecords(j) \ {x} : Place(x.of) = Place(y.of)

ArchiveRefused(j) ==
    /\ j.profile = "goodnotes"
    /\ IF PdfRecords(j) = {} THEN ZipsMissing(j) ELSE RecordsRefused(j)

(* addRawFiles, the PDFs of the records, or those that the course zips     *)
(* hold.                                                                   *)
RawFiles(j) ==
    IF j.profile # "goodnotes" THEN j.raw
    ELSE IF PdfRecords(j) # {}
    THEN [r \in {q \in DOMAIN j.raw : GoodNotes(q) /\ \E x \in PdfRecords(j) : x.of = q} |-> j.raw[r]]
    ELSE [r \in {q \in Resources : GoodNotes(q) /\ CourseOf[q] \in DOMAIN j.zip} |-> j.zip[CourseOf[r]][r]]

ArchiveContents(j) == [s |-> j.s, profile |-> j.profile, records |-> j.records, raw |-> RawFiles(j)]

(* writeExportArchive, then closeCompletedArchive or closeFailedArchive.   *)
WriteArchive ==
    /\ step = "archive"
    /\ IF ArchiveRefused(job) THEN Abort /\ tmp' = Null
       ELSE Goto("rename", job) /\ tmp' = ArchiveContents(job)
    /\ UNCHANGED <<material, drive, unconfirmed, texts, courseIndex, dirs, index, indexCut, archive, commands, edits, faults>>

RenameArchive ==
    /\ step = "rename"
    /\ archive' = tmp /\ tmp' = Null
    /\ Goto("latest", job)
    /\ UNCHANGED <<material, drive, unconfirmed, texts, courseIndex, dirs, index, indexCut, commands, edits, faults>>

UpdatedIndex ==
    [job.index EXCEPT ![job.s] = [run |-> job.run, complete |-> ~job.failed, uploaded |-> job.upload]]

(* latest.yaml of the semester, then updateExportIndex, in memory.         *)
UploadLatest(ok) ==
    /\ step = "latest"
    /\ IF job.failed THEN ok /\ UNCHANGED <<drive, unconfirmed, faults>>
       ELSE Send(<<Over(<<job.s, "latest.yaml">>, job.run)>>, ok)
    /\ IF ~ok THEN Abort
       ELSE Goto(IF job.queue = <<>> THEN "write" ELSE "semester",
                 [job EXCEPT !.index = UpdatedIndex])
    /\ UNCHANGED <<material, workspace, commands, edits>>

(* writeExportIndex: the file is cut, then written.                        *)
WriteIndex ==
    /\ step = "write"
    /\ index' = job.index
    /\ Abort
    /\ UNCHANGED <<material, drive, unconfirmed, texts, courseIndex, dirs, indexCut, archive, tmp, commands, edits, faults>>

-----------------------------------------------------------------------------
(* The command dies, and leaves what it has written so far.                *)
Crash ==
    /\ step # "idle" /\ Outcome(FALSE)
    /\ Abort
    /\ \/ UNCHANGED indexCut
       \/ step = "write" /\ indexCut' = TRUE
    /\ UNCHANGED <<material, drive, unconfirmed, texts, courseIndex, dirs, index, archive, tmp, commands, edits>>

(* A teacher replaces a file.                                              *)
Edit(r) ==
    /\ edits < MaxEdits /\ edits' = edits + 1
    /\ material' = [material EXCEPT ![r] = @ + 1]
    /\ UNCHANGED <<drive, unconfirmed, workspace, step, job, commands, faults>>

Course(ok) ==
    \/ SnapshotCourse(ok) \/ UploadZip(ok) \/ UploadRawToRun(ok) \/ UploadRawToCurrent(ok)
    \/ UploadText(ok) \/ UploadCourseDocs(ok)

Semester(ok) ==
    \/ BeginSemester(ok) \/ ExportCalendar(ok) \/ UploadReport(ok) \/ UploadNavigation(ok) \/ UploadLatest(ok)

ExportNext ==
    \/ \E command \in Commands : StartExport(command)
    \/ \E ok \in BOOLEAN : Course(ok) \/ Semester(ok)
    \/ ExtractTexts \/ DownloadFails \/ WriteMaterialIndex
    \/ WriteArchive \/ RenameArchive \/ WriteIndex
    \/ Crash
    \/ \E r \in Resources : Edit(r)

ExportSpec == ExportInit /\ [][ExportNext]_exportVars

-----------------------------------------------------------------------------
(* Properties *)

OnDrive(path, content) == path \in DOMAIN drive /\ drive[path] = content

(* Everything a finished run leaves in its folder: its report calls it     *)
(* complete, every course of the semester has its zip and the index this   *)
(* very run wrote, and the calendar is there.                              *)
WholeRun(s, run) ==
    /\ OnDrive(InRun(s, run, <<"run.yaml">>), TRUE)
    /\ OnDrive(InRun(s, run, <<"raw", "calendar">>), run)
    /\ \A c \in CoursesOf(s) :
         /\ InRun(s, run, <<"raw-zips", c>>) \in DOMAIN drive
         /\ OnDrive(InRun(s, run, <<"processed", c>>), run)

(* Whoever follows a semester's latest.yaml finds a whole run, and so does *)
(* who trusts the index that lets later commands leave a semester out,     *)
(* unless its entry is that of a command without --upload; the pointer is  *)
(* at least as new as the index, unless its update was lost.               *)
CompleteMeansWhole ==
    \A s \in Semesters :
        /\ <<s, "latest.yaml">> \in DOMAIN drive => WholeRun(s, drive[<<s, "latest.yaml">>])
        /\ index[s].complete /\ index[s].uploaded =>
             /\ WholeRun(s, index[s].run)
             /\ drive[<<s, "latest.yaml">>] >= index[s].run \/ <<s, "latest.yaml">> \in unconfirmed

IndexPaths ==
    {SearchIndexPath} \cup {SemesterIndexPath(s) : s \in Semesters}
        \cup {CourseIndexPath(SemesterOf[c], c) : c \in Courses}

(* The record of an index on Drive describes the files it links to: the    *)
(* raw file has its sum, and the text is the resource's own unless another *)
(* has its title.  Only a later run may have overwritten them since, and   *)
(* only an update that was lost has left them as they were.                *)
RecordsMatchFiles ==
    \A path \in DOMAIN drive \cap IndexPaths :
        \A x \in drive[path].records :
            LET c == CourseOf[x.of]
                raw == InCurrent(SemesterOf[c], <<c, "raw", x.of>>)
                text == InCurrent(SemesterOf[c], <<c, "text", TitleOf[x.of]>>)
            IN  /\ x.sum # Null =>
                     /\ raw \in DOMAIN drive
                     /\ drive[raw].version = x.sum \/ drive[raw].run > drive[path].run \/ raw \in unconfirmed
                /\ x.text =>
                     /\ text \in DOMAIN drive
                     /\ \/ drive[text].of = x.of \/ SharesTitle(x.of)
                        \/ drive[text].run > drive[path].run \/ text \in unconfirmed

(* What is found under the name of the archive is written to its end: the  *)
(* full one holds the file of every record that has one, with the sum      *)
(* recorded; the one for GoodNotes nothing but PDFs outside the general    *)
(* sections, and of those the file of every record or, when no PDF was     *)
(* recorded, every one of the semester's courses.                          *)
ArchiveIsWhole ==
    archive # Null =>
        LET Holds(x) == x.of \in DOMAIN archive.raw /\ archive.raw[x.of] = x.sum
            wanted == {r \in Resources : r \in Pdfs /\ SectionOf[r] \notin GeneralSections}
        IN  IF archive.profile # "goodnotes"
            THEN \A x \in archive.records : x.sum # Null => Holds(x)
            ELSE /\ DOMAIN archive.raw \subseteq wanted
                 /\ IF \E x \in archive.records : x.of \in Pdfs
                    THEN \A x \in archive.records : x.of \in wanted => Holds(x)
                    ELSE \A c \in CoursesOf(archive.s) : ResourcesOf(c) \cap wanted \subseteq DOMAIN archive.raw
=============================================================================
