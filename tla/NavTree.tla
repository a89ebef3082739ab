------------------------------ MODULE NavTree ------------------------------
(***************************************************************************)
(* The tree the command line navigates: internal/cli/nav_service.go, the   *)
(* children of a node as a function of what Moodle and the timetable hold. *)
(*                                                                         *)
(* A node's key is the sequence its text is put together from.  Events are *)
(* numbered within their list, so today and every week have an event 0.    *)
(***************************************************************************)
EXTENDS CurrentLecture

CONSTANTS
    Courses,    \* the courses, in Moodle's order
    Semester,   \* the semester of a course, a number, 0 for none
    Resources,  \* the resources of a course, in Moodle's order
    Weeks,      \* the weeks of the timetable, in order
    Calendar,   \* the summaries of a week's events, in order
    Scores,     \* how a summary scores against each course
    Now

(* What the program reads from Moodle and the calendar: lists are          *)
(* sequences, a week's events have summaries, and a summary is compared    *)
(* with every course.                                                      *)
ASSUME SchoolAssumption ==
    /\ Courses \in Seq(Range(Courses)) /\ Nil \notin Range(Courses)
    /\ Weeks \in Seq(Range(Weeks))
    /\ \A c \in Range(Courses) :
          Resources[c] \in Seq(Range(Resources[c])) /\ Nil \notin Range(Resources[c])
    /\ \A s \in DOMAIN Scores : s \in Nat /\ DOMAIN Scores[s] = Range(Courses)
    /\ \A w \in Range(Weeks) : Calendar[w] \in Seq(DOMAIN Scores)

Node(key, kind) ==
    [key |-> key, kind |-> kind, course |-> Nil, semester |-> Nil, section |-> Nil,
     resource |-> Nil, byCurrent |-> FALSE, week |-> Nil]

Root == Node(<<"root">>, "home")

(* Go's navNode{}, which comes with an error.                              *)
NoNode == Node(<<>>, "none")

Openable(node) == node.kind \in {"course", "resource"}

Printable(node) == node.kind = "resource" /\ node.resource.type = "resource"

NodeMayHaveChildren(node) == node.kind # "resource"

NodeSupportsAsyncPreview(node) == Printable(node) \/ node.kind = "course"

(* The positions at which a sequence shows a value for the first time, and *)
(* those at which it changes.                                              *)
FirstPositions(s) == {i \in DOMAIN s : \A j \in 1..(i - 1) : s[j] # s[i]}

ChangePositions(s) == {i \in DOMAIN s : i = 1 \/ s[i] # s[i - 1]}

HomeChildren ==
    << Node(<<"current">>, "current"), Node(<<"today">>, "today"),
       Node(<<"semesters">>, "semesters"), Node(<<"timetable">>, "timetable") >>

CourseOf(summary) == MatchCourseForLecture(Scores[summary])

EventKey(i) == <<"event", i>>

(* Neighbouring events of one summary are one node.                        *)
GroupCalendarEvents(summaries) ==
    LET starts == InOrder(ChangePositions(summaries))
    IN  [i \in DOMAIN starts |->
            [Node(EventKey(i), "event") EXCEPT !.course = CourseOf(summaries[starts[i]])]]

TimetableWeekChildren ==
    [i \in DOMAIN Weeks |-> [Node(<<"week", Weeks[i]>>, "week") EXCEPT !.week = Weeks[i]]]

(* The newest semester first; a course without one is in semester 0.       *)
SemesterChildren ==
    LET newestFirst == Ranked({Semester[c] : c \in Range(Courses)}, >)
    IN  [i \in DOMAIN newestFirst |->
            [Node(<<"semester", newestFirst[i]>>, "semester") EXCEPT !.semester = newestFirst[i]]]

CourseListChildren(semester) ==
    LET here == Picked(Courses, {i \in DOMAIN Courses : Semester[Courses[i]] = semester})
    IN  [i \in DOMAIN here |->
            [Node(<<"course", here[i]>>, "course") EXCEPT !.course = here[i]]]

SectionChildren(node) ==
    LET sections == [i \in DOMAIN Resources[node.course] |-> Resources[node.course][i].section]
        first == InOrder(FirstPositions(sections))
    IN  IF node.course = Nil THEN <<>>
        ELSE [i \in DOMAIN first |->
                 [Node(<<"section", node.key, i>>, "section")
                     EXCEPT !.course = node.course, !.section = sections[first[i]]]]

(* result is what the service holds of the current lecture, Nil before.   *)
CurrentSortedResources(course, listed, result) ==
    IF result = Nil THEN listed
    ELSE IF result.course # course THEN listed
    ELSE LET files == OrderedFileResources(listed, result.order)
         IN  files \o Picked(listed, {i \in DOMAIN listed : listed[i] \notin Range(files)})

ItemChildren(node, result) ==
    LET listed == Resources[node.course]
        here == Picked(listed, {i \in DOMAIN listed : node.section \in {Nil, listed[i].section}})
        shown == IF node.byCurrent THEN CurrentSortedResources(node.course, here, result) ELSE here
    IN  [i \in DOMAIN shown |->
            [Node(<<"item", node.key, i, shown[i].id>>, "resource")
                EXCEPT !.course = node.course, !.resource = shown[i]]]

CurrentChildren(result) ==
    LET items == [Node(<<"current-items">>, "items") EXCEPT !.course = result.course, !.byCurrent = TRUE]
        sections == [Node(<<"current-sections">>, "sections") EXCEPT !.course = result.course]
        material == [Node(<<"current-material", result.material.id>>, "resource")
                        EXCEPT !.course = result.course, !.resource = result.material]
    IN  IF result.course = Nil THEN <<>>
        ELSE IF result.material = Nil THEN << items, sections >>
        ELSE << material, items, sections >>

(* The lecture of a day whose events are [start, end, summary].            *)
CurrentResult(events, resourcesFail) ==
    LET event == SelectCurrentLectureEvent(Range(events), Now)
        course == IF event = Nil THEN Nil ELSE CourseOf(event.summary)
    IN  BuildCurrentLectureResult(course, IF course = Nil THEN {} ELSE Range(Resources[course]), resourcesFail)

Summaries(events) == [i \in DOMAIN events |-> events[i].summary]

(* today and current are what the service holds of today's events and of   *)
(* the current lecture.                                                    *)
Children(node, today, current) ==
    IF node.kind = "home" THEN HomeChildren
    ELSE IF node.kind = "current" THEN CurrentChildren(current)
    ELSE IF node.kind = "today" THEN GroupCalendarEvents(Summaries(today))
    ELSE IF node.kind = "timetable" THEN TimetableWeekChildren
    ELSE IF node.kind = "week" THEN GroupCalendarEvents(Calendar[node.week])
    ELSE IF node.kind = "semesters" THEN SemesterChildren
    ELSE IF node.kind = "semester" THEN CourseListChildren(node.semester)
    ELSE IF node.kind \in {"course", "sections", "event"} THEN SectionChildren(node)
    ELSE IF node.kind \in {"section", "items"} THEN ItemChildren(node, current)
    ELSE <<>>

(* What the service fetches and keeps for the children of a node, in the   *)
(* order it is asked for.                                                  *)
Needs(node) ==
    IF node.kind = "current" THEN << <<"current">>, <<"courses">> >>
    ELSE IF node.kind = "today" THEN << <<"today">>, <<"courses">> >>
    ELSE IF node.kind \in {"week", "semesters", "semester"} THEN << <<"courses">> >>
    ELSE IF \/ node.kind \in {"course", "sections", "section", "items"}
            \/ node.kind = "event" /\ node.course # Nil
    THEN << <<"resources", node.course>> >>
    ELSE <<>>

-----------------------------------------------------------------------------
(* Paths, as "moodle nav" takes them.  A segment has a form: an "index",   *)
(* with its value, or a text, which matches the keys in exact as it is and *)
(* those in slug as a slug.  A text may be "current", or a "collection"    *)
(* that may be left out (value is the kind of node it may follow); where   *)
(* it is neither, it is a "title" like every other.                        *)

FirstWith(children, keys) ==
    LET here == Picked(children, {i \in DOMAIN children : children[i].key \in keys})
    IN  IF here = <<>> THEN NoNode ELSE here[1]

MatchNavChildFromZero(children, segment) ==
    IF segment.form = "index" /\ segment.value + 1 \in DOMAIN children THEN children[segment.value + 1] ELSE NoNode
MatchNavChild(children, segment) ==
    IF segment.form = "index"
    THEN IF segment.value \in DOMAIN children THEN children[segment.value] ELSE NoNode
    ELSE IF FirstWith(children, segment.exact) # NoNode THEN FirstWith(children, segment.exact)
    ELSE FirstWith(children, segment.slug)

CurrentChild(node, children, current) ==
    LET material == Picked(children, {i \in DOMAIN children :
                        children[i].resource # Nil /\ children[i].resource = current.material})
    IN  IF node.kind = "items" /\ material # <<>> THEN material[1] ELSE children[1]

StepAlong(node, segment, today, current) ==
    LET children == Children(node, today, current)
    IN  IF node = NoNode THEN NoNode
        ELSE IF segment.form = "collection" /\ segment.value = node.kind THEN node
        ELSE IF /\ segment.form = "current" /\ children # <<>>
                /\ node.kind = "current" \/ node.byCurrent
        THEN CurrentChild(node, children, current)
        ELSE MatchNavChild(children, segment)

ResolvePath(path, today, current) ==
    LET at[n \in 0..Len(path)] ==
            IF n = 0 THEN Root ELSE StepAlong(at[n - 1], path[n], today, current)
    IN  at[Len(path)]
=============================================================================
