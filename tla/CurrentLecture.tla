--------------------------- MODULE CurrentLecture ---------------------------
(***************************************************************************)
(* How the command line finds the current lecture, the course it belongs   *)
(* to and its material, and how it resolves the selectors users type:      *)
(* internal/cli/current_lecture.go and resolve.go, as operators.           *)
(*                                                                         *)
(* A time is a number.  A title is abstracted to how it compares with a    *)
(* lecture's summary, a file's name to its kind.  A file's upload date is  *)
(* a number, Nil when Moodle shows none, or Unparsable: such a text is    *)
(* shown but not sorted by.                                                *)
(***************************************************************************)
EXTENDS Integers, Sequences, FiniteSets, Functions

CONSTANTS Nil, Unparsable, DayLength

ASSUME DayLengthAssumption == DayLength \in Nat \ {0}
ASSUME DatesAssumption == {Nil, Unparsable} \cap Int = {}

(* The elements of a finite set from the one that precedes all others on,  *)
(* and the elements of a sequence at some positions, in order.             *)
Ranked(S, Precedes(_, _)) ==
    [n \in 1..Cardinality(S) |-> CHOOSE x \in S : Cardinality({y \in S : Precedes(y, x)}) = n - 1]

InOrder(positions) == Ranked(positions, <)

Picked(s, positions) ==
    LET order == InOrder(positions) IN [n \in DOMAIN order |-> s[order[n]]]

-----------------------------------------------------------------------------
(* The lecture.  An event is [start, end, summary], a summary a number.    *)

SameLocalDay(left, right) == left \div DayLength = right \div DayLength

Before(left, right) ==
    \/ left.start < right.start
    \/ left.start = right.start /\ left.summary < right.summary

Earliest(events) == CHOOSE e \in events : \A f \in events : ~Before(f, e)

SelectCurrentLectureEvent(events, now) ==
    LET active == {e \in events : e.start <= now /\ now <= e.end}
        later == {e \in events : e.start > now /\ SameLocalDay(e.start, now)}
    IN  IF active # {} THEN Earliest(active)
        ELSE IF later # {} THEN Earliest(later)
        ELSE Nil

-----------------------------------------------------------------------------
(* The course.  A comparison is [relation, shared]: a title that is equal  *)
(* to the summary, that contains it or is contained in it, or that shares  *)
(* a number of words with it.                                              *)

CandidateScore(comparison) ==
    IF comparison.relation = "equal" THEN 100
    ELSE IF comparison.relation = "contains" THEN 75
    ELSE 10 * comparison.shared

ScoreCourseMatch(fullname, shortname) ==
    LET left == CandidateScore(fullname)
        right == CandidateScore(shortname)
    IN  IF left >= right THEN left ELSE right

Leads(scores, c) == \A d \in DOMAIN scores \ {c} : scores[d] < scores[c]

MatchCourseForLecture(scores) ==
    IF \E c \in DOMAIN scores : scores[c] >= 20 /\ Leads(scores, c)
    THEN CHOOSE c \in DOMAIN scores : scores[c] >= 20 /\ Leads(scores, c)
    ELSE Nil

-----------------------------------------------------------------------------
(* The material.  A resource is [id, type, kind, pdf, uploaded, index].    *)

ClassifyCurrentLectureResource(words) ==
    IF "solution" \in words THEN "solution"
    ELSE IF "worksheet" \in words THEN "worksheet"
    ELSE IF "lecture" \in words THEN "lecture"
    ELSE "other"

Dated(r) == r.uploaded \in Int

Outranks(l, r) ==
    \/ Dated(l) /\ ~Dated(r)
    \/ Dated(l) /\ Dated(r) /\ l.uploaded > r.uploaded
    \/ /\ Dated(l) <=> Dated(r)
       /\ Dated(l) => l.uploaded = r.uploaded
       /\ l.index < r.index

FileResources(resources) == {r \in resources : r.type = "resource"}

RankCurrentLectureResources(resources) == Ranked(FileResources(resources), Outranks)

TopRanked(S) == CHOOSE r \in S : \A q \in S \ {r} : Outranks(r, q)

SelectBestCurrentLectureMaterial(files) ==
    LET pdfs == {r \in files : r.pdf}
        lectures == {r \in pdfs : r.kind = "lecture"}
        Shown(S) == {r \in S : r.uploaded # Nil}
    IN  IF Shown(lectures) # {} THEN TopRanked(Shown(lectures))
        ELSE IF lectures # {} THEN TopRanked(lectures)
        ELSE IF Shown(pdfs) # {} THEN TopRanked(Shown(pdfs))
        ELSE IF pdfs # {} THEN TopRanked(pdfs)
        ELSE IF files # {} THEN TopRanked(files)
        ELSE Nil

(* What a lecture's lookup returns: its course, its material, the files in *)
(* the order shown.  "resourcesFail" is a warning, not an error.           *)
BuildCurrentLectureResult(course, resources, resourcesFail) ==
    LET files == FileResources(resources)
    IN  IF course = Nil \/ resourcesFail
        THEN [course |-> course, material |-> Nil, order |-> <<>>]
        ELSE [course |-> course,
              material |-> SelectBestCurrentLectureMaterial(files),
              order |-> RankCurrentLectureResources(resources)]

(* What "open current-lecture" opens: the material, else the course.       *)
CurrentLectureOpenTarget(result) ==
    IF result.material # Nil THEN result.material.id ELSE result.course

-----------------------------------------------------------------------------
(* Selectors.  An input is [form, value]: "empty", "explicit" (an id in    *)
(* brackets), "number", "current", or "name".  Answers are ids or Nil.    *)

IsCurrentSelector(input) ==
    input.form = "current" \/ (input.form = "number" /\ input.value = 0)

Listed(input, ids) == input.form = "number" /\ input.value \in Range(ids)

ResolveName(input, ids, names) ==
    LET matches == {i \in DOMAIN ids : input.value \in names[i]}
    IN  IF \E i \in matches : matches = {i} THEN ids[CHOOSE i \in matches : TRUE] ELSE Nil

(* Ids and names are sequences in the order of the list; a name entry is   *)
(* the set of names its course answers to.  A number is an id before it is *)
(* an index, and an id in brackets is taken as it is.                      *)
ResolveCourseID(ids, names, input, current) ==
    IF input.form = "explicit" \/ Listed(input, ids) THEN input.value
    ELSE IF IsCurrentSelector(input) THEN current
    ELSE IF input.form = "number" /\ input.value \in DOMAIN ids THEN ids[input.value]
    ELSE IF input.form = "name" THEN ResolveName(input, ids, names)
    ELSE Nil

(* The file "current" stands for: the current lecture's material if it is  *)
(* listed, else the first of the lectures, else the first of the files.    *)
CurrentResource(resources, material) ==
    LET files == FileResources(resources)
        lectures == {r \in files : r.kind = "lecture"}
        known == {r \in resources : r.id = material}
    IN  IF known # {} THEN CHOOSE r \in known : TRUE
        ELSE IF lectures # {} THEN TopRanked(lectures)
        ELSE IF files # {} THEN TopRanked(files)
        ELSE Nil

(* The files of a course in the order shown: the ranked ones first, then   *)
(* the others as Moodle lists them.                                        *)
Files(listed) == Picked(listed, {i \in DOMAIN listed : listed[i].type = "resource"})

OrderedFileResources(listed, order) ==
    LET files == Files(listed)
        ranked == Picked(order, {i \in DOMAIN order : order[i] \in Range(files)})
    IN  ranked \o Picked(files, {i \in DOMAIN files : files[i] \notin Range(ranked)})

WithID(listed, id) ==
    LET known == {r \in Range(listed) : r.id = id}
    IN  IF known = {} THEN Nil ELSE CHOOSE r \in known : TRUE

Named(listed, name) ==
    LET matches == {i \in DOMAIN listed : listed[i].name = name}
    IN  IF \E i \in matches : matches = {i} THEN listed[CHOOSE i \in matches : TRUE] ELSE Nil

ResolveResource(listed, input, material, order) ==
    IF input.form = "explicit" \/ WithID(listed, input.value) # Nil THEN WithID(listed, input.value)
    ELSE IF IsCurrentSelector(input) THEN CurrentResource(Range(listed), material)
    ELSE IF input.form = "number"
    THEN LET files == OrderedFileResources(listed, order)
         IN  IF input.value \in DOMAIN files THEN files[input.value] ELSE Nil
    ELSE IF input.form = "name" THEN Named(listed, input.value)
    ELSE Nil

MaterialOf(course, result) ==
    IF result.course # course \/ result.material = Nil THEN Nil ELSE result.material.id

(* The resource a command is about: the current lecture counts only for    *)
(* its own course, and only if it has a material.                          *)
ResolveResourceWithOptions(course, listed, input, result) ==
    LET material == MaterialOf(course, result)
    IN  ResolveResource(listed, input, material, IF material = Nil THEN <<>> ELSE result.order)

(* The course and the material of a pair of selectors; the course alone if *)
(* its resources cannot be listed, nothing if either is not found.  With   *)
(* the current course its files are ranked, with another they are not.     *)
BuildSelectedCourseResult(ids, names, listing, courseInput, resourceInput, result, resourcesFail) ==
    LET course == ResolveCourseID(ids, names, courseInput, result.course)
        listed == listing[course]
        order == IF course = result.course THEN RankCurrentLectureResources(Range(listed))
                 ELSE Files(listed)
        chosen == ResolveResource(listed, resourceInput, MaterialOf(course, result), order)
    IN  IF course \notin Range(ids) THEN Nil
        ELSE IF resourcesFail THEN [course |-> course, material |-> Nil, order |-> <<>>]
        ELSE IF chosen = Nil THEN Nil
        ELSE [course |-> course, material |-> chosen, order |-> order]
=============================================================================
