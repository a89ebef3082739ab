---------------------------- MODULE MCTerminal ----------------------------
(* A small Moodle and two timetables of the day for TLC. *)
EXTENDS Terminal

File(id, section, kind, index) ==
    [id |-> id, type |-> "resource", kind |-> kind, pdf |-> TRUE, uploaded |-> Nil,
     index |-> index, section |-> section]
Link(id, section, index) == [File(id, section, "other", index) EXCEPT !.type = "url"]

MCCourses == << "math", "logic" >>
MCSemester == [math |-> 24, logic |-> 25]
MCResources == [math |-> << File("m1", "s1", "lecture", 0) >>,
                logic |-> << File("l1", "s1", "lecture", 0) >>]
MCWeeks == << "w1" >>
MCCalendar == [w1 |-> << 2 >>]
MCScores == [s \in 1..2 |-> [math |-> IF s = 1 THEN 100 ELSE 0, logic |-> IF s = 2 THEN 100 ELSE 0]]
Lecture(summary) == << [start |-> 9, end |-> 11, summary |-> summary] >>
MCCalendars == {Lecture(1), Lecture(2)}
MCFilters == {{"course", "resource", "section"}}
MCFolders == [top |-> << "home" >>, home |-> << "down" >>, down |-> <<>>]
=============================================================================
