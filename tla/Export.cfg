\* Two commands, two semesters, one of them with two PDFs of one title, the other
\* with a file that is none.
SPECIFICATION ExportSpec
CONSTANTS
    FS = FS
    HS = HS
    a = a
    b = b
    r1 = r1
    r2 = r2
    r3 = r3
    t = t
    u = u
    topic = topic
    general = general
    Null = Null
    Semesters = {FS, HS}
    CurrentTerm = FS
    Courses = {a, b}
    Resources = {r1, r2, r3}
    SemesterOf <- MCSemesterOf
    CourseOf <- MCCourseOf
    TitleOf <- MCTitleOf
    SectionOf <- MCSectionOf
    Pdfs = {r1, r2}
    GeneralSections = {general}
    Commands <- MCCommands
    MaxCommands = 2
    MaxEdits = 1
    MaxFaults = 1
INVARIANTS
    CompleteMeansWhole
    RecordsMatchFiles
    ArchiveIsWhole
CHECK_DEADLOCK FALSE
