\* A terminal over two courses, one lecture today and one week.
SPECIFICATION TerminalSpec
CONSTANTS
    Nil = Nil
    Unparsable = Unparsable
    Everything = Everything
    DayLength = 24
    Now = 10
    Courses <- MCCourses
    Semester <- MCSemester
    Resources <- MCResources
    Weeks <- MCWeeks
    Calendar <- MCCalendar
    Scores <- MCScores
    Calendars <- MCCalendars
    Filters <- MCFilters
    Folders <- MCFolders
    HomeFolder = "home"
    MaxMoves = 4
    MaxOthers = 1
INVARIANTS
    SelectionVisible
    PathsAgree
    BusyMeansOutstanding
PROPERTY
    ActsOnHighlighted
CHECK_DEADLOCK FALSE
