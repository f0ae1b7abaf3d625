SPECIFICATION Spec
CONSTANTS
    Handlers = {h1, h2}
    Notes = {n1}
    MaxFailures = 2
    MaxDeclines = 2
VIEW View
CONSTRAINT OneAtATimeForLeads
INVARIANTS
    TypeOK
    HoldReachesTeam
    TeamIsToldOnce
    NotesAreKept
PROPERTIES
    HoldEndsWithANote
    ConnectHolds
