\* Two announcements at a time on three players, one of them missing and one of unknown volume.
SPECIFICATION Spec
CONSTANTS
    Players = {"kitchen", "attic", "gone"}
    Absent = {"gone"}
    Untold = {"attic"}
    Levels = {"low", "loud"}
    NoLevel = NoLevel
    Fallback = "loud"
    Attended = {"kitchen"}
    Tasks = {t1, t2}
    Requests <- MCRequests
    NoRequest = NoRequest
    MaxUnderway = 2
SYMMETRY Symmetry
INVARIANTS
    TypeOK
    PlayersLeftAsFound
