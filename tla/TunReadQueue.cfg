SPECIFICATION FairSpec
CONSTANTS
    Names = {p, q}
    Sizes = {1, 3}
    Limit = 4
    PauseBytes = 5
    ResumeBytes = 2
    Nothing = Nothing
INVARIANT RoomWhileReading
PROPERTIES IsFifo ReadingResumes
