\* Two edits, three scans, three runs of the AI.
SPECIFICATION Spec
CONSTANTS
    None = None
    TitleA = TitleA
    TitleB = TitleB
    Texts = {"secret", "comment", "key"}
    Titles <- TwoTitles
    Alike <- Synonyms
    StaticLike <- TwoTitles
    Profiles <- SomeOff
    Window = 3
    ReopenDistance = 1
    LineSlack = 0
    MaxLines = 3
    MaxEdits = 2
    MaxScans = 3
    MaxRuns = 3
    MaxSteps = 8
SYMMETRY Symmetry
CHECK_DEADLOCK FALSE
INVARIANTS
    
    UniqueHitsReported
    NeverDropped
    ReportedStorable
    HistoryWhole
PROPERTIES
    RerunKeeps
