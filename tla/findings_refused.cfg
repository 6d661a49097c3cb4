\* A run of the AI that cannot be stored.
SPECIFICATION Spec
CONSTANTS
    None = None
    TitleA = TitleA
    TitleB = TitleB
    Texts = {"secret", "comment", "key"}
    Titles <- TwoTitles
    Alike <- Synonyms
    StaticLike <- TwoTitles
    Profiles <- SomeOff
    Window = 3
    ReopenDistance = 1
    LineSlack = 0
    MaxLines = 3
    MaxEdits = 2
    MaxScans = 3
    MaxRuns = 3
    MaxSteps = 8
SYMMETRY Symmetry
CHECK_DEADLOCK FALSE
INVARIANT
    CarriedStorable
