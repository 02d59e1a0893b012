SPECIFICATION Spec
CONSTANTS
    title = title
    Fields = {title}
    Incidents = {i1, i2}
    NoIncident = NoIncident
    Threads = {1, 2, 3}
    Texts <- ReadTexts
    MaxQueue = 2
    MaxRequests = 4
    MaxRestarts = 1
INVARIANTS
    SuggestionsSurvive
    OnlyReattachedShotsLoseBytes
PROPERTIES
    EveryRequestEnds
CHECK_DEADLOCK FALSE
