SPECIFICATION FairSpec
CONSTANTS
    t1 = t1
    t2 = t2
    d1 = d1
    e1 = e1
    NoTask = NoTask
    NumFeatures = 2
    Tasks = {t1}
    Workers = {d1}
    TypeOf <- OneDiarizer
    FeatureChoices <- JustDiarization
    Budget <- NoFaults
    WithCallback = {t1}
    PromptMarks = TRUE
CHECK_DEADLOCK FALSE
PROPERTY CallbackQueued
