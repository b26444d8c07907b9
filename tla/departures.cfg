SPECIFICATION FairSpec
CONSTANTS
    t1 = t1
    t2 = t2
    d1 = d1
    e1 = e1
    NoTask = NoTask
    NumFeatures = 2
    Tasks = {t1, t2}
    Workers = {d1}
    TypeOf <- OneDiarizer
    FeatureChoices <- JustDiarization
    Budget <- ExitOnly
    WithCallback = {}
    PromptMarks = FALSE
CHECK_DEADLOCK FALSE
PROPERTIES
    GoneWorkersForgotten
