SPECIFICATION Spec
CONSTANTS
    t1 = t1
    t2 = t2
    d1 = d1
    e1 = e1
    NoTask = NoTask
    NumFeatures = 2
    Tasks = {t1}
    Workers = {d1, e1}
    TypeOf <- OneOfEach
    FeatureChoices <- JustDiarization
    Budget <- NoFaults
    WithCallback = {}
    PromptMarks = FALSE
CHECK_DEADLOCK FALSE
INVARIANT FinalResultWhole
