SPECIFICATION FairSpec
CONSTANTS
    t1 = t1
    t2 = t2
    d1 = d1
    e1 = e1
    NoTask = NoTask
    NumFeatures = 2
    Tasks = {t1, t2}
    Workers = {d1, e1}
    TypeOf <- OneOfEach
    FeatureChoices <- DiarizationOrBoth
    Budget <- NoFaults
    WithCallback = {}
    PromptMarks = TRUE
CHECK_DEADLOCK FALSE
PROPERTIES
    EveryTaskSettles
    PollAnswered
