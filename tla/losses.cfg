SPECIFICATION Spec
CONSTANTS
    t1 = t1
    t2 = t2
    d1 = d1
    e1 = e1
    NoTask = NoTask
    NumFeatures = 2
    Tasks = {t1}
    Workers = {d1, e1}
    TypeOf <- OneOfEach
    FeatureChoices <- AnyFeatures
    Budget <- LossFaults
    WithCallback = {t1}
    PromptMarks = FALSE
CHECK_DEADLOCK FALSE
INVARIANTS
    ReadyNothingWaiting
    BuiltOnDiarization
