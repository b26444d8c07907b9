SPECIFICATION Spec
CONSTANTS
    t1 = t1
    t2 = t2
    d1 = d1
    e1 = e1
    NoTask = NoTask
    NumFeatures = 2
    Tasks = {t1}
    Workers = {d1, e1}
    TypeOf <- OneOfEach
    FeatureChoices <- OnlyBoth
    Budget <- CrashOnly
    WithCallback = {}
    PromptMarks = TRUE
CHECK_DEADLOCK FALSE
INVARIANT FeaturesInOrder
