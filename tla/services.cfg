SPECIFICATION Spec
CONSTANTS
    Speakers = {alice, bob}
    Predictions <- SomeRegions
    FileLength = 24
    ShortRegion = 4
    NeighbourGap = 8
    MinSpeech = 1
    MicroPause = 4
    Documents <- SomeDocuments
    MaxJobs = 3
    SttBatchSize = 2
    Transcripts <- SomeTranscripts
    LongSegment = 4
    Padding = 1
    EmotionBatchSize = 2
CHECK_DEADLOCK FALSE
INVARIANTS
    TypeOK
    RunsMerged
    NoVoiceLost
    SilenceIsNoise
    NoiseOnlyOverNestedSpeech
    TextsAreOwn
    EverySpeechTranscribed
    FailsOnlyOnFullBatches
    ChunksCoverSegment
    OneEmotionEach
    EmotionsOwnUnlessShifted
PROPERTY PassesShrink
