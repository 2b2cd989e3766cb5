SPECIFICATION Spec
CONSTANTS
    BufferSize = 3
    SizeLimit = 5
    Ratio = 2
    MaxBody = 7
    rng_len = 5
    rng_tap = 2
    WordSize = 3
    IntSize = 32
    Draws <- MCDraws
    Input <- MCInput
INVARIANTS
    PlansVisitEveryEntryOnce
    KeyedPlansKeepEveryNode
    BatchPlansFollowTheirKeys
    ReadsBeforeWritesAreRouted
    BodiesAreDecoded
    AnnouncedCodingsAreMeant
    AnswersAreReadExactly
    GeneratorIsSound
    StreamsAreComplete
PROPERTIES
    LoopsEnd
CHECK_DEADLOCK FALSE
