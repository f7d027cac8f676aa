SPECIFICATION Spec
CONSTANTS
    State = {}
    NoState = NoState
    PageDelta <- BackOne
    Outcome <- AnyOutcome
    MaxEntries = 2
    MaxPosts = 1
    MaxStrays = 2
INVARIANTS
    TypeOK
    IndexDescribesDocument
    FormStateOwn
    FlushedIntentsDie
    FlushBalanced
PROPERTIES
    PopStateToOwner
