SPECIFICATION Spec
CONSTANTS
    State = {}
    NoState = NoState
    PageDelta <- BackOne
    Outcome <- CommitOrRaise
    MaxEntries = 2
    MaxPosts = 1
    MaxStrays = 1
INVARIANTS
    IntentsReturned
