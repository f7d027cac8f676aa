SPECIFICATION Spec
CONSTANTS
    State = {}
    NoState = NoState
    PageDelta <- TwoForward
    Outcome <- CommitOnly
    MaxEntries = 3
    MaxPosts = 0
    MaxStrays = 0
INVARIANTS
    IndexInRange
