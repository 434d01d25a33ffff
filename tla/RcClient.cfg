SPECIFICATION FairSpec
CONSTANTS
    r1 = r1
    r2 = r2
    bad = bad
    NoRequest = NoRequest
    Requests <- MCRequests
    BadVerbs <- MCBadVerbs
    NPorts = 2
    MaxChanges = 2
INVARIANTS
    TypeOK
    AtMostTwice
    HonestOutcome
    ReplyMatches
    LinkCoherent
PROPERTIES
    GenerationCounts
    ImplementsRemoteCallFairly
    EveryCallReturns
    Reconnects
