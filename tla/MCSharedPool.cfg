SPECIFICATION FairSpec
CONSTANTS
    Threads = {t1, t2}
    NoThread = NoThread
    Words <- MCWords
    Hash <- MCHash
    InitBuckets = 2
    Loading = 75
    Percent = 100
INVARIANTS RaceFree Canonical GetCorrect Findable
PROPERTIES IndicesStable CallsReturn Linearizable
