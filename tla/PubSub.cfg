SPECIFICATION FairManagerSpec
CONSTANTS
    p1 = p1
    p2 = p2
    p3 = p3
    Publishers = {p1, p2, p3}
    Flushes = {p1, p2}
INVARIANTS
    TypeOK
    PublishFindsClient
    HealthyMeansListening
    NothingLeftOpen
    NothingOutlivesTransport
    FlushesFinish
PROPERTIES
    CallsEnd
