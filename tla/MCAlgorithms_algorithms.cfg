CONSTANTS
    Ids = {"a", "b"}
    MaxFields = 2
    Absent = Absent
    ByteBase = 4
    TextBase = 3
    Multicodec <- TwoBytes
    KeyLength = 2
    MaxBytes = 3
    Calls <- TwoCalls
    ApiKeys = {"key", "old"}
    None = None
    Processes = {p1, p2}
    Words = {1, 3, 5, 9}
    Bits = 5
    SmallPrimes = {3}
    Rounds = 1
    Exponents = {3, 5}
    MaxDraws = 5
    Unset = Unset
    Queries <- QueriesAroundTheBounds
    DefaultLimit = 3
    MaxLimit = 4
    MaxRequests = 9
SPECIFICATION MCFairSpec
INVARIANTS
    FormTypeOK
    RoundTrip
    PollAndWebhookAgree
    DidTypeOK
    OneDidPerKey
    ServedAsSigned
    WitnessesTell
    PairDecrypts
    KeysAgree
    TypeOK
    NoGaps
PROPERTIES
    LastPageCompletes
    WalkEnds
CHECK_DEADLOCK FALSE
