SPECIFICATION Spec
CONSTANTS
    ana = ana  bruno = bruno  a1 = a1  a2 = a2  b1 = b1  layout = layout  chat = chat
    None = None
    Users <- MCUsers
    Tokens <- MCTwoTokens
    OwnerOf <- MCOwnerOf
    Subscribers = {layout, chat}
    Layout = layout
    SocketIds = {1, 2}
    Codes = {"unauthorized", "session_expired"}
    MaxFlight = 1
    MinDelay = 1
    MaxDelay = 2
    MaxGeneration = 3
    MaxReloads = 1
INVARIANTS TypeOK CacheIsOwn OneDriver NoOrphan StateTellsTruth SocketIsOwn
PROPERTIES ProfileIsOwn
CHECK_DEADLOCK FALSE
