SPECIFICATION Spec
CONSTANTS
    ana = ana  bruno = bruno  a1 = a1  a2 = a2  b1 = b1
    None = None
    Users <- MCUsers
    Tokens = {a1, b1}
    OwnerOf <- MCOwnerOf
    Flows = {1, 2}
    MaxFlight = 2
    Codes = {"unauthorized", "session_expired"}
INVARIANTS TypeOK ClientFollowsScreen RestartKeepsSession ProfileIsOwn
PROPERTIES PushKept
