SPECIFICATION Spec
CONSTANTS
    ana = ana  bruno = bruno  a1 = a1  a2 = a2  b1 = b1  layout = layout  chat = chat
    None = None
    Users <- MCUsers
    Tokens <- MCTokens
    OwnerOf <- MCOwnerOf
    Subscribers = {layout}
    Layout = layout
    SocketIds = {1, 2}
    Codes = {"unauthorized"}
    MaxFlight = 1
    MinDelay = 1
    MaxDelay = 2
    MaxGeneration = 3
    MaxReloads = 0
PROPERTIES SessionEndsForCause
CHECK_DEADLOCK FALSE
