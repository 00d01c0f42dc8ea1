SPECIFICATION Spec
CONSTANTS
    ana = ana  bruno = bruno  a1 = a1  a2 = a2  b1 = b1  layout = layout  chat = chat
    None = None
    Users <- MCUsers
    Tokens = {a1}
    OwnerOf <- MCOwnerOf
    Subscribers = {layout, chat}
    Layout = layout
    SocketIds = {1, 2}
    Codes = {"unauthorized", "user_banned"}
    MaxFlight = 1
    MinDelay = 1
    MaxDelay = 4
    MaxGeneration = 3
    MaxReloads = 0
PROPERTIES RejectedSessionEnds StaysConnected
CHECK_DEADLOCK FALSE
