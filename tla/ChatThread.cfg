SPECIFICATION Spec
CONSTANTS
    None = None
    Sends = {1, 2}
    Incoming = {1}
    Platforms = {"web", "phone"}
    Page = 3
INVARIANTS NothingFalselySent NothingTwice RestShowsServer
PROPERTIES PendingKept BadgeSettles
