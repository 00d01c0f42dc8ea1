SPECIFICATION Spec
CONSTANTS
    None = None
    Sends = {1, 2}
    Incoming = {1}
    Platforms = {"web", "phone"}
    Page = 1
INVARIANTS SentStays
