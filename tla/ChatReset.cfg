SPECIFICATION Spec
CONSTANTS
    None = None
    Sends = {1, 2}
    Incoming = {}
    Platforms = {"web", "phone"}
    Page = 3
PROPERTIES SiblingsStay
