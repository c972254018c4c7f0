SPECIFICATION Spec
CONSTANTS
    h1 = h1
    h2 = h2
    Hup = {h1, h2}
PROPERTY NoHandoverOnceStopping
CHECK_DEADLOCK FALSE
