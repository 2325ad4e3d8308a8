\* Two keys, one e-mail and two passwords, so that the same client may repeat
\* and another may come between; two requests at a time.
SPECIFICATION Spec
CONSTANTS
    Keys = {k1, k2}
    Emails = {e1}
    Passwords = {p1, p2}
    Handlers = {h1, h2}
    NULL = NULL
SYMMETRY Symmetry
INVARIANTS
    OneAccountPerEmail
    RegisteredCanLogIn
    RefusedIsTaken
