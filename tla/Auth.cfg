SPECIFICATION Spec
CONSTANTS
    u = u
    v = v
    Words <- MCWords
    Usernames <- MCNames
    Instances = {i1, i2}
    Passwords = {p, q}
    ShortPasswords = {}
    Empty = none
    MaxLines = 3
    WriteFaults = TRUE
INVARIANTS
    TypeOK
    NeedsRegistration
PROPERTIES
    PasswordStays
