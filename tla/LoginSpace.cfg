SPECIFICATION Spec
CONSTANTS
    u = u
    v = v
    Words <- MCWords
    Usernames <- MCNames
    Instances = {i1}
    Passwords = {p}
    ShortPasswords = {}
    Empty = none
    MaxLines = 2
    WriteFaults = FALSE
INVARIANTS
    ToldCanLogin
