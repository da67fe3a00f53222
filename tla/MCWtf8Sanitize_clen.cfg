\* Spec 4.B.5 read against the code: one surrogate pair in WTF-8.
CONSTANTS
    Alphabet = {128, 160, 176, 237}
    MaxLen = 6
SPECIFICATION Spec
INVARIANT ClenAccounting
