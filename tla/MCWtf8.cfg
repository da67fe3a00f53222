\* Range boundaries of every lead and continuation test, up to one 4-byte
\* sequence.
CONSTANTS
    Alphabet = {65, 128, 143, 144, 159, 160, 191, 192, 193, 194, 223,
                224, 237, 239, 240, 244, 245, 255}
    MaxLen = 4
SPECIFICATION Spec
INVARIANTS
    ValidatorIsReference
    CharLengthIsUtf16Length
    DecodeKnownIsReference
