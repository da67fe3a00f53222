\* Surrogate pairing and invalid continuations: ASCII, the continuation
\* bytes that separate the non-surrogate, high and low surrogate ranges of
\* lead ED, leads ED, F0, C3 and the invalid lead 80.
CONSTANTS
    Alphabet = {65, 128, 160, 176, 195, 237, 240}
    MaxLen = 6
SPECIFICATION Spec
INVARIANTS
    TypeOK
    OutWithinBuffer
    SanitizeIsReference
PROPERTIES
    SanitizeProgress
