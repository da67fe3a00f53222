\* Every range boundary the decoder tests: ASCII, both ends of each
\* continuation sub-range (80/8F, 90/9F, A0/BF), the invalid leads C0, C1,
\* F5, FF, and the leads C2, DF, E0, ED, EF, F0, F4 whose first
\* continuation range differs.
CONSTANTS
    Alphabet = {65, 128, 143, 144, 159, 160, 191, 192, 193, 194, 223,
                224, 237, 239, 240, 244, 245, 255}
    MaxLen = 4
SPECIFICATION Spec
INVARIANTS
    TypeOK
    OutWithinBuffer
    SanitizeIsReference
PROPERTIES
    SanitizeProgress
