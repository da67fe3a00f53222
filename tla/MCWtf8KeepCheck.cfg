\* ASCII, a Symbol marker (81) and an invalid lead (C0); 9 bytes reach the
\* word loop at every alignment with a partial word left for the tail.
CONSTANTS
    Alphabet = {65, 129, 192}
    MaxLen = 9
SPECIFICATION Spec
INVARIANTS
    TypeOK
    ReadsInBounds
    KeepCheckIsReference
PROPERTIES
    ScanTerminates
