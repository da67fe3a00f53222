CONSTANTS
    Handles <- OpsHandles
    ReadOnly <- OpsReadOnly
    Variant = "lazy_clen"
    Calls <- [HStringAbstract] AbsCalls
SPECIFICATION Spec
INVARIANTS
    LazyFieldsSound
    NoWriteToReadOnly
    SubstringIsCanonical
