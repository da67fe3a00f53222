CONSTANTS
    Handles <- FieldHandles
    ReadOnly <- FieldReadOnly
    Variant = "lazy_noclen"
    Calls <- [HStringAbstract] AbsCalls
SPECIFICATION Spec
INVARIANTS
    LazyFieldsSound
PROPERTIES
    RefinesAbstract
