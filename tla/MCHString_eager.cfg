CONSTANTS
    Handles <- FieldHandles
    ReadOnly <- FieldReadOnly
    Variant = "eager"
    Calls <- [HStringAbstract] AbsCalls
SPECIFICATION Spec
INVARIANTS
    LazyFieldsSound
PROPERTIES
    RefinesAbstract
