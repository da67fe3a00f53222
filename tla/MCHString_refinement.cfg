CONSTANTS
    Handles <- RefHandles
    ReadOnly <- OpsReadOnly
    Variant = "lazy_clen"
    Calls <- [HStringAbstract] AbsCalls
SPECIFICATION Spec
PROPERTIES
    RefinesAbstract
