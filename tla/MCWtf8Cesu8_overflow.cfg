CONSTANTS
    Cps = {65, 55357, 128512}
    MaxCps = 2
SPECIFICATION Spec
INVARIANT
    OutWithinAlloc
