CONSTANTS
    Cps = {65, 233, 2048, 55357, 56832, 65535, 65536, 128512, 1114111}
    MaxCps = 3
SPECIFICATION Spec
INVARIANTS
    AllocIsCesu8Length
