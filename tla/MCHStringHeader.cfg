\* Every build (8 combinations of STRHASH16, STRLEN16, HSTRING_ARRIDX) and
\* three live handles at a time (handles share no header state), every order
\* of creation, lazy ASCII marking and getter calls.
CONSTANTS
    Empty = Empty
    Seven = Seven
    Seven0 = Seven0
    IdxMax = IdxMax
    IdxNone = IdxNone
    IdxWide = IdxWide
    Sym = Sym
    Long = Long
    Bytes <- MCBytes
    Handles <- MCHandles
    StrHash <- MCStrHash
    CStrings <- MCCStrings
    FlagBit <- MCFlagBit
    TypeBits <- MCTypeBits
    MaxLive = 3
SPECIFICATION Spec
INVARIANTS
    HeaderReadsBack
    ArridxAgrees
