\* Two arrays of two Lua states and two buffers; a size_t of two bits, in
\* which an array of length 2 has size 0.
SPECIFICATION Spec
CONSTANTS
    States = {t1, t2}
    Arrays = {a1, a2}
    Buffers = {b1, b2}
    MaxLength = 2
    ItemSize = 2
    Items <- MCItems
    SizeBits = 2
    MaxMessages = 1
    NULL = NULL
SYMMETRY Symmetry
INVARIANTS TypeOK OneOwner ValuesPrivate NoFault
CHECK_DEADLOCK FALSE
