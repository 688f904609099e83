\* A 64-bit integer in a wasm local, scaled down to a bigint with 7 bits.
\* Real header values of the line program; bytes, pointers and exact numbers are
\* scaled down (a byte holds 8 values, a pointer 2 bytes, a number 6 bits).
SPECIFICATION Spec
CONSTANTS
    MinInst = 1
    LineBase <- MCLineBase
    LineRange = 14
    OpcodeBase = 13
    Exact = 64
    Selector = 99
    Tombstone = 99
    ByteBase = 8
    AddressSize = 2
    MaxDepth = 3
    MaxChildren = 2
    MaxStringBytes = 2
    Slots <- MCWideSlots
    Styles <- MCStyles
    Images <- MCImages
    Offsets <- MCOffsets
    OnDisk <- MCOnDisk
INVARIANT ScalarExact
