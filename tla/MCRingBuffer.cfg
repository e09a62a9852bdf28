CONSTANTS
    RINGBUFFER_SIZE = 4
    MaxChunk = 4
    Byte <- MCByte
    Chunk <- MCChunk
    ReadLength <- MCReadLength
SPECIFICATION Spec
INVARIANT TypeOK
PROPERTY ImplementsByteFifo
