SPECIFICATION Spec
CONSTANTS
    Byte = {a, b}
    Junk = junk
    Powers = {1, 2, 4}
    TopPower = 4
    MinSize = 2
    MaxChunk = 4
SYMMETRY Bytes
INVARIANTS TypeOK DataInBuffer
PROPERTY IsFifo
