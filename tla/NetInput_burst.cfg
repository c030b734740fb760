SPECIFICATION Spec
CONSTANTS
    NIFACES = 2
    IF_QUEUESIZE = 2
    Data = {d1}
    b1 = b1
    b2 = b2
    b3 = b3
    b4 = b4
    b5 = b5
    Buffers <- FiveBuffers
    NoPkt = NoPkt
    MaxBurst = 4
SYMMETRY BufferSymmetry
CHECK_DEADLOCK FALSE
INVARIANTS SemCountsQueue OverrunAtMostOne
