SPECIFICATION FairSpec
CONSTANTS
    NIFACES = 2
    IF_QUEUESIZE = 1
    Data = {d1, d2}
    b1 = b1
    b2 = b2
    b3 = b3
    b4 = b4
    b5 = b5
    Buffers <- ThreeBuffers
    NoPkt = NoPkt
    MaxBurst = 1
PROPERTY
    QueuedBufferReturns
