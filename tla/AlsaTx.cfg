SPECIFICATION CardSpec
CONSTANTS
    MaxData = 5
    period_size = 3
    num_rec = 4
    Errno = {1, 2}
    SizeMod = 16
INVARIANT TypeOK
INVARIANT EveryFrameOnce
PROPERTY TransmitReturns
