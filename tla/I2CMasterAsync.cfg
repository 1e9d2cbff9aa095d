\* A frame is longer than the FIFO by more than a quarter of it, twice.
SPECIFICATION FairSpec
CONSTANTS
    FIFOSize = 4
    CommandLength = 2
    FrameLength = 9
    Commands = 2
INVARIANTS TypeOK TaskOwnsController
PROPERTIES EveryTransferEnds TransferSpec
