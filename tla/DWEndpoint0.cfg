\* Packets of 2 bytes, of which 3 fit into one transfer; answers and requests
\* of less than a packet up to more than the buffer.
SPECIFICATION FairSpec
CONSTANTS
    MaxPacket = 2
    BufferSize = 4
    Answers = {1, 3, 4}
    MaxLength = 5
INVARIANTS TypeOK BytesInOrder WholeAnswer NoAssertFails ServesTheHostsRequest
 
