\* Addresses on both sides of the 64 KiB boundary and one far below it;
\* records of 2 bytes so that a 3-byte block is cut into two records.
CONSTANTS
    MAX_RECORD_BYTES = 2
    Addr = {0, 65534, 65535, 65536}
    Vals = {1, 2}
    MaxData = 3
    MaxBlocks = 2
SPECIFICATION Spec
INVARIANTS
    RecordBlocksRoundTrip
    ByteRecordsRoundTrip
