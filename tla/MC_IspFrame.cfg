CONSTANTS
    SeqBytes = {1, 82, 192, 219, 255}
    PayloadBytes = {0, 192, 219, 220, 221}
    MaxPayload = 2
SPECIFICATION Spec
INVARIANTS
    TypeOK
    FrameRoundTrip
    Crc16MatchesReference
    Crc8MatchesReference
