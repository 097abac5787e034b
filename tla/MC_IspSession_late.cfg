\* A run with --confirm reading a key, with answers that may arrive after the read timeout.
CONSTANTS
    HANDSHAKE_MAX_ATTEMPTS = 3
    SERIAL_TIMEOUT_MS = 1
    LateReplies = TRUE
    MaxLoss = 0
    MaxNoise = 0
    NoiseBytes = {0}
    DeviceInit = {"boot"}
    ConfirmValues = {TRUE}
    Commands = {"key_read_root"}
    PemExists = {TRUE}
    KeyWords = 2
    REPLY_LEN = 12
    Faults = FALSE
SPECIFICATION Spec
\* main() returns or exits: the run ends.
CHECK_DEADLOCK FALSE
INVARIANT ResponsesFromOwnReplies
