\* Every command, both values of --confirm and of the pem check, three
\* starting modes of the device; answers arrive within the read timeouts
\* and the link loses nothing.
CONSTANTS
    HANDSHAKE_MAX_ATTEMPTS = 3
    SERIAL_TIMEOUT_MS = 1
    LateReplies = FALSE
    MaxLoss = 0
    MaxNoise = 0
    NoiseBytes = {0}
    DeviceInit = {"off", "boot", "isp"}
    ConfirmValues = {TRUE, FALSE}
    Commands = {"none", "register", "key_read_root", "key_read_adac", "key_read_other", "key_write_root", "key_write_adac", "key_write_other", "key_verify", "debug", "test"}
    PemExists = {TRUE, FALSE}
    KeyWords = 2
    REPLY_LEN = 12
    Faults = FALSE
SPECIFICATION Spec
\* main() returns or exits: the run ends.
CHECK_DEADLOCK FALSE
INVARIANTS TypeOK WritesOnlyWhenConfirmed FramesReachIspDevice SeqNumbersIncrease KeyWordsFromKeyRegion
PROPERTIES SessionTerminates ReliableLinkSucceeds
