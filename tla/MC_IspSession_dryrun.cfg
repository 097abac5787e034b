\* Runs without --confirm, every command, against a device in any mode.
CONSTANTS
    HANDSHAKE_MAX_ATTEMPTS = 3
    SERIAL_TIMEOUT_MS = 1
    LateReplies = FALSE
    MaxLoss = 0
    MaxNoise = 0
    NoiseBytes = {0}
    DeviceInit = {"off", "boot", "isp"}
    ConfirmValues = {FALSE}
    Commands = {"none", "register", "key_read_root", "key_read_adac", "key_read_other", "key_write_root", "key_write_adac", "key_write_other", "key_verify", "debug", "test"}
    PemExists = {TRUE, FALSE}
    KeyWords = 2
    REPLY_LEN = 12
    Faults = FALSE
SPECIFICATION Spec
\* main() returns or exits: the run ends.
CHECK_DEADLOCK FALSE
INVARIANT DryRunNeverTransmits
