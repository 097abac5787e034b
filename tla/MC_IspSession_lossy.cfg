\* An unreliable link: answers may come after the read timeout, one byte
\* or chunk may be lost and one glitch byte (0x00 or a stray 0x55) may be
\* received; every command, both values of --confirm.
CONSTANTS
    HANDSHAKE_MAX_ATTEMPTS = 3
    SERIAL_TIMEOUT_MS = 1
    LateReplies = TRUE
    MaxLoss = 1
    MaxNoise = 1
    NoiseBytes = {0, 85}
    DeviceInit = {"boot", "isp"}
    ConfirmValues = {TRUE, FALSE}
    Commands = {"none", "key_read_adac", "key_write_root", "key_verify", "debug"}
    PemExists = {TRUE}
    KeyWords = 2
    REPLY_LEN = 12
    Faults = TRUE
SPECIFICATION Spec
\* main() returns or exits: the run ends.
CHECK_DEADLOCK FALSE
INVARIANT FramesReachIspDevice
PROPERTY SessionTerminates
