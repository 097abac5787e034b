\* Lossy, noisy link with late answers; every starting mode of the device.
CONSTANTS
    HANDSHAKE_MAX_ATTEMPTS = 4
    SERIAL_TIMEOUT_MS = 1
    LateReplies = TRUE
    MaxLoss = 1
    MaxNoise = 1
    NoiseBytes = {0, 85}
    DeviceInit = {"off", "boot", "acked", "isp"}
SPECIFICATION HsSpec
\* The loop ends with the link up or the program exited: nothing follows in this module.
CHECK_DEADLOCK FALSE
INVARIANT TypeOK
PROPERTY HandshakeRefinement
