\* sign_binary.py main() without -c, on two binaries, with every -s value
\* and 81 signature shapes; openssl may fail.
CONSTANTS
    Binaries <- BinariesMC
    Signatures <- SignaturesMC
    KeyPaths = {"present", "missing", None}
    Absent = Absent
    None = None
    OldOutput <- OldOutputMC
SPECIFICATION Spec
\* main() ends after one run.
CHECK_DEADLOCK FALSE
INVARIANT SignedImageLayout
