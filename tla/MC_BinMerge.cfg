\* Three runs of main() or rebuilds of a binary; every combination of -f,
\* -s and -j given or not, objcopy present or missing, and each objcopy
\* call succeeding or failing.  The build ends after its steps, hence no
\* deadlock check.
CONSTANTS
    MAX_RECORD_BYTES = 2
    FileNames = {"boot.hex", "app.hex", "combo.hex"}
    InputFiles <- InputFilesMC
    TokenDefs <- TokenDefsMC
    TokenNames = {}
    DataArgs = {}
    TokenValues = {}
    PatchAddrs = {}
    BadValue = BadValue
    MaxTokens = 0
    MaxRuns = 3
    Missing = Missing
    BinNames = {"boot.bin", "app.bin"}
    BootBins = {"boot.bin"}
    AppBins = {"app.bin"}
    BinContents <- BinContentsMC
    Absent = Absent
    Unreadable = Unreadable
    HexOf <- HexOfMC
    ComboHex = "combo.hex"
    FlashAddrs = {0}
    AppAddrs = {32768}
    ObjcopyPaths = {"present", "missing"}
    None = None
SPECIFICATION MergeSpec
CHECK_DEADLOCK FALSE
PROPERTY ComboHexMatchesComboBin
