\* A token patch whose token starts where a loaded record starts (t1 at
\* 0xFFFE), and merges of files with no data record into one that has some.
CONSTANTS
    MAX_RECORD_BYTES = 2
    FileNames = {"hex1", "hex2"}
    InputFiles <- InputFilesEofMC
    TokenDefs <- TokenDefsMC
    TokenNames = {"t1", "t2", "tx"}
    DataArgs <- DataArgsMC
    TokenValues <- TokenValuesMC
    PatchAddrs = {65535}
    BadValue = BadValue
    MaxTokens = 1
    MaxRuns = 2
    Missing = Missing
SPECIFICATION Spec
CHECK_DEADLOCK FALSE
INVARIANT SavedFileHoldsImage
