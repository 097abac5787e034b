\* Two files, each starting as one of two linker outputs next to the 64 KiB
\* boundary, or not there yet; two tool invocations, token data files of up to two entries
\* with an undefined name and a rejected value.  Tokens are no longer than
\* one record (MAX_RECORD_BYTES), so a token never spans two records.  The
\* build ends after its invocations, hence no deadlock check.
CONSTANTS
    MAX_RECORD_BYTES = 2
    FileNames = {"hex1", "hex2"}
    InputFiles <- InputFilesMissingMC
    TokenDefs <- TokenDefsMC
    TokenNames = {"t1", "t2", "tx"}
    DataArgs <- DataArgsMC
    TokenValues <- TokenValuesMC
    PatchAddrs = {65535}
    BadValue = BadValue
    MaxTokens = 2
    MaxRuns = 2
    Missing = Missing
SPECIFICATION Spec
CHECK_DEADLOCK FALSE
INVARIANT TypeOK
PROPERTY PatchChangesOnlyTokenRegions
