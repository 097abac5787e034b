------------------------------ MODULE MC_HexTools ------------------------------
(***************************************************************************)
(* Instances of HexTools: HEX files with records next to the 64 KiB        *)
(* boundary, or with no data record at all, tokens on both sides of the    *)
(* boundary, and properties of the files the tools write.                  *)
(***************************************************************************)
EXTENDS HexTools

\* A data record and an Extended Linear Address record, as a linker or an
\* earlier save_to_file writes them.
DataLine(address, data) == to_hex_line(IntelHexRecord(Len(data), address % 65536, 0, data))
ExtLine(upper) == to_hex_line(IntelHexRecord(2, 0, 4, ToBytes2(upper)))

\* Two bytes ending at the 64 KiB boundary: 0xFFFE, 0xFFFF.
FileLow   == <<DataLine(65534, <<1, 1>>), EofLine>>
\* Two bytes above it: 0x10000, 0x10001.
FileHigh  == <<ExtLine(1), DataLine(0, <<2, 2>>), EofLine>>

InputFilesMC == {FileLow, FileHigh}
\* ... or the file is not there yet.
InputFilesMissingMC == InputFilesMC \cup {Missing}
\* What objcopy writes for an empty binary: the end-of-file record alone.
FileEof   == <<EofLine>>
InputFilesEofMC == InputFilesMC \cup {FileEof}

\* --data strings: "03", "0x03 03", an odd "3" and an empty one.
DataArgsMC == {<<"0", "3">>, <<"0", "x", "0", "3", " ", "0", "3">>, <<"3">>, <<>>}

\* Token data values: hex "0x03" and "03 03", an odd hex "3", the int 256
\* (out of range) and the ascii "A"; an int value, int(value), is kept
\* in its own field.
TokenValuesMC == {[value |-> <<"0", "x", "0", "3">>, value_type |-> "hex"],
                  [value |-> <<"0", "3", " ", "0", "3">>, value_type |-> "hex"],
                  [value |-> <<"3">>, value_type |-> "hex"],
                  [int |-> 256, value_type |-> "int"],
                  [codes |-> <<65>>, value_type |-> "ascii"]}

TokenDefsMC == ("t1" :> [address |-> 65534, size |-> 1])
               @@ ("t2" :> [address |-> 65536, size |-> 2])

LineType == [byte_count : 0..255, address : 0..65535, record_type : {0, 1, 2, 4, 5},
             data : Seq(0..255), checksum : 0..255]

TypeOK ==
    /\ files \in [FileNames -> Seq(LineType) \cup {Missing}]
    /\ runs \in 0..MaxRuns

\* A token patch (patch_hex_file with --token, or patch_multiple_tokens)
\* that succeeds saves an image that differs from the image of its input
\* only inside the regions of the tokens it was given, no byte added,
\* changed or dropped elsewhere: validate_data_size keeps every value
\* inside its token, whichever order the entries come in and whichever
\* entries are skipped.  (Whether the saved file then holds this image is
\* SavedFileHoldsImage.)
PatchChangesOnlyTokenRegions ==
    [][lastRun'.tool \in {"token", "tokens"} /\ lastRun'.ok =>
        LET before == load_from_file(files[lastRun'.input]).data
            after  == saved'[lastRun'.output]
            Same(a) == /\ a \in DOMAIN before /\ a \in DOMAIN after
                       /\ after[a] = before[a]
        IN  \A a \in DOMAIN before \cup DOMAIN after :
               ~Same(a) => a \in lastRun'.regions]_vars

\* Every HEX file holds, when read back by load_from_file, exactly the
\* bytes of the image (self.data, where the last write wins) that was last
\* saved to it: merging and patching "maintain format integrity".
SavedFileHoldsImage ==
    \A f \in FileNames : load_from_file(files[f]).data = saved[f]
=============================================================================
