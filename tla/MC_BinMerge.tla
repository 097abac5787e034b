------------------------------ MODULE MC_BinMerge ------------------------------
(***************************************************************************)
(* Instances of BinMerge: a bootloader and an application binary of one or *)
(* two bytes (the bootloader may also be empty), either of them missing or *)
(* unreadable, merged at -f 0x0 and -s 0x8000, with HEX files left by an   *)
(* earlier build; the linker may rebuild a binary between two runs.        *)
(***************************************************************************)
EXTENDS BinMerge

\* A data record as a linker or an earlier save_to_file writes it.
DataLine(address, data) == to_hex_line(IntelHexRecord(Len(data), address, 0, data))

\* A HEX file of an earlier build.
FileOld == <<DataLine(16, <<7>>), EofLine>>

InputFilesMC == {FileOld}

TokenDefsMC == [t \in {} |-> [address |-> 0, size |-> 0]]

HexOfMC == ("boot.bin" :> "boot.hex") @@ ("app.bin" :> "app.hex")

BinContentsMC == ("boot.bin" :> {<<1>>, <<1, 1>>, <<>>, Absent, Unreadable})
                 @@ ("app.bin" :> {<<2>>, <<2, 2>>, Absent, Unreadable})

\* Whenever bootloader_app_merge.py main() prints "combo.hex created
\* successfully", the combo.hex it leaves holds exactly the bytes of the
\* combo.bin it wrote, other than the 0xFF padding, from the -f address on:
\* the bootloader converted at -f and the application converted at -s line
\* up with the bootloader padded by align_to_32k_bytes.
ComboHexMatchesComboBin ==
    [][lastRun'.tool = "binmerge" /\ outcome'.hex =>
         load_from_file(files'[ComboHex]).data = BinImage(combo', outcome'.base)]_binVars

================================================================================
