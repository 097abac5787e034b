------------------------------- MODULE BinMerge -------------------------------
(***************************************************************************)
(* bootloader_app_merge.py main(): it writes combo.bin (the bootloader     *)
(* padded to 32 KiB, then the application) and, with -f -s -j, converts    *)
(* both binaries to HEX with objcopy and joins them into combo.hex with    *)
(* merge_hexfiles.main, whose IntelHexFile operations come from IntelHex   *)
(* and whose HEX files are the files of HexTools.                          *)
(*                                                                         *)
(* A binary is its byte sequence, Absent (no such file) or Unreadable     *)
(* (the file exists but open() or read() raises).  combo.bin is kept as    *)
(* [boot, pad, app]: the bootloader bytes, the number of 0xFF bytes        *)
(* appended to them, the application bytes.  objcopy is an external tool: *)
(* its output is a well-formed HEX file of the binary at the address, or   *)
(* the end-of-file record alone for an empty binary.                       *)
(***************************************************************************)
EXTENDS HexTools

CONSTANTS BinNames,      \* the binaries of the build
          BootBins,      \* the binaries -b may name
          AppBins,       \* the binaries -a may name
          BinContents,   \* binary name -> the contents it may have
          Absent,        \* a binary that does not exist
          Unreadable,    \* a binary that exists but cannot be read
          HexOf,         \* binary name -> Path(...).stem + ".hex" (in FileNames)
          ComboHex,      \* the .hex of -o (in FileNames)
          FlashAddrs,    \* -f values
          AppAddrs,      \* -s values
          ObjcopyPaths,  \* -j values: "present" or "missing" (Path.exists())
          None           \* an option that is not given

VARIABLES bins,     \* binary name -> its content
          combo,    \* combo.bin: Absent or [boot, pad, app]
          outcome   \* how the last run of main() ended, for the properties

binVars == <<vars, bins, combo, outcome>>

BinInit == /\ Init
           /\ bins \in {f \in [BinNames -> UNION {BinContents[b] : b \in BinNames}] :
                          \A b \in BinNames : f[b] \in BinContents[b]}
           /\ combo = Absent
           /\ outcome = [exit |-> 0, hex |-> FALSE, base |-> 0]

\* padding_size = (32* 1024) - len(byte_array) % (32*2014): the modulus is
\* 64448, not 32768.
padding_size(len) == (32 * 1024) - (len % (32 * 2014))

\* Mutant of PaddingBytes: padding one byte short of the boundary.
PaddingBytesShort(len) == IF padding_size(len) - 1 > 0 THEN padding_size(len) - 1 ELSE 0

\* len(bytes([0xff] * padding_size)): a negative count repeats [0xff]
\* zero times.
PaddingBytes(len) == IF padding_size(len) > 0 THEN padding_size(len) ELSE 0

\* byte_array + padding, kept as the bytes and the padding length.
align_to_32k_bytes(byte_array) == [boot |-> byte_array, pad |-> PaddingBytes(Len(byte_array))]

\* check_for_hex_file_gen returns (rather than sys.exit(1)).
check_for_hex_file_gen(flash_start_address, app_start_address, objcopy_path) ==
    /\ flash_start_address # None
    /\ app_start_address # None
    /\ objcopy_path = "present"

\* objcopy -I binary -O ihex --adjust-vma address bin_file hex_file.
ObjcopyHex(data, address) ==
    IF data = <<>> THEN <<EofLine>>
    ELSE get_memory_block_data_record([data |-> PutBytes(EmptyDict, address, data),
                                       memory_blocks |-> (address :> data),
                                       start_address |-> 0]) \o <<EofLine>>

\* The bytes of combo.bin other than the padding, placed at base.
BinImage(c, base) ==
    LET appAt == base + Len(c.boot) + c.pad
    IN  [a \in {base + i - 1 : i \in DOMAIN c.boot} \cup {appAt + j - 1 : j \in DOMAIN c.app} |->
            IF a < base + Len(c.boot) THEN c.boot[a - base + 1] ELSE c.app[a - appAt + 1]]

\* The hex step (lines 115-126): two objcopy runs, each of which may fail
\* (CalledProcessError, sys.exit(1)), then merge_hexfiles.main.
HexStep(boot, app, bootHex, appHex, flash, appStart, ok1, ok2) ==
    LET f1  == [files EXCEPT ![bootHex] = ObjcopyHex(boot, flash)]
        f2  == [f1 EXCEPT ![appHex] = ObjcopyHex(app, appStart)]
        img == merge_with(load_from_file(f2[bootHex]), load_from_file(f2[appHex]))
    IN  CASE ~ok1 -> /\ UNCHANGED <<files, saved>>
                     /\ outcome' = [exit |-> 1, hex |-> FALSE, base |-> flash]
          [] ~ok2 -> /\ files' = f1
                     /\ saved' = [saved EXCEPT ![bootHex] = PutBytes(EmptyDict, flash, boot)]
                     /\ outcome' = [exit |-> 1, hex |-> FALSE, base |-> flash]
          [] OTHER -> /\ files' = [f2 EXCEPT ![ComboHex] = save_to_file(img, f2[ComboHex])]
                      /\ saved' = [saved EXCEPT ![bootHex] = PutBytes(EmptyDict, flash, boot),
                                                ![appHex] = PutBytes(EmptyDict, appStart, app),
                                                ![ComboHex] = img.data]
                      /\ outcome' = [exit |-> 0, hex |-> TRUE, base |-> flash]

\* main(bootloader_file, app_file, output_file, -f, -s, -j) with -o combo.bin.
\* The read errors and the empty-file MyCustomError are only printed; a
\* None read makes align_to_32k_bytes or the + raise TypeError after the
\* output was opened "wb", which the except prints.
bootloader_app_merge_main ==
    /\ runs < MaxRuns
    /\ \E bootloader_file \in BootBins, app_file \in AppBins, flash \in FlashAddrs \cup {None},
          appStart \in AppAddrs \cup {None}, objcopy \in ObjcopyPaths \cup {None},
          ok1, ok2 \in BOOLEAN :
          LET boot == bins[bootloader_file]
              app  == bins[app_file]
          IN  CASE boot = Absent \/ app = Absent ->
                      /\ UNCHANGED <<files, saved, combo>>
                      /\ outcome' = [exit |-> 0, hex |-> FALSE, base |-> 0]
                [] ~check_for_hex_file_gen(flash, appStart, objcopy) ->
                      /\ UNCHANGED <<files, saved, combo>>
                      /\ outcome' = [exit |-> 1, hex |-> FALSE, base |-> 0]
                [] boot = Unreadable \/ app = Unreadable ->
                      /\ UNCHANGED <<files, saved>>
                      /\ combo' = [boot |-> <<>>, pad |-> 0, app |-> <<>>]
                      /\ outcome' = [exit |-> 0, hex |-> FALSE, base |-> 0]
                [] OTHER ->
                      /\ combo' = LET aligned == align_to_32k_bytes(boot)
                                   IN  [boot |-> aligned.boot, pad |-> aligned.pad, app |-> app]
                      /\ HexStep(boot, app, HexOf[bootloader_file], HexOf[app_file],
                                 flash, appStart, ok1, ok2)
    /\ lastRun' = [tool |-> "binmerge", input |-> ComboHex, output |-> ComboHex,
                   regions |-> {}, ok |-> outcome'.hex]
    /\ runs' = runs + 1
    /\ UNCHANGED bins

\* The linker rewrites an input binary between two build steps.
Relink ==
    /\ runs < MaxRuns
    /\ \E b \in BinNames : \E c \in BinContents[b] : bins' = [bins EXCEPT ![b] = c]
    /\ runs' = runs + 1
    /\ UNCHANGED <<files, saved, lastRun, combo, outcome>>

MergeNext == bootloader_app_merge_main \/ Relink

MergeSpec == BinInit /\ [][MergeNext]_binVars
=============================================================================
