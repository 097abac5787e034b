---------------------------- MODULE PublicKeyJson ----------------------------
(***************************************************************************)
(* public_key_json.py main(): it cuts the X and Y coordinates out of the   *)
(* DER public key file, reads the optional AES key file, and writes the    *)
(* token data file that tokens_patch.py --multi-token reads: one entry per *)
(* token, its value a hex string of value_type "hex".                      *)
(*                                                                         *)
(* The command line is abstracted to the five ways it can go (getopt       *)
(* error, no options, -h, no -o, a usable one); the JSON text is the       *)
(* function from token names to [value, value_type] that json.load gives   *)
(* back, the values kept as characters.                                    *)
(***************************************************************************)
EXTENDS Integers, Sequences, SequencesExt, TokenValue, PySeq

CONSTANTS DerFiles,     \* contents the -i file may have
          KeyFiles,     \* contents the -e file may have (characters)
          Argvs,        \* "getopt_error", "no_options", "help", "no_output", "run"
          Absent,       \* a file that does not exist (or no -i / -e given)
          None          \* no value

VARIABLES inputFile,          \* the -i file, or Absent
          encryptionKeyFile,  \* the -e file, or Absent
          argv,               \* how the command line parses
          jsonFile,           \* the token data written, or None
          exitCode,           \* None while main() has not ended
          pc                  \* "start" or "done"

vars == <<inputFile, encryptionKeyFile, argv, jsonFile, exitCode, pc>>

KEY_X == "TR_MFG_TOKEN_SIGNED_BOOTLOADER_KEY_X"
KEY_Y == "TR_MFG_TOKEN_SIGNED_BOOTLOADER_KEY_Y"
AES_KEY == "TR_MFG_TOKEN_BOOTLOAD_AES_KEY"

\* key_data[27:59] or key_data[59:], reversed.
extract_key(key_data, is_x) ==
    Reverse(IF is_x THEN PySlice(key_data, 27, 59) ELSE PySlice(key_data, 59, Len(key_data)))

\* Mutant of Byte02X: f"{byte:X}", no leading zero.
Byte02XUnpadded(b) == IF b < 16 THEN <<HexChar(b)>> ELSE <<HexChar(b \div 16), HexChar(b % 16)>>

\* f"{byte:02X}"
Byte02X(b) == <<HexChar(b \div 16), HexChar(b % 16)>>

\* "0xAB" for the first byte, "CD" for the others, joined by spaces.
bytes_to_hex(arr) ==
    FlattenSeq([i \in 1..Len(arr) |->
                  IF i = 1 THEN <<"0", "x">> \o Byte02X(arr[1]) ELSE <<" ">> \o Byte02X(arr[i])])

\* [result, key]; bytearray.fromhex's ValueError is the key BadValue.
parse_encryption_key(file) ==
    IF file = Absent THEN [result |-> "FILE_NOT_FOUND", key |-> <<>>]
    ELSE IF Len(Strip(file)) # 32 THEN [result |-> "INVALID_LENGTH", key |-> <<>>]
    ELSE [result |-> "SUCCESS", key |-> fromhex(Strip(file))]

HexEntry(arr) == [value |-> bytes_to_hex(arr), value_type |-> "hex"]

write_to_json(key_x, key_y, encryption_key) ==
    (KEY_X :> HexEntry(key_x)) @@ (KEY_Y :> HexEntry(key_y))
    @@ (IF Len(encryption_key) > 0 THEN AES_KEY :> HexEntry(encryption_key) ELSE <<>>)

Init == /\ inputFile \in DerFiles \cup {Absent}
        /\ encryptionKeyFile \in KeyFiles \cup {Absent}
        /\ argv \in Argvs
        /\ jsonFile = None
        /\ exitCode = None
        /\ pc = "start"

\* main(argv).  getopt's error exits 2, no options 3, -h 0.  open() of a
\* missing -i file, bytearray.fromhex of a key that is not hex and open()
\* of no -o (None) raise, uncaught; an -e that is not a file is ignored,
\* a stripped key that is not 32 characters long exits 1.
main ==
    /\ pc = "start"
    /\ pc' = "done"
    /\ LET enc == parse_encryption_key(encryptionKeyFile)
       IN  CASE argv = "getopt_error"           -> exitCode' = 2 /\ jsonFile' = None
             [] argv = "no_options"             -> exitCode' = 3 /\ jsonFile' = None
             [] argv = "help"                   -> exitCode' = 0 /\ jsonFile' = None
             [] inputFile = Absent              -> exitCode' = 1 /\ jsonFile' = None
             [] enc.result = "INVALID_LENGTH"   -> exitCode' = 1 /\ jsonFile' = None
             [] enc.key = BadValue              -> exitCode' = 1 /\ jsonFile' = None
             [] argv = "no_output"              -> exitCode' = 1 /\ jsonFile' = None
             [] OTHER -> /\ exitCode' = 0
                         /\ jsonFile' = write_to_json(extract_key(inputFile, TRUE),
                                                      extract_key(inputFile, FALSE), enc.key)
    /\ UNCHANGED <<inputFile, encryptionKeyFile, argv>>

Next == main

Spec == Init /\ [][Next]_vars
=============================================================================
