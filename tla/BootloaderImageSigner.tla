------------------------- MODULE BootloaderImageSigner -------------------------
(***************************************************************************)
(* bootloader_image_signer.py main(): the RT584 secure-boot image.  The    *)
(* bootloader is padded to 256 bytes and followed by certificate 1 ("@$PK",*)
(* its length, the bootloader public key, the option bytes, signed by the  *)
(* root key), the tail ("SFSR", the length of everything before the        *)
(* signature) and the signature by the bootloader key.                     *)
(*                                                                         *)
(* openssl ec -text is an external tool: its output is the raw public key  *)
(* its "pub:" lines hold, or a failure.  An ECDSA signature (r, s) of the   *)
(* ecdsa library is abstracted to the 64 bytes r.to_bytes(32, 'little') +  *)
(* s.to_bytes(32, 'little'), which always has that length.  The private    *)
(* key files are either readable PEM keys or not.                          *)
(***************************************************************************)
EXTENDS Integers, Sequences, SequencesExt, TokenValue

CONSTANTS Bootloaders,   \* contents the --bootloader file may have
          PubKeyOutputs, \* raw keys openssl may print for --btl-pub
          OpensslError,  \* openssl exits non-zero (CalledProcessError)
          OptionArgs,    \* --option-bytes strings (characters), or None
          Signatures,    \* the 64-byte r || s the signing key may produce
          Absent,        \* a file that does not exist
          None           \* no value

VARIABLES bootloaderFile, \* the --bootloader file, or Absent
          btlPub,         \* what openssl prints for --btl-pub
          optionBytesArg, \* --option-bytes, or None
          endian,         \* --endian: "little" or "big"
          keysReadable,   \* --root-priv and --btl-priv are PEM keys
          outFile,        \* the --out file, or None while not written
          exitCode,       \* None while main() has not ended
          pc              \* "start" or "done"

vars == <<bootloaderFile, btlPub, optionBytesArg, endian, keysReadable, outFile, exitCode, pc>>

MAGIC_CPK == <<64, 36, 80, 75>>   \* b"@$PK"
MAGIC_SSR == <<83, 70, 83, 82>>   \* b"SFSR"
MAX_OPTION_BYTES == 48

align_to_256_bytes(byte_array) ==
    LET padding_size == 256 - (Len(byte_array) % 256)
    IN  byte_array \o [i \in 1..(IF padding_size = 256 THEN 0 ELSE padding_size) |-> 255]

\* Mutant of PackI: the bytes are not reduced modulo 256.
PackIWide(n, e) ==
    LET le == [i \in 1..4 |-> n \div (256 ^ (i - 1))]
    IN  IF e = "little" THEN le ELSE Reverse(le)

\* struct.pack('<I', n) or struct.pack('>I', n).
PackI(n, e) ==
    LET le == [i \in 1..4 |-> (n \div (256 ^ (i - 1))) % 256]
    IN  IF e = "little" THEN le ELSE Reverse(le)

\* The 65 raw bytes must be 0x04 || X || Y; X and Y come back reversed.
derive_raw_pubkey_from_pem(raw) ==
    IF raw = OpensslError \/ raw = <<>> \/ raw[1] # 4 \/ Len(raw) # 65 THEN BadValue
    ELSE Reverse(SubSeq(raw, 2, 33)) \o Reverse(SubSeq(raw, 34, 65))

build_certificate_1(sig_pubkey_raw, option_bytes, e, sig_raw) ==
    LET length_x == 4 + 4 + 64 + Len(option_bytes)
    IN  MAGIC_CPK \o PackI(length_x, e) \o sig_pubkey_raw \o option_bytes \o sig_raw

\* Mutant of build_signed_bootloader: len_before leaves out the length
\* field itself.
build_signed_bootloaderShortLen(bootloader, certificate_1, e, sig_raw) ==
    LET bootloader_aligned == align_to_256_bytes(bootloader)
        len_before         == Len(bootloader_aligned) + Len(certificate_1) + 4
    IN  bootloader_aligned \o certificate_1 \o MAGIC_SSR \o PackI(len_before, e) \o sig_raw

build_signed_bootloader(bootloader, certificate_1, e, sig_raw) ==
    LET bootloader_aligned == align_to_256_bytes(bootloader)
        len_before         == Len(bootloader_aligned) + Len(certificate_1) + 4 + 4
    IN  bootloader_aligned \o certificate_1 \o MAGIC_SSR \o PackI(len_before, e) \o sig_raw

\* --option-bytes: 16 zero bytes when absent or empty; otherwise stripped,
\* a "0" put in front of an odd count of characters, bytes.fromhex.
OptionBytes(arg) ==
    IF arg = None \/ arg = <<>> THEN [i \in 1..16 |-> 0]
    ELSE LET hb == Strip(arg)
         IN  fromhex(IF Len(hb) % 2 = 1 THEN <<"0">> \o hb ELSE hb)

Init == /\ bootloaderFile \in Bootloaders \cup {Absent}
        /\ btlPub \in PubKeyOutputs \cup {OpensslError}
        /\ optionBytesArg \in OptionArgs \cup {None}
        /\ endian \in {"little", "big"}
        /\ keysReadable \in BOOLEAN
        /\ outFile = None
        /\ exitCode = None
        /\ pc = "start"

\* main().  read_bytes of a missing bootloader, a failing or unexpected
\* openssl output, option bytes that are not hex and an unreadable key
\* raise, uncaught (exit 1); more than 48 option bytes exit 2.
main ==
    /\ pc = "start"
    /\ pc' = "done"
    /\ LET sig_pub_raw  == derive_raw_pubkey_from_pem(btlPub)
           option_bytes == OptionBytes(optionBytesArg)
       IN  CASE bootloaderFile = Absent  -> exitCode' = 1 /\ outFile' = None
             [] sig_pub_raw = BadValue   -> exitCode' = 1 /\ outFile' = None
             [] option_bytes = BadValue  -> exitCode' = 1 /\ outFile' = None
             [] Len(option_bytes) > MAX_OPTION_BYTES -> exitCode' = 2 /\ outFile' = None
             [] ~keysReadable            -> exitCode' = 1 /\ outFile' = None
             [] OTHER -> \E sig1, sig2 \in Signatures :
                           /\ exitCode' = 0
                           /\ outFile' = build_signed_bootloader(bootloaderFile,
                                           build_certificate_1(sig_pub_raw, option_bytes, endian, sig1),
                                           endian, sig2)
    /\ UNCHANGED <<bootloaderFile, btlPub, optionBytesArg, endian, keysReadable>>

Next == main

Spec == Init /\ [][Next]_vars
=============================================================================
