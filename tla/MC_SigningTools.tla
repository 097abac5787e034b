--------------------------- MODULE MC_SigningTools ---------------------------
(***************************************************************************)
(* The two key/image tools of the secure-boot build, each run once with    *)
(* its inputs chosen from small sets: public_key_json.py, whose token data *)
(* file is read back with tokens_patch.py's parse_token_value, and         *)
(* bootloader_image_signer.py, whose image is taken apart again from its   *)
(* length fields.  The tools share no state; they end, so a state where    *)
(* both are done has no successor.                                         *)
(***************************************************************************)
EXTENDS Integers, Sequences, SequencesExt, TokenValue

CONSTANTS Absent, None, OpensslError

VARIABLES pkInput, pkKeyFile, pkArgv, pkJson, pkExit, pkPc,
          blFile, blPub, blOption, blEndian, blKeys, blOut, blExit, blPc

pkVars == <<pkInput, pkKeyFile, pkArgv, pkJson, pkExit, pkPc>>
blVars == <<blFile, blPub, blOption, blEndian, blKeys, blOut, blExit, blPc>>

\* Two coordinates of a P-256 key; 0x0A checks the leading zero digit.
KeyX == <<10>> \o [i \in 1..31 |-> i]
KeyY == [i \in 1..32 |-> 255 - i]

\* SubjectPublicKeyInfo of an EC P-256 key: 26 header bytes, then the
\* uncompressed point 0x04 || X || Y (X and Y big-endian).
SpkiHeader == <<48, 89, 48, 19, 6, 7, 42, 134, 72, 206, 61, 2, 1,
                6, 8, 42, 134, 72, 206, 61, 3, 1, 7, 3, 66, 0>>
PublicKeyDer == SpkiHeader \o <<4>> \o KeyX \o KeyY

\* An AES key and the text of its key file: two uppercase digits a byte.
AesKey == [i \in 1..16 |-> 17 * (i - 1)]
AesText == FlattenSeq([i \in 1..16 |-> <<HexChar(AesKey[i] \div 16), HexChar(AesKey[i] % 16)>>])

\* -e files: the key, the key with a newline, 31 digits, a non-hex digit.
KeyFilesRec == {[text |-> AesText, valid |-> TRUE],
                [text |-> AesText \o <<"\n">>, valid |-> TRUE],
                [text |-> SubSeq(AesText, 1, 31), valid |-> FALSE],
                [text |-> <<"G">> \o SubSeq(AesText, 2, 32), valid |-> FALSE]}

PK == INSTANCE PublicKeyJson
        WITH inputFile <- pkInput, encryptionKeyFile <- pkKeyFile, argv <- pkArgv,
             jsonFile <- pkJson, exitCode <- pkExit, pc <- pkPc,
             DerFiles <- {PublicKeyDer}, KeyFiles <- {f.text : f \in KeyFilesRec},
             Argvs <- {"getopt_error", "no_options", "help", "no_output", "run"}

\* A 100-byte bootloader and one of exactly 256 bytes (no padding).
BootloadersMC == {[i \in 1..100 |-> i], [i \in 1..256 |-> i % 256]}

\* openssl's "pub:" bytes: the uncompressed point, and a compressed one.
PubKeyOutputsMC == {<<4>> \o KeyX \o KeyY, <<2>> \o KeyX}

\* --option-bytes: "", " ", an odd "A", "0A1B", 49 zero bytes, "0x0A".
OptionArgsMC == {<<>>, <<" ">>, <<"A">>, <<"0", "A", "1", "B">>,
                 [i \in 1..98 |-> "0"], <<"0", "x", "0", "A">>}

SignaturesMC == {[i \in 1..64 |-> 1], [i \in 1..64 |-> 2]}

BL == INSTANCE BootloaderImageSigner
        WITH bootloaderFile <- blFile, btlPub <- blPub, optionBytesArg <- blOption,
             endian <- blEndian, keysReadable <- blKeys, outFile <- blOut,
             exitCode <- blExit, pc <- blPc,
             Bootloaders <- BootloadersMC, PubKeyOutputs <- PubKeyOutputsMC,
             OptionArgs <- OptionArgsMC, Signatures <- SignaturesMC

Init == PK!Init /\ BL!Init

Next == \/ PK!Next /\ UNCHANGED blVars
        \/ BL!Next /\ UNCHANGED pkVars

Spec == Init /\ [][Next]_<<pkVars, blVars>>

-----------------------------------------------------------------------------
TypeOK ==
    /\ pkPc \in {"start", "done"} /\ blPc \in {"start", "done"}
    /\ pkExit \in {None, 0, 1, 2, 3} /\ blExit \in {None, 0, 1, 2}
    /\ pkJson = None \/ DOMAIN pkJson \subseteq {PK!KEY_X, PK!KEY_Y, PK!AES_KEY}
    /\ blOut = None \/ blOut \in Seq(0..255)

\* The token data file public_key_json.py writes, read by tokens_patch.py
\* (parse_token_value of each value, value_type "hex"), gives the X and Y
\* coordinates of the DER key least significant byte first, and the AES
\* key token exactly when a valid -e key file was given, with its bytes.
JsonTokensReadBack ==
    pkJson # None =>
        /\ pkInput = PublicKeyDer
        /\ parse_token_value(pkJson[PK!KEY_X]) = Reverse(KeyX)
        /\ parse_token_value(pkJson[PK!KEY_Y]) = Reverse(KeyY)
        /\ PK!AES_KEY \in DOMAIN pkJson <=> \E f \in KeyFilesRec : f.text = pkKeyFile /\ f.valid
        /\ PK!AES_KEY \in DOMAIN pkJson => parse_token_value(pkJson[PK!AES_KEY]) = AesKey

\* The 4-byte length field at offset i of an image, in the --endian order.
UnpackI(img, i, e) ==
    LET f == IF e = "little" THEN SubSeq(img, i, i + 3) ELSE Reverse(SubSeq(img, i, i + 3))
    IN  f[1] + 256 * f[2] + 65536 * f[3] + 16777216 * f[4]

\* The image bootloader_image_signer.py writes can be taken apart again:
\* the bootloader, 0xFF up to a multiple of 256, "@$PK" and a length
\* length_x that locates the root signature after 8 + 64 + 0..48 bytes
\* holding the bootloader key (X and Y reversed), then "SFSR" and a length
\* len_before that is the offset of the final signature, which ends the
\* file.
SignedImageLayout ==
    blOut # None =>
        LET img == blOut
            a   == 256 * ((Len(blFile) + 255) \div 256)
            lx  == UnpackI(img, a + 5, blEndian)
            lb  == UnpackI(img, a + lx + 69, blEndian)
        IN  /\ Len(img) >= a + 8
            /\ SubSeq(img, 1, Len(blFile)) = blFile
            /\ \A i \in (Len(blFile) + 1)..a : img[i] = 255
            /\ SubSeq(img, a + 1, a + 4) = BL!MAGIC_CPK
            /\ 72 <= lx /\ lx <= 72 + BL!MAX_OPTION_BYTES
            /\ Len(img) >= a + lx + 72
            /\ SubSeq(img, a + 9, a + 72) = Reverse(SubSeq(blPub, 2, 33)) \o Reverse(SubSeq(blPub, 34, 65))
            /\ SubSeq(img, a + lx + 1, a + lx + 64) \in SignaturesMC
            /\ SubSeq(img, a + lx + 65, a + lx + 68) = BL!MAGIC_SSR
            /\ lb = a + lx + 72
            /\ Len(img) = lb + 64
            /\ SubSeq(img, lb + 1, lb + 64) \in SignaturesMC
=============================================================================
