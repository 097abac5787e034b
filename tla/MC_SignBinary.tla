---------------------------- MODULE MC_SignBinary ----------------------------
(***************************************************************************)
(* Instances of SignBinary: a binary that needs padding and one that is    *)
(* already a multiple of 256 bytes, and signatures whose r and s have a    *)
(* top byte that is zero (a short DER INTEGER), small, or has its top bit  *)
(* set (a DER INTEGER with a 0x00 in front).                               *)
(***************************************************************************)
EXTENDS SignBinary

BinariesMC == {[i \in 1..48 |-> i % 256], [i \in 1..256 |-> (i * 7) % 256]}

\* 32-byte big-endian integers whose first two bytes are a and b.
Int32(a, b) == <<a, b>> \o [i \in 1..30 |-> i + 2]

TopBytes == {0, 1, 128}

SignaturesMC == {[r |-> Int32(a, b), s |-> Int32(c, d)] : a, b, c, d \in TopBytes}

OldOutputMC == <<1, 2, 3>>

\* The image the docstring of main() describes: the binary with its
\* length in bytes 40..43, 0xFF up to a multiple of 256, 0x53 0x4E 0xBF
\* 0x58 (sig_id), the length, the 64 signature bytes and 0xFF * 184; the
\* signature bytes are r and s as 32-byte little-endian values, the key
\* material format of the spec (section 2).
RefImage(bin, r, s) ==
    LET stamped == [i \in DOMAIN bin |->
                      IF i \in 41..44 THEN (Len(bin) \div (256 ^ (i - 41))) % 256 ELSE bin[i]]
        padded  == stamped \o [i \in 1..((256 - (Len(bin) % 256)) % 256) |-> 255]
    IN  padded \o <<83, 78, 191, 88>> \o [i \in 1..4 |-> (Len(bin) \div (256 ^ (i - 1))) % 256]
        \o Reverse(r) \o Reverse(s) \o [i \in 1..184 |-> 255]

\* Whenever sign_binary.py main() has had openssl sign the binary, the
\* output file is the signed image of the documented layout, with the
\* signature's r and s each as 32 little-endian bytes, whatever the DER
\* lengths of r and s that extract_key parses.
SignedImageLayout ==
    pc = "done" /\ sig # None => outFile = RefImage(inFile, sig.r, sig.s)
=============================================================================
