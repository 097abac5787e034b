------------------------------ MODULE SignBinary ------------------------------
(***************************************************************************)
(* sign_binary.py main() without -c: it writes the length of the binary   *)
(* into bytes 40..43, has openssl sign the result (a temporary .bin and   *)
(* .der next to it), and writes the signed image: the binary padded to    *)
(* 256 bytes, the id 0x534EBF58, the length, the 64 signature bytes that  *)
(* extract_key takes out of the DER signature, and 0xFF up to the next    *)
(* multiple of 256.                                                        *)
(*                                                                         *)
(* openssl is an external tool: it either fails or writes the DER          *)
(* encoding of an ECDSA signature (r, s), r and s being 32-byte big-endian *)
(* integers.  The lzma path of -c is not modelled.                         *)
(***************************************************************************)
EXTENDS Integers, Sequences, SequencesExt, PySeq

CONSTANTS Binaries,   \* contents the input binary may have
          Signatures, \* [r, s] pairs openssl may produce
          KeyPaths,   \* -s values: "present", "missing" (Path.exists()) or None
          Absent,     \* an input file that does not exist
          None,       \* no value
          OldOutput   \* what the output file holds before the run

VARIABLES inFile,    \* the input binary, or Absent
          keyFile,   \* the -s argument
          outFile,   \* the output file
          tmpFile,   \* input_basename + random_string + ".bin", or None
          sig,       \* the signature openssl produced, or None
          exitCode,  \* None while main() has not ended
          pc         \* "start" or "done"

vars == <<inFile, keyFile, outFile, tmpFile, sig, exitCode, pc>>

\* sig_id.to_bytes(4, 'big') for sig_id = 0x534EBF58.
sig_id == <<83, 78, 191, 88>>

\* n.to_bytes(4, "little").
ToBytes4LE(n) == [i \in 1..4 |-> (n \div (256 ^ (i - 1))) % 256]

\* bytes([0xff] * k)
Padding(k) == [i \in 1..k |-> 255]

align_to_256_bytes(byte_array, array_len) ==
    LET padding_size == 256 - (array_len % 256)
    IN  byte_array \o Padding(IF padding_size = 256 THEN 0 ELSE padding_size)

\* The two INTEGERs of the DER signature, each 32 bytes from offset 4 or,
\* when its length byte is not 32, from offset 5; reversed and joined.
extract_key(key_data) ==
    LET key1_start_offset == IF key_data[3 + 1] = 32 THEN 4 ELSE 5
        key1_end_offset   == 32 + key1_start_offset
        key2_start_offset == IF key_data[key1_end_offset + 1 + 1] = 32
                             THEN key1_end_offset + 2 ELSE key1_end_offset + 3
        key2_end_offset   == 32 + key2_start_offset
    IN  Reverse(PySlice(key_data, key1_start_offset, key1_end_offset))
        \o Reverse(PySlice(key_data, key2_start_offset, key2_end_offset))

\* binary_data[0:40] + fw_len.to_bytes(4, "little") + binary_data[44:]
InsertLength(binary_data) ==
    PySlice(binary_data, 0, 40) \o ToBytes4LE(Len(binary_data))
    \o PySlice(binary_data, 44, Len(binary_data))

\* The image built from the length-stamped binary and the .der file.
SignedImage(binary_data, der) ==
    LET trailer == align_to_256_bytes(binary_data, Len(binary_data))
                   \o sig_id \o ToBytes4LE(Len(binary_data))
        withSig == trailer \o extract_key(der)
    IN  align_to_256_bytes(withSig, Len(withSig))

\* openssl dgst -sha256 -sign: a DER INTEGER is the minimal big-endian
\* encoding, with a 0x00 in front when the top bit is set.
DerInt(v) ==
    LET k        == CHOOSE i \in DOMAIN v : v[i] # 0 /\ \A j \in 1..(i - 1) : v[j] = 0
        stripped == SubSeq(v, k, Len(v))
    IN  IF stripped[1] >= 128 THEN <<0>> \o stripped ELSE stripped

Der(r, s) ==
    LET body == <<2, Len(DerInt(r))>> \o DerInt(r) \o <<2, Len(DerInt(s))>> \o DerInt(s)
    IN  <<48, Len(body)>> \o body

Init == /\ inFile \in Binaries \cup {Absent}
        /\ keyFile \in KeyPaths
        /\ outFile = OldOutput
        /\ tmpFile = None
        /\ sig = None
        /\ exitCode = None
        /\ pc = "start"

\* main(input_file, output_file, False, private_key_file).  A missing
\* input or key file returns; Path(None) raises TypeError, uncaught.  A
\* failing openssl (CalledProcessError) is printed by the except, leaving
\* output_data None: open(output_file, "wb") then truncates the output and
\* write(None) raises, which is printed too; the temporary .bin stays.
sign_binary_main ==
    /\ pc = "start"
    /\ pc' = "done"
    /\ CASE inFile = Absent ->
              /\ exitCode' = 0
              /\ UNCHANGED <<outFile, tmpFile, sig>>
         [] keyFile = None ->
              /\ exitCode' = 1
              /\ UNCHANGED <<outFile, tmpFile, sig>>
         [] keyFile = "missing" ->
              /\ exitCode' = 0
              /\ UNCHANGED <<outFile, tmpFile, sig>>
         [] OTHER ->
              \E ok \in BOOLEAN, rs \in Signatures :
                 LET binary_data == InsertLength(inFile)
                 IN  /\ exitCode' = 0
                     /\ IF ok
                        THEN /\ outFile' = SignedImage(binary_data, Der(rs.r, rs.s))
                             /\ tmpFile' = None
                             /\ sig' = rs
                        ELSE /\ outFile' = <<>>
                             /\ tmpFile' = binary_data
                             /\ sig' = None
    /\ UNCHANGED <<inFile, keyFile>>

Next == sign_binary_main

Spec == Init /\ [][Next]_vars
=============================================================================
