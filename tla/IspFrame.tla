------------------------------- MODULE IspFrame -------------------------------
(***************************************************************************)
(* The ISP frame codec of isp_tool.py: the 8-bit sum checksum, CRC-8       *)
(* (poly 0xD5), CRC-16/CCITT-FALSE, byte stuffing and frame building.      *)
(* Bytes are naturals in 0..255; a byte string is a sequence of them.      *)
(* Each operator is the function of the same name in the source; the       *)
(* second half of the module holds reference definitions (a decoder and a  *)
(* CRC by polynomial long division) that the code is checked against.     *)
(***************************************************************************)
EXTENDS Integers, Sequences, SequencesExt

ISP_HEADER == 82                \* 0x52
ISP_END    == 192               \* 0xC0
ISP_ESC    == 219               \* 0xDB
isp_end_encode == <<219, 220>>  \* 0xDB 0xDC
isp_esc_encode == <<219, 221>>  \* 0xDB 0xDD

Byte == 0..255

\* Bit i (0 = least significant) of a natural number.
Bit(v, pos) == (v \div 2^pos) % 2

\* Bit b of x xor y, in place.
XorBit(x, y, b) == 2^b * ((Bit(x, b) + Bit(y, b)) % 2)

\* Bitwise xor of two naturals below 2^18, the widest value the CRC loops
\* produce, written out bit by bit so that its evaluation stays shallow.
Xor(x, y) ==
      XorBit(x, y, 0) + XorBit(x, y, 1) + XorBit(x, y, 2) + XorBit(x, y, 3)
    + XorBit(x, y, 4) + XorBit(x, y, 5) + XorBit(x, y, 6) + XorBit(x, y, 7)
    + XorBit(x, y, 8) + XorBit(x, y, 9) + XorBit(x, y, 10) + XorBit(x, y, 11)
    + XorBit(x, y, 12) + XorBit(x, y, 13) + XorBit(x, y, 14) + XorBit(x, y, 15)
    + XorBit(x, y, 16) + XorBit(x, y, 17)

RECURSIVE SumBytes(_)
SumBytes(bs) == IF bs = <<>> THEN 0 ELSE Head(bs) + SumBytes(Tail(bs))

\* Mutant of calculate_checksum: the & 0xFF mask is dropped, so ~checksum
\* is the negative Python int -(sum) - 1.
calculate_checksum_unmasked(data) == -SumBytes(data) - 1

\* ~checksum & 0xFF of a Python int is 255 - (checksum mod 256).
calculate_checksum(data) == 255 - (SumBytes(data) % 256)

\* One pass of the CRC-8 bit loop; the else branch keeps crc << 1 unmasked,
\* as the code does (it stays below 256 there).
Crc8Step(crc) == IF Bit(crc, 7) = 1 THEN Xor(crc * 2, 213) % 256 ELSE crc * 2

\* n passes of a bit loop.
Crc8Shift(crc, n) ==
    LET reg8[k8 \in 0..n] == IF k8 = 0 THEN crc ELSE Crc8Step(reg8[k8 - 1]) IN reg8[n]

\* The body of the byte loop: xor in the byte, then n bit passes.  A
\* function, so that TLC evaluates the register value it is applied to
\* before it recurses any further.
Crc8Byte[crc \in Nat, b \in Byte, n \in Nat] == Crc8Shift(Xor(crc, b), n)

\* Mutant of calculate_crc8: seven shift steps per byte instead of eight.
calculate_crc8_seven(data) ==
    LET c7[i7 \in 0..Len(data)] ==
            IF i7 = 0 THEN 0 ELSE Crc8Byte[c7[i7 - 1], data[i7], 7]
    IN  c7[Len(data)]

calculate_crc8(data) ==
    LET c8[i8 \in 0..Len(data)] ==
            IF i8 = 0 THEN 0 ELSE Crc8Byte[c8[i8 - 1], data[i8], 8]
    IN  c8[Len(data)]

Crc16Step(crc) ==
    IF Bit(crc, 15) = 1 THEN Xor(crc * 2, 4129) % 65536 ELSE (crc * 2) % 65536

Crc16Shift(crc, n) ==
    LET reg16[k16 \in 0..n] == IF k16 = 0 THEN crc ELSE Crc16Step(reg16[k16 - 1]) IN reg16[n]

\* The body of the byte loop: crc ^= byte << 8, then eight bit passes.
Crc16Byte[crc \in Nat, b \in Int] == Crc16Shift(Xor(crc, (b * 256) % 65536), 8)

\* Mutant of calculate_crc16_ccitt: the byte is xored into the low end of
\* the register (crc ^= byte, as in the reflected CRC-16 variants).
Crc16ByteLow[crc \in Nat, b \in Byte] == Crc16Shift(Xor(crc, b), 8)

calculate_crc16_low_byte(data) ==
    LET c16m[i16m \in 0..Len(data)] ==
            IF i16m = 0 THEN 65535 ELSE Crc16ByteLow[c16m[i16m - 1], data[i16m]]
    IN  c16m[Len(data)]

calculate_crc16_ccitt(data) ==
    LET c16[i16 \in 0..Len(data)] ==
            IF i16 = 0 THEN 65535 ELSE Crc16Byte[c16[i16 - 1], data[i16]]
    IN  c16[Len(data)]

\* One byte after the header, as encode_isp_cmd appends it.
EscapeByte(b) ==
    CASE b = ISP_END -> isp_end_encode
      [] b = ISP_ESC -> isp_esc_encode
      [] OTHER       -> <<b>>

\* The loop of encode_isp_cmd over the bytes after the header.
RECURSIVE StuffBytes(_)
StuffBytes(bs) ==
    IF bs = <<>> THEN <<>> ELSE EscapeByte(Head(bs)) \o StuffBytes(Tail(bs))

\* Mutant of encode_isp_cmd: the 0xDB branch is missing, so an escape byte
\* of the payload goes on the wire unescaped.
RECURSIVE StuffEndOnly(_)
StuffEndOnly(bs) ==
    IF bs = <<>> THEN <<>>
    ELSE (IF Head(bs) = ISP_END THEN isp_end_encode ELSE <<Head(bs)>>)
           \o StuffEndOnly(Tail(bs))

encode_isp_cmd_no_esc(isp_cmd) ==
    <<ISP_END, Head(isp_cmd)>> \o StuffEndOnly(Tail(isp_cmd)) \o <<ISP_END>>

\* The first byte (0x52) is copied unescaped, every later byte is escaped,
\* and the result is wrapped in two 0xC0 delimiters.
encode_isp_cmd(isp_cmd) ==
    <<ISP_END, Head(isp_cmd)>> \o StuffBytes(Tail(isp_cmd)) \o <<ISP_END>>

\* int.to_bytes(2, "big")
U16BE(n) == <<n \div 256, n % 256>>

\* The frame before stuffing: header, sequence number, big-endian length,
\* checksum over sequence and length, payload, big-endian CRC-16 over all
\* of it.  bytes([ISP_HEADER, seq]) requires sn \in Byte.
FrameHeader(sn, cmd) == <<ISP_HEADER, sn>> \o U16BE(Len(cmd))

FrameBody(sn, cmd) ==
    FrameHeader(sn, cmd) \o <<calculate_checksum(Tail(FrameHeader(sn, cmd)))>> \o cmd

RawIspFrame(sn, cmd) ==
    FrameBody(sn, cmd) \o U16BE(calculate_crc16_ccitt(FrameBody(sn, cmd)))

creat_isp_frame(sn, cmd) == encode_isp_cmd(RawIspFrame(sn, cmd))

-----------------------------------------------------------------------------
(***************************************************************************)
(* Reference definitions, not taken from the code.                         *)
(***************************************************************************)

\* Marks a stuffed stream that is not the image of any byte string.
Invalid == -1

\* Inverse of the stuffing: 0xDB 0xDC -> 0xC0, 0xDB 0xDD -> 0xDB; a lone
\* 0xDB or a 0xC0 inside the body makes the stream invalid.
RECURSIVE Unstuff(_)
Unstuff(s) ==
    IF s = <<>> THEN <<>>
    ELSE IF Head(s) = ISP_END THEN <<Invalid>>
    ELSE IF Head(s) # ISP_ESC THEN <<Head(s)>> \o Unstuff(Tail(s))
    ELSE IF Len(s) >= 2 /\ s[2] = 220 THEN <<ISP_END>> \o Unstuff(Tail(Tail(s)))
    ELSE IF Len(s) >= 2 /\ s[2] = 221 THEN <<ISP_ESC>> \o Unstuff(Tail(Tail(s)))
    ELSE <<Invalid>>

DecodeIspFrame(enc) ==
    IF Len(enc) >= 2 /\ Head(enc) = ISP_END /\ Last(enc) = ISP_END
    THEN Unstuff(SubSeq(enc, 2, Len(enc) - 1))
    ELSE <<Invalid>>

\* Most significant bit first.
BitsOf(width, n) == [i \in 1..width |-> (n \div 2^(width - i)) % 2]

\* Long division by the generator gen of degree width (gen includes its
\* x^width term): the remainder r after bringing down the 8 bits of b.
DivideByte[r \in Nat, b \in Byte, width \in Nat, gen \in Nat] ==
    LET rem[j \in 0..8] ==
            IF j = 0 THEN r
            ELSE IF 2 * rem[j - 1] + BitsOf(8, b)[j] >= 2^width
                 THEN Xor(2 * rem[j - 1] + BitsOf(8, b)[j], gen)
                 ELSE 2 * rem[j - 1] + BitsOf(8, b)[j]
    IN  rem[8]

\* Remainder of the byte string bs, read as a polynomial over GF(2).
PolyRem(bs, width, gen) ==
    LET pr[i \in 0..Len(bs)] ==
            IF i = 0 THEN 0 ELSE DivideByte[pr[i - 1], bs[i], width, gen]
    IN  pr[Len(bs)]

\* A CRC of width w (a multiple of 8) whose register starts at I, run over
\* an n-bit message M, is the remainder of I * x^n + M * x^w; the two
\* remainders are taken apart and added (xor), division being linear.
CrcRef(width, gen, init, data) ==
    LET wbytes(v) == [i \in 1..width \div 8 |-> (v \div 256^(width \div 8 - i)) % 256]
        zbytes    == [i \in 1..Len(data) |-> 0]
    IN  Xor(PolyRem(wbytes(init) \o zbytes, width, gen),
            PolyRem(data \o wbytes(0), width, gen))
=============================================================================
