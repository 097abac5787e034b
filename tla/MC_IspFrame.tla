------------------------------ MODULE MC_IspFrame ------------------------------
(***************************************************************************)
(* Checks the frame codec over every payload of up to MaxPayload bytes     *)
(* drawn from PayloadBytes and every sequence number in SeqBytes.  Each    *)
(* step builds one frame, as creat_isp_frame does for one command.         *)
(***************************************************************************)
EXTENDS IspFrame, FiniteSets

CONSTANTS SeqBytes, PayloadBytes, MaxPayload

ASSUME SeqBytes \subseteq Byte /\ PayloadBytes \subseteq Byte

VARIABLES seqNo, payload, frame

vars == <<seqNo, payload, frame>>

Init == /\ seqNo = 1
        /\ payload = <<>>
        /\ frame = creat_isp_frame(1, <<>>)

\* One call of creat_isp_frame(seqNo, payload).
Build == \E sn0 \in SeqBytes, pl \in BoundedSeq(PayloadBytes, MaxPayload) :
            /\ seqNo' = sn0
            /\ payload' = pl
            /\ frame' = creat_isp_frame(sn0, pl)

Next == Build

Spec == Init /\ [][Next]_vars

TypeOK == /\ seqNo \in Byte
          /\ payload \in Seq(Byte)
          /\ frame \in Seq(Byte)

\* Byte stuffing is reversible: stripping the 0xC0 delimiters and undoing
\* the 0xDB escapes of encode_isp_cmd gives back exactly the raw frame, so
\* the header, sequence, length, payload and CRC all survive a payload or
\* sequence number that contains 0xC0, 0xDB, 0xDC or 0xDD.
FrameRoundTrip == DecodeIspFrame(frame) = RawIspFrame(seqNo, payload)

\* The bitwise CRC-16 loop of calculate_crc16_ccitt, applied to the frame
\* as creat_isp_frame does, equals the remainder of the polynomial
\* division that defines CRC-16/CCITT-FALSE (poly 0x1021, init 0xFFFF),
\* and the check value of "123456789" is 0x29B1.
Crc16MatchesReference ==
    LET body == SubSeq(RawIspFrame(seqNo, payload), 1, 5 + Len(payload))
    IN  /\ calculate_crc16_ccitt(body) = CrcRef(16, 69665, 65535, body)
        /\ calculate_crc16_ccitt(<<49, 50, 51, 52, 53, 54, 55, 56, 57>>) = 10673

\* calculate_crc8 (poly 0xD5, init 0) over the payload equals the
\* polynomial-division CRC-8, with check value 0xBC for "123456789".
Crc8MatchesReference ==
    /\ calculate_crc8(payload) = CrcRef(8, 469, 0, payload)
    /\ calculate_crc8(<<49, 50, 51, 52, 53, 54, 55, 56, 57>>) = 188
=============================================================================
