---------------------------- MODULE MC_IspSession ----------------------------
(***************************************************************************)
(* Model-checking instance of a whole run of main(): every CLI command,    *)
(* with and without --confirm, against a device that is off, waiting in    *)
(* the bootROM, or already in ISP mode.                                    *)
(***************************************************************************)
EXTENDS IspSession

Byte == [sq : 0..(2 + KeyWords), off : -1..255]

\* The argument of a frame: a register address of a key read, a key
\* offset, or 0.
Arg == {0, ROOT_PUBLIC_KEY_OFFSET, ADAC_PUBLIC_KEY_OFFSET}
       \cup {RegisterAddress(n, k) : n \in {"root", "adac"}, k \in 0..(KeyWords - 1)}

Frame == [sq : 0..(2 + KeyWords), op : 0..255, arg : Arg]

Value == [sq : 0..(2 + KeyWords), first : {0, 8, 10}, val : Seq(Byte)]

TypeOK ==
    /\ confirm \in BOOLEAN
    /\ command \in Commands
    /\ pemOk \in BOOLEAN
    /\ pc \in {"open", "handshake", "flash_id", "flash_id_wait", "read_reg", "read_reg_wait",
               "write_key", "verify", "gated_wait", "debug_pem", "debug_req",
               "debug_req_wait", "debug_resp_wait", "close", "closed", "exited", "excepted"}
    /\ seqNo \in 0..(3 + KeyWords)
    /\ ePc \in {"idle", "tx", "rx", "reset", "ret"}
    /\ eFrame \in Frame
    /\ resp \in Seq(Byte)
    /\ flashId \in Value
    /\ words \in Seq(Value)
    /\ Len(words) <= KeyWords
    /\ challenge \in Value
    /\ devLog \in Seq([sq : 1..(2 + KeyWords), op : 0..255, arg : Arg, handled : BOOLEAN])

\* The confirm gate of verify_bootloader_signature, write_register and
\* the OTP writes: a run without --confirm never gets a write or verify
\* frame to the device, whatever else it sends.
WritesOnlyWhenConfirmed ==
    \A i \in DOMAIN devLog : devLog[i].op \in GatedOps => confirm

\* With --confirm, the handshake loop and sys.exit(-100) together make sure
\* that every frame main() sends reaches a device in ISP mode: none is
\* dropped by a bootROM that never answered 0x6A.
FramesReachIspDevice ==
    confirm => \A i \in DOMAIN devLog : devLog[i].handled

\* sequence_number is incremented once per command built (gated or not),
\* so the device sees strictly increasing sequence numbers.
SeqNumbersIncrease ==
    \A i, j \in DOMAIN devLog : i < j => devLog[i].sq < devLog[j].sq

\* The key that read_root_public_key or read_adac_public_key assembles
\* holds, at word k, the reply to a register read of the OTP word k of
\* the region that write_root_public_key or write_adac_public_key of the
\* same --name writes (OTP2_BASE_ADDRESS plus its key offset): the index
\* range of the read loop, the address arithmetic and the order of
\* key.extend agree with the offsets of the write.
KeyWordsFromKeyRegion ==
    \A k \in DOMAIN words :
        \E i \in DOMAIN devLog :
            /\ devLog[i].sq = words[k].sq
            /\ devLog[i].op = OP_READ_REGISTER
            /\ devLog[i].arg = OTP2_BASE_ADDRESS + OtpKeyOffset(KeyName(command)) + 4 * (k - 1)

\* A value main() takes out of a response (the flash id, each word of the
\* key, the debug challenge) consists only of the bytes of the reply to
\* the frame it sent for it, at the offsets the code slices.  (It may be
\* short when the device dropped the frame.)
FromOwnReply(v) == \A k \in DOMAIN v.val : v.val[k] = [sq |-> v.sq, off |-> v.first + k - 1]

ResponsesFromOwnReplies ==
    /\ FromOwnReply(flashId)
    /\ FromOwnReply(challenge)
    /\ \A i \in DOMAIN words : FromOwnReply(words[i])

\* With --confirm and a device waiting in the bootROM, on a link that loses
\* and corrupts nothing and answers within the read timeout, the handshake
\* loop of main() always ends with 0x6A received (0xAA answered by 0x55,
\* then 0x69 by 0x6A) and never with sys.exit(-100).
ReliableLinkSucceeds == (confirm /\ devMode = "boot") => <>(hsPc = "ok")

\* Every run of main() ends: it closes the port, calls sys.exit, or returns
\* from an except handler.
SessionTerminates == <>(pc \in Ended)

\* Spec section 3: with confirm = false commands are only logged and built,
\* never transmitted to the hardware.
DryRunNeverTransmits == ~confirm => devLog = <<>>
=============================================================================
