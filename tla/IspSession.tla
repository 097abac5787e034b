------------------------------ MODULE IspSession ------------------------------
(***************************************************************************)
(* One run of isp_tool.py main(): the handshake of module Handshake (only  *)
(* with --confirm), then link phase 2: ISP(ser, confirm) is created,       *)
(* get_flash_id() is issued, the CLI command is dispatched, and the port  *)
(* is closed.  Every ISP operation builds a frame with the current        *)
(* sequence_number, increments it, and (for the confirm-gated writes only *)
(* when confirm is set) runs execute_cmd(frame, None, ...).               *)
(*                                                                         *)
(* execute_cmd with status None, the only way main() calls it: write and  *)
(* flush the frame, read up to rx_count bytes within the timeout, reset   *)
(* the input and output buffers, return True.  The retry loop and the     *)
(* status comparison of execute_cmd are never reached from main().        *)
(*                                                                         *)
(* A frame is abstracted to its sequence number and opcode; a reply to    *)
(* it to bytes 0..REPLY_LEN-1, each labelled with the frame and its       *)
(* offset, sent by the device in two chunks (bytes 0..7 and the rest).    *)
(* The key read loop issues KeyWords reads (16 in the code).              *)
(*                                                                         *)
(* The try block of main() ends in three handlers that only print:         *)
(* serial.Serial() or a read or write of the port may raise                *)
(* SerialException (a missing or unplugged device), and Ctrl+C raises       *)
(* KeyboardInterrupt wherever main() is.  SerialTimeoutException is only   *)
(* raised by a write with a write_timeout, which main() never sets.  With  *)
(* Faults these exceptions may happen; every one ends main().              *)
(***************************************************************************)
EXTENDS Handshake

CONSTANTS ConfirmValues,  \* values of --confirm the run may be started with
          Commands,       \* CLI commands: "none", "register", "key_read_<name>",
                          \* "key_write_<name>" (name root, adac or other),
                          \* "key_verify", "debug", "test"
          PemExists,      \* values of Path(args.pem_file).is_file()
          KeyWords,       \* register reads of read_root/adac_public_key
          REPLY_LEN,      \* bytes of a reply that the model keeps
          Faults          \* may the port fail and the user press Ctrl+C?

OP_READ_REGISTER    == 1    \* 0x01
OP_WRITE_REGISTER   == 2    \* 0x02
OP_GET_FLASH_ID     == 4    \* 0x04
OP_VERIFY_SIGNATURE == 14   \* 0x0E
OP_REQUEST_DEBUG    == 15   \* 0x0F
OP_CHALLENGE_RESP   == 16   \* 0x10
OP_WRITE_OTP_REG    == 17   \* 0x11
OP_WRITE_OTP_KEY    == 18   \* 0x12

\* ISP.OTP2_BASE_ADDRESS (0x50000000 + 0x44000) and the key offsets that
\* write_root_public_key and write_adac_public_key pass to _write_otp_key.
OTP2_BASE_ADDRESS      == 1342455808
ROOT_PUBLIC_KEY_OFFSET == 0     \* 0x00
ADAC_PUBLIC_KEY_OFFSET == 64    \* 0x40

\* Operations that execute_cmd only sends when confirm is True.
GatedOps == {OP_WRITE_REGISTER, OP_VERIFY_SIGNATURE, OP_WRITE_OTP_REG, OP_WRITE_OTP_KEY}

\* rx_count of execute_cmd: 128 by default (more than any reply, so the read
\* ends at the timeout); 77 and 11, the expected reply lengths, for the two
\* debug commands (the read ends as soon as that many bytes are in).
RxCount(op) == IF op \in {OP_REQUEST_DEBUG, OP_CHALLENGE_RESP} THEN REPLY_LEN ELSE 128

VARIABLES confirm,    \* args.confirm
          command,    \* args.command (with key_action and --name folded in)
          pemOk,      \* the --pem-file exists
          pc,         \* where main() is
          seqNo,      \* ISP.sequence_number
          ePc,        \* execute_cmd: "idle", "tx", "rx", "reset", "ret"
          eFrame,     \* the frame execute_cmd is sending
          resp,       \* cmd_rx: what the read returned
          flashId,    \* response[8:12] of get_flash_id, with its frame
          words,      \* the words key.extend()ed by the key read loop
          challenge,  \* response[10:74] of the debug request, with its frame
          devLog      \* frames the device consumed, in order (history)

sVars == <<confirm, command, pemOk, pc, seqNo, ePc, eFrame, resp, flashId, words,
           challenge, devLog>>
vars == <<hsVars, sVars>>

NoValue == [sq |-> 0, first |-> 0, val |-> <<>>]

\* Python's s[lo:hi] on a sequence (offsets from 0, clamped to the end).
PySlice(s, lo, hi) == SubSeq(s, lo + 1, IF hi < Len(s) THEN hi ELSE Len(s))

\* The device's reply to frame sq, in two chunks.
ReplyChunks(sq) == << [k \in 1..8 |-> [sq |-> sq, off |-> k - 1]],
                      [k \in 1..REPLY_LEN - 8 |-> [sq |-> sq, off |-> k + 7]] >>

Init == /\ confirm \in ConfirmValues
        /\ command \in Commands
        /\ pemOk \in PemExists
        \* link_phase = 0 if args.confirm else 2
        /\ linkPhase = IF confirm THEN 0 ELSE 2
        /\ hsPc = IF confirm THEN "send" ELSE "ok"
        /\ attempt = 0
        /\ waitedMs = 0
        /\ devMode \in DeviceInit
        /\ toDevice = <<>>
        /\ toHost = <<>>
        /\ rx = <<>>
        /\ lost = 0
        /\ noise = 0
        /\ pc = "open"
        /\ seqNo = 0
        /\ ePc = "idle"
        /\ eFrame = [sq |-> 0, op |-> 0, arg |-> 0]
        /\ resp = <<>>
        /\ flashId = NoValue
        /\ words = <<>>
        /\ challenge = NoValue
        /\ devLog = <<>>

-----------------------------------------------------------------------------
(* execute_cmd(cmd, None, timeout, rx_count) and send_cmd. *)

\* The caller hands execute_cmd a frame.
StartExec(sq, op, arg) == /\ eFrame' = [sq |-> sq, op |-> op, arg |-> arg]
                     /\ ePc' = "tx"

\* send_cmd: ser.write(cmd_string); ser.flush()
ExecTx == /\ ePc = "tx"
          /\ toDevice' = Append(toDevice, eFrame)
          /\ ePc' = "rx"
          /\ UNCHANGED <<linkPhase, hsPc, attempt, waitedMs, devMode, toHost, rx, lost, noise>>
          /\ UNCHANGED <<confirm, command, pemOk, pc, seqNo, eFrame, resp, flashId, words,
                         challenge, devLog>>

\* Mutant of ReadReturns: a read without a timeout (ser.timeout = None)
\* waits for all rx_count bytes.
ReadReturnsBlocking == Len(rx) >= RxCount(eFrame.op)

\* ser.read(rx_len) returns once rx_len bytes are in or the timeout expires.
ReadReturns == Len(rx) >= RxCount(eFrame.op) \/ ReadMayReturn

\* rx_data = self.ser.read(rx_len): up to rx_len bytes of the input buffer.
ExecRx == /\ ePc = "rx"
          /\ ReadReturns
          /\ LET n == IF Len(rx) < RxCount(eFrame.op) THEN Len(rx) ELSE RxCount(eFrame.op)
             IN  /\ resp' = SubSeq(rx, 1, n)
                 /\ rx' = SubSeq(rx, n + 1, Len(rx))
          /\ ePc' = "reset"
          /\ UNCHANGED <<linkPhase, hsPc, attempt, waitedMs, devMode, toDevice, toHost, lost, noise>>
          /\ UNCHANGED <<confirm, command, pemOk, pc, seqNo, eFrame, flashId, words,
                         challenge, devLog>>

\* status is None: reset_input_buffer(); reset_output_buffer(); return
\* True, cmd_rx.  The output was flushed, so only the input buffer changes.
ExecReset == /\ ePc = "reset"
             /\ rx' = <<>>
             /\ ePc' = "ret"
             /\ UNCHANGED <<linkPhase, hsPc, attempt, waitedMs, devMode, toDevice, toHost, lost, noise>>
             /\ UNCHANGED <<confirm, command, pemOk, pc, seqNo, eFrame, resp, flashId, words,
                            challenge, devLog>>

Exec == ExecTx \/ ExecRx \/ ExecReset

-----------------------------------------------------------------------------
(* main() after the handshake, and the ISP methods it calls. *)

\* ser = serial.Serial(args.port, baud_rate, timeout=0.001) opens the port.
OpenPort == /\ pc = "open"
            /\ pc' = "handshake"
            /\ UNCHANGED hsVars
            /\ UNCHANGED <<confirm, command, pemOk, seqNo, ePc, eFrame, resp, flashId, words,
                           challenge, devLog>>

\* A step of the handshake loop (link_phase 0 or 1).
HsStep == /\ pc = "handshake"
          /\ HsClient
          /\ UNCHANGED sVars

\* link_phase == 2: isp = ISP(ser, args.confirm) sets sequence_number = 1.
EnterPhase2 == /\ pc = "handshake"
               /\ hsPc = "ok"
               /\ seqNo' = 1
               /\ pc' = "flash_id"
               /\ UNCHANGED hsVars
               /\ UNCHANGED <<confirm, command, pemOk, ePc, eFrame, resp, flashId, words,
                              challenge, devLog>>

\* Mutant of HandshakeFailed: the sys.exit(-100) is missing and main()
\* goes on to link phase 2.
HandshakeFailedContinues ==
    /\ pc = "handshake"
    /\ hsPc = "failed"
    /\ seqNo' = 1
    /\ pc' = "flash_id"
    /\ UNCHANGED hsVars
    /\ UNCHANGED <<confirm, command, pemOk, ePc, eFrame, resp, flashId, words, challenge, devLog>>

\* if not received_hand_shake: sys.exit(-100), without ser.close().
HandshakeFailed == /\ pc = "handshake"
                   /\ hsPc = "failed"
                   /\ pc' = "exited"
                   /\ UNCHANGED hsVars
                   /\ UNCHANGED <<confirm, command, pemOk, seqNo, ePc, eFrame, resp, flashId,
                                  words, challenge, devLog>>

\* The --name of a key command.
KeyName(c) == CASE c \in {"key_read_root", "key_write_root"} -> "root"
                [] c \in {"key_read_adac", "key_write_adac"} -> "adac"
                [] OTHER                                     -> "other"

\* What main() does after get_flash_id(), by CLI command.  "test" runs
\* test_adac(), which signs a fixed vector without any I/O; "register"
\* has no branch; a key read of another name prints "Unknown key name",
\* a key write of another name does nothing; all of them break.
Dispatch(c) == CASE c \in {"key_read_root", "key_read_adac"}   -> "read_reg"
                 [] c \in {"key_write_root", "key_write_adac"} -> "write_key"
                 [] c = "key_verify"                          -> "verify"
                 [] c = "debug"                               -> "debug_pem"
                 [] OTHER                                     -> "close"

\* get_flash_id(): frame with the current sequence number, increment,
\* execute_cmd(cmd_frame, None, 100).
GetFlashId == /\ pc = "flash_id"
              /\ seqNo' = seqNo + 1
              /\ StartExec(seqNo, OP_GET_FLASH_ID, 0)
              /\ pc' = "flash_id_wait"
              /\ UNCHANGED hsVars
              /\ UNCHANGED <<confirm, command, pemOk, resp, flashId, words, challenge, devLog>>

\* The result is True (status None), so no RuntimeError: the id is
\* response[8:12]; then main() dispatches on the command.
GetFlashIdDone == /\ pc = "flash_id_wait"
                  /\ ePc = "ret"
                  /\ ePc' = "idle"
                  /\ flashId' = [sq |-> eFrame.sq, first |-> 8, val |-> PySlice(resp, 8, 12)]
                  /\ pc' = Dispatch(command)
                  /\ UNCHANGED hsVars
                  /\ UNCHANGED <<confirm, command, pemOk, seqNo, eFrame, resp, words, challenge,
                                 devLog>>

\* Mutant of KeyFirstIndex: read_adac_public_key starts one word early.
KeyFirstIndexEarly(n) == IF n = "root" THEN 0 ELSE 15

\* The first index of the loop: range(0, 16) for root, range(16, 32)
\* for adac.
KeyFirstIndex(n) == IF n = "root" THEN 0 ELSE 16

\* address = ISP.OTP2_BASE_ADDRESS + index * 4 for the k-th read (from 0).
RegisterAddress(n, k) == OTP2_BASE_ADDRESS + (KeyFirstIndex(n) + k) * 4

\* Mutant of ReadRegister: sequence_number is not incremented.
ReadRegisterNoIncrement == /\ pc = "read_reg"
                           /\ UNCHANGED seqNo
                           /\ StartExec(seqNo, OP_READ_REGISTER, RegisterAddress(KeyName(command), Len(words)))
                           /\ pc' = "read_reg_wait"
                           /\ UNCHANGED hsVars
                           /\ UNCHANGED <<confirm, command, pemOk, resp, flashId, words,
                                          challenge, devLog>>

\* One iteration of the loop of read_root_public_key (read_adac_public_key
\* is the same loop over other addresses): read_register(address).
ReadRegister == /\ pc = "read_reg"
                /\ seqNo' = seqNo + 1
                /\ StartExec(seqNo, OP_READ_REGISTER, RegisterAddress(KeyName(command), Len(words)))
                /\ pc' = "read_reg_wait"
                /\ UNCHANGED hsVars
                /\ UNCHANGED <<confirm, command, pemOk, resp, flashId, words, challenge, devLog>>

\* return response[8:12]
RegisterWord(r) == PySlice(r, 8, 12)

\* Mutant of KeyLoopContinues: range(0, 17), one read too many.
KeyLoopContinuesInclusive(n) == n <= KeyWords

\* for index in range(0, 16) has an iteration after the n-th.
KeyLoopContinues(n) == n < KeyWords

\* key.extend(self.read_register(address)), and the next iteration of
\* for index in range(0, 16), or the key is printed and main() breaks.
ReadRegisterDone == /\ pc = "read_reg_wait"
                    /\ ePc = "ret"
                    /\ ePc' = "idle"
                    /\ words' = Append(words, [sq |-> eFrame.sq, first |-> 8,
                                               val |-> RegisterWord(resp)])
                    /\ pc' = IF KeyLoopContinues(Len(words) + 1) THEN "read_reg" ELSE "close"
                    /\ UNCHANGED hsVars
                    /\ UNCHANGED <<confirm, command, pemOk, seqNo, eFrame, resp, flashId,
                                   challenge, devLog>>

\* The offset the key write of name n passes to _write_otp_key.
OtpKeyOffset(n) == IF n = "root" THEN ROOT_PUBLIC_KEY_OFFSET ELSE ADAC_PUBLIC_KEY_OFFSET

\* Mutant of WriteOtpKey: the "if self.confirm is True" gate is missing.
WriteOtpKeyUngated == /\ pc = "write_key"
                      /\ seqNo' = seqNo + 1
                      /\ StartExec(seqNo, OP_WRITE_OTP_KEY, OtpKeyOffset(KeyName(command)))
                      /\ pc' = "gated_wait"
                      /\ UNCHANGED hsVars
                      /\ UNCHANGED <<confirm, command, pemOk, resp, flashId, words, challenge,
                                     devLog>>

\* A confirm-gated operation op with argument arg: the frame is built and
\* the sequence number incremented whatever confirm is; execute_cmd only
\* if confirm.
GatedOp(op, arg) == /\ seqNo' = seqNo + 1
                    /\ IF confirm
                          THEN StartExec(seqNo, op, arg) /\ pc' = "gated_wait"
                          ELSE UNCHANGED <<ePc, eFrame>> /\ pc' = "close"
                    /\ UNCHANGED hsVars
                    /\ UNCHANGED <<confirm, command, pemOk, resp, flashId, words, challenge, devLog>>

\* The DER's bytes [27:59] and [59:], each reversed, go to
\* write_root_public_key / write_adac_public_key -> _write_otp_key(offset, key)
WriteOtpKey == pc = "write_key" /\ GatedOp(OP_WRITE_OTP_KEY, OtpKeyOffset(KeyName(command)))

\* verify_bootloader_signature()
VerifyBootloaderSignature == pc = "verify" /\ GatedOp(OP_VERIFY_SIGNATURE, 0)

\* The result of the gated execute_cmd is discarded (_, _ = ...).
GatedDone == /\ pc = "gated_wait"
             /\ ePc = "ret"
             /\ ePc' = "idle"
             /\ pc' = "close"
             /\ UNCHANGED hsVars
             /\ UNCHANGED <<confirm, command, pemOk, seqNo, eFrame, resp, flashId, words,
                            challenge, devLog>>

\* if not pem_file.is_file(): sys.exit(1), without ser.close().
DebugPemCheck == /\ pc = "debug_pem"
                 /\ pc' = IF pemOk THEN "debug_req" ELSE "exited"
                 /\ UNCHANGED hsVars
                 /\ UNCHANGED <<confirm, command, pemOk, seqNo, ePc, eFrame, resp, flashId,
                                words, challenge, devLog>>

\* enable_debug_interface: request_debug_secure_debug, rx_count 77.
RequestDebug == /\ pc = "debug_req"
                /\ seqNo' = seqNo + 1
                /\ StartExec(seqNo, OP_REQUEST_DEBUG, 0)
                /\ pc' = "debug_req_wait"
                /\ UNCHANGED hsVars
                /\ UNCHANGED <<confirm, command, pemOk, resp, flashId, words, challenge, devLog>>

\* challenge = response[10:74] (unchecked: it may be short or empty); the
\* signature over sha256(cd + challenge) is computed (no state of its own)
\* and send_challenge_response goes out with the next sequence number,
\* rx_count 11.
SendChallengeResponse ==
    /\ pc = "debug_req_wait"
    /\ ePc = "ret"
    /\ challenge' = [sq |-> eFrame.sq, first |-> 10, val |-> PySlice(resp, 10, 74)]
    /\ seqNo' = seqNo + 1
    /\ StartExec(seqNo, OP_CHALLENGE_RESP, 0)
    /\ pc' = "debug_resp_wait"
    /\ UNCHANGED hsVars
    /\ UNCHANGED <<confirm, command, pemOk, resp, flashId, words, devLog>>

\* The final response is ignored.
DebugDone == /\ pc = "debug_resp_wait"
             /\ ePc = "ret"
             /\ ePc' = "idle"
             /\ pc' = "close"
             /\ UNCHANGED hsVars
             /\ UNCHANGED <<confirm, command, pemOk, seqNo, eFrame, resp, flashId, words,
                            challenge, devLog>>

\* break out of while True; ser.close().
Close == /\ pc = "close"
         /\ pc' = "closed"
         /\ UNCHANGED hsVars
         /\ UNCHANGED <<confirm, command, pemOk, seqNo, ePc, eFrame, resp, flashId, words,
                        challenge, devLog>>

Client == \/ OpenPort \/ HsStep \/ EnterPhase2 \/ HandshakeFailed
          \/ GetFlashId \/ GetFlashIdDone \/ ReadRegister \/ ReadRegisterDone
          \/ WriteOtpKey \/ VerifyBootloaderSignature \/ GatedDone
          \/ DebugPemCheck \/ RequestDebug \/ SendChallengeResponse \/ DebugDone
          \/ Close

-----------------------------------------------------------------------------
(* The except clauses of main(). *)

\* main() has returned, or sys.exit has been called.
Ended == {"closed", "exited", "excepted"}

\* The exception unwinds execute_cmd and the loop; the handler prints and
\* main() returns, ser.close() skipped.
Abort == /\ pc' = "excepted"
         /\ ePc' = "idle"
         /\ UNCHANGED hsVars
         /\ UNCHANGED <<confirm, command, pemOk, seqNo, eFrame, resp, flashId, words,
                        challenge, devLog>>

\* The port does I/O: serial.Serial() opening it, a handshake attempt
\* (reset_input_buffer, write, flush, read), or send_cmd and the buffer
\* resets of execute_cmd.
DoingIo == \/ pc = "open"
           \/ pc = "handshake" /\ (hsPc = "read" \/ (hsPc = "send" /\ AttemptsLeft))
           \/ ePc \in {"tx", "rx", "reset"}

\* except serial.SerialException: the port is gone.
SerialError == Faults /\ DoingIo /\ Abort

\* except KeyboardInterrupt: Ctrl+C anywhere in the try block.
Interrupt == Faults /\ pc \notin Ended /\ Abort

-----------------------------------------------------------------------------
(* The device's ISP mode (an assumption: the firmware is not in the
   repository).  In ISP mode it answers every frame; in any other mode
   it drops frames. *)

DevRecvFrame == /\ toDevice # <<>>
                /\ Head(toDevice).sq > 0
                /\ devLog' = Append(devLog, [sq |-> Head(toDevice).sq, op |-> Head(toDevice).op,
                                             arg |-> Head(toDevice).arg, handled |-> devMode = "isp"])
                /\ toHost' = IF devMode = "isp" THEN toHost \o ReplyChunks(Head(toDevice).sq)
                                                ELSE toHost
                /\ toDevice' = Tail(toDevice)
                /\ UNCHANGED <<linkPhase, hsPc, attempt, waitedMs, devMode, rx, lost, noise>>
                /\ UNCHANGED <<confirm, command, pemOk, pc, seqNo, ePc, eFrame, resp, flashId,
                               words, challenge>>

Env == (HsEnv /\ UNCHANGED sVars) \/ DevRecvFrame

Next == Client \/ Exec \/ SerialError \/ Interrupt \/ Env

\* main() runs to its end; the device answers and the link delivers.
\* Exceptions are never forced.
Fairness == /\ WF_vars(Client)
            /\ WF_vars(Exec)
            /\ WF_vars(DevRecvByte /\ UNCHANGED sVars)
            /\ WF_vars(DevRecvFrame)
            /\ WF_vars(Deliver /\ UNCHANGED sVars)

Spec == Init /\ [][Next]_vars /\ Fairness
=============================================================================
