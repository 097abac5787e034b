------------------------------- MODULE Handshake -------------------------------
(***************************************************************************)
(* The bootROM handshake of isp_tool.py main() (the link_phase 0/1 loop),  *)
(* together with the serial link and the bootROM it talks to.              *)
(*                                                                         *)
(* Client: each attempt resets the input buffer, writes one byte (0xAA in  *)
(* phase 0, 0x69 in phase 1), flushes, and reads one byte with the port's  *)
(* 1 ms timeout.  0x55 moves phase 0 to phase 1; 0x6A in phase 1 ends the  *)
(* loop.  The attempt budget is shared by both phases; when it is spent    *)
(* the program exits with -100.                                            *)
(*                                                                         *)
(* Link: bytes to the device travel in order and are consumed by the       *)
(* device; what the device sends travels in order, in chunks, into the     *)
(* port's input buffer.                                                    *)
(* Up to MaxLoss bytes may be lost and up to MaxNoise glitch bytes may be  *)
(* received.  With LateReplies a read may time out before the answer to    *)
(* the byte just written has arrived; without it every read waits until    *)
(* the device has answered and the answer has arrived.                     *)
(*                                                                         *)
(* Device (not code of this repository; an assumption): an "off" device    *)
(* ignores everything; in "boot" mode it answers 0xAA with 0x55 and moves  *)
(* to "acked"; in "acked" it answers 0xAA with 0x55 and 0x69 with 0x6A,    *)
(* moving to "isp"; in "isp" it answers every 0x69 with 0x6A again.        *)
(***************************************************************************)
EXTENDS Integers, Sequences

CONSTANTS HANDSHAKE_MAX_ATTEMPTS, \* the for-loop bound (250000 in the code)
          SERIAL_TIMEOUT_MS,      \* read timeout of the port (1 ms in the code)
          LateReplies,            \* may a read time out before the answer arrives?
          MaxLoss,                \* bound on bytes lost on the link
          MaxNoise,               \* bound on glitch bytes received
          NoiseBytes,             \* values a glitch byte can take
          DeviceInit              \* modes the device can be in at start

HANDSHAKE_MAX_SECONDS == 5
HANDSHAKE_START     == 170   \* 0xAA
HANDSHAKE_ACK       == 85    \* 0x55
HANDSHAKE_ISP_START == 105   \* 0x69
HANDSHAKE_ISP_READY == 106   \* 0x6A

\* An item on the link to the device: a single byte has sq = 0 and its value
\* in op; an ISP frame carries its sequence number, opcode and argument (an
\* address or offset, or 0).
TxByte(v) == [sq |-> 0, op |-> v, arg |-> 0]
\* A byte arriving at the host: sq = 0 for a handshake or glitch byte with
\* its value in off; byte off of the reply to frame sq otherwise.
RxByte(v) == [sq |-> 0, off |-> v]
\* What ser.read(1) returns on a timeout (b'').
NoByte == [sq |-> 0, off |-> -1]

VARIABLES linkPhase, \* link_phase of main()
          hsPc,      \* "send", "read", "ok" (loop left by break), "failed" (exit -100)
          attempt,   \* the loop variable of for attempt in range(...)
          waitedMs,  \* time spent in timed-out reads (history, not in the code)
          devMode,   \* "off", "boot", "acked" or "isp"
          toDevice,  \* items written and flushed, not yet consumed by the device
          toHost,    \* chunks sent by the device, not yet in the input buffer
          rx,        \* the port's input buffer
          lost,      \* bytes lost so far
          noise      \* glitch bytes received so far

hsVars == <<linkPhase, hsPc, attempt, waitedMs, devMode, toDevice, toHost, rx, lost, noise>>

HsInit == /\ linkPhase = 0
          /\ hsPc = "send"
          /\ attempt = 0
          /\ waitedMs = 0
          /\ devMode \in DeviceInit
          /\ toDevice = <<>>
          /\ toHost = <<>>
          /\ rx = <<>>
          /\ lost = 0
          /\ noise = 0

\* Mutant of AttemptsLeft: range(HANDSHAKE_MAX_ATTEMPTS + 1).
AttemptsLeftInclusive == attempt <= HANDSHAKE_MAX_ATTEMPTS

\* The for loop has another iteration.
AttemptsLeft == attempt < HANDSHAKE_MAX_ATTEMPTS

\* reset_input_buffer(); write(byte); flush() of one attempt.
HsSend == /\ hsPc = "send"
          /\ AttemptsLeft
          /\ rx' = <<>>
          /\ toDevice' = Append(toDevice, TxByte(IF linkPhase = 0 THEN HANDSHAKE_START
                                                               ELSE HANDSHAKE_ISP_START))
          /\ hsPc' = "read"
          /\ UNCHANGED <<linkPhase, attempt, waitedMs, devMode, toHost, lost, noise>>

\* The read may return only when the device has nothing left to answer,
\* unless answers may come late.
ReadMayReturn == LateReplies \/ (toDevice = <<>> /\ toHost = <<>>)

AckReceived(b) == b = RxByte(HANDSHAKE_ACK)

\* Mutant of IspReadyReceived: "if b:" accepts any byte that arrived.
IspReadyReceivedAny(b) == b # NoByte
\* Mutant of IspReadyReceived: the phase-0 constant compared in phase 1.
IspReadyReceivedAck(b) == b = RxByte(HANDSHAKE_ACK)

IspReadyReceived(b) == b = RxByte(HANDSHAKE_ISP_READY)

\* b = ser.read(1) and the test on it.  A phase-0 attempt moves to phase 1
\* on 0x55; a phase-1 attempt breaks out of the loop on 0x6A.  Otherwise
\* the loop goes on to the next attempt.
HsRead ==
    /\ hsPc = "read"
    /\ ReadMayReturn
    /\ LET b == IF rx = <<>> THEN NoByte ELSE Head(rx)
       IN  /\ rx' = IF rx = <<>> THEN <<>> ELSE Tail(rx)
           /\ waitedMs' = waitedMs + (IF rx = <<>> THEN SERIAL_TIMEOUT_MS ELSE 0)
           /\ IF linkPhase = 1 /\ IspReadyReceived(b)
                 THEN /\ hsPc' = "ok"
                      /\ linkPhase' = 2
                      /\ UNCHANGED attempt
                 ELSE /\ hsPc' = "send"
                      /\ linkPhase' = IF linkPhase = 0 /\ AckReceived(b) THEN 1 ELSE linkPhase
                      /\ attempt' = attempt + 1
    /\ UNCHANGED <<devMode, toDevice, toHost, lost, noise>>

\* The budget is spent without 0x6A: sys.exit(-100).
HsGiveUp == /\ hsPc = "send"
            /\ ~AttemptsLeft
            /\ hsPc' = "failed"
            /\ UNCHANGED <<linkPhase, attempt, waitedMs, devMode, toDevice, toHost, rx, lost, noise>>

HsClient == HsSend \/ HsRead \/ HsGiveUp

-----------------------------------------------------------------------------
(* The device and the link. *)

\* The device's answer to a handshake byte, and the mode it moves to.
DevAnswer(mode, v) ==
    IF (mode \in {"boot", "acked"} /\ v = HANDSHAKE_START) THEN <<<<RxByte(HANDSHAKE_ACK)>>>>
    ELSE IF (mode \in {"acked", "isp"} /\ v = HANDSHAKE_ISP_START) THEN <<<<RxByte(HANDSHAKE_ISP_READY)>>>>
    ELSE <<>>

DevMode(mode, v) ==
    IF mode = "boot" /\ v = HANDSHAKE_START THEN "acked"
    ELSE IF mode = "acked" /\ v = HANDSHAKE_ISP_START THEN "isp"
    ELSE mode

\* The device consumes a handshake byte.
DevRecvByte == /\ toDevice # <<>>
               /\ Head(toDevice).sq = 0
               /\ toHost' = toHost \o DevAnswer(devMode, Head(toDevice).op)
               /\ devMode' = DevMode(devMode, Head(toDevice).op)
               /\ toDevice' = Tail(toDevice)
               /\ UNCHANGED <<linkPhase, hsPc, attempt, waitedMs, rx, lost, noise>>

\* A chunk reaches the host's input buffer.
Deliver == /\ toHost # <<>>
           /\ rx' = rx \o Head(toHost)
           /\ toHost' = Tail(toHost)
           /\ UNCHANGED <<linkPhase, hsPc, attempt, waitedMs, devMode, toDevice, lost, noise>>

LoseToDevice == /\ lost < MaxLoss
                /\ toDevice # <<>>
                /\ toDevice' = Tail(toDevice)
                /\ lost' = lost + 1
                /\ UNCHANGED <<linkPhase, hsPc, attempt, waitedMs, devMode, toHost, rx, noise>>

LoseToHost == /\ lost < MaxLoss
              /\ toHost # <<>>
              /\ toHost' = Tail(toHost)
              /\ lost' = lost + 1
              /\ UNCHANGED <<linkPhase, hsPc, attempt, waitedMs, devMode, toDevice, rx, noise>>

Glitch == /\ noise < MaxNoise
          /\ \E v \in NoiseBytes : rx' = Append(rx, RxByte(v))
          /\ noise' = noise + 1
          /\ UNCHANGED <<linkPhase, hsPc, attempt, waitedMs, devMode, toDevice, toHost, lost>>

HsEnv == DevRecvByte \/ Deliver \/ LoseToDevice \/ LoseToHost \/ Glitch

HsNext == HsClient \/ HsEnv

\* The program runs and the device and link keep working; losses and
\* glitches are never forced.
HsFairness == /\ WF_hsVars(HsClient)
              /\ WF_hsVars(DevRecvByte)
              /\ WF_hsVars(Deliver)

HsSpec == HsInit /\ [][HsNext]_hsVars /\ HsFairness

-----------------------------------------------------------------------------
(* The refinement mapping onto HandshakeAbstract. *)

AbsState == CASE hsPc \in {"send", "read"} -> "idle"
              [] hsPc = "ok"               -> "ready"
              [] hsPc = "failed"           -> "failed"

Abs == INSTANCE HandshakeAbstract WITH hsState <- AbsState, devReady <- (devMode = "isp")
=============================================================================
