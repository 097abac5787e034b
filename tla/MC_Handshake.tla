----------------------------- MODULE MC_Handshake -----------------------------
(***************************************************************************)
(* Model-checking instance of the handshake: the client loop, the link and *)
(* the bootROM, with the code's budget replaced by a small one (named in   *)
(* the cfg).                                                               *)
(***************************************************************************)
EXTENDS Handshake

TypeOK ==
    /\ linkPhase \in {0, 1, 2}
    /\ hsPc \in {"send", "read", "ok", "failed"}
    /\ attempt \in 0..HANDSHAKE_MAX_ATTEMPTS
    /\ waitedMs \in Nat
    /\ devMode \in {"off", "boot", "acked", "isp"}
    /\ toDevice \in Seq([sq : {0}, op : {HANDSHAKE_START, HANDSHAKE_ISP_START}, arg : {0}])
    /\ toHost \in Seq(Seq([sq : {0}, off : {HANDSHAKE_ACK, HANDSHAKE_ISP_READY}]))
    /\ rx \in Seq([sq : {0}, off : {HANDSHAKE_ACK, HANDSHAKE_ISP_READY} \cup NoiseBytes])
    /\ lost \in 0..MaxLoss
    /\ noise \in 0..MaxNoise

\* The handshake loop implements HandshakeAbstract: the client leaves the
\* loop exactly once, declares the link ready only at a moment the bootROM
\* really is in ISP mode (so no frame goes to a device that would ignore
\* it), and always reaches a verdict, however bytes are lost, delayed or
\* corrupted on the link.
HandshakeRefinement == Abs!Spec
=============================================================================
