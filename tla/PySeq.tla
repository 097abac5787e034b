-------------------------------- MODULE PySeq --------------------------------
(***************************************************************************)
(* Python's slicing of bytes, shared by the signing tools that cut fields  *)
(* out of DER files.                                                       *)
(***************************************************************************)
EXTENDS Integers, Sequences

\* Python's s[a:b] for 0 <= a: the bounds are clipped to len(s).
PySlice(s, a, b) ==
    IF a >= Len(s) \/ a >= b THEN <<>> ELSE SubSeq(s, a + 1, IF b < Len(s) THEN b ELSE Len(s))
=============================================================================
