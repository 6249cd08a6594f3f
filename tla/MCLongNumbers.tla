--------------------------- MODULE MCLongNumbers ---------------------------
(***************************************************************************)
(* The instance of LongNumbers for TLC: words of three bits, numbers of    *)
(* one and two words, immediates of two bits.                              *)
(***************************************************************************)
EXTENDS LongNumbers

=============================================================================
