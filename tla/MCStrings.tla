----------------------------- MODULE MCStrings ------------------------------
(* Segments of a few offsets that overlap, bytes of a few values.          *)
EXTENDS Strings

MCMemory == 0 .. 7
MCContents ==
    {m \in [MCMemory -> 0 .. 1] : m[6] = m[7]}
=============================================================================
