----------------------------- MODULE MCPalette ------------------------------
(* A small index register; a text palette shorter than it, a CGA palette  *)
(* just long enough for its four colours, a VGA palette for every index.  *)
EXTENDS Palette, TLC

Plain(n) == [i \in 1 .. n |-> <<4 * i, 4, 252>>]

MCModes ==
    (3 :> [kind |-> "TEXT", palette |-> Plain(5), sheight |-> 2]) @@
    (4 :> [kind |-> "CGA4", palette |-> Plain(8), sheight |-> 1]) @@
    (19 :> [kind |-> "VGA", palette |-> Plain(9), sheight |-> 1])

MCValue == <<70, 1, 63>>
\* One colour, and six: once round the text palette and an entry set twice,
\* over the end of the others.
MCBlocks == {<< <<6, 1, 63>> >>, [k \in 1 .. 6 |-> <<k, 9 * k, 200>>]}
MCInks == {1, 2, 131}
MCFill == {27, 228}
=============================================================================
