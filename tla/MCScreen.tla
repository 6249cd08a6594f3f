------------------------------ MODULE MCScreen ------------------------------
(* Three kinds of mode with few rows and columns, two pages, one bound.    *)
EXTENDS Screen, TLC

MCModes ==
    (3 :> [kind |-> "TEXT", cols |-> 3, rows |-> 2, cheight |-> 16, pages |-> 8, size |-> 520]) @@
    (4 :> [kind |-> "CGA4", cols |-> 2, rows |-> 2, cheight |-> 8, pages |-> 1,
           size |-> 32]) @@
    (19 :> [kind |-> "VGA", cols |-> 2, rows |-> 2, cheight |-> 8, pages |-> 1,
           size |-> 32])

MCStrings ==
    {<<[chr |-> "A", attr |-> 7], [chr |-> "A", attr |-> 135]>>,
     <<[chr |-> "A", attr |-> 135], [chr |-> LF, attr |-> 7], [chr |-> BS, attr |-> 7]>>}

MCControls == {<<10, 0>>, <<14, 1>>}
=============================================================================
