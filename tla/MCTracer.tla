------------------------------ MODULE MCTracer ------------------------------
(* Every ROM of five bytes over these instructions; one byte before it.    *)
EXTENDS Tracer

Ins(op, len, to) == [op |-> op, len |-> len, to |-> to]

MCInstructions ==
    {Ins("jump", 1, NoAddress), Ins("int21", 2, 0), Ins("int", 2, 0),
     Ins("jump", 2, 4), Ins("branch", 2, 0), Ins("call", 1, 3), Ins("load", 1, 4), Ins("spoil", 1, 0),
     Ins("setah", 1, 9), Ins("setah", 1, 76), Ins("setdx", 1, 4), Ins("incdx", 1, 0)}

MCOutside == Ins("plain", 1, 0)
=============================================================================
