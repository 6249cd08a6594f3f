------------------------------- MODULE MCPit -------------------------------
(* Instances of Pit for TLC: a short day, and the last value of the counter, *)
(* whose two low bytes a tick changes both.                                  *)
EXTENDS Pit

MCChannels == {0, 2}
MCInitTimes == {1}
MCSetTimes == {131071}
MCBytes == {34}
=============================================================================
