--------------------------- MODULE MCMoverProtocol ---------------------------
(***************************************************************************)
(* MoverProtocol for TLC: who is connected to whom.                         *)
(***************************************************************************)
EXTENDS MoverProtocol

CONSTANTS a, b, c

OneLink == {<<a, b>>}
NoEnds == {}
AllEnds == Ends
=============================================================================
