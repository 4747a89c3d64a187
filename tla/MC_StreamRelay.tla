--------------------------- MODULE MC_StreamRelay ---------------------------
(***************************************************************************)
(* Instances of StreamRelay for TLC.  Text of no, less than one and more   *)
(* than one token.                                                         *)
(***************************************************************************)
EXTENDS StreamRelay

MCLength == {0, 3, 9}
=============================================================================
