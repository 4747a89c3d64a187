------------------------------- MODULE MC_Ready -------------------------------
(* Small instances of Ready for TLC. *)
EXTENDS Ready, TLC

CONSTANTS m1

\* The admin repairs the only entry.
MCRepaired == [v \in 0..1 |-> m1 :> IF v = 0 THEN "incomplete" ELSE "complete"]
=============================================================================
