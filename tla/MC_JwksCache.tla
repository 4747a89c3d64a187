---------------------------- MODULE MC_JwksCache ----------------------------
(* Small instances of JwksCache for TLC. *)
EXTENDS JwksCache, TLC

CONSTANTS k1, k2

\* A rotation from k1 to k2 with a moment in which nothing usable is published,
\* and back.
Rotations ==
  <<k1 :> "usable" @@ k2 :> "absent",
    k1 :> "unusable" @@ k2 :> "absent",
    k1 :> "absent" @@ k2 :> "usable",
    k1 :> "usable" @@ k2 :> "usable">>

MCRotations == [v \in 0..3 |-> Rotations[v + 1]]
=============================================================================
