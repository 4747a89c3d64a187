--------------------------- MODULE MC_RoutingCache ---------------------------
(* Small instances of RoutingCache for TLC. *)
EXTENDS RoutingCache, TLC

CONSTANTS m1, m2

\* The admin first offers m1, then breaks the only entry (no API key, say: the
\* list is unusable), then replaces it by m2.
ShrinkingEntries ==
  <<m1 :> "complete" @@ m2 :> "incomplete",
    m1 :> "incomplete" @@ m2 :> "absent",
    m1 :> "absent" @@ m2 :> "complete">>

\* m1 is offered all along; m2 comes and goes.
SteadyEntries ==
  <<m1 :> "complete" @@ m2 :> "absent",
    m1 :> "complete" @@ m2 :> "complete",
    m1 :> "complete" @@ m2 :> "incomplete">>

MCShrinking == [v \in 0..2 |-> ShrinkingEntries[v + 1]]
MCSteady == [v \in 0..1 |-> SteadyEntries[v + 1]]
=============================================================================
