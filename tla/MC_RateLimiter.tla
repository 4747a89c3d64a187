--------------------------- MODULE MC_RateLimiter ---------------------------
(* Small instances of RateLimiter for TLC. *)
EXTENDS RateLimiter, TLC

MCLimit == "minute" :> 1 @@ "day" :> 2

\* The least limits that two goroutines can share, reach and exceed.
MCSharedLimit == "minute" :> 2 @@ "day" :> 2

\* For the run that checks safety alone.
MCClients == Permutations(Client)
=============================================================================
