------------------------------- MODULE MC_Chat -------------------------------
(* Small instances of Chat for TLC. *)
EXTENDS Chat, TLC

CONSTANTS free, paid, live

\* One route per kind of adapter; one asks for a tier tierRank does not name.
MCProvider == free :> "openai" @@ paid :> "anthropic" @@ live :> "gemini"
MCTierMin == free :> "gold" @@ paid :> "pro" @@ live :> "free"
=============================================================================
