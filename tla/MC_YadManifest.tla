--------------------------- MODULE MC_YadManifest ---------------------------
(* Small instances of YadManifest for TLC. *)
EXTENDS YadManifest, TLC

\* A URL is set, taken back, and replaced by another.
MCChangingURLs == 0 :> "ok" @@ 1 :> "none" @@ 2 :> "ok"
=============================================================================
