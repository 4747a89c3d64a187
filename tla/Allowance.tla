------------------------------ MODULE Allowance ------------------------------
(***************************************************************************)
(* What the rate limiter promises to a subject, with nothing of how it     *)
(* counts: in each window there is a number of requests left, from which   *)
(* every request that is let through takes one; a straggler of an earlier  *)
(* window may add the limit once more, but only so often; and the end of a *)
(* window restores both.  RateLimiter is shown to implement this module.   *)
(***************************************************************************)
EXTENDS Integers

CONSTANTS
  Window,       \* windows, which may end together
  Limit,        \* Limit[w]: requests that window w lets through
  MaxAdded      \* how often stragglers may add to a window

VARIABLES
  left,         \* requests that each window may still let through
  spare         \* what stragglers may yet add to it

vars == <<left, spare>>

Init ==
  /\ left = Limit
  /\ spare = [w \in Window |-> Limit[w] * MaxAdded]

Grant(w) ==
  /\ left[w] > 0
  /\ left' = [left EXCEPT ![w] = @ - 1]
  /\ UNCHANGED spare

Straggle(w) ==
  /\ spare[w] >= Limit[w]
  /\ left' = [left EXCEPT ![w] = @ + Limit[w]]
  /\ spare' = [spare EXCEPT ![w] = @ - Limit[w]]

Renew(over) ==
  /\ left' = [w \in Window |-> IF w \in over THEN Limit[w] ELSE left[w]]
  /\ spare' = [w \in Window |-> IF w \in over THEN Limit[w] * MaxAdded ELSE spare[w]]

Next ==
  \/ \E w \in Window : Grant(w) \/ Straggle(w)
  \/ \E over \in SUBSET Window : Renew(over)

Spec == Init /\ [][Next]_vars
=============================================================================
