------------------------------- MODULE Metering -------------------------------
(***************************************************************************)
(* What the proxy promises about each chat request, with nothing of how it *)
(* is handled: it calls at most one route, before anything else; it gives  *)
(* one answer and sends at most one bill, which agree, in either order;    *)
(* the bill names the route that was called; it is sent once.  Chat is     *)
(* shown to implement this module.                                         *)
(***************************************************************************)
CONSTANTS Request, Route, NoRoute

VARIABLES
  call,      \* the route called for each request, or NoRoute
  answer,    \* what the client has been told: "none", "ok" or "error"
  bill,      \* what the bill says: "none" before there is one
  charged,   \* the route that it names
  fate       \* "none", "sending", "delivered" or "dropped"

vars == <<call, answer, bill, charged, fate>>

Init ==
  /\ call = [r \in Request |-> NoRoute]
  /\ answer = [r \in Request |-> "none"]
  /\ bill = [r \in Request |-> "none"]
  /\ charged = [r \in Request |-> NoRoute]
  /\ fate = [r \in Request |-> "none"]

Call(r) ==
  /\ call[r] = NoRoute /\ answer[r] = "none" /\ bill[r] = "none"
  /\ \E t \in Route : call' = [call EXCEPT ![r] = t]
  /\ UNCHANGED <<answer, bill, charged, fate>>

\* The outcome that the answer and the bill may give.
Outcome(r) == IF call[r] = NoRoute THEN {"error"} ELSE {"ok", "error"}

Answer(r) ==
  /\ answer[r] = "none"
  /\ \E o \in Outcome(r) :
       /\ bill[r] \in {"none", o}
       /\ answer' = [answer EXCEPT ![r] = o]
  /\ UNCHANGED <<call, bill, charged, fate>>

Bill(r) ==
  /\ bill[r] = "none"
  /\ \E o \in Outcome(r), t \in Route :
       /\ answer[r] \in {"none", o}
       /\ call[r] \in {NoRoute, t}
       /\ bill' = [bill EXCEPT ![r] = o]
       /\ charged' = [charged EXCEPT ![r] = t]
  /\ fate' = [fate EXCEPT ![r] = "sending"]
  /\ UNCHANGED <<call, answer>>

Send(r) ==
  /\ fate[r] = "sending"
  /\ \E f \in {"delivered", "dropped"} : fate' = [fate EXCEPT ![r] = f]
  /\ UNCHANGED <<call, answer, bill, charged>>

Next == \E r \in Request : Call(r) \/ Answer(r) \/ Bill(r) \/ Send(r)

Spec == Init /\ [][Next]_vars
=============================================================================
