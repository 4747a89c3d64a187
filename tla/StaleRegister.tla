---------------------------- MODULE StaleRegister ----------------------------
(***************************************************************************)
(* What a cache in front of the Hub promises to those who read it, with    *)
(* nothing of how it fetches: a value that one writer edits, and readers   *)
(* that are handed an edit which is the present one or was replaced no     *)
(* longer than Bound ago.  Nobody is handed an edit before it is made.     *)
(* RoutingCache and YadManifest are shown to implement this module.        *)
(***************************************************************************)
EXTENDS Integers

CONSTANTS
  Reader,       \* those who are handed values
  MaxVersion,   \* bound: number of edits in a behaviour
  Bound,        \* the longest time after which a replaced edit is handed out
  Horizon       \* age at which ages stop growing

Version == 0..MaxVersion
Nothing == -1       \* a reader that holds no value

VARIABLES
  current,        \* the last edit
  supersededFor,  \* supersededFor[v]: time since edit v was replaced
  handed          \* what each reader holds

vars == <<current, supersededFor, handed>>

Older(age) == IF age < Horizon THEN age + 1 ELSE Horizon

Init ==
  /\ current = 0
  /\ supersededFor = [v \in Version |-> 0]
  /\ handed = [r \in Reader |-> Nothing]

Edit ==
  /\ current < MaxVersion
  /\ current' = current + 1
  /\ UNCHANGED <<supersededFor, handed>>

TimePasses ==
  /\ supersededFor' = [v \in Version |->
                         IF v < current THEN Older(supersededFor[v]) ELSE 0]
  /\ UNCHANGED <<current, handed>>

Serve(r) ==
  /\ handed[r] = Nothing
  /\ \E v \in 0..current :
       /\ supersededFor[v] <= Bound
       /\ handed' = [handed EXCEPT ![r] = v]
  /\ UNCHANGED <<current, supersededFor>>

Release(r) ==
  /\ handed[r] # Nothing
  /\ handed' = [handed EXCEPT ![r] = Nothing]
  /\ UNCHANGED <<current, supersededFor>>

Next ==
  \/ Edit \/ TimePasses
  \/ \E r \in Reader : Serve(r) \/ Release(r)

Spec == Init /\ [][Next]_vars
=============================================================================
