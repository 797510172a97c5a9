----------------------------- MODULE LatestWins -----------------------------
(***************************************************************************)
(* What diagnostics publication promises for one document: the client sees *)
(* nothing but the publication scheduled last, its quick baseline first,   *)
(* its final payload in the end, and never an older one after a newer.     *)
(* PublishOrder implements it with revisions, threads and a digest         *)
(* registry.                                                               *)
(***************************************************************************)
CONSTANTS Payloads,   \* diagnostics arrays
          Empty       \* the empty array

VARIABLES
  latest,   \* the publication scheduled last: its baseline and final payload
  due,      \* what it still owes: "final", nothing ("none"), or "lost"
  seen      \* the payload the client shows

vars == <<latest, due, seen>>

Publication == [baseline : Payloads, final : Payloads]

NothingYet == [baseline |-> Empty, final |-> Empty]

Init == latest = NothingYet /\ due = "none" /\ seen = Empty

Publish(p) == latest' = p /\ due' = "final" /\ UNCHANGED seen

ShowBaseline ==
  /\ due = "final"
  /\ seen' = latest.baseline
  /\ UNCHANGED <<latest, due>>

ShowFinal ==
  /\ due = "final"
  /\ seen' = latest.final
  /\ due' = "none"
  /\ UNCHANGED latest

\* The computation of the final payload panicked.
Lose == due = "final" /\ due' = "lost" /\ UNCHANGED <<latest, seen>>

Next == (\E p \in Publication : Publish(p)) \/ ShowBaseline \/ ShowFinal \/ Lose

Spec == Init /\ [][Next]_vars
=============================================================================
