------------------------ MODULE DiagnosticsChannels ------------------------
(***************************************************************************)
(* The two bounded channels between the loop and the diagnostics worker:   *)
(* work out, completions back, both of the same capacity.  The loop blocks *)
(* on a full work channel, the worker on a full completion channel, and    *)
(* the loop empties the completion channel once per turn                   *)
(* (bin/omena-lsp-server.rs).  Only occupancies are kept; what the work    *)
(* computes is PublishOrder's subject.                                     *)
(***************************************************************************)
EXTENDS Naturals

CONSTANTS
  Capacity,        \* sync_channel bound of both channels
  PumpBurst,       \* most dispatches of the SIF and republish arms in a turn
  MessageBurst     \* most dispatches one message causes

ASSUME ChannelAssumption ==
  /\ Capacity \in Nat /\ Capacity > 0
  /\ PumpBurst \in Nat
  /\ MessageBurst \in Nat

VARIABLES
  loop,          \* where the loop is
  unsent,        \* dispatches it still has to send before it moves on
  work,          \* occupancy of the work channel
  busy,          \* work the worker has received and not yet accounted for
  completions    \* occupancy of the completion channel

vars == <<loop, unsent, work, busy, completions>>

Outstanding == work + busy + completions

Init ==
  /\ loop = "pump"
  /\ unsent \in 0..PumpBurst
  /\ work = 0 /\ busy = 0 /\ completions = 0
-----------------------------------------------------------------------------
Sending == loop \in {"pump", "message"} /\ unsent > 0

\* Variants named Operator_Flaw break one rule of the operator they precede;
\* the properties are tested against them.
Room_Unbounded(occupancy) == TRUE

Room_ShortByOne(occupancy) == occupancy + 1 < Capacity

Room(occupancy) == occupancy < Capacity

\* dispatch_deferred_diagnostics: blocks while the channel is full
Send ==
  /\ Sending
  /\ Room(work)
  /\ work' = work + 1
  /\ unsent' = unsent - 1
  /\ UNCHANGED <<loop, busy, completions>>

PumpDone ==
  /\ loop = "pump" /\ unsent = 0
  /\ loop' = "drain"
  /\ UNCHANGED <<unsent, work, busy, completions>>

DrainOne ==
  /\ loop = "drain"
  /\ completions > 0
  /\ completions' = completions - 1
  /\ UNCHANGED <<loop, unsent, work, busy>>

Drained_AfterOne == TRUE
Drained == completions = 0

\* try_recv has found the channel empty: take the next message, which may
\* dispatch a whole fan-out, or leave the loop.
DrainDone ==
  /\ loop = "drain"
  /\ Drained
  /\ \/ loop' = "message" /\ unsent' \in 0..MessageBurst
     \/ loop' = "closing" /\ unsent' = 0
  /\ UNCHANGED <<work, busy, completions>>

NextTurn ==
  /\ loop = "message" /\ unsent = 0
  /\ loop' = "pump"
  /\ unsent' \in 0..PumpBurst
  /\ UNCHANGED <<work, busy, completions>>

\* The work channel is closed: the worker ends when it has emptied it.
Join ==
  /\ loop = "closing"
  /\ work = 0 /\ busy = 0
  /\ loop' = "joined"
  /\ UNCHANGED <<unsent, work, busy, completions>>

FinalDrain ==
  /\ loop = "joined"
  /\ completions > 0
  /\ completions' = 0
  /\ UNCHANGED <<loop, unsent, work, busy>>

Receive ==
  /\ busy = 0 /\ work > 0
  /\ work' = work - 1
  /\ busy' = 1
  /\ UNCHANGED <<loop, unsent, completions>>

\* Stale, panicked, superseded or written, every work ends in one completion;
\* the send blocks while the channel is full.
Complete ==
  /\ busy = 1
  /\ Room(completions)
  /\ completions' = completions + 1
  /\ busy' = 0
  /\ UNCHANGED <<loop, unsent, work>>

Loop == Send \/ PumpDone \/ DrainOne \/ DrainDone \/ NextTurn \/ Join \/ FinalDrain
Worker == Receive \/ Complete

Next == Loop \/ Worker

Spec == Init /\ [][Next]_vars

FairSpec == Spec /\ WF_vars(Loop) /\ WF_vars(Worker)
-----------------------------------------------------------------------------
TypeOK ==
  /\ loop \in {"pump", "drain", "message", "closing", "joined"}
  /\ unsent \in Nat
  /\ work \in Nat /\ work <= Capacity
  /\ busy \in {0, 1}
  /\ completions \in Nat /\ completions <= Capacity

LoopBlocked   == Sending /\ work = Capacity
WorkerBlocked == busy = 1 /\ completions = Capacity

\* "deferredDiagnosticsCompletionChannelDrainsOnLoop": the loop that should
\* drain the completions is never itself waiting for the worker that waits
\* for it to drain them.
NoCircularWait == ~(LoopBlocked /\ WorkerBlocked)

\* Closing the channel lets the worker finish: a shutdown that starts with no
\* more than Capacity works outstanding joins it.  (With one more the worker
\* blocks on its last completion and the join never returns.)
JoinReturns == loop = "closing" /\ Outstanding <= Capacity ~> loop = "joined"

\* No dispatch stalls the loop for good: whatever a turn sends, the loop gets
\* back to draining, and from there to the next message or to the end.
TurnsGoOn == loop \in {"pump", "message"} ~> loop = "drain"

\* Neither a send nor the join at shutdown waits for ever.
NobodyIsStuck == TurnsGoOn /\ JoinReturns
=============================================================================
