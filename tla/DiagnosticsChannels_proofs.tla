--------------------- MODULE DiagnosticsChannels_proofs ---------------------
(***************************************************************************)
(* The loop and the diagnostics worker never wait for each other as long   *)
(* as the dispatches between two drains fit the channel, whatever its      *)
(* capacity.                                                               *)
(***************************************************************************)
EXTENDS DiagnosticsChannels, TLAPS

\* When a drain ends the completions are gone, so at most the channel of work
\* and the one work being done are outstanding; until the next drain at most
\* a message burst and a pump burst are added.
WindowBound ==
  /\ loop = "message" => Outstanding + unsent <= Capacity + 1 + MessageBurst
  /\ loop = "pump"    => Outstanding + unsent <= Capacity + 1 + MessageBurst + PumpBurst

IInv == TypeOK /\ WindowBound
-----------------------------------------------------------------------------
LEMMA InitInv == Init => IInv
BY ChannelAssumption DEF Init, IInv, TypeOK, WindowBound, Outstanding

LEMMA LoopStep ==
  ASSUME IInv, Loop
  PROVE  IInv'
<1>1. CASE Send
  BY <1>1, ChannelAssumption
  DEF Send, Sending, Room, IInv, TypeOK, WindowBound, Outstanding
<1>2. CASE PumpDone
  BY <1>2, ChannelAssumption DEF PumpDone, IInv, TypeOK, WindowBound, Outstanding
<1>3. CASE DrainOne
  BY <1>3, ChannelAssumption DEF DrainOne, IInv, TypeOK, WindowBound, Outstanding
<1>4. CASE DrainDone
  <2>1. CASE loop' = "message" /\ unsent' \in 0..MessageBurst
    <3>1. PICK k \in 0..MessageBurst : unsent' = k
      BY <2>1
    <3>2. work' = work /\ busy' = busy /\ completions' = 0
      BY <1>4 DEF DrainDone, Drained
    <3>3. k \in Nat /\ k <= MessageBurst
      BY ChannelAssumption
    <3>4. QED
      BY <2>1, <3>1, <3>2, <3>3, ChannelAssumption
      DEF IInv, TypeOK, WindowBound, Outstanding
  <2>2. CASE loop' = "closing" /\ unsent' = 0
    BY <1>4, <2>2, ChannelAssumption
    DEF DrainDone, Drained, IInv, TypeOK, WindowBound, Outstanding
  <2>3. QED
    BY <1>4, <2>1, <2>2 DEF DrainDone
<1>5. CASE NextTurn
  <2>1. PICK k \in 0..PumpBurst : unsent' = k
    BY <1>5 DEF NextTurn
  <2>2. k \in Nat /\ k <= PumpBurst
    BY ChannelAssumption
  <2>3. QED
    BY <1>5, <2>1, <2>2, ChannelAssumption
    DEF NextTurn, IInv, TypeOK, WindowBound, Outstanding
<1>6. CASE Join
  BY <1>6, ChannelAssumption DEF Join, IInv, TypeOK, WindowBound, Outstanding
<1>7. CASE FinalDrain
  BY <1>7, ChannelAssumption DEF FinalDrain, IInv, TypeOK, WindowBound, Outstanding
<1>8. QED
  BY <1>1, <1>2, <1>3, <1>4, <1>5, <1>6, <1>7 DEF Loop

\* A worker step moves a work on without adding any.
LEMMA WorkerStep ==
  ASSUME IInv, Worker
  PROVE  IInv'
<1>1. CASE Receive
  BY <1>1, ChannelAssumption DEF Receive, IInv, TypeOK, WindowBound, Outstanding
<1>2. CASE Complete
  BY <1>2, ChannelAssumption DEF Complete, Room, IInv, TypeOK, WindowBound, Outstanding
<1>3. QED
  BY <1>1, <1>2 DEF Worker

\* Both channels keep within their bound and the work in flight within the
\* window's, for every capacity and every burst.
THEOREM ChannelInvariant == Spec => []IInv
<1>1. IInv /\ [Next]_vars => IInv'
  <2>1. ASSUME IInv, UNCHANGED vars PROVE IInv'
    BY <2>1 DEF vars, IInv, TypeOK, WindowBound, Outstanding
  <2>2. QED
    BY <2>1, LoopStep, WorkerStep DEF Next
<1>2. QED
  BY InitInv, <1>1, PTL DEF Spec

\* The occupancies and the loop's place keep their types
\* (sync_channel bounds of the work and the completion channel).
THEOREM ChannelTypes == Spec => []TypeOK
<1>1. IInv => TypeOK
  BY DEF IInv
<1>2. QED
  BY ChannelInvariant, <1>1, PTL

\* "deferredDiagnosticsCompletionChannelDrainsOnLoop" holds for every channel
\* capacity no smaller than what a message and the next turn's pump dispatch
\* between two drains.
THEOREM LoopNeverWaitsForItself ==
  ASSUME PumpBurst + MessageBurst <= Capacity
  PROVE  Spec => []NoCircularWait
<1>1. IInv => NoCircularWait
  <2>1. SUFFICES ASSUME IInv, LoopBlocked, WorkerBlocked PROVE FALSE
    BY DEF NoCircularWait
  <2>2. work = Capacity /\ busy = 1 /\ completions = Capacity /\ unsent > 0
    BY <2>1 DEF LoopBlocked, WorkerBlocked, Sending
  <2>3. Outstanding + unsent <= Capacity + 1 + MessageBurst + PumpBurst
    BY <2>1, ChannelAssumption
    DEF LoopBlocked, Sending, IInv, WindowBound, TypeOK, Outstanding
  <2>4. QED
    BY <2>1, <2>2, <2>3, ChannelAssumption DEF Outstanding, IInv, TypeOK
<1>2. QED
  BY ChannelInvariant, <1>1, PTL
=============================================================================
