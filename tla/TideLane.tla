------------------------------ MODULE TideLane ------------------------------
(***************************************************************************)
(* The demand lane of the Tide scheduling kernel (tide/demand.rs) as pure  *)
(* operators on one lane record: the demand semilattice, deposit, the      *)
(* settle gate try_flush, reopen_window and tide_completed.  LaneWindow    *)
(* drives one lane with arbitrary callers, TideLoop drives the two lanes   *)
(* of the server loop.                                                     *)
(*                                                                         *)
(* A republish demand is None, Cone(seeds) or All.  Here it is a set: {}   *)
(* is None, a set of files is Cone, {Whole} is All.  The SIF lane's        *)
(* two-point demand is the sub-lattice {{}, {Whole}}.                      *)
(***************************************************************************)
EXTENDS Integers

CONSTANTS Files,     \* session file identities a cone can name
          Whole      \* the mark of the absorbing top, "the whole workspace"

ASSUME WholeAssumption == Whole \notin Files
-----------------------------------------------------------------------------
Bottom == {}
Top    == {Whole}
Demand == (SUBSET Files) \cup {Top}

\* Variants named Operator_Flaw break one rule of the operator they precede;
\* the properties are tested against them.
Join_TopNotAbsorbing(d, e) == d \cup e

Join(d, e) == IF Whole \in d \cup e THEN Top ELSE d \cup e

\* The files whose publication a demand owes (before the reverse closure
\* that the flush takes).
Covers(d) == IF Whole \in d THEN Files ELSE d
-----------------------------------------------------------------------------
NoTick == -1
Tick   == Nat \cup {NoTick}

\* Option<TideInFlightV0>: NoTide is None.
NoTide == [demand |-> Bottom, oldest |-> NoTick]

Lane == [demand     : Demand,
         inFlight   : [demand : Demand, oldest : Tick],
         generation : Nat,
         oldest     : Tick,
         alarmed    : BOOLEAN,
         alarms     : Nat]

EmptyLane == [demand     |-> Bottom,
              inFlight   |-> NoTide,
              generation |-> 0,
              oldest     |-> NoTick,
              alarmed    |-> FALSE,
              alarms     |-> 0]

HasDemand(lane) == lane.demand # Bottom
InFlight(lane)  == lane.inFlight # NoTide
Owed(lane)      == Covers(lane.demand) \cup Covers(lane.inFlight.demand)

\* The older of two optional ticks.
OlderTick(s, t) == IF s = NoTick THEN t
                   ELSE IF t = NoTick \/ s <= t THEN s ELSE t
-----------------------------------------------------------------------------
Deposit_AgeRestarts(lane, d, now) ==
  IF d = Bottom THEN lane
  ELSE [lane EXCEPT !.demand = Join(@, d), !.oldest = now]

Deposit_DroppedInFlight(lane, d, now) ==
  IF d = Bottom \/ InFlight(lane) THEN lane
  ELSE [lane EXCEPT !.demand = Join(@, d),
                    !.oldest = IF @ = NoTick THEN now ELSE @]

Deposit(lane, d, now) ==
  IF d = Bottom THEN lane
  ELSE [lane EXCEPT !.demand = Join(@, d),
                    !.oldest = IF @ = NoTick THEN now ELSE @]

Aged(lane, now, bound) == lane.oldest # NoTick /\ now - lane.oldest >= bound

GateOpen_SlotIgnored(lane, frontier, idle, now, bound) ==
  HasDemand(lane) /\ frontier /\ (idle \/ Aged(lane, now, bound))

\* try_flush returns a flush exactly when the gate opens ...
GateOpen(lane, frontier, idle, now, bound) ==
  /\ ~InFlight(lane)
  /\ HasDemand(lane)
  /\ frontier
  /\ idle \/ Aged(lane, now, bound)

\* ... and then freezes the demand into the in-flight tide.
Flush(lane) ==
  [lane EXCEPT !.demand     = Bottom,
               !.inFlight   = [demand |-> lane.demand, oldest |-> lane.oldest],
               !.generation = @ + 1,
               !.oldest     = NoTick,
               !.alarmed    = FALSE]

Starves_EveryTurn(lane, frontier, now, bound) ==
  ~InFlight(lane) /\ HasDemand(lane) /\ ~frontier /\ Aged(lane, now, bound)

\* A closed frontier in front of an aged demand raises the alarm, once until
\* the next flush.
Starves(lane, frontier, now, bound) ==
  /\ ~InFlight(lane)
  /\ HasDemand(lane)
  /\ ~frontier
  /\ Aged(lane, now, bound)
  /\ ~lane.alarmed

Alarm(lane) == [lane EXCEPT !.alarmed = TRUE, !.alarms = @ + 1]

TryFlush(lane, frontier, idle, now, bound) ==
  IF GateOpen(lane, frontier, idle, now, bound) THEN Flush(lane)
  ELSE IF Starves(lane, frontier, now, bound) THEN Alarm(lane)
  ELSE lane

Reopen_SlotKept(lane) ==
  IF ~InFlight(lane) THEN lane
  ELSE [lane EXCEPT !.demand     = Join(@, lane.inFlight.demand),
                    !.generation = @ + 1,
                    !.oldest     = OlderTick(@, lane.inFlight.oldest)]

Reopen_SameGeneration(lane) ==
  IF ~InFlight(lane) THEN lane
  ELSE [lane EXCEPT !.demand   = Join(@, lane.inFlight.demand),
                    !.inFlight = NoTide,
                    !.oldest   = OlderTick(@, lane.inFlight.oldest)]

\* The running tide is disowned and its frozen demand joins the new window.
Reopen(lane) ==
  IF ~InFlight(lane) THEN lane
  ELSE [lane EXCEPT !.demand     = Join(@, lane.inFlight.demand),
                    !.inFlight   = NoTide,
                    !.generation = @ + 1,
                    !.oldest     = OlderTick(@, lane.inFlight.oldest)]

Completed_AnyGeneration(lane, generation) == [lane EXCEPT !.inFlight = NoTide]

Completed_NextGeneration(lane, generation) ==
  IF generation > lane.generation THEN [lane EXCEPT !.inFlight = NoTide] ELSE lane

Completed(lane, generation) ==
  IF generation = lane.generation THEN [lane EXCEPT !.inFlight = NoTide]
  ELSE lane
=============================================================================
