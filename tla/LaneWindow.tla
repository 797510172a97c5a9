----------------------------- MODULE LaneWindow -----------------------------
(***************************************************************************)
(* One lane of TideLane under every caller the server has: trigger sites   *)
(* that deposit, the gate evaluation of each loop turn with whatever       *)
(* frontier and idleness it finds, semantic inputs that reopen the window, *)
(* and executors that report the tide they were handed, late or not.       *)
(*                                                                         *)
(* The lane keeps no record of the executors it started.  tides, waiting,  *)
(* carried and flushes are history variables: they say what was promised,  *)
(* so that the properties can ask whether the lane still remembers it.     *)
(***************************************************************************)
EXTENDS TideLane

CONSTANTS AgingBound   \* TideLaneConfigV0::aging_bound_ticks

ASSUME AgingAssumption == AgingBound \in Nat

VARIABLES
  lane,      \* the TideLaneV0
  now,       \* LspShellState::tide_tick
  tides,     \* flushed tides whose executor has not reported yet
  waiting,   \* ticks of the deposits the current window still owes
  carried,   \* ticks of the deposits frozen into the in-flight tide
  flushes    \* number of flushes so far

vars == <<lane, now, tides, waiting, carried, flushes>>

TideRecord == [generation : Nat, demand : Demand, disowned : BOOLEAN]

Init ==
  /\ lane = EmptyLane
  /\ now = 0
  /\ tides = {}
  /\ waiting = {}
  /\ carried = {}
  /\ flushes = 0
-----------------------------------------------------------------------------
\* advance_tide_tick, once per loop turn
AdvanceTick ==
  /\ now' = now + 1
  /\ UNCHANGED <<lane, tides, waiting, carried, flushes>>

DepositDemand(d) ==
  /\ lane' = Deposit(lane, d, now)
  /\ waiting' = IF d = Bottom THEN waiting ELSE waiting \cup {now}
  /\ UNCHANGED <<now, tides, carried, flushes>>

EvaluateGate(frontier, idle) ==
  /\ lane' = TryFlush(lane, frontier, idle, now, AgingBound)
  /\ IF GateOpen(lane, frontier, idle, now, AgingBound)
     THEN /\ tides' = tides \cup {[generation |-> lane'.generation,
                                   demand     |-> lane.demand,
                                   disowned   |-> FALSE]}
          /\ carried' = waiting
          /\ waiting' = {}
          /\ flushes' = flushes + 1
     ELSE UNCHANGED <<tides, waiting, carried, flushes>>
  /\ UNCHANGED now

\* reopen_window: every tide that runs now has lost its window
ReopenWindow ==
  /\ lane' = Reopen(lane)
  /\ tides' = {[t EXCEPT !.disowned = TRUE] : t \in tides}
  /\ waiting' = waiting \cup carried
  /\ carried' = {}
  /\ UNCHANGED <<now, flushes>>

\* The executor of a tide reports; it may have been disowned meanwhile.
ReportTide(t) ==
  /\ t \in tides
  /\ lane' = Completed(lane, t.generation)
  /\ tides' = tides \ {t}
  /\ carried' = IF t.disowned THEN carried ELSE {}
  /\ UNCHANGED <<now, waiting, flushes>>

Next ==
  \/ AdvanceTick
  \/ \E d \in Demand : DepositDemand(d)
  \/ \E frontier, idle \in BOOLEAN : EvaluateGate(frontier, idle)
  \/ ReopenWindow
  \/ \E t \in tides : ReportTide(t)

Spec == Init /\ [][Next]_vars
-----------------------------------------------------------------------------
TypeOK ==
  /\ lane \in Lane
  /\ now \in Nat
  /\ tides \in SUBSET TideRecord
  /\ waiting \in SUBSET Nat
  /\ carried \in SUBSET Nat
  /\ flushes \in Nat

\* The executor the lane counts on: one tide per settle window, the one the
\* lane has in flight, with the demand the lane froze; any other executor
\* still running belongs to an older generation and has been disowned
\* (invariant I1 of the kernel, tide/demand.rs try_flush and reopen_window).
OneTidePerWindow ==
  \A t \in tides :
    /\ t.generation <= lane.generation
    /\ ~t.disowned => /\ InFlight(lane)
                      /\ t.generation = lane.generation
                      /\ t.demand = lane.inFlight.demand

\* A lane never waits for an executor that has already reported: an occupied
\* in-flight slot always has its tide still running, so the gate cannot stay
\* shut for ever (tide_completed and the slot it clears).
NoOrphanedSlot ==
  InFlight(lane) => \E t \in tides : ~t.disowned

\* "Carried-over demand neither loses coverage nor gets a fresh (or ancient)
\* age": the lane's oldest tick is exactly that of its oldest deposit not yet
\* flushed, through any number of flushes and reopens.
AgeIsExact ==
  /\ lane.oldest = NoTick <=> waiting = {}
  /\ waiting # {} => /\ lane.oldest \in waiting
                     /\ \A w \in waiting : lane.oldest <= w

\* The starvation alarm is raised at most once between two flushes (I5), no
\* matter how often the window reopens in between.
AlarmOncePerWindow ==
  lane.alarms <= flushes + (IF lane.alarmed THEN 1 ELSE 0)

\* "Coverage owed can grow or carry over, never silently shrink": only the
\* report of a tide that still holds its window discharges files, and only
\* those of its own demand; a disowned executor discharges nothing.
CoverageNeverShrinks ==
  [][\A f \in Owed(lane) \ Owed(lane') :
       \E t \in tides \ tides' :
         /\ ~t.disowned
         /\ f \in Covers(t.demand)]_vars
=============================================================================
