-------------------------- MODULE LaneWindow_proofs --------------------------
(***************************************************************************)
(* The invariants of LaneWindow and its coverage property, for any set of  *)
(* files, any aging bound and any number of executors running late.        *)
(***************************************************************************)
EXTENDS LaneWindow, TLAPS

\* The demand and its age come and go together, in the window and in the
\* in-flight tide.
DemandHasAge ==
  /\ HasDemand(lane) <=> waiting # {}
  /\ InFlight(lane) <=> lane.inFlight.demand # Bottom
  /\ InFlight(lane) <=> lane.inFlight.oldest # NoTick

\* The age the in-flight tide carries is that of its own oldest deposit.
CarriedAgeIsExact ==
  /\ InFlight(lane) <=> carried # {}
  /\ carried # {} => /\ lane.inFlight.oldest \in carried
                     /\ \A c \in carried : lane.inFlight.oldest <= c

TicksArePast == \A w \in waiting \cup carried : w <= now

\* Disowning always moves the generation past the executor it disowns.
DisownedIsOlder ==
  \A t \in tides : t.disowned => t.generation < lane.generation

IInv ==
  /\ TypeOK
  /\ OneTidePerWindow
  /\ NoOrphanedSlot
  /\ AgeIsExact
  /\ AlarmOncePerWindow
  /\ DemandHasAge
  /\ CarriedAgeIsExact
  /\ TicksArePast
  /\ DisownedIsOlder
-----------------------------------------------------------------------------
(* The demand lattice. *)

\* Joining stays in the lattice, keeps both sides' coverage and adds none.
LEMMA JoinCovers ==
  ASSUME NEW d \in Demand, NEW e \in Demand
  PROVE  /\ Join(d, e) \in Demand
         /\ Covers(Join(d, e)) = Covers(d) \cup Covers(e)
         /\ Join(d, e) = Bottom <=> d = Bottom /\ e = Bottom
<1>1. CASE Whole \in d \cup e
  <2>1. Join(d, e) = Top
    BY <1>1 DEF Join
  <2>2. Covers(Top) = Files
    BY DEF Covers, Top
  <2>3. Covers(d) \cup Covers(e) = Files
    BY <1>1, WholeAssumption DEF Covers, Demand, Top
  <2>4. QED
    BY <1>1, <2>1, <2>2, <2>3 DEF Demand, Top, Bottom
<1>2. CASE Whole \notin d \cup e
  <2>1. Join(d, e) = d \cup e
    BY <1>2 DEF Join
  <2>2. d \in SUBSET Files /\ e \in SUBSET Files
    BY <1>2 DEF Demand, Top
  <2>3. QED
    BY <1>2, <2>1, <2>2 DEF Covers, Demand, Bottom
<1>3. QED
  BY <1>1, <1>2

\* join is idempotent, commutative and associative, as TideDemandJoinV0
\* requires of every demand vocabulary.
THEOREM JoinIsSemilattice ==
  ASSUME NEW c \in Demand, NEW d \in Demand, NEW e \in Demand
  PROVE  /\ Join(d, d) = d
         /\ Join(d, e) = Join(e, d)
         /\ Join(Join(c, d), e) = Join(c, Join(d, e))
         /\ Join(d, Bottom) = d
<1>1. /\ Whole \in c => c = Top
      /\ Whole \in d => d = Top
      /\ Whole \in e => e = Top
  BY WholeAssumption DEF Demand, Top
<1>2. QED
  BY <1>1 DEF Join, Top, Bottom
-----------------------------------------------------------------------------
LEMMA InitInv == Init => IInv
<1> SUFFICES ASSUME Init PROVE IInv
  OBVIOUS
<1> USE DEF Init
<1>1. TypeOK
  BY DEF TypeOK, Lane, EmptyLane, NoTide, NoTick, Tick, Demand, Bottom
<1>2. OneTidePerWindow /\ DisownedIsOlder /\ TicksArePast
  BY DEF OneTidePerWindow, DisownedIsOlder, TicksArePast
<1>3. NoOrphanedSlot /\ CarriedAgeIsExact
  BY DEF NoOrphanedSlot, CarriedAgeIsExact, InFlight, EmptyLane
<1>4. AgeIsExact /\ AlarmOncePerWindow
  BY DEF AgeIsExact, AlarmOncePerWindow, EmptyLane, NoTick
<1>5. DemandHasAge
  BY DEF DemandHasAge, HasDemand, InFlight, EmptyLane, NoTide
<1>6. QED
  BY <1>1, <1>2, <1>3, <1>4, <1>5 DEF IInv
-----------------------------------------------------------------------------
(* One lemma per action. *)

LEMMA TickStep == IInv /\ AdvanceTick => IInv'
<1> SUFFICES ASSUME IInv, AdvanceTick PROVE IInv'
  OBVIOUS
<1> USE DEF IInv, AdvanceTick, TypeOK
<1>1. TypeOK' /\ TicksArePast'
  BY DEF TicksArePast
<1>2. OneTidePerWindow' /\ NoOrphanedSlot' /\ DisownedIsOlder'
  BY DEF OneTidePerWindow, NoOrphanedSlot, DisownedIsOlder
<1>3. AgeIsExact' /\ AlarmOncePerWindow' /\ DemandHasAge' /\ CarriedAgeIsExact'
  BY DEF AgeIsExact, AlarmOncePerWindow, DemandHasAge, CarriedAgeIsExact
<1>4. QED
  BY <1>1, <1>2, <1>3

LEMMA DepositStep ==
  ASSUME IInv, NEW d \in Demand, DepositDemand(d)
  PROVE  IInv'
<1> USE DEF IInv
<1>1. CASE d = Bottom
  <2>1. UNCHANGED vars
    BY <1>1 DEF DepositDemand, Deposit, vars
  <2>2. QED
    BY <2>1 DEF vars, TypeOK, OneTidePerWindow, NoOrphanedSlot, AgeIsExact,
        AlarmOncePerWindow, DemandHasAge, CarriedAgeIsExact, TicksArePast,
        DisownedIsOlder, HasDemand, InFlight
<1>2. CASE d # Bottom
  <2>1. /\ lane' = [lane EXCEPT !.demand = Join(lane.demand, d),
                                !.oldest = IF lane.oldest = NoTick
                                           THEN now ELSE lane.oldest]
        /\ waiting' = waiting \cup {now}
        /\ UNCHANGED <<now, tides, carried, flushes>>
    BY <1>2 DEF DepositDemand, Deposit
  <2>2. /\ Join(lane.demand, d) \in Demand
        /\ Join(lane.demand, d) # Bottom
    BY <1>2, JoinCovers DEF TypeOK, Lane
  <2>3. TypeOK'
    BY <2>1, <2>2 DEF TypeOK, Lane, Tick
  <2>4. /\ lane'.inFlight = lane.inFlight
        /\ lane'.generation = lane.generation
        /\ lane'.alarmed = lane.alarmed
        /\ lane'.alarms = lane.alarms
        /\ lane'.demand = Join(lane.demand, d)
        /\ lane'.oldest = IF lane.oldest = NoTick THEN now ELSE lane.oldest
    BY <2>1 DEF TypeOK, Lane
  <2>5. /\ OneTidePerWindow' /\ NoOrphanedSlot' /\ AlarmOncePerWindow'
        /\ CarriedAgeIsExact' /\ DisownedIsOlder'
    BY <2>1, <2>4 DEF OneTidePerWindow, NoOrphanedSlot, AlarmOncePerWindow,
        CarriedAgeIsExact, DisownedIsOlder, InFlight
  <2>6. TicksArePast'
    BY <2>1 DEF TicksArePast, TypeOK
  <2>7. AgeIsExact'
    <3>1. now # NoTick /\ lane'.oldest # NoTick
      BY <2>4 DEF TypeOK, NoTick
    <3>2. CASE lane.oldest = NoTick
      BY <2>1, <2>4, <3>1, <3>2 DEF AgeIsExact, TypeOK
    <3>3. CASE lane.oldest # NoTick
      BY <2>1, <2>4, <3>1, <3>3 DEF AgeIsExact, TicksArePast, TypeOK
    <3>4. QED
      BY <3>2, <3>3
  <2>8. DemandHasAge'
    BY <2>1, <2>2, <2>4 DEF DemandHasAge, HasDemand, InFlight
  <2>9. QED
    BY <2>3, <2>5, <2>6, <2>7, <2>8
<1>3. QED
  BY <1>1, <1>2

LEMMA GateStep ==
  ASSUME IInv, NEW frontier \in BOOLEAN, NEW idle \in BOOLEAN,
         EvaluateGate(frontier, idle)
  PROVE  IInv'
<1> USE DEF IInv
<1>1. CASE GateOpen(lane, frontier, idle, now, AgingBound)
  <2>1. /\ lane' = Flush(lane)
        /\ tides' = tides \cup {[generation |-> lane'.generation,
                                 demand     |-> lane.demand,
                                 disowned   |-> FALSE]}
        /\ carried' = waiting
        /\ waiting' = {}
        /\ flushes' = flushes + 1
        /\ now' = now
    BY <1>1 DEF EvaluateGate, TryFlush
  <2>2. /\ lane'.demand = Bottom
        /\ lane'.inFlight = [demand |-> lane.demand, oldest |-> lane.oldest]
        /\ lane'.generation = lane.generation + 1
        /\ lane'.oldest = NoTick
        /\ lane'.alarmed = FALSE
        /\ lane'.alarms = lane.alarms
    BY <2>1 DEF Flush, TypeOK, Lane
  <2>3. ~InFlight(lane) /\ HasDemand(lane)
    BY <1>1 DEF GateOpen
  <2>4. waiting # {} /\ lane.demand # Bottom /\ lane.oldest # NoTick
    BY <2>3 DEF DemandHasAge, HasDemand, AgeIsExact
  <2>5. InFlight(lane)'
    BY <2>2, <2>4 DEF InFlight, NoTide
  <2>6. TypeOK'
    <3>1. lane' = [demand     |-> Bottom,
                   inFlight   |-> [demand |-> lane.demand, oldest |-> lane.oldest],
                   generation |-> lane.generation + 1,
                   oldest     |-> NoTick,
                   alarmed    |-> FALSE,
                   alarms     |-> lane.alarms]
      BY <2>1 DEF Flush, TypeOK, Lane
    <3>2. /\ Bottom \in Demand
          /\ NoTick \in Tick
          /\ lane.demand \in Demand
          /\ lane.oldest \in Tick
          /\ lane.generation + 1 \in Nat
          /\ lane.alarms \in Nat
      BY DEF TypeOK, Lane, Demand, Bottom, Tick, NoTick
    <3>3. lane' \in Lane
      BY <3>1, <3>2 DEF Lane
    <3>4. [generation |-> lane'.generation, demand |-> lane.demand, disowned |-> FALSE]
            \in TideRecord
      BY <2>2, <3>2 DEF TideRecord
    <3>5. tides' \in SUBSET TideRecord
      BY <2>1, <3>4 DEF TypeOK
    <3>6. QED
      BY <2>1, <3>3, <3>5 DEF TypeOK
  <2>7. OneTidePerWindow'
    <3> SUFFICES ASSUME NEW t \in tides'
                 PROVE  /\ t.generation <= lane'.generation
                        /\ ~t.disowned => /\ t.generation = lane'.generation
                                          /\ t.demand = lane'.inFlight.demand
      BY <2>5 DEF OneTidePerWindow
    <3>1. CASE t \in tides
      BY <2>2, <2>3, <3>1 DEF OneTidePerWindow, TypeOK, Lane, TideRecord
    <3>2. CASE t \notin tides
      BY <2>1, <2>2, <3>2 DEF TypeOK, Lane
    <3>3. QED
      BY <3>1, <3>2
  <2>8. NoOrphanedSlot'
    <3> DEFINE n == [generation |-> lane'.generation,
                     demand     |-> lane.demand,
                     disowned   |-> FALSE]
    <3>1. n \in tides' /\ ~n.disowned
      BY <2>1
    <3>2. QED
      BY <3>1 DEF NoOrphanedSlot
  <2>9. AgeIsExact' /\ TicksArePast' /\ AlarmOncePerWindow'
    <3>1. AgeIsExact' /\ TicksArePast'
      BY <2>1, <2>2 DEF AgeIsExact, TicksArePast
    <3>2. lane.alarms <= flushes + 1
      BY DEF AlarmOncePerWindow, TypeOK, Lane
    <3>3. AlarmOncePerWindow'
      BY <2>1, <2>2, <3>2 DEF AlarmOncePerWindow, TypeOK, Lane
    <3>4. QED
      BY <3>1, <3>3
  <2>10. DemandHasAge'
    BY <2>1, <2>2, <2>4, <2>5 DEF DemandHasAge, HasDemand
  <2>11. CarriedAgeIsExact'
    BY <2>1, <2>2, <2>4, <2>5 DEF CarriedAgeIsExact, AgeIsExact
  <2>12. DisownedIsOlder'
    BY <2>1, <2>2 DEF DisownedIsOlder, TypeOK, Lane, TideRecord
  <2>13. QED
    BY <2>6, <2>7, <2>8, <2>9, <2>10, <2>11, <2>12
<1>2. CASE ~GateOpen(lane, frontier, idle, now, AgingBound)
  <2>1. UNCHANGED <<now, tides, waiting, carried, flushes>>
    BY <1>2 DEF EvaluateGate
  <2>2. lane' = lane \/ (~lane.alarmed /\ lane' = Alarm(lane))
    BY <1>2 DEF EvaluateGate, TryFlush, Starves
  <2> DEFINE rung == [demand     |-> lane.demand,
                      inFlight   |-> lane.inFlight,
                      generation |-> lane.generation,
                      oldest     |-> lane.oldest,
                      alarmed    |-> TRUE,
                      alarms     |-> lane.alarms + 1]
  <2>a. /\ rung \in Lane
        /\ lane' = lane \/ (~lane.alarmed /\ lane' = rung)
    <3>1. lane.alarms + 1 \in Nat
      BY DEF TypeOK, Lane
    <3>2. rung \in Lane
      BY <3>1 DEF TypeOK, Lane
    <3>3. ASSUME lane' = Alarm(lane)
          PROVE  lane' = rung
      BY <3>3 DEF Alarm, TypeOK, Lane
    <3>4. QED
      BY <2>2, <3>2, <3>3
  <2>3. /\ lane' \in Lane
        /\ lane'.demand = lane.demand
        /\ lane'.inFlight = lane.inFlight
        /\ lane'.generation = lane.generation
        /\ lane'.oldest = lane.oldest
    <3>1. CASE lane' = lane
      BY <3>1 DEF TypeOK
    <3>2. CASE lane' = rung
      BY <2>a, <3>2
    <3>3. QED
      BY <2>2, <2>a, <3>1, <3>2
  <2>4. AlarmOncePerWindow'
    <3>1. CASE lane' = lane
      BY <2>1, <3>1 DEF AlarmOncePerWindow
    <3>2. CASE ~lane.alarmed /\ lane' = rung
      <4>1. lane.alarms <= flushes
        BY <3>2 DEF AlarmOncePerWindow, TypeOK, Lane
      <4>2. lane'.alarms = lane.alarms + 1 /\ lane'.alarmed = TRUE
        BY <3>2
      <4>3. QED
        BY <2>1, <4>1, <4>2 DEF AlarmOncePerWindow, TypeOK, Lane
    <3>3. QED
      BY <2>2, <2>a, <3>1, <3>2
  <2>5. TypeOK' /\ OneTidePerWindow' /\ NoOrphanedSlot' /\ DisownedIsOlder'
    BY <2>1, <2>3 DEF TypeOK, OneTidePerWindow, NoOrphanedSlot,
        DisownedIsOlder, InFlight
  <2>6. AgeIsExact' /\ DemandHasAge' /\ CarriedAgeIsExact' /\ TicksArePast'
    BY <2>1, <2>3 DEF AgeIsExact, DemandHasAge, CarriedAgeIsExact,
        TicksArePast, HasDemand, InFlight
  <2>7. QED
    BY <2>4, <2>5, <2>6
<1>3. QED
  BY <1>1, <1>2

LEMMA ReopenStep == IInv /\ ReopenWindow => IInv'
<1> SUFFICES ASSUME IInv, ReopenWindow PROVE IInv'
  OBVIOUS
<1> USE DEF IInv
<1>1. /\ tides' = {[t EXCEPT !.disowned = TRUE] : t \in tides}
      /\ waiting' = waiting \cup carried
      /\ carried' = {}
      /\ now' = now
      /\ flushes' = flushes
  BY DEF ReopenWindow
<1>2. /\ tides' \in SUBSET TideRecord
      /\ \A u \in tides' : u.disowned /\ \E t \in tides : u.generation = t.generation
  BY <1>1 DEF TypeOK, TideRecord
<1>3. CASE ~InFlight(lane)
  <2>1. lane' = lane /\ carried = {}
    BY <1>3 DEF ReopenWindow, Reopen, CarriedAgeIsExact
  <2>2. \A t \in tides : t.disowned
    BY <1>3 DEF OneTidePerWindow
  <2>3. \A u \in tides' : u.generation < lane'.generation
    BY <1>2, <2>1, <2>2 DEF DisownedIsOlder
  <2>4. TypeOK' /\ OneTidePerWindow' /\ NoOrphanedSlot' /\ DisownedIsOlder'
    BY <1>1, <1>2, <1>3, <2>1, <2>3 DEF TypeOK, OneTidePerWindow, NoOrphanedSlot,
        DisownedIsOlder, InFlight, TideRecord, Lane
  <2>5. AgeIsExact' /\ AlarmOncePerWindow' /\ TicksArePast'
    BY <1>1, <2>1 DEF AgeIsExact, AlarmOncePerWindow, TicksArePast
  <2>6. DemandHasAge' /\ CarriedAgeIsExact'
    BY <1>1, <1>3, <2>1 DEF DemandHasAge, CarriedAgeIsExact, HasDemand, InFlight
  <2>7. QED
    BY <2>4, <2>5, <2>6
<1>4. CASE InFlight(lane)
  <2> DEFINE J == Join(lane.demand, lane.inFlight.demand)
             O == OlderTick(lane.oldest, lane.inFlight.oldest)
  <2>1. /\ lane'.demand = J
        /\ lane'.inFlight = NoTide
        /\ lane'.generation = lane.generation + 1
        /\ lane'.oldest = O
        /\ lane'.alarmed = lane.alarmed
        /\ lane'.alarms = lane.alarms
    BY <1>4 DEF ReopenWindow, Reopen, TypeOK, Lane
  <2>2. /\ lane.demand \in Demand
        /\ lane.inFlight.demand \in Demand
        /\ lane.inFlight.demand # Bottom
    BY <1>4 DEF TypeOK, Lane, DemandHasAge
  <2>3. J \in Demand /\ J # Bottom
    BY <2>2, JoinCovers
  <2>4. lane.oldest \in Tick /\ lane.inFlight.oldest \in Nat
    BY <1>4 DEF TypeOK, Lane, Tick, DemandHasAge
  <2>5. /\ carried # {}
        /\ lane.inFlight.oldest \in carried
        /\ \A c \in carried : lane.inFlight.oldest <= c
    BY <1>4 DEF CarriedAgeIsExact
  <2>6. /\ O \in waiting'
        /\ O \in Nat
        /\ \A w \in waiting' : O <= w
    <3>1. CASE lane.oldest = NoTick
      <4>1. waiting = {} /\ O = lane.inFlight.oldest
        BY <3>1 DEF OlderTick, AgeIsExact
      <4>2. QED
        BY <1>1, <2>4, <2>5, <4>1
    <3>2. CASE lane.oldest # NoTick
      <4>1. /\ lane.oldest \in waiting
            /\ \A w \in waiting : lane.oldest <= w
            /\ lane.oldest \in Nat
        BY <2>4, <3>2 DEF AgeIsExact, Tick
      <4>2. O = IF lane.oldest <= lane.inFlight.oldest
                THEN lane.oldest ELSE lane.inFlight.oldest
        BY <2>4, <3>2 DEF OlderTick, NoTick
      <4>3. waiting' \subseteq Nat
        BY <1>1 DEF TypeOK
      <4>4. \A w \in waiting' : O <= w
        <5> SUFFICES ASSUME NEW w \in waiting' PROVE O <= w
          OBVIOUS
        <5>1. w \in Nat /\ (w \in waiting \/ w \in carried)
          BY <1>1, <4>3
        <5>2. CASE w \in waiting
          <6>1. lane.oldest <= w
            BY <4>1, <5>2
          <6>2. QED
            BY <2>4, <4>1, <4>2, <5>1, <6>1
        <5>3. CASE w \in carried
          <6>1. lane.inFlight.oldest <= w
            BY <2>5, <5>3
          <6>2. QED
            BY <2>4, <4>1, <4>2, <5>1, <6>1
        <5>4. QED
          BY <5>1, <5>2, <5>3
      <4>5. QED
        BY <1>1, <2>4, <2>5, <4>1, <4>2, <4>4
    <3>3. QED
      BY <3>1, <3>2
  <2>7. TypeOK'
    <3>1. lane' = [demand     |-> J,
                   inFlight   |-> NoTide,
                   generation |-> lane.generation + 1,
                   oldest     |-> O,
                   alarmed    |-> lane.alarmed,
                   alarms     |-> lane.alarms]
      BY <1>4 DEF ReopenWindow, Reopen, TypeOK, Lane
    <3>2. NoTide \in [demand : Demand, oldest : Tick]
      BY DEF NoTide, Demand, Bottom, Tick, NoTick
    <3>3. lane' \in Lane
      <4>1. /\ J \in Demand
            /\ O \in Tick
            /\ lane.generation + 1 \in Nat
            /\ lane.alarmed \in BOOLEAN
            /\ lane.alarms \in Nat
        BY <2>3, <2>6 DEF TypeOK, Lane, Tick
      <4>2. QED
        BY <3>1, <3>2, <4>1 DEF Lane
    <3>4. QED
      BY <1>1, <1>2, <3>3 DEF TypeOK
  <2>8. \A u \in tides' : u.disowned /\ u.generation < lane'.generation
    BY <1>2, <2>1 DEF OneTidePerWindow, TypeOK, Lane, TideRecord
  <2>9. OneTidePerWindow' /\ NoOrphanedSlot' /\ DisownedIsOlder'
    BY <1>2, <2>1, <2>7, <2>8 DEF OneTidePerWindow, NoOrphanedSlot,
        DisownedIsOlder, InFlight, TypeOK, Lane, TideRecord
  <2>10. AgeIsExact' /\ AlarmOncePerWindow' /\ TicksArePast'
    BY <1>1, <2>1, <2>6 DEF AgeIsExact, AlarmOncePerWindow, TicksArePast, NoTick
  <2>11. DemandHasAge' /\ CarriedAgeIsExact'
    BY <1>1, <2>1, <2>3, <2>6 DEF DemandHasAge, CarriedAgeIsExact, HasDemand,
        InFlight, NoTide
  <2>12. QED
    BY <2>7, <2>9, <2>10, <2>11
<1>5. QED
  BY <1>3, <1>4

LEMMA ReportStep ==
  ASSUME IInv, NEW t \in tides, ReportTide(t)
  PROVE  IInv'
<1> USE DEF IInv
<1>1. /\ lane' = Completed(lane, t.generation)
      /\ tides' = tides \ {t}
      /\ carried' = IF t.disowned THEN carried ELSE {}
      /\ UNCHANGED <<now, waiting, flushes>>
  BY DEF ReportTide
<1>2. CASE t.disowned
  <2>1. lane' = lane
    BY <1>1, <1>2 DEF Completed, DisownedIsOlder, TypeOK, Lane, TideRecord
  <2>2. \A u \in tides : ~u.disowned => u \in tides'
    BY <1>1, <1>2
  <2>3. NoOrphanedSlot'
    BY <2>1, <2>2 DEF NoOrphanedSlot, InFlight
  <2>4. TypeOK' /\ OneTidePerWindow' /\ DisownedIsOlder'
    BY <1>1, <2>1 DEF TypeOK, OneTidePerWindow, DisownedIsOlder, InFlight
  <2>5. AgeIsExact' /\ AlarmOncePerWindow' /\ TicksArePast'
    BY <1>1, <1>2, <2>1 DEF AgeIsExact, AlarmOncePerWindow, TicksArePast
  <2>6. DemandHasAge' /\ CarriedAgeIsExact'
    BY <1>1, <1>2, <2>1 DEF DemandHasAge, CarriedAgeIsExact, HasDemand, InFlight
  <2>7. QED
    BY <2>3, <2>4, <2>5, <2>6
<1>3. CASE ~t.disowned
  <2>1. InFlight(lane) /\ t.generation = lane.generation
    BY <1>3 DEF OneTidePerWindow
  <2>2. lane' = [lane EXCEPT !.inFlight = NoTide]
    BY <1>1, <2>1 DEF Completed
  <2>3. /\ lane'.demand = lane.demand
        /\ lane'.inFlight = NoTide
        /\ lane'.generation = lane.generation
        /\ lane'.oldest = lane.oldest
        /\ lane'.alarmed = lane.alarmed
        /\ lane'.alarms = lane.alarms
    BY <2>2 DEF TypeOK, Lane
  <2>4. lane' \in Lane
    <3>1. NoTide \in [demand : Demand, oldest : Tick]
      BY DEF NoTide, Demand, Bottom, Tick, NoTick
    <3>2. QED
      BY <2>2, <3>1 DEF TypeOK, Lane
  <2>5. TypeOK'
    BY <1>1, <2>4 DEF TypeOK
  <2>6. \A u \in tides' : u.disowned
    <3> SUFFICES ASSUME NEW u \in tides', ~u.disowned PROVE FALSE
      OBVIOUS
    <3>1. u \in tides /\ u # t
      BY <1>1
    <3>2. u.generation = t.generation /\ u.demand = t.demand
      BY <1>3, <3>1 DEF OneTidePerWindow
    <3>3. u.disowned = t.disowned
      BY <1>3, <3>1 DEF TypeOK, TideRecord
    <3>4. QED
      BY <3>1, <3>2, <3>3 DEF TypeOK, TideRecord
  <2>7. OneTidePerWindow' /\ DisownedIsOlder'
    BY <1>1, <2>3, <2>6 DEF OneTidePerWindow, DisownedIsOlder
  <2>8. ~InFlight(lane)'
    BY <2>3 DEF InFlight
  <2>9. NoOrphanedSlot'
    BY <2>8 DEF NoOrphanedSlot
  <2>10. AgeIsExact' /\ AlarmOncePerWindow' /\ TicksArePast'
    BY <1>1, <1>3, <2>3 DEF AgeIsExact, AlarmOncePerWindow, TicksArePast
  <2>11. DemandHasAge' /\ CarriedAgeIsExact'
    BY <1>1, <1>3, <2>3, <2>8 DEF DemandHasAge, CarriedAgeIsExact, HasDemand, NoTide
  <2>12. QED
    BY <2>5, <2>7, <2>9, <2>10, <2>11
<1>4. QED
  BY <1>2, <1>3

LEMMA NextInv == IInv /\ [Next]_vars => IInv'
<1> SUFFICES ASSUME IInv, [Next]_vars PROVE IInv'
  OBVIOUS
<1>1. CASE AdvanceTick
  BY <1>1, TickStep
<1>2. ASSUME NEW d \in Demand, DepositDemand(d)
      PROVE  IInv'
  BY <1>2, DepositStep
<1>3. ASSUME NEW frontier \in BOOLEAN, NEW idle \in BOOLEAN, EvaluateGate(frontier, idle)
      PROVE  IInv'
  BY <1>3, GateStep
<1>4. CASE ReopenWindow
  BY <1>4, ReopenStep
<1>5. ASSUME NEW t \in tides, ReportTide(t)
      PROVE  IInv'
  BY <1>5, ReportStep
<1>6. CASE UNCHANGED vars
  BY <1>6 DEF vars, IInv, TypeOK, OneTidePerWindow, NoOrphanedSlot, AgeIsExact,
      AlarmOncePerWindow, DemandHasAge, CarriedAgeIsExact, TicksArePast,
      DisownedIsOlder, HasDemand, InFlight
<1>7. QED
  BY <1>1, <1>2, <1>3, <1>4, <1>5, <1>6 DEF Next
-----------------------------------------------------------------------------
\* The inductive invariant of the lane and its callers holds always.
THEOREM LaneInvariant == Spec => []IInv
<1>1. QED
  BY InitInv, NextInv, PTL DEF Spec

\* Every lane value the server can build has the types of TideLaneV0.
THEOREM LaneTypes == Spec => []TypeOK
<1>1. IInv => TypeOK
  BY DEF IInv
<1>2. QED
  BY <1>1, LaneInvariant, PTL

\* At most one executor owns the lane's window; every other one still
\* running has been disowned and cannot complete anything.
THEOREM OneOwner == Spec => []OneTidePerWindow
<1>1. IInv => OneTidePerWindow
  BY DEF IInv
<1>2. QED
  BY <1>1, LaneInvariant, PTL

\* The in-flight slot is never occupied without an executor that will free it.
THEOREM SlotHasExecutor == Spec => []NoOrphanedSlot
<1>1. IInv => NoOrphanedSlot
  BY DEF IInv
<1>2. QED
  BY <1>1, LaneInvariant, PTL

\* Carry-over neither refreshes nor ages a demand.
THEOREM AgeSurvivesReopen == Spec => []AgeIsExact
<1>1. IInv => AgeIsExact
  BY DEF IInv
<1>2. QED
  BY <1>1, LaneInvariant, PTL

\* One starvation alarm per accumulation window.
THEOREM AlarmsAreBounded == Spec => []AlarmOncePerWindow
<1>1. IInv => AlarmOncePerWindow
  BY DEF IInv
<1>2. QED
  BY <1>1, LaneInvariant, PTL
-----------------------------------------------------------------------------
\* The action of CoverageNeverShrinks.
DischargedByOwner ==
  \A f \in Owed(lane) \ Owed(lane') :
    \E t \in tides \ tides' : /\ ~t.disowned
                              /\ f \in Covers(t.demand)

LEMMA StepKeepsCoverage == IInv /\ [Next]_vars => DischargedByOwner
<1> SUFFICES ASSUME IInv, [Next]_vars PROVE DischargedByOwner
  OBVIOUS
<1> USE DEF IInv
<1>0. SUFFICES ASSUME ~(Owed(lane) \subseteq Owed(lane'))
               PROVE  DischargedByOwner
  BY DEF DischargedByOwner
<1>1. CASE AdvanceTick
  BY <1>0, <1>1 DEF AdvanceTick
<1>2. ASSUME NEW d \in Demand, DepositDemand(d)
      PROVE  DischargedByOwner
  <2>1. CASE d = Bottom
    BY <1>0, <1>2, <2>1 DEF DepositDemand, Deposit
  <2>2. CASE d # Bottom
    <3>1. /\ lane'.demand = Join(lane.demand, d)
          /\ lane'.inFlight = lane.inFlight
      BY <1>2, <2>2 DEF DepositDemand, Deposit, TypeOK, Lane
    <3>2. Covers(lane'.demand) = Covers(lane.demand) \cup Covers(d)
      BY <3>1, JoinCovers DEF TypeOK, Lane
    <3>3. QED
      BY <1>0, <3>1, <3>2 DEF Owed
  <2>3. QED
    BY <2>1, <2>2
<1>3. ASSUME NEW frontier \in BOOLEAN, NEW idle \in BOOLEAN, EvaluateGate(frontier, idle)
      PROVE  DischargedByOwner
  <2>1. CASE GateOpen(lane, frontier, idle, now, AgingBound)
    <3>1. lane' = Flush(lane) /\ lane.inFlight = NoTide
      BY <1>3, <2>1 DEF EvaluateGate, TryFlush, GateOpen, InFlight
    <3>2. lane'.inFlight.demand = lane.demand
      BY <3>1 DEF Flush, TypeOK, Lane
    <3>3. Covers(lane.inFlight.demand) = {}
      BY <3>1 DEF Covers, NoTide, Bottom
    <3>4. QED
      BY <1>0, <3>2, <3>3 DEF Owed
  <2>2. CASE ~GateOpen(lane, frontier, idle, now, AgingBound)
    <3>1. lane'.demand = lane.demand /\ lane'.inFlight = lane.inFlight
      BY <1>3, <2>2 DEF EvaluateGate, TryFlush, Alarm, TypeOK, Lane
    <3>2. QED
      BY <1>0, <3>1 DEF Owed
  <2>3. QED
    BY <2>1, <2>2
<1>4. CASE ReopenWindow
  <2>1. CASE ~InFlight(lane)
    BY <1>0, <1>4, <2>1 DEF ReopenWindow, Reopen
  <2>2. CASE InFlight(lane)
    <3>1. lane'.demand = Join(lane.demand, lane.inFlight.demand)
      BY <1>4, <2>2 DEF ReopenWindow, Reopen, TypeOK, Lane
    <3>2. Covers(lane'.demand) = Covers(lane.demand) \cup Covers(lane.inFlight.demand)
      BY <3>1, JoinCovers DEF TypeOK, Lane
    <3>3. QED
      BY <1>0, <3>2 DEF Owed
  <2>3. QED
    BY <2>1, <2>2
<1>5. ASSUME NEW t \in tides, ReportTide(t)
      PROVE  DischargedByOwner
  <2>1. /\ lane' = Completed(lane, t.generation)
        /\ t \in tides \ tides'
    BY <1>5 DEF ReportTide
  <2>2. lane' # lane
    BY <1>0
  <2>3. ~t.disowned
    BY <2>1, <2>2 DEF Completed, DisownedIsOlder, TypeOK, Lane, TideRecord
  <2>4. t.demand = lane.inFlight.demand /\ t.generation = lane.generation
    BY <2>3 DEF OneTidePerWindow
  <2>5. lane'.demand = lane.demand
    BY <2>1, <2>4 DEF Completed, TypeOK, Lane
  <2>6. Owed(lane) \ Owed(lane') \subseteq Covers(t.demand)
    BY <2>4, <2>5 DEF Owed
  <2>7. QED
    BY <2>1, <2>3, <2>6 DEF DischargedByOwner
<1>6. CASE UNCHANGED vars
  BY <1>0, <1>6 DEF vars
<1>7. QED
  BY <1>1, <1>2, <1>3, <1>4, <1>5, <1>6 DEF Next

\* The kernel's headline promise: whatever deposits, gate evaluations,
\* reopens and late completions interleave, an owed file is discharged only
\* by the executor that holds the window and was flushed with that file.
THEOREM CoverageIsKept == Spec => CoverageNeverShrinks
<1>1. IInv /\ [Next]_vars => [DischargedByOwner]_vars
  BY StepKeepsCoverage
<1>2. QED
  BY <1>1, LaneInvariant, PTL DEF Spec, CoverageNeverShrinks, DischargedByOwner
=============================================================================
