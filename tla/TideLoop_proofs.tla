-------------------------- MODULE TideLoop_proofs --------------------------
(***************************************************************************)
(* The invariants of the server loop for any workspace: any stylesheets    *)
(* and sources, any reverse dependencies, any chunk size and any number of *)
(* client messages.                                                        *)
(*                                                                         *)
(* The inductive invariant has a part per hand-over: what the SIF job      *)
(* read, what the index still holds, who owns the republish slot, what the *)
(* items of a tide carry, and who owes a stale publication its next one.   *)
(***************************************************************************)
EXTENDS TideLoop, SequenceTheorems, FiniteSetTheorems, TLAPS

Job == [generation : Nat \ {0}, stamp : Ledger, inputs : [Files -> Nat],
        done : BOOLEAN]

Rendering == [text : Nat, facts : UNION {[S -> Nat] : S \in SUBSET Files},
              settings : Nat]

Item == [doc : Files, render : Rendering]

Wave == [generation : Nat \ {0}, targets : SUBSET Files, todo : SUBSET Files,
         renders : UNION {[S -> Rendering] : S \in SUBSET Files},
         out : SUBSET Item, uncovered : SUBSET Files, final : BOOLEAN]

PendingApply == [generation : Nat \ {0}, items : SUBSET Item,
                 uncovered : SUBSET Files, finalSeen : BOOLEAN]

WorkerJob    == [revision : Nat, files : SUBSET Files]
WorkerResult == [revision : Nat, left : SUBSET Files,
                 texts : UNION {[S -> Nat] : S \in SUBSET Files}]

LaneTypes == sif \in Lane /\ rep \in Lane /\ ledger \in Ledger

CorpusTypes ==
  /\ docs \in SUBSET Docs /\ open \in SUBSET docs
  /\ docs \cap Sources \subseteq open
  /\ text \in [Docs -> Nat] /\ disk \in [Files -> Nat]
  /\ inputs \in [Files -> Nat] /\ facts \in [Files -> Nat]
  /\ settings \in Nat

IndexTypes ==
  /\ indexRevision \in Nat /\ indexPending \in Nat
  /\ indexJobs \in Seq(WorkerJob) /\ indexResults \in Seq(WorkerResult)

TideTypes ==
  /\ sifJob \in Job \cup {NoJob}
  /\ wave \in Wave \cup {NoWave}
  /\ pending \in PendingApply \cup {NoPending}

LoopTypes ==
  /\ step \in {"index", "sif", "dispatch", "pump", "tide", "input", "redispatch"}
  /\ messages \in 0..MaxMessages

PublishedTypes ==
  /\ DOMAIN published = Docs
  /\ \A x \in Docs :
       published[x] # NoRender => published[x].facts \in [Reads(x) -> Nat]

Types ==
  /\ LaneTypes /\ CorpusTypes /\ IndexTypes
  /\ TideTypes /\ LoopTypes /\ PublishedTypes
-----------------------------------------------------------------------------
(* The SIF job of the slot read the inputs in force, unless a refresh is   *)
(* owed.                                                                   *)
JobHoldsSlot ==
  /\ SifSlotHeldByJob
  /\ sifJob # NoJob => sifJob.generation = sif.generation

JobReadInputs == sifJob # NoJob /\ ~HasDemand(sif) => sifJob.inputs = inputs

SifPart == JobHoldsSlot /\ StaleSifRearms /\ JobReadInputs /\ SettledFactsAreFresh

(* The job or the result of the latest revision holds every file on disk   *)
(* that is not admitted; without one there is none.                        *)
RevisionsArePast ==
  \A w \in Range(indexJobs) \cup Range(indexResults) : w.revision <= indexRevision

Missing == OnDisk \ docs

LatestHoldsMissing ==
  /\ \A job \in Range(indexJobs) :
       job.revision = indexRevision => Missing \subseteq job.files
  /\ \A result \in Range(indexResults) :
       result.revision = indexRevision
         => Missing \subseteq DOMAIN result.texts \cup result.left

LatestIsSomewhere ==
  \/ indexRevision = 0
  \/ \E w \in Range(indexJobs) \cup Range(indexResults) : w.revision = indexRevision
  \/ indexPending = 0 /\ Missing = {}

IndexPart == RevisionsArePast /\ LatestHoldsMissing /\ LatestIsSomewhere

(* A tide is a wave still streaming, what the loop holds of it, or both.   *)
WaveIsOrderly ==
  wave # NoWave =>
    /\ wave.generation <= rep.generation
    /\ DOMAIN wave.renders = wave.targets
    /\ wave.todo \subseteq wave.targets
    /\ wave.uncovered \subseteq wave.targets
    /\ \A i \in wave.out : i.doc \in wave.targets
    /\ IF wave.final THEN wave.todo = {} ELSE wave.uncovered = {}

PendingIsOrderly ==
  pending # NoPending =>
    /\ pending.generation <= rep.generation
    /\ wave # NoWave => wave.generation = pending.generation
    /\ pending.finalSeen => wave = NoWave
    /\ step = "tide" => pending.generation = rep.generation

SlotPart == WaveIsOrderly /\ PendingIsOrderly /\ SlotHeldByWave

(* What a tide that still holds the slot carries is what the loop would    *)
(* render now.                                                             *)
IsUpToDate(x, render) ==
  render.facts = [f \in Reads(x) |-> facts[f]] /\ render.settings = settings

CarriesCurrent ==
  /\ wave # NoWave /\ wave.generation = rep.generation =>
       /\ \A x \in wave.targets : IsUpToDate(x, wave.renders[x])
       /\ \A i \in wave.out : IsUpToDate(i.doc, i.render)
  /\ pending # NoPending /\ pending.generation = rep.generation =>
       \A i \in pending.items : IsUpToDate(i.doc, i.render)

(* Versions only grow, so 0 is the version of what never was.              *)
VersionsArePast ==
  \A f \in Files :
    /\ facts[f] <= inputs[f]
    /\ sifJob # NoJob => sifJob.inputs[f] <= inputs[f]
    /\ \A x \in Dependents[f] :
         published[x] # NoRender => published[x].facts[f] <= inputs[f]

(* A stylesheet outside the corpus that the client has diagnostics for, or *)
(* may still be sent some for, is not on disk, and the index will not      *)
(* bring it back.                                                          *)
InWave(x)    == wave # NoWave /\ x \in wave.targets
InPending(x) ==
  pending # NoPending /\ (x \in pending.uncovered \/ \E i \in pending.items : i.doc = x)

Unread(x) == \A result \in Range(indexResults) : x \notin DOMAIN result.texts

ReadsAreOnDisk ==
  step \in {"sif", "dispatch", "pump", "tide", "input"} =>
    \A result \in Range(indexResults) : DOMAIN result.texts \subseteq OnDisk

GoneIsOffDisk ==
  \A x \in Files \ docs :
    /\ InWave(x) \/ InPending(x) => x \notin OnDisk
    /\ published[x] # NoRender => x \notin OnDisk /\ Unread(x)

(* A publication that shows a stale fact or a stale setting is owed: by    *)
(* the window, by the tide in flight, which still holds the document or    *)
(* refreshes it as an open source at the end, or by a SIF refresh that     *)
(* will see the fact change.                                               *)
StillHeld(x) ==
  \/ x \in Sources
  \/ wave # NoWave /\ (x \in wave.todo \cup wave.uncovered \/ \E i \in wave.out : i.doc = x)
  \/ InPending(x)

OwesFact(x, f) ==
  \/ f \in Covers(rep.demand)
  \/ InFlight(rep) /\ f \in Covers(rep.inFlight.demand) /\ StillHeld(x)

OwesSettings(x) ==
  /\ x \in Files
  /\ \/ Whole \in rep.demand
     \/ InFlight(rep) /\ Whole \in rep.inFlight.demand /\ StillHeld(x)

FactsOwed(x) ==
  \A f \in Reads(x) :
    \/ published[x].facts[f] = facts[f]
    \/ facts[f] # inputs[f]
    \/ OwesFact(x, f)
    \/ x \in Sources /\ f \notin docs

SettingsOwed(x) == published[x].settings = settings \/ OwesSettings(x)

StaleIsOwed ==
  \A x \in docs : published[x] # NoRender => FactsOwed(x) /\ SettingsOwed(x)

ConvergencePart == VersionsArePast /\ ReadsAreOnDisk /\ GoneIsOffDisk /\ StaleIsOwed

IInv == Types /\ SifPart /\ IndexPart /\ SlotPart /\ CarriesCurrent /\ ConvergencePart
-----------------------------------------------------------------------------
(* The lanes, as the loop calls them. *)

\* Joining stays in the lattice, covers what either side covers, and is empty
\* only when both are.
LEMMA JoinCovers ==
  ASSUME NEW d \in Demand, NEW e \in Demand
  PROVE  /\ Join(d, e) \in Demand
         /\ Covers(Join(d, e)) = Covers(d) \cup Covers(e)
         /\ Join(d, e) = Bottom <=> d = Bottom /\ e = Bottom
         /\ Whole \in Join(d, e) <=> Whole \in d \cup e
<1>1. CASE Whole \in d \cup e
  <2>1. Join(d, e) = Top
    BY <1>1 DEF Join
  <2>2. Covers(Top) = Files
    BY DEF Covers, Top
  <2>3. Covers(d) \cup Covers(e) = Files
    BY <1>1, WholeAssumption DEF Covers, Demand, Top
  <2>4. QED
    BY <1>1, <2>1, <2>2, <2>3 DEF Demand, Top, Bottom
<1>2. CASE Whole \notin d \cup e
  <2>1. Join(d, e) = d \cup e
    BY <1>2 DEF Join
  <2>2. d \in SUBSET Files /\ e \in SUBSET Files
    BY <1>2 DEF Demand, Top
  <2>3. QED
    BY <1>2, <2>1, <2>2 DEF Covers, Demand, Bottom
<1>3. QED
  BY <1>1, <1>2

\* A deposit adds its demand to the window and leaves the tide in flight
\* alone.
LEMMA DepositLane ==
  ASSUME NEW lane \in Lane, NEW d \in Demand
  PROVE  LET after == DepositNow(lane, d) IN
         /\ after \in Lane
         /\ after.inFlight = lane.inFlight
         /\ after.generation = lane.generation
         /\ Covers(after.demand) = Covers(lane.demand) \cup Covers(d)
         /\ HasDemand(after) <=> HasDemand(lane) \/ d # Bottom
         /\ Whole \in after.demand <=> Whole \in lane.demand \cup d
<1>1. CASE d = Bottom
  <2>1. DepositNow(lane, d) = lane
    BY <1>1 DEF DepositNow, Deposit
  <2>2. Covers(d) = {}
    BY <1>1 DEF Covers, Bottom
  <2>3. QED
    BY <1>1, <2>1, <2>2 DEF Bottom
<1>2. CASE d # Bottom
  <2> DEFINE joined == Join(lane.demand, d)
             since  == IF lane.oldest = NoTick THEN 0 ELSE lane.oldest
  <2>1. DepositNow(lane, d) = [lane EXCEPT !.demand = joined, !.oldest = since]
    BY <1>2 DEF DepositNow, Deposit
  <2>2. /\ joined \in Demand /\ joined # Bottom
        /\ Covers(joined) = Covers(lane.demand) \cup Covers(d)
        /\ Whole \in joined <=> Whole \in lane.demand \cup d
    BY <1>2, JoinCovers DEF Lane
  <2>3. since \in Tick
    BY DEF Lane, Tick
  <2> HIDE DEF joined, since
  <2>4. QED
    BY <1>2, <2>1, <2>2, <2>3 DEF Lane, HasDemand
<1>3. QED
  BY <1>1, <1>2

\* The whole workspace is a demand.
LEMMA TopIsDemand ==
  Top \in Demand /\ Top # Bottom /\ Covers(Top) = Files /\ Whole \in Top
BY DEF Top, Bottom, Demand, Covers

\* Reopening frees the slot, renumbers the window when there was a tide, and
\* takes the tide's demand back.
LEMMA ReopenLane ==
  ASSUME NEW lane \in Lane
  PROVE  LET after == Reopen(lane) IN
         /\ after \in Lane
         /\ ~InFlight(after)
         /\ InFlight(lane) => after.generation = lane.generation + 1
         /\ ~InFlight(lane) => after = lane
         /\ HasDemand(lane) => HasDemand(after)
         /\ Covers(lane.demand) \subseteq Covers(after.demand)
         /\ Whole \in lane.demand => Whole \in after.demand
         /\ InFlight(lane) =>
              /\ Covers(lane.inFlight.demand) \subseteq Covers(after.demand)
              /\ Whole \in lane.inFlight.demand => Whole \in after.demand
<1>1. CASE ~InFlight(lane)
  BY <1>1 DEF Reopen
<1>2. CASE InFlight(lane)
  <2> DEFINE joined == Join(lane.demand, lane.inFlight.demand)
             since  == OlderTick(lane.oldest, lane.inFlight.oldest)
  <2>1. Reopen(lane) = [lane EXCEPT !.demand = joined, !.inFlight = NoTide,
                                    !.generation = lane.generation + 1,
                                    !.oldest = since]
    BY <1>2 DEF Reopen
  <2>2. lane.demand \in Demand /\ lane.inFlight.demand \in Demand
    BY DEF Lane
  <2>3. /\ joined \in Demand
        /\ Covers(joined) = Covers(lane.demand) \cup Covers(lane.inFlight.demand)
        /\ joined = Bottom => lane.demand = Bottom
        /\ Whole \in joined <=> Whole \in lane.demand \cup lane.inFlight.demand
    BY <2>2, JoinCovers
  <2>4. since \in Tick
    BY DEF Lane, Tick, OlderTick
  <2>5. NoTide \in [demand : Demand, oldest : Tick]
    BY DEF NoTide, Demand, Bottom, Tick
  <2> HIDE DEF joined, since
  <2>6. Reopen(lane) = [demand     |-> joined,
                        inFlight   |-> NoTide,
                        generation |-> lane.generation + 1,
                        oldest     |-> since,
                        alarmed    |-> lane.alarmed,
                        alarms     |-> lane.alarms]
    BY <2>1 DEF Lane
  <2>8. lane.generation + 1 \in Nat /\ lane.alarmed \in BOOLEAN /\ lane.alarms \in Nat
    BY DEF Lane
  <2>9. Reopen(lane) \in Lane
    BY <2>3, <2>4, <2>5, <2>6, <2>8 DEF Lane
  <2>7. QED
    BY <1>2, <2>3, <2>6, <2>9 DEF HasDemand, InFlight
<1>3. QED
  BY <1>1, <1>2

\* A report frees the slot of its own generation and no other.
LEMMA CompletedLane ==
  ASSUME NEW lane \in Lane, NEW g
  PROVE  LET after == Completed(lane, g) IN
         /\ after \in Lane
         /\ after.demand = lane.demand
         /\ after.generation = lane.generation
         /\ g = lane.generation => ~InFlight(after)
         /\ g # lane.generation => after = lane
<1>1. NoTide \in [demand : Demand, oldest : Tick]
  BY DEF NoTide, Demand, Bottom, Tick
<1>2. QED
  BY <1>1 DEF Completed, Lane, InFlight

\* Through an open gate the window's demand becomes the tide in flight; the
\* closed gate leaves demand, tide and generation as they are.
LEMMA FlushLane ==
  ASSUME NEW lane \in Lane, NEW frontier, NEW idle
  PROVE  LET after == TryFlushAt(lane, frontier, idle) IN
         /\ after \in Lane
         /\ GateOpenAt(lane, frontier, idle) =>
              /\ ~InFlight(lane) /\ HasDemand(lane) /\ frontier
              /\ InFlight(after) /\ ~HasDemand(after)
              /\ after.generation = lane.generation + 1
              /\ after.inFlight.demand = lane.demand
         /\ ~GateOpenAt(lane, frontier, idle) =>
              /\ after.inFlight = lane.inFlight
              /\ after.generation = lane.generation
              /\ after.demand = lane.demand
<1>1. CASE GateOpenAt(lane, frontier, idle)
  <2>1. TryFlushAt(lane, frontier, idle) = Flush(lane)
    BY <1>1 DEF TryFlushAt, GateOpenAt, TryFlush
  <2>2. Bottom \in Demand /\ NoTick \in Tick
    BY DEF Bottom, Demand, Tick
  <2>3. Flush(lane) = [demand     |-> Bottom,
                       inFlight   |-> [demand |-> lane.demand, oldest |-> lane.oldest],
                       generation |-> lane.generation + 1,
                       oldest     |-> NoTick,
                       alarmed    |-> FALSE,
                       alarms     |-> lane.alarms]
    <3> DEFINE tide == [demand |-> lane.demand, oldest |-> lane.oldest]
    <3>1. Flush(lane) = [lane EXCEPT !.demand = Bottom, !.inFlight = tide,
                                     !.generation = lane.generation + 1,
                                     !.oldest = NoTick, !.alarmed = FALSE]
      BY DEF Flush
    <3> HIDE DEF tide
    <3>2. Flush(lane) = [demand |-> Bottom, inFlight |-> tide,
                         generation |-> lane.generation + 1, oldest |-> NoTick,
                         alarmed |-> FALSE, alarms |-> lane.alarms]
      BY <3>1 DEF Lane
    <3>3. QED
      BY <3>2 DEF tide
  <2>7. /\ lane.generation + 1 \in Nat /\ lane.alarms \in Nat
        /\ [demand |-> lane.demand, oldest |-> lane.oldest]
             \in [demand : Demand, oldest : Tick]
    BY DEF Lane
  <2>8. Flush(lane) \in Lane
    BY <2>2, <2>3, <2>7 DEF Lane
  <2>4. ~InFlight(lane) /\ HasDemand(lane) /\ frontier
    BY <1>1 DEF GateOpenAt, GateOpen
  <2>5. Flush(lane).inFlight # NoTide
    BY <2>3, <2>4 DEF NoTide, HasDemand
  <2>6. QED
    BY <1>1, <2>1, <2>3, <2>4, <2>5, <2>8 DEF InFlight, HasDemand
<1>2. CASE ~GateOpenAt(lane, frontier, idle)
  <2>1. \/ TryFlushAt(lane, frontier, idle) = lane
        \/ TryFlushAt(lane, frontier, idle) = Alarm(lane)
    BY <1>2 DEF TryFlushAt, GateOpenAt, TryFlush
  <2>2. Alarm(lane) = [demand     |-> lane.demand,
                       inFlight   |-> lane.inFlight,
                       generation |-> lane.generation,
                       oldest     |-> lane.oldest,
                       alarmed    |-> TRUE,
                       alarms     |-> lane.alarms + 1]
    <3>1. Alarm(lane) = [lane EXCEPT !.alarmed = TRUE, !.alarms = lane.alarms + 1]
      BY DEF Alarm
    <3>2. QED
      BY <3>1 DEF Lane
  <2>4. Alarm(lane) \in Lane
    <3>1. /\ lane.demand \in Demand /\ lane.generation \in Nat /\ lane.oldest \in Tick
          /\ lane.inFlight \in [demand : Demand, oldest : Tick] /\ lane.alarms + 1 \in Nat
      BY DEF Lane
    <3>2. QED
      BY <2>2, <3>1 DEF Lane
  <2>3. ASSUME NEW after, after = lane \/ after = Alarm(lane)
        PROVE  /\ after \in Lane
               /\ after.inFlight = lane.inFlight
               /\ after.generation = lane.generation
               /\ after.demand = lane.demand
    <3>1. CASE after = lane
      BY <3>1
    <3>2. CASE after = Alarm(lane)
      BY <2>2, <2>4, <3>2
    <3>3. QED
      BY <2>3, <3>1, <3>2
  <2>5. QED
    BY <1>2, <2>1, <2>3
<1>3. QED
  BY <1>1, <1>2
-----------------------------------------------------------------------------
(* What a client message may do, whichever message it is. *)

RenderedNow(x) == published[x] = NoRender \/ IsUpToDate(x, published[x])

LaneEffect ==
  /\ ledger' \in Ledger
  /\ \/ sif' = DepositNow(sif, Top)
     \/ /\ sif' = sif /\ inputs' = inputs
        /\ \A k \in SifFootprint : ledger'.marks[k] = ledger.marks[k]
  /\ \/ (rep' = rep \/ rep' = Reopen(rep)) /\ settings' = settings
     \/ rep' = DepositNow(Reopen(rep), Top)

IndexEffect ==
  /\ \/ UNCHANGED index
     \/ IndexJob(Files \ docs) /\ UNCHANGED <<corpus, indexPending, indexResults>>
  /\ \A f \in OnDisk' \ docs' : f \in OnDisk /\ f \notin docs

\* What a message leaves published it has rendered itself, or it was there
\* before; of a document it forgets it leaves nothing.
PublishedEffect ==
  /\ DOMAIN published' = Docs
  /\ \A x \in docs' :
       \/ RenderedNow(x)'
       \/ /\ x \in docs /\ published'[x] = published[x]
          /\ x \in Sources => settings' = settings
  /\ \A x \in Docs \ docs' :
       \/ published'[x] = NoRender
       \/ x \notin docs /\ published'[x] = published[x]

\* A stylesheet that enters the corpus has no bridge sources, or new ones, or
\* the sources it reaches are rendered again.
EntryEffect ==
  \A f \in Files \cap (docs' \ docs) :
    \/ inputs'[f] = 0
    \/ inputs'[f] = inputs[f] + 1
    \/ \A x \in Sources \cap docs' : f \in Reads(x) => RenderedNow(x)'

MessageEffect ==
  /\ step = "input" /\ step' = "redispatch"
  /\ UNCHANGED <<facts, tides>>
  /\ LoopTypes' /\ CorpusTypes'
  /\ \A f \in Files : inputs'[f] = inputs[f] \/ inputs'[f] = inputs[f] + 1
  /\ \A x \in Files \cap (docs \ docs') : x \notin OnDisk'
  /\ LaneEffect /\ IndexEffect /\ PublishedEffect /\ EntryEffect

\* What is scheduled is rendered from the state the message leaves.
LEMMA ScheduledRenders ==
  ASSUME NEW x \in Docs, published'[x] = Scheduled(x)'
  PROVE  RenderedNow(x)' /\ (x \notin docs' => published'[x] = NoRender)
<1>1. CASE x \in docs'
  <2>1. published'[x] = [text     |-> text'[x],
                         facts    |-> [f \in Reads(x) |-> facts'[f]],
                         settings |-> settings']
    BY <1>1 DEF Scheduled, Render, Reads
  <2>2. /\ published'[x].facts = [f \in Reads(x) |-> facts'[f]]
        /\ published'[x].settings = settings'
    BY <2>1
  <2>3. QED
    BY <1>1, <2>2 DEF RenderedNow, IsUpToDate, Reads
<1>2. CASE x \notin docs'
  BY <1>2 DEF Scheduled, NoRender, RenderedNow
<1>3. QED
  BY <1>1, <1>2

\* The documents of a schedule are rendered now, no other is published.
LEMMA ScheduleRenders ==
  ASSUME NEW S \in SUBSET Docs, Schedule(S)
  PROVE  /\ DOMAIN published' = Docs
         /\ \A x \in S : RenderedNow(x)' /\ (x \notin docs' => published'[x] = NoRender)
         /\ \A x \in Docs \ S : published'[x] = published[x]
<1>1. /\ DOMAIN published' = Docs
      /\ \A x \in S : published'[x] = Scheduled(x)'
      /\ \A x \in Docs \ S : published'[x] = published[x]
  BY DEF Schedule
<1>2. ASSUME NEW x \in S
      PROVE  RenderedNow(x)' /\ (x \notin docs' => published'[x] = NoRender)
  BY <1>1, ScheduledRenders
<1>3. QED
  BY <1>1, <1>2

\* didClose leaves no publication of its document and renders those it names.
LEMMA ClearRenders ==
  ASSUME NEW x \in Docs, NEW S \in SUBSET Docs, ClearAnd(x, S)
  PROVE  /\ DOMAIN published' = Docs
         /\ published'[x] = NoRender
         /\ \A y \in S : RenderedNow(y)' /\ (y \notin docs' => published'[y] = NoRender)
         /\ \A y \in Docs \ (S \cup {x}) : published'[y] = published[y]
<1>1. /\ DOMAIN published' = Docs
      /\ published'[x] = NoRender
      /\ \A y \in S \ {x} : published'[y] = Scheduled(y)'
      /\ RenderedNow(x)'
      /\ \A y \in Docs \ (S \cup {x}) : published'[y] = published[y]
  BY DEF ClearAnd, RenderedNow
<1>2. ASSUME NEW y \in S
      PROVE  RenderedNow(y)' /\ (y \notin docs' => published'[y] = NoRender)
  BY <1>1, ScheduledRenders
<1>3. QED
  BY <1>1, <1>2

\* Every message is received at the end of a turn.
LEMMA ReceiveTypes ==
  ASSUME Types, Receive
  PROVE  /\ step = "input" /\ step' = "redispatch" /\ LoopTypes'
         /\ NewVersion \in Nat
BY LoopAssumption DEF Types, Receive, LoopTypes, NewVersion

\* The ledger stays one whatever it advances for.
LEMMA AdvanceTypes ==
  ASSUME NEW led \in Ledger, NEW kinds
  PROVE  Advance(led, kinds) \in Ledger
BY DEF Advance, Ledger

\* What the staling of the corpus does to the lanes is a lane effect.
LEMMA StaleCorpusLanes ==
  ASSUME NEW led \in Ledger, StaleCorpus(led), settings' = settings
  PROVE  LaneEffect
BY AdvanceTypes DEF StaleCorpus, LaneEffect

\* So is leaving them alone.
LEMMA SameLanes ==
  ASSUME Types, UNCHANGED <<lanes, inputs, settings>>
  PROVE  LaneEffect
BY DEF lanes, LaneEffect, Types, LaneTypes

\* didOpen or didChange that leaves the bridge sources alone.
LEMMA EditTextEffect ==
  ASSUME Types, NEW x \in Docs, EditText(x)
  PROVE  MessageEffect
<1>1. /\ x \in Files \ docs => inputs[x] = 0
      /\ text' = [text EXCEPT ![x] = NewVersion]
      /\ docs' = docs \cup {x} /\ open' = open \cup {x}
      /\ UNCHANGED <<disk, inputs, settings, facts, lanes, index, tides>>
  BY DEF EditText, Admit, Unbridged
<1>2. PICK S \in SUBSET Docs : Schedule(S) /\ x \in S
  BY LoopAssumption DEF EditText, Types, CorpusTypes, Docs
<1>3. /\ step = "input" /\ step' = "redispatch" /\ LoopTypes' /\ NewVersion \in Nat
  BY ReceiveTypes DEF EditText
<1>4. CorpusTypes'
  BY <1>1, <1>3 DEF Types, CorpusTypes
<1>5. LaneEffect
  BY <1>1, SameLanes
<1>6. IndexEffect
  BY <1>1 DEF IndexEffect, OnDisk
<1>7. PublishedEffect /\ EntryEffect
  BY <1>1, <1>2, ScheduleRenders DEF PublishedEffect, EntryEffect, Types, CorpusTypes
<1>8. QED
  BY <1>1, <1>3, <1>4, <1>5, <1>6, <1>7 DEF MessageEffect

\* didOpen or didChange that changes them.
LEMMA EditBridgeEffect ==
  ASSUME Types, NEW x \in Files, EditBridge(x)
  PROVE  MessageEffect
<1>1. /\ text' = [text EXCEPT ![x] = NewVersion]
      /\ inputs' = [inputs EXCEPT ![x] = inputs[x] + 1]
      /\ docs' = docs \cup {x} /\ open' = open \cup {x}
      /\ StaleCorpus(ledger)
      /\ UNCHANGED <<disk, settings, facts, index, tides>>
  BY DEF EditBridge, Admit
<1>2. PICK S \in SUBSET Docs : Schedule(S) /\ x \in S
  BY LoopAssumption DEF EditBridge, Types, CorpusTypes, Docs
<1>3. /\ step = "input" /\ step' = "redispatch" /\ LoopTypes' /\ NewVersion \in Nat
  BY ReceiveTypes DEF EditBridge
<1>4. /\ CorpusTypes'
      /\ \A f \in Files : inputs'[f] = inputs[f] \/ inputs'[f] = inputs[f] + 1
  BY <1>1, <1>3 DEF Types, CorpusTypes, Docs
<1>5. LaneEffect
  BY <1>1, StaleCorpusLanes DEF Types, LaneTypes
<1>6. IndexEffect
  BY <1>1 DEF IndexEffect, OnDisk
<1>7. PublishedEffect /\ EntryEffect
  BY <1>1, <1>2, ScheduleRenders DEF PublishedEffect, EntryEffect, Types, CorpusTypes, Docs
<1>8. QED
  BY <1>1, <1>3, <1>4, <1>5, <1>6, <1>7 DEF MessageEffect

\* didClose of a stylesheet: a document that goes is not on disk.
LEMMA CloseStyleEffect ==
  ASSUME Types, NEW x \in Files, CloseStyle(x)
  PROVE  MessageEffect
<1>1. /\ x \in open
      /\ open' = open \ {x}
      /\ docs' = IF x \in OnDisk THEN docs ELSE docs \ {x}
      /\ text' = [text EXCEPT ![x] = disk[x]]
      /\ UNCHANGED <<disk, settings, facts, index, tides>>
      /\ \/ UNCHANGED <<inputs, lanes>>
         \/ inputs' = [inputs EXCEPT ![x] = inputs[x] + 1] /\ StaleCorpus(ledger)
  BY DEF CloseStyle
<1>2. PICK S \in SUBSET Docs : ClearAnd(x, S)
  BY LoopAssumption, <1>1 DEF CloseStyle, Types, CorpusTypes, Docs
<1>3. /\ step = "input" /\ step' = "redispatch" /\ LoopTypes'
  BY ReceiveTypes DEF CloseStyle
<1>4. /\ CorpusTypes'
      /\ \A f \in Files : inputs'[f] = inputs[f] \/ inputs'[f] = inputs[f] + 1
  <2>1. /\ docs' \in SUBSET Docs /\ open' \in SUBSET docs'
        /\ docs' \cap Sources \subseteq open'
    BY <1>1, LoopAssumption DEF Types, CorpusTypes, Docs
  <2>2. text' \in [Docs -> Nat]
    BY <1>1 DEF Types, CorpusTypes, Docs
  <2>3. /\ inputs' \in [Files -> Nat]
        /\ \A f \in Files : inputs'[f] = inputs[f] \/ inputs'[f] = inputs[f] + 1
    BY <1>1 DEF Types, CorpusTypes
  <2>4. QED
    BY <1>1, <2>1, <2>2, <2>3 DEF Types, CorpusTypes
<1>5. LaneEffect
  BY <1>1, SameLanes, StaleCorpusLanes DEF Types, LaneTypes
<1>6. IndexEffect /\ \A y \in Files \cap (docs \ docs') : y \notin OnDisk'
  BY <1>1 DEF IndexEffect, OnDisk
<1>7. PublishedEffect /\ EntryEffect
  <2>1. RenderedNow(x)'
    BY <1>2, ClearRenders DEF RenderedNow, Docs
  <2>2. /\ DOMAIN published' = Docs
        /\ published'[x] = NoRender
        /\ \A y \in S : RenderedNow(y)' /\ (y \notin docs' => published'[y] = NoRender)
        /\ \A y \in Docs \ (S \cup {x}) : published'[y] = published[y]
    BY <1>2, ClearRenders DEF Docs
  <2>3. docs' \subseteq docs /\ docs \subseteq docs' \cup {x}
    BY <1>1
  <2>4. PublishedEffect
    BY <1>1, <2>1, <2>2, <2>3 DEF PublishedEffect, Types, CorpusTypes
  <2>5. EntryEffect
    BY <2>3 DEF EntryEffect
  <2>6. QED
    BY <2>4, <2>5
<1>8. QED
  BY <1>1, <1>3, <1>4, <1>5, <1>6, <1>7 DEF MessageEffect

\* didClose of a source document.
LEMMA CloseSourceEffect ==
  ASSUME Types, NEW x \in Sources, CloseSource(x)
  PROVE  MessageEffect
<1>1. /\ x \in open
      /\ open' = open \ {x} /\ docs' = docs \ {x}
      /\ ClearAnd(x, {})
      /\ UNCHANGED <<text, disk, inputs, settings, facts, lanes, index, tides>>
  BY DEF CloseSource
<1>2. /\ step = "input" /\ step' = "redispatch" /\ LoopTypes'
  BY ReceiveTypes DEF CloseSource
<1>3. CorpusTypes'
  BY <1>1, LoopAssumption DEF Types, CorpusTypes, Docs
<1>4. LaneEffect
  BY <1>1, SameLanes
<1>5. x \notin Files
  BY LoopAssumption
<1>6. IndexEffect /\ \A y \in Files \cap (docs \ docs') : y \notin OnDisk'
  BY <1>1, <1>5 DEF IndexEffect, OnDisk
<1>7. PublishedEffect /\ EntryEffect
  BY <1>1, ClearRenders DEF PublishedEffect, EntryEffect, Types, CorpusTypes, Docs
<1>8. QED
  BY <1>1, <1>2, <1>3, <1>4, <1>6, <1>7 DEF MessageEffect

\* A watched stylesheet is created or changed: the open sources it reaches are
\* scheduled, so that nothing stale of theirs outlives its entry.
LEMMA ChangeOnDiskEffect ==
  ASSUME Types, NEW x \in Files, ChangeOnDisk(x)
  PROVE  MessageEffect
<1>1. /\ disk' = [disk EXCEPT ![x] = NewVersion]
      /\ \/ x \in open /\ UNCHANGED <<docs, text, inputs, sif>>
         \/ /\ x \notin open
            /\ docs' = docs \cup {x}
            /\ text' = [text EXCEPT ![x] = NewVersion]
            /\ inputs' = inputs \/ inputs' = [inputs EXCEPT ![x] = inputs[x] + 1]
            /\ sif' = DepositNow(sif, Top)
      /\ Schedule({x} \cup (open \cap Dependents[x]))
      /\ UNCHANGED <<open, settings, facts, rep, ledger, index, tides>>
  BY DEF ChangeOnDisk
<1>2. {x} \cup (open \cap Dependents[x]) \in SUBSET Docs
  BY LoopAssumption DEF Docs
<1>3. /\ step = "input" /\ step' = "redispatch" /\ LoopTypes' /\ NewVersion \in Nat
  BY ReceiveTypes DEF ChangeOnDisk
<1>4. /\ CorpusTypes'
      /\ \A f \in Files : inputs'[f] = inputs[f] \/ inputs'[f] = inputs[f] + 1
  <2>1. /\ docs' \in SUBSET Docs /\ open' \in SUBSET docs'
        /\ docs' \cap Sources \subseteq open'
    BY <1>1, LoopAssumption DEF Types, CorpusTypes, Docs
  <2>2. text' \in [Docs -> Nat] /\ disk' \in [Files -> Nat]
    BY <1>1, <1>3 DEF Types, CorpusTypes, Docs
  <2>3. /\ inputs' \in [Files -> Nat]
        /\ \A f \in Files : inputs'[f] = inputs[f] \/ inputs'[f] = inputs[f] + 1
    BY <1>1 DEF Types, CorpusTypes
  <2>4. QED
    BY <1>1, <2>1, <2>2, <2>3 DEF Types, CorpusTypes
<1>5. LaneEffect
  BY <1>1 DEF LaneEffect, Types, LaneTypes
<1>6. x \in docs' /\ docs \subseteq docs'
  BY <1>1 DEF Types, CorpusTypes
<1>7. IndexEffect
  <2>1. OnDisk' \subseteq OnDisk \cup {x}
    BY <1>1 DEF OnDisk, Types, CorpusTypes
  <2>2. QED
    BY <1>1, <1>6, <2>1 DEF IndexEffect
<1>8. PublishedEffect
  BY <1>1, <1>2, <1>6, ScheduleRenders DEF PublishedEffect, Types, CorpusTypes
<1>9. EntryEffect
  <2>1. ASSUME NEW y \in Sources \cap docs', x \in Reads(y) PROVE RenderedNow(y)'
    <3>1. y \in open /\ y \in Dependents[x]
      BY <1>1, <2>1, LoopAssumption DEF Reads, Types, CorpusTypes
    <3>2. QED
      BY <1>1, <1>2, <3>1, ScheduleRenders
  <2>2. docs' \ docs \subseteq {x}
    BY <1>1
  <2>3. QED
    BY <2>1, <2>2 DEF EntryEffect
<1>10. QED
  BY <1>1, <1>3, <1>4, <1>5, <1>6, <1>7, <1>8, <1>9 DEF MessageEffect

\* A watched stylesheet is deleted.
LEMMA DeleteOnDiskEffect ==
  ASSUME Types, NEW x \in Files, DeleteOnDisk(x)
  PROVE  MessageEffect
<1>1. /\ disk' = [disk EXCEPT ![x] = 0]
      /\ docs' = IF x \in open THEN docs ELSE docs \ {x}
      /\ Schedule({x} \cup (open \cap Dependents[x]))
      /\ UNCHANGED <<open, text, inputs, settings, facts, lanes, index, tides>>
  BY DEF DeleteOnDisk
<1>2. {x} \cup (open \cap Dependents[x]) \in SUBSET Docs
  BY LoopAssumption DEF Docs
<1>3. /\ step = "input" /\ step' = "redispatch" /\ LoopTypes'
  BY ReceiveTypes DEF DeleteOnDisk
<1>4. CorpusTypes'
  BY <1>1, LoopAssumption DEF Types, CorpusTypes, Docs
<1>5. LaneEffect
  BY <1>1, SameLanes
<1>6. IndexEffect /\ \A y \in Files \cap (docs \ docs') : y \notin OnDisk'
  BY <1>1 DEF IndexEffect, OnDisk, Types, CorpusTypes
<1>7. PublishedEffect /\ EntryEffect
  BY <1>1, <1>2, ScheduleRenders DEF PublishedEffect, EntryEffect, Types, CorpusTypes
<1>8. QED
  BY <1>1, <1>3, <1>4, <1>5, <1>6, <1>7 DEF MessageEffect

\* The diagnostics settings change: no kind the SIF footprint reads is advanced.
LEMMA SettingsEffect ==
  ASSUME Types, ChangeDiagnosticSettings
  PROVE  MessageEffect
<1>1. /\ settings' = settings + 1
      /\ ledger' = Advance(ledger, {"diagnosticSettings"})
      /\ rep' = DepositNow(Reopen(rep), Top)
      /\ Schedule(open)
      /\ UNCHANGED <<docs, open, text, disk, inputs, facts, sif, index, tides>>
  BY DEF ChangeDiagnosticSettings
<1>2. /\ step = "input" /\ step' = "redispatch" /\ LoopTypes'
  BY ReceiveTypes DEF ChangeDiagnosticSettings
<1>3. CorpusTypes'
  BY <1>1 DEF Types, CorpusTypes
<1>4. LaneEffect
  <2>1. ledger' \in Ledger
    BY <1>1, AdvanceTypes DEF Types, LaneTypes
  <2>2. \A k \in SifFootprint : ledger'.marks[k] = ledger.marks[k]
    BY <1>1 DEF SifFootprint, InputKind, Advance
  <2>3. QED
    BY <1>1, <2>1, <2>2 DEF LaneEffect
<1>5. IndexEffect
  BY <1>1 DEF IndexEffect, OnDisk
<1>6. PublishedEffect /\ EntryEffect
  BY <1>1, ScheduleRenders DEF PublishedEffect, EntryEffect, Types, CorpusTypes
<1>7. QED
  BY <1>1, <1>2, <1>3, <1>4, <1>5, <1>6 DEF MessageEffect

\* Moving the inputs of a set of admitted stylesheets by one version.
LEMMA MovedInputs ==
  ASSUME Types, NEW moved \in SUBSET Files,
         inputs' = [f \in Files |-> inputs[f] + (IF f \in moved THEN 1 ELSE 0)]
  PROVE  /\ inputs' \in [Files -> Nat]
         /\ \A f \in Files : inputs'[f] = inputs[f] \/ inputs'[f] = inputs[f] + 1
         /\ \A f \in moved : inputs'[f] = inputs[f] + 1
         /\ moved = {} => inputs' = inputs
BY DEF Types, CorpusTypes

\* The resolution settings change.
LEMMA ResolutionEffect ==
  ASSUME Types, NEW moved \in SUBSET (docs \cap Files), ChangeResolutionSettings(moved)
  PROVE  MessageEffect
<1>1. /\ inputs' = [f \in Files |-> inputs[f] + (IF f \in moved THEN 1 ELSE 0)]
      /\ ledger' = Advance(ledger, {"resolutionSettings"})
      /\ rep' = Reopen(rep) /\ sif' = DepositNow(sif, Top)
      /\ Schedule(open)
      /\ UNCHANGED <<docs, open, text, disk, settings, facts, index, tides>>
  BY DEF ChangeResolutionSettings
<1>2. /\ step = "input" /\ step' = "redispatch" /\ LoopTypes'
  BY ReceiveTypes DEF ChangeResolutionSettings
<1>3. /\ CorpusTypes'
      /\ \A f \in Files : inputs'[f] = inputs[f] \/ inputs'[f] = inputs[f] + 1
  BY <1>1, MovedInputs DEF Types, CorpusTypes
<1>4. LaneEffect
  <2>1. ledger' \in Ledger
    BY <1>1, AdvanceTypes DEF Types, LaneTypes
  <2>2. QED
    BY <1>1, <2>1 DEF LaneEffect
<1>5. IndexEffect
  BY <1>1 DEF IndexEffect, OnDisk
<1>6. PublishedEffect /\ EntryEffect
  BY <1>1, ScheduleRenders DEF PublishedEffect, EntryEffect, Types, CorpusTypes
<1>7. QED
  BY <1>1, <1>2, <1>3, <1>4, <1>5, <1>6 DEF MessageEffect

\* A manifest, a lockfile or a bundler config changes.
LEMMA ConfigDocumentEffect ==
  ASSUME Types, NEW moved \in SUBSET (docs \cap Files), ChangeConfigDocument(moved)
  PROVE  MessageEffect
<1>1. /\ inputs' = [f \in Files |-> inputs[f] + (IF f \in moved THEN 1 ELSE 0)]
      /\ sif' = DepositNow(sif, Top)
      /\ Schedule((docs \cap Files) \cup open)
      /\ UNCHANGED <<docs, open, text, disk, settings, facts, rep, ledger, index, tides>>
  BY DEF ChangeConfigDocument
<1>2. /\ step = "input" /\ step' = "redispatch" /\ LoopTypes'
  BY ReceiveTypes DEF ChangeConfigDocument
<1>3. /\ CorpusTypes'
      /\ \A f \in Files : inputs'[f] = inputs[f] \/ inputs'[f] = inputs[f] + 1
  BY <1>1, MovedInputs DEF Types, CorpusTypes
<1>4. LaneEffect
  BY <1>1 DEF LaneEffect, Types, LaneTypes
<1>5. IndexEffect
  BY <1>1 DEF IndexEffect, OnDisk
<1>6. (docs \cap Files) \cup open \in SUBSET Docs
  BY DEF Types, CorpusTypes
<1>7. PublishedEffect /\ EntryEffect
  BY <1>1, <1>6, ScheduleRenders DEF PublishedEffect, EntryEffect, Types, CorpusTypes
<1>8. QED
  BY <1>1, <1>2, <1>3, <1>4, <1>5, <1>7 DEF MessageEffect

\* An index job starts.
LEMMA StartIndexEffect ==
  ASSUME Types, StartIndex
  PROVE  MessageEffect
<1>1. /\ IndexJob(Files \ docs)
      /\ sif' = sif \/ sif' = DepositNow(sif, Top)
      /\ UNCHANGED <<corpus, rep, ledger, indexPending, indexResults, tides>>
  BY DEF StartIndex
<1>2. PICK S \in SUBSET Docs : Schedule(S)
  <2>1. {} \in SUBSET Docs /\ open \in SUBSET Docs
    BY DEF Types, CorpusTypes
  <2>2. QED
    BY <2>1 DEF StartIndex
<1>3. /\ step = "input" /\ step' = "redispatch" /\ LoopTypes'
  BY ReceiveTypes DEF StartIndex
<1>4. CorpusTypes'
  BY <1>1 DEF Types, CorpusTypes, corpus
<1>5. LaneEffect
  BY <1>1 DEF LaneEffect, corpus, Types, LaneTypes
<1>6. IndexEffect
  BY <1>1 DEF IndexEffect, OnDisk, corpus
<1>7. PublishedEffect /\ EntryEffect
  BY <1>1, <1>2, ScheduleRenders DEF PublishedEffect, EntryEffect, Types, CorpusTypes, corpus
<1>8. QED
  BY <1>1, <1>3, <1>4, <1>5, <1>6, <1>7 DEF MessageEffect, corpus

\* Every client message is one of these.
LEMMA MessageEffects == ASSUME Types, Message PROVE MessageEffect
BY EditTextEffect, EditBridgeEffect, CloseStyleEffect, ChangeOnDiskEffect,
   DeleteOnDiskEffect, CloseSourceEffect, SettingsEffect, ResolutionEffect,
   ConfigDocumentEffect, StartIndexEffect DEF Message
-----------------------------------------------------------------------------
(* The index queues. *)

\* What a queue holds after a send and after a receive.
LEMMA QueueMoves ==
  ASSUME NEW S, NEW q \in Seq(S)
  PROVE  /\ Range(q) \subseteq S
         /\ \A e \in S : /\ Append(q, e) \in Seq(S)
                         /\ Range(Append(q, e)) = Range(q) \cup {e}
         /\ q # <<>> => /\ Head(q) \in S /\ Tail(q) \in Seq(S)
                        /\ Range(q) = Range(Tail(q)) \cup {Head(q)}
         /\ q = <<>> => Range(q) = {}
<1>1. /\ Len(q) \in Nat /\ DOMAIN q = 1..Len(q)
      /\ Range(q) = {q[i] : i \in 1..Len(q)}
  BY LenProperties DEF Range
<1>2. Range(q) \subseteq S
  BY <1>1, ElementOfSeq
<1>3. ASSUME NEW e \in S
      PROVE  Append(q, e) \in Seq(S) /\ Range(Append(q, e)) = Range(q) \cup {e}
  <2>1. /\ Append(q, e) \in Seq(S)
        /\ Len(Append(q, e)) = Len(q) + 1
        /\ \A i \in 1..Len(q) : Append(q, e)[i] = q[i]
        /\ Append(q, e)[Len(q) + 1] = e
    BY AppendProperties
  <2>2. Range(Append(q, e)) = {Append(q, e)[i] : i \in 1..(Len(q) + 1)}
    BY <2>1, LenProperties DEF Range
  <2>3. QED
    BY <1>1, <2>1, <2>2
<1>4. ASSUME q # <<>>
      PROVE  /\ Head(q) \in S /\ Tail(q) \in Seq(S)
             /\ Range(q) = Range(Tail(q)) \cup {Head(q)}
  <2>1. /\ Head(q) \in S /\ Tail(q) \in Seq(S)
        /\ Len(Tail(q)) = Len(q) - 1
        /\ \A i \in 1..Len(Tail(q)) : Tail(q)[i] = q[i + 1]
    BY <1>4, HeadTailProperties
  <2>2. Len(q) >= 1 /\ Head(q) = q[1]
    BY <1>1, <1>4, EmptySeq
  <2>3. Range(Tail(q)) = {Tail(q)[i] : i \in 1..(Len(q) - 1)}
    BY <2>1, LenProperties DEF Range
  <2>4. ASSUME NEW i \in 1..Len(q)
        PROVE  i = 1 \/ (i - 1 \in 1..(Len(q) - 1) /\ Tail(q)[i - 1] = q[i])
    BY <1>1, <2>1
  <2>5. ASSUME NEW i \in 1..(Len(q) - 1)
        PROVE  i + 1 \in 1..Len(q) /\ Tail(q)[i] = q[i + 1]
    BY <1>1, <2>1
  <2>6. Range(q) \subseteq Range(Tail(q)) \cup {Head(q)}
    BY <1>1, <2>2, <2>3, <2>4
  <2>7. Range(Tail(q)) \cup {Head(q)} \subseteq Range(q)
    BY <1>1, <2>2, <2>3, <2>5
  <2>8. QED
    BY <2>1, <2>6, <2>7
<1>5. q = <<>> => Range(q) = {}
  BY <1>1, EmptySeq
<1>6. QED
  BY <1>2, <1>3, <1>4, <1>5

\* A step that leaves the index alone, and adds no file it would have to find,
\* keeps what the index holds.
LEMMA IndexUntouched ==
  ASSUME IndexTypes, IndexPart, UNCHANGED index, Missing' \subseteq Missing
  PROVE  IndexTypes' /\ IndexPart'
<1>1. UNCHANGED <<indexRevision, indexPending, indexJobs, indexResults>>
  BY DEF index
<1>2. IndexTypes'
  BY <1>1 DEF IndexTypes
<1>3. RevisionsArePast'
  BY <1>1 DEF IndexPart, RevisionsArePast
<1>4. LatestHoldsMissing'
  BY <1>1 DEF IndexPart, LatestHoldsMissing
<1>5. LatestIsSomewhere'
  BY <1>1 DEF IndexPart, LatestIsSomewhere
<1>6. QED
  BY <1>2, <1>3, <1>4, <1>5 DEF IndexPart

\* A fresh job is the only one of its revision, and must hold what is missing.
LEMMA FreshJob ==
  ASSUME IndexTypes, RevisionsArePast, NEW files \in SUBSET Files, IndexJob(files),
         indexPending' \in Nat, indexResults' \in Seq(WorkerResult),
         Range(indexResults') \subseteq Range(indexResults), Missing' \subseteq files
  PROVE  IndexTypes' /\ IndexPart'
<1> DEFINE job == [revision |-> indexRevision + 1, files |-> files]
<1>1. indexRevision' = indexRevision + 1 /\ indexJobs' = Append(indexJobs, job)
  BY DEF IndexJob
<1>2. job \in WorkerJob
  BY DEF WorkerJob, IndexTypes
<1>3. indexJobs' \in Seq(WorkerJob) /\ Range(indexJobs') = Range(indexJobs) \cup {job}
  BY <1>1, <1>2, QueueMoves DEF IndexTypes
<1>4. Range(indexJobs) \subseteq WorkerJob /\ Range(indexResults) \subseteq WorkerResult
  BY QueueMoves DEF IndexTypes
<1>5. \A w \in Range(indexJobs) \cup Range(indexResults) :
        w.revision \in Nat /\ w.revision <= indexRevision
  BY <1>4 DEF RevisionsArePast, WorkerJob, WorkerResult
<1>6. IndexTypes'
  BY <1>1, <1>3 DEF IndexTypes
<1>7. RevisionsArePast'
  BY <1>1, <1>3, <1>5 DEF RevisionsArePast, IndexTypes
<1>8. LatestHoldsMissing'
  BY <1>1, <1>3, <1>5 DEF LatestHoldsMissing, IndexTypes
<1>9. LatestIsSomewhere'
  BY <1>1, <1>3 DEF LatestIsSomewhere
<1>10. QED
  BY <1>6, <1>7, <1>8, <1>9 DEF IndexPart

\* The worker turns a job into a result that holds the same missing files, read
\* or left, and reads only what is on disk.
LEMMA IndexWorkerKeeps ==
  ASSUME Types, IndexPart, IndexWorker
  PROVE  /\ IndexTypes' /\ IndexPart'
         /\ \E result \in WorkerResult :
              /\ Range(indexResults') = Range(indexResults) \cup {result}
              /\ DOMAIN result.texts \subseteq OnDisk
<1> DEFINE job == Head(indexJobs)
           live == job.files \cap OnDisk
<1>1. /\ job \in WorkerJob
      /\ indexJobs' \in Seq(WorkerJob)
      /\ Range(indexJobs) = Range(indexJobs') \cup {job}
  BY QueueMoves DEF IndexWorker, Types, IndexTypes
<1>2. PICK taken \in SUBSET live :
        indexResults' = Append(indexResults, [revision |-> job.revision,
                                              texts    |-> [f \in taken |-> disk[f]],
                                              left     |-> live \ taken])
  BY DEF IndexWorker
<1> DEFINE result == [revision |-> job.revision, texts |-> [f \in taken |-> disk[f]],
                      left |-> live \ taken]
<1>3. UNCHANGED <<disk, docs, indexRevision, indexPending>>
  BY DEF IndexWorker, corpus
<1>4. live \subseteq Files /\ taken \subseteq OnDisk
  BY <1>1 DEF WorkerJob
<1>5. [f \in taken |-> disk[f]] \in UNION {[S -> Nat] : S \in SUBSET Files}
  <2>1. taken \in SUBSET Files /\ [f \in taken |-> disk[f]] \in [taken -> Nat]
    BY <1>4 DEF Types, CorpusTypes
  <2>2. QED
    BY <2>1
<1>6. result \in WorkerResult
  BY <1>1, <1>4, <1>5 DEF WorkerJob, WorkerResult
<1>7. /\ result.revision = job.revision /\ DOMAIN result.texts = taken
      /\ result.left = live \ taken
  OBVIOUS
<1>8. indexResults' = Append(indexResults, result)
  BY <1>2
<1> HIDE DEF job, live, result
<1>9. /\ indexResults' \in Seq(WorkerResult)
      /\ Range(indexResults') = Range(indexResults) \cup {result}
  BY <1>6, <1>8, QueueMoves DEF Types, IndexTypes
<1>10. IndexTypes'
  BY <1>1, <1>3, <1>9 DEF Types, IndexTypes
<1>11. RevisionsArePast'
  BY <1>1, <1>3, <1>7, <1>9 DEF IndexPart, RevisionsArePast
<1>12. Missing' = Missing
  BY <1>3 DEF Missing, OnDisk
<1>13. LatestHoldsMissing'
  <2>1. job.revision = indexRevision => Missing \subseteq live
    BY <1>1 DEF IndexPart, LatestHoldsMissing, live, Missing
  <2>2. QED
    BY <1>1, <1>3, <1>7, <1>9, <1>12, <2>1 DEF IndexPart, LatestHoldsMissing
<1>14. LatestIsSomewhere'
  BY <1>1, <1>3, <1>7, <1>9, <1>12 DEF IndexPart, LatestIsSomewhere
<1>15. QED
  BY <1>4, <1>6, <1>7, <1>9, <1>10, <1>11, <1>13, <1>14 DEF IndexPart

\* A superseded result can go: another job or result holds the latest revision.
LEMMA DropIndexKeeps ==
  ASSUME Types, IndexPart, DropIndexResult
  PROVE  IndexTypes' /\ IndexPart' /\ Range(indexResults') \subseteq Range(indexResults)
<1>1. /\ indexResults' = Tail(indexResults)
      /\ Head(indexResults).revision # indexRevision
      /\ UNCHANGED <<disk, docs, indexRevision, indexPending, indexJobs>>
  BY DEF DropIndexResult, corpus
<1>2. /\ indexResults' \in Seq(WorkerResult)
      /\ Range(indexResults) = Range(indexResults') \cup {Head(indexResults)}
  BY <1>1, QueueMoves DEF DropIndexResult, Types, IndexTypes
<1>3. Missing' = Missing
  BY <1>1 DEF Missing, OnDisk
<1>4. IndexTypes' /\ RevisionsArePast' /\ LatestHoldsMissing'
  BY <1>1, <1>2, <1>3
  DEF Types, IndexTypes, IndexPart, RevisionsArePast, LatestHoldsMissing
<1>5. LatestIsSomewhere'
  BY <1>1, <1>2, <1>3 DEF IndexPart, LatestIsSomewhere
<1>6. QED
  BY <1>2, <1>4, <1>5 DEF IndexPart

\* What the result at the head of the queue admits, and what that does to the
\* lanes.
LEMMA AdmissionEffect ==
  ASSUME Types, ApplyIndexResult
  PROVE  /\ step = "index" /\ step' = "index"
         /\ UNCHANGED <<open, disk, settings, facts, tides, published, messages>>
         /\ docs \subseteq docs'
         /\ docs' = docs \cup (DOMAIN Head(indexResults).texts \ open)
         /\ CorpusTypes' /\ LaneEffect
         /\ \A f \in Files : inputs'[f] = inputs[f] \/ inputs'[f] = inputs[f] + 1
         /\ \A f \in docs' \ docs : inputs'[f] = 0 \/ inputs'[f] = inputs[f] + 1
<1> DEFINE result   == Head(indexResults)
           admitted == DOMAIN result.texts \ open
           news     == {f \in admitted : f \in docs => result.texts[f] # text[f]}
<1>1. /\ result \in WorkerResult
      /\ step = "index" /\ step' = "index"
      /\ UNCHANGED <<open, disk, settings, facts, tides, published, messages>>
  BY QueueMoves DEF ApplyIndexResult, Types, IndexTypes
<1>2. PICK bridging \in SUBSET news :
        /\ \A f \in news \ (docs \cup bridging) : Unbridged(f)
        /\ inputs' = [f \in Files |-> inputs[f] + (IF f \in bridging THEN 1 ELSE 0)]
        /\ IF admitted = {} THEN UNCHANGED lanes
           ELSE StaleCorpus(IF bridging = {} THEN ledger
                            ELSE Advance(ledger, {"documentSet"}))
  BY DEF ApplyIndexResult
<1>3. /\ docs' = docs \cup admitted
      /\ text' = [x \in Docs |-> IF x \in admitted THEN result.texts[x] ELSE text[x]]
  BY DEF ApplyIndexResult
<1>4. /\ admitted \subseteq Files
      /\ \A f \in admitted : result.texts[f] \in Nat
  BY <1>1 DEF WorkerResult
<1>5. \A f \in admitted \ docs : f \in news
  OBVIOUS
<1>6. bridging \in SUBSET Files /\ (admitted = {} => bridging = {})
  BY <1>4
<1> HIDE DEF result, admitted, news
<1>7. /\ inputs' \in [Files -> Nat]
      /\ \A f \in Files : inputs'[f] = inputs[f] \/ inputs'[f] = inputs[f] + 1
      /\ \A f \in bridging : inputs'[f] = inputs[f] + 1
      /\ bridging = {} => inputs' = inputs
  BY <1>2, <1>6, MovedInputs
<1>8. \A f \in docs' \ docs : inputs'[f] = 0 \/ inputs'[f] = inputs[f] + 1
  <2>1. ASSUME NEW f \in docs' \ docs, f \notin bridging PROVE inputs'[f] = 0
    <3>1. f \in Files /\ inputs[f] = 0
      BY <1>2, <1>3, <1>4, <1>5, <2>1 DEF Unbridged
    <3>2. QED
      BY <1>2, <2>1, <3>1
  <2>2. QED
    BY <1>7, <2>1
<1>9. CorpusTypes'
  <2>1. /\ docs' \in SUBSET Docs /\ open' \in SUBSET docs'
        /\ docs' \cap Sources \subseteq open'
    BY <1>1, <1>3, <1>4, LoopAssumption DEF Types, CorpusTypes, Docs
  <2>2. text' \in [Docs -> Nat]
    BY <1>3, <1>4 DEF Types, CorpusTypes
  <2>3. QED
    BY <1>1, <1>7, <2>1, <2>2 DEF Types, CorpusTypes
<1>10. LaneEffect
  <2>1. CASE admitted = {}
    BY <1>1, <1>2, <1>6, <1>7, <2>1, SameLanes
  <2>2. CASE admitted # {}
    BY <1>1, <1>2, <2>2, StaleCorpusLanes, AdvanceTypes DEF Types, LaneTypes
  <2>3. QED
    BY <2>1, <2>2
<1>11. docs \subseteq docs'
  BY <1>3
<1>12. QED
  BY <1>1, <1>3, <1>7, <1>8, <1>9, <1>10, <1>11 DEF result, admitted

\* Applying a result admits what it read and continues with what it left.
LEMMA ApplyIndexKeeps ==
  ASSUME Types, IndexPart, ApplyIndexResult
  PROVE  IndexTypes' /\ IndexPart' /\ Range(indexResults') \subseteq Range(indexResults)
<1> DEFINE result == Head(indexResults)
<1>1. /\ result.revision = indexRevision
      /\ indexPending' = Cardinality(result.left)
      /\ indexResults' = Tail(indexResults)
      /\ IF result.left = {} THEN UNCHANGED <<indexRevision, indexJobs>>
         ELSE IndexJob(result.left \ docs')
  BY DEF ApplyIndexResult, Continue
<1>2. /\ result \in WorkerResult
      /\ indexResults' \in Seq(WorkerResult)
      /\ Range(indexResults) = Range(indexResults') \cup {result}
  BY <1>1, QueueMoves DEF ApplyIndexResult, Types, IndexTypes
<1>3. /\ docs' = docs \cup (DOMAIN result.texts \ open)
      /\ disk' = disk
  BY AdmissionEffect
<1>4. Missing \subseteq DOMAIN result.texts \cup result.left
  BY <1>1, <1>2 DEF IndexPart, LatestHoldsMissing
<1>5. Missing' \subseteq Missing /\ Missing' \subseteq result.left \ docs'
  BY <1>3, <1>4 DEF Missing, OnDisk, Types, CorpusTypes
<1>6. result.left \in SUBSET Files
  BY <1>2 DEF WorkerResult
<1>7. indexPending' \in Nat /\ (result.left = {} => indexPending' = 0)
  BY <1>1, <1>6, LoopAssumption, FS_Subset, FS_CardinalityType, FS_EmptySet
<1> HIDE DEF result
<1>8. CASE result.left = {}
  <2>1. UNCHANGED <<indexRevision, indexJobs>> /\ Missing' = {} /\ indexPending' = 0
    BY <1>1, <1>5, <1>7, <1>8
  <2>2. IndexTypes'
    BY <1>2, <1>7, <2>1 DEF Types, IndexTypes
  <2>3. RevisionsArePast'
    BY <1>2, <2>1 DEF IndexPart, RevisionsArePast
  <2>4. LatestHoldsMissing' /\ LatestIsSomewhere'
    BY <2>1 DEF LatestHoldsMissing, LatestIsSomewhere
  <2>5. QED
    BY <1>2, <2>2, <2>3, <2>4 DEF IndexPart
<1>9. CASE result.left # {}
  <2>1. IndexJob(result.left \ docs') /\ result.left \ docs' \in SUBSET Files
    BY <1>1, <1>6, <1>9
  <2>2. IndexTypes /\ RevisionsArePast
    BY DEF Types, IndexPart
  <2>3. IndexTypes' /\ IndexPart'
    BY <1>2, <1>5, <1>7, <2>1, <2>2, FreshJob
  <2>4. QED
    BY <1>2, <2>3
<1>10. QED
  BY <1>8, <1>9

\* A message hides no file from the index: what it forgets is not on disk.
LEMMA MessageKeepsIndex ==
  ASSUME Types, IndexPart, MessageEffect
  PROVE  IndexTypes' /\ IndexPart' /\ Range(indexResults') \subseteq Range(indexResults)
<1>1. Missing' \subseteq Missing
  BY DEF MessageEffect, IndexEffect, Missing
<1>2. CASE UNCHANGED index
  BY <1>1, <1>2, IndexUntouched DEF Types, index
<1>3. CASE IndexJob(Files \ docs) /\ UNCHANGED <<corpus, indexPending, indexResults>>
  <2>1. Missing' \subseteq Files \ docs
    BY <1>1 DEF Missing, OnDisk
  <2>2. /\ indexPending' \in Nat /\ indexResults' \in Seq(WorkerResult)
        /\ Range(indexResults') \subseteq Range(indexResults)
    BY <1>3 DEF Types, IndexTypes
  <2>3. IndexTypes' /\ IndexPart'
    BY <1>3, <2>1, <2>2, FreshJob DEF Types, IndexPart
  <2>4. QED
    BY <2>2, <2>3
<1>4. QED
  BY <1>2, <1>3 DEF MessageEffect, IndexEffect
-----------------------------------------------------------------------------
(* The SIF lane and its job. *)

\* A job is told from none by its generation; so are a wave and what the loop
\* holds of one.
LEMMA Present ==
  /\ sifJob \in Job \cup {NoJob} => (sifJob # NoJob <=> sifJob \in Job)
  /\ wave \in Wave \cup {NoWave} => (wave # NoWave <=> wave \in Wave)
  /\ pending \in PendingApply \cup {NoPending} => (pending # NoPending <=> pending \in PendingApply)
  /\ NoJob.generation = 0 /\ NoWave.generation = 0 /\ NoPending.generation = 0
<1>1. NoJob.generation = 0 /\ NoWave.generation = 0 /\ NoPending.generation = 0
  BY DEF NoJob, NoWave, NoPending
<1>2. NoJob \notin Job /\ NoWave \notin Wave /\ NoPending \notin PendingApply
  BY <1>1 DEF Job, Wave, PendingApply
<1>3. QED
  BY <1>1, <1>2

\* The lanes stay in their lattices.
LEMMA LaneEffectTypes ==
  ASSUME Types, LaneEffect
  PROVE  LaneTypes'
BY DepositLane, ReopenLane, TopIsDemand DEF LaneEffect, Types, LaneTypes

\* Inputs move, and marks of the SIF footprint with them, only where a refresh
\* is deposited.
LEMMA LaneEffectKeepsSif ==
  ASSUME Types, SifPart, LaneEffect, UNCHANGED <<facts, sifJob>>
  PROVE  SifPart'
<1>1. /\ sif'.inFlight = sif.inFlight /\ sif'.generation = sif.generation
      /\ HasDemand(sif) => HasDemand(sif')
  BY DepositLane, TopIsDemand DEF LaneEffect, Types, LaneTypes
<1>2. \/ HasDemand(sif')
      \/ /\ sif' = sif /\ inputs' = inputs
         /\ \A k \in SifFootprint : ledger'.marks[k] = ledger.marks[k]
  BY DepositLane, TopIsDemand DEF LaneEffect, Types, LaneTypes
<1>3. JobHoldsSlot'
  BY <1>1 DEF SifPart, JobHoldsSlot, SifSlotHeldByJob, InFlight
<1>4. StaleSifRearms'
  BY <1>2 DEF SifPart, StaleSifRearms, IsCurrent
<1>5. JobReadInputs'
  BY <1>2 DEF SifPart, JobReadInputs
<1>6. SettledFactsAreFresh'
  BY <1>2 DEF SifPart, SettledFactsAreFresh
<1>7. QED
  BY <1>3, <1>4, <1>5, <1>6 DEF SifPart

\* A step that touches nothing the SIF part reads keeps it.
LEMMA SifUntouched ==
  ASSUME SifPart, UNCHANGED <<sif, ledger, inputs, facts, sifJob>>
  PROVE  SifPart'
BY DEF SifPart, JobHoldsSlot, SifSlotHeldByJob, StaleSifRearms, JobReadInputs,
       SettledFactsAreFresh

\* The worker finishes on the inputs it was given.
LEMMA SifWorkerKeeps ==
  ASSUME Types, SifPart, SifWorker
  PROVE  sifJob' \in Job /\ SifPart' /\ sifJob'.inputs = sifJob.inputs /\ sifJob # NoJob
<1>1. /\ sifJob # NoJob /\ sifJob' = [sifJob EXCEPT !.done = TRUE]
      /\ UNCHANGED <<sif, ledger, inputs, facts>>
  BY DEF SifWorker, lanes, corpus
<1>2. sifJob \in Job
  BY <1>1, Present DEF Types, TideTypes
<1>3. /\ sifJob' \in Job
      /\ sifJob'.generation = sifJob.generation
      /\ sifJob'.stamp = sifJob.stamp
      /\ sifJob'.inputs = sifJob.inputs
  BY <1>1, <1>2 DEF Job
<1>4. sifJob' # NoJob
  BY <1>3, Present DEF Job
<1>5. JobHoldsSlot' /\ StaleSifRearms' /\ JobReadInputs' /\ SettledFactsAreFresh'
  BY <1>1, <1>3, <1>4 DEF SifPart, JobHoldsSlot, SifSlotHeldByJob, StaleSifRearms,
                          JobReadInputs, SettledFactsAreFresh
<1>6. QED
  BY <1>1, <1>3, <1>5 DEF SifPart

\* Either way the job ends, its slot is free and what was owed still is.
LEMMA JobEnds ==
  ASSUME Types, SifPart, sifJob # NoJob,
         sif' = Completed(sif, sifJob.generation), sifJob' = NoJob
  PROVE  /\ sif' \in Lane /\ sif'.demand = sif.demand /\ ~InFlight(sif')
         /\ JobHoldsSlot' /\ StaleSifRearms' /\ JobReadInputs'
<1>1. sif' \in Lane /\ sif'.demand = sif.demand /\ ~InFlight(sif')
  BY CompletedLane DEF SifPart, JobHoldsSlot, Types, LaneTypes
<1>2. JobHoldsSlot' /\ StaleSifRearms' /\ JobReadInputs'
  BY <1>1 DEF JobHoldsSlot, SifSlotHeldByJob, StaleSifRearms, JobReadInputs
<1>3. QED
  BY <1>1, <1>2

\* A stale result goes: the refresh that replaces it is already owed.
LEMMA DiscardSifKeeps ==
  ASSUME Types, SifPart, DiscardSifResult
  PROVE  sif' \in Lane /\ SifPart'
<1>1. /\ sifJob # NoJob /\ ~IsCurrent(ledger, SifFootprint, sifJob.stamp)
      /\ sif' = Completed(sif, sifJob.generation) /\ sifJob' = NoJob
  BY DEF DiscardSifResult, SifDone
<1>2. HasDemand(sif)
  BY <1>1 DEF SifPart, StaleSifRearms
<1>3. SettledFactsAreFresh'
  BY <1>1, <1>2, JobEnds DEF SettledFactsAreFresh, HasDemand
<1>4. QED
  BY <1>1, <1>3, JobEnds DEF SifPart

\* A current result was read from the inputs in force, or a refresh is owed.
LEMMA ApplySifKeeps ==
  ASSUME Types, SifPart, ApplySifResult
  PROVE  /\ sif' \in Lane /\ SifPart'
         /\ sifJob \in Job /\ sifJob' = NoJob
         /\ facts' = sifJob.inputs /\ facts' \in [Files -> Nat]
         /\ UNCHANGED <<ledger, docs, open, text, disk, inputs, settings, index, wave,
                        pending, published, step, messages>>
<1>1. /\ sifJob # NoJob
      /\ sif' = Completed(sif, sifJob.generation) /\ sifJob' = NoJob
      /\ facts' = sifJob.inputs
      /\ UNCHANGED <<ledger, docs, open, text, disk, inputs, settings, index, wave,
                     pending, published, step, messages>>
  BY DEF ApplySifResult, SifDone
<1>2. sifJob \in Job
  BY <1>1, Present DEF Types, TideTypes
<1>3. SettledFactsAreFresh'
  BY <1>1, JobEnds DEF SettledFactsAreFresh, HasDemand, SifPart, JobReadInputs
<1>4. QED
  BY <1>1, <1>2, <1>3, JobEnds DEF SifPart, Job

\* A dispatched job reads the inputs in force.
LEMMA DispatchSifKeeps ==
  ASSUME Types, SifPart, DispatchSif
  PROVE  /\ sif' \in Lane /\ sifJob' \in Job \cup {NoJob} /\ SifPart'
         /\ sifJob' = sifJob \/ sifJob'.inputs = inputs
<1> DEFINE frontier == indexPending = 0
<1>1. UNCHANGED <<ledger, inputs, facts>>
  BY DEF DispatchSif, corpus
<1>2. CASE sifJob # NoJob
  <2>1. UNCHANGED <<sif, sifJob>>
    BY <1>2 DEF DispatchSif
  <2>2. QED
    BY <1>1, <2>1, SifUntouched DEF Types, LaneTypes, TideTypes
<1>3. CASE sifJob = NoJob /\ ~GateOpenAt(sif, frontier, TRUE)
  <2>1. sif' = TryFlushAt(sif, frontier, TRUE) /\ sifJob' = NoJob
    BY <1>3 DEF DispatchSif
  <2>2. /\ sif' \in Lane /\ sif'.inFlight = sif.inFlight /\ sif'.demand = sif.demand
    <3> HIDE DEF frontier
    <3>1. sif \in Lane
      BY DEF Types, LaneTypes
    <3>2. QED
      BY <1>3, <2>1, <3>1, FlushLane
  <2>3. SifPart'
    BY <1>1, <1>3, <2>1, <2>2
    DEF SifPart, JobHoldsSlot, SifSlotHeldByJob, StaleSifRearms, JobReadInputs,
        SettledFactsAreFresh, InFlight, HasDemand
  <2>4. QED
    BY <1>3, <2>1, <2>2, <2>3
<1>4. CASE sifJob = NoJob /\ GateOpenAt(sif, frontier, TRUE)
  <2>1. /\ sif' = TryFlushAt(sif, frontier, TRUE)
        /\ sifJob' = [generation |-> sif'.generation, stamp |-> ledger,
                      inputs |-> inputs, done |-> FALSE]
    BY <1>4 DEF DispatchSif
  <2>2. /\ sif' \in Lane /\ InFlight(sif') /\ sif'.generation = sif.generation + 1
    BY <1>4, <2>1, FlushLane DEF Types, LaneTypes
  <2>3. sif'.generation \in Nat \ {0}
    BY <2>2 DEF Types, LaneTypes, Lane
  <2>4. sifJob' \in Job /\ sifJob' # NoJob
    <3>1. sifJob' \in Job
      BY <2>1, <2>3 DEF Job, Types, LaneTypes, CorpusTypes
    <3>2. QED
      BY <3>1, Present DEF Job
  <2>5. /\ sifJob'.generation = sif'.generation
        /\ sifJob'.stamp = ledger /\ sifJob'.inputs = inputs
    BY <2>1
  <2>6. SifPart'
    BY <1>1, <2>2, <2>4, <2>5
    DEF SifPart, JobHoldsSlot, SifSlotHeldByJob, StaleSifRearms, JobReadInputs,
        SettledFactsAreFresh, IsCurrent
  <2>7. QED
    BY <2>2, <2>4, <2>5, <2>6
<1>5. QED
  BY <1>2, <1>3, <1>4
-----------------------------------------------------------------------------
(* The republish slot, its wave and what the loop holds of it. *)

Owned(w, p, generation) ==
  \/ w # NoWave /\ w.generation = generation
  \/ p # NoPending /\ p.generation = generation

\* SlotHeldByWave, without the records that stand for nobody.
LEMMA Owners ==
  ASSUME NEW w \in Wave \cup {NoWave}, NEW p \in PendingApply \cup {NoPending}, NEW g
  PROVE  (\E owner \in {w, p} : owner.generation > 0 /\ owner.generation = g) <=> Owned(w, p, g)
<1>1. NoWave.generation = 0 /\ NoPending.generation = 0
  BY DEF NoWave, NoPending
<1>2. /\ w # NoWave => w.generation \in Nat \ {0}
      /\ p # NoPending => p.generation \in Nat \ {0}
  BY DEF Wave, PendingApply
<1>3. QED
  BY <1>1, <1>2 DEF Owned

\* Who holds the republish slot.
LEMMA SlotOwned ==
  ASSUME TideTypes, SlotHeldByWave
  PROVE  InFlight(rep) <=> Owned(wave, pending, rep.generation)
BY Owners DEF TideTypes, SlotHeldByWave

\* Reopening leaves nobody current; leaving the lane alone, or adding to its
\* window, leaves everybody as they were.
Disowned ==
  /\ rep' \in Lane /\ ~InFlight(rep')
  /\ \/ InFlight(rep) /\ rep'.generation = rep.generation + 1
     \/ ~InFlight(rep) /\ rep'.generation = rep.generation

\* A reopened lane, with or without a new demand, disowns its tide.
LEMMA ReopenDisowns ==
  ASSUME LaneTypes, NEW d \in Demand, rep' = Reopen(rep) \/ rep' = DepositNow(Reopen(rep), d)
  PROVE  Disowned
<1> DEFINE after == Reopen(rep)
<1>1. /\ after \in Lane /\ ~InFlight(after)
      /\ InFlight(rep) => after.generation = rep.generation + 1
      /\ ~InFlight(rep) => after.generation = rep.generation
  BY ReopenLane DEF LaneTypes
<1> HIDE DEF after
<1>2. /\ DepositNow(after, d) \in Lane
      /\ DepositNow(after, d).inFlight = after.inFlight
      /\ DepositNow(after, d).generation = after.generation
  BY <1>1, DepositLane
<1>3. rep' = after \/ rep' = DepositNow(after, d)
  BY DEF after
<1>4. QED
  BY <1>1, <1>2, <1>3 DEF Disowned, InFlight

\* Nobody holds a slot that was disowned: the window has a generation no wave
\* and no queue has.
LEMMA DisownedKeepsSlot ==
  ASSUME Types, SlotPart, Disowned, UNCHANGED <<wave, pending>>, step' # "tide"
  PROVE  SlotPart' /\ CarriesCurrent' /\ ~Owned(wave', pending', rep'.generation)
<1>1. /\ rep.generation \in Nat /\ rep'.generation \in Nat
      /\ rep.generation <= rep'.generation
  BY DEF Types, LaneTypes, Lane, Disowned
<1>2. InFlight(rep) <=> Owned(wave, pending, rep.generation)
  BY SlotOwned DEF Types, SlotPart
<1>3. /\ wave # NoWave => wave.generation \in Nat /\ wave.generation <= rep.generation
      /\ pending # NoPending => pending.generation \in Nat /\ pending.generation <= rep.generation
  BY DEF SlotPart, WaveIsOrderly, PendingIsOrderly, Types, TideTypes, Wave, PendingApply
<1>4. ~Owned(wave', pending', rep'.generation)
  BY <1>1, <1>2, <1>3 DEF Disowned, Owned
<1>5. WaveIsOrderly'
  BY <1>1, <1>3 DEF SlotPart, WaveIsOrderly
<1>6. PendingIsOrderly'
  BY <1>1, <1>3 DEF SlotPart, PendingIsOrderly
<1>7. SlotHeldByWave'
  <2>1. TideTypes
    BY DEF Types
  <2>2. wave' \in Wave \cup {NoWave} /\ pending' \in PendingApply \cup {NoPending}
    BY <2>1 DEF TideTypes
  <2>3. ~ \E owner \in {wave', pending'} :
            owner.generation > 0 /\ owner.generation = rep'.generation
    BY <1>4, <2>2, Owners
  <2>4. QED
    BY <2>3 DEF SlotHeldByWave, Disowned
<1>8. CarriesCurrent'
  BY <1>4 DEF CarriesCurrent, Owned
<1>9. QED
  BY <1>4, <1>5, <1>6, <1>7, <1>8 DEF SlotPart

\* A step that touches nothing the slot depends on keeps it.
LEMMA SlotUntouched ==
  ASSUME SlotPart, CarriesCurrent, UNCHANGED <<wave, pending, facts, settings, rep>>,
         step' = "tide" => step = "tide"
  PROVE  SlotPart' /\ CarriesCurrent'
<1>1. WaveIsOrderly' /\ PendingIsOrderly'
  BY DEF SlotPart, WaveIsOrderly, PendingIsOrderly
<1>2. SlotHeldByWave'
  BY DEF SlotPart, SlotHeldByWave
<1>3. CarriesCurrent'
  BY DEF CarriesCurrent, IsUpToDate
<1>4. QED
  BY <1>1, <1>2, <1>3 DEF SlotPart

\* New settings come with a reopened republish lane, so that what a tide carries
\* stays current or is disowned.
LEMMA LaneEffectKeepsSlot ==
  ASSUME Types, SlotPart, CarriesCurrent, LaneEffect, UNCHANGED <<wave, pending, facts>>,
         step' # "tide"
  PROVE  SlotPart' /\ CarriesCurrent'
<1>1. CASE rep' = rep /\ settings' = settings
  BY <1>1, SlotUntouched
<1>2. CASE rep' = Reopen(rep) \/ rep' = DepositNow(Reopen(rep), Top)
  BY <1>2, ReopenDisowns, DisownedKeepsSlot, TopIsDemand DEF Types
<1>3. QED
  BY <1>1, <1>2 DEF LaneEffect

\* The demand an applied result deposits.
LEMMA ApplySifDemand ==
  ASSUME Types, ApplySifResult
  PROVE  \/ rep' = rep /\ facts' = facts
         \/ \E d \in Demand :
              /\ rep' = DepositNow(Reopen(rep), d)
              /\ \A f \in Files : facts'[f] # facts[f] => f \in Covers(d)
<1> DEFINE changed == {f \in Files : sifJob.inputs[f] # facts[f]}
<1>1. /\ facts' = sifJob.inputs
      /\ IF changed = {} THEN UNCHANGED rep
         ELSE \E demand \in {changed, Top} : rep' = DepositNow(Reopen(rep), demand)
  BY DEF ApplySifResult
<1>2. sifJob \in Job
  BY Present DEF ApplySifResult, SifDone, Types, TideTypes
<1>3. CASE changed = {}
  <2>1. \A f \in Files : facts'[f] = facts[f]
    BY <1>1, <1>3
  <2>2. facts' = facts
    BY <1>1, <1>2, <2>1 DEF Job, Types, CorpusTypes
  <2>3. QED
    BY <1>1, <1>3, <2>2
<1>4. CASE changed # {}
  <2>1. PICK demand \in {changed, Top} : rep' = DepositNow(Reopen(rep), demand)
    BY <1>1, <1>4
  <2>2. demand \in Demand /\ changed \subseteq Covers(demand)
    BY <2>1, TopIsDemand, WholeAssumption DEF Demand, Covers
  <2>3. QED
    BY <1>1, <2>1, <2>2
<1>5. QED
  BY <1>3, <1>4

\* So do new facts.
LEMMA ApplySifKeepsSlot ==
  ASSUME Types, SifPart, SlotPart, CarriesCurrent, ApplySifResult
  PROVE  SlotPart' /\ CarriesCurrent'
<1>1. UNCHANGED <<wave, pending, settings, step>> /\ step = "sif"
  BY ApplySifKeeps DEF ApplySifResult
<1>2. CASE rep' = rep /\ facts' = facts
  BY <1>1, <1>2, SlotUntouched
<1>3. ASSUME NEW d \in Demand, rep' = DepositNow(Reopen(rep), d)
      PROVE  SlotPart' /\ CarriesCurrent'
  BY <1>1, <1>3, ReopenDisowns, DisownedKeepsSlot DEF Types
<1>4. QED
  BY <1>2, <1>3, ApplySifDemand

\* A wave that changes only what it has left, streamed and left out keeps its
\* slot.
LEMMA WaveMoves ==
  ASSUME Types, SlotPart, CarriesCurrent, wave \in Wave, wave' \in Wave,
         wave'.generation = wave.generation, wave'.targets = wave.targets,
         wave'.renders = wave.renders, wave'.todo \subseteq wave.todo,
         wave'.uncovered \subseteq wave.targets,
         IF wave'.final THEN wave'.todo = {} ELSE wave'.uncovered = {},
         \A i \in wave'.out \ wave.out : i.doc \in wave.targets /\ i.render = wave.renders[i.doc],
         UNCHANGED <<rep, pending, facts, settings, step>>
  PROVE  SlotPart' /\ CarriesCurrent'
<1>1. wave # NoWave /\ wave' # NoWave
  BY DEF NoWave, Wave
<1>2. WaveIsOrderly'
  BY <1>1 DEF SlotPart, WaveIsOrderly
<1>3. PendingIsOrderly'
  BY <1>1 DEF SlotPart, PendingIsOrderly
<1>4. SlotHeldByWave'
  <2>1. wave \in Wave \cup {NoWave} /\ wave' \in Wave \cup {NoWave}
        /\ pending \in PendingApply \cup {NoPending}
    BY DEF Types, TideTypes
  <2>2. Owned(wave', pending, rep.generation) <=> Owned(wave, pending, rep.generation)
    BY <1>1 DEF Owned
  <2>3. InFlight(rep) <=> Owned(wave', pending, rep.generation)
    BY <2>2, SlotOwned DEF Types, SlotPart
  <2>4. (\E owner \in {wave', pending} : owner.generation > 0 /\ owner.generation = rep.generation)
          <=> Owned(wave', pending, rep.generation)
    BY <2>1, Owners
  <2>5. QED
    BY <2>3, <2>4 DEF SlotHeldByWave
<1>5. CarriesCurrent'
  BY <1>1 DEF CarriesCurrent, IsUpToDate, SlotPart, WaveIsOrderly
<1>6. QED
  BY <1>2, <1>3, <1>4, <1>5 DEF SlotPart

\* An item leaves the wave's work for its channel.
LEMMA EmitItemKeeps ==
  ASSUME Types, SlotPart, CarriesCurrent, EmitItem
  PROVE  /\ wave \in Wave /\ wave' \in Wave /\ SlotPart' /\ CarriesCurrent'
         /\ wave'.targets = wave.targets /\ wave'.uncovered = wave.uncovered
         /\ wave.out \subseteq wave'.out
         /\ \A x \in wave.todo : x \in wave'.todo \/ \E i \in wave'.out : i.doc = x
<1>1. PICK x \in wave.todo :
        wave' = [wave EXCEPT !.todo = wave.todo \ {x},
                             !.out  = wave.out \cup {[doc |-> x, render |-> wave.renders[x]]}]
  BY DEF EmitItem
<1>2. wave \in Wave /\ UNCHANGED <<rep, pending, facts, settings, step>>
  BY Present DEF EmitItem, Types, TideTypes, lanes, corpus
<1> DEFINE item == [doc |-> x, render |-> wave.renders[x]]
<1>3. item \in Item /\ item.doc = x /\ item.render = wave.renders[x] /\ x \in wave.targets
  <2>1. x \in wave.targets /\ DOMAIN wave.renders = wave.targets /\ x \in Files
    BY <1>2, Present DEF SlotPart, WaveIsOrderly, Wave, NoWave
  <2>2. wave.renders[x] \in Rendering
    BY <1>2, <2>1 DEF Wave
  <2>3. QED
    BY <2>1, <2>2 DEF Item
<1> HIDE DEF item
<1>4. wave' = [generation |-> wave.generation, targets |-> wave.targets,
               todo |-> wave.todo \ {x}, renders |-> wave.renders,
               out |-> wave.out \cup {item}, uncovered |-> wave.uncovered,
               final |-> wave.final]
  BY <1>1, <1>2 DEF Wave, item
<1>5. wave' \in Wave
  BY <1>2, <1>3, <1>4 DEF Wave
<1>6. SlotPart' /\ CarriesCurrent'
  <2>1. wave # NoWave
    BY DEF EmitItem
  <2>2. /\ wave.uncovered \subseteq wave.targets
        /\ IF wave.final THEN wave.todo = {} ELSE wave.uncovered = {}
    BY <2>1 DEF SlotPart, WaveIsOrderly
  <2>3. QED
    BY <1>2, <1>3, <1>4, <1>5, <2>2, WaveMoves
<1>7. QED
  BY <1>2, <1>3, <1>4, <1>5, <1>6

\* The final chunk names everything that is still to be done.
LEMMA FinishWaveKeeps ==
  ASSUME Types, SlotPart, CarriesCurrent, FinishWave
  PROVE  /\ wave \in Wave /\ wave' \in Wave /\ SlotPart' /\ CarriesCurrent'
         /\ wave'.targets = wave.targets /\ wave'.out = wave.out /\ ~wave.final
         /\ wave.todo \subseteq wave'.uncovered
<1>1. PICK left \in {wave.todo, wave.targets} :
        wave' = [wave EXCEPT !.todo = {}, !.uncovered = left, !.final = TRUE]
  BY DEF FinishWave
<1>2. wave \in Wave /\ wave # NoWave /\ UNCHANGED <<rep, pending, facts, settings, step>>
  BY Present DEF FinishWave, Types, TideTypes, lanes, corpus
<1>3. left \subseteq wave.targets /\ wave.todo \subseteq left /\ wave.targets \subseteq Files
  BY <1>2 DEF SlotPart, WaveIsOrderly, Wave
<1>4. wave' = [generation |-> wave.generation, targets |-> wave.targets,
               todo |-> {}, renders |-> wave.renders,
               out |-> wave.out, uncovered |-> left, final |-> TRUE]
  BY <1>1, <1>2 DEF Wave
<1>5. wave' \in Wave
  BY <1>2, <1>3, <1>4 DEF Wave
<1>6. SlotPart' /\ CarriesCurrent'
  BY <1>2, <1>3, <1>4, <1>5, WaveMoves
<1>7. ~wave.final
  BY DEF FinishWave
<1>8. QED
  BY <1>2, <1>3, <1>4, <1>5, <1>6, <1>7

\* Rendering an admitted document.
LEMMA RenderTypes ==
  ASSUME CorpusTypes, NEW x \in Docs
  PROVE  /\ Render(x) \in Rendering /\ IsUpToDate(x, Render(x))
<1>1. Render(x).facts = [f \in Reads(x) |-> facts[f]] /\ Render(x).settings = settings
  BY DEF Render
<1>2. Reads(x) \in SUBSET Files /\ [f \in Reads(x) |-> facts[f]] \in [Reads(x) -> Nat]
  BY DEF Reads, CorpusTypes
<1>3. [f \in Reads(x) |-> facts[f]] \in UNION {[S -> Nat] : S \in SUBSET Files}
  BY <1>2
<1>4. text[x] \in Nat /\ settings \in Nat
  BY DEF CorpusTypes
<1>5. QED
  BY <1>1, <1>3, <1>4 DEF Render, Rendering, IsUpToDate

\* A dispatch flushes an empty slot, with nothing left of an earlier tide.
LEMMA DispatchTideEffect ==
  ASSUME Types, SlotPart, NEW idle \in BOOLEAN, DispatchTide(idle)
  PROVE  \/ UNCHANGED <<rep, wave>>
         \/ /\ wave = NoWave /\ pending = NoPending
            /\ rep' \in Lane /\ rep'.generation = rep.generation + 1
            /\ ~InFlight(rep)
            /\ \E demand \in {rep.demand, Top} :
                 \/ /\ Targets(demand) = {} /\ wave' = NoWave /\ ~InFlight(rep')
                 \/ /\ InFlight(rep') /\ rep'.inFlight.demand = rep.demand
                    /\ wave' \in Wave /\ wave'.generation = rep'.generation
                    /\ wave'.targets = Targets(demand) /\ wave'.todo = Targets(demand)
                    /\ wave'.renders = [x \in Targets(demand) |-> Render(x)]
                    /\ wave'.out = {} /\ wave'.uncovered = {} /\ wave'.final = FALSE
<1> SUFFICES ASSUME ~(UNCHANGED <<rep, wave>>) PROVE
         /\ wave = NoWave /\ pending = NoPending
         /\ rep' \in Lane /\ rep'.generation = rep.generation + 1
         /\ ~InFlight(rep)
         /\ \E demand \in {rep.demand, Top} :
              \/ /\ Targets(demand) = {} /\ wave' = NoWave /\ ~InFlight(rep')
              \/ /\ InFlight(rep') /\ rep'.inFlight.demand = rep.demand
                 /\ wave' \in Wave /\ wave'.generation = rep'.generation
                 /\ wave'.targets = Targets(demand) /\ wave'.todo = Targets(demand)
                 /\ wave'.renders = [x \in Targets(demand) |-> Render(x)]
                 /\ wave'.out = {} /\ wave'.uncovered = {} /\ wave'.final = FALSE
  OBVIOUS
<1> DEFINE flushed == TryFlushAt(rep, RepublishFrontier, idle)
<1>1. /\ step = "tide" /\ wave = NoWave /\ GateOpenAt(rep, RepublishFrontier, idle)
  BY DEF DispatchTide
<1>2. PICK demand \in {rep.demand, Top} :
        IF Targets(demand) = {}
        THEN rep' = Completed(flushed, flushed.generation) /\ UNCHANGED wave
        ELSE /\ rep' = flushed
             /\ wave' = [generation |-> flushed.generation,
                         targets    |-> Targets(demand),
                         todo       |-> Targets(demand),
                         renders    |-> [x \in Targets(demand) |-> Render(x)],
                         out        |-> {},
                         uncovered  |-> {},
                         final      |-> FALSE]
  BY <1>1 DEF DispatchTide
<1>3. /\ flushed \in Lane /\ InFlight(flushed) /\ ~InFlight(rep)
      /\ flushed.generation = rep.generation + 1
      /\ flushed.inFlight.demand = rep.demand
  <2>1. rep \in Lane
    BY DEF Types, LaneTypes
  <2>2. QED
    BY <1>1, <2>1, FlushLane
<1> HIDE DEF flushed
<1>4. pending = NoPending
  BY <1>1, <1>3, SlotOwned DEF Types, SlotPart, PendingIsOrderly, Owned
<1>5. CASE Targets(demand) = {}
  BY <1>1, <1>2, <1>3, <1>4, <1>5, CompletedLane
<1>6. CASE Targets(demand) # {}
  <2>1. Targets(demand) \in SUBSET Files
    BY DEF Targets
  <2>2. [x \in Targets(demand) |-> Render(x)] \in [Targets(demand) -> Rendering]
    BY <2>1, RenderTypes DEF Types, Docs
  <2>3. flushed.generation \in Nat \ {0}
    BY <1>3 DEF Types, LaneTypes, Lane
  <2>4. [x \in Targets(demand) |-> Render(x)] \in UNION {[S -> Rendering] : S \in SUBSET Files}
    BY <2>1, <2>2
  <2>5. wave' \in Wave
    <3> DEFINE targets == Targets(demand)
               renders == [x \in Targets(demand) |-> Render(x)]
    <3>1. wave' = [generation |-> flushed.generation, targets |-> targets,
                   todo |-> targets, renders |-> renders, out |-> {},
                   uncovered |-> {}, final |-> FALSE]
      BY <1>2, <1>6
    <3>2. /\ targets \in SUBSET Files
          /\ renders \in UNION {[S -> Rendering] : S \in SUBSET Files}
      BY <2>1, <2>4
    <3> HIDE DEF targets, renders
    <3>3. QED
      BY <2>3, <3>1, <3>2 DEF Wave
  <2>6. QED
    BY <1>1, <1>2, <1>3, <1>4, <1>6, <2>5
<1>7. QED
  BY <1>5, <1>6

\* With one owner, itself current, a slot in flight is well held.
LEMMA SlotHeld ==
  ASSUME NEW w \in Wave \cup {NoWave}, NEW p \in PendingApply \cup {NoPending},
         wave' = w, pending' = p, InFlight(rep') <=> Owned(w, p, rep'.generation)
  PROVE  SlotHeldByWave'
<1>1. (\E owner \in {w, p} : owner.generation > 0 /\ owner.generation = rep'.generation)
        <=> Owned(w, p, rep'.generation)
  BY Owners
<1>2. QED
  BY <1>1 DEF SlotHeldByWave

\* A dispatched wave holds the slot, renders the state it is dispatched in, and
\* leaves the slot free when there is nothing to render.
LEMMA DispatchTideKeeps ==
  ASSUME Types, SlotPart, CarriesCurrent, NEW idle \in BOOLEAN, DispatchTide(idle)
  PROVE  rep' \in Lane /\ wave' \in Wave \cup {NoWave} /\ SlotPart' /\ CarriesCurrent'
<1>1. UNCHANGED <<pending, facts, settings, text>> /\ step' = "input"
  BY DEF DispatchTide, corpus
<1>2. CASE UNCHANGED <<rep, wave>>
  BY <1>1, <1>2, SlotUntouched DEF Types, LaneTypes, TideTypes
<1>3. CASE ~(UNCHANGED <<rep, wave>>)
  <2>1. /\ wave = NoWave /\ pending = NoPending /\ pending' = NoPending
        /\ rep' \in Lane
    BY <1>1, <1>3, DispatchTideEffect
  <2>2. PICK demand \in {rep.demand, Top} :
          \/ /\ Targets(demand) = {} /\ wave' = NoWave /\ ~InFlight(rep')
          \/ /\ InFlight(rep') /\ rep'.inFlight.demand = rep.demand
             /\ wave' \in Wave /\ wave'.generation = rep'.generation
             /\ wave'.targets = Targets(demand) /\ wave'.todo = Targets(demand)
             /\ wave'.renders = [x \in Targets(demand) |-> Render(x)]
             /\ wave'.out = {} /\ wave'.uncovered = {} /\ wave'.final = FALSE
    BY <1>3, DispatchTideEffect
  <2>3. CASE wave' = NoWave /\ ~InFlight(rep')
    <3>1. ~Owned(NoWave, NoPending, rep'.generation)
      BY DEF Owned
    <3>2. SlotHeldByWave'
      BY <2>1, <2>3, <3>1, SlotHeld
    <3>3. QED
      BY <2>1, <2>3, <3>2 DEF SlotPart, WaveIsOrderly, PendingIsOrderly, CarriesCurrent
  <2>4. CASE /\ InFlight(rep') /\ wave' \in Wave /\ wave'.generation = rep'.generation
             /\ wave'.targets = Targets(demand) /\ wave'.todo = Targets(demand)
             /\ wave'.renders = [x \in Targets(demand) |-> Render(x)]
             /\ wave'.out = {} /\ wave'.uncovered = {} /\ wave'.final = FALSE
    <3>1. wave' # NoWave
      BY <2>4, Present DEF Wave, NoWave
    <3>2. SlotHeldByWave'
      <4>1. Owned(wave', NoPending, rep'.generation)
        BY <2>4, <3>1 DEF Owned
      <4>2. QED
        BY <2>1, <2>4, <4>1, SlotHeld
    <3>3. WaveIsOrderly' /\ PendingIsOrderly'
      <4>1. rep'.generation \in Nat
        BY <2>1 DEF Lane
      <4>2. QED
        BY <2>1, <2>4, <4>1 DEF WaveIsOrderly, PendingIsOrderly
    <3>4. CarriesCurrent'
      <4>1. ASSUME NEW x \in Targets(demand) PROVE IsUpToDate(x, wave.renders[x])'
        <5>1. /\ Render(x).facts = [f \in Reads(x) |-> facts[f]]
              /\ Render(x).settings = settings
              /\ wave'.renders[x] = Render(x)
          BY <2>4, RenderTypes DEF Targets, Docs, Types, IsUpToDate
        <5>2. /\ wave'.renders[x].facts = [f \in Reads(x) |-> facts'[f]]
              /\ wave'.renders[x].settings = settings'
          BY <1>1, <5>1
        <5>3. QED
          BY <5>2 DEF IsUpToDate, Reads
      <4>2. QED
        BY <2>1, <2>4, <4>1 DEF CarriesCurrent
    <3>5. QED
      BY <2>1, <2>4, <3>2, <3>3, <3>4 DEF SlotPart
  <2>5. QED
    BY <2>2, <2>3, <2>4
<1>4. QED
  BY <1>2, <1>3

\* Draining the channel loses nothing of a tide that still has the slot.
LEMMA Draining ==
  ASSUME Types, SlotPart, CarriesCurrent, DrainWave
  PROVE  LET active == Drained IN
         /\ wave' \in Wave \cup {NoWave}
         /\ active \in PendingApply \cup {NoPending}
         /\ wave' # NoWave =>
              /\ wave # NoWave /\ ~wave.final
              /\ wave'.generation = wave.generation /\ wave'.targets = wave.targets
              /\ wave'.renders = wave.renders /\ wave'.todo = wave.todo
              /\ wave'.uncovered = wave.uncovered
              /\ wave'.out = {} /\ wave'.final = FALSE
              /\ active # NoPending => active.generation = wave.generation
         /\ active = NoPending => pending = NoPending
         /\ active # NoPending =>
              /\ Owned(wave, pending, active.generation)
              /\ active.generation <= rep.generation
              /\ active.finalSeen => wave' = NoWave
              /\ active.generation = rep.generation =>
                   \A i \in active.items : IsUpToDate(i.doc, i.render)
              /\ \A x \in active.uncovered : InWave(x) \/ InPending(x)
              /\ \A i \in active.items : InWave(i.doc) \/ InPending(i.doc)
              /\ pending # NoPending => active.generation = pending.generation
         /\ pending # NoPending =>
              pending.items \subseteq active.items /\ pending.uncovered \subseteq active.uncovered
         /\ wave # NoWave /\ wave.generation = rep.generation =>
              /\ wave.out # {} \/ wave.final =>
                   /\ active # NoPending
                   /\ wave.out \subseteq active.items /\ wave.uncovered \subseteq active.uncovered
              /\ wave' = NoWave => wave.final
<1> DEFINE active == Drained
<1>1. CASE wave = NoWave
  <2>1. wave' = NoWave /\ active = pending
    BY <1>1 DEF DrainWave, Drained
  <2>2. pending \in PendingApply \cup {NoPending}
    BY DEF Types, TideTypes
  <2>3. QED
    BY <1>1, <2>1, <2>2
    DEF SlotPart, PendingIsOrderly, CarriesCurrent, Owned, InPending
<1>2. CASE wave # NoWave
  <2>1. wave \in Wave
    BY <1>2 DEF Types, TideTypes
  <2>2. /\ wave.generation \in Nat \ {0} /\ wave.out \in SUBSET Item
        /\ wave.uncovered \in SUBSET Files /\ wave.final \in BOOLEAN
        /\ wave.generation <= rep.generation
        /\ wave.uncovered \subseteq wave.targets
        /\ \A i \in wave.out : i.doc \in wave.targets
    BY <1>2, <2>1 DEF Wave, SlotPart, WaveIsOrderly
  <2>3. /\ wave.final => wave' = NoWave
        /\ ~wave.final =>
             wave' = [generation |-> wave.generation, targets |-> wave.targets,
                      todo |-> wave.todo, renders |-> wave.renders, out |-> {},
                      uncovered |-> wave.uncovered, final |-> wave.final]
    BY <1>2, <2>1 DEF DrainWave, Wave
  <2>4. wave' \in Wave \cup {NoWave}
    BY <2>1, <2>3 DEF Wave
  <2>5. wave' # NoWave =>
          /\ ~wave.final
          /\ wave'.generation = wave.generation /\ wave'.targets = wave.targets
          /\ wave'.renders = wave.renders /\ wave'.todo = wave.todo
          /\ wave'.uncovered = wave.uncovered
          /\ wave'.out = {} /\ wave'.final = FALSE
    BY <2>2, <2>3
  <2>6. wave' = NoWave => wave.final
    <3>1. ~wave.final => wave' \in Wave
      BY <2>1, <2>3 DEF Wave
    <3>2. NoWave \notin Wave
      BY DEF NoWave, Wave
    <3>3. QED
      BY <3>1, <3>2
  <2>7. pending # NoPending =>
          /\ pending \in PendingApply
          /\ wave.generation = pending.generation
          /\ pending.generation <= rep.generation
          /\ ~pending.finalSeen
          /\ pending.generation = rep.generation =>
               \A i \in pending.items : IsUpToDate(i.doc, i.render)
    BY <1>2 DEF SlotPart, PendingIsOrderly, Types, TideTypes, CarriesCurrent
  <2>8. CASE rep.generation # wave.generation \/ (wave.out = {} /\ ~wave.final)
    <3>1. active = pending
      BY <2>8 DEF Drained
    <3>2. QED
      BY <1>2, <2>2, <2>4, <2>5, <2>6, <2>7, <2>8, <3>1
      DEF Types, TideTypes, Owned, InPending
  <2>9. CASE rep.generation = wave.generation /\ (wave.out # {} \/ wave.final)
    <3> DEFINE base == IF pending # NoPending THEN pending
                       ELSE [generation |-> wave.generation, items |-> {},
                             uncovered |-> {}, finalSeen |-> FALSE]
    <3>1. /\ base \in PendingApply /\ base.generation = wave.generation
          /\ ~base.finalSeen
          /\ \A i \in base.items : IsUpToDate(i.doc, i.render) /\ InPending(i.doc)
          /\ \A x \in base.uncovered : InPending(x)
          /\ pending # NoPending => base = pending
      <4>1. CASE pending # NoPending
        BY <2>7, <2>9, <4>1 DEF InPending
      <4>2. CASE pending = NoPending
        BY <2>2, <4>2 DEF PendingApply
      <4>3. QED
        BY <4>1, <4>2
    <3>2. active = [base EXCEPT !.items     = base.items \cup wave.out,
                                !.uncovered = base.uncovered \cup wave.uncovered,
                                !.finalSeen = base.finalSeen \/ wave.final]
      BY <1>2, <2>9 DEF Drained
    <3> HIDE DEF base, active
    <3>3. active = [generation |-> base.generation,
                    items      |-> base.items \cup wave.out,
                    uncovered  |-> base.uncovered \cup wave.uncovered,
                    finalSeen  |-> base.finalSeen \/ wave.final]
      BY <3>1, <3>2 DEF PendingApply
    <3>4. active \in PendingApply
      <4>1. /\ base.items \cup wave.out \in SUBSET Item
            /\ base.uncovered \cup wave.uncovered \in SUBSET Files
            /\ (base.finalSeen \/ wave.final) \in BOOLEAN
            /\ base.generation \in Nat \ {0}
        BY <2>2, <3>1 DEF PendingApply
      <4>2. QED
        BY <3>3, <4>1 DEF PendingApply
    <3>5. active # NoPending
      BY <3>4, Present DEF PendingApply, NoPending
    <3>6. /\ active.generation = wave.generation
          /\ active.items = base.items \cup wave.out
          /\ active.uncovered = base.uncovered \cup wave.uncovered
          /\ active.finalSeen <=> base.finalSeen \/ wave.final
      BY <3>1, <3>3
    <3>7. \A i \in wave.out : IsUpToDate(i.doc, i.render) /\ InWave(i.doc)
      BY <1>2, <2>2, <2>9 DEF CarriesCurrent, InWave
    <3>8. \A x \in wave.uncovered : InWave(x)
      BY <1>2, <2>2 DEF InWave
    <3>9. active.finalSeen => wave' = NoWave
      BY <2>3, <3>1, <3>6
    <3>10. Owned(wave, pending, active.generation)
      BY <1>2, <3>6 DEF Owned
    <3>11. QED
      BY <1>2, <2>2, <2>4, <2>5, <2>6, <2>7, <3>1, <3>4, <3>5, <3>6, <3>7, <3>8, <3>9, <3>10
      DEF active
  <2>10. QED
    BY <1>2, <2>8, <2>9
<1>3. QED
  BY <1>1, <1>2

\* What a pump publishes: refreshed documents are rendered now, a document of
\* the batch gets its item, and nobody else is touched.
Publishes(refreshed, batch) ==
  /\ DOMAIN published' = Docs
  /\ \A x \in Docs :
       \/ x \in refreshed /\ published'[x] = Scheduled(x)
       \/ x \notin refreshed /\ \E i \in batch : i.doc = x /\ published'[x] = i.render
       \/ x \notin refreshed /\ (\A i \in batch : i.doc # x) /\ published'[x] = published[x]

PumpsNothing(active) == active = NoPending /\ UNCHANGED <<rep, pending, published>>

PumpsStale(active) ==
  /\ active # NoPending /\ active.generation # rep.generation
  /\ pending' = NoPending /\ rep' = rep /\ published' = published

PumpsSome(active) ==
  /\ active # NoPending /\ active.generation = rep.generation /\ rep' = rep
  /\ pending' \in PendingApply
  /\ pending'.generation = active.generation
  /\ pending'.uncovered = active.uncovered
  /\ pending'.finalSeen = active.finalSeen
  /\ pending'.items \subseteq active.items
  /\ Publishes({}, active.items \ pending'.items)

PumpsLast(active) ==
  /\ active # NoPending /\ active.generation = rep.generation
  /\ active.finalSeen
  /\ rep' \in Lane /\ ~InFlight(rep')
  /\ rep'.generation = rep.generation /\ rep'.demand = rep.demand
  /\ pending' = NoPending
  /\ Publishes(RefreshedSources \cup active.uncovered
                 \cup (open \cap Reach(active.uncovered)), active.items)

\* One pump does one of the four.
LEMMA PumpTideEffect ==
  ASSUME Types, SlotPart, CarriesCurrent, PumpTide
  PROVE  /\ step = "pump" /\ step' = "tide" /\ DrainWave
         /\ UNCHANGED <<sif, ledger, corpus, index, sifJob, messages>>
         /\ \/ PumpsNothing(Drained) \/ PumpsStale(Drained)
            \/ PumpsSome(Drained) \/ PumpsLast(Drained)
<1> DEFINE active == Drained
<1>1. /\ step = "pump" /\ step' = "tide" /\ DrainWave
      /\ UNCHANGED <<sif, ledger, corpus, index, sifJob, messages>>
  BY DEF PumpTide
<1>2. /\ active = NoPending => UNCHANGED <<rep, pending, published>>
      /\ active # NoPending /\ active.generation # rep.generation =>
           /\ pending' = NoPending /\ rep' = Completed(rep, active.generation)
           /\ UNCHANGED published
      /\ active # NoPending /\ active.generation = rep.generation => PumpItems(active)
  BY DEF PumpTide
<1>3. active \in PendingApply \cup {NoPending}
  BY <1>1, Draining
<1>4. rep \in Lane
  BY DEF Types, LaneTypes
<1> HIDE DEF active
<1>5. CASE active = NoPending
  BY <1>1, <1>2, <1>5 DEF PumpsNothing, active
<1>6. CASE active # NoPending /\ active.generation # rep.generation
  <2>1. PumpsStale(active)
    BY <1>2, <1>4, <1>6, CompletedLane DEF PumpsStale
  <2>2. QED
    BY <1>1, <2>1 DEF active
<1>7. CASE active # NoPending /\ active.generation = rep.generation
  <2>1. PICK batch \in SUBSET active.items :
          LET rest      == active.items \ batch
              complete  == TideComplete(active, rest)
              refreshed == IF complete
                           THEN RefreshedSources \cup active.uncovered
                                \cup (open \cap Reach(active.uncovered))
                           ELSE {}
              item(x)   == CHOOSE i \in batch : i.doc = x
          IN
          /\ pending' = IF complete THEN NoPending ELSE [active EXCEPT !.items = rest]
          /\ rep' = IF complete THEN Completed(rep, active.generation) ELSE rep
          /\ published' = [x \in Docs |->
                             CASE x \in refreshed -> Scheduled(x)
                               [] x \notin refreshed /\ \E i \in batch : i.doc = x
                                                      -> item(x).render
                               [] OTHER -> published[x]]
    BY <1>2, <1>7 DEF PumpItems
  <2> DEFINE rest      == active.items \ batch
             complete  == TideComplete(active, rest)
             refreshed == IF complete
                          THEN RefreshedSources \cup active.uncovered
                               \cup (open \cap Reach(active.uncovered))
                          ELSE {}
             item(x)   == CHOOSE i \in batch : i.doc = x
  <2>2. Publishes(refreshed, batch)
    <3>1. published' = [x \in Docs |->
                          CASE x \in refreshed -> Scheduled(x)
                            [] x \notin refreshed /\ \E i \in batch : i.doc = x
                                                   -> item(x).render
                            [] OTHER -> published[x]]
      BY <2>1
    <3>2. \A x \in Docs : (\E i \in batch : i.doc = x) => item(x) \in batch /\ item(x).doc = x
      OBVIOUS
    <3> HIDE DEF refreshed, item
    <3>3. DOMAIN published' = Docs
      BY <3>1
    <3>4. ASSUME NEW x \in Docs
          PROVE  \/ x \in refreshed /\ published'[x] = Scheduled(x)
                 \/ x \notin refreshed /\ \E i \in batch : i.doc = x /\ published'[x] = i.render
                 \/ x \notin refreshed /\ (\A i \in batch : i.doc # x) /\ published'[x] = published[x]
      <4>1. CASE x \in refreshed
        BY <3>1, <4>1
      <4>2. CASE x \notin refreshed /\ \E i \in batch : i.doc = x
        <5>1. published'[x] = item(x).render
          BY <3>1, <4>2
        <5>2. QED
          BY <3>2, <4>2, <5>1
      <4>3. CASE x \notin refreshed /\ ~ \E i \in batch : i.doc = x
        BY <3>1, <4>3
      <4>4. QED
        BY <4>1, <4>2, <4>3
    <3>5. QED
      BY <3>3, <3>4 DEF Publishes
  <2>3. active \in PendingApply
    BY <1>3, <1>7
  <2>4. CASE ~complete
    <3>1. rep' = rep /\ pending' = [active EXCEPT !.items = rest] /\ refreshed = {}
      BY <2>1, <2>4
    <3>2. pending' = [generation |-> active.generation, items |-> rest,
                      uncovered |-> active.uncovered, finalSeen |-> active.finalSeen]
      BY <2>3, <3>1 DEF PendingApply
    <3>3. pending' \in PendingApply
      BY <2>3, <3>2 DEF PendingApply
    <3>4. active.items \ pending'.items = batch
      BY <3>2
    <3>5. PumpsSome(active)
      BY <1>7, <2>2, <3>1, <3>2, <3>3, <3>4 DEF PumpsSome
    <3>6. QED
      BY <1>1, <3>5 DEF active
  <2>5. CASE complete
    <3>1. /\ active.finalSeen /\ batch = active.items
          /\ refreshed = RefreshedSources \cup active.uncovered
                           \cup (open \cap Reach(active.uncovered))
      BY <2>5 DEF TideComplete
    <3>2. rep' = Completed(rep, active.generation) /\ pending' = NoPending
      BY <2>1, <2>5
    <3>3. /\ rep' \in Lane /\ ~InFlight(rep')
          /\ rep'.generation = rep.generation /\ rep'.demand = rep.demand
      BY <1>4, <1>7, <3>2, CompletedLane
    <3>4. PumpsLast(active)
      BY <1>7, <2>2, <3>1, <3>2, <3>3 DEF PumpsLast
    <3>5. QED
      BY <1>1, <3>4 DEF active
  <2>6. QED
    BY <2>4, <2>5
<1>8. QED
  BY <1>1, <1>5, <1>6, <1>7 DEF active

\* Draining moves the slot from the wave to the queue, and the last item frees it.
LEMMA PumpTideKeeps ==
  ASSUME Types, SlotPart, CarriesCurrent, PumpTide
  PROVE  /\ rep' \in Lane /\ wave' \in Wave \cup {NoWave}
         /\ pending' \in PendingApply \cup {NoPending}
         /\ SlotPart' /\ CarriesCurrent'
<1> DEFINE active == Drained
<1>1. /\ step' = "tide" /\ DrainWave
      /\ UNCHANGED <<facts, settings>>
      /\ PumpsNothing(active) \/ PumpsStale(active) \/ PumpsSome(active) \/ PumpsLast(active)
  BY PumpTideEffect DEF corpus
<1>2. /\ wave' \in Wave \cup {NoWave}
      /\ active \in PendingApply \cup {NoPending}
      /\ active = NoPending => pending = NoPending
      /\ wave' # NoWave =>
           /\ wave # NoWave /\ ~wave.final
           /\ wave'.generation = wave.generation /\ wave'.targets = wave.targets
           /\ wave'.renders = wave.renders /\ wave'.todo = wave.todo
           /\ wave'.uncovered = wave.uncovered
           /\ wave'.out = {} /\ wave'.final = FALSE
           /\ active # NoPending => active.generation = wave.generation
      /\ active # NoPending =>
           /\ Owned(wave, pending, active.generation)
           /\ active.finalSeen => wave' = NoWave
           /\ active.generation = rep.generation =>
                \A i \in active.items : IsUpToDate(i.doc, i.render)
           /\ pending # NoPending => active.generation = pending.generation
      /\ wave # NoWave /\ wave.generation = rep.generation /\ wave' = NoWave =>
           active # NoPending
  BY <1>1, Draining
<1> HIDE DEF active
<1>3. /\ rep \in Lane /\ rep.generation \in Nat
      /\ InFlight(rep) <=> Owned(wave, pending, rep.generation)
  BY SlotOwned DEF Types, LaneTypes, SlotPart, Lane
<1>4. pending \in PendingApply \cup {NoPending}
  BY DEF Types, TideTypes
<1>5. wave # NoWave =>
        /\ wave.generation <= rep.generation
        /\ wave.todo \subseteq wave.targets
        /\ DOMAIN wave.renders = wave.targets
        /\ wave.uncovered \subseteq wave.targets
        /\ ~wave.final => wave.uncovered = {}
  BY DEF SlotPart, WaveIsOrderly
<1>6. ASSUME rep'.generation = rep.generation
      PROVE  WaveIsOrderly'
  <2>1. ASSUME wave' # NoWave
        PROVE  /\ wave'.generation <= rep'.generation
               /\ DOMAIN wave'.renders = wave'.targets
               /\ wave'.todo \subseteq wave'.targets
               /\ wave'.uncovered = {} /\ wave'.out = {} /\ wave'.final = FALSE
    BY <1>2, <1>5, <1>6, <2>1
  <2>2. QED
    BY <2>1 DEF WaveIsOrderly
<1>7. wave' # NoWave /\ wave'.generation = rep.generation =>
        \A x \in wave'.targets : IsUpToDate(x, wave.renders[x])
  BY <1>2 DEF CarriesCurrent
<1>8. CASE PumpsNothing(active)
  <2>1. active = NoPending /\ rep' = rep /\ pending' = pending /\ pending = NoPending
    BY <1>2, <1>8 DEF PumpsNothing
  <2>2. InFlight(rep') <=> Owned(wave', NoPending, rep'.generation)
    BY <1>2, <1>3, <2>1 DEF Owned
  <2>3. SlotHeldByWave'
    BY <1>2, <2>1, <2>2, SlotHeld
  <2>4. PendingIsOrderly'
    BY <2>1 DEF PendingIsOrderly
  <2>5. CarriesCurrent'
    BY <1>1, <1>2, <1>7, <2>1 DEF CarriesCurrent, IsUpToDate
  <2>6. QED
    BY <1>2, <1>3, <1>4, <1>6, <2>1, <2>3, <2>4, <2>5 DEF SlotPart
<1>9. CASE PumpsStale(active)
  <2>1. /\ active # NoPending /\ active.generation # rep.generation
        /\ rep' = rep /\ pending' = NoPending
    BY <1>9 DEF PumpsStale
  <2>2. /\ wave' # NoWave => wave'.generation # rep.generation
        /\ wave # NoWave => wave.generation # rep.generation
        /\ pending # NoPending => pending.generation # rep.generation
    BY <1>2, <2>1 DEF Owned, SlotPart, PendingIsOrderly
  <2>3. ~Owned(wave', NoPending, rep.generation) /\ ~InFlight(rep)
    BY <1>3, <2>2 DEF Owned
  <2>4. SlotHeldByWave'
    BY <1>2, <2>1, <2>3, SlotHeld
  <2>5. PendingIsOrderly' /\ CarriesCurrent'
    BY <2>1, <2>2 DEF PendingIsOrderly, CarriesCurrent
  <2>6. QED
    BY <1>2, <1>3, <1>6, <2>1, <2>4, <2>5 DEF SlotPart
<1>10. CASE PumpsSome(active)
  <2>1. /\ active # NoPending /\ active.generation = rep.generation /\ rep' = rep
        /\ pending' \in PendingApply
        /\ pending'.generation = active.generation
        /\ pending'.finalSeen = active.finalSeen
        /\ pending'.items \subseteq active.items
    BY <1>10 DEF PumpsSome
  <2>2. pending' # NoPending
    BY <2>1, Present DEF PendingApply, NoPending
  <2>3. InFlight(rep') /\ Owned(wave', pending', rep'.generation)
    BY <1>2, <1>3, <2>1, <2>2 DEF Owned
  <2>4. SlotHeldByWave'
    BY <1>2, <2>1, <2>3, SlotHeld
  <2>5. PendingIsOrderly'
    BY <1>2, <1>3, <2>1, <2>2 DEF PendingIsOrderly
  <2>6. CarriesCurrent'
    BY <1>1, <1>2, <1>7, <2>1 DEF CarriesCurrent, IsUpToDate
  <2>7. QED
    BY <1>2, <1>3, <1>6, <2>1, <2>4, <2>5, <2>6 DEF SlotPart
<1>11. CASE PumpsLast(active)
  <2>1. /\ active # NoPending /\ active.generation = rep.generation
        /\ active.finalSeen /\ rep' \in Lane /\ ~InFlight(rep')
        /\ rep'.generation = rep.generation /\ pending' = NoPending
    BY <1>11 DEF PumpsLast
  <2>2. wave' = NoWave
    BY <1>2, <2>1
  <2>3. ~Owned(NoWave, NoPending, rep'.generation)
    BY DEF Owned
  <2>4. SlotHeldByWave'
    BY <2>1, <2>2, <2>3, SlotHeld
  <2>5. PendingIsOrderly' /\ CarriesCurrent'
    BY <2>1, <2>2 DEF PendingIsOrderly, CarriesCurrent
  <2>6. QED
    BY <1>2, <1>6, <2>1, <2>4, <2>5 DEF SlotPart
<1>12. QED
  BY <1>1, <1>8, <1>9, <1>10, <1>11
-----------------------------------------------------------------------------
(* Publications. *)

PublishedStep ==
  /\ DOMAIN published' = Docs
  /\ \A x \in Docs : published'[x] = published[x] \/ RenderedNow(x)'

\* What is rendered now names the facts its document reads.
LEMMA PublishedStaysTyped ==
  ASSUME PublishedTypes, PublishedStep, facts' \in [Files -> Nat]
  PROVE  PublishedTypes'
<1>1. ASSUME NEW x \in Docs, published'[x] # NoRender
      PROVE  published'[x].facts \in [Reads(x) -> Nat]
  <2>1. CASE published'[x] = published[x]
    BY <1>1, <2>1 DEF PublishedTypes
  <2>2. CASE RenderedNow(x)'
    <3>1. published'[x].facts = [f \in Reads(x) |-> facts'[f]]
      BY <1>1, <2>2 DEF RenderedNow, IsUpToDate, Reads
    <3>2. QED
      BY <3>1 DEF Reads
  <2>3. QED
    BY <2>1, <2>2 DEF PublishedStep
<1>2. QED
  BY <1>1 DEF PublishedTypes, PublishedStep, Reads

\* Scheduling by hand of the current state.
LEMMA ScheduledNow ==
  ASSUME NEW x \in Docs, published'[x] = Scheduled(x), UNCHANGED <<docs, text, facts, settings>>
  PROVE  RenderedNow(x)' /\ (x \notin docs => published'[x] = NoRender)
<1>1. CASE x \in docs
  <2>1. published'[x] = [text     |-> text[x],
                         facts    |-> [f \in Reads(x) |-> facts[f]],
                         settings |-> settings]
    BY <1>1 DEF Scheduled, Render
  <2>2. /\ published'[x].facts = [f \in Reads(x) |-> facts'[f]]
        /\ published'[x].settings = settings'
    BY <2>1
  <2>3. QED
    BY <1>1, <2>2 DEF RenderedNow, IsUpToDate, Reads
<1>2. CASE x \notin docs
  BY <1>2 DEF Scheduled, RenderedNow
<1>3. QED
  BY <1>1, <1>2

\* A pump's publications are up to date; one of a document that is gone is an
\* item of a tide.
LEMMA PublishesNow ==
  ASSUME Types, NEW refreshed \in SUBSET Docs, NEW batch \in SUBSET Item,
         \A i \in batch : IsUpToDate(i.doc, i.render),
         Publishes(refreshed, batch), UNCHANGED <<docs, text, facts, settings>>
  PROVE  /\ PublishedStep
         /\ \A x \in refreshed : RenderedNow(x)'
         /\ \A i \in batch : RenderedNow(i.doc)'
         /\ \A x \in Docs \ docs : \/ published'[x] = NoRender
                                   \/ \E i \in batch : i.doc = x
                                   \/ published'[x] = published[x]
<1>1. ASSUME NEW i \in batch, i.doc \in Docs, published'[i.doc] = i.render
      PROVE  RenderedNow(i.doc)'
  <2>1. /\ published'[i.doc].facts = [f \in Reads(i.doc) |-> facts'[f]]
        /\ published'[i.doc].settings = settings'
    BY <1>1 DEF IsUpToDate
  <2>2. QED
    BY <2>1 DEF RenderedNow, IsUpToDate, Reads
<1>2. \A i \in batch : i.doc \in Docs
  BY DEF Item, Docs
<1>3. /\ DOMAIN published' = Docs
      /\ \A x \in Docs :
           \/ x \in refreshed /\ published'[x] = Scheduled(x)
           \/ x \notin refreshed /\ \E i \in batch : i.doc = x /\ published'[x] = i.render
           \/ x \notin refreshed /\ (\A i \in batch : i.doc # x) /\ published'[x] = published[x]
  BY DEF Publishes
<1>4. ASSUME NEW x \in Docs
      PROVE  \/ RenderedNow(x)'
             \/ x \notin refreshed /\ (\A i \in batch : i.doc # x) /\ published'[x] = published[x]
  BY <1>1, <1>2, <1>3, ScheduledNow
<1>5. \A x \in Docs \ docs : \/ published'[x] = NoRender
                             \/ \E i \in batch : i.doc = x
                             \/ published'[x] = published[x]
  BY <1>3, ScheduledNow
<1>6. QED
  BY <1>2, <1>3, <1>4, <1>5 DEF PublishedStep

\* What a completed tide renders again are documents.
LEMMA RefreshedAreDocs ==
  ASSUME Types, NEW S \in SUBSET Files
  PROVE  RefreshedSources \cup S \cup (open \cap Reach(S)) \in SUBSET Docs
BY DEF RefreshedSources, Types, CorpusTypes, Docs

\* A pump publishes only what is current.
LEMMA PumpTidePublishes ==
  ASSUME Types, SlotPart, CarriesCurrent, PumpTide
  PROVE  PublishedStep
<1> DEFINE active == Drained
<1>1. /\ DrainWave /\ UNCHANGED <<docs, text, facts, settings>>
      /\ PumpsNothing(active) \/ PumpsStale(active) \/ PumpsSome(active) \/ PumpsLast(active)
  BY PumpTideEffect DEF corpus
<1>2. /\ active \in PendingApply \cup {NoPending}
      /\ active # NoPending /\ active.generation = rep.generation =>
           \A i \in active.items : IsUpToDate(i.doc, i.render)
  BY <1>1, Draining
<1> HIDE DEF active
<1>3. CASE published' = published
  BY <1>3 DEF PublishedStep, Types, PublishedTypes
<1>4. CASE PumpsSome(active)
  <2>1. /\ active \in PendingApply
        /\ \A i \in active.items : IsUpToDate(i.doc, i.render)
        /\ Publishes({}, active.items \ pending'.items)
    BY <1>2, <1>4 DEF PumpsSome
  <2>2. active.items \ pending'.items \in SUBSET Item /\ {} \in SUBSET Docs
    BY <2>1 DEF PendingApply
  <2>3. QED
    BY <1>1, <2>1, <2>2, PublishesNow
<1>5. CASE PumpsLast(active)
  <2> DEFINE refreshed == RefreshedSources \cup active.uncovered
                            \cup (open \cap Reach(active.uncovered))
  <2>1. /\ active \in PendingApply
        /\ \A i \in active.items : IsUpToDate(i.doc, i.render)
        /\ Publishes(refreshed, active.items)
    BY <1>2, <1>5 DEF PumpsLast
  <2>2. active.items \in SUBSET Item /\ refreshed \in SUBSET Docs
    BY <2>1, RefreshedAreDocs DEF PendingApply
  <2> HIDE DEF refreshed
  <2>3. QED
    BY <1>1, <2>1, <2>2, PublishesNow
<1>6. QED
  BY <1>1, <1>3, <1>4, <1>5 DEF PumpsNothing, PumpsStale

\* A message publishes only what it renders.
LEMMA MessagePublishes ==
  ASSUME Types, MessageEffect
  PROVE  PublishedStep
BY DEF MessageEffect, PublishedEffect, PublishedStep, RenderedNow, Types, CorpusTypes
-----------------------------------------------------------------------------
(* Convergence. *)

\* Published and applied versions stay behind inputs that only grow.
LEMMA VersionsKept ==
  ASSUME Types, VersionsArePast, PublishedStep,
         inputs' \in [Files -> Nat], facts' \in [Files -> Nat],
         \A f \in Files : /\ inputs'[f] >= inputs[f] /\ facts'[f] <= inputs'[f]
                          /\ sifJob' # NoJob => sifJob'.inputs[f] <= inputs'[f]
  PROVE  VersionsArePast'
<1>1. ASSUME NEW f \in Files, NEW x \in Dependents[f], published'[x] # NoRender
      PROVE  published'[x].facts[f] <= inputs'[f]
  <2>1. x \in Docs /\ f \in Reads(x)
    BY LoopAssumption DEF Reads
  <2>2. CASE published'[x] = published[x]
    <3>1. published[x].facts[f] \in Nat /\ published[x].facts[f] <= inputs[f]
      BY <1>1, <2>1, <2>2 DEF VersionsArePast, Types, PublishedTypes
    <3>2. inputs[f] \in Nat /\ inputs'[f] \in Nat /\ inputs'[f] >= inputs[f]
      BY DEF Types, CorpusTypes
    <3>3. QED
      BY <2>2, <3>1, <3>2
  <2>3. CASE RenderedNow(x)'
    <3>1. published'[x].facts = [g \in Reads(x) |-> facts'[g]]
      BY <1>1, <2>3 DEF RenderedNow, IsUpToDate, Reads
    <3>2. published'[x].facts[f] = facts'[f]
      BY <2>1, <3>1
    <3>3. QED
      BY <3>2
  <2>4. QED
    BY <2>1, <2>2, <2>3 DEF PublishedStep
<1>2. QED
  BY <1>1 DEF VersionsArePast

LateSteps == {"sif", "dispatch", "pump", "tide", "input"}

\* What was read and not yet applied stays on disk while no message comes between.
LEMMA ReadsKept ==
  ASSUME ReadsAreOnDisk, UNCHANGED <<indexResults, disk>>,
         step' \in LateSteps => step \in LateSteps
  PROVE  ReadsAreOnDisk'
BY DEF ReadsAreOnDisk, LateSteps, OnDisk

\* A stylesheet outside the corpus stays off the disk and unread.
LEMMA GoneKept ==
  ASSUME Types, GoneIsOffDisk,
         \A x \in Files \ docs' :
           /\ InWave(x)' \/ InPending(x)' => x \notin docs /\ (InWave(x) \/ InPending(x))
           /\ x \notin docs => (x \in OnDisk' => x \in OnDisk)
           /\ published'[x] # NoRender => x \notin docs /\ published'[x] = published[x],
         \A result \in Range(indexResults') :
           result \in Range(indexResults) \/ DOMAIN result.texts \subseteq OnDisk
  PROVE  GoneIsOffDisk'
<1>1. ASSUME NEW x \in Files \ docs', InWave(x)' \/ InPending(x)'
      PROVE  x \notin OnDisk'
  BY <1>1 DEF GoneIsOffDisk
<1>2. ASSUME NEW x \in Files \ docs', published'[x] # NoRender
      PROVE  x \notin OnDisk' /\ Unread(x)'
  <2>1. x \in Files \ docs /\ published[x] # NoRender
    BY <1>2
  <2>2. x \notin OnDisk /\ Unread(x) /\ x \notin OnDisk'
    BY <1>2, <2>1 DEF GoneIsOffDisk
  <2>3. \A result \in Range(indexResults') : x \notin DOMAIN result.texts
    BY <2>2 DEF Unread
  <2>4. QED
    BY <2>2, <2>3 DEF Unread
<1>3. QED
  BY <1>1, <1>2 DEF GoneIsOffDisk

\* A pump publishes nothing new for a document that is gone and on disk.
LEMMA PumpTideKeepsGone ==
  ASSUME Types, SlotPart, CarriesCurrent, GoneIsOffDisk, ReadsAreOnDisk, PumpTide
  PROVE  GoneIsOffDisk'
<1> DEFINE active == Drained
<1>1. /\ DrainWave /\ step = "pump"
      /\ UNCHANGED <<docs, text, disk, facts, settings, indexResults>>
      /\ PumpsNothing(active) \/ PumpsStale(active) \/ PumpsSome(active) \/ PumpsLast(active)
  BY PumpTideEffect DEF corpus, index
<1>2. /\ active \in PendingApply \cup {NoPending}
      /\ wave' # NoWave => wave # NoWave /\ wave'.targets = wave.targets
      /\ active = NoPending => pending = NoPending
      /\ active # NoPending =>
           /\ active.generation = rep.generation =>
                \A i \in active.items : IsUpToDate(i.doc, i.render)
           /\ \A x \in active.uncovered : InWave(x) \/ InPending(x)
           /\ \A i \in active.items : InWave(i.doc) \/ InPending(i.doc)
  BY <1>1, Draining
<1> HIDE DEF active
<1>3. \A x : InWave(x)' => InWave(x)
  BY <1>2 DEF InWave
<1>4. \A x : InPending(x)' => InWave(x) \/ InPending(x)
  <2>1. CASE PumpsNothing(active)
    BY <2>1 DEF PumpsNothing, InPending
  <2>2. CASE PumpsStale(active) \/ PumpsLast(active)
    BY <2>2 DEF PumpsStale, PumpsLast, InPending
  <2>3. CASE PumpsSome(active)
    BY <1>2, <2>3 DEF PumpsSome, InPending
  <2>4. QED
    BY <1>1, <2>1, <2>2, <2>3
<1>5. ASSUME NEW x \in Files \ docs
      PROVE  published'[x] \in {NoRender, published[x]} \/ InWave(x) \/ InPending(x)
  <2>1. CASE published' = published
    BY <2>1
  <2>2. CASE PumpsSome(active)
    <3>1. /\ active \in PendingApply
          /\ \A i \in active.items : IsUpToDate(i.doc, i.render)
          /\ Publishes({}, active.items \ pending'.items)
      BY <1>2, <2>2 DEF PumpsSome
    <3>2. active.items \ pending'.items \in SUBSET Item /\ {} \in SUBSET Docs
      BY <3>1 DEF PendingApply
    <3>3. \/ published'[x] \in {NoRender, published[x]}
          \/ \E i \in active.items \ pending'.items : i.doc = x
      BY <1>1, <3>1, <3>2, PublishesNow DEF Docs
    <3>4. QED
      BY <1>2, <2>2, <3>3 DEF PumpsSome
  <2>3. CASE PumpsLast(active)
    <3> DEFINE refreshed == RefreshedSources \cup active.uncovered
                              \cup (open \cap Reach(active.uncovered))
    <3>1. /\ active \in PendingApply
          /\ \A i \in active.items : IsUpToDate(i.doc, i.render)
          /\ Publishes(refreshed, active.items)
      BY <1>2, <2>3 DEF PumpsLast
    <3>2. active.items \in SUBSET Item /\ refreshed \in SUBSET Docs
      BY <3>1, RefreshedAreDocs DEF PendingApply
    <3> HIDE DEF refreshed
    <3>3. published'[x] \in {NoRender, published[x]} \/ \E i \in active.items : i.doc = x
      BY <1>1, <3>1, <3>2, PublishesNow DEF Docs
    <3>4. QED
      BY <1>2, <2>3, <3>3 DEF PumpsLast
  <2>4. QED
    BY <1>1, <2>1, <2>2, <2>3 DEF PumpsNothing, PumpsStale
<1>6. ASSUME NEW x \in Files \ docs'
      PROVE  /\ InWave(x)' \/ InPending(x)' => x \notin OnDisk'
             /\ published'[x] # NoRender => x \notin OnDisk' /\ Unread(x)'
  <2>1. x \in Files \ docs /\ OnDisk' = OnDisk
    BY <1>1 DEF OnDisk
  <2>2. InWave(x) \/ InPending(x) => x \notin OnDisk
    BY <2>1 DEF GoneIsOffDisk
  <2>3. x \notin OnDisk => Unread(x)
    BY <1>1 DEF ReadsAreOnDisk, Unread
  <2>4. published'[x] # NoRender => x \notin OnDisk /\ Unread(x)
    BY <1>5, <2>1, <2>2, <2>3 DEF GoneIsOffDisk
  <2>5. Unread(x) => Unread(x)'
    BY <1>1 DEF Unread
  <2>6. QED
    BY <1>3, <1>4, <2>1, <2>2, <2>4, <2>5
<1>7. QED
  BY <1>6 DEF GoneIsOffDisk

\* It is enough to answer for what a step has not rendered.
LEMMA StaleIsOwedNext ==
  ASSUME \A x \in docs' :
           published'[x] # NoRender =>
             RenderedNow(x)' \/ (FactsOwed(x)' /\ SettingsOwed(x)')
  PROVE  StaleIsOwed'
<1>1. ASSUME NEW x \in docs', published'[x] # NoRender, RenderedNow(x)'
      PROVE  FactsOwed(x)' /\ SettingsOwed(x)'
  <2>1. /\ published'[x].facts = [f \in Reads(x) |-> facts'[f]]
        /\ published'[x].settings = settings'
    BY <1>1 DEF RenderedNow, IsUpToDate, Reads
  <2>2. QED
    BY <2>1 DEF FactsOwed, SettingsOwed, Reads
<1>2. QED
  BY <1>1 DEF StaleIsOwed

\* Debts outlive a reopen and a deposit.
LEMMA DebtsOutliveReopen ==
  ASSUME LaneTypes, NEW d \in Demand, rep' = Reopen(rep) \/ rep' = DepositNow(Reopen(rep), d)
  PROVE  /\ \A x, f : OwesFact(x, f) => OwesFact(x, f)'
         /\ \A x : OwesSettings(x) => OwesSettings(x)'
<1> DEFINE after == Reopen(rep)
<1>1. /\ after \in Lane
      /\ Covers(rep.demand) \subseteq Covers(after.demand)
      /\ Whole \in rep.demand => Whole \in after.demand
      /\ InFlight(rep) =>
           /\ Covers(rep.inFlight.demand) \subseteq Covers(after.demand)
           /\ Whole \in rep.inFlight.demand => Whole \in after.demand
  BY ReopenLane DEF LaneTypes
<1> HIDE DEF after
<1>2. /\ Covers(DepositNow(after, d).demand) = Covers(after.demand) \cup Covers(d)
      /\ Whole \in after.demand => Whole \in DepositNow(after, d).demand
  BY <1>1, DepositLane
<1>3. rep' = after \/ rep' = DepositNow(after, d)
  BY DEF after
<1>4. /\ Covers(rep.demand) \subseteq Covers(rep'.demand)
      /\ Whole \in rep.demand => Whole \in rep'.demand
      /\ InFlight(rep) =>
           /\ Covers(rep.inFlight.demand) \subseteq Covers(rep'.demand)
           /\ Whole \in rep.inFlight.demand => Whole \in rep'.demand
  BY <1>1, <1>2, <1>3
<1>5. QED
  BY <1>4 DEF OwesFact, OwesSettings

\* Debts depend on the lane and on who still holds the document.
LEMMA DebtsUntouched ==
  ASSUME rep' = rep, \A x : StillHeld(x) => StillHeld(x)'
  PROVE  /\ \A x, f : OwesFact(x, f) => OwesFact(x, f)'
         /\ \A x : OwesSettings(x) => OwesSettings(x)'
BY DEF OwesFact, OwesSettings

\* Those who hold a document keep it while neither wave nor queue moves.
LEMMA SameHolders ==
  ASSUME UNCHANGED <<wave, pending>>
  PROVE  \A x : StillHeld(x) => StillHeld(x)'
BY DEF StillHeld, InPending

\* A step that leaves documents, publications and settings alone and keeps
\* the debts keeps what is owed.
LEMMA OwedKept ==
  ASSUME StaleIsOwed, UNCHANGED <<docs, published, facts, inputs, settings>>,
         \A x, f : OwesFact(x, f) => OwesFact(x, f)',
         \A x : OwesSettings(x) => OwesSettings(x)'
  PROVE  StaleIsOwed'
<1>1. ASSUME NEW x \in docs, published[x] # NoRender
      PROVE  FactsOwed(x)' /\ SettingsOwed(x)'
  BY <1>1 DEF StaleIsOwed, FactsOwed, SettingsOwed, Reads
<1>2. QED
  BY <1>1, StaleIsOwedNext

\* What a message or an admission may enter, bump and reopen.
LEMMA LaneEffectKeepsOwed ==
  ASSUME Types, VersionsArePast, StaleIsOwed, LaneEffect, EntryEffect,
         UNCHANGED <<facts, wave, pending>>, inputs' \in [Files -> Nat],
         \A f \in Files : inputs'[f] = inputs[f] \/ inputs'[f] = inputs[f] + 1,
         docs' \in SUBSET Docs,
         \A x \in docs' :
           \/ RenderedNow(x)'
           \/ /\ x \in docs /\ published'[x] = published[x]
              /\ x \in Sources => settings' = settings
  PROVE  StaleIsOwed'
<1>1. /\ \A x, f : OwesFact(x, f) => OwesFact(x, f)'
      /\ \A x : OwesSettings(x) => OwesSettings(x)'
  <2>1. CASE rep' = rep
    BY <2>1, SameHolders, DebtsUntouched
  <2>2. CASE rep' = Reopen(rep) \/ rep' = DepositNow(Reopen(rep), Top)
    BY <2>2, DebtsOutliveReopen, TopIsDemand DEF Types
  <2>3. QED
    BY <2>1, <2>2 DEF LaneEffect
<1>2. settings' = settings \/ Whole \in rep'.demand
  <2>1. CASE rep' = DepositNow(Reopen(rep), Top)
    <3>1. Reopen(rep) \in Lane
      BY ReopenLane DEF Types, LaneTypes
    <3>2. QED
      BY <2>1, <3>1, DepositLane, TopIsDemand
  <2>2. QED
    BY <2>1 DEF LaneEffect
<1>3. ASSUME NEW x \in docs', published'[x] # NoRender, ~RenderedNow(x)'
      PROVE  FactsOwed(x)' /\ SettingsOwed(x)'
  <2>1. /\ x \in docs /\ published'[x] = published[x] /\ published[x] # NoRender
        /\ x \in Sources => settings' = settings
    BY <1>3
  <2>2. x \in Docs /\ published[x].facts \in [Reads(x) -> Nat]
    BY <1>3, <2>1 DEF Types, PublishedTypes
  <2>3. ASSUME NEW f \in Reads(x)
        PROVE  \/ published[x].facts[f] = facts[f]
               \/ facts[f] # inputs'[f]
               \/ OwesFact(x, f)'
               \/ x \in Sources /\ f \notin docs'
    <3>1. /\ f \in Files /\ x \in Dependents[f]
          /\ facts[f] \in Nat /\ inputs[f] \in Nat /\ inputs'[f] \in Nat
          /\ published[x].facts[f] \in Nat
      BY <2>2 DEF Reads, Types, CorpusTypes
    <3>2. facts[f] <= inputs[f] /\ published[x].facts[f] <= inputs[f]
      BY <2>1, <3>1 DEF VersionsArePast
    <3>3. \/ published[x].facts[f] = facts[f]
          \/ facts[f] # inputs[f]
          \/ OwesFact(x, f)
          \/ x \in Sources /\ f \notin docs
      BY <2>1 DEF StaleIsOwed, FactsOwed
    <3>4. facts[f] # inputs[f] => facts[f] # inputs'[f]
      BY <3>1, <3>2
    <3>5. ASSUME x \in Sources, f \in docs' \ docs
          PROVE  published[x].facts[f] = facts[f] \/ facts[f] # inputs'[f]
      <4>1. inputs'[f] = 0 \/ inputs'[f] = inputs[f] + 1
        BY <1>3, <3>1, <3>5 DEF EntryEffect
      <4>2. QED
        BY <3>1, <3>2, <4>1
    <3>6. QED
      BY <1>1, <3>3, <3>4, <3>5
  <2>4. FactsOwed(x)'
    BY <2>1, <2>3 DEF FactsOwed, Reads
  <2>5. SettingsOwed(x)'
    <3>1. published[x].settings = settings \/ OwesSettings(x)
      BY <2>1 DEF StaleIsOwed, SettingsOwed
    <3>2. CASE settings' = settings
      BY <1>1, <2>1, <3>1, <3>2 DEF SettingsOwed
    <3>3. CASE settings' # settings
      <4>1. x \in Files /\ Whole \in rep'.demand
        BY <1>2, <2>1, <2>2, <3>3 DEF Docs
      <4>2. QED
        BY <4>1 DEF SettingsOwed, OwesSettings
    <3>4. QED
      BY <3>2, <3>3
  <2>6. QED
    BY <2>4, <2>5
<1>4. QED
  BY <1>3, StaleIsOwedNext

\* Changed facts are deposited, so that the publications they make stale are owed.
LEMMA ApplySifKeepsOwed ==
  ASSUME Types, SifPart, StaleIsOwed, ApplySifResult
  PROVE  StaleIsOwed'
<1>1. UNCHANGED <<docs, published, inputs, settings, wave, pending>>
  BY ApplySifKeeps
<1>2. CASE rep' = rep /\ facts' = facts
  BY <1>1, <1>2, SameHolders, DebtsUntouched, OwedKept
<1>3. ASSUME NEW d \in Demand, rep' = DepositNow(Reopen(rep), d),
             \A f \in Files : facts'[f] # facts[f] => f \in Covers(d)
      PROVE  StaleIsOwed'
  <2>1. /\ \A x, f : OwesFact(x, f) => OwesFact(x, f)'
        /\ \A x : OwesSettings(x) => OwesSettings(x)'
    BY <1>3, DebtsOutliveReopen DEF Types
  <2>2. \A f \in Files : facts'[f] # facts[f] => f \in Covers(rep'.demand)
    <3>1. Reopen(rep) \in Lane
      BY ReopenLane DEF Types, LaneTypes
    <3>2. QED
      BY <1>3, <3>1, DepositLane
  <2>3. ASSUME NEW x \in docs, published[x] # NoRender
        PROVE  FactsOwed(x)' /\ SettingsOwed(x)'
    <3>1. FactsOwed(x) /\ SettingsOwed(x)
      BY <2>3 DEF StaleIsOwed
    <3>2. ASSUME NEW f \in Reads(x)
          PROVE  \/ published[x].facts[f] = facts'[f]
                 \/ facts'[f] # inputs[f]
                 \/ OwesFact(x, f)'
                 \/ x \in Sources /\ f \notin docs
      <4>1. CASE facts'[f] = facts[f]
        BY <2>1, <3>1, <4>1 DEF FactsOwed
      <4>2. CASE facts'[f] # facts[f]
        BY <2>2, <4>2 DEF OwesFact, Reads
      <4>3. QED
        BY <4>1, <4>2
    <3>3. FactsOwed(x)'
      BY <1>1, <3>2 DEF FactsOwed, Reads
    <3>4. SettingsOwed(x)'
      BY <1>1, <2>1, <3>1 DEF SettingsOwed
    <3>5. QED
      BY <3>3, <3>4
  <2>4. QED
    BY <1>1, <2>3, StaleIsOwedNext
<1>4. QED
  BY <1>2, <1>3, ApplySifDemand

\* The wave's workers drop no target: it is emitted or named as left out.
LEMMA WorkersKeepOwed ==
  ASSUME Types, SlotPart, CarriesCurrent, StaleIsOwed, EmitItem \/ FinishWave
  PROVE  StaleIsOwed'
<1>1. UNCHANGED <<rep, docs, published, facts, inputs, settings, pending>>
  BY DEF EmitItem, FinishWave, lanes, corpus
<1>2. \A x : StillHeld(x) => StillHeld(x)'
  <2>1. wave \in Wave /\ wave' \in Wave /\ wave # NoWave /\ wave' # NoWave
    BY EmitItemKeeps, FinishWaveKeeps DEF Wave, NoWave
  <2>2. CASE EmitItem
    <3>1. /\ wave'.uncovered = wave.uncovered /\ wave.out \subseteq wave'.out
          /\ \A x \in wave.todo : x \in wave'.todo \/ \E i \in wave'.out : i.doc = x
      BY <2>2, EmitItemKeeps
    <3>2. QED
      BY <1>1, <2>1, <3>1 DEF StillHeld, InPending
  <2>3. CASE FinishWave
    <3>1. /\ wave'.out = wave.out /\ ~wave.final /\ wave.todo \subseteq wave'.uncovered
      BY <2>3, FinishWaveKeeps
    <3>2. wave.uncovered \subseteq wave'.uncovered
      BY <2>1, <3>1 DEF SlotPart, WaveIsOrderly
    <3>3. QED
      BY <1>1, <2>1, <3>1, <3>2 DEF StillHeld, InPending
  <2>4. QED
    BY <2>2, <2>3
<1>3. QED
  BY <1>1, <1>2, DebtsUntouched, OwedKept

\* What a demand covers is among its targets, and so is whoever it reaches.
LEMMA DemandIsTargeted ==
  ASSUME Types, NEW f \in Files, NEW d \in {rep.demand, Top}, f \in Covers(rep.demand)
  PROVE  /\ f \in docs => f \in Targets(d)
         /\ \A x \in docs \cap Files : x \in Dependents[f] => x \in Targets(d)
<1>1. rep.demand \in Demand
  BY DEF Types, LaneTypes, Lane
<1>2. d = Top \/ f \in d
  BY <1>1, WholeAssumption DEF Covers, Demand
<1>3. f \in Dependents[f]
  BY LoopAssumption
<1>4. QED
  BY <1>2, <1>3 DEF Targets, Reach

\* The window's debts become those of the tide dispatched for it.
LEMMA DispatchTideKeepsOwed ==
  ASSUME Types, SlotPart, StaleIsOwed, NEW idle \in BOOLEAN, DispatchTide(idle)
  PROVE  StaleIsOwed'
<1>1. UNCHANGED <<docs, published, facts, inputs, settings, pending>>
  BY DEF DispatchTide, corpus
<1>2. CASE UNCHANGED <<rep, wave>>
  BY <1>1, <1>2, SameHolders, DebtsUntouched, OwedKept
<1>3. CASE ~(UNCHANGED <<rep, wave>>)
  <2>1. ~InFlight(rep)
    BY <1>3, DispatchTideEffect
  <2>2. PICK demand \in {rep.demand, Top} :
          \/ Targets(demand) = {}
          \/ /\ InFlight(rep') /\ rep'.inFlight.demand = rep.demand
             /\ wave' \in Wave /\ wave'.todo = Targets(demand)
    BY <1>3, DispatchTideEffect
  <2>3. wave' \in Wave => wave' # NoWave
    BY DEF Wave, NoWave
  <2>4. ASSUME NEW x \in docs, published[x] # NoRender
        PROVE  FactsOwed(x)' /\ SettingsOwed(x)'
    <3>1. FactsOwed(x) /\ SettingsOwed(x) /\ x \in Docs
      BY <2>4 DEF StaleIsOwed, Types, CorpusTypes
    <3>2. ASSUME NEW f \in Reads(x), OwesFact(x, f), ~(x \in Sources /\ f \notin docs)
          PROVE  OwesFact(x, f)'
      <4>1. f \in Covers(rep.demand) /\ f \in Files /\ x \in Dependents[f]
        BY <2>1, <3>2 DEF OwesFact, Reads
      <4>2. x \in Files => x \in Targets(demand)
        BY <4>1, DemandIsTargeted
      <4>3. x \in Sources => f \in Targets(demand)
        BY <3>2, <4>1, DemandIsTargeted
      <4>4. /\ InFlight(rep') /\ rep'.inFlight.demand = rep.demand
            /\ wave' # NoWave /\ wave'.todo = Targets(demand)
        BY <2>2, <2>3, <3>1, <4>2, <4>3 DEF Docs
      <4>5. StillHeld(x)'
        BY <3>1, <4>2, <4>4 DEF StillHeld, Docs
      <4>6. QED
        BY <4>1, <4>4, <4>5 DEF OwesFact
    <3>3. FactsOwed(x)'
      BY <1>1, <3>1, <3>2 DEF FactsOwed, Reads
    <3>4. ASSUME OwesSettings(x) PROVE OwesSettings(x)'
      <4>1. x \in Files /\ Whole \in rep.demand
        BY <2>1, <3>4 DEF OwesSettings
      <4>2. rep.demand = Top
        BY <4>1, WholeAssumption DEF Types, LaneTypes, Lane, Demand
      <4>3. x \in Targets(demand)
        BY <4>1, <4>2 DEF Targets
      <4>4. /\ InFlight(rep') /\ rep'.inFlight.demand = rep.demand
            /\ wave' # NoWave /\ wave'.todo = Targets(demand)
        BY <2>2, <2>3, <4>3
      <4>5. QED
        BY <4>1, <4>3, <4>4 DEF OwesSettings, StillHeld
    <3>5. SettingsOwed(x)'
      BY <1>1, <3>1, <3>4 DEF SettingsOwed
    <3>6. QED
      BY <3>3, <3>5
  <2>5. QED
    BY <1>1, <2>4, StaleIsOwedNext
<1>4. QED
  BY <1>2, <1>3

\* Draining keeps what the tide in flight holds: a document is still to come
\* from the wave, or the loop has it.
LEMMA DrainedHolds ==
  ASSUME Types, SlotPart, CarriesCurrent, DrainWave, InFlight(rep), NEW x, StillHeld(x)
  PROVE  \/ x \in Sources
         \/ wave' # NoWave /\ x \in wave'.todo
         \/ Drained # NoPending /\ x \in Drained.uncovered
         \/ Drained # NoPending /\ \E i \in Drained.items : i.doc = x
<1> DEFINE active == Drained
<1>1. /\ wave' # NoWave => wave'.todo = wave.todo
      /\ active = NoPending => pending = NoPending
      /\ pending # NoPending =>
           pending.items \subseteq active.items /\ pending.uncovered \subseteq active.uncovered
      /\ wave # NoWave /\ wave.generation = rep.generation =>
           /\ wave.out # {} \/ wave.final =>
                /\ active # NoPending
                /\ wave.out \subseteq active.items /\ wave.uncovered \subseteq active.uncovered
           /\ wave' = NoWave => wave.final
  BY Draining
<1> HIDE DEF active
<1>2. /\ Owned(wave, pending, rep.generation)
      /\ wave # NoWave /\ pending # NoPending => wave.generation = pending.generation
  BY SlotOwned DEF Types, SlotPart, PendingIsOrderly
<1>3. wave # NoWave =>
        /\ wave.generation = rep.generation
        /\ wave.final => wave.todo = {}
        /\ ~wave.final => wave.uncovered = {}
  BY <1>2 DEF Owned, SlotPart, WaveIsOrderly
<1>4. CASE wave # NoWave /\ x \in wave.todo
  BY <1>1, <1>3, <1>4
<1>5. CASE wave # NoWave /\ (x \in wave.uncovered \/ \E i \in wave.out : i.doc = x)
  BY <1>1, <1>3, <1>5 DEF active
<1>6. CASE InPending(x)
  BY <1>1, <1>6 DEF active, InPending
<1>7. QED
  BY <1>4, <1>5, <1>6 DEF StillHeld

\* A step that leaves the corpus alone keeps what is owed when each document
\* is rendered again or keeps its publication and its debts.
LEMMA OwedOrRendered ==
  ASSUME StaleIsOwed, UNCHANGED <<docs, facts, inputs, settings>>,
         \A x \in docs :
           published[x] # NoRender =>
             \/ RenderedNow(x)'
             \/ /\ \A f \in Reads(x) : OwesFact(x, f) => OwesFact(x, f)'
                /\ OwesSettings(x) => OwesSettings(x)',
         \A x \in docs : published'[x] = published[x] \/ RenderedNow(x)'
  PROVE  StaleIsOwed'
<1>1. ASSUME NEW x \in docs, published'[x] # NoRender, ~RenderedNow(x)'
      PROVE  FactsOwed(x)' /\ SettingsOwed(x)'
  <2>1. /\ published'[x] = published[x] /\ published[x] # NoRender
        /\ \A f \in Reads(x) : OwesFact(x, f) => OwesFact(x, f)'
        /\ OwesSettings(x) => OwesSettings(x)'
        /\ FactsOwed(x) /\ SettingsOwed(x)
    BY <1>1 DEF StaleIsOwed
  <2>2. FactsOwed(x)'
    BY <2>1 DEF FactsOwed, Reads
  <2>3. SettingsOwed(x)'
    BY <2>1 DEF SettingsOwed
  <2>4. QED
    BY <2>2, <2>3
<1>2. QED
  BY <1>1, StaleIsOwedNext

\* An open source that reads a fact the tide in flight covers is rendered
\* again when the tide completes.
LEMMA CoveredSourcesRefresh ==
  ASSUME Types, NEW x \in docs \cap Sources, NEW f \in Reads(x),
         f \in Covers(rep.inFlight.demand)
  PROVE  x \in RefreshedSources
<1>1. rep.inFlight.demand \in Demand /\ x \in open /\ f \in Files /\ x \in Dependents[f]
  BY DEF Types, LaneTypes, CorpusTypes, Lane, Reads
<1>2. rep.inFlight.demand = Top \/ f \in rep.inFlight.demand
  BY <1>1, WholeAssumption DEF Covers, Demand
<1>3. QED
  BY <1>1, <1>2 DEF RefreshedSources, Reach

\* A completed tide has paid: what it held is published, what it left out and the
\* open sources are rendered again.
LEMMA PumpTideKeepsOwed ==
  ASSUME Types, SlotPart, CarriesCurrent, StaleIsOwed, PumpTide
  PROVE  StaleIsOwed'
<1> DEFINE active == Drained
<1>1. /\ DrainWave
      /\ UNCHANGED <<docs, open, text, facts, inputs, settings>>
      /\ PumpsNothing(active) \/ PumpsStale(active) \/ PumpsSome(active) \/ PumpsLast(active)
  BY PumpTideEffect DEF corpus
<1>2. /\ active \in PendingApply \cup {NoPending}
      /\ active = NoPending => pending = NoPending
      /\ active # NoPending =>
           /\ Owned(wave, pending, active.generation)
           /\ active.finalSeen => wave' = NoWave
           /\ active.generation = rep.generation =>
                \A i \in active.items : IsUpToDate(i.doc, i.render)
  BY <1>1, Draining
<1>3. ASSUME NEW x, InFlight(rep), StillHeld(x)
      PROVE  \/ x \in Sources
             \/ wave' # NoWave /\ x \in wave'.todo
             \/ active # NoPending /\ x \in active.uncovered
             \/ active # NoPending /\ \E i \in active.items : i.doc = x
  BY <1>1, <1>3, DrainedHolds
<1>4. \A x \in Docs : published'[x] = published[x] \/ RenderedNow(x)'
  BY PumpTidePublishes DEF PublishedStep
<1>5. docs \subseteq Docs
  BY DEF Types, CorpusTypes
<1> HIDE DEF active
<1>6. CASE PumpsNothing(active)
  <2>1. /\ active = NoPending /\ UNCHANGED <<rep, pending, published>>
    BY <1>6 DEF PumpsNothing
  <2>2. ASSUME NEW x, InFlight(rep), StillHeld(x) PROVE StillHeld(x)'
    BY <1>3, <2>1, <2>2 DEF StillHeld
  <2>3. /\ \A x, f : OwesFact(x, f) => OwesFact(x, f)'
        /\ \A x : OwesSettings(x) => OwesSettings(x)'
    BY <2>1, <2>2 DEF OwesFact, OwesSettings
  <2>4. QED
    BY <1>1, <2>1, <2>3, OwedKept
<1>7. CASE PumpsStale(active)
  <2>1. active # NoPending /\ active.generation # rep.generation /\ UNCHANGED <<rep, published>>
    BY <1>7 DEF PumpsStale
  <2>2. ~InFlight(rep)
    <3>1. ~Owned(wave, pending, rep.generation)
      BY <1>2, <2>1 DEF Owned, SlotPart, PendingIsOrderly
    <3>2. QED
      BY <3>1, SlotOwned DEF Types, SlotPart
  <2>3. /\ \A x, f : OwesFact(x, f) => OwesFact(x, f)'
        /\ \A x : OwesSettings(x) => OwesSettings(x)'
    BY <2>1, <2>2 DEF OwesFact, OwesSettings
  <2>4. QED
    BY <1>1, <2>1, <2>3, OwedKept
<1>8. CASE PumpsSome(active)
  <2> DEFINE batch == active.items \ pending'.items
  <2>1. /\ active # NoPending /\ active \in PendingApply
        /\ rep' = rep /\ pending' \in PendingApply
        /\ pending'.uncovered = active.uncovered
        /\ \A i \in active.items : IsUpToDate(i.doc, i.render)
        /\ Publishes({}, batch)
    BY <1>2, <1>8 DEF PumpsSome
  <2>2. batch \in SUBSET Item /\ {} \in SUBSET Docs
    BY <2>1 DEF PendingApply
  <2>3. \A i \in batch : RenderedNow(i.doc)'
    BY <1>1, <2>1, <2>2, PublishesNow
  <2>4. pending' # NoPending
    BY <2>1 DEF PendingApply, NoPending
  <2>5. ASSUME NEW x, InFlight(rep), StillHeld(x), ~RenderedNow(x)'
        PROVE  StillHeld(x)'
    <3>1. CASE \E i \in active.items : i.doc = x
      BY <2>3, <2>4, <2>5, <3>1 DEF StillHeld, InPending
    <3>2. CASE x \in active.uncovered
      BY <2>1, <2>4, <3>2 DEF StillHeld, InPending
    <3>3. QED
      BY <1>3, <2>5, <3>1, <3>2 DEF StillHeld
  <2>6. \A x : ~RenderedNow(x)' =>
          /\ \A f \in Reads(x) : OwesFact(x, f) => OwesFact(x, f)'
          /\ OwesSettings(x) => OwesSettings(x)'
    BY <2>1, <2>5 DEF OwesFact, OwesSettings
  <2>7. QED
    BY <1>1, <1>4, <1>5, <2>6, OwedOrRendered
<1>9. CASE PumpsLast(active)
  <2> DEFINE refreshed == RefreshedSources \cup active.uncovered
                            \cup (open \cap Reach(active.uncovered))
  <2>1. /\ active # NoPending /\ active \in PendingApply
        /\ rep'.demand = rep.demand
        /\ wave' = NoWave
        /\ \A i \in active.items : IsUpToDate(i.doc, i.render)
        /\ Publishes(refreshed, active.items)
    BY <1>2, <1>9 DEF PumpsLast
  <2>2. active.items \in SUBSET Item /\ refreshed \in SUBSET Docs
    BY <2>1, RefreshedAreDocs DEF PendingApply
  <2>3. active.uncovered \subseteq refreshed /\ RefreshedSources \subseteq refreshed
    OBVIOUS
  <2> HIDE DEF refreshed
  <2>4. /\ \A i \in active.items : RenderedNow(i.doc)'
        /\ \A x \in refreshed : RenderedNow(x)'
    BY <1>1, <2>1, <2>2, PublishesNow
  <2>5. ASSUME NEW x, InFlight(rep), StillHeld(x), ~RenderedNow(x)'
        PROVE  x \in Sources
    BY <1>3, <2>1, <2>3, <2>4, <2>5
  <2>6. ASSUME NEW x \in docs, ~RenderedNow(x)', NEW f \in Reads(x), OwesFact(x, f)
        PROVE  f \in Covers(rep.demand)
    <3>1. SUFFICES ASSUME InFlight(rep), f \in Covers(rep.inFlight.demand), StillHeld(x)
                   PROVE  FALSE
      BY <2>6 DEF OwesFact
    <3>2. x \in Sources
      BY <2>5, <2>6, <3>1
    <3>3. x \in RefreshedSources
      BY <3>1, <3>2, CoveredSourcesRefresh
    <3>4. QED
      BY <2>3, <2>4, <2>6, <3>3
  <2>7. ASSUME NEW x \in docs, ~RenderedNow(x)', OwesSettings(x)
        PROVE  x \in Files /\ Whole \in rep.demand
    BY <2>5, <2>7, LoopAssumption DEF OwesSettings
  <2>8. \A x \in docs : ~RenderedNow(x)' =>
          /\ \A f \in Reads(x) : OwesFact(x, f) => OwesFact(x, f)'
          /\ OwesSettings(x) => OwesSettings(x)'
    BY <2>1, <2>6, <2>7 DEF OwesFact, OwesSettings
  <2>9. QED
    BY <1>1, <1>4, <1>5, <2>8, OwedOrRendered
<1>10. QED
  BY <1>1, <1>6, <1>7, <1>8, <1>9
-----------------------------------------------------------------------------
(* The invariant, step by step. *)

\* The session starts with the refresh owed and nothing published.
LEMMA InitIInv == ASSUME Init PROVE IInv
<1>1. /\ sif = DepositNow(EmptyLane, Top) /\ rep = EmptyLane /\ ledger = FreshLedger
      /\ docs = {} /\ open = {}
      /\ text = [x \in Docs |-> 0]
      /\ disk \in [Files -> {0, 1}]
      /\ inputs = [f \in Files |-> 0] /\ facts = [f \in Files |-> 0]
      /\ settings = 0 /\ indexRevision = 0 /\ indexPending = 0
      /\ indexJobs = <<>> /\ indexResults = <<>>
      /\ sifJob = NoJob /\ wave = NoWave /\ pending = NoPending
      /\ published = [x \in Docs |-> NoRender]
      /\ step = "index" /\ messages = 0
  BY DEF Init
<1>2. EmptyLane \in Lane /\ ~InFlight(EmptyLane)
  BY DEF EmptyLane, Lane, InFlight, Bottom, NoTide, NoTick, Tick, Demand
<1>3. sif \in Lane /\ HasDemand(sif) /\ ~InFlight(sif)
  <2>1. sif \in Lane /\ HasDemand(sif) /\ sif.inFlight = EmptyLane.inFlight
    BY <1>1, <1>2, DepositLane, TopIsDemand
  <2>2. QED
    BY <1>2, <2>1 DEF InFlight
<1>4. Range(indexJobs) = {} /\ Range(indexResults) = {}
  BY <1>1 DEF Range
<1>5. LaneTypes
  BY <1>1, <1>2, <1>3 DEF LaneTypes, FreshLedger, Ledger
<1>6. CorpusTypes
  BY <1>1 DEF CorpusTypes
<1>7. IndexTypes
  BY <1>1, EmptySeq DEF IndexTypes
<1>8. TideTypes /\ LoopTypes /\ PublishedTypes
  BY <1>1, LoopAssumption DEF TideTypes, LoopTypes, PublishedTypes
<1>9. SifPart
  BY <1>1, <1>3 DEF SifPart, JobHoldsSlot, SifSlotHeldByJob, StaleSifRearms,
                    JobReadInputs, SettledFactsAreFresh
<1>10. IndexPart
  BY <1>1, <1>4 DEF IndexPart, RevisionsArePast, LatestHoldsMissing, LatestIsSomewhere
<1>11. SlotPart /\ CarriesCurrent
  BY <1>1, <1>2 DEF SlotPart, WaveIsOrderly, PendingIsOrderly, SlotHeldByWave,
                    CarriesCurrent, NoWave, NoPending
<1>12. VersionsArePast
  <2>1. \A f \in Files : \A x \in Dependents[f] : x \in Docs
    BY LoopAssumption
  <2>2. ASSUME NEW f \in Files
        PROVE  /\ facts[f] <= inputs[f] /\ sifJob = NoJob
               /\ \A x \in Dependents[f] : published[x] = NoRender
    <3>1. facts[f] = 0 /\ inputs[f] = 0
      BY <1>1
    <3>2. QED
      BY <1>1, <2>1, <3>1
  <2>3. QED
    BY <2>2 DEF VersionsArePast
<1>13. ReadsAreOnDisk /\ GoneIsOffDisk /\ StaleIsOwed
  BY <1>1 DEF ReadsAreOnDisk, GoneIsOffDisk, StaleIsOwed, InWave, InPending, Docs
<1>14. QED
  BY <1>5, <1>6, <1>7, <1>8, <1>9, <1>10, <1>11, <1>12, <1>13
     DEF IInv, Types, ConvergencePart

\* A step that publishes nothing is a publishing step of none.
LEMMA NothingPublished ==
  ASSUME Types, UNCHANGED published
  PROVE  PublishedStep
BY DEF Types, PublishedTypes, PublishedStep

\* Steps that move no version.
LEMMA VersionsUntouched ==
  ASSUME Types, VersionsArePast, PublishedStep, UNCHANGED <<inputs, facts>>,
         sifJob' # NoJob => \A f \in Files : sifJob'.inputs[f] <= inputs[f]
  PROVE  VersionsArePast'
<1>1. inputs \in [Files -> Nat] /\ facts \in [Files -> Nat]
  BY DEF Types, CorpusTypes
<1>2. \A f \in Files : facts[f] <= inputs[f] /\ inputs[f] <= inputs[f]
  BY <1>1 DEF VersionsArePast
<1>3. QED
  BY <1>1, <1>2, VersionsKept

\* Steps that publish nothing and forget no document.
LEMMA GoneUntouched ==
  ASSUME Types, GoneIsOffDisk, UNCHANGED <<disk, published, pending>>, docs \subseteq docs',
         \A x \in Files \ docs : InWave(x)' => InWave(x),
         \A result \in Range(indexResults') :
           result \in Range(indexResults) \/ DOMAIN result.texts \subseteq OnDisk
  PROVE  GoneIsOffDisk'
<1>1. ASSUME NEW x \in Files \ docs'
      PROVE  /\ InWave(x)' \/ InPending(x)' => x \notin docs /\ (InWave(x) \/ InPending(x))
             /\ x \notin docs => (x \in OnDisk' => x \in OnDisk)
             /\ published'[x] # NoRender => x \notin docs /\ published'[x] = published[x]
  BY DEF InPending, OnDisk
<1>2. QED
  BY <1>1, GoneKept

\* Who is in the wave stays when the wave does.
LEMMA SameWave == ASSUME UNCHANGED wave PROVE \A x : InWave(x)' => InWave(x)
BY DEF InWave

\* An admitted document has nothing published: what was published of a document
\* that went is not on disk, and the index has not read it.
LEMMA ApplyIndexResultKeeps == ASSUME IInv, ApplyIndexResult PROVE IInv'
<1>1. /\ Types /\ SifPart /\ IndexPart /\ SlotPart /\ CarriesCurrent
      /\ VersionsArePast /\ GoneIsOffDisk /\ StaleIsOwed
  BY DEF IInv, ConvergencePart
<1>2. /\ step = "index" /\ step' = "index"
      /\ UNCHANGED <<open, disk, settings, facts, sifJob, wave, pending, published, messages>>
      /\ docs \subseteq docs'
      /\ docs' = docs \cup (DOMAIN Head(indexResults).texts \ open)
      /\ CorpusTypes' /\ LaneEffect
      /\ \A f \in Files : inputs'[f] = inputs[f] \/ inputs'[f] = inputs[f] + 1
      /\ \A f \in docs' \ docs : inputs'[f] = 0 \/ inputs'[f] = inputs[f] + 1
  BY <1>1, AdmissionEffect DEF tides
<1>3. IndexTypes' /\ IndexPart' /\ Range(indexResults') \subseteq Range(indexResults)
  BY <1>1, ApplyIndexKeeps
<1>4. LaneTypes' /\ SifPart' /\ SlotPart' /\ CarriesCurrent'
  BY <1>1, <1>2, LaneEffectTypes, LaneEffectKeepsSif, LaneEffectKeepsSlot
<1>5. PublishedStep
  BY <1>1, <1>2, NothingPublished
<1>6. Types'
  BY <1>1, <1>2, <1>3, <1>4 DEF Types, TideTypes, LoopTypes, PublishedTypes
<1>7. VersionsArePast'
  <2>1. /\ inputs \in [Files -> Nat] /\ inputs' \in [Files -> Nat] /\ facts' \in [Files -> Nat]
        /\ facts \in [Files -> Nat]
        /\ sifJob # NoJob => sifJob.inputs \in [Files -> Nat]
    BY <1>1, <1>2, <1>6, Present DEF Types, CorpusTypes, TideTypes, Job
  <2>2. \A f \in Files :
          /\ inputs'[f] >= inputs[f] /\ facts'[f] <= inputs'[f]
          /\ sifJob' # NoJob => sifJob'.inputs[f] <= inputs'[f]
    BY <1>1, <1>2, <2>1 DEF VersionsArePast
  <2>3. QED
    BY <1>1, <1>5, <2>1, <2>2, VersionsKept
<1>8. ReadsAreOnDisk'
  BY <1>2 DEF ReadsAreOnDisk
<1>9. GoneIsOffDisk'
  BY <1>1, <1>2, <1>3, SameWave, GoneUntouched
<1>10. StaleIsOwed'
  <2>1. Head(indexResults) \in Range(indexResults) /\ Head(indexResults) \in WorkerResult
    <3>1. indexResults # <<>> /\ indexResults \in Seq(WorkerResult)
      BY <1>1 DEF ApplyIndexResult, Types, IndexTypes
    <3>2. QED
      BY <3>1, QueueMoves
  <2>2. ASSUME NEW x \in docs' \ docs
        PROVE  RenderedNow(x)'
    <3>1. x \in Files /\ ~Unread(x)
      BY <1>2, <2>1, <2>2 DEF Unread, WorkerResult
    <3>2. published[x] = NoRender
      BY <1>1, <2>2, <3>1 DEF GoneIsOffDisk
    <3>3. QED
      BY <1>2, <3>2 DEF RenderedNow
  <2>3. EntryEffect
    BY <1>2 DEF EntryEffect
  <2>4. inputs' \in [Files -> Nat] /\ docs' \in SUBSET Docs
    BY <1>6 DEF Types, CorpusTypes
  <2>5. QED
    BY <1>1, <1>2, <2>2, <2>3, <2>4, LaneEffectKeepsOwed
<1>11. QED
  BY <1>3, <1>4, <1>6, <1>7, <1>8, <1>9, <1>10 DEF IInv, ConvergencePart

\* A client message.
LEMMA MessageKeeps == ASSUME IInv, Message PROVE IInv'
<1>1. /\ Types /\ SifPart /\ IndexPart /\ SlotPart /\ CarriesCurrent
      /\ VersionsArePast /\ GoneIsOffDisk /\ StaleIsOwed
  BY DEF IInv, ConvergencePart
<1>2. MessageEffect
  BY <1>1, MessageEffects
<1>3. /\ step = "input" /\ step' = "redispatch"
      /\ UNCHANGED <<facts, sifJob, wave, pending>>
      /\ LoopTypes' /\ CorpusTypes'
      /\ \A f \in Files : inputs'[f] = inputs[f] \/ inputs'[f] = inputs[f] + 1
      /\ \A x \in Files \cap (docs \ docs') : x \notin OnDisk'
      /\ LaneEffect /\ IndexEffect /\ PublishedEffect /\ EntryEffect
  BY <1>2 DEF MessageEffect, tides
<1>4. IndexTypes' /\ IndexPart' /\ Range(indexResults') \subseteq Range(indexResults)
  BY <1>1, <1>2, MessageKeepsIndex
<1>5. LaneTypes' /\ SifPart' /\ SlotPart' /\ CarriesCurrent'
  BY <1>1, <1>3, LaneEffectTypes, LaneEffectKeepsSif, LaneEffectKeepsSlot
<1>6. PublishedStep
  BY <1>1, <1>2, MessagePublishes
<1>7. /\ inputs \in [Files -> Nat] /\ inputs' \in [Files -> Nat] /\ facts' \in [Files -> Nat]
      /\ facts \in [Files -> Nat] /\ docs' \in SUBSET Docs
      /\ sifJob # NoJob => sifJob.inputs \in [Files -> Nat]
  BY <1>1, <1>3, Present DEF Types, CorpusTypes, TideTypes, Job
<1>8. Types'
  <2>1. PublishedTypes'
    BY <1>1, <1>6, <1>7, PublishedStaysTyped DEF Types
  <2>2. QED
    BY <1>1, <1>3, <1>4, <1>5, <2>1 DEF Types, TideTypes
<1>9. VersionsArePast'
  <2>1. \A f \in Files :
          /\ inputs'[f] >= inputs[f] /\ facts'[f] <= inputs'[f]
          /\ sifJob' # NoJob => sifJob'.inputs[f] <= inputs'[f]
    BY <1>1, <1>3, <1>7 DEF VersionsArePast
  <2>2. QED
    BY <1>1, <1>6, <1>7, <2>1, VersionsKept
<1>10. ReadsAreOnDisk'
  BY <1>3 DEF ReadsAreOnDisk
<1>11. GoneIsOffDisk'
  <2>1. ASSUME NEW x \in Files \ docs'
        PROVE  /\ InWave(x)' \/ InPending(x)' => x \notin OnDisk'
               /\ published'[x] # NoRender => x \notin OnDisk' /\ Unread(x)'
    <3>1. \/ published'[x] = NoRender
          \/ x \notin docs /\ published'[x] = published[x]
      BY <1>3 DEF PublishedEffect, Docs
    <3>2. CASE x \in docs
      BY <1>3, <3>1, <3>2
    <3>3. CASE x \notin docs
      <4>1. x \in OnDisk' => x \in OnDisk
        BY <1>3 DEF IndexEffect
      <4>2. /\ InWave(x) \/ InPending(x) => x \notin OnDisk
            /\ published[x] # NoRender => x \notin OnDisk /\ Unread(x)
        BY <1>1, <3>3 DEF GoneIsOffDisk
      <4>3. (InWave(x)' => InWave(x)) /\ (InPending(x)' => InPending(x))
        BY <1>3 DEF InWave, InPending
      <4>4. Unread(x) => Unread(x)'
        BY <1>4 DEF Unread
      <4>5. QED
        BY <3>1, <4>1, <4>2, <4>3, <4>4
    <3>4. QED
      BY <3>2, <3>3
  <2>2. QED
    BY <2>1 DEF GoneIsOffDisk
<1>12. StaleIsOwed'
  BY <1>1, <1>3, <1>7, LaneEffectKeepsOwed DEF PublishedEffect
<1>13. QED
  BY <1>4, <1>5, <1>8, <1>9, <1>10, <1>11, <1>12 DEF IInv, ConvergencePart

\* The parts as the steps use them.
LEMMA Parts ==
  ASSUME IInv
  PROVE  /\ Types /\ SifPart /\ IndexPart /\ SlotPart /\ CarriesCurrent
         /\ VersionsArePast /\ ReadsAreOnDisk /\ GoneIsOffDisk /\ StaleIsOwed
         /\ sifJob # NoJob => \A f \in Files : sifJob.inputs[f] <= inputs[f]
BY DEF IInv, ConvergencePart, VersionsArePast

\* The index worker, a dropped result and the end of the index phase.
LEMMA IndexStepKeeps ==
  ASSUME IInv, IndexWorker \/ DropIndexResult \/ IndexDrained
  PROVE  IInv'
<1>1. /\ Types /\ SifPart /\ IndexPart /\ SlotPart /\ CarriesCurrent
      /\ VersionsArePast /\ ReadsAreOnDisk /\ GoneIsOffDisk /\ StaleIsOwed
      /\ sifJob # NoJob => \A f \in Files : sifJob.inputs[f] <= inputs[f]
  BY Parts
<1>2. /\ UNCHANGED <<sif, rep, ledger, corpus, sifJob, wave, pending, published, messages>>
      /\ UNCHANGED <<docs, open, text, disk, inputs, settings, facts>>
      /\ step' \in {step, "sif"}
      /\ step' # "tide" \/ step' = step
  BY DEF IndexWorker, DropIndexResult, IndexDrained, lanes, corpus, tides
<1>3. /\ IndexTypes' /\ IndexPart'
      /\ \A result \in Range(indexResults') :
           result \in Range(indexResults) \/ DOMAIN result.texts \subseteq OnDisk
      /\ ReadsAreOnDisk'
  <2>1. CASE IndexWorker
    <3>1. PICK result \in WorkerResult :
            /\ Range(indexResults') = Range(indexResults) \cup {result}
            /\ DOMAIN result.texts \subseteq OnDisk
      BY <1>1, <2>1, IndexWorkerKeeps
    <3>2. IndexTypes' /\ IndexPart'
      BY <1>1, <2>1, IndexWorkerKeeps
    <3>3. step' = step /\ OnDisk' = OnDisk
      BY <1>2, <2>1 DEF IndexWorker, OnDisk
    <3>4. ReadsAreOnDisk'
      BY <1>1, <3>1, <3>3 DEF ReadsAreOnDisk
    <3>5. QED
      BY <3>1, <3>2, <3>4
  <2>2. CASE DropIndexResult
    <3>1. step' = "index"
      BY <2>2 DEF DropIndexResult
    <3>2. QED
      BY <1>1, <2>2, <3>1, DropIndexKeeps DEF ReadsAreOnDisk
  <2>3. CASE IndexDrained
    <3>1. UNCHANGED index /\ indexResults' = <<>> /\ Missing' = Missing
      BY <1>2, <2>3 DEF IndexDrained, index, Missing, OnDisk
    <3>2. Range(indexResults') = {}
      BY <3>1 DEF Range
    <3>3. QED
      BY <1>1, <3>1, <3>2, IndexUntouched DEF ReadsAreOnDisk, Types
  <2>4. QED
    BY <2>1, <2>2, <2>3
<1>4. Types'
  BY <1>1, <1>2, <1>3 DEF Types, LaneTypes, CorpusTypes, TideTypes, LoopTypes, PublishedTypes
<1>5. SifPart' /\ SlotPart' /\ CarriesCurrent'
  BY <1>1, <1>2, SifUntouched, SlotUntouched
<1>6. VersionsArePast' /\ GoneIsOffDisk'
  BY <1>1, <1>2, <1>3, NothingPublished, VersionsUntouched, SameWave, GoneUntouched
<1>7. StaleIsOwed'
  BY <1>1, <1>2, SameHolders, DebtsUntouched, OwedKept
<1>8. QED
  BY <1>3, <1>4, <1>5, <1>6, <1>7 DEF IInv, ConvergencePart

\* The steps that leave the index alone, and the corpus but for its facts.
LEMMA IndexKept ==
  ASSUME IInv, UNCHANGED <<docs, disk, index>>, step' \in LateSteps => step \in LateSteps
  PROVE  IndexTypes' /\ IndexPart' /\ ReadsAreOnDisk'
<1>1. Missing' = Missing /\ indexResults' = indexResults
  BY DEF Missing, OnDisk, index
<1>2. IndexTypes' /\ IndexPart'
  BY <1>1, IndexUntouched DEF IInv, Types
<1>3. ReadsAreOnDisk'
  BY <1>1, ReadsKept DEF IInv, ConvergencePart
<1>4. QED
  BY <1>2, <1>3

\* The SIF worker, a discarded result, the end of the SIF phase and a dispatch.
LEMMA SifStepKeeps ==
  ASSUME IInv, SifWorker \/ DiscardSifResult \/ SifDrained \/ DispatchSif
  PROVE  IInv'
<1>1. /\ Types /\ SifPart /\ SlotPart /\ CarriesCurrent
      /\ VersionsArePast /\ GoneIsOffDisk /\ StaleIsOwed
      /\ sifJob # NoJob => \A f \in Files : sifJob.inputs[f] <= inputs[f]
  BY Parts
<1>2. /\ UNCHANGED <<rep, ledger, corpus, index, wave, pending, published, messages>>
      /\ UNCHANGED <<docs, open, text, disk, inputs, settings, facts, indexResults>>
      /\ step' # "tide" \/ step' = step
      /\ step' \in LateSteps => step \in LateSteps
      /\ LoopTypes'
  BY <1>1 DEF SifWorker, DiscardSifResult, SifDrained, DispatchSif, lanes, corpus, index,
              tides, LateSteps, Types, LoopTypes
<1>3. /\ sif' \in Lane /\ sifJob' \in Job \cup {NoJob} /\ SifPart'
      /\ sifJob' # NoJob => \A f \in Files : sifJob'.inputs[f] <= inputs[f]
  <2>1. CASE SifWorker
    <3>1. sif' = sif
      BY <2>1 DEF SifWorker, lanes
    <3>2. QED
      BY <1>1, <2>1, <3>1, SifWorkerKeeps DEF Types, LaneTypes
  <2>2. CASE DiscardSifResult
    <3>1. sifJob' = NoJob
      BY <2>2 DEF DiscardSifResult
    <3>2. QED
      BY <1>1, <2>2, <3>1, DiscardSifKeeps
  <2>3. CASE SifDrained
    <3>1. UNCHANGED <<sif, ledger, inputs, facts, sifJob>>
      BY <2>3 DEF SifDrained, lanes, corpus, tides
    <3>2. QED
      BY <1>1, <3>1, SifUntouched DEF Types, LaneTypes, TideTypes
  <2>4. CASE DispatchSif
    <3>1. sif' \in Lane /\ sifJob' \in Job \cup {NoJob} /\ SifPart'
          /\ (sifJob' = sifJob \/ sifJob'.inputs = inputs)
      BY <1>1, <2>4, DispatchSifKeeps
    <3>2. \A f \in Files : inputs[f] \in Nat
      BY <1>1 DEF Types, CorpusTypes
    <3>3. QED
      BY <1>1, <3>1, <3>2
  <2>5. QED
    BY <2>1, <2>2, <2>3, <2>4
<1>4. IndexTypes' /\ IndexPart' /\ ReadsAreOnDisk'
  BY <1>2, IndexKept
<1>5. Types'
  BY <1>1, <1>2, <1>3, <1>4 DEF Types, LaneTypes, CorpusTypes, TideTypes, PublishedTypes
<1>6. SlotPart' /\ CarriesCurrent'
  BY <1>1, <1>2, SlotUntouched
<1>7. VersionsArePast' /\ GoneIsOffDisk'
  BY <1>1, <1>2, <1>3, NothingPublished, VersionsUntouched, SameWave, GoneUntouched
<1>8. StaleIsOwed'
  BY <1>1, <1>2, SameHolders, DebtsUntouched, OwedKept
<1>9. QED
  BY <1>3, <1>4, <1>5, <1>6, <1>7, <1>8 DEF IInv, ConvergencePart

\* An applied SIF result.
LEMMA ApplySifResultKeeps == ASSUME IInv, ApplySifResult PROVE IInv'
<1>1. /\ Types /\ SifPart /\ SlotPart /\ CarriesCurrent
      /\ VersionsArePast /\ GoneIsOffDisk /\ StaleIsOwed
      /\ sifJob # NoJob => \A f \in Files : sifJob.inputs[f] <= inputs[f]
  BY Parts
<1>2. /\ sif' \in Lane /\ SifPart' /\ sifJob \in Job /\ sifJob' = NoJob
      /\ facts' = sifJob.inputs /\ facts' \in [Files -> Nat]
      /\ UNCHANGED <<ledger, docs, open, text, disk, inputs, settings, index, wave,
                     pending, published, step, messages>>
  BY <1>1, ApplySifKeeps
<1>3. IndexTypes' /\ IndexPart' /\ ReadsAreOnDisk'
  BY <1>2, IndexKept
<1>4. rep' \in Lane
  BY <1>1, ApplySifDemand, ReopenLane, DepositLane DEF Types, LaneTypes
<1>5. Types'
  BY <1>1, <1>2, <1>3, <1>4 DEF Types, LaneTypes, CorpusTypes, TideTypes, LoopTypes, PublishedTypes
<1>6. SlotPart' /\ CarriesCurrent'
  BY <1>1, ApplySifKeepsSlot
<1>7. VersionsArePast'
  <2>1. inputs' \in [Files -> Nat]
    BY <1>5 DEF Types, CorpusTypes
  <2>2. \A f \in Files : /\ inputs'[f] >= inputs[f] /\ facts'[f] <= inputs'[f]
                         /\ sifJob' # NoJob => sifJob'.inputs[f] <= inputs'[f]
    BY <1>1, <1>2, <2>1, Present
  <2>3. QED
    BY <1>1, <1>2, <2>1, <2>2, NothingPublished, VersionsKept
<1>8. GoneIsOffDisk'
  BY <1>1, <1>2, SameWave, GoneUntouched DEF index
<1>9. StaleIsOwed'
  BY <1>1, ApplySifKeepsOwed
<1>10. QED
  BY <1>2, <1>3, <1>5, <1>6, <1>7, <1>8, <1>9 DEF IInv, ConvergencePart

\* The wave's workers, a republish dispatch and a turn without a message.
LEMMA WaveStepKeeps ==
  ASSUME IInv, EmitItem \/ FinishWave \/ IdleTurn \/ \E idle \in BOOLEAN : DispatchTide(idle)
  PROVE  IInv'
<1>1. /\ Types /\ SifPart /\ SlotPart /\ CarriesCurrent
      /\ VersionsArePast /\ GoneIsOffDisk /\ StaleIsOwed
      /\ sifJob # NoJob => \A f \in Files : sifJob.inputs[f] <= inputs[f]
  BY Parts
<1>2. /\ UNCHANGED <<sif, ledger, corpus, index, sifJob, pending, published, messages>>
      /\ UNCHANGED <<docs, open, text, disk, inputs, settings, facts, indexResults>>
      /\ step' \in LateSteps => step \in LateSteps
      /\ LoopTypes'
  BY <1>1 DEF EmitItem, FinishWave, IdleTurn, DispatchTide, lanes, corpus, index, tides,
              LateSteps, Types, LoopTypes
<1>3. /\ rep' \in Lane /\ wave' \in Wave \cup {NoWave} /\ SlotPart' /\ CarriesCurrent'
      /\ \A x \in Files \ docs : InWave(x)' => InWave(x)
      /\ StaleIsOwed'
  <2>1. CASE EmitItem \/ FinishWave
    <3>1. /\ wave \in Wave /\ wave' \in Wave /\ SlotPart' /\ CarriesCurrent'
          /\ wave'.targets = wave.targets /\ wave # NoWave
      BY <1>1, <2>1, EmitItemKeeps, FinishWaveKeeps, Present
    <3>2. rep' = rep
      BY <2>1 DEF EmitItem, FinishWave, lanes
    <3>3. StaleIsOwed'
      BY <1>1, <2>1, WorkersKeepOwed
    <3>4. QED
      BY <1>1, <3>1, <3>2, <3>3 DEF InWave, Types, LaneTypes
  <2>2. CASE IdleTurn
    <3>1. UNCHANGED <<rep, wave>> /\ step' = "index"
      BY <2>2 DEF IdleTurn, lanes, tides
    <3>2. SlotPart' /\ CarriesCurrent'
      BY <1>1, <1>2, <3>1, SlotUntouched
    <3>3. StaleIsOwed'
      BY <1>1, <1>2, <3>1, SameHolders, DebtsUntouched, OwedKept
    <3>4. QED
      BY <1>1, <3>1, <3>2, <3>3 DEF InWave, Types, LaneTypes, TideTypes
  <2>3. ASSUME NEW idle \in BOOLEAN, DispatchTide(idle)
        PROVE  /\ rep' \in Lane /\ wave' \in Wave \cup {NoWave} /\ SlotPart' /\ CarriesCurrent'
               /\ \A x \in Files \ docs : InWave(x)' => InWave(x)
               /\ StaleIsOwed'
    <3>1. rep' \in Lane /\ wave' \in Wave \cup {NoWave} /\ SlotPart' /\ CarriesCurrent'
      BY <1>1, <2>3, DispatchTideKeeps
    <3>2. StaleIsOwed'
      BY <1>1, <2>3, DispatchTideKeepsOwed
    <3>3. wave' = wave \/ wave' = NoWave \/ \E demand : wave'.targets = Targets(demand)
      BY <1>1, <2>3, DispatchTideEffect
    <3>4. \A demand : Targets(demand) \subseteq docs
      BY DEF Targets
    <3>5. \A x \in Files \ docs : InWave(x)' => InWave(x)
      BY <3>3, <3>4 DEF InWave
    <3>6. QED
      BY <3>1, <3>2, <3>5
  <2>4. QED
    BY <2>1, <2>2, <2>3
<1>4. IndexTypes' /\ IndexPart' /\ ReadsAreOnDisk'
  BY <1>2, IndexKept
<1>5. Types'
  BY <1>1, <1>2, <1>3, <1>4 DEF Types, LaneTypes, CorpusTypes, TideTypes, PublishedTypes
<1>6. SifPart'
  BY <1>1, <1>2, SifUntouched
<1>7. VersionsArePast' /\ GoneIsOffDisk'
  BY <1>1, <1>2, <1>3, NothingPublished, VersionsUntouched, GoneUntouched
<1>8. QED
  BY <1>3, <1>4, <1>5, <1>6, <1>7 DEF IInv, ConvergencePart

\* A pump of the republish queue.
LEMMA PumpStepKeeps == ASSUME IInv, PumpTide PROVE IInv'
<1>1. /\ Types /\ SifPart /\ SlotPart /\ CarriesCurrent
      /\ VersionsArePast /\ ReadsAreOnDisk /\ GoneIsOffDisk /\ StaleIsOwed
      /\ sifJob # NoJob => \A f \in Files : sifJob.inputs[f] <= inputs[f]
  BY Parts
<1>2. /\ UNCHANGED <<sif, ledger, corpus, index, sifJob, messages>>
      /\ UNCHANGED <<docs, open, text, disk, inputs, settings, facts>>
      /\ step = "pump" /\ step' = "tide"
  BY DEF PumpTide, corpus
<1>3. /\ rep' \in Lane /\ wave' \in Wave \cup {NoWave}
      /\ pending' \in PendingApply \cup {NoPending}
      /\ SlotPart' /\ CarriesCurrent'
  BY <1>1, PumpTideKeeps
<1>4. PublishedStep
  BY <1>1, PumpTidePublishes
<1>5. IndexTypes' /\ IndexPart' /\ ReadsAreOnDisk'
  BY <1>2, IndexKept DEF LateSteps
<1>6. facts' \in [Files -> Nat]
  BY <1>1, <1>2 DEF Types, CorpusTypes
<1>7. PublishedTypes'
  BY <1>1, <1>4, <1>6, PublishedStaysTyped DEF Types
<1>8. Types'
  BY <1>1, <1>2, <1>3, <1>5, <1>7 DEF Types, LaneTypes, CorpusTypes, TideTypes, LoopTypes
<1>9. SifPart'
  BY <1>1, <1>2, SifUntouched
<1>10. VersionsArePast'
  BY <1>1, <1>2, <1>4, VersionsUntouched
<1>11. GoneIsOffDisk' /\ StaleIsOwed'
  BY <1>1, PumpTideKeepsGone, PumpTideKeepsOwed
<1>12. QED
  BY <1>3, <1>5, <1>8, <1>9, <1>10, <1>11 DEF IInv, ConvergencePart

\* A stuttering step.
LEMMA StutterKeeps == ASSUME IInv, UNCHANGED vars PROVE IInv'
<1>1. /\ UNCHANGED <<lanes, corpus, index, tides, published, step, messages>>
      /\ UNCHANGED <<sif, rep, ledger, docs, open, text, disk, inputs, settings, facts>>
      /\ UNCHANGED <<indexRevision, indexPending, indexJobs, indexResults, sifJob, wave, pending>>
  BY DEF vars, lanes, corpus, index, tides
<1>2. /\ Types /\ SifPart /\ SlotPart /\ CarriesCurrent
      /\ VersionsArePast /\ GoneIsOffDisk /\ StaleIsOwed
      /\ sifJob # NoJob => \A f \in Files : sifJob.inputs[f] <= inputs[f]
  BY Parts
<1>3. IndexTypes' /\ IndexPart' /\ ReadsAreOnDisk'
  BY <1>1, IndexKept
<1>4. Types'
  BY <1>1, <1>2, <1>3 DEF Types, LaneTypes, CorpusTypes, TideTypes, LoopTypes, PublishedTypes
<1>5. SifPart' /\ SlotPart' /\ CarriesCurrent'
  BY <1>1, <1>2, SifUntouched, SlotUntouched
<1>6. VersionsArePast' /\ GoneIsOffDisk'
  BY <1>1, <1>2, NothingPublished, VersionsUntouched, SameWave, GoneUntouched
<1>7. StaleIsOwed'
  BY <1>1, <1>2, SameHolders, DebtsUntouched, OwedKept
<1>8. QED
  BY <1>3, <1>4, <1>5, <1>6, <1>7 DEF IInv, ConvergencePart

\* Every step of the loop and of its workers keeps the invariant.
LEMMA NextIInv == ASSUME IInv, [Next]_vars PROVE IInv'
<1>1. CASE Turn
  <2>1. CASE ApplyIndexResult
    BY <2>1, ApplyIndexResultKeeps
  <2>2. CASE DropIndexResult \/ IndexDrained
    BY <2>2, IndexStepKeeps
  <2>3. CASE ApplySifResult
    BY <2>3, ApplySifResultKeeps
  <2>4. CASE DiscardSifResult \/ SifDrained \/ DispatchSif
    BY <2>4, SifStepKeeps
  <2>5. CASE PumpTide
    BY <2>5, PumpStepKeeps
  <2>6. CASE IdleTurn \/ \E idle \in BOOLEAN : DispatchTide(idle)
    BY <2>6, WaveStepKeeps
  <2>7. QED
    BY <1>1, <2>1, <2>2, <2>3, <2>4, <2>5, <2>6 DEF Turn
<1>2. CASE Message
  BY <1>2, MessageKeeps
<1>3. CASE IndexWorker
  BY <1>3, IndexStepKeeps
<1>4. CASE SifWorker
  BY <1>4, SifStepKeeps
<1>5. CASE EmitItem \/ FinishWave
  BY <1>5, WaveStepKeeps
<1>6. CASE UNCHANGED vars
  BY <1>6, StutterKeeps
<1>7. QED
  BY <1>1, <1>2, <1>3, <1>4, <1>5, <1>6 DEF Next
-----------------------------------------------------------------------------
(* The results. *)

\* The inductive invariant holds in every behaviour of the loop.
THEOREM LoopInvariant == Spec => []IInv
<1>1. Init => IInv
  BY InitIInv
<1>2. IInv /\ [Next]_vars => IInv'
  BY NextIInv
<1>3. QED
  BY <1>1, <1>2, PTL DEF Spec

\* Types of the loop's state, for any workspace: the lanes and the ledger
\* stay in their lattices, an open document is admitted, a publication names
\* the facts its document reads.
THEOREM LoopTypeOK == Spec => []TypeOK
<1>1. ASSUME IInv PROVE TypeOK
  <2>1. Types
    BY <1>1, Parts
  <2>2. indexJobs \in Seq([revision : Nat, files : SUBSET Files])
    BY <2>1 DEF Types, IndexTypes, WorkerJob
  <2>3. \A i \in DOMAIN indexResults :
          indexResults[i].left \cup DOMAIN indexResults[i].texts \subseteq Files
    <3>1. ASSUME NEW i \in DOMAIN indexResults PROVE indexResults[i] \in WorkerResult
      BY <2>1 DEF Types, IndexTypes
    <3>2. QED
      BY <3>1 DEF WorkerResult
  <2>4. \A x \in Docs : published[x] # NoRender => DOMAIN published[x].facts = Reads(x)
    BY <2>1 DEF Types, PublishedTypes
  <2>5. QED
    BY <2>1, <2>2, <2>3, <2>4
       DEF TypeOK, Types, LaneTypes, CorpusTypes, IndexTypes, LoopTypes
<1>2. QED
  BY <1>1, LoopInvariant, PTL

\* No discarded SIF result is lost: whatever staled the job in flight owes a
\* new one (external_sif_loader.rs discards by stamp and re-arms nothing).
THEOREM LoopStaleSifRearms == Spec => []StaleSifRearms
<1>1. IInv => StaleSifRearms
  BY DEF IInv, SifPart
<1>2. QED
  BY <1>1, LoopInvariant, PTL

\* An idle SIF lane means what the republish frontier takes it to mean: the
\* applied facts are those of the current inputs.
THEOREM LoopSettledFactsAreFresh == Spec => []SettledFactsAreFresh
<1>1. IInv => SettledFactsAreFresh
  BY DEF IInv, SifPart
<1>2. QED
  BY <1>1, LoopInvariant, PTL

\* A lane's slot is occupied exactly while a job, a wave or its queue is at
\* work for it, through every reopen and late report.
THEOREM LoopSlotsAreHeld == Spec => []SlotsAreHeld
<1>1. IInv => SlotsAreHeld
  BY DEF IInv, SifPart, JobHoldsSlot, SlotPart, SlotsAreHeld
<1>2. QED
  BY <1>1, LoopInvariant, PTL

\* A quiet index has admitted every file on disk and left no frontier closed,
\* whatever jobs and results were superseded (workspace_index.rs).
THEOREM LoopIndexIsComplete == Spec => []IndexIsComplete
<1>1. ASSUME IInv PROVE IndexIsComplete
  <2>1. SUFFICES ASSUME IndexQuiet, indexRevision > 0
                 PROVE  indexPending = 0 /\ OnDisk \subseteq docs
    BY DEF IndexIsComplete
  <2>2. Range(indexJobs) = {} /\ Range(indexResults) = {}
    BY <2>1 DEF IndexQuiet, Range
  <2>3. indexPending = 0 /\ Missing = {}
    BY <1>1, <2>1, <2>2 DEF IInv, IndexPart, LatestIsSomewhere
  <2>4. QED
    BY <2>3 DEF Missing
<1>2. QED
  BY <1>1, LoopInvariant, PTL

\* With nothing owed and nothing running, no published document shows a stale
\* fact or a stale setting.
THEOREM LoopConvergedWhenQuiet == Spec => []ConvergedWhenQuiet
<1>1. ASSUME IInv PROVE ConvergedWhenQuiet
  <2>1. SUFFICES ASSUME Quiet, NEW x \in docs, published[x] # NoRender
                 PROVE  /\ \A f \in Reads(x) \cap docs : published[x].facts[f] = inputs[f]
                        /\ published[x].settings = settings
    BY DEF ConvergedWhenQuiet
  <2>2. rep.demand = {} /\ ~InFlight(rep) /\ facts = inputs
    BY <1>1, <2>1 DEF Quiet, HasDemand, Bottom, IInv, SifPart, SettledFactsAreFresh
  <2>3. \A f : ~OwesFact(x, f) /\ ~OwesSettings(x)
    BY <2>2 DEF OwesFact, OwesSettings, Covers
  <2>4. FactsOwed(x) /\ SettingsOwed(x)
    BY <1>1, <2>1 DEF IInv, ConvergencePart, StaleIsOwed
  <2>5. QED
    BY <2>2, <2>3, <2>4 DEF FactsOwed, SettingsOwed, Reads
<1>2. QED
  BY <1>1, LoopInvariant, PTL

\* Whichever arm schedules a publication, a tide that was overtaken included,
\* it carries the facts and the settings in force when it is scheduled.
THEOREM LoopPublishesSettledState == Spec => PublishesSettledState
<1> DEFINE Settled ==
      \A x \in Docs :
        published'[x] # published[x] /\ published'[x] # NoRender
          => /\ published'[x].facts = [f \in Reads(x) |-> facts'[f]]
             /\ published'[x].settings = settings'
<1>1. ASSUME Types, PublishedStep PROVE Settled
  BY <1>1 DEF PublishedStep, RenderedNow, IsUpToDate, Reads
<1>2. ASSUME IInv, Next PROVE Settled \/ UNCHANGED vars
  <2>1. Types /\ SlotPart /\ CarriesCurrent
    BY <1>2, Parts
  <2>2. CASE Message
    BY <1>1, <2>1, <2>2, MessageEffects, MessagePublishes
  <2>3. CASE PumpTide
    BY <1>1, <2>1, <2>3, PumpTidePublishes
  <2>4. CASE ~Message /\ ~PumpTide
    <3>1. published' = published
      BY <1>2, <2>4 DEF Next, Turn, IndexWorker, SifWorker, EmitItem, FinishWave,
           ApplyIndexResult, DropIndexResult, IndexDrained, ApplySifResult,
           DiscardSifResult, SifDrained, DispatchSif, DispatchTide, IdleTurn
    <3>2. QED
      BY <3>1
  <2>5. QED
    BY <2>2, <2>3, <2>4
<1>3. IInv /\ [Next]_vars => [Settled]_vars
  BY <1>2
<1>4. QED
  BY <1>3, LoopInvariant, PTL DEF Spec, PublishesSettledState
=============================================================================
