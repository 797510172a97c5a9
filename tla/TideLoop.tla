------------------------------ MODULE TideLoop ------------------------------
(***************************************************************************)
(* The server loop around the two demand lanes: the background workspace   *)
(* index, the external-SIF refresh and the workspace republish, each       *)
(* computed by its own worker thread from a snapshot and applied on the    *)
(* loop, while client messages keep changing what the snapshots were taken *)
(* from (bin/omena-lsp-server.rs with external_sif_loader.rs,              *)
(* workspace_index.rs, diagnostics_follow_up.rs and tide_republish.rs).    *)
(*                                                                         *)
(* Data is abstracted to versions.  inputs[f] is the version of what the   *)
(* external-SIF resolution reads of stylesheet f, facts[f] the version in  *)
(* the SIF set the loop has applied; a rendering is what a publication of  *)
(* a document was computed from, and published[x] the one the publication  *)
(* of x scheduled last carries.  How that publication reaches the client,  *)
(* and why it wins over all earlier ones, is the business of PublishOrder. *)
(***************************************************************************)
EXTENDS TideLane, EpochLedger, Sequences, FiniteSets

CONSTANTS
  Sources,       \* source documents
  Dependents,    \* stylesheet -> documents its facts reach, itself included
  Chunk,         \* TIDE_REPUBLISH_APPLY_CHUNK
  MaxMessages    \* client messages explored

Docs == Files \cup Sources

ASSUME LoopAssumption ==
  /\ Files \cap Sources = {}
  /\ Dependents \in [Files -> SUBSET Docs]
  /\ \A f \in Files : f \in Dependents[f]
  /\ \A f, g \in Files : g \in Dependents[f] => Dependents[g] \subseteq Dependents[f]
  /\ Chunk \in Nat \ {0}
  /\ IsFiniteSet(Files)
  /\ MaxMessages \in Nat

VARIABLES
  sif, rep,        \* tide_sif_lane, tide_republish_lane
  ledger,          \* tide_ledger
  docs,            \* admitted documents
  open,            \* open_document_uris
  text,            \* version of each admitted document's text
  disk,            \* version of each stylesheet on disk, 0 when there is none
  inputs,          \* version of each stylesheet's external-SIF inputs
  settings,        \* version of the diagnostics settings
  facts,           \* version of each stylesheet's facts in external_sifs
  indexRevision,   \* workspace_index_revision
  indexPending,    \* workspace_index_pending_file_count
  indexJobs,       \* jobs sent to the index worker
  indexResults,    \* results it sent back
  sifJob,          \* the SIF job in flight
  wave,            \* the republish job in flight and its result channel
  pending,         \* PendingTideRepublishApplyV0
  published,       \* rendering of the last publication scheduled, per document
  step,            \* where the loop turn is
  messages         \* client messages handled

lanes  == <<sif, rep, ledger>>
corpus == <<docs, open, text, disk, inputs, settings, facts>>
index  == <<indexRevision, indexPending, indexJobs, indexResults>>
tides  == <<sifJob, wave, pending>>
vars   == <<lanes, corpus, index, tides, published, step, messages>>

\* No publication yet, or a clear
NoRender  == [text |-> 0]
NoJob     == [generation |-> 0]
NoWave    == [generation |-> 0]
NoPending == [generation |-> 0]

\* Neither lane consults the clock here: the SIF lane's aging bound is
\* u64::MAX, and an aged republish demand is one more way to be idle.
TryFlushAt(lane, frontier, idle)  == TryFlush(lane, frontier, idle, 0, 1)
GateOpenAt(lane, frontier, idle)  == GateOpen(lane, frontier, idle, 0, 1)
DepositNow(lane, d)               == Deposit(lane, d, 0)

SifFootprint == {"documentSet", "lockfileFingerprint", "packageManifest",
                 "resolutionSettings"}

Reads(x) == {f \in Files : x \in Dependents[f]}

Render(x) == [text     |-> text[x],
              facts    |-> [f \in Reads(x) |-> facts[f]],
              settings |-> settings]

\* Stylesheet f may appear or go without a change of bridge sources only if
\* it has none, which version 0 stands for.
Unbridged(f) == inputs[f] = 0

Reach(S) == UNION {Dependents[f] : f \in S}

\* Per-document arm: a deferred dispatch snapshots the state now and takes
\* the document's next revision, superseding whatever was scheduled.  The
\* list of a document that is gone is empty.
Scheduled(x) == IF x \in docs THEN Render(x) ELSE NoRender

Schedule(S) ==
  published' = [x \in Docs |-> IF x \in S THEN Scheduled(x)' ELSE published[x]]

\* didClose clears the client's diagnostics of x.
ClearAnd(x, S) ==
  published' = [y \in Docs |-> CASE y = x -> NoRender
                                 [] y # x /\ y \in S -> Scheduled(y)'
                                 [] OTHER -> published[y]]

Init ==
  /\ sif = DepositNow(EmptyLane, Top)
  /\ rep = EmptyLane
  /\ ledger = FreshLedger
  /\ docs = {} /\ open = {}
  /\ text = [x \in Docs |-> 0]
  /\ disk \in [Files -> {0, 1}]
  /\ inputs = [f \in Files |-> 0]
  /\ facts = [f \in Files |-> 0]
  /\ settings = 0
  /\ indexRevision = 0 /\ indexPending = 0
  /\ indexJobs = <<>> /\ indexResults = <<>>
  /\ sifJob = NoJob /\ wave = NoWave /\ pending = NoPending
  /\ published = [x \in Docs |-> NoRender]
  /\ step = "index"
  /\ messages = 0
-----------------------------------------------------------------------------
(* Workspace index *)

\* A fresh job has the files that are not admitted for candidates; a
\* continuation what the last result left.
IndexJob(files) ==
  /\ indexRevision' = indexRevision + 1
  /\ indexJobs' = Append(indexJobs, [revision |-> indexRevision', files |-> files])

OnDisk == {f \in Files : disk[f] # 0}

\* The worker reads the candidates there are until its budget is spent; it
\* always gets past one.
IndexWorker ==
  /\ indexJobs # <<>>
  /\ LET job  == Head(indexJobs)
         live == job.files \cap OnDisk
     IN
     \E taken \in SUBSET live :
       /\ live # {} => taken # {}
       /\ indexResults' = Append(indexResults,
                                 [revision |-> job.revision,
                                  texts    |-> [f \in taken |-> disk[f]],
                                  left     |-> live \ taken])
  /\ indexJobs' = Tail(indexJobs)
  /\ UNCHANGED <<lanes, corpus, indexRevision, indexPending, tides, published,
                 step, messages>>

DropIndexResult ==
  /\ step = "index"
  /\ indexResults # <<>>
  /\ Head(indexResults).revision # indexRevision
  /\ indexResults' = Tail(indexResults)
  /\ UNCHANGED <<lanes, corpus, indexRevision, indexPending, indexJobs, tides,
                 published, step, messages>>

StaleCorpus_NoDeposit(led) ==
  /\ ledger' = Advance(led, {"documentSet"})
  /\ rep' = Reopen(rep)
  /\ UNCHANGED sif

\* A semantic input of the SIF job changed: stale the job in flight, disown
\* the republish built on the old corpus, owe a refresh.
StaleCorpus(led) ==
  /\ ledger' = Advance(led, {"documentSet"})
  /\ rep' = Reopen(rep)
  /\ sif' = DepositNow(sif, Top)

Continue_Stopped(left) == UNCHANGED <<indexRevision, indexJobs>>

Continue(left) ==
  IF left = {} THEN UNCHANGED <<indexRevision, indexJobs>> ELSE IndexJob(left \ docs')

\* bridging: the stylesheets whose bridge sources the admission changes,
\* which the ledger advances for once more.  A document that got here by
\* another way since the worker read the file is replaced by what it read.
ApplyIndexResult ==
  /\ step = "index"
  /\ indexResults # <<>>
  /\ Head(indexResults).revision = indexRevision
  /\ LET result   == Head(indexResults)
         admitted == DOMAIN result.texts \ open
         news     == {f \in admitted : f \in docs => result.texts[f] # text[f]}
     IN
     /\ docs' = docs \cup admitted
     /\ text' = [x \in Docs |-> IF x \in admitted THEN result.texts[x] ELSE text[x]]
     /\ \E bridging \in SUBSET news :
          /\ \A f \in news \ (docs \cup bridging) : Unbridged(f)
          /\ inputs' = [f \in Files |-> inputs[f] + (IF f \in bridging THEN 1 ELSE 0)]
          /\ IF admitted = {} THEN UNCHANGED lanes
             ELSE StaleCorpus(IF bridging = {} THEN ledger
                              ELSE Advance(ledger, {"documentSet"}))
     /\ indexPending' = Cardinality(result.left)
     /\ Continue(result.left)
  /\ indexResults' = Tail(indexResults)
  /\ UNCHANGED <<open, disk, settings, facts, tides, published, step, messages>>

IndexDrained ==
  /\ step = "index"
  /\ indexResults = <<>>
  /\ step' = "sif"
  /\ UNCHANGED <<lanes, corpus, index, tides, published, messages>>
-----------------------------------------------------------------------------
(* External-SIF refresh *)

SifWorker ==
  /\ sifJob # NoJob
  /\ ~sifJob.done
  /\ sifJob' = [sifJob EXCEPT !.done = TRUE]
  /\ UNCHANGED <<lanes, corpus, index, wave, pending, published, step, messages>>

SifDone == sifJob # NoJob /\ sifJob.done

DiscardSifResult ==
  /\ step = "sif"
  /\ SifDone
  /\ ~IsCurrent(ledger, SifFootprint, sifJob.stamp)
  /\ sif' = Completed(sif, sifJob.generation)
  /\ sifJob' = NoJob
  /\ UNCHANGED <<rep, ledger, corpus, index, wave, pending, published, step, messages>>

\* The republish owed is the cone of the changed facts, or everything when
\* the reverse-dependency memo cannot attribute them.
ApplySifResult ==
  /\ step = "sif"
  /\ SifDone
  /\ IsCurrent(ledger, SifFootprint, sifJob.stamp)
  /\ LET changed == {f \in Files : sifJob.inputs[f] # facts[f]} IN
     IF changed = {} THEN UNCHANGED rep
     ELSE \E demand \in {changed, Top} : rep' = DepositNow(Reopen(rep), demand)
  /\ facts' = sifJob.inputs
  /\ sif' = Completed(sif, sifJob.generation)
  /\ sifJob' = NoJob
  /\ UNCHANGED <<ledger, docs, open, text, disk, inputs, settings, index, wave,
                 pending, published, step, messages>>

SifDrained ==
  /\ step = "sif"
  /\ ~SifDone
  /\ step' = "dispatch"
  /\ UNCHANGED <<lanes, corpus, index, tides, published, messages>>

\* Once per turn, and once more after a message that changed something.
DispatchSif ==
  /\ step \in {"dispatch", "redispatch"}
  /\ LET frontier == indexPending = 0 IN
     IF sifJob = NoJob
     THEN /\ sif' = TryFlushAt(sif, frontier, TRUE)
          /\ sifJob' = IF GateOpenAt(sif, frontier, TRUE)
                       THEN [generation |-> sif'.generation,
                             stamp      |-> ledger,
                             inputs     |-> inputs,
                             done       |-> FALSE]
                       ELSE NoJob
     ELSE UNCHANGED <<sif, sifJob>>
  /\ step' = IF step = "dispatch" THEN "pump" ELSE "index"
  /\ UNCHANGED <<rep, ledger, corpus, index, wave, pending, published, messages>>
-----------------------------------------------------------------------------
(* Workspace republish *)

RepublishFrontier == ~HasDemand(sif) /\ ~InFlight(sif) /\ indexPending = 0

\* Local stylesheets owed by a demand: a cone is closed over the reverse
\* dependencies at flush time.
Targets(demand) ==
  docs \cap Files \cap (IF demand = Top THEN Files ELSE Reach(demand))

DispatchTide(idle) ==
  /\ step = "tide"
  /\ IF wave # NoWave \/ ~GateOpenAt(rep, RepublishFrontier, idle)
     THEN UNCHANGED <<rep, wave>>
     ELSE \E demand \in {rep.demand, Top} :       \* no memo: widened to All
            LET flushed == TryFlushAt(rep, RepublishFrontier, idle)
                targets == Targets(demand)
            IN IF targets = {}
               THEN /\ rep' = Completed(flushed, flushed.generation)
                    /\ UNCHANGED wave
               ELSE /\ rep' = flushed
                    /\ wave' = [generation |-> flushed.generation,
                                targets    |-> targets,
                                todo       |-> targets,
                                renders    |-> [x \in targets |-> Render(x)],
                                out        |-> {},
                                uncovered  |-> {},
                                final      |-> FALSE]
  /\ step' = "input"
  /\ UNCHANGED <<sif, ledger, corpus, index, sifJob, pending, published, messages>>

\* A pool task finishes: its item is streamed to the loop.
EmitItem ==
  /\ wave # NoWave
  /\ \E x \in wave.todo :
       wave' = [wave EXCEPT !.todo = @ \ {x},
                            !.out  = @ \cup {[doc |-> x, render |-> wave.renders[x]]}]
  /\ UNCHANGED <<lanes, corpus, index, sifJob, pending, published, step, messages>>

\* The final chunk names what the wave left out: nothing, what an abort or
\* an ineligible target left, or everything when the wave panicked.
FinishWave ==
  /\ wave # NoWave
  /\ ~wave.final
  /\ \E left \in {wave.todo, wave.targets} :
       wave' = [wave EXCEPT !.todo = {}, !.uncovered = left, !.final = TRUE]
  /\ UNCHANGED <<lanes, corpus, index, sifJob, pending, published, step, messages>>

\* What the loop holds once it has drained the result channel: chunks of a
\* disowned wave are thrown away.
Drained ==
  IF wave = NoWave \/ rep.generation # wave.generation
     \/ (wave.out = {} /\ ~wave.final)
  THEN pending
  ELSE LET active == IF pending # NoPending THEN pending
                     ELSE [generation |-> wave.generation, items |-> {},
                           uncovered |-> {}, finalSeen |-> FALSE]
       IN [active EXCEPT !.items     = @ \cup wave.out,
                         !.uncovered = @ \cup wave.uncovered,
                         !.finalSeen = @ \/ wave.final]

DrainWave ==
  wave' = IF wave = NoWave \/ wave.final THEN NoWave
          ELSE [wave EXCEPT !.out = {}]

RefreshedSources_None == {}

\* Open sources a completed tide renders again.
RefreshedSources ==
  open \cap Sources \cap
    (IF rep.inFlight.demand = Top THEN Sources ELSE Reach(rep.inFlight.demand))

TideComplete_QueueOnly(active, rest) == rest = {}

TideComplete(active, rest) == active.finalSeen /\ rest = {}

\* Up to Chunk items are published; the tide completes when the final chunk
\* has come and the queue is empty.  Its leftovers and the open sources go
\* through the per-document arm.
PumpItems(active) ==
  \E batch \in SUBSET active.items :
    LET rest      == active.items \ batch
        complete  == TideComplete(active, rest)
        refreshed == IF complete
                     THEN RefreshedSources \cup active.uncovered
                          \cup (open \cap Reach(active.uncovered))
                     ELSE {}
        item(x)   == CHOOSE i \in batch : i.doc = x
    IN
    /\ Cardinality(batch) =
         IF Chunk < Cardinality(active.items) THEN Chunk
         ELSE Cardinality(active.items)
    /\ pending' = IF complete THEN NoPending ELSE [active EXCEPT !.items = rest]
    /\ rep' = IF complete THEN Completed(rep, active.generation) ELSE rep
    /\ published' = [x \in Docs |->
                       CASE x \in refreshed              -> Scheduled(x)
                         [] x \notin refreshed /\ \E i \in batch : i.doc = x
                                                         -> item(x).render
                         [] OTHER                        -> published[x]]

PumpTide ==
  /\ step = "pump"
  /\ DrainWave
  /\ LET active == Drained IN
     IF active = NoPending THEN UNCHANGED <<rep, pending, published>>
     ELSE IF active.generation # rep.generation
     THEN /\ pending' = NoPending
          /\ rep' = Completed(rep, active.generation)
          /\ UNCHANGED published
     ELSE PumpItems(active)
  /\ step' = "tide"
  /\ UNCHANGED <<sif, ledger, corpus, index, sifJob, messages>>
-----------------------------------------------------------------------------
(* Client messages, one per turn *)

Receive ==
  /\ step = "input"
  /\ messages < MaxMessages
  /\ messages' = messages + 1
  /\ step' = "redispatch"

IdleTurn ==
  /\ step = "input"
  /\ step' = "index"
  /\ UNCHANGED <<lanes, corpus, index, tides, published, messages>>

Admit_OpenOnly(x) == UNCHANGED docs /\ open' = open \cup {x}

Admit(x) == docs' = docs \cup {x} /\ open' = open \cup {x}

\* Versions are numbered by the message that made them.
NewVersion == messages' + 1

\* didOpen or didChange that leaves the bridge sources alone; a changed
\* module interface fans out to the open documents that depend on it.
EditText(x) ==
  /\ Receive
  /\ x \in Files \ docs => Unbridged(x)
  /\ text' = [text EXCEPT ![x] = NewVersion]
  /\ Admit(x)
  /\ UNCHANGED <<disk, inputs, settings, facts>>
  /\ \E reached \in {{x}} \cup (IF x \in Files THEN {{x} \cup (open \cap Dependents[x])}
                                ELSE {}) : Schedule(reached)
  /\ UNCHANGED <<lanes, index, tides>>

\* didOpen or didChange of a stylesheet whose bridge sources change.
EditBridge(f) ==
  /\ Receive
  /\ text' = [text EXCEPT ![f] = NewVersion]
  /\ inputs' = [inputs EXCEPT ![f] = @ + 1]
  /\ Admit(f)
  /\ UNCHANGED <<disk, settings, facts>>
  /\ StaleCorpus(ledger)
  /\ Schedule({f} \cup (open \cap Dependents[f]))
  /\ UNCHANGED <<index, tides>>

\* didClose of a stylesheet: it goes back to its text on disk, or out of the
\* corpus when there is none; its bridge sources may change with that.
CloseStyle(f) ==
  /\ f \in open
  /\ Receive
  /\ open' = open \ {f}
  /\ docs' = IF f \in OnDisk THEN docs ELSE docs \ {f}
  /\ text' = [text EXCEPT ![f] = disk[f]]
  /\ UNCHANGED <<disk, settings, facts>>
  /\ \/ (f \in OnDisk \/ Unbridged(f)) /\ UNCHANGED <<inputs, lanes>>
     \/ inputs' = [inputs EXCEPT ![f] = @ + 1] /\ StaleCorpus(ledger)
  /\ \E reached \in {{}, open' \cap Dependents[f]} : ClearAnd(f, reached)
  /\ UNCHANGED <<index, tides>>

\* didClose of a source document: it is forgotten.
CloseSource(x) ==
  /\ x \in open
  /\ Receive
  /\ open' = open \ {x}
  /\ docs' = docs \ {x}
  /\ UNCHANGED <<text, disk, inputs, settings, facts, lanes, index, tides>>
  /\ ClearAnd(x, {})

\* A watched stylesheet was created or changed on disk; the event follows at
\* once.  Of an open one only the diagnostics are scheduled again.  Otherwise
\* the SIF refresh is owed whether or not the bridge sources moved, and the
\* ledger is not advanced.
ChangeOnDisk(f) ==
  /\ Receive
  /\ disk' = [disk EXCEPT ![f] = NewVersion]
  /\ IF f \in open
     THEN UNCHANGED <<docs, text, inputs, sif>>
     ELSE /\ docs' = docs \cup {f}
          /\ text' = [text EXCEPT ![f] = NewVersion]
          /\ inputs' \in {inputs, [inputs EXCEPT ![f] = @ + 1]}
          /\ sif' = DepositNow(sif, Top)
  /\ UNCHANGED <<open, settings, facts>>
  /\ Schedule({f} \cup (open \cap Dependents[f]))
  /\ UNCHANGED <<rep, ledger, index, tides>>

\* A watched stylesheet was deleted.  Unless it is open the document goes;
\* neither a refresh nor a republish is owed.
DeleteOnDisk(f) ==
  /\ f \in OnDisk
  /\ Receive
  /\ disk' = [disk EXCEPT ![f] = 0]
  /\ UNCHANGED <<open, text, inputs, settings, facts>>
  /\ docs' = IF f \in open THEN docs ELSE docs \ {f}
  /\ Schedule({f} \cup (open \cap Dependents[f]))
  /\ UNCHANGED <<lanes, index, tides>>

\* didChangeConfiguration, diagnostics section
ChangeDiagnosticSettings ==
  /\ Receive
  /\ settings' = settings + 1
  /\ UNCHANGED <<docs, open, text, disk, inputs, facts>>
  /\ ledger' = Advance(ledger, {"diagnosticSettings"})
  /\ rep' = DepositNow(Reopen(rep), Top)
  /\ Schedule(open)
  /\ UNCHANGED <<sif, index, tides>>

\* didChangeConfiguration, resolution section: any stylesheet may resolve
\* its imports differently.
ChangeResolutionSettings(moved) ==
  /\ Receive
  /\ inputs' = [f \in Files |-> inputs[f] + (IF f \in moved THEN 1 ELSE 0)]
  /\ UNCHANGED <<docs, open, text, disk, settings, facts>>
  /\ ledger' = Advance(ledger, {"resolutionSettings"})
  /\ rep' = Reopen(rep)
  /\ sif' = DepositNow(sif, Top)
  /\ Schedule(open)
  /\ UNCHANGED <<index, tides>>

\* A watched package manifest, lockfile or bundler config changed: the SIF
\* refresh is owed, the ledger is not advanced.
ChangeConfigDocument(moved) ==
  /\ Receive
  /\ inputs' = [f \in Files |-> inputs[f] + (IF f \in moved THEN 1 ELSE 0)]
  /\ UNCHANGED <<docs, open, text, disk, settings, facts>>
  /\ sif' = DepositNow(sif, Top)
  /\ Schedule((docs \cap Files) \cup open)
  /\ UNCHANGED <<rep, ledger, index, tides>>

\* initialized, or a workspace folder was added
StartIndex ==
  /\ Receive
  /\ IndexJob(Files \ docs)
  /\ sif' = IF indexRevision = 0 THEN sif ELSE DepositNow(sif, Top)
  /\ UNCHANGED corpus
  /\ Schedule(IF indexRevision = 0 THEN open ELSE {})
  /\ UNCHANGED <<rep, ledger, indexPending, indexResults, tides>>
-----------------------------------------------------------------------------
\* One step of a turn of run_stdio_server
Turn ==
  \/ ApplyIndexResult \/ DropIndexResult \/ IndexDrained
  \/ ApplySifResult \/ DiscardSifResult \/ SifDrained
  \/ DispatchSif
  \/ PumpTide
  \/ \E idle \in BOOLEAN : DispatchTide(idle)
  \/ IdleTurn

Threads ==
  IndexWorker \/ SifWorker \/ FinishWave

Message ==
  \/ \E x \in Docs : EditText(x)
  \/ \E f \in Files : EditBridge(f) \/ CloseStyle(f)
                    \/ ChangeOnDisk(f) \/ DeleteOnDisk(f)
  \/ \E x \in Sources : CloseSource(x)
  \/ ChangeDiagnosticSettings
  \/ \E moved \in SUBSET (docs \cap Files) : ChangeResolutionSettings(moved)
  \/ \E moved \in SUBSET (docs \cap Files) : ChangeConfigDocument(moved)
  \/ StartIndex

Next ==
  \/ Turn
  \/ Message
  \/ IndexWorker
  \/ SifWorker
  \/ EmitItem
  \/ FinishWave

Spec == Init /\ [][Next]_vars

\* The loop turns and its workers finish; clients owe nothing.  Idleness
\* recurs: a client pauses, or the demand ages past TIDE_REPUBLISH_LANE_CONFIG
\* and no longer needs it to.
Fairness ==
  /\ WF_vars(Turn)
  /\ SF_vars(DispatchTide(TRUE))
  /\ WF_vars(Threads)

FairSpec == Spec /\ Fairness
-----------------------------------------------------------------------------
TypeOK ==
  /\ sif \in Lane /\ rep \in Lane
  /\ ledger \in Ledger
  /\ docs \in SUBSET Docs /\ open \in SUBSET docs
  /\ text \in [Docs -> Nat] /\ disk \in [Files -> Nat]
  /\ inputs \in [Files -> Nat] /\ facts \in [Files -> Nat]
  /\ settings \in Nat /\ indexRevision \in Nat /\ indexPending \in Nat
  /\ indexJobs \in Seq([revision : Nat, files : SUBSET Files])
  /\ \A i \in DOMAIN indexResults :
       indexResults[i].left \cup DOMAIN indexResults[i].texts \subseteq Files
  /\ \A x \in Docs :
       published[x] # NoRender => DOMAIN published[x].facts = Reads(x)
  /\ step \in {"index", "sif", "dispatch", "pump", "tide", "input", "redispatch"}
  /\ messages \in 0..MaxMessages

\* "The staling mutation also deposited a fresh demand (every advance site
\* deposits)": whenever the SIF job in flight will be discarded, a new one
\* is already owed, so no discarded result is lost
\* (apply_deferred_external_sif_refresh_result).
StaleSifRearms ==
  sifJob # NoJob /\ ~IsCurrent(ledger, SifFootprint, sifJob.stamp)
    => HasDemand(sif)

\* The republish frontier reads two flags of the SIF lane for "the corpus is
\* settled".  They mean it: with neither demand nor a job in flight, the
\* applied facts are those of the current inputs, whatever was discarded,
\* superseded or admitted on the way (workspace_republish_frontier_passed).
SettledFactsAreFresh ==
  ~HasDemand(sif) /\ ~InFlight(sif) => facts = inputs

\* The lane's in-flight slot and the wave streaming for it exist together:
\* a slot without a wave would close the gate for the session, a wave
\* without its slot would go on publishing through every reopen
\* (drain_and_pump_tide_republish, complete_tide_workspace_republish).
SlotHeldByWave ==
  InFlight(rep) <=>
    \E owner \in {wave, pending} :
      owner.generation > 0 /\ owner.generation = rep.generation

\* The same for the SIF lane and its job.
SifSlotHeldByJob == InFlight(sif) <=> sifJob # NoJob

\* Either lane's slot is occupied exactly while somebody is at work for it
\* (tide_completed, whoever calls it).
SlotsAreHeld == SlotHeldByWave /\ SifSlotHeldByJob

\* Whatever arm schedules a publication, it carries the facts and settings in
\* force at that moment: a wave that was overtaken by either never reaches
\* the client, item by item or in its leftovers.
PublishesSettledState ==
  [][\A x \in Docs :
       published'[x] # published[x] /\ published'[x] # NoRender
         => /\ published'[x].facts = [f \in Reads(x) |-> facts'[f]]
            /\ published'[x].settings = settings']_vars

IndexQuiet == indexJobs = <<>> /\ indexResults = <<>>

\* Superseding an index job or dropping its result loses no file and leaves
\* no frontier closed: when the index worker has nothing left, every file on
\* disk is admitted and the pending count is back to zero.
IndexIsComplete ==
  IndexQuiet /\ indexRevision > 0 => indexPending = 0 /\ OnDisk \subseteq docs

Quiet ==
  /\ IndexQuiet
  /\ ~HasDemand(sif) /\ ~InFlight(sif)
  /\ ~HasDemand(rep) /\ ~InFlight(rep)

\* When nothing is owed and nothing runs, no document the client has
\* diagnostics for shows stale ones: every published document, open or
\* closed, stylesheet or source, was last rendered from the current facts
\* and settings.
ConvergedWhenQuiet ==
  Quiet => \A x \in docs :
             published[x] # NoRender =>
               /\ \A f \in Reads(x) \cap docs : published[x].facts[f] = inputs[f]
               /\ published[x].settings = settings

\* "A stale worker cannot overwrite a newer edit" (ARCHITECTURE.md): the
\* diagnostics of a document the client edits are never replaced by those of
\* an earlier text of it.
NewerEditStays ==
  [][\A x \in open : \/ published'[x] = NoRender
                     \/ published'[x].text >= published[x].text]_vars

\* The marks of the SIF footprint cover the job's inputs, package manifests
\* and lockfiles included (TideInputKindV0::LockfileFingerprint): a result the
\* loop accepts was computed from the inputs in force.
AcceptedSifReadCurrentInputs == [][facts' # facts => facts' = inputs]_vars

\* Once the client stops, the server comes to rest.
Settles == <>[]Quiet
=============================================================================
