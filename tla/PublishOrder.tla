---------------------------- MODULE PublishOrder ----------------------------
(***************************************************************************)
(* Publication of the diagnostics of one document: the loop that schedules *)
(* outputs under increasing revisions, one sleeping thread per delayed     *)
(* output, the diagnostics worker, the stdout lock they share and the      *)
(* registry of delivered digests that elides what the client already has   *)
(* (bin/omena-lsp-server.rs, lsp_output.rs and the publication arms of     *)
(* diagnostics_scheduler.rs).  A payload stands for its digest.            *)
(***************************************************************************)
EXTENDS Naturals, Sequences

CONSTANTS Payloads, Empty,
          MaxPublications   \* publications explored

ASSUME PayloadAssumption == Empty \in Payloads /\ MaxPublications \in Nat

VARIABLES
  revision,    \* ScheduledOutputCoalescer, this document's key
  script,      \* outputs and dispatches the loop has yet to schedule
  holding,     \* the immediate output the loop has scheduled, not yet written
  work,        \* deferred diagnostics channel
  writers,     \* delayed threads, and what the diagnostics worker holds
  byTier,      \* delivered.by_tier
  current,     \* delivered.current_by_uri
  client,      \* what the client shows
  latest,      \* publication whose first output was scheduled last
  lost,        \* its final payload panicked
  published

vars == <<revision, script, holding, work, writers, byTier, current, client,
          latest, lost, published>>

Publication == [baseline : Payloads, final : Payloads]
NothingYet  == [baseline |-> Empty, final |-> Empty]

NoDigest == [none |-> TRUE]

ASSUME DigestAssumption == NoDigest \notin Payloads

Nothing  == [arm |-> "none"]

\* tier_receipt and clear_document_receipt ride on the immediate outputs; a
\* delayed output or a dispatch is always optimizing and terminal.
Output(arm, payload, terminal, first, p) ==
  [arm |-> arm, payload |-> payload, terminal |-> terminal, first |-> first, pub |-> p]

\* Who may write after the loop, and how far it has got.
Writer(by, rev, payload, stage) ==
  [by |-> by, rev |-> rev, payload |-> payload, stage |-> stage]

IsCurrent(rev) == rev = revision

LockFree == \A w \in writers : w.stage # "writing"

Init ==
  /\ revision = 0
  /\ script = <<>> /\ holding = Nothing /\ work = <<>> /\ writers = {}
  /\ byTier = [t \in {"baseline", "optimizing"} |-> NoDigest]
  /\ current = NoDigest
  /\ client = Empty
  /\ latest = NothingYet /\ lost = FALSE
  /\ published = 0
-----------------------------------------------------------------------------
(* The digest registry; both operators run under the stdout lock. *)

\* Variants named Operator_Flaw break one rule of the operator they precede;
\* the properties are tested against them.
ShouldDeliver_PerTier(tier, payload, terminal) == byTier[tier] # payload

ShouldDeliver(tier, payload, terminal) ==
  \/ byTier[tier] # payload
  \/ terminal /\ current # payload

Deliver_TierOnly(tier, payload, terminal) ==
  IF ShouldDeliver(tier, payload, terminal)
  THEN /\ client' = payload
       /\ byTier' = [byTier EXCEPT ![tier] = payload]
       /\ UNCHANGED current
  ELSE UNCHANGED <<client, byTier, current>>

Deliver(tier, payload, terminal) ==
  IF ShouldDeliver(tier, payload, terminal)
  THEN /\ client' = payload
       /\ byTier' = [byTier EXCEPT ![tier] = payload]
       /\ current' = payload
  ELSE UNCHANGED <<client, byTier, current>>

DeliverClear ==
  /\ client' = Empty
  /\ byTier' = [t \in {"baseline", "optimizing"} |-> NoDigest]
  /\ current' = NoDigest
-----------------------------------------------------------------------------
(* Publication arms: what a handler hands to the loop for this document. *)

Tiered_BaselineOnly(p) ==
  IF p.baseline = Empty THEN <<Output("delayed", p.final, TRUE, TRUE, p)>>
  ELSE <<Output("immediate", p.baseline, p.baseline = p.final, TRUE, p)>>

Tiered(p) ==
  LET b == p.baseline   f == p.final IN
  CASE b = f                  -> <<Output("immediate", b, TRUE, TRUE, p)>>
    [] b # f /\ b = Empty     -> <<Output("delayed", f, TRUE, TRUE, p)>>
    [] b # f /\ b # Empty     -> <<Output("immediate", b, FALSE, TRUE, p),
                                   Output("delayed", f, TRUE, FALSE, p)>>

DeferredStyle(p) ==
  <<Output("immediate", p.baseline, FALSE, TRUE, p),
    Output("dispatch", p.final, TRUE, FALSE, p)>>

DeferredSource(p) ==
  IF p.baseline = Empty THEN <<Output("dispatch", p.final, TRUE, TRUE, p)>>
  ELSE DeferredStyle(p)

Clear == <<Output("clear", Empty, TRUE, TRUE, NothingYet)>>

LoopIdle == script = <<>> /\ holding = Nothing

Handle ==
  /\ LoopIdle
  /\ published < MaxPublications
  /\ published' = published + 1
  /\ \/ \E p \in Publication : script' \in {Tiered(p), DeferredStyle(p), DeferredSource(p)}
     \/ script' = Clear
  /\ UNCHANGED <<revision, holding, work, writers, byTier, current, client,
                 latest, lost>>

NewRevision_Reused == revision
NewRevision == revision + 1

\* The revision is taken before the stdout lock: a writer that passed its
\* check may still be writing an older one.
ScheduleOutput ==
  /\ script # <<>> /\ holding = Nothing
  /\ LET output == Head(script)   rev == NewRevision IN
     /\ revision' = rev
     /\ latest' = output.pub
     /\ lost' = (lost /\ ~output.first)
     /\ holding' = IF output.arm \in {"immediate", "clear"} THEN output ELSE Nothing
     /\ writers' = IF output.arm = "delayed"
                   THEN writers \cup {Writer("thread", rev, output.payload, "asleep")}
                   ELSE writers
     /\ work' = IF output.arm = "dispatch"
                THEN Append(work, [rev |-> rev, payload |-> output.payload])
                ELSE work
  /\ script' = Tail(script)
  /\ UNCHANGED <<byTier, current, client, published>>

WriteImmediate ==
  /\ holding # Nothing
  /\ LockFree
  /\ IF holding.arm = "clear" THEN DeliverClear
     ELSE Deliver("baseline", holding.payload, holding.terminal)
  /\ holding' = Nothing
  /\ UNCHANGED <<revision, script, work, writers, latest, lost, published>>
-----------------------------------------------------------------------------
(* The worker and the delayed threads. *)

WorkerIdle == \A w \in writers : w.by # "worker"

Unchanged == UNCHANGED <<revision, script, holding, latest, published>>

TakeWork ==
  /\ work # <<>> /\ WorkerIdle
  /\ work' = Tail(work)
  /\ writers' = IF IsCurrent(Head(work).rev)
                THEN writers \cup {Writer("worker", Head(work).rev,
                                          Head(work).payload, "computing")}
                ELSE writers
  /\ Unchanged /\ UNCHANGED <<byTier, current, client, lost>>

Panic(w) ==
  /\ w.stage = "computing"
  /\ writers' = writers \ {w}
  /\ lost' = (lost \/ IsCurrent(w.rev))
  /\ Unchanged /\ UNCHANGED <<work, byTier, current, client>>

\* Past each stage the writer gives up unless its revision is the latest.
Proceed(w, stage) ==
  /\ writers' = (writers \ {w}) \cup
                (IF IsCurrent(w.rev) THEN {[w EXCEPT !.stage = stage]} ELSE {})
  /\ Unchanged /\ UNCHANGED <<work, byTier, current, client, lost>>

Resolve(w) == w.stage = "computing" /\ Proceed(w, "asleep")

Wake(w) == w.stage = "asleep" /\ Proceed(w, "waiting")

Acquire_Unchecked(w) ==
  /\ w.stage = "waiting"
  /\ LockFree
  /\ writers' = (writers \ {w}) \cup {[w EXCEPT !.stage = "writing"]}
  /\ Unchanged /\ UNCHANGED <<work, byTier, current, client, lost>>

\* The stdout lock, and the check that counts.
Acquire(w) == w.stage = "waiting" /\ LockFree /\ Proceed(w, "writing")

Write(w) ==
  /\ w.stage = "writing"
  /\ Deliver("optimizing", w.payload, TRUE)
  /\ writers' = writers \ {w}
  /\ Unchanged /\ UNCHANGED <<work, lost>>

WriterStep(w) == Panic(w) \/ Resolve(w) \/ Wake(w) \/ Acquire(w) \/ Write(w)

Next ==
  \/ Handle \/ ScheduleOutput \/ WriteImmediate \/ TakeWork
  \/ \E w \in writers : WriterStep(w)

Spec == Init /\ [][Next]_vars

\* Threads run, and the lock is contended by finitely many of them.
Fairness ==
  /\ WF_vars(ScheduleOutput) /\ WF_vars(WriteImmediate) /\ WF_vars(TakeWork)
  /\ WF_vars(\E w \in writers : Resolve(w))
  /\ WF_vars(\E w \in writers : Wake(w))
  /\ WF_vars(\E w \in writers : Acquire(w))
  /\ WF_vars(\E w \in writers : Write(w))

FairSpec == Spec /\ Fairness
-----------------------------------------------------------------------------
Digest == Payloads \cup {NoDigest}

TypeOK ==
  /\ revision \in Nat
  /\ \A o \in {script[i] : i \in DOMAIN script} \cup ({holding} \ {Nothing}) :
       /\ o.arm \in {"immediate", "delayed", "dispatch", "clear"}
       /\ o.payload \in Payloads /\ o.pub \in Publication
       /\ o.terminal \in BOOLEAN /\ o.first \in BOOLEAN
  /\ work \in Seq([rev : 1..revision, payload : Payloads])
  /\ writers \subseteq [by : {"thread", "worker"}, rev : 1..revision,
                        payload : Payloads,
                        stage : {"computing", "asleep", "waiting", "writing"}]
  /\ byTier \in [{"baseline", "optimizing"} -> Digest]
  /\ current \in Digest
  /\ client \in Payloads
  /\ latest \in Publication /\ lost \in BOOLEAN
  /\ published \in 0..MaxPublications

\* The registry is what elision trusts: whatever digest it holds for the
\* document is the one of the payload on the client's screen, and with none
\* on record the client shows nothing (record_delivered under the lock).
RegistryTracksClient ==
  client = IF current = NoDigest THEN Empty ELSE current

Owed ==
  \/ script # <<>> /\ ~Head(script).first
  \/ holding # Nothing /\ holding.terminal
  \/ \E w \in writers : IsCurrent(w.rev) /\ w.stage # "writing"
  \/ \E i \in DOMAIN work : IsCurrent(work[i].rev)

Due == IF Owed THEN "final" ELSE IF lost THEN "lost" ELSE "none"

\* A writer's payload counts as seen once its check under the lock has passed:
\* an output scheduled after that is written after it.
Seen == IF LockFree THEN client
        ELSE (CHOOSE w \in writers : w.stage = "writing").payload

\* The publication pipeline implements latest-wins publication: a payload may
\* be elided, superseded before the delay, after it or under the lock, and
\* once nothing is owed the client nevertheless shows the final payload of the
\* latest publication, unless computing it panicked.
Latest == INSTANCE LatestWins WITH latest <- latest, due <- Due, seen <- Seen

PublishesLatestOnly == Latest!Spec

\* Every publication is shown in the end, or superseded, or lost to a panic.
LatestIsShown == <>[](lost \/ client = latest.final)
=============================================================================
