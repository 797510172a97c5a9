------------------------- MODULE PublishOrder_proofs -------------------------
(***************************************************************************)
(* The publication pipeline for any payloads and any number of             *)
(* publications: the digest registry says what the client shows, and every *)
(* step is one of LatestWins or changes nothing there.                     *)
(***************************************************************************)
EXTENDS PublishOrder, SequenceTheorems, TLAPS

Outputs ==
  [arm : {"immediate", "delayed", "dispatch", "clear"}, payload : Payloads,
   terminal : BOOLEAN, first : BOOLEAN, pub : Publication]

Work(revs) == [rev : revs, payload : Payloads]

WriterRecords(revs) ==
  [by : {"thread", "worker"}, rev : revs, payload : Payloads,
   stage : {"computing", "asleep", "waiting", "writing"}]

Types ==
  /\ revision \in Nat
  /\ script \in Seq(Outputs)
  /\ holding \in Outputs \cup {Nothing}
  /\ work \in Seq(Work(1..revision))
  /\ writers \subseteq WriterRecords(1..revision)
  /\ byTier \in [{"baseline", "optimizing"} -> Digest]
  /\ current \in Digest /\ client \in Payloads
  /\ latest \in Publication /\ lost \in BOOLEAN
  /\ published \in 0..MaxPublications

(* What an output carries of its publication, and whether it ends it.      *)
Carries(o) ==
  CASE o.arm = "clear"     -> o.first /\ o.terminal /\ o.pub = NothingYet /\ o.payload = Empty
    [] o.arm = "immediate" -> /\ o.first /\ o.payload = o.pub.baseline
                              /\ o.terminal => o.payload = o.pub.final
    [] OTHER               -> o.terminal /\ o.payload = o.pub.final

Alone(o)        == Carries(o) /\ o.first /\ o.terminal
Opens(o)        == Carries(o) /\ o.first /\ ~o.terminal /\ o.arm = "immediate"
Follows(o, pub) == Carries(o) /\ ~o.first /\ o.arm \in {"delayed", "dispatch"} /\ o.pub = pub

(* What the loop has left of a publication: all of it, nothing, or the     *)
(* output that follows its baseline.                                       *)
ScriptIsOrderly ==
  \/ script = <<>>
  \/ Len(script) = 1 /\ (Alone(script[1]) \/ Follows(script[1], latest))
  \/ Len(script) = 2 /\ Opens(script[1]) /\ Follows(script[2], script[1].pub)

Midway == script # <<>> /\ ~Head(script).first

HoldingIsLatest ==
  holding # Nothing =>
    /\ Carries(holding) /\ holding.arm \in {"immediate", "clear"}
    /\ holding.pub = latest
    /\ IF holding.terminal THEN script = <<>> ELSE Midway

CurrentWork    == {i \in DOMAIN work : IsCurrent(work[i].rev)}
CurrentWriters == {w \in writers : IsCurrent(w.rev)}

(* One party at most answers for the latest revision, and nobody does while *)
(* the loop is midway or after the payload was lost.                       *)
OneAnswers ==
  /\ \A i, j \in CurrentWork : i = j
  /\ \A w, v \in CurrentWriters : w = v
  /\ CurrentWork = {} \/ CurrentWriters = {}
  /\ Midway \/ holding # Nothing => ~lost
  /\ Midway \/ holding # Nothing \/ lost => CurrentWork = {} /\ CurrentWriters = {}

AnswersWithLatest ==
  /\ \A i \in CurrentWork : work[i].payload = latest.final
  /\ \A w \in CurrentWriters : w.payload = latest.final

OneWrites == \A w, v \in writers : w.stage = "writing" /\ v.stage = "writing" => w = v

IInv ==
  /\ Types /\ ScriptIsOrderly /\ HoldingIsLatest /\ OneAnswers
  /\ AnswersWithLatest /\ OneWrites /\ RegistryTracksClient
-----------------------------------------------------------------------------
LEMMA InitIInv == ASSUME Init PROVE IInv
<1> USE DEF Init
<1>1. Types
  <2>1. /\ revision \in Nat /\ script \in Seq(Outputs) /\ holding \in Outputs \cup {Nothing}
        /\ work \in Seq(Work(1..revision)) /\ writers \subseteq WriterRecords(1..revision)
    OBVIOUS
  <2>2. /\ byTier \in [{"baseline", "optimizing"} -> Digest]
        /\ current \in Digest
    BY DEF Digest
  <2>3. client \in Payloads /\ published \in 0..MaxPublications
    BY PayloadAssumption
  <2>6. lost \in BOOLEAN
    BY Zenon
  <2>5. latest \in Publication
    BY PayloadAssumption DEF NothingYet, Publication
  <2>4. QED
    BY <2>1, <2>2, <2>3, <2>5, <2>6 DEF Types
<1>2. ScriptIsOrderly /\ HoldingIsLatest /\ ~Midway
  BY DEF ScriptIsOrderly, HoldingIsLatest, Midway
<1>3. OneAnswers /\ AnswersWithLatest /\ OneWrites
  BY <1>2 DEF OneAnswers, AnswersWithLatest, OneWrites, CurrentWork, CurrentWriters
<1>4. QED
  BY <1>1, <1>2, <1>3 DEF IInv, RegistryTracksClient

(* The two ends of a script. *)
LEMMA ShortScript ==
  ASSUME NEW s \in Seq(Outputs)
  PROVE  /\ Len(s) = 1 => s # <<>> /\ Head(s) = s[1] /\ Tail(s) = <<>>
         /\ Len(s) = 2 => /\ s # <<>> /\ Head(s) = s[1] /\ Tail(s) # <<>>
                          /\ Len(Tail(s)) = 1 /\ Tail(s)[1] = s[2] /\ Head(Tail(s)) = s[2]
         /\ s # <<>> => Head(s) \in Outputs /\ Tail(s) \in Seq(Outputs)
<1>1. \A r \in Seq(Outputs) :
        /\ Len(r) \in Nat /\ (Len(r) = 0 <=> r = <<>>)
        /\ r # <<>> => Head(r) = r[1]
  BY EmptySeq, LenProperties
<1>2. s # <<>> => /\ Head(s) \in Outputs /\ Tail(s) \in Seq(Outputs)
                  /\ Len(Tail(s)) = Len(s) - 1
                  /\ \A i \in 1..Len(Tail(s)) : Tail(s)[i] = s[i + 1]
  BY HeadTailProperties
<1>3. CASE Len(s) = 1
  <2>1. s # <<>> /\ Len(Tail(s)) = 0
    BY <1>1, <1>2, <1>3
  <2>2. Tail(s) = <<>>
    BY <1>1, <1>2, <2>1
  <2>3. QED
    BY <1>1, <1>2, <1>3, <2>1, <2>2
<1>4. CASE Len(s) = 2
  <2>1. s # <<>> /\ Len(Tail(s)) = 1 /\ 1 \in 1..Len(Tail(s)) /\ 1 + 1 = 2
    BY <1>1, <1>2, <1>4
  <2>2. Tail(s)[1] = s[2]
    BY <1>2, <2>1
  <2>3. Tail(s) # <<>> /\ Head(Tail(s)) = Tail(s)[1] /\ Head(s) = s[1]
    BY <1>1, <1>2, <2>1
  <2>4. QED
    BY <1>2, <1>4, <2>1, <2>2, <2>3
<1>5. QED
  BY <1>2, <1>3, <1>4

LEMMA ChosenWriter ==
  ASSUME NEW W, NEW w \in W, w.stage = "writing",
         \A v \in W : v.stage = "writing" => v = w
  PROVE  (CHOOSE v \in W : v.stage = "writing").payload = w.payload
<1> DEFINE c == CHOOSE v \in W : v.stage = "writing"
<1>1. c \in W /\ c.stage = "writing"
  BY Zenon
<1>2. QED
  BY <1>1

(* Delivering under the lock keeps the registry true to the client, and a  *)
(* terminal payload is on the client's screen whether it was written or    *)
(* elided.                                                                 *)
LEMMA DeliveryIsRecorded ==
  ASSUME Types, RegistryTracksClient, NEW tier \in {"baseline", "optimizing"},
         NEW payload \in Payloads, NEW terminal \in BOOLEAN,
         Deliver(tier, payload, terminal)
  PROVE  /\ RegistryTracksClient'
         /\ byTier' \in [{"baseline", "optimizing"} -> Digest]
         /\ current' \in Digest /\ client' \in Payloads
         /\ client' \in {client, payload}
         /\ terminal => client' = payload
<1>1. payload # NoDigest /\ payload \in Digest
  BY DigestAssumption DEF Digest
<1>2. CASE ShouldDeliver(tier, payload, terminal)
  BY <1>1, <1>2 DEF Deliver, Types, RegistryTracksClient
<1>3. CASE ~ShouldDeliver(tier, payload, terminal)
  BY <1>1, <1>3 DEF Deliver, ShouldDeliver, Types, RegistryTracksClient
<1>4. QED
  BY <1>2, <1>3

SameView == latest' = latest /\ Due' = Due /\ Seen' = Seen

LEMMA HandleKeeps == ASSUME IInv, Handle PROVE IInv' /\ SameView
<1> USE DEF IInv
<1>0. /\ script = <<>> /\ holding = Nothing
      /\ UNCHANGED <<revision, holding, work, writers, byTier, current, client, latest, lost>>
      /\ published' \in 0..MaxPublications
  BY PayloadAssumption DEF Handle, LoopIdle, Types
<1> DEFINE Whole(s) ==
      /\ s \in Seq(Outputs) /\ s # <<>> /\ Head(s).first
      /\ \/ Len(s) = 1 /\ Alone(s[1])
         \/ Len(s) = 2 /\ Opens(s[1]) /\ Follows(s[2], s[1].pub)
<1>1. Whole(script')
  <2> USE DEF Output, Carries, Alone, Opens, Follows
  <2>1. ASSUME NEW p \in Publication, script' = Tiered(p)
        PROVE  Whole(script')
    <3>1. p.baseline \in Payloads /\ p.final \in Payloads
      BY DEF Publication
    <3>2. CASE p.baseline = p.final
      BY <2>1, <3>1, <3>2 DEF Tiered, Outputs
    <3>3. CASE p.baseline # p.final /\ p.baseline = Empty
      BY <2>1, <3>1, <3>3 DEF Tiered, Outputs
    <3>4. CASE p.baseline # p.final /\ p.baseline # Empty
      BY <2>1, <3>1, <3>4 DEF Tiered, Outputs
    <3>5. QED
      BY <3>2, <3>3, <3>4
  <2>2. ASSUME NEW p \in Publication, script' = DeferredStyle(p)
        PROVE  Whole(script')
    BY <2>2 DEF DeferredStyle, Outputs, Publication
  <2>3. ASSUME NEW p \in Publication, script' = DeferredSource(p)
        PROVE  Whole(script')
    <3>1. p.baseline \in Payloads /\ p.final \in Payloads
      BY DEF Publication
    <3>2. CASE p.baseline = Empty
      BY <2>3, <3>1, <3>2 DEF DeferredSource, Outputs
    <3>3. CASE p.baseline # Empty
      BY <2>3, <3>1, <3>3 DEF DeferredSource, DeferredStyle, Outputs
    <3>4. QED
      BY <3>2, <3>3
  <2>4. CASE script' = Clear
    BY <2>4, PayloadAssumption DEF Clear, Outputs, Publication, NothingYet
  <2>5. QED
    BY <2>1, <2>2, <2>3, <2>4 DEF Handle
<1>2. ~Midway /\ ~Midway'
  BY <1>0, <1>1 DEF Midway
<1>3. Types' /\ ScriptIsOrderly' /\ HoldingIsLatest'
  BY <1>0, <1>1 DEF Types, ScriptIsOrderly, HoldingIsLatest, Digest
<1>4. OneAnswers' /\ AnswersWithLatest' /\ OneWrites' /\ RegistryTracksClient'
  BY <1>0, <1>2 DEF OneAnswers, AnswersWithLatest, OneWrites, CurrentWork, CurrentWriters,
                    IsCurrent, RegistryTracksClient
<1>5. SameView
  BY <1>0, <1>2 DEF SameView, Due, Owed, Midway, Seen, LockFree, IsCurrent
<1>6. QED
  BY <1>3, <1>4, <1>5

(* The first output of a publication makes it the latest one, of which the *)
(* final payload is due; the output that follows a baseline changes        *)
(* nothing that can be seen.                                               *)
LEMMA ScheduleKeeps ==
  ASSUME IInv, ScheduleOutput
  PROVE  IInv' /\ (SameView \/ \E p \in Publication : Latest!Publish(p))
<1> USE DEF IInv
<1> DEFINE o == Head(script)
           rev == revision + 1
<1>0. /\ script # <<>> /\ holding = Nothing /\ revision \in Nat
      /\ script' = Tail(script) /\ revision' = rev /\ latest' = o.pub
      /\ lost' = (lost /\ ~o.first)
      /\ holding' = IF o.arm \in {"immediate", "clear"} THEN o ELSE Nothing
      /\ writers' = IF o.arm = "delayed"
                    THEN writers \cup {Writer("thread", rev, o.payload, "asleep")}
                    ELSE writers
      /\ work' = IF o.arm = "dispatch"
                 THEN Append(work, [rev |-> rev, payload |-> o.payload])
                 ELSE work
      /\ UNCHANGED <<byTier, current, client, published>>
  BY DEF ScheduleOutput, NewRevision, Types
<1>1. /\ o \in Outputs /\ script' \in Seq(Outputs)
      /\ o.arm \in {"immediate", "delayed", "dispatch", "clear"} /\ o.payload \in Payloads
      /\ o.pub \in Publication /\ o.first \in BOOLEAN /\ o.terminal \in BOOLEAN
  BY <1>0, ShortScript DEF Types, Outputs
<1>2. /\ Carries(o)
      /\ o.terminal => script' = <<>>
      /\ ~o.terminal => /\ o.arm = "immediate" /\ Len(script') = 1 /\ script' # <<>>
                        /\ Head(script') = script'[1] /\ Follows(script'[1], o.pub)
      /\ ~o.first => o.pub = latest /\ o.arm \in {"delayed", "dispatch"}
  <2>1. CASE Len(script) = 1 /\ Alone(script[1])
    BY <1>0, <2>1, ShortScript DEF Types, Alone
  <2>2. CASE Len(script) = 1 /\ Follows(script[1], latest)
    BY <1>0, <2>2, ShortScript DEF Types, Follows, Carries
  <2>3. CASE Len(script) = 2 /\ Opens(script[1]) /\ Follows(script[2], script[1].pub)
    BY <1>0, <2>3, ShortScript DEF Types, Opens
  <2>4. QED
    BY <1>0, <2>1, <2>2, <2>3 DEF ScriptIsOrderly
<1>3. o.arm \in {"delayed", "dispatch"} => o.terminal /\ o.payload = o.pub.final
  BY <1>2 DEF Carries
<1>4. /\ \A w \in writers : w.rev \in 1..revision
      /\ \A i \in DOMAIN work : work[i].rev \in 1..revision
      /\ DOMAIN work = 1..Len(work) /\ Len(work) \in Nat
  <2>1. \A w \in writers : w.rev \in 1..revision
    BY DEF Types, WriterRecords
  <2>2. work \in Seq(Work(1..revision)) /\ DOMAIN work = 1..Len(work) /\ Len(work) \in Nat
    BY LenProperties DEF Types
  <2>3. \A i \in DOMAIN work : work[i] \in Work(1..revision)
    BY <2>2, ElementOfSeq
  <2>4. QED
    BY <2>1, <2>2, <2>3 DEF Work
<1>5. ~(rev \in 1..revision) /\ 1..revision \subseteq 1..rev /\ rev \in 1..rev
  BY <1>0
<1> DEFINE new == Writer("thread", rev, o.payload, "asleep")
<1>6. /\ new.rev = rev /\ new.stage = "asleep" /\ new.payload = o.payload
      /\ new \in WriterRecords(1..rev)
  BY <1>1, <1>5 DEF Writer, WriterRecords
<1> HIDE DEF new
<1>7. Midway' <=> ~o.terminal
  BY <1>0, <1>2 DEF Midway, Follows
<1>8. CurrentWriters' = IF o.arm = "delayed" THEN {new} ELSE {}
  BY <1>0, <1>4, <1>5, <1>6 DEF CurrentWriters, IsCurrent, new
<1>9. /\ o.arm = "dispatch" => /\ CurrentWork' = {Len(work) + 1}
                               /\ work'[Len(work) + 1].payload = o.payload
      /\ o.arm # "dispatch" => CurrentWork' = {}
  <2>1. CASE o.arm = "dispatch"
    <3>1. /\ work' = Append(work, [rev |-> rev, payload |-> o.payload])
          /\ DOMAIN work' = 1..(Len(work) + 1)
          /\ work'[Len(work) + 1] = [rev |-> rev, payload |-> o.payload]
          /\ \A i \in 1..Len(work) : work'[i] = work[i]
      BY <1>0, <2>1 DEF Types
    <3>2. \A i \in 1..Len(work) : work'[i].rev # rev
      BY <1>4, <1>5, <3>1
    <3>3. QED
      BY <1>0, <1>4, <2>1, <3>1, <3>2 DEF CurrentWork, IsCurrent
  <2>2. CASE o.arm # "dispatch"
    BY <1>0, <1>4, <1>5, <2>2 DEF CurrentWork, IsCurrent
  <2>3. QED
    BY <2>1, <2>2
<1>10. Types'
  <2>1. \A r \in Work(1..revision) : r \in Work(1..rev)
    BY <1>5 DEF Work
  <2>2. work \in Seq(Work(1..rev))
    BY <2>1, SeqMonotonic DEF Types
  <2>3. [rev |-> rev, payload |-> o.payload] \in Work(1..rev)
    BY <1>1, <1>5 DEF Work
  <2>4. work' \in Seq(Work(1..rev))
    <3>1. Append(work, [rev |-> rev, payload |-> o.payload]) \in Seq(Work(1..rev))
      BY <2>2, <2>3, AppendProperties
    <3>2. QED
      BY <1>0, <2>2, <3>1
  <2>5. \A w \in WriterRecords(1..revision) : w \in WriterRecords(1..rev)
    BY <1>5 DEF WriterRecords
  <2>6. writers' \subseteq WriterRecords(1..rev)
    BY <1>0, <1>6, <2>5 DEF Types, new
  <2>7. QED
    BY <1>0, <1>1, <2>4, <2>6 DEF Types, Digest
<1>11. ScriptIsOrderly' /\ HoldingIsLatest'
  <2>1. ScriptIsOrderly'
    BY <1>0, <1>2 DEF ScriptIsOrderly
  <2>2. HoldingIsLatest'
    BY <1>0, <1>1, <1>2, <1>7 DEF HoldingIsLatest
  <2>3. QED
    BY <2>1, <2>2
<1>12. OneAnswers'
  <2>1. Midway' \/ holding' # Nothing => o.arm \in {"immediate", "clear"} /\ o.first
    BY <1>0, <1>1, <1>2, <1>7
  <2>2. lost' => FALSE
    <3>1. ~o.first => Midway
      BY <1>0 DEF Midway
    <3>2. QED
      BY <1>0, <3>1 DEF OneAnswers
  <2>3. QED
    BY <1>8, <1>9, <2>1, <2>2 DEF OneAnswers
<1>13. AnswersWithLatest' /\ OneWrites' /\ RegistryTracksClient'
  <2>1. AnswersWithLatest'
    BY <1>0, <1>3, <1>6, <1>8, <1>9 DEF AnswersWithLatest
  <2>2. OneWrites'
    BY <1>0, <1>6 DEF OneWrites, new
  <2>3. QED
    BY <1>0, <2>1, <2>2 DEF RegistryTracksClient
<1>14. Due' = "final"
  <2>1. CASE o.arm \in {"immediate", "clear"}
    BY <1>0, <1>1, <1>7, <2>1 DEF Due, Owed, Midway, Nothing, Outputs
  <2>2. CASE o.arm = "delayed"
    <3>1. new \in CurrentWriters' /\ new.stage # "writing"
      BY <1>6, <1>8, <2>2
    <3>2. \E w \in writers' : w.rev = revision' /\ w.stage # "writing"
      BY <3>1 DEF CurrentWriters, IsCurrent
    <3>3. QED
      BY <3>2 DEF Due, Owed, IsCurrent
  <2>3. CASE o.arm = "dispatch"
    <3>1. \E i \in DOMAIN work' : work'[i].rev = revision'
      BY <1>9, <2>3 DEF CurrentWork, IsCurrent
    <3>2. QED
      BY <3>1 DEF Due, Owed, IsCurrent
  <2>4. QED
    BY <1>1, <2>1, <2>2, <2>3
<1>15. Seen' = Seen
  <2>1. LockFree' <=> LockFree
    BY <1>0, <1>6 DEF LockFree, new
  <2>2. CASE LockFree
    BY <1>0, <2>1, <2>2 DEF Seen
  <2>3. CASE ~LockFree
    <3>1. PICK w \in writers : w.stage = "writing"
      BY <2>3 DEF LockFree
    <3>2. (CHOOSE v \in writers : v.stage = "writing").payload = w.payload
      BY <3>1, ChosenWriter DEF OneWrites
    <3>3. w \in writers' /\ \A v \in writers' : v.stage = "writing" => v = w
      BY <1>0, <1>6, <3>1 DEF OneWrites, new
    <3>4. (CHOOSE v \in writers' : v.stage = "writing").payload = w.payload
      BY <3>1, <3>3, ChosenWriter
    <3>5. QED
      BY <2>1, <2>3, <3>2, <3>4 DEF Seen
  <2>4. QED
    BY <2>2, <2>3
<1>16. o.first => Latest!Publish(o.pub)
  BY <1>0, <1>14, <1>15 DEF Latest!Publish
<1>17. ~o.first => SameView
  <2>1. ~o.first => Due = "final"
    BY <1>0 DEF Due, Owed
  <2>2. QED
    BY <1>0, <1>2, <1>14, <1>15, <2>1 DEF SameView
<1>18. QED
  BY <1>1, <1>10, <1>11, <1>12, <1>13, <1>16, <1>17

LEMMA WriteImmediateKeeps ==
  ASSUME IInv, WriteImmediate
  PROVE  IInv' /\ (SameView \/ Latest!ShowBaseline \/ Latest!ShowFinal)
<1> USE DEF IInv
<1> DEFINE h == holding
<1>0. /\ h # Nothing /\ LockFree /\ holding' = Nothing
      /\ UNCHANGED <<revision, script, work, writers, latest, lost, published>>
  BY DEF WriteImmediate
<1>1. /\ h \in Outputs /\ h.payload \in Payloads /\ h.terminal \in BOOLEAN
      /\ Carries(h) /\ h.arm \in {"immediate", "clear"} /\ h.pub = latest
      /\ IF h.terminal THEN script = <<>> ELSE Midway
  BY <1>0 DEF Types, Outputs, HoldingIsLatest
<1>2. /\ ~h.terminal => h.payload = latest.baseline
      /\ h.terminal => h.payload = latest.final
  BY <1>1 DEF Carries, NothingYet
<1>3. ~lost /\ CurrentWork = {} /\ CurrentWriters = {}
  BY <1>0 DEF OneAnswers
<1>4. /\ RegistryTracksClient'
      /\ byTier' \in [{"baseline", "optimizing"} -> Digest]
      /\ current' \in Digest /\ client' \in Payloads
      /\ client' \in {client, h.payload}
      /\ h.terminal => client' = h.payload
  <2>1. CASE h.arm = "clear"
    <3>1. DeliverClear /\ h.payload = Empty
      BY <1>1, <2>1 DEF WriteImmediate, Carries
    <3>2. QED
      BY <3>1, PayloadAssumption DEF DeliverClear, RegistryTracksClient, Digest
  <2>2. CASE h.arm # "clear"
    <3>1. Deliver("baseline", h.payload, h.terminal)
      BY <2>2 DEF WriteImmediate
    <3>2. QED
      BY <1>1, <3>1, DeliveryIsRecorded
  <2>3. QED
    BY <2>1, <2>2
<1>5. (Midway' <=> Midway) /\ CurrentWork' = {} /\ CurrentWriters' = {}
  BY <1>0, <1>3 DEF Midway, CurrentWork, CurrentWriters, IsCurrent
<1>6. IInv'
  <2>1. Types' /\ ScriptIsOrderly' /\ HoldingIsLatest'
    BY <1>0, <1>4 DEF Types, ScriptIsOrderly, HoldingIsLatest
  <2>2. OneAnswers' /\ AnswersWithLatest' /\ OneWrites'
    BY <1>0, <1>3, <1>5 DEF OneAnswers, AnswersWithLatest, OneWrites
  <2>3. QED
    BY <1>4, <2>1, <2>2
<1>7. Seen = client /\ Seen' = client'
  BY <1>0 DEF Seen, LockFree
<1>8. Due = IF Midway \/ h.terminal THEN "final" ELSE "none"
  BY <1>0, <1>3 DEF Due, Owed, Midway, CurrentWork, CurrentWriters
<1>9. Due' = IF Midway THEN "final" ELSE "none"
  BY <1>0, <1>3, <1>5 DEF Due, Owed, Midway, CurrentWork, CurrentWriters
<1>10. CASE h.terminal
  <2>1. Latest!ShowFinal
    BY <1>0, <1>1, <1>2, <1>4, <1>7, <1>8, <1>9, <1>10 DEF Latest!ShowFinal, Midway
  <2>2. QED
    BY <1>6, <2>1
<1>11. CASE ~h.terminal
  <2>1. SameView \/ Latest!ShowBaseline
    BY <1>0, <1>1, <1>2, <1>4, <1>7, <1>8, <1>9, <1>11 DEF SameView, Latest!ShowBaseline
  <2>2. QED
    BY <1>6, <2>1
<1>12. QED
  BY <1>10, <1>11
-----------------------------------------------------------------------------
(* Steps of the worker and of the delayed threads *)

(* What is seen depends on nothing but who writes. *)
LEMMA SeenKept ==
  ASSUME OneWrites, client' = client,
         \A v \in writers : v.stage = "writing" => v \in writers',
         \A v \in writers' : v.stage = "writing" => v \in writers
  PROVE  Seen' = Seen /\ OneWrites'
<1>1. OneWrites'
  BY DEF OneWrites
<1>2. LockFree' <=> LockFree
  BY DEF LockFree
<1>3. CASE LockFree
  BY <1>1, <1>2, <1>3 DEF Seen
<1>4. CASE ~LockFree
  <2>1. PICK w \in writers : w.stage = "writing"
    BY <1>4 DEF LockFree
  <2>2. (CHOOSE v \in writers : v.stage = "writing").payload = w.payload
    BY <2>1, ChosenWriter DEF OneWrites
  <2>3. w \in writers' /\ \A v \in writers' : v.stage = "writing" => v = w
    BY <2>1 DEF OneWrites
  <2>4. (CHOOSE v \in writers' : v.stage = "writing").payload = w.payload
    BY <2>1, <2>3, ChosenWriter
  <2>5. QED
    BY <1>1, <1>2, <1>4, <2>2, <2>4 DEF Seen
<1>5. QED
  BY <1>1, <1>3, <1>4

(* With the loop where it is, the final payload is due while somebody      *)
(* answers for the latest revision and has not begun to write.             *)
Answering == CurrentWork # {} \/ \E w \in CurrentWriters : w.stage # "writing"

LEMMA DueWhileAnswering ==
  Owed <=> Midway \/ (holding # Nothing /\ holding.terminal) \/ Answering
BY DEF Owed, Midway, Answering, CurrentWork, CurrentWriters

LEMMA LoopAside ==
  ASSUME IInv, Unchanged
  PROVE  /\ ScriptIsOrderly' /\ HoldingIsLatest' /\ (Midway' <=> Midway)
         /\ holding' = holding /\ latest' = latest /\ revision' = revision
BY DEF IInv, Unchanged, ScriptIsOrderly, HoldingIsLatest, Midway

LEMMA TakeWorkKeeps == ASSUME IInv, TakeWork PROVE IInv' /\ SameView
<1> USE DEF IInv
<1> DEFINE first == Head(work)
           new == Writer("worker", first.rev, first.payload, "computing")
<1>0. /\ work # <<>> /\ work' = Tail(work) /\ Unchanged
      /\ writers' = IF IsCurrent(first.rev) THEN writers \cup {new} ELSE writers
      /\ UNCHANGED <<byTier, current, client, lost>>
  BY DEF TakeWork
<1>1. /\ work \in Seq(Work(1..revision)) /\ Len(work) \in Nat \ {0} /\ DOMAIN work = 1..Len(work)
      /\ first = work[1] /\ first \in Work(1..revision)
      /\ work' \in Seq(Work(1..revision)) /\ DOMAIN work' = 1..(Len(work) - 1)
      /\ \A i \in 1..(Len(work) - 1) : work'[i] = work[i + 1]
  <2>1. work \in Seq(Work(1..revision))
    BY DEF Types
  <2>2. Len(work) \in Nat \ {0} /\ DOMAIN work = 1..Len(work)
    BY <1>0, <2>1, EmptySeq, LenProperties
  <2>3. /\ Tail(work) \in Seq(Work(1..revision)) /\ Len(Tail(work)) = Len(work) - 1
        /\ \A i \in 1..Len(Tail(work)) : Tail(work)[i] = work[i + 1]
    BY <1>0, <2>1, HeadTailProperties
  <2>4. DOMAIN Tail(work) = 1..(Len(work) - 1)
    BY <2>3, LenProperties
  <2>5. first = work[1] /\ first \in Work(1..revision)
    BY <1>0, <2>1, <2>2, HeadTailProperties
  <2>6. QED
    BY <1>0, <2>1, <2>2, <2>3, <2>4, <2>5
<1>2. /\ new.rev = first.rev /\ new.payload = first.payload /\ new.stage = "computing"
      /\ new \in WriterRecords(1..revision)
  BY <1>1 DEF Writer, WriterRecords, Work
<1> HIDE DEF new
<1>3. revision' = revision /\ CurrentWriters' = IF IsCurrent(first.rev) THEN CurrentWriters \cup {new} ELSE CurrentWriters
  BY <1>0, <1>2, LoopAside DEF CurrentWriters, IsCurrent
<1>4. \A i \in CurrentWork' : i + 1 \in CurrentWork /\ work'[i] = work[i + 1] /\ i \in Nat /\ i # 0
  BY <1>1, <1>3 DEF CurrentWork, IsCurrent
<1>5. \A i \in CurrentWork : i = 1 \/ (i - 1 \in CurrentWork' /\ i \in Nat)
  BY <1>1, <1>3 DEF CurrentWork, IsCurrent
<1>6. 1 \in CurrentWork <=> IsCurrent(first.rev)
  BY <1>1 DEF CurrentWork
<1>7. /\ \A i, j \in CurrentWork' : i = j
      /\ IsCurrent(first.rev) => CurrentWork' = {} /\ CurrentWriters' = {new} /\ CurrentWork # {}
      /\ ~IsCurrent(first.rev) => /\ CurrentWriters' = CurrentWriters
                                  /\ CurrentWork' = {} <=> CurrentWork = {}
  <2>1. \A i, j \in CurrentWork' : i = j
    BY <1>4 DEF OneAnswers
  <2>2. ASSUME IsCurrent(first.rev)
        PROVE  CurrentWork' = {} /\ CurrentWriters' = {new} /\ CurrentWork # {}
    <3>1. 1 \in CurrentWork /\ \A i \in CurrentWork : i = 1
      BY <1>6, <2>2 DEF OneAnswers
    <3>2. CurrentWork' = {}
      BY <1>4, <3>1
    <3>3. QED
      BY <1>3, <2>2, <3>1, <3>2 DEF OneAnswers
  <2>3. ASSUME ~IsCurrent(first.rev)
        PROVE  CurrentWriters' = CurrentWriters /\ (CurrentWork' = {} <=> CurrentWork = {})
    BY <1>3, <1>4, <1>5, <1>6, <2>3
  <2>4. QED
    BY <2>1, <2>2, <2>3
<1>8. Types'
  BY <1>0, <1>1, <1>2, <1>3 DEF Types, Unchanged, Digest
<1>9. OneAnswers'
  BY <1>0, <1>7, LoopAside DEF OneAnswers
<1>10. AnswersWithLatest'
  <2>1. IsCurrent(first.rev) => first.payload = latest.final
    BY <1>1, <1>6 DEF AnswersWithLatest
  <2>2. \A i \in CurrentWork' : work'[i].payload = latest.final
    BY <1>4 DEF AnswersWithLatest
  <2>3. \A w \in CurrentWriters' : w.payload = latest.final
    <3>1. CASE IsCurrent(first.rev)
      BY <1>2, <1>7, <2>1, <3>1
    <3>2. CASE ~IsCurrent(first.rev)
      BY <1>7, <3>2 DEF AnswersWithLatest
    <3>3. QED
      BY <3>1, <3>2
  <2>4. latest' = latest
    BY <1>0, LoopAside
  <2>5. QED
    BY <2>2, <2>3, <2>4 DEF AnswersWithLatest
<1>11. Seen' = Seen /\ OneWrites'
  BY <1>0, <1>2, SeenKept
<1>12. RegistryTracksClient'
  BY <1>0 DEF RegistryTracksClient
<1>13. Answering' <=> Answering
  BY <1>2, <1>7 DEF Answering
<1>14. SameView
  <2>1. Owed' <=> Owed
    <3>1. Owed' <=> Midway' \/ (holding' # Nothing /\ holding'.terminal) \/ Answering'
      BY DEF Owed, Midway, Answering, CurrentWork, CurrentWriters
    <3>2. QED
      BY <1>13, <3>1, DueWhileAnswering, LoopAside, <1>0
  <2>2. QED
    BY <1>0, <1>11, <2>1, LoopAside DEF SameView, Due
<1>15. QED
  BY <1>0, <1>8, <1>9, <1>10, <1>11, <1>12, <1>14, LoopAside

(* A writer leaves, or is replaced by one of the same revision and payload. *)
LEMMA WritersStayTyped ==
  ASSUME Types, NEW w \in writers, NEW stage \in {"computing", "asleep", "waiting", "writing"}
  PROVE  /\ w.rev \in 1..revision /\ w.payload \in Payloads
         /\ [w EXCEPT !.stage = stage] \in WriterRecords(1..revision)
         /\ [w EXCEPT !.stage = stage].stage = stage
         /\ [w EXCEPT !.stage = stage].rev = w.rev
         /\ [w EXCEPT !.stage = stage].payload = w.payload
<1>1. w \in WriterRecords(1..revision)
  BY DEF Types
<1>2. QED
  BY <1>1 DEF WriterRecords

(* Whoever answers for the latest revision is alone to do so. *)
LEMMA SoleAnswer ==
  ASSUME OneAnswers, NEW w \in CurrentWriters
  PROVE  CurrentWriters = {w} /\ CurrentWork = {} /\ ~Midway /\ holding = Nothing /\ ~lost
BY DEF OneAnswers

LEMMA OwedNext ==
  Owed' <=> Midway' \/ (holding' # Nothing /\ holding'.terminal) \/ Answering'
BY DEF Owed, Midway, Answering, CurrentWork, CurrentWriters

LEMMA PanicKeeps ==
  ASSUME IInv, NEW w \in writers, Panic(w)
  PROVE  IInv' /\ (SameView \/ Latest!Lose)
<1> USE DEF IInv
<1>0. /\ w.stage = "computing" /\ Unchanged /\ writers' = writers \ {w}
      /\ UNCHANGED <<work, byTier, current, client>>
  BY DEF Panic
<1>1. lost' = (lost \/ IsCurrent(w.rev))
  BY DEF Panic
<1>2. CurrentWork' = CurrentWork /\ CurrentWriters' = CurrentWriters \ {w}
  BY <1>0, LoopAside DEF CurrentWork, CurrentWriters, IsCurrent
<1>3. Types'
  <2>1. lost' \in BOOLEAN
    BY <1>1, Zenon DEF Types
  <2>2. QED
    BY <1>0, <2>1 DEF Types, Unchanged, Digest
<1>4. Seen' = Seen /\ OneWrites'
  BY <1>0, SeenKept
<1>5. AnswersWithLatest' /\ RegistryTracksClient'
  BY <1>0, <1>2, LoopAside DEF AnswersWithLatest, RegistryTracksClient
<1>6. CASE IsCurrent(w.rev)
  <2>1. w \in CurrentWriters
    BY <1>6 DEF CurrentWriters
  <2>2. CurrentWriters = {w} /\ CurrentWork = {} /\ ~Midway /\ holding = Nothing /\ ~lost
    BY <2>1, SoleAnswer
  <2>3. lost' /\ CurrentWriters' = {} /\ CurrentWork' = {} /\ ~Midway' /\ holding' = Nothing
    BY <1>0, <1>1, <1>2, <1>6, <2>2, LoopAside
  <2>4. OneAnswers'
    BY <2>3 DEF OneAnswers
  <2>5. Answering /\ ~Answering'
    BY <1>0, <2>1, <2>3 DEF Answering
  <2>6. Due = "final" /\ Due' = "lost"
    BY <2>2, <2>3, <2>5, DueWhileAnswering, OwedNext DEF Due
  <2>7. Latest!Lose
    BY <1>0, <1>4, <2>6, LoopAside DEF Latest!Lose
  <2>8. QED
    BY <1>0, <1>3, <1>4, <1>5, <2>4, <2>7, LoopAside
<1>7. CASE ~IsCurrent(w.rev)
  <2>1. CurrentWriters' = CurrentWriters /\ (lost' <=> lost)
    BY <1>1, <1>2, <1>7 DEF CurrentWriters
  <2>2. OneAnswers'
    BY <1>0, <1>2, <2>1, LoopAside DEF OneAnswers
  <2>3. Owed' <=> Owed
    BY <1>0, <1>2, <2>1, LoopAside, DueWhileAnswering, OwedNext DEF Answering
  <2>4. SameView
    BY <1>0, <1>4, <2>1, <2>3, LoopAside DEF SameView, Due
  <2>5. QED
    BY <1>0, <1>3, <1>4, <1>5, <2>2, <2>4, LoopAside
<1>8. QED
  BY <1>6, <1>7

(* A writer past a check: it goes on if its revision is the latest, and is  *)
(* gone otherwise.  Past the check under the lock its payload counts.       *)
LEMMA ProceedKeeps ==
  ASSUME IInv, NEW w \in writers, w.stage # "writing",
         NEW stage \in {"asleep", "waiting", "writing"}, Proceed(w, stage),
         stage = "writing" => LockFree
  PROVE  IInv' /\ (SameView \/ Latest!ShowFinal)
<1> USE DEF IInv
<1> DEFINE moved == [w EXCEPT !.stage = stage]
<1>0. /\ writers' = (writers \ {w}) \cup (IF IsCurrent(w.rev) THEN {moved} ELSE {})
      /\ Unchanged /\ UNCHANGED <<work, byTier, current, client, lost>>
  BY DEF Proceed
<1>1. /\ moved \in WriterRecords(1..revision) /\ moved.stage = stage
      /\ moved.rev = w.rev /\ moved.payload = w.payload
  BY WritersStayTyped
<1> HIDE DEF moved
<1>2. Types'
  BY <1>0, <1>1 DEF Types, Unchanged, Digest
<1>3. RegistryTracksClient' /\ CurrentWork' = CurrentWork
  BY <1>0, LoopAside DEF RegistryTracksClient, CurrentWork, IsCurrent
<1>4. CASE ~IsCurrent(w.rev)
  <2>1. writers' = writers \ {w} /\ CurrentWriters' = CurrentWriters
    BY <1>0, <1>4, LoopAside DEF CurrentWriters, IsCurrent
  <2>2. OneAnswers' /\ AnswersWithLatest'
    BY <1>0, <1>3, <2>1, LoopAside DEF OneAnswers, AnswersWithLatest
  <2>3. Seen' = Seen /\ OneWrites'
    BY <1>0, <2>1, SeenKept
  <2>4. Owed' <=> Owed
    BY <1>0, <1>3, <2>1, LoopAside, DueWhileAnswering, OwedNext DEF Answering
  <2>5. SameView
    BY <1>0, <2>3, <2>4, LoopAside DEF SameView, Due
  <2>6. QED
    BY <1>0, <1>2, <1>3, <2>2, <2>3, <2>5, LoopAside
<1>5. CASE IsCurrent(w.rev)
  <2>1. w \in CurrentWriters
    BY <1>5 DEF CurrentWriters
  <2>2. CurrentWriters = {w} /\ CurrentWork = {} /\ ~Midway /\ holding = Nothing /\ ~lost
    BY <2>1, SoleAnswer
  <2>3. writers' = (writers \ {w}) \cup {moved}
    BY <1>0, <1>5
  <2>4. CurrentWriters' = {moved}
    BY <1>1, <1>5, <2>2, <2>3, LoopAside, <1>0 DEF CurrentWriters, IsCurrent
  <2>5. CurrentWork' = {} /\ ~Midway' /\ holding' = Nothing /\ ~lost'
    BY <1>0, <1>3, <2>2, LoopAside
  <2>6. OneAnswers'
    BY <2>4, <2>5 DEF OneAnswers
  <2>7. AnswersWithLatest' /\ w.payload = latest.final
    BY <1>0, <1>1, <2>1, <2>4, <2>5, LoopAside DEF AnswersWithLatest
  <2>8. Due = "final" /\ (stage # "writing" => Due' = "final") /\ (stage = "writing" => Due' = "none")
    <3>1. Answering
      BY <2>1 DEF Answering
    <3>2. Answering' <=> stage # "writing"
      BY <1>1, <2>4, <2>5 DEF Answering
    <3>3. QED
      BY <2>5, <3>1, <3>2, DueWhileAnswering, OwedNext DEF Due
  <2>9. CASE stage # "writing"
    <3>1. Seen' = Seen /\ OneWrites'
      BY <1>0, <1>1, <2>3, <2>9, SeenKept
    <3>2. QED
      BY <1>0, <1>2, <1>3, <2>6, <2>7, <2>8, <2>9, <3>1, LoopAside DEF SameView
  <2>10. CASE stage = "writing"
    <3>1. LockFree /\ Seen = client
      BY <2>10 DEF Seen
    <3>2. moved \in writers' /\ \A v \in writers' : v.stage = "writing" => v = moved
      BY <2>3, <3>1 DEF LockFree
    <3>3. OneWrites'
      BY <3>2 DEF OneWrites
    <3>4. (CHOOSE v \in writers' : v.stage = "writing").payload = moved.payload
      BY <1>1, <2>10, <3>2, ChosenWriter
    <3>5. ~LockFree'
      BY <1>1, <2>10, <3>2 DEF LockFree
    <3>6. Seen' = latest.final
      BY <1>1, <2>7, <3>4, <3>5 DEF Seen
    <3>7. Latest!ShowFinal
      BY <1>0, <2>8, <2>10, <3>6, LoopAside DEF Latest!ShowFinal
    <3>8. QED
      BY <1>0, <1>2, <1>3, <2>6, <2>7, <3>3, <3>7, LoopAside
  <2>11. QED
    BY <2>9, <2>10
<1>6. QED
  BY <1>4, <1>5

(* The payload was seen from the check on, so writing or eliding it under   *)
(* the lock changes nothing that can be seen.                               *)
LEMMA WriteKeeps ==
  ASSUME IInv, NEW w \in writers, Write(w)
  PROVE  IInv' /\ SameView
<1> USE DEF IInv
<1>0. /\ w.stage = "writing" /\ Deliver("optimizing", w.payload, TRUE)
      /\ writers' = writers \ {w} /\ Unchanged /\ UNCHANGED <<work, lost>>
  BY DEF Write
<1>1. w.payload \in Payloads
  BY DEF Types, WriterRecords
<1>2. /\ RegistryTracksClient' /\ byTier' \in [{"baseline", "optimizing"} -> Digest]
      /\ current' \in Digest /\ client' \in Payloads /\ client' = w.payload
  BY <1>0, <1>1, DeliveryIsRecorded
<1>3. CurrentWork' = CurrentWork /\ CurrentWriters' = CurrentWriters \ {w}
  BY <1>0, LoopAside DEF CurrentWork, CurrentWriters, IsCurrent
<1>4. Types'
  BY <1>0, <1>2 DEF Types, Unchanged, Digest
<1>5. OneAnswers' /\ AnswersWithLatest'
  BY <1>0, <1>3, LoopAside DEF OneAnswers, AnswersWithLatest
<1>6. \A v \in writers : v.stage = "writing" => v = w
  BY <1>0 DEF OneWrites
<1>7. LockFree' /\ OneWrites'
  BY <1>0, <1>6 DEF LockFree, OneWrites
<1>8. Seen = w.payload /\ Seen' = client'
  <2>1. (CHOOSE v \in writers : v.stage = "writing").payload = w.payload
    BY <1>0, <1>6, ChosenWriter
  <2>2. ~LockFree
    BY <1>0 DEF LockFree
  <2>3. QED
    BY <1>7, <2>1, <2>2 DEF Seen
<1>9. Owed' <=> Owed
  <2>1. Answering' <=> Answering
    BY <1>0, <1>3 DEF Answering
  <2>2. QED
    BY <1>0, <2>1, LoopAside, DueWhileAnswering, OwedNext
<1>10. SameView
  BY <1>0, <1>2, <1>8, <1>9, LoopAside DEF SameView, Due
<1>11. QED
  BY <1>0, <1>2, <1>4, <1>5, <1>7, <1>10, LoopAside
-----------------------------------------------------------------------------
LEMMA NextKeeps ==
  ASSUME IInv, [Next]_vars
  PROVE  IInv' /\ [Latest!Next]_Latest!vars
<1> DEFINE Fine == IInv' /\ (SameView \/ Latest!Next)
<1>1. ASSUME Handle PROVE Fine
  BY <1>1, HandleKeeps
<1>2. ASSUME ScheduleOutput PROVE Fine
  <2>1. (\E p \in Publication : Latest!Publish(p)) => Latest!Next
    BY DEF Latest!Next, Latest!Publication, Publication
  <2>2. QED
    BY <1>2, <2>1, ScheduleKeeps
<1>3. ASSUME WriteImmediate PROVE Fine
  BY <1>3, WriteImmediateKeeps DEF Latest!Next
<1>4. ASSUME TakeWork PROVE Fine
  BY <1>4, TakeWorkKeeps
<1>5. ASSUME NEW w \in writers, WriterStep(w) PROVE Fine
  <2>1. CASE Panic(w)
    BY <2>1, PanicKeeps DEF Latest!Next
  <2>2. CASE Resolve(w)
    BY <2>2, ProceedKeeps DEF Resolve, Latest!Next
  <2>3. CASE Wake(w)
    BY <2>3, ProceedKeeps DEF Wake, Latest!Next
  <2>4. CASE Acquire(w)
    BY <2>4, ProceedKeeps DEF Acquire, Latest!Next
  <2>5. CASE Write(w)
    BY <2>5, WriteKeeps
  <2>6. QED
    BY <1>5, <2>1, <2>2, <2>3, <2>4, <2>5 DEF WriterStep
<1>6. ASSUME UNCHANGED vars PROVE Fine
  <2>1. IInv' <=> IInv
    BY <1>6 DEF vars, IInv, Types, ScriptIsOrderly, HoldingIsLatest, OneAnswers, AnswersWithLatest,
                OneWrites, RegistryTracksClient, CurrentWork, CurrentWriters, IsCurrent, Midway,
                Digest
  <2>2. SameView
    BY <1>6 DEF vars, SameView, Due, Owed, Seen, LockFree, IsCurrent
  <2>3. QED
    BY <2>1, <2>2
<1>7. Fine
  BY <1>1, <1>2, <1>3, <1>4, <1>5, <1>6 DEF Next
<1>8. QED
  BY <1>7 DEF SameView, Latest!vars

(* In every reachable state the loop is midway through at most one          *)
(* publication, one party at most answers for the latest revision and does  *)
(* so with its final payload, and one writer at most is past the check      *)
(* under the stdout lock (deliver_scheduled_lsp_output).                    *)
THEOREM PublicationInvariant == Spec => []IInv
<1>1. Init => IInv
  BY InitIInv
<1>2. IInv /\ [Next]_vars => IInv'
  BY NextKeeps
<1>3. QED
  BY <1>1, <1>2, PTL DEF Spec

(* Every variable keeps its type: the revisions in the channel and with the *)
(* threads are ones the coalescer has given out.                            *)
THEOREM PublicationTypes == Spec => []TypeOK
<1>1. IInv => TypeOK
  <2> SUFFICES ASSUME IInv PROVE TypeOK
    OBVIOUS
  <2>1. Types
    BY DEF IInv
  <2>2. \A o \in {script[i] : i \in DOMAIN script} \cup ({holding} \ {Nothing}) : o \in Outputs
    <3>1. \A i \in DOMAIN script : script[i] \in Outputs
      BY <2>1, ElementOfSeq, LenProperties DEF Types
    <3>2. QED
      BY <2>1, <3>1 DEF Types
  <2>3. QED
    BY <2>1, <2>2 DEF TypeOK, Types, Outputs, Work, WriterRecords
<1>2. QED
  BY <1>1, PublicationInvariant, PTL

(* The digest the registry holds for the document is the digest of what the *)
(* client shows, whichever tier, clear or elision came last                 *)
(* (record_delivered, under the stdout lock).                               *)
THEOREM RegistryIsTrue == Spec => []RegistryTracksClient
<1>1. IInv => RegistryTracksClient
  BY DEF IInv
<1>2. QED
  BY <1>1, PublicationInvariant, PTL

(* Revisions checked before the delay, after it and under the lock, with    *)
(* elision by digest, implement latest-wins publication: the client is      *)
(* never shown an older publication after a newer one was scheduled, and    *)
(* when nothing is owed it shows the latest one's final payload.            *)
THEOREM ImplementsLatestWins == Spec => PublishesLatestOnly
<1>1. Init => Latest!Init
  <2> SUFFICES ASSUME Init PROVE Latest!Init
    OBVIOUS
  <2>1. ~Owed /\ LockFree
    BY DEF Init, Owed, LockFree
  <2>2. QED
    BY <2>1 DEF Init, Latest!Init, Latest!NothingYet, NothingYet, Due, Seen
<1>2. IInv /\ [Next]_vars => [Latest!Next]_Latest!vars
  BY NextKeeps
<1>3. QED
  BY <1>1, <1>2, PublicationInvariant, PTL DEF Spec, PublishesLatestOnly, Latest!Spec
=============================================================================
