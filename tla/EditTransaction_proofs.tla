----------------------- MODULE EditTransaction_proofs -----------------------
(***************************************************************************)
(* The edit transaction for any workspace, any plans, any number of        *)
(* processes and any number of failing calls, killed processes and editor  *)
(* saves.                                                                  *)
(*                                                                         *)
(* The inductive invariant has a part per transaction, which reads what    *)
(* its process remembers, its sidecars and the files it has locked, and a  *)
(* part for what transactions share: the lock files, and who stands in     *)
(* whose way.  A step of one transaction leaves the parts of the others    *)
(* alone because it writes only to files it has locked.                    *)
(***************************************************************************)
EXTENDS EditTransaction, SequenceTheorems, TLAPS

\* The destinations up to the n-th, and the paths compared up to the n-th.
Done(t, n)     == {Edits(t)[i] : i \in 1..n}
Compared(t, n) == {Expected(t)[i] : i \in 1..n}

Working == Phases \ {"observe", "lock", "drop", "done", "crashed"}

(* The loops of t stay within its lists. *)
IndexInRange(t) ==
  /\ job[t].pc \in {"observe", "lock", "check", "journal"} => job[t].k = 1
  /\ job[t].pc \in {"verify", "reverify"} => job[t].k \in 1..Len(Expected(t))
  /\ job[t].pc \in {"stage", "publish"} => job[t].k \in 1..Len(Edits(t))
  /\ job[t].pc = "sweep" => job[t].k \in 1..(Len(Edits(t)) + 1)
  /\ job[t].pc = "rollback" => job[t].k \in 0..Len(Edits(t))

(* The locks t holds are the first ones, and all of them while it works.   *)
HeldInOrder(t) ==
  /\ job[t].held \subseteq Dests(t)
  /\ job[t].pc \in Working => job[t].held = Dests(t)
  /\ job[t].pc \in {"observe", "done"} => job[t].held = {}
  /\ job[t].pc = "lock" => \A g \in job[t].held : \A f \in Dests(t) \ job[t].held : g < f
  /\ job[t].outcome = "refused" => \A g \in job[t].held : g < job[t].at

(* The outcome is decided once, on the way out. *)
OutcomeIsLast(t) ==
  /\ job[t].outcome # "none" => job[t].pc \in {"clean", "drop", "done", "crashed"}
  /\ job[t].pc \in {"clean", "drop", "done"} => job[t].outcome # "none"
  /\ job[t].pc = "clean" => job[t].outcome \in {"stale", "failed"}

Unpublished(t) ==
  \/ job[t].pc \in {"observe", "lock", "verify", "stage", "check", "reverify", "clean", "journal"}
  \/ job[t].outcome \in {"refused", "stale", "failed"}

NoBackup(t) == \A f \in Files : backup[t][f] = NoOne

(* What is staged, backed up, replaced and put back, phase by phase. *)
Staged(t) ==
  /\ job[t].existed \subseteq Dests(t)
  /\ stage[t] \subseteq Dests(t) \ job[t].moved
  /\ job[t].pc \in {"observe", "lock", "verify"} => job[t].existed = {}
  /\ job[t].pc = "stage" => job[t].existed \subseteq Done(t, job[t].k - 1)

Published(t) ==
  /\ job[t].ready \subseteq job[t].existed /\ job[t].moved \subseteq Dests(t)
  /\ job[t].moved \cap job[t].existed \subseteq job[t].ready
  /\ \A f \in Files : backup[t][f] # NoOne => f \in job[t].existed
  /\ \A f \in job[t].ready : backup[t][f] # Torn
  /\ Unpublished(t) => /\ job[t].ready = {} /\ job[t].moved = {}
                       /\ ~job[t].failed /\ NoBackup(t)
  /\ job[t].pc = "publish" => /\ job[t].moved = Done(t, job[t].k - 1)
                              /\ job[t].ready \subseteq Done(t, job[t].k)
                              /\ ~job[t].failed
                              /\ \A f \in job[t].ready : backup[t][f] \in Contents
  /\ job[t].pc \in {"publish", "sweep", "rollback"} => journal[t] = "whole"

Settled(t) ==
  /\ job[t].pc = "sweep" => /\ job[t].moved = Dests(t)
                            /\ \A f \in Done(t, job[t].k - 1) : backup[t][f] = NoOne
  /\ job[t].outcome \in {"ok", "unswept"} => job[t].moved = Dests(t)
  /\ job[t].outcome = "ok" => journal[t] = "none" /\ NoBackup(t)

RolledBack(t) ==
  /\ job[t].pc = "rollback" =>
       /\ job[t].moved # Dests(t)
       /\ \A f \in job[t].ready \cap Done(t, job[t].k) : backup[t][f] \in Contents
       /\ ~job[t].failed => \A f \in Dests(t) \ Done(t, job[t].k) :
                              f \notin job[t].moved /\ backup[t][f] = NoOne
  /\ job[t].outcome = "restored" => job[t].moved = {} /\ NoBackup(t)
  /\ job[t].outcome = "rollbackFailed" => job[t].moved # Dests(t)

(* A file t has compared and not displaced holds what t was computed from; *)
(* of one it has displaced the backup does.                                *)
InPlace(t, f) ==
  \/ job[t].pc = "verify" /\ f \in Compared(t, job[t].k - 1)
  \/ /\ job[t].pc \in {"stage", "check", "reverify", "journal", "publish", "rollback"}
     /\ f \notin job[t].ready \cup job[t].moved

Sampled(t, f) ==
  \/ job[t].pc \in {"check", "reverify", "journal", "publish", "sweep", "rollback"}
  \/ job[t].pc = "stage" /\ f \in Done(t, job[t].k - 1)

BackedUp(t, f) ==
  /\ f \in job[t].ready
  /\ \/ job[t].pc = "publish"
     \/ job[t].pc = "rollback" /\ f \in Done(t, job[t].k)

Untouched(t, f) ==
  /\ InPlace(t, f) => disk[f] = job[t].seen[f]
  /\ f \in job[t].existed => job[t].seen[f] \notin {Absent, t}
  /\ Sampled(t, f) /\ f \notin job[t].existed => job[t].seen[f] = Absent
  /\ BackedUp(t, f) => backup[t][f] = job[t].seen[f]
  /\ f \in job[t].moved /\ job[t].pc \in {"publish", "sweep"} => disk[f] = t
  /\ job[t].pc = "rollback" /\ ~job[t].failed /\ f \notin Done(t, job[t].k)
       => disk[f] = job[t].seen[f]
  /\ f \in job[t].existed /\ ~Decided(t)
       => \/ disk[f] = job[t].seen[f]
          \/ backup[t][f] = job[t].seen[f] /\ journal[t] = "whole"

(* What holds from the second comparison on, of a file saved before it. *)
Rechecks(t, f) ==
  \/ job[t].pc \in {"journal", "publish"}
  \/ job[t].pc = "reverify" /\ f \in Compared(t, job[t].k - 1)

Trusted(t, f) ==
  IF f \in job[t].ready THEN backup[t][f] = job[t].seen[f]
  ELSE f \notin job[t].moved => disk[f] = job[t].seen[f]

Contained(t) ==
  \A f \in job[t].held :
    /\ touched[t][f] = "no" => Untouched(t, f)
    /\ touched[t][f] # "late" /\ Rechecks(t, f) => Trusted(t, f)

Local(t) ==
  /\ IndexInRange(t) /\ HeldInOrder(t) /\ OutcomeIsLast(t) /\ Staged(t)
  /\ Published(t) /\ Settled(t) /\ RolledBack(t) /\ Contained(t)

(* A lock file names who holds the lock, or who left it behind. *)
HeldIsLocked == \A t \in Txns : \A f \in job[t].held : lock[f] = t

Refused(t) == job[t].outcome = "refused"

LocksHaveOwners ==
  \A t \in Txns : \A f \in Files :
    lock[f] = t => \/ f \in job[t].held
                   \/ job[t].outcome \notin {"none", "refused"}
                   \/ Refused(t) /\ f < job[t].at

(* Of those who are not refused, one has got at least as far as everybody  *)
(* who is.                                                                 *)
Leads(t) ==
  \/ job[t].outcome \notin {"none", "refused"}
  \/ /\ job[t].outcome = "none"
     /\ \A u \in Txns : Refused(u) => \E f \in job[t].held : job[u].at <= f

SomeoneLeads == (\E u \in Txns : Refused(u)) => \E t \in Txns : Leads(t)

(* Nobody sees what a transaction writes before it publishes. *)
NotYetWritten ==
  \A t \in Txns : \A f \in Files :
    /\ job[t].seen[f] # t
    /\ job[t].pc = "observe" =>
         disk[f] # t /\ \A u \in Txns : backup[u][f] # t

Shared == HeldIsLocked /\ LocksHaveOwners /\ SomeoneLeads /\ NotYetWritten

IInv == TypeOK /\ Shared /\ \A t \in Txns : Local(t)
-----------------------------------------------------------------------------

(* The marks are no content of a file. *)
LEMMA MarksAreNoContent ==
  /\ NoOne \notin Contents /\ Torn \notin Contents /\ NoOne # Torn
  /\ Unsettled \notin Contents \cup {NoOne, Torn}
  /\ NoOne \notin Txns /\ Absent \notin Txns /\ Absent \in Contents
BY EditAssumption DEF Contents, Written, Absent, NoOne, Torn, Unsettled

(* The lists of a plan: no list is empty and no destination is listed twice. *)
LEMMA PlanShape ==
  ASSUME plan \in Plans, NEW t \in Txns
  PROVE  /\ Len(Edits(t)) \in Nat \ {0} /\ Len(Expected(t)) \in Nat \ {0}
         /\ \A i \in 1..Len(Edits(t)) : Edits(t)[i] \in Dests(t)
         /\ \A i \in 1..Len(Expected(t)) : Expected(t)[i] \in Files
         /\ Dests(t) = Done(t, Len(Edits(t)))
         /\ Dests(t) \subseteq Compared(t, Len(Expected(t)))
         /\ Dests(t) \subseteq Files /\ Dests(t) # {}
         /\ Done(t, 0) = {} /\ Compared(t, 0) = {}
<1>1. /\ Edits(t) \in Seq(Files) /\ Expected(t) \in Seq(Files)
      /\ Edits(t) # <<>> /\ IsInjective(Edits(t))
      /\ Dests(t) \subseteq Range(Expected(t))
  BY EditAssumption DEF Shaped, Edits, Expected, Dests
<1>2. /\ Len(Edits(t)) \in Nat \ {0} /\ Len(Expected(t)) \in Nat
      /\ DOMAIN Edits(t) = 1..Len(Edits(t))
      /\ DOMAIN Expected(t) = 1..Len(Expected(t))
  BY <1>1
<1>3. /\ Dests(t) = Done(t, Len(Edits(t))) /\ Range(Expected(t)) = Compared(t, Len(Expected(t)))
      /\ \A i \in 1..Len(Edits(t)) : Edits(t)[i] \in Dests(t) /\ Edits(t)[i] \in Files
      /\ \A i \in 1..Len(Expected(t)) : Expected(t)[i] \in Files
  BY <1>1, <1>2 DEF Dests, Range, Done, Compared
<1>4. Edits(t)[1] \in Dests(t)
  BY <1>2, <1>3
<1>5. Len(Expected(t)) # 0
  BY <1>1, <1>2, <1>3, <1>4 DEF Compared
<1>6. Dests(t) \subseteq Files
  BY <1>3 DEF Done
<1>7. Done(t, 0) = {} /\ Compared(t, 0) = {}
  BY DEF Done, Compared
<1>8. QED
  BY <1>1, <1>2, <1>3, <1>4, <1>5, <1>6, <1>7

\* One more file of a loop is done.
LEMMA DoneSteps ==
  ASSUME plan \in Plans, NEW t \in Txns, NEW k \in 1..Len(Edits(t))
  PROVE  /\ Done(t, k) = Done(t, k - 1) \cup {Edits(t)[k]}
         /\ Edits(t)[k] \notin Done(t, k - 1)
         /\ Done(t, k) \subseteq Dests(t)
<1>1. /\ Edits(t) \in Seq(Files) /\ IsInjective(Edits(t)) /\ Len(Edits(t)) \in Nat
      /\ DOMAIN Edits(t) = 1..Len(Edits(t))
  BY EditAssumption DEF Shaped, Edits
<1>2. 1..k = (1..(k-1)) \cup {k} /\ k \notin 1..(k-1) /\ 1..k \subseteq 1..Len(Edits(t))
  BY <1>1
<1>3. QED
  BY <1>1, <1>2 DEF Done, IsInjective, Dests, Range

\* One more path is compared.
LEMMA ComparedSteps ==
  ASSUME plan \in Plans, NEW t \in Txns, NEW k \in 1..Len(Expected(t))
  PROVE  Compared(t, k) = Compared(t, k - 1) \cup {Expected(t)[k]}
<1>1. Len(Expected(t)) \in Nat
  BY PlanShape
<1>2. 1..k = (1..(k-1)) \cup {k}
  BY <1>1
<1>3. QED
  BY <1>2 DEF Compared

\* A job with one of its fields replaced is a job, and so is one with several.
LEMMA JobField ==
  ASSUME NEW j \in JobType
  PROVE  /\ \A p \in Phases : [j EXCEPT !.pc = p] \in JobType
         /\ \A n \in Nat : [j EXCEPT !.k = n] \in JobType
         /\ \A s \in [Files -> Contents] : [j EXCEPT !.seen = s] \in JobType
         /\ \A S \in SUBSET Files : [j EXCEPT !.held = S] \in JobType
         /\ \A S \in SUBSET Files : [j EXCEPT !.existed = S] \in JobType
         /\ \A S \in SUBSET Files : [j EXCEPT !.ready = S] \in JobType
         /\ \A S \in SUBSET Files : [j EXCEPT !.moved = S] \in JobType
         /\ \A b \in BOOLEAN : [j EXCEPT !.failed = b] \in JobType
         /\ \A o \in Outcomes : [j EXCEPT !.outcome = o] \in JobType
         /\ \A a \in Nat : [j EXCEPT !.at = a] \in JobType
BY DEF JobType

\* Several of its fields at once, as the steps replace them.
LEMMA JobFields ==
  ASSUME NEW j \in JobType
  PROVE  /\ \A n \in Nat, p \in Phases :
              [j EXCEPT !.k = n, !.pc = p] \in JobType
         /\ \A p \in Phases, o \in Outcomes :
              [j EXCEPT !.pc = p, !.outcome = o] \in JobType
         /\ \A p \in Phases, o \in Outcomes, a \in Nat :
              [j EXCEPT !.pc = p, !.outcome = o, !.at = a] \in JobType
         /\ \A n \in Nat, p \in Phases, S \in SUBSET Files :
              [j EXCEPT !.k = n, !.pc = p, !.existed = S] \in JobType
         /\ \A n \in Nat, p \in Phases, S \in SUBSET Files :
              [j EXCEPT !.k = n, !.pc = p, !.moved = S] \in JobType
         /\ \A p \in Phases, n \in Nat :
              [j EXCEPT !.pc = p, !.k = n] \in JobType
         /\ \A S \in SUBSET Files, p \in Phases :
              [j EXCEPT !.held = S, !.pc = p] \in JobType
         /\ \A n \in Nat, b \in BOOLEAN :
              [j EXCEPT !.k = n, !.failed = b] \in JobType
         /\ \A s \in [Files -> Contents], p \in Phases :
              [j EXCEPT !.seen = s, !.pc = p] \in JobType
         /\ \A n \in Nat, S \in SUBSET Files :
              [j EXCEPT !.k = n, !.existed = S] \in JobType
         /\ \A n \in Nat, S \in SUBSET Files :
              [j EXCEPT !.k = n, !.moved = S] \in JobType
<1>1. ASSUME NEW n \in Nat, NEW p \in Phases
      PROVE  [j EXCEPT !.k = n, !.pc = p] \in JobType
  <2> DEFINE i == [j EXCEPT !.k = n]
  <2>1. i \in JobType
    BY JobField
  <2>2. [j EXCEPT !.k = n, !.pc = p] = [i EXCEPT !.pc = p]
    OBVIOUS
  <2> HIDE DEF i
  <2>3. QED
    BY <2>1, <2>2, JobField
<1>2. ASSUME NEW p \in Phases, NEW o \in Outcomes
      PROVE  [j EXCEPT !.pc = p, !.outcome = o] \in JobType
  <2> DEFINE i == [j EXCEPT !.pc = p]
  <2>1. i \in JobType
    BY JobField
  <2>2. [j EXCEPT !.pc = p, !.outcome = o] = [i EXCEPT !.outcome = o]
    OBVIOUS
  <2> HIDE DEF i
  <2>3. QED
    BY <2>1, <2>2, JobField
<1>3. ASSUME NEW p \in Phases, NEW o \in Outcomes, NEW a \in Nat
      PROVE  [j EXCEPT !.pc = p, !.outcome = o, !.at = a] \in JobType
  <2> DEFINE i == [j EXCEPT !.pc = p, !.outcome = o]
  <2>1. i \in JobType
    BY <1>2
  <2>2. [j EXCEPT !.pc = p, !.outcome = o, !.at = a] = [i EXCEPT !.at = a]
    OBVIOUS
  <2> HIDE DEF i
  <2>3. QED
    BY <2>1, <2>2, JobField
<1>4. ASSUME NEW n \in Nat, NEW p \in Phases, NEW S \in SUBSET Files
      PROVE  [j EXCEPT !.k = n, !.pc = p, !.existed = S] \in JobType
  <2> DEFINE i == [j EXCEPT !.k = n, !.pc = p]
  <2>1. i \in JobType
    BY <1>1
  <2>2. [j EXCEPT !.k = n, !.pc = p, !.existed = S] = [i EXCEPT !.existed = S]
    OBVIOUS
  <2> HIDE DEF i
  <2>3. QED
    BY <2>1, <2>2, JobField
<1>5. ASSUME NEW n \in Nat, NEW p \in Phases, NEW S \in SUBSET Files
      PROVE  [j EXCEPT !.k = n, !.pc = p, !.moved = S] \in JobType
  <2> DEFINE i == [j EXCEPT !.k = n, !.pc = p]
  <2>1. i \in JobType
    BY <1>1
  <2>2. [j EXCEPT !.k = n, !.pc = p, !.moved = S] = [i EXCEPT !.moved = S]
    OBVIOUS
  <2> HIDE DEF i
  <2>3. QED
    BY <2>1, <2>2, JobField
<1>6. ASSUME NEW p \in Phases, NEW n \in Nat
      PROVE  [j EXCEPT !.pc = p, !.k = n] \in JobType
  <2> DEFINE i == [j EXCEPT !.pc = p]
  <2>1. i \in JobType
    BY JobField
  <2>2. [j EXCEPT !.pc = p, !.k = n] = [i EXCEPT !.k = n]
    OBVIOUS
  <2> HIDE DEF i
  <2>3. QED
    BY <2>1, <2>2, JobField
<1>7. ASSUME NEW S \in SUBSET Files, NEW p \in Phases
      PROVE  [j EXCEPT !.held = S, !.pc = p] \in JobType
  <2> DEFINE i == [j EXCEPT !.held = S]
  <2>1. i \in JobType
    BY JobField
  <2>2. [j EXCEPT !.held = S, !.pc = p] = [i EXCEPT !.pc = p]
    OBVIOUS
  <2> HIDE DEF i
  <2>3. QED
    BY <2>1, <2>2, JobField
<1>8. ASSUME NEW n \in Nat, NEW b \in BOOLEAN
      PROVE  [j EXCEPT !.k = n, !.failed = b] \in JobType
  <2> DEFINE i == [j EXCEPT !.k = n]
  <2>1. i \in JobType
    BY JobField
  <2>2. [j EXCEPT !.k = n, !.failed = b] = [i EXCEPT !.failed = b]
    OBVIOUS
  <2> HIDE DEF i
  <2>3. QED
    BY <2>1, <2>2, JobField
<1>9. ASSUME NEW s \in [Files -> Contents], NEW p \in Phases
      PROVE  [j EXCEPT !.seen = s, !.pc = p] \in JobType
  <2> DEFINE i == [j EXCEPT !.seen = s]
  <2>1. i \in JobType
    BY JobField
  <2>2. [j EXCEPT !.seen = s, !.pc = p] = [i EXCEPT !.pc = p]
    OBVIOUS
  <2> HIDE DEF i
  <2>3. QED
    BY <2>1, <2>2, JobField
<1>10. ASSUME NEW n \in Nat, NEW S \in SUBSET Files
      PROVE  [j EXCEPT !.k = n, !.existed = S] \in JobType
  <2> DEFINE i == [j EXCEPT !.k = n]
  <2>1. i \in JobType
    BY JobField
  <2>2. [j EXCEPT !.k = n, !.existed = S] = [i EXCEPT !.existed = S]
    OBVIOUS
  <2> HIDE DEF i
  <2>3. QED
    BY <2>1, <2>2, JobField
<1>11. ASSUME NEW n \in Nat, NEW S \in SUBSET Files
      PROVE  [j EXCEPT !.k = n, !.moved = S] \in JobType
  <2> DEFINE i == [j EXCEPT !.k = n]
  <2>1. i \in JobType
    BY JobField
  <2>2. [j EXCEPT !.k = n, !.moved = S] = [i EXCEPT !.moved = S]
    OBVIOUS
  <2> HIDE DEF i
  <2>3. QED
    BY <2>1, <2>2, JobField
<1>12. QED
  BY <1>1, <1>2, <1>3, <1>4, <1>5, <1>6, <1>7, <1>8, <1>9, <1>10, <1>11

\* What no step of a process changes, and what it may.
Frame(t) ==
  /\ UNCHANGED <<plan, windows, touched>>
  /\ \A u \in Txns \ {t} :
       /\ job'[u] = job[u] /\ stage'[u] = stage[u]
       /\ backup'[u] = backup[u] /\ journal'[u] = journal[u]
  /\ \A f \in Files : disk'[f] = disk[f] \/ f \in job[t].held
  /\ troubles' \in 0..MaxTroubles

\* A step of a process leaves the other processes alone, and every file it
\* has not locked.
LEMMA Framed ==
  ASSUME TypeOK, NEW t \in Txns, HeldInOrder(t), IndexInRange(t), Step(t) \/ Crash(t)
  PROVE  Frame(t)
<1>1. UNCHANGED <<plan, windows, touched>>
  BY DEF Step, Crash, Observe, Lock, Verify, Reverify, Compare, Stage, Check, Clean,
    WriteJournal, Backup, Rename, Sweep, RemoveReplacement, RestoreOriginal,
    FinishRollback, Drop, Rest
<1>2. ASSUME NEW u \in Txns \ {t}
      PROVE  job'[u] = job[u]
  BY DEF TypeOK, Step, Crash, Observe, Lock, Verify, Reverify, Compare, Stage, Check,
    Clean, WriteJournal, Backup, Rename, Sweep, RemoveReplacement, RestoreOriginal,
    FinishRollback, Drop, Give, LeaveFile
<1>3. ASSUME NEW u \in Txns \ {t}
      PROVE  stage'[u] = stage[u] /\ backup'[u] = backup[u] /\ journal'[u] = journal[u]
  BY DEF TypeOK, Step, Crash, Observe, Lock, Verify, Reverify, Compare, Stage, Check,
    Clean, WriteJournal, Backup, Rename, Sweep, RemoveReplacement, RestoreOriginal,
    FinishRollback, Drop, LeaveFile, sidecars
<1>4. troubles' = troubles \/ Trouble
  BY DEF Step, Crash, Observe, Lock, Verify, Reverify, Compare, Stage, Check, Clean,
    WriteJournal, Backup, Rename, Sweep, RemoveReplacement, RestoreOriginal,
    FinishRollback, Drop, Works
<1>5. troubles' \in 0..MaxTroubles
  BY <1>4, EditAssumption DEF TypeOK, Trouble
<1>6. \/ disk' = disk
      \/ /\ job[t].pc \in {"publish", "rollback"} /\ job[t].k \in 1..Len(Edits(t))
         /\ \A f \in Files : disk'[f] = disk[f] \/ f = Current(t)
  <2>1. CASE Backup(t)
    BY <2>1 DEF TypeOK, IndexInRange, At, Backup
  <2>2. CASE Rename(t)
    BY <2>2 DEF TypeOK, IndexInRange, At, Rename
  <2>3. ASSUME RemoveReplacement(t) \/ RestoreOriginal(t)
        PROVE  /\ job[t].pc = "rollback" /\ job[t].k > 0
               /\ \A f \in Files : disk'[f] = disk[f] \/ f = Current(t)
    BY <2>3 DEF TypeOK, At, RemoveReplacement, RestoreOriginal
  <2>4. CASE RemoveReplacement(t) \/ RestoreOriginal(t)
    <3>1. job[t].k \in 0..Len(Edits(t)) /\ Len(Edits(t)) \in Nat
      BY <2>3, <2>4, PlanShape DEF TypeOK, IndexInRange
    <3>2. QED
      BY <2>3, <2>4, <3>1
  <2>5. CASE ~(Backup(t) \/ Rename(t) \/ RemoveReplacement(t) \/ RestoreOriginal(t))
    BY <2>5 DEF Step, Crash, Observe, Lock, Verify, Reverify, Compare, Stage, Check,
      Clean, WriteJournal, Sweep, FinishRollback, Drop
  <2>6. QED
    BY <2>1, <2>2, <2>4, <2>5
<1>7. job[t].pc \in {"publish", "rollback"} /\ job[t].k \in 1..Len(Edits(t))
        => Current(t) \in job[t].held
  BY PlanShape DEF TypeOK, HeldInOrder, Working, Phases, Current
<1>8. QED
  BY <1>1, <1>2, <1>3, <1>5, <1>6, <1>7 DEF Frame

\* The lists of a plan are the same after a step.
LEMMA Carried ==
  ASSUME NEW t \in Txns, plan' = plan
  PROVE  /\ Edits(t)' = Edits(t) /\ Expected(t)' = Expected(t) /\ Dests(t)' = Dests(t)
         /\ \A n : Done(t, n)' = Done(t, n) /\ Compared(t, n)' = Compared(t, n)
BY DEF Edits, Expected, Dests, Done, Compared

\* A transaction that gives up before it has published anything.
Exits(t, pc, outcome) ==
  /\ job[t].pc \in {"lock", "verify", "stage", "check", "reverify", "journal"}
  /\ outcome \in {"refused", "stale", "failed"}
  /\ pc \in {"drop", "clean"}
  /\ outcome = "refused" => job[t].pc = "lock" /\ pc = "drop"
  /\ pc = "clean" => job[t].pc # "lock"
  /\ disk' = disk /\ backup' = backup
  /\ \E a \in Nat : /\ job' = [job EXCEPT ![t] = [job[t] EXCEPT !.pc = pc, !.outcome = outcome, !.at = a]]
                    /\ outcome = "refused" => \A g \in job[t].held : g < a

\* Giving up keeps what is known of the transaction.
LEMMA ExitLocal ==
  ASSUME TypeOK, NEW t \in Txns, Local(t), Frame(t),
         NEW pc, NEW outcome, Exits(t, pc, outcome),
         lock' \in [Files -> Txns \cup {NoOne}],
         stage' \in [Txns -> SUBSET Files], stage'[t] \subseteq Dests(t),
         journal' \in [Txns -> {"none", "whole", "torn"}]
  PROVE  TypeOK' /\ Local(t)'
<1>1. /\ plan' = plan /\ touched' = touched /\ windows' = windows
      /\ Edits(t)' = Edits(t) /\ Expected(t)' = Expected(t) /\ Dests(t)' = Dests(t)
      /\ \A n : Done(t, n)' = Done(t, n) /\ Compared(t, n)' = Compared(t, n)
  BY Carried DEF Frame
<1>2. job[t] \in JobType /\ plan \in Plans
  BY DEF TypeOK
<1>3. PICK a \in Nat :
        /\ job' = [job EXCEPT ![t] = [job[t] EXCEPT !.pc = pc, !.outcome = outcome, !.at = a]]
        /\ outcome = "refused" => \A g \in job[t].held : g < a
  BY DEF Exits
<1>4. [job[t] EXCEPT !.pc = pc, !.outcome = outcome, !.at = a] \in JobType
  BY <1>2, JobFields DEF Exits, Phases, Outcomes
<1>5. /\ job'[t].pc = pc /\ job'[t].outcome = outcome /\ job'[t].at = a
      /\ job'[t].k = job[t].k /\ job'[t].seen = job[t].seen /\ job'[t].held = job[t].held
      /\ job'[t].existed = job[t].existed /\ job'[t].ready = job[t].ready
      /\ job'[t].moved = job[t].moved /\ job'[t].failed = job[t].failed
  BY <1>3, <1>4 DEF TypeOK, JobType
<1>6. TypeOK'
  BY <1>1, <1>3, <1>4 DEF TypeOK, Frame, Exits
<1>7. /\ job[t].ready = {} /\ job[t].moved = {} /\ ~job[t].failed /\ NoBackup(t)
      /\ job[t].outcome = "none" /\ job[t].outcome \notin {"ok", "unswept", "restored", "rollbackFailed"}
  BY DEF Local, Published, Unpublished, OutcomeIsLast, Exits
<1>8. IndexInRange(t)' /\ OutcomeIsLast(t)'
  BY <1>5 DEF Exits, IndexInRange, OutcomeIsLast
<1>9. HeldInOrder(t)'
  BY <1>1, <1>3, <1>5 DEF Exits, Local, HeldInOrder, Working, Phases
<1>10. Staged(t)' /\ Published(t)'
  BY <1>1, <1>5, <1>7 DEF Exits, Local, Staged, Published, NoBackup
<1>11. Settled(t)' /\ RolledBack(t)'
  BY <1>5 DEF Exits, Settled, RolledBack
<1>12. ASSUME NEW f \in job[t].held, touched[t][f] = "no"
       PROVE  Untouched(t, f)'
  <2>1. Untouched(t, f)
    BY <1>12 DEF Local, Contained
  <2>2. ~InPlace(t, f)' /\ ~Sampled(t, f)' /\ ~BackedUp(t, f)' /\ job'[t].pc \notin {"publish", "sweep", "rollback"}
    BY <1>5 DEF Exits, InPlace, Sampled, BackedUp
  <2>3. f \in job[t].existed => disk[f] = job[t].seen[f]
    <3>1. ~Decided(t)
      BY <1>2, <1>7, PlanShape DEF Decided
    <3>2. f \in Files /\ job[t].seen[f] # NoOne
      BY <1>2, MarksAreNoContent DEF JobType
    <3>3. QED
      BY <2>1, <1>7, <3>1, <3>2 DEF Untouched, NoBackup
  <2>4. QED
    BY <2>1, <2>2, <2>3, <1>5 DEF Untouched, Exits
<1>13. Contained(t)'
  BY <1>1, <1>5, <1>12 DEF Contained, Rechecks, Exits
<1>14. QED
  BY <1>6, <1>8, <1>9, <1>10, <1>11, <1>13 DEF Local

\* A failure before anything is published is such an exit.
LEMMA GiveExits ==
  ASSUME NEW t \in Txns, job[t] \in JobType, NEW pc \in {"drop", "clean"},
         NEW outcome \in {"stale", "failed"}, Give(t, pc, outcome),
         job[t].pc \in {"lock", "verify", "stage", "check", "reverify", "journal"},
         pc = "clean" => job[t].pc # "lock", disk' = disk, backup' = backup
  PROVE  Exits(t, pc, outcome)
<1>1. job' = [job EXCEPT ![t] = [job[t] EXCEPT !.pc = pc, !.outcome = outcome]]
  BY DEF Give
<1>2. /\ job[t].at \in Nat
      /\ [job[t] EXCEPT !.pc = pc, !.outcome = outcome]
           = [job[t] EXCEPT !.pc = pc, !.outcome = outcome, !.at = job[t].at]
  BY DEF JobType
<1>3. QED
  BY <1>1, <1>2 DEF Exits

\* Observing the files.
LEMMA ObserveLocal ==
  ASSUME TypeOK, NEW t \in Txns, Local(t), Observe(t), Frame(t)
  PROVE  TypeOK' /\ Local(t)'
<1>1. /\ plan' = plan /\ touched' = touched /\ windows' = windows
      /\ Edits(t)' = Edits(t) /\ Expected(t)' = Expected(t) /\ Dests(t)' = Dests(t)
      /\ \A n : Done(t, n)' = Done(t, n) /\ Compared(t, n)' = Compared(t, n)
  BY Carried DEF Frame
<1>2. /\ job[t] \in JobType /\ plan \in Plans
      /\ job[t].k \in Nat /\ job[t].held \in SUBSET Files /\ job[t].existed \in SUBSET Files
      /\ job[t].ready \in SUBSET Files /\ job[t].moved \in SUBSET Files
      /\ job[t].failed \in BOOLEAN
  BY DEF TypeOK, JobType
<1>3. CASE Observe(t)
  <2>0. disk \in [Files -> Contents]
    BY DEF TypeOK
  <2>1. /\ job' = [job EXCEPT ![t] = [job[t] EXCEPT !.seen = disk, !.pc = "lock"]]
        /\ job[t].pc = "observe"
        /\ disk' = disk /\ lock' = lock /\ stage' = stage
        /\ backup' = backup /\ journal' = journal
    BY <1>3 DEF Observe, At, sidecars
  <2>2. job[t] \in JobType /\ [job[t] EXCEPT !.seen = disk, !.pc = "lock"] \in JobType
    BY <1>2, JobField, JobFields, <2>0 DEF Phases, Outcomes
  <2>3. /\ job'[t].pc = "lock"
        /\ job'[t].k = job[t].k
        /\ job'[t].seen = disk
        /\ job'[t].held = job[t].held
        /\ job'[t].existed = job[t].existed
        /\ job'[t].ready = job[t].ready
        /\ job'[t].moved = job[t].moved
        /\ job'[t].failed = job[t].failed
        /\ job'[t].outcome = job[t].outcome
        /\ job'[t].at = job[t].at
    BY <2>1, <2>2 DEF TypeOK, JobType
  <2>4. TypeOK'
    BY <2>1, <2>2, <1>1 DEF TypeOK, Frame
  <2>5. IndexInRange(t)'
    BY <1>3, <2>1, <2>3, <1>1, <1>2 DEF Local, IndexInRange
  <2>6. HeldInOrder(t)'
    BY <1>3, <2>1, <2>3, <1>1, <1>2 DEF Local, HeldInOrder, Working, Phases
  <2>7. OutcomeIsLast(t)'
    BY <1>3, <2>1, <2>3, <1>1, <1>2 DEF Local, OutcomeIsLast
  <2>8. Staged(t)'
    BY <1>3, <2>1, <2>3, <1>1, <1>2 DEF Local, Staged, Published
  <2>9. Published(t)'
    BY <1>3, <2>1, <2>3, <1>1, <1>2 DEF Local, Published, Staged, Unpublished, NoBackup
  <2>10. Settled(t)'
    BY <1>3, <2>1, <2>3, <1>1, <1>2 DEF Local, Settled, Published, NoBackup
  <2>11. RolledBack(t)'
    BY <1>3, <2>1, <2>3, <1>1, <1>2 DEF Local, RolledBack, Published, NoBackup
  <2>12. Contained(t)'
    BY <1>3, <2>1, <2>3, <1>1, <1>2 DEF Local, HeldInOrder, Contained, Untouched,
      Rechecks, Trusted, InPlace, Sampled, BackedUp, Decided
  <2>13. QED
    BY <2>4, <2>5, <2>6, <2>7, <2>8, <2>9, <2>10, <2>11, <2>12 DEF Local
<1>4. QED
  BY <1>3

\* Acquiring the next lock, or giving up.
LEMMA LockLocal ==
  ASSUME TypeOK, NEW t \in Txns, Local(t), Lock(t), Frame(t)
  PROVE  TypeOK' /\ Local(t)'
<1>1. /\ plan' = plan /\ touched' = touched /\ windows' = windows
      /\ Edits(t)' = Edits(t) /\ Expected(t)' = Expected(t) /\ Dests(t)' = Dests(t)
      /\ \A n : Done(t, n)' = Done(t, n) /\ Compared(t, n)' = Compared(t, n)
  BY Carried DEF Frame
<1>2. /\ job[t] \in JobType /\ plan \in Plans
      /\ job[t].k \in Nat /\ job[t].held \in SUBSET Files /\ job[t].existed \in SUBSET Files
      /\ job[t].ready \in SUBSET Files /\ job[t].moved \in SUBSET Files
      /\ job[t].failed \in BOOLEAN
  BY DEF TypeOK, JobType
<1>3. job[t].pc = "lock" /\ disk' = disk /\ UNCHANGED sidecars
  BY DEF Lock, At
<1>4. PICK f \in Dests(t) \ job[t].held :
        /\ \A g \in Dests(t) \ job[t].held : f <= g
        /\ \/ /\ lock[f] = NoOne
              /\ lock' = [lock EXCEPT ![f] = t]
              /\ job' = [job EXCEPT ![t].held = @ \cup {f},
                           ![t].pc = IF Dests(t) = job[t].held \cup {f} THEN "verify" ELSE @]
           \/ /\ lock[f] # NoOne /\ UNCHANGED lock
              /\ job' = [job EXCEPT ![t].pc = "drop", ![t].outcome = "refused", ![t].at = f]
           \/ Trouble /\ Give(t, "drop", "failed") /\ UNCHANGED lock
  BY DEF Lock
<1>5. /\ f \in Files /\ Files \subseteq Nat /\ lock \in [Files -> Txns \cup {NoOne}]
      /\ stage \in [Txns -> SUBSET Files] /\ journal \in [Txns -> {"none", "whole", "torn"}]
      /\ stage[t] \subseteq Dests(t)
  BY <1>2, PlanShape, EditAssumption DEF TypeOK, Local, Staged
<1>6. CASE /\ lock' = [lock EXCEPT ![f] = t]
           /\ job' = [job EXCEPT ![t].held = @ \cup {f},
                        ![t].pc = IF Dests(t) = job[t].held \cup {f} THEN "verify" ELSE @]
  <2> DEFINE p == IF Dests(t) = job[t].held \cup {f} THEN "verify" ELSE "lock"
  <2>0. /\ p \in {"verify", "lock"} /\ job[t].held \cup {f} \in SUBSET Files
        /\ p = "verify" <=> Dests(t) = job[t].held \cup {f}
    BY <1>2, <1>5
  <2>1. /\ job' = [job EXCEPT ![t] = [job[t] EXCEPT !.held = job[t].held \cup {f}, !.pc = p]]
        /\ disk' = disk /\ stage' = stage
        /\ backup' = backup /\ journal' = journal
    BY <1>6, <1>3 DEF sidecars
  <2> HIDE DEF p
  <2>2. job[t] \in JobType /\ [job[t] EXCEPT !.held = job[t].held \cup {f}, !.pc = p] \in JobType
    BY <1>2, JobField, JobFields, <2>0 DEF Phases, Outcomes
  <2>3. /\ job'[t].pc = p
        /\ job'[t].k = job[t].k
        /\ job'[t].seen = job[t].seen
        /\ job'[t].held = job[t].held \cup {f}
        /\ job'[t].existed = job[t].existed
        /\ job'[t].ready = job[t].ready
        /\ job'[t].moved = job[t].moved
        /\ job'[t].failed = job[t].failed
        /\ job'[t].outcome = job[t].outcome
        /\ job'[t].at = job[t].at
    BY <2>1, <2>2 DEF TypeOK, JobType
  <2>4. TypeOK'
    BY <2>1, <2>2, <1>1, <1>5, <1>6 DEF TypeOK, Frame, sidecars
  <2>5. IndexInRange(t)'
    BY <1>2, <1>3, <2>0, <2>3, <1>1, PlanShape DEF Local, IndexInRange
  <2>6. HeldInOrder(t)'
    BY <1>2, <1>3, <1>4, <1>5, <2>0, <2>1, <2>3, <1>1, PlanShape DEF Local, HeldInOrder,
      OutcomeIsLast, Working, Phases
  <2>7. OutcomeIsLast(t)'
    BY <1>6, <2>1, <2>3, <1>1, <1>2, <1>3, <2>0 DEF Local, OutcomeIsLast
  <2>8. Staged(t)'
    BY <1>6, <2>1, <2>3, <1>1, <1>2, <1>3, <2>0 DEF Local, Staged, Published
  <2>9. Published(t)'
    BY <1>6, <2>1, <2>3, <1>1, <1>2, <1>3, <2>0 DEF Local, Published, Staged,
      Unpublished, NoBackup
  <2>10. Settled(t)'
    BY <1>6, <2>1, <2>3, <1>1, <1>2, <1>3, <2>0 DEF Local, Settled, Published, NoBackup
  <2>11. RolledBack(t)'
    BY <1>6, <2>1, <2>3, <1>1, <1>2, <1>3, <2>0 DEF Local, RolledBack, Published, NoBackup
  <2>12. Contained(t)'
    BY <1>2, <1>3, <2>0, <2>1, <2>3, <1>1, PlanShape DEF Local, IndexInRange, Staged,
      Published, Unpublished, Contained, Untouched, Rechecks, Trusted, InPlace, Sampled,
      BackedUp
  <2>13. QED
    BY <2>4, <2>5, <2>6, <2>7, <2>8, <2>9, <2>10, <2>11, <2>12 DEF Local
<1>7. CASE /\ lock[f] # NoOne /\ UNCHANGED lock
           /\ job' = [job EXCEPT ![t].pc = "drop", ![t].outcome = "refused", ![t].at = f]
  <2>1. job' = [job EXCEPT ![t] = [job[t] EXCEPT !.pc = "drop", !.outcome = "refused", !.at = f]]
    BY <1>7
  <2>2. \A g \in job[t].held : g < f
    BY <1>3, <1>4 DEF Local, HeldInOrder
  <2>3. Exits(t, "drop", "refused")
    BY <1>3, <1>5, <2>1, <2>2 DEF Exits, sidecars
  <2>4. QED
    BY <2>3, <1>3, <1>5, <1>7, ExitLocal DEF sidecars
<1>8. CASE Give(t, "drop", "failed") /\ UNCHANGED lock
  <2>1. Exits(t, "drop", "failed")
    BY <1>2, <1>3, <1>8, GiveExits DEF sidecars
  <2>2. QED
    BY <2>1, <1>3, <1>5, <1>8, ExitLocal DEF sidecars
<1>9. QED
  BY <1>4, <1>6, <1>7, <1>8

\* Comparing the expected paths before anything is staged.
LEMMA VerifyLocal ==
  ASSUME TypeOK, NEW t \in Txns, Local(t), Verify(t), Frame(t)
  PROVE  TypeOK' /\ Local(t)'
<1>1. /\ plan' = plan /\ touched' = touched /\ windows' = windows
      /\ Edits(t)' = Edits(t) /\ Expected(t)' = Expected(t) /\ Dests(t)' = Dests(t)
      /\ \A n : Done(t, n)' = Done(t, n) /\ Compared(t, n)' = Compared(t, n)
  BY Carried DEF Frame
<1>2. /\ job[t] \in JobType /\ plan \in Plans
      /\ job[t].k \in Nat /\ job[t].held \in SUBSET Files /\ job[t].existed \in SUBSET Files
      /\ job[t].ready \in SUBSET Files /\ job[t].moved \in SUBSET Files
      /\ job[t].failed \in BOOLEAN
  BY DEF TypeOK, JobType
<1>3. /\ job[t].pc = "verify" /\ disk' = disk /\ lock' = lock /\ UNCHANGED sidecars
      /\ \/ /\ disk[Expected(t)[job[t].k]] = job[t].seen[Expected(t)[job[t].k]]
            /\ job' = [job EXCEPT ![t] = Advance(t, Len(Expected(t)), "stage")]
         \/ Give(t, "drop", "stale") \/ Give(t, "drop", "failed")
  BY DEF Verify, Compare, At
<1>4. /\ job[t].k \in 1..Len(Expected(t)) /\ job[t].k + 1 \in Nat /\ Len(Expected(t)) \in Nat \ {0}
      /\ lock \in [Files -> Txns \cup {NoOne}]
      /\ stage \in [Txns -> SUBSET Files] /\ journal \in [Txns -> {"none", "whole", "torn"}]
      /\ stage[t] \subseteq Dests(t)
  BY <1>2, <1>3, PlanShape DEF TypeOK, Local, Staged, IndexInRange
<1>5. Compared(t, job[t].k) = Compared(t, job[t].k - 1) \cup {Expected(t)[job[t].k]}
  BY <1>2, <1>4, ComparedSteps
<1>6. CASE /\ disk[Expected(t)[job[t].k]] = job[t].seen[Expected(t)[job[t].k]]
           /\ job[t].k < Len(Expected(t))
           /\ job' = [job EXCEPT ![t] = Advance(t, Len(Expected(t)), "stage")]
  <2>1. /\ job' = [job EXCEPT ![t] = [job[t] EXCEPT !.k = job[t].k + 1]]
        /\ disk' = disk /\ stage' = stage
        /\ backup' = backup /\ journal' = journal
    BY <1>6, <1>3 DEF Advance, sidecars
  <2>2. job[t] \in JobType /\ [job[t] EXCEPT !.k = job[t].k + 1] \in JobType
    BY <1>2, JobField, JobFields, <1>4 DEF Phases, Outcomes
  <2>3. /\ job'[t].pc = job[t].pc
        /\ job'[t].k = job[t].k + 1
        /\ job'[t].seen = job[t].seen
        /\ job'[t].held = job[t].held
        /\ job'[t].existed = job[t].existed
        /\ job'[t].ready = job[t].ready
        /\ job'[t].moved = job[t].moved
        /\ job'[t].failed = job[t].failed
        /\ job'[t].outcome = job[t].outcome
        /\ job'[t].at = job[t].at
    BY <2>1, <2>2 DEF TypeOK, JobType
  <2>4. TypeOK'
    BY <2>1, <2>2, <1>1, <1>3 DEF TypeOK, Frame
  <2>5. IndexInRange(t)'
    BY <1>6, <2>1, <2>3, <1>1, <1>2, <1>3, <1>4 DEF Local, IndexInRange
  <2>6. HeldInOrder(t)'
    BY <1>6, <2>1, <2>3, <1>1, <1>2, <1>3, <1>4 DEF Local, HeldInOrder, Working, Phases
  <2>7. OutcomeIsLast(t)'
    BY <1>6, <2>1, <2>3, <1>1, <1>2, <1>3, <1>4 DEF Local, OutcomeIsLast
  <2>8. Staged(t)'
    BY <1>6, <2>1, <2>3, <1>1, <1>2, <1>3, <1>4 DEF Local, Staged, Published
  <2>9. Published(t)'
    BY <1>6, <2>1, <2>3, <1>1, <1>2, <1>3, <1>4 DEF Local, Published, Staged,
      Unpublished, NoBackup
  <2>10. Settled(t)'
    BY <1>6, <2>1, <2>3, <1>1, <1>2, <1>3, <1>4 DEF Local, Settled, Published, NoBackup
  <2>11. RolledBack(t)'
    BY <1>6, <2>1, <2>3, <1>1, <1>2, <1>3, <1>4 DEF Local, RolledBack, Published, NoBackup
  <2>12. Contained(t)'
    BY <1>1, <1>3, <1>4, <1>5, <1>6, <2>1, <2>3 DEF Local, Contained, Untouched,
      Rechecks, InPlace, Sampled, BackedUp, Decided
  <2>13. QED
    BY <2>4, <2>5, <2>6, <2>7, <2>8, <2>9, <2>10, <2>11, <2>12 DEF Local
<1>7. CASE /\ disk[Expected(t)[job[t].k]] = job[t].seen[Expected(t)[job[t].k]]
           /\ job[t].k = Len(Expected(t))
           /\ job' = [job EXCEPT ![t] = Advance(t, Len(Expected(t)), "stage")]
  <2>0. /\ ~(job[t].k < Len(Expected(t))) /\ Done(t, 0) = {}
        /\ \A f \in job[t].held : f \in Compared(t, job[t].k - 1) \/ disk[f] = job[t].seen[f]
    BY <1>2, <1>3, <1>4, <1>5, <1>7, PlanShape DEF Local, HeldInOrder
  <2>1. /\ job' = [job EXCEPT ![t] = [job[t] EXCEPT !.k = 1, !.pc = "stage"]]
        /\ disk' = disk /\ stage' = stage
        /\ backup' = backup /\ journal' = journal
    BY <1>7, <1>3, <2>0 DEF Advance, sidecars
  <2>2. job[t] \in JobType /\ [job[t] EXCEPT !.k = 1, !.pc = "stage"] \in JobType
    BY <1>2, JobField, JobFields DEF Phases, Outcomes
  <2>3. /\ job'[t].pc = "stage"
        /\ job'[t].k = 1
        /\ job'[t].seen = job[t].seen
        /\ job'[t].held = job[t].held
        /\ job'[t].existed = job[t].existed
        /\ job'[t].ready = job[t].ready
        /\ job'[t].moved = job[t].moved
        /\ job'[t].failed = job[t].failed
        /\ job'[t].outcome = job[t].outcome
        /\ job'[t].at = job[t].at
    BY <2>1, <2>2 DEF TypeOK, JobType
  <2>4. TypeOK'
    BY <2>1, <2>2, <1>1, <1>3 DEF TypeOK, Frame
  <2>5. IndexInRange(t)'
    BY <1>2, <1>1, <2>3, PlanShape DEF IndexInRange
  <2>6. HeldInOrder(t)'
    BY <1>7, <2>1, <2>3, <1>1, <1>2, <1>3, <1>4 DEF Local, HeldInOrder, Working, Phases
  <2>7. OutcomeIsLast(t)'
    BY <1>7, <2>1, <2>3, <1>1, <1>2, <1>3, <1>4 DEF Local, OutcomeIsLast
  <2>8. Staged(t)'
    BY <1>1, <1>2, <1>3, <2>1, <2>3, PlanShape DEF Local, Staged, Published
  <2>9. Published(t)'
    BY <1>7, <2>1, <2>3, <1>1, <1>2, <1>3, <1>4 DEF Local, Published, Staged,
      Unpublished, NoBackup
  <2>10. Settled(t)'
    BY <1>7, <2>1, <2>3, <1>1, <1>2, <1>3, <1>4 DEF Local, Settled, Published, NoBackup
  <2>11. RolledBack(t)'
    BY <1>7, <2>1, <2>3, <1>1, <1>2, <1>3, <1>4 DEF Local, RolledBack, Published, NoBackup
  <2>12. Contained(t)'
    BY <1>1, <1>3, <2>0, <2>1, <2>3 DEF Local, HeldInOrder, Staged, Contained,
      Untouched, Rechecks, InPlace, Sampled, BackedUp
  <2>13. QED
    BY <2>4, <2>5, <2>6, <2>7, <2>8, <2>9, <2>10, <2>11, <2>12 DEF Local
<1>8. CASE Give(t, "drop", "stale") \/ Give(t, "drop", "failed")
  <2>1. Exits(t, "drop", "stale") \/ Exits(t, "drop", "failed")
    BY <1>2, <1>3, <1>8, GiveExits DEF sidecars
  <2>2. QED
    BY <2>1, <1>3, <1>4, ExitLocal DEF sidecars
<1>9. QED
  BY <1>3, <1>4, <1>6, <1>7, <1>8

\* Comparing them again after staging.
LEMMA ReverifyLocal ==
  ASSUME TypeOK, NEW t \in Txns, Local(t), Reverify(t), Frame(t)
  PROVE  TypeOK' /\ Local(t)'
<1>1. /\ plan' = plan /\ touched' = touched /\ windows' = windows
      /\ Edits(t)' = Edits(t) /\ Expected(t)' = Expected(t) /\ Dests(t)' = Dests(t)
      /\ \A n : Done(t, n)' = Done(t, n) /\ Compared(t, n)' = Compared(t, n)
  BY Carried DEF Frame
<1>2. /\ job[t] \in JobType /\ plan \in Plans
      /\ job[t].k \in Nat /\ job[t].held \in SUBSET Files /\ job[t].existed \in SUBSET Files
      /\ job[t].ready \in SUBSET Files /\ job[t].moved \in SUBSET Files
      /\ job[t].failed \in BOOLEAN
  BY DEF TypeOK, JobType
<1>3. /\ job[t].pc = "reverify" /\ disk' = disk /\ lock' = lock /\ UNCHANGED sidecars
      /\ \/ /\ disk[Expected(t)[job[t].k]] = job[t].seen[Expected(t)[job[t].k]]
            /\ job' = [job EXCEPT ![t] = Advance(t, Len(Expected(t)), "journal")]
         \/ Give(t, "clean", "stale") \/ Give(t, "clean", "failed")
  BY DEF Reverify, Compare, At
<1>4. /\ job[t].k \in 1..Len(Expected(t)) /\ job[t].k + 1 \in Nat /\ Len(Expected(t)) \in Nat \ {0}
      /\ lock \in [Files -> Txns \cup {NoOne}]
      /\ stage \in [Txns -> SUBSET Files] /\ journal \in [Txns -> {"none", "whole", "torn"}]
      /\ stage[t] \subseteq Dests(t)
  BY <1>2, <1>3, PlanShape DEF TypeOK, Local, Staged, IndexInRange
<1>5. Compared(t, job[t].k) = Compared(t, job[t].k - 1) \cup {Expected(t)[job[t].k]}
  BY <1>2, <1>4, ComparedSteps
<1>6. CASE /\ disk[Expected(t)[job[t].k]] = job[t].seen[Expected(t)[job[t].k]]
           /\ job[t].k < Len(Expected(t))
           /\ job' = [job EXCEPT ![t] = Advance(t, Len(Expected(t)), "journal")]
  <2>1. /\ job' = [job EXCEPT ![t] = [job[t] EXCEPT !.k = job[t].k + 1]]
        /\ disk' = disk /\ stage' = stage
        /\ backup' = backup /\ journal' = journal
    BY <1>6, <1>3 DEF Advance, sidecars
  <2>2. job[t] \in JobType /\ [job[t] EXCEPT !.k = job[t].k + 1] \in JobType
    BY <1>2, JobField, JobFields, <1>4 DEF Phases, Outcomes
  <2>3. /\ job'[t].pc = job[t].pc
        /\ job'[t].k = job[t].k + 1
        /\ job'[t].seen = job[t].seen
        /\ job'[t].held = job[t].held
        /\ job'[t].existed = job[t].existed
        /\ job'[t].ready = job[t].ready
        /\ job'[t].moved = job[t].moved
        /\ job'[t].failed = job[t].failed
        /\ job'[t].outcome = job[t].outcome
        /\ job'[t].at = job[t].at
    BY <2>1, <2>2 DEF TypeOK, JobType
  <2>4. TypeOK'
    BY <2>1, <2>2, <1>1, <1>3 DEF TypeOK, Frame
  <2>5. IndexInRange(t)'
    BY <1>6, <2>1, <2>3, <1>1, <1>2, <1>3, <1>4 DEF Local, IndexInRange
  <2>6. HeldInOrder(t)'
    BY <1>6, <2>1, <2>3, <1>1, <1>2, <1>3, <1>4 DEF Local, HeldInOrder, Working, Phases
  <2>7. OutcomeIsLast(t)'
    BY <1>6, <2>1, <2>3, <1>1, <1>2, <1>3, <1>4 DEF Local, OutcomeIsLast
  <2>8. Staged(t)'
    BY <1>6, <2>1, <2>3, <1>1, <1>2, <1>3, <1>4 DEF Local, Staged, Published
  <2>9. Published(t)'
    BY <1>6, <2>1, <2>3, <1>1, <1>2, <1>3, <1>4 DEF Local, Published, Staged,
      Unpublished, NoBackup
  <2>10. Settled(t)'
    BY <1>6, <2>1, <2>3, <1>1, <1>2, <1>3, <1>4 DEF Local, Settled, Published, NoBackup
  <2>11. RolledBack(t)'
    BY <1>6, <2>1, <2>3, <1>1, <1>2, <1>3, <1>4 DEF Local, RolledBack, Published, NoBackup
  <2>12. Contained(t)'
    BY <1>1, <1>3, <1>4, <1>5, <1>6, <2>1, <2>3 DEF Local, Published, Unpublished,
      Contained, Untouched, Rechecks, Trusted, InPlace, Sampled, BackedUp, Decided
  <2>13. QED
    BY <2>4, <2>5, <2>6, <2>7, <2>8, <2>9, <2>10, <2>11, <2>12 DEF Local
<1>7. CASE /\ disk[Expected(t)[job[t].k]] = job[t].seen[Expected(t)[job[t].k]]
           /\ job[t].k = Len(Expected(t))
           /\ job' = [job EXCEPT ![t] = Advance(t, Len(Expected(t)), "journal")]
  <2>0. /\ ~(job[t].k < Len(Expected(t))) /\ Done(t, 0) = {}
        /\ \A f \in job[t].held : f \in Compared(t, job[t].k - 1) \/ disk[f] = job[t].seen[f]
    BY <1>2, <1>3, <1>4, <1>5, <1>7, PlanShape DEF Local, HeldInOrder
  <2>1. /\ job' = [job EXCEPT ![t] = [job[t] EXCEPT !.k = 1, !.pc = "journal"]]
        /\ disk' = disk /\ stage' = stage
        /\ backup' = backup /\ journal' = journal
    BY <1>7, <1>3, <2>0 DEF Advance, sidecars
  <2>2. job[t] \in JobType /\ [job[t] EXCEPT !.k = 1, !.pc = "journal"] \in JobType
    BY <1>2, JobField, JobFields DEF Phases, Outcomes
  <2>3. /\ job'[t].pc = "journal"
        /\ job'[t].k = 1
        /\ job'[t].seen = job[t].seen
        /\ job'[t].held = job[t].held
        /\ job'[t].existed = job[t].existed
        /\ job'[t].ready = job[t].ready
        /\ job'[t].moved = job[t].moved
        /\ job'[t].failed = job[t].failed
        /\ job'[t].outcome = job[t].outcome
        /\ job'[t].at = job[t].at
    BY <2>1, <2>2 DEF TypeOK, JobType
  <2>4. TypeOK'
    BY <2>1, <2>2, <1>1, <1>3 DEF TypeOK, Frame
  <2>5. IndexInRange(t)'
    BY <1>7, <2>1, <2>3, <1>1, <1>2, <1>3, <1>4 DEF Local, IndexInRange
  <2>6. HeldInOrder(t)'
    BY <1>7, <2>1, <2>3, <1>1, <1>2, <1>3, <1>4 DEF Local, HeldInOrder, Working, Phases
  <2>7. OutcomeIsLast(t)'
    BY <1>7, <2>1, <2>3, <1>1, <1>2, <1>3, <1>4 DEF Local, OutcomeIsLast
  <2>8. Staged(t)'
    BY <1>7, <2>1, <2>3, <1>1, <1>2, <1>3, <1>4 DEF Local, Staged, Published
  <2>9. Published(t)'
    BY <1>7, <2>1, <2>3, <1>1, <1>2, <1>3, <1>4 DEF Local, Published, Staged,
      Unpublished, NoBackup
  <2>10. Settled(t)'
    BY <1>7, <2>1, <2>3, <1>1, <1>2, <1>3, <1>4 DEF Local, Settled, Published, NoBackup
  <2>11. RolledBack(t)'
    BY <1>7, <2>1, <2>3, <1>1, <1>2, <1>3, <1>4 DEF Local, RolledBack, Published, NoBackup
  <2>12. Contained(t)'
    BY <1>1, <1>3, <2>0, <2>1, <2>3 DEF Local, HeldInOrder, Published, Unpublished,
      Contained, Untouched, Rechecks, Trusted, InPlace, Sampled, BackedUp, Decided
  <2>13. QED
    BY <2>4, <2>5, <2>6, <2>7, <2>8, <2>9, <2>10, <2>11, <2>12 DEF Local
<1>8. CASE Give(t, "clean", "stale") \/ Give(t, "clean", "failed")
  <2>1. Exits(t, "clean", "stale") \/ Exits(t, "clean", "failed")
    BY <1>2, <1>3, <1>8, GiveExits DEF sidecars
  <2>2. QED
    BY <2>1, <1>3, <1>4, ExitLocal DEF sidecars
<1>9. QED
  BY <1>3, <1>4, <1>6, <1>7, <1>8

\* Checking the staged bytes.
LEMMA CheckLocal ==
  ASSUME TypeOK, NEW t \in Txns, Local(t), Check(t), Frame(t)
  PROVE  TypeOK' /\ Local(t)'
<1>1. /\ plan' = plan /\ touched' = touched /\ windows' = windows
      /\ Edits(t)' = Edits(t) /\ Expected(t)' = Expected(t) /\ Dests(t)' = Dests(t)
      /\ \A n : Done(t, n)' = Done(t, n) /\ Compared(t, n)' = Compared(t, n)
  BY Carried DEF Frame
<1>2. /\ job[t] \in JobType /\ plan \in Plans
      /\ job[t].k \in Nat /\ job[t].held \in SUBSET Files /\ job[t].existed \in SUBSET Files
      /\ job[t].ready \in SUBSET Files /\ job[t].moved \in SUBSET Files
      /\ job[t].failed \in BOOLEAN
  BY DEF TypeOK, JobType
<1>3. /\ job[t].pc = "check" /\ disk' = disk /\ lock' = lock /\ UNCHANGED sidecars
      /\ \/ job' = [job EXCEPT ![t].pc = "reverify"]
         \/ Give(t, "clean", "failed")
  BY DEF Check, At
<1>4. /\ lock \in [Files -> Txns \cup {NoOne}] /\ Len(Expected(t)) \in Nat \ {0}
      /\ stage \in [Txns -> SUBSET Files] /\ journal \in [Txns -> {"none", "whole", "torn"}]
      /\ stage[t] \subseteq Dests(t) /\ Compared(t, 0) = {}
  BY <1>2, PlanShape DEF TypeOK, Local, Staged
<1>5. CASE job' = [job EXCEPT ![t].pc = "reverify"]
  <2>1. /\ job' = [job EXCEPT ![t] = [job[t] EXCEPT !.pc = "reverify"]]
        /\ disk' = disk /\ stage' = stage
        /\ backup' = backup /\ journal' = journal
    BY <1>5, <1>3 DEF sidecars
  <2>2. job[t] \in JobType /\ [job[t] EXCEPT !.pc = "reverify"] \in JobType
    BY <1>2, JobField, JobFields DEF Phases, Outcomes
  <2>3. /\ job'[t].pc = "reverify"
        /\ job'[t].k = job[t].k
        /\ job'[t].seen = job[t].seen
        /\ job'[t].held = job[t].held
        /\ job'[t].existed = job[t].existed
        /\ job'[t].ready = job[t].ready
        /\ job'[t].moved = job[t].moved
        /\ job'[t].failed = job[t].failed
        /\ job'[t].outcome = job[t].outcome
        /\ job'[t].at = job[t].at
    BY <2>1, <2>2 DEF TypeOK, JobType
  <2>4. TypeOK'
    BY <2>1, <2>2, <1>1, <1>3 DEF TypeOK, Frame
  <2>5. IndexInRange(t)'
    BY <1>5, <2>1, <2>3, <1>1, <1>2, <1>3, <1>4 DEF Local, IndexInRange
  <2>6. HeldInOrder(t)'
    BY <1>5, <2>1, <2>3, <1>1, <1>2, <1>3, <1>4 DEF Local, HeldInOrder, Working, Phases
  <2>7. OutcomeIsLast(t)'
    BY <1>5, <2>1, <2>3, <1>1, <1>2, <1>3, <1>4 DEF Local, OutcomeIsLast
  <2>8. Staged(t)'
    BY <1>5, <2>1, <2>3, <1>1, <1>2, <1>3, <1>4 DEF Local, Staged, Published
  <2>9. Published(t)'
    BY <1>5, <2>1, <2>3, <1>1, <1>2, <1>3, <1>4 DEF Local, Published, Staged,
      Unpublished, NoBackup
  <2>10. Settled(t)'
    BY <1>5, <2>1, <2>3, <1>1, <1>2, <1>3, <1>4 DEF Local, Settled, Published, NoBackup
  <2>11. RolledBack(t)'
    BY <1>5, <2>1, <2>3, <1>1, <1>2, <1>3, <1>4 DEF Local, RolledBack, Published, NoBackup
  <2>12. Contained(t)'
    BY <1>1, <1>3, <1>4, <1>5, <2>1, <2>3 DEF Local, IndexInRange, Published,
      Unpublished, Contained, Untouched, Rechecks, InPlace, Sampled, BackedUp, Decided
  <2>13. QED
    BY <2>4, <2>5, <2>6, <2>7, <2>8, <2>9, <2>10, <2>11, <2>12 DEF Local
<1>6. CASE Give(t, "clean", "failed")
  <2>1. Exits(t, "clean", "failed")
    BY <1>2, <1>3, <1>6, GiveExits DEF sidecars
  <2>2. QED
    BY <2>1, <1>3, <1>4, ExitLocal DEF sidecars
<1>7. QED
  BY <1>3, <1>5, <1>6

\* Staging one edit; a destination that is not there was not there before.
LEMMA StageLocal ==
  ASSUME TypeOK, NEW t \in Txns, Local(t), Stage(t), Frame(t), \A f \in Files : job[t].seen[f] # t
  PROVE  TypeOK' /\ Local(t)'
<1>1. /\ plan' = plan /\ touched' = touched /\ windows' = windows
      /\ Edits(t)' = Edits(t) /\ Expected(t)' = Expected(t) /\ Dests(t)' = Dests(t)
      /\ \A n : Done(t, n)' = Done(t, n) /\ Compared(t, n)' = Compared(t, n)
  BY Carried DEF Frame
<1>2. /\ job[t] \in JobType /\ plan \in Plans
      /\ job[t].k \in Nat /\ job[t].held \in SUBSET Files /\ job[t].existed \in SUBSET Files
      /\ job[t].ready \in SUBSET Files /\ job[t].moved \in SUBSET Files
      /\ job[t].failed \in BOOLEAN
  BY DEF TypeOK, JobType
<1>3. /\ job[t].pc = "stage" /\ disk' = disk /\ lock' = lock
      /\ backup' = backup /\ journal' = journal
  BY DEF Stage, At
<1>4. /\ job[t].k \in 1..Len(Edits(t)) /\ job[t].k + 1 \in Nat /\ Len(Edits(t)) \in Nat \ {0}
      /\ Current(t) \in Dests(t) /\ Current(t) \in Files
      /\ Done(t, job[t].k) = Done(t, job[t].k - 1) \cup {Current(t)}
      /\ (job[t].k + 1) - 1 = job[t].k
  BY <1>2, <1>3, PlanShape, DoneSteps DEF Local, IndexInRange, Current
<1>5. /\ lock \in [Files -> Txns \cup {NoOne}]
      /\ stage \in [Txns -> SUBSET Files] /\ journal \in [Txns -> {"none", "whole", "torn"}]
      /\ stage[t] \subseteq Dests(t) /\ job[t].moved = {} /\ job[t].ready = {}
  BY <1>3 DEF TypeOK, Local, Staged, Published, Unpublished
<1> DEFINE E == IF disk[Current(t)] = Absent THEN job[t].existed
                ELSE job[t].existed \cup {Current(t)}
<1>6. /\ E \in SUBSET Files /\ E \subseteq job[t].existed \cup {Current(t)}
      /\ job[t].existed \subseteq E
      /\ Current(t) \in E => disk[Current(t)] # Absent
  <2>1. Current(t) \notin job[t].existed
    BY <1>2, <1>3, <1>4, DoneSteps DEF Local, Staged, Current
  <2>2. QED
    BY <1>2, <1>4, <2>1
<1>7. disk[Current(t)] # Absent => Current(t) \in E
  OBVIOUS
<1>8. \/ /\ stage' = [stage EXCEPT ![t] = @ \cup {Current(t)}]
         /\ job' = [job EXCEPT ![t] = [Advance(t, Len(Edits(t)), "check") EXCEPT !.existed = E]]
      \/ /\ Give(t, "drop", "failed")
         /\ \E left \in SUBSET {Current(t)} : stage' = [stage EXCEPT ![t] = left]
  <2>1. CASE /\ stage' = [stage EXCEPT ![t] = @ \cup {Current(t)}]
             /\ job' = [job EXCEPT ![t] = [Advance(t, Len(Edits(t)), "check") EXCEPT
                  !.existed = IF disk[Current(t)] = Absent THEN @ ELSE @ \cup {Current(t)}]]
    <3>1. Advance(t, Len(Edits(t)), "check").existed = job[t].existed
      BY <1>2 DEF Advance, JobType
    <3>2. QED
      BY <2>1, <3>1
  <2>2. CASE /\ Give(t, "drop", "failed")
             /\ \E left \in SUBSET {Current(t)} : stage' = [stage EXCEPT ![t] = left]
    BY <2>2
  <2>3. QED
    BY <2>1, <2>2 DEF Stage
<1> HIDE DEF E
<1>9. /\ \A f \in Files : f \in job[t].held /\ f \in E /\ touched[t][f] = "no"
            => job[t].seen[f] \notin {Absent, t}
      /\ \A f \in Files : f \in job[t].held /\ f \notin E /\ f \in Done(t, job[t].k) /\ touched[t][f] = "no"
            => job[t].seen[f] = Absent
      /\ \A f \in job[t].held : touched[t][f] = "no" => disk[f] = job[t].seen[f]
  <2>1. ASSUME NEW f \in Files, f \in job[t].held, touched[t][f] = "no"
        PROVE  /\ disk[f] = job[t].seen[f]
               /\ f \in E => job[t].seen[f] \notin {Absent, t}
               /\ f \notin E /\ f \in Done(t, job[t].k) => job[t].seen[f] = Absent
    <3>1. Untouched(t, f)
      BY <2>1 DEF Local, Contained
    <3>2. disk[f] = job[t].seen[f]
      BY <1>3, <1>5, <3>1 DEF Untouched, InPlace
    <3>3. f \in E => job[t].seen[f] \notin {Absent, t}
      BY <1>6, <3>1, <3>2 DEF Untouched
    <3>4. f \notin E /\ f \in Done(t, job[t].k) => job[t].seen[f] = Absent
      BY <1>3, <1>4, <1>6, <1>7, <3>1, <3>2 DEF Untouched, Sampled
    <3>5. QED
      BY <3>2, <3>3, <3>4
  <2>2. QED
    BY <1>2, <2>1
<1>10. CASE /\ stage' = [stage EXCEPT ![t] = @ \cup {Current(t)}]
            /\ job' = [job EXCEPT ![t] = [Advance(t, Len(Edits(t)), "check") EXCEPT !.existed = E]]
            /\ job[t].k < Len(Edits(t))
  <2>1. /\ job' = [job EXCEPT ![t] = [job[t] EXCEPT !.k = job[t].k + 1, !.existed = E]]
        /\ stage' = [stage EXCEPT ![t] = @ \cup {Current(t)}]
        /\ disk' = disk
        /\ backup' = backup /\ journal' = journal
    BY <1>10, <1>3 DEF Advance
  <2>2. job[t] \in JobType /\ [job[t] EXCEPT !.k = job[t].k + 1, !.existed = E] \in JobType
    BY <1>2, JobField, JobFields, <1>4, <1>6 DEF Phases, Outcomes
  <2>3. /\ job'[t].pc = job[t].pc
        /\ job'[t].k = job[t].k + 1
        /\ job'[t].seen = job[t].seen
        /\ job'[t].held = job[t].held
        /\ job'[t].existed = E
        /\ job'[t].ready = job[t].ready
        /\ job'[t].moved = job[t].moved
        /\ job'[t].failed = job[t].failed
        /\ job'[t].outcome = job[t].outcome
        /\ job'[t].at = job[t].at
    BY <2>1, <2>2 DEF TypeOK, JobType
  <2>4. TypeOK'
    BY <2>1, <2>2, <1>1, <1>3, <1>4 DEF TypeOK, Frame
  <2>5. IndexInRange(t)'
    BY <2>3, <1>1, <1>3, <1>4, <1>10 DEF IndexInRange
  <2>6. HeldInOrder(t)'
    BY <1>10, <2>1, <2>3, <1>1, <1>2, <1>3, <1>4 DEF Local, HeldInOrder, Working, Phases
  <2>7. OutcomeIsLast(t)'
    BY <1>10, <2>1, <2>3, <1>1, <1>2, <1>3, <1>4 DEF Local, OutcomeIsLast
  <2>8. Staged(t)'
    <3>1. Done(t, job[t].k - 1)' = Done(t, job[t].k)
      BY <1>1, <1>4, <2>3
    <3>2. E \subseteq Done(t, job[t].k) /\ E \subseteq Dests(t)
      BY <1>3, <1>4, <1>6 DEF Local, Staged
    <3>3. stage'[t] \subseteq Dests(t)
      BY <1>4, <1>5, <2>1
    <3>4. QED
      BY <1>1, <1>3, <1>5, <2>3, <3>1, <3>2, <3>3 DEF Staged
  <2>9. Published(t)'
    BY <1>1, <1>2, <1>3, <1>4, <1>5, <1>6, <2>1, <2>3 DEF Local, Published, Unpublished,
      NoBackup
  <2>10. Settled(t)'
    BY <1>10, <2>1, <2>3, <1>1, <1>2, <1>3, <1>4 DEF Local, Settled, Published, NoBackup
  <2>11. RolledBack(t)'
    BY <1>10, <2>1, <2>3, <1>1, <1>2, <1>3, <1>4 DEF Local, RolledBack, Published, NoBackup
  <2>12. Contained(t)'
    BY <1>1, <1>2, <1>3, <1>4, <1>5, <1>9, <2>1, <2>3 DEF Contained, Untouched,
      Rechecks, InPlace, Sampled, BackedUp
  <2>13. QED
    BY <2>4, <2>5, <2>6, <2>7, <2>8, <2>9, <2>10, <2>11, <2>12 DEF Local
<1>11. CASE /\ stage' = [stage EXCEPT ![t] = @ \cup {Current(t)}]
            /\ job' = [job EXCEPT ![t] = [Advance(t, Len(Edits(t)), "check") EXCEPT !.existed = E]]
            /\ ~(job[t].k < Len(Edits(t)))
  <2>0. \A f \in job[t].held : f \in Done(t, job[t].k)
    <3>1. job[t].k = Len(Edits(t))
      BY <1>4, <1>11
    <3>2. QED
      BY <1>2, <1>3, <3>1, PlanShape DEF Local, HeldInOrder
  <2>1. /\ job' = [job EXCEPT ![t] = [job[t] EXCEPT !.k = 1, !.pc = "check", !.existed = E]]
        /\ stage' = [stage EXCEPT ![t] = @ \cup {Current(t)}]
        /\ disk' = disk
        /\ backup' = backup /\ journal' = journal
    BY <1>11, <1>3 DEF Advance
  <2>2. job[t] \in JobType /\ [job[t] EXCEPT !.k = 1, !.pc = "check", !.existed = E] \in JobType
    BY <1>2, JobField, JobFields, <1>4, <1>6 DEF Phases, Outcomes
  <2>3. /\ job'[t].pc = "check"
        /\ job'[t].k = 1
        /\ job'[t].seen = job[t].seen
        /\ job'[t].held = job[t].held
        /\ job'[t].existed = E
        /\ job'[t].ready = job[t].ready
        /\ job'[t].moved = job[t].moved
        /\ job'[t].failed = job[t].failed
        /\ job'[t].outcome = job[t].outcome
        /\ job'[t].at = job[t].at
    BY <2>1, <2>2 DEF TypeOK, JobType
  <2>4. TypeOK'
    BY <2>1, <2>2, <1>1, <1>3, <1>4 DEF TypeOK, Frame
  <2>5. IndexInRange(t)'
    BY <1>11, <2>1, <2>3, <1>1, <1>2, <1>3, <1>4 DEF Local, IndexInRange
  <2>6. HeldInOrder(t)'
    BY <1>11, <2>1, <2>3, <1>1, <1>2, <1>3, <1>4 DEF Local, HeldInOrder, Working, Phases
  <2>7. OutcomeIsLast(t)'
    BY <1>11, <2>1, <2>3, <1>1, <1>2, <1>3, <1>4 DEF Local, OutcomeIsLast
  <2>8. Staged(t)'
    BY <1>1, <1>2, <1>3, <1>4, <1>5, <1>6, <2>1, <2>3 DEF TypeOK, Local, Staged
  <2>9. Published(t)'
    BY <1>1, <1>2, <1>3, <1>4, <1>5, <1>6, <2>1, <2>3 DEF Local, Published, Unpublished,
      NoBackup
  <2>10. Settled(t)'
    BY <1>11, <2>1, <2>3, <1>1, <1>2, <1>3, <1>4 DEF Local, Settled, Published, NoBackup
  <2>11. RolledBack(t)'
    BY <1>11, <2>1, <2>3, <1>1, <1>2, <1>3, <1>4 DEF Local, RolledBack, Published, NoBackup
  <2>12. Contained(t)'
    BY <1>1, <1>2, <1>3, <1>9, <2>0, <2>1, <2>3 DEF Contained, Untouched, Rechecks,
      InPlace, Sampled, BackedUp
  <2>13. QED
    BY <2>4, <2>5, <2>6, <2>7, <2>8, <2>9, <2>10, <2>11, <2>12 DEF Local
<1>12. CASE /\ Give(t, "drop", "failed")
            /\ \E left \in SUBSET {Current(t)} : stage' = [stage EXCEPT ![t] = left]
  <2>1. Exits(t, "drop", "failed")
    BY <1>2, <1>3, <1>12, GiveExits
  <2>2. PICK left \in SUBSET {Current(t)} : stage' = [stage EXCEPT ![t] = left]
    BY <1>12
  <2>3. stage' \in [Txns -> SUBSET Files] /\ stage'[t] \subseteq Dests(t)
    BY <1>4, <1>5, <2>2
  <2>4. QED
    BY <2>1, <2>3, <1>3, <1>5, ExitLocal
<1>13. QED
  BY <1>8, <1>10, <1>11, <1>12

\* Removing the staged files of a transaction that gave up.
LEMMA CleanLocal ==
  ASSUME TypeOK, NEW t \in Txns, Local(t), Clean(t), Frame(t)
  PROVE  TypeOK' /\ Local(t)'
<1>1. /\ plan' = plan /\ touched' = touched /\ windows' = windows
      /\ Edits(t)' = Edits(t) /\ Expected(t)' = Expected(t) /\ Dests(t)' = Dests(t)
      /\ \A n : Done(t, n)' = Done(t, n) /\ Compared(t, n)' = Compared(t, n)
  BY Carried DEF Frame
<1>2. /\ job[t] \in JobType /\ plan \in Plans
      /\ job[t].k \in Nat /\ job[t].held \in SUBSET Files /\ job[t].existed \in SUBSET Files
      /\ job[t].ready \in SUBSET Files /\ job[t].moved \in SUBSET Files
      /\ job[t].failed \in BOOLEAN
  BY DEF TypeOK, JobType
<1>3. /\ job[t].pc = "clean" /\ disk' = disk /\ lock' = lock
      /\ backup' = backup /\ journal' = journal
      /\ stage' = [stage EXCEPT ![t] = {}] \/ stage' = stage
      /\ job' = [job EXCEPT ![t].pc = "drop"]
  BY DEF Clean, At
<1>4. stage' \in [Txns -> SUBSET Files] /\ stage'[t] \subseteq stage[t]
  BY <1>3 DEF TypeOK
<1>5. job[t].outcome \in {"stale", "failed"}
  BY <1>3 DEF Local, OutcomeIsLast
<1>6. CASE TRUE
  <2>1. /\ job' = [job EXCEPT ![t] = [job[t] EXCEPT !.pc = "drop"]]
        /\ disk' = disk /\ lock' = lock
        /\ backup' = backup /\ journal' = journal
    BY <1>6, <1>3 DEF sidecars
  <2>2. job[t] \in JobType /\ [job[t] EXCEPT !.pc = "drop"] \in JobType
    BY <1>2, JobField, JobFields DEF Phases, Outcomes
  <2>3. /\ job'[t].pc = "drop"
        /\ job'[t].k = job[t].k
        /\ job'[t].seen = job[t].seen
        /\ job'[t].held = job[t].held
        /\ job'[t].existed = job[t].existed
        /\ job'[t].ready = job[t].ready
        /\ job'[t].moved = job[t].moved
        /\ job'[t].failed = job[t].failed
        /\ job'[t].outcome = job[t].outcome
        /\ job'[t].at = job[t].at
    BY <2>1, <2>2 DEF TypeOK, JobType
  <2>4. TypeOK'
    BY <2>1, <2>2, <1>1, <1>4 DEF TypeOK, Frame
  <2>5. IndexInRange(t)'
    BY <1>6, <2>1, <2>3, <1>1, <1>2, <1>3, <1>4, <1>5 DEF Local, IndexInRange
  <2>6. HeldInOrder(t)'
    BY <1>6, <2>1, <2>3, <1>1, <1>2, <1>3, <1>4, <1>5 DEF Local, HeldInOrder, Working,
      Phases
  <2>7. OutcomeIsLast(t)'
    BY <1>6, <2>1, <2>3, <1>1, <1>2, <1>3, <1>4, <1>5 DEF Local, OutcomeIsLast
  <2>8. Staged(t)'
    BY <1>6, <2>1, <2>3, <1>1, <1>2, <1>3, <1>4, <1>5 DEF Local, Staged, Published
  <2>9. Published(t)'
    BY <1>6, <2>1, <2>3, <1>1, <1>2, <1>3, <1>4, <1>5 DEF Local, Published, Staged,
      Unpublished, NoBackup
  <2>10. Settled(t)'
    BY <1>6, <2>1, <2>3, <1>1, <1>2, <1>3, <1>4, <1>5 DEF Local, Settled, Published,
      NoBackup
  <2>11. RolledBack(t)'
    BY <1>6, <2>1, <2>3, <1>1, <1>2, <1>3, <1>4, <1>5 DEF Local, RolledBack, Published,
      NoBackup
  <2>12. Contained(t)'
    BY <1>1, <1>3, <1>4, <1>5, <2>1, <2>3 DEF Local, Contained, Untouched, Rechecks,
      InPlace, Sampled, BackedUp, Decided
  <2>13. QED
    BY <2>4, <2>5, <2>6, <2>7, <2>8, <2>9, <2>10, <2>11, <2>12 DEF Local
<1>7. QED
  BY <1>6

\* Writing the journal.
LEMMA WriteJournalLocal ==
  ASSUME TypeOK, NEW t \in Txns, Local(t), WriteJournal(t), Frame(t)
  PROVE  TypeOK' /\ Local(t)'
<1>1. /\ plan' = plan /\ touched' = touched /\ windows' = windows
      /\ Edits(t)' = Edits(t) /\ Expected(t)' = Expected(t) /\ Dests(t)' = Dests(t)
      /\ \A n : Done(t, n)' = Done(t, n) /\ Compared(t, n)' = Compared(t, n)
  BY Carried DEF Frame
<1>2. /\ job[t] \in JobType /\ plan \in Plans
      /\ job[t].k \in Nat /\ job[t].held \in SUBSET Files /\ job[t].existed \in SUBSET Files
      /\ job[t].ready \in SUBSET Files /\ job[t].moved \in SUBSET Files
      /\ job[t].failed \in BOOLEAN
  BY DEF TypeOK, JobType
<1>3. /\ job[t].pc = "journal" /\ disk' = disk /\ lock' = lock
      /\ stage' = stage /\ backup' = backup
  BY DEF WriteJournal, At
<1>4. /\ lock \in [Files -> Txns \cup {NoOne}] /\ Len(Edits(t)) \in Nat \ {0}
      /\ stage \in [Txns -> SUBSET Files] /\ journal \in [Txns -> {"none", "whole", "torn"}]
      /\ stage[t] \subseteq Dests(t) /\ Done(t, 0) = {}
  BY <1>2, PlanShape DEF TypeOK, Local, Staged
<1>5. CASE /\ journal' = [journal EXCEPT ![t] = "whole"]
           /\ job' = [job EXCEPT ![t].pc = "publish"]
  <2>1. /\ job' = [job EXCEPT ![t] = [job[t] EXCEPT !.pc = "publish"]]
        /\ journal' = [journal EXCEPT ![t] = "whole"]
        /\ disk' = disk /\ lock' = lock
        /\ stage' = stage /\ backup' = backup
    BY <1>5, <1>3 DEF sidecars
  <2>2. job[t] \in JobType /\ [job[t] EXCEPT !.pc = "publish"] \in JobType
    BY <1>2, JobField, JobFields DEF Phases, Outcomes
  <2>3. /\ job'[t].pc = "publish"
        /\ job'[t].k = job[t].k
        /\ job'[t].seen = job[t].seen
        /\ job'[t].held = job[t].held
        /\ job'[t].existed = job[t].existed
        /\ job'[t].ready = job[t].ready
        /\ job'[t].moved = job[t].moved
        /\ job'[t].failed = job[t].failed
        /\ job'[t].outcome = job[t].outcome
        /\ job'[t].at = job[t].at
    BY <2>1, <2>2 DEF TypeOK, JobType
  <2>4. TypeOK'
    BY <2>1, <2>2, <1>1 DEF TypeOK, Frame
  <2>5. IndexInRange(t)'
    BY <1>5, <2>1, <2>3, <1>1, <1>2, <1>3, <1>4 DEF Local, IndexInRange
  <2>6. HeldInOrder(t)'
    BY <1>5, <2>1, <2>3, <1>1, <1>2, <1>3, <1>4 DEF Local, HeldInOrder, Working, Phases
  <2>7. OutcomeIsLast(t)'
    BY <1>5, <2>1, <2>3, <1>1, <1>2, <1>3, <1>4 DEF Local, OutcomeIsLast
  <2>8. Staged(t)'
    BY <1>5, <2>1, <2>3, <1>1, <1>2, <1>3, <1>4 DEF Local, Staged, Published
  <2>9. Published(t)'
    <3>1. job[t].ready = {} /\ job[t].moved = {} /\ ~job[t].failed /\ NoBackup(t)
      BY <1>3 DEF Local, Published, Unpublished
    <3>2. job'[t].k = 1 /\ journal'[t] = "whole"
      BY <1>3, <1>4, <2>1, <2>3 DEF Local, IndexInRange
    <3>3. Done(t, job[t].k - 1)' = {}
      BY <1>1, <1>4, <3>2
    <3>4. QED
      BY <1>3, <2>1, <2>3, <3>1, <3>2, <3>3 DEF Local, Published, Unpublished, NoBackup,
        OutcomeIsLast
  <2>10. Settled(t)'
    BY <1>3, <2>3 DEF Local, OutcomeIsLast, Settled
  <2>11. RolledBack(t)'
    BY <1>5, <2>1, <2>3, <1>1, <1>2, <1>3, <1>4 DEF Local, RolledBack, Published, NoBackup
  <2>12. Contained(t)'
    BY <1>1, <1>3, <1>4, <1>5, <2>1, <2>3 DEF Local, Published, Unpublished, Contained,
      Untouched, Rechecks, Trusted, InPlace, Sampled, BackedUp, Decided
  <2>13. QED
    BY <2>4, <2>5, <2>6, <2>7, <2>8, <2>9, <2>10, <2>11, <2>12 DEF Local
<1>6. CASE /\ Give(t, "clean", "failed")
           /\ \E j \in {"none", "torn"} : journal' = [journal EXCEPT ![t] = j]
  <2>1. Exits(t, "clean", "failed")
    BY <1>2, <1>3, <1>6, GiveExits
  <2>2. PICK j \in {"none", "torn"} : journal' = [journal EXCEPT ![t] = j]
    BY <1>6
  <2>3. journal' \in [Txns -> {"none", "whole", "torn"}]
    BY <1>4, <2>2
  <2>4. QED
    BY <2>1, <2>3, <1>3, <1>4, ExitLocal
<1>7. QED
  BY <1>5, <1>6 DEF WriteJournal

\* The process is killed.
LEMMA CrashLocal ==
  ASSUME TypeOK, NEW t \in Txns, Local(t), Crash(t), Frame(t)
  PROVE  TypeOK' /\ Local(t)'
<1>1. /\ plan' = plan /\ touched' = touched /\ windows' = windows
      /\ Edits(t)' = Edits(t) /\ Expected(t)' = Expected(t) /\ Dests(t)' = Dests(t)
      /\ \A n : Done(t, n)' = Done(t, n) /\ Compared(t, n)' = Compared(t, n)
  BY Carried DEF Frame
<1>2. /\ job[t] \in JobType /\ plan \in Plans
      /\ job[t].k \in Nat /\ job[t].held \in SUBSET Files /\ job[t].existed \in SUBSET Files
      /\ job[t].ready \in SUBSET Files /\ job[t].moved \in SUBSET Files
      /\ job[t].failed \in BOOLEAN
  BY DEF TypeOK, JobType
<1>3. /\ disk' = disk /\ lock' = lock /\ stage' = stage /\ backup' = backup
      /\ journal' = journal /\ job' = [job EXCEPT ![t].pc = "crashed"]
      /\ job[t].pc \notin {"observe", "done"}
  BY DEF Crash, Running, sidecars
<1>4. CASE TRUE
  <2>1. /\ job' = [job EXCEPT ![t] = [job[t] EXCEPT !.pc = "crashed"]]
        /\ disk' = disk /\ lock' = lock /\ stage' = stage
        /\ backup' = backup /\ journal' = journal
    BY <1>4, <1>3 DEF sidecars
  <2>2. job[t] \in JobType /\ [job[t] EXCEPT !.pc = "crashed"] \in JobType
    BY <1>2, JobField, JobFields DEF Phases, Outcomes
  <2>3. /\ job'[t].pc = "crashed"
        /\ job'[t].k = job[t].k
        /\ job'[t].seen = job[t].seen
        /\ job'[t].held = job[t].held
        /\ job'[t].existed = job[t].existed
        /\ job'[t].ready = job[t].ready
        /\ job'[t].moved = job[t].moved
        /\ job'[t].failed = job[t].failed
        /\ job'[t].outcome = job[t].outcome
        /\ job'[t].at = job[t].at
    BY <2>1, <2>2 DEF TypeOK, JobType
  <2>4. TypeOK'
    BY <2>1, <2>2, <1>1, <1>3 DEF TypeOK, Frame
  <2>5. IndexInRange(t)'
    BY <1>4, <2>1, <2>3, <1>1, <1>2, <1>3 DEF Local, IndexInRange
  <2>6. HeldInOrder(t)'
    BY <1>4, <2>1, <2>3, <1>1, <1>2, <1>3 DEF Local, HeldInOrder, Working, Phases
  <2>7. OutcomeIsLast(t)'
    BY <1>4, <2>1, <2>3, <1>1, <1>2, <1>3 DEF Local, OutcomeIsLast
  <2>8. Staged(t)'
    BY <1>4, <2>1, <2>3, <1>1, <1>2, <1>3 DEF Local, Staged, Published
  <2>9. Published(t)'
    BY <1>4, <2>1, <2>3, <1>1, <1>2, <1>3 DEF Local, Published, Staged, Unpublished,
      NoBackup
  <2>10. Settled(t)'
    BY <1>4, <2>1, <2>3, <1>1, <1>2, <1>3 DEF Local, Settled, Published, NoBackup
  <2>11. RolledBack(t)'
    BY <1>4, <2>1, <2>3, <1>1, <1>2, <1>3 DEF Local, RolledBack, Published, NoBackup
  <2>12. Contained(t)'
    BY <1>1, <1>3, <2>1, <2>3 DEF Local, Contained, Untouched, Rechecks, InPlace,
      Sampled, BackedUp, Decided
  <2>13. QED
    BY <2>4, <2>5, <2>6, <2>7, <2>8, <2>9, <2>10, <2>11, <2>12 DEF Local
<1>5. QED
  BY <1>4

\* Releasing the locks, the last one first.
LEMMA DropLocal ==
  ASSUME TypeOK, NEW t \in Txns, Local(t), Drop(t), Frame(t)
  PROVE  TypeOK' /\ Local(t)'
<1>1. /\ plan' = plan /\ touched' = touched /\ windows' = windows
      /\ Edits(t)' = Edits(t) /\ Expected(t)' = Expected(t) /\ Dests(t)' = Dests(t)
      /\ \A n : Done(t, n)' = Done(t, n) /\ Compared(t, n)' = Compared(t, n)
  BY Carried DEF Frame
<1>2. /\ job[t] \in JobType /\ plan \in Plans
      /\ job[t].k \in Nat /\ job[t].held \in SUBSET Files /\ job[t].existed \in SUBSET Files
      /\ job[t].ready \in SUBSET Files /\ job[t].moved \in SUBSET Files
      /\ job[t].failed \in BOOLEAN
  BY DEF TypeOK, JobType
<1>3. /\ job[t].pc = "drop" /\ disk' = disk /\ UNCHANGED sidecars
      /\ \/ /\ job[t].held = {} /\ job' = [job EXCEPT ![t].pc = "done"] /\ lock' = lock
         \/ \E f \in job[t].held :
              /\ job' = [job EXCEPT ![t].held = @ \ {f}]
              /\ lock' = [lock EXCEPT ![f] = NoOne] \/ lock' = lock
  BY DEF Drop, At
<1>4. CASE job[t].held = {} /\ job' = [job EXCEPT ![t].pc = "done"] /\ lock' = lock
  <2>1. /\ job' = [job EXCEPT ![t] = [job[t] EXCEPT !.pc = "done"]]
        /\ disk' = disk /\ lock' = lock /\ stage' = stage
        /\ backup' = backup /\ journal' = journal
    BY <1>4, <1>3 DEF sidecars
  <2>2. job[t] \in JobType /\ [job[t] EXCEPT !.pc = "done"] \in JobType
    BY <1>2, JobField, JobFields DEF Phases, Outcomes
  <2>3. /\ job'[t].pc = "done"
        /\ job'[t].k = job[t].k
        /\ job'[t].seen = job[t].seen
        /\ job'[t].held = job[t].held
        /\ job'[t].existed = job[t].existed
        /\ job'[t].ready = job[t].ready
        /\ job'[t].moved = job[t].moved
        /\ job'[t].failed = job[t].failed
        /\ job'[t].outcome = job[t].outcome
        /\ job'[t].at = job[t].at
    BY <2>1, <2>2 DEF TypeOK, JobType
  <2>4. TypeOK'
    BY <2>1, <2>2, <1>1, <1>3 DEF TypeOK, Frame
  <2>5. IndexInRange(t)'
    BY <1>4, <2>1, <2>3, <1>1, <1>2, <1>3 DEF Local, IndexInRange
  <2>6. HeldInOrder(t)'
    BY <1>4, <2>1, <2>3, <1>1, <1>2, <1>3 DEF Local, HeldInOrder, Working, Phases
  <2>7. OutcomeIsLast(t)'
    BY <1>4, <2>1, <2>3, <1>1, <1>2, <1>3 DEF Local, OutcomeIsLast
  <2>8. Staged(t)'
    BY <1>4, <2>1, <2>3, <1>1, <1>2, <1>3 DEF Local, Staged, Published
  <2>9. Published(t)'
    BY <1>4, <2>1, <2>3, <1>1, <1>2, <1>3 DEF Local, Published, Staged, Unpublished,
      NoBackup
  <2>10. Settled(t)'
    BY <1>4, <2>1, <2>3, <1>1, <1>2, <1>3 DEF Local, Settled, Published, NoBackup
  <2>11. RolledBack(t)'
    BY <1>4, <2>1, <2>3, <1>1, <1>2, <1>3 DEF Local, RolledBack, Published, NoBackup
  <2>12. Contained(t)'
    BY <1>4, <2>3 DEF Contained
  <2>13. QED
    BY <2>4, <2>5, <2>6, <2>7, <2>8, <2>9, <2>10, <2>11, <2>12 DEF Local
<1>5. CASE \E f \in job[t].held :
             /\ job' = [job EXCEPT ![t].held = @ \ {f}]
             /\ lock' = [lock EXCEPT ![f] = NoOne] \/ lock' = lock
  <2>0. PICK f \in job[t].held :
          /\ job' = [job EXCEPT ![t].held = @ \ {f}]
          /\ lock' = [lock EXCEPT ![f] = NoOne] \/ lock' = lock
    BY <1>5
  <2>1. /\ job' = [job EXCEPT ![t] = [job[t] EXCEPT !.held = job[t].held \ {f}]]
        /\ lock' = [lock EXCEPT ![f] = NoOne] \/ lock' = lock
        /\ disk' = disk /\ stage' = stage
        /\ backup' = backup /\ journal' = journal
    BY <1>5, <1>3, <2>0 DEF sidecars
  <2>2. job[t] \in JobType /\ [job[t] EXCEPT !.held = job[t].held \ {f}] \in JobType
    BY <1>2, JobField, JobFields DEF Phases, Outcomes
  <2>3. /\ job'[t].pc = job[t].pc
        /\ job'[t].k = job[t].k
        /\ job'[t].seen = job[t].seen
        /\ job'[t].held = job[t].held \ {f}
        /\ job'[t].existed = job[t].existed
        /\ job'[t].ready = job[t].ready
        /\ job'[t].moved = job[t].moved
        /\ job'[t].failed = job[t].failed
        /\ job'[t].outcome = job[t].outcome
        /\ job'[t].at = job[t].at
    BY <2>1, <2>2 DEF TypeOK, JobType
  <2>4. TypeOK'
    BY <2>1, <2>2, <1>1, <1>2 DEF TypeOK, Frame
  <2>5. IndexInRange(t)'
    BY <1>5, <2>1, <2>3, <1>1, <1>2, <1>3 DEF Local, IndexInRange
  <2>6. HeldInOrder(t)'
    BY <1>1, <1>3, <2>3 DEF Local, HeldInOrder, Working, Phases
  <2>7. OutcomeIsLast(t)'
    BY <1>5, <2>1, <2>3, <1>1, <1>2, <1>3 DEF Local, OutcomeIsLast
  <2>8. Staged(t)'
    BY <1>5, <2>1, <2>3, <1>1, <1>2, <1>3 DEF Local, Staged, Published
  <2>9. Published(t)'
    BY <1>5, <2>1, <2>3, <1>1, <1>2, <1>3 DEF Local, Published, Staged, Unpublished,
      NoBackup
  <2>10. Settled(t)'
    BY <1>5, <2>1, <2>3, <1>1, <1>2, <1>3 DEF Local, Settled, Published, NoBackup
  <2>11. RolledBack(t)'
    BY <1>5, <2>1, <2>3, <1>1, <1>2, <1>3 DEF Local, RolledBack, Published, NoBackup
  <2>12. Contained(t)'
    BY <1>1, <1>3, <2>1, <2>3 DEF Local, Contained, Untouched, Rechecks, InPlace,
      Sampled, BackedUp, Decided
  <2>13. QED
    BY <2>4, <2>5, <2>6, <2>7, <2>8, <2>9, <2>10, <2>11, <2>12 DEF Local
<1>6. QED
  BY <1>3, <1>4, <1>5

\* Setting a destination's original aside.
LEMMA BackupLocal ==
  ASSUME TypeOK, NEW t \in Txns, Local(t), Backup(t), Frame(t)
  PROVE  TypeOK' /\ Local(t)'
<1>1. /\ plan' = plan /\ touched' = touched /\ windows' = windows
      /\ Edits(t)' = Edits(t) /\ Expected(t)' = Expected(t) /\ Dests(t)' = Dests(t)
      /\ \A n : Done(t, n)' = Done(t, n) /\ Compared(t, n)' = Compared(t, n)
  BY Carried DEF Frame
<1>2. /\ job[t] \in JobType /\ plan \in Plans
      /\ job[t].k \in Nat /\ job[t].held \in SUBSET Files /\ job[t].existed \in SUBSET Files
      /\ job[t].ready \in SUBSET Files /\ job[t].moved \in SUBSET Files
      /\ job[t].failed \in BOOLEAN
  BY DEF TypeOK, JobType
<1>3. /\ job[t].pc = "publish" /\ lock' = lock /\ stage' = stage /\ journal' = journal
      /\ Current(t) \in job[t].existed \ job[t].ready
  BY DEF Backup, At
<1>4. /\ job[t].k \in 1..Len(Edits(t)) /\ Len(Edits(t)) \in Nat \ {0}
      /\ Current(t) \in Dests(t) /\ Current(t) \in Files /\ job[t].held = Dests(t)
      /\ Done(t, job[t].k) = Done(t, job[t].k - 1) \cup {Current(t)}
      /\ Current(t) \notin Done(t, job[t].k - 1) /\ Done(t, job[t].k) \subseteq Dests(t)
  BY <1>2, <1>3, PlanShape, DoneSteps DEF Local, IndexInRange, HeldInOrder, Working,
    Phases, Current
<1>5. /\ job[t].moved = Done(t, job[t].k - 1) /\ job[t].ready \subseteq Done(t, job[t].k)
      /\ ~job[t].failed /\ journal[t] = "whole" /\ job[t].outcome = "none"
      /\ \A f \in job[t].ready : backup[t][f] \in Contents
      /\ Current(t) \notin job[t].moved /\ Current(t) \notin job[t].ready
  BY <1>3, <1>4 DEF Local, Published, OutcomeIsLast
<1>6. disk \in [Files -> Contents] /\ backup \in [Txns -> [Files -> Contents \cup {NoOne, Torn}]]
  BY DEF TypeOK
<1>7. \/ /\ backup' = [backup EXCEPT ![t] = [backup[t] EXCEPT ![Current(t)] = disk[Current(t)]]]
         /\ disk' = disk \/ disk' = [disk EXCEPT ![Current(t)] = Absent]
         /\ job' = [job EXCEPT ![t] = [job[t] EXCEPT !.ready = job[t].ready \cup {Current(t)}]]
      \/ /\ disk' = disk
         /\ \E b \in {NoOne, Torn} : \/ backup' = backup
              \/ backup' = [backup EXCEPT ![t] = [backup[t] EXCEPT ![Current(t)] = b]]
         /\ job' = [job EXCEPT ![t] = [job[t] EXCEPT !.pc = "rollback", !.k = Len(Edits(t))]]
  BY DEF Backup
<1>8. CASE /\ backup' = [backup EXCEPT ![t] = [backup[t] EXCEPT ![Current(t)] = disk[Current(t)]]]
           /\ disk' = disk \/ disk' = [disk EXCEPT ![Current(t)] = Absent]
           /\ job' = [job EXCEPT ![t] = [job[t] EXCEPT !.ready = job[t].ready \cup {Current(t)}]]
  <2>0. /\ backup'[t][Current(t)] = disk[Current(t)]
        /\ \A f \in Files : f # Current(t) => backup'[t][f] = backup[t][f] /\ disk'[f] = disk[f]
        /\ disk[Current(t)] \in Contents /\ disk' \in [Files -> Contents]
        /\ backup' \in [Txns -> [Files -> Contents \cup {NoOne, Torn}]]
        /\ job[t].ready \cup {Current(t)} \in SUBSET Files
    BY <1>2, <1>4, <1>6, <1>8 DEF Contents, Written
  <2>1. /\ job' = [job EXCEPT ![t] = [job[t] EXCEPT !.ready = job[t].ready \cup {Current(t)}]]
        /\ stage' = stage /\ journal' = journal /\ lock' = lock
    BY <1>8, <1>3 DEF Current
  <2>2. job[t] \in JobType /\ [job[t] EXCEPT !.ready = job[t].ready \cup {Current(t)}] \in JobType
    BY <1>2, JobField, JobFields, <2>0 DEF Phases, Outcomes
  <2>3. /\ job'[t].pc = job[t].pc
        /\ job'[t].k = job[t].k
        /\ job'[t].seen = job[t].seen
        /\ job'[t].held = job[t].held
        /\ job'[t].existed = job[t].existed
        /\ job'[t].ready = job[t].ready \cup {Current(t)}
        /\ job'[t].moved = job[t].moved
        /\ job'[t].failed = job[t].failed
        /\ job'[t].outcome = job[t].outcome
        /\ job'[t].at = job[t].at
    BY <2>1, <2>2 DEF TypeOK, JobType
  <2>4. TypeOK'
    BY <2>0, <2>1, <2>2, <1>1 DEF TypeOK, Frame
  <2>5. IndexInRange(t)'
    BY <1>8, <2>1, <2>3, <1>1, <1>2, <1>3, <1>4, <1>5 DEF Local, IndexInRange
  <2>6. HeldInOrder(t)'
    BY <1>8, <2>1, <2>3, <1>1, <1>2, <1>3, <1>4, <1>5 DEF Local, HeldInOrder, Working,
      Phases
  <2>7. OutcomeIsLast(t)'
    BY <1>8, <2>1, <2>3, <1>1, <1>2, <1>3, <1>4, <1>5 DEF Local, OutcomeIsLast
  <2>8. Staged(t)'
    BY <1>8, <2>1, <2>3, <1>1, <1>2, <1>3, <1>4, <1>5 DEF Local, Staged, Published
  <2>9. Published(t)'
    BY <1>1, <1>2, <1>3, <1>4, <1>5, <2>0, <2>1, <2>3, MarksAreNoContent DEF Local,
      Published, Unpublished
  <2>10. Settled(t)'
    BY <1>8, <2>1, <2>3, <1>1, <1>2, <1>3, <1>4, <1>5 DEF Local, Settled, Published,
      NoBackup
  <2>11. RolledBack(t)'
    BY <1>8, <2>1, <2>3, <1>1, <1>2, <1>3, <1>4, <1>5 DEF Local, RolledBack, Published,
      NoBackup
  <2>12. Contained(t)'
    <3>1. ASSUME NEW f \in Dests(t), touched[t][f] = "no"
          PROVE  Untouched(t, f)'
      <4>1. Untouched(t, f)
        BY <1>4, <3>1 DEF Local, Contained
      <4>2. CASE f # Current(t)
        BY <1>1, <1>2, <1>3, <1>4, <1>5, <2>0, <2>1, <2>3, <4>1, <4>2, PlanShape DEF
          Untouched, InPlace, Sampled, BackedUp, Decided
      <4>3. CASE f = Current(t)
        BY <1>1, <1>2, <1>3, <1>4, <1>5, <2>0, <2>1, <2>3, <4>1, <4>3 DEF Untouched,
          InPlace, Sampled, BackedUp, Decided
      <4>4. QED
        BY <4>2, <4>3
    <3>2. ASSUME NEW f \in Dests(t), touched[t][f] # "late"
          PROVE  Trusted(t, f)'
      <4>1. Trusted(t, f)
        BY <1>3, <1>4, <3>2 DEF Local, Contained, Rechecks
      <4>2. QED
        BY <1>2, <1>4, <1>5, <2>0, <2>1, <2>3, <4>1, PlanShape DEF Trusted
    <3>3. QED
      BY <1>1, <1>4, <2>3, <3>1, <3>2 DEF Contained
  <2>13. QED
    BY <2>4, <2>5, <2>6, <2>7, <2>8, <2>9, <2>10, <2>11, <2>12 DEF Local
<1>9. CASE /\ disk' = disk
           /\ \E b \in {NoOne, Torn} : \/ backup' = backup
                \/ backup' = [backup EXCEPT ![t] = [backup[t] EXCEPT ![Current(t)] = b]]
           /\ job' = [job EXCEPT ![t] = [job[t] EXCEPT !.pc = "rollback", !.k = Len(Edits(t))]]
  <2>0. /\ \A f \in Files : f # Current(t) => backup'[t][f] = backup[t][f]
        /\ backup' \in [Txns -> [Files -> Contents \cup {NoOne, Torn}]]
    BY <1>4, <1>6, <1>9
  <2>a. /\ Done(t, Len(Edits(t))) = Dests(t) /\ job[t].moved # Dests(t)
    BY <1>2, <1>4, <1>5, PlanShape
  <2>1. /\ job' = [job EXCEPT ![t] = [job[t] EXCEPT !.pc = "rollback", !.k = Len(Edits(t))]]
        /\ stage' = stage /\ journal' = journal /\ lock' = lock
    BY <1>9, <1>3 DEF Current
  <2>2. job[t] \in JobType /\ [job[t] EXCEPT !.pc = "rollback", !.k = Len(Edits(t))] \in JobType
    BY <1>2, JobField, JobFields, <1>4 DEF Phases, Outcomes
  <2>3. /\ job'[t].pc = "rollback"
        /\ job'[t].k = Len(Edits(t))
        /\ job'[t].seen = job[t].seen
        /\ job'[t].held = job[t].held
        /\ job'[t].existed = job[t].existed
        /\ job'[t].ready = job[t].ready
        /\ job'[t].moved = job[t].moved
        /\ job'[t].failed = job[t].failed
        /\ job'[t].outcome = job[t].outcome
        /\ job'[t].at = job[t].at
    BY <2>1, <2>2 DEF TypeOK, JobType
  <2>4. TypeOK'
    BY <2>0, <2>1, <2>2, <1>1, <1>9 DEF TypeOK, Frame
  <2>5. IndexInRange(t)'
    BY <1>9, <2>1, <2>3, <1>1, <1>2, <1>3, <1>4, <1>5 DEF Local, IndexInRange
  <2>6. HeldInOrder(t)'
    BY <1>9, <2>1, <2>3, <1>1, <1>2, <1>3, <1>4, <1>5 DEF Local, HeldInOrder, Working,
      Phases
  <2>7. OutcomeIsLast(t)'
    BY <1>9, <2>1, <2>3, <1>1, <1>2, <1>3, <1>4, <1>5 DEF Local, OutcomeIsLast
  <2>8. Staged(t)'
    BY <1>9, <2>1, <2>3, <1>1, <1>2, <1>3, <1>4, <1>5 DEF Local, Staged, Published
  <2>9. Published(t)'
    BY <1>1, <1>2, <1>3, <1>4, <1>5, <2>0, <2>1, <2>3 DEF Local, Published, Unpublished
  <2>10. Settled(t)'
    BY <1>9, <2>1, <2>3, <1>1, <1>2, <1>3, <1>4, <1>5 DEF Local, Settled, Published,
      NoBackup
  <2>11. RolledBack(t)'
    BY <1>1, <1>2, <1>3, <1>4, <1>5, <2>0, <2>a, <2>1, <2>3, PlanShape DEF Local, RolledBack
  <2>12. Contained(t)'
    <3>1. ASSUME NEW f \in Dests(t), touched[t][f] = "no"
          PROVE  Untouched(t, f)'
      <4>1. Untouched(t, f)
        BY <1>4, <3>1 DEF Local, Contained
      <4>2. CASE f # Current(t)
        BY <1>1, <1>2, <1>3, <1>4, <1>5, <1>9, <2>0, <2>a, <2>1, <2>3, <4>1, <4>2,
          PlanShape DEF Untouched, InPlace, Sampled, BackedUp, Decided
      <4>3. CASE f = Current(t)
        BY <1>1, <1>2, <1>3, <1>4, <1>5, <1>9, <2>0, <2>a, <2>1, <2>3, <4>1, <4>3 DEF
          Untouched, InPlace, Sampled, BackedUp, Decided
      <4>4. QED
        BY <4>2, <4>3
    <3>2. QED
      BY <1>1, <1>4, <2>3, <3>1 DEF Contained, Rechecks
  <2>13. QED
    BY <2>4, <2>5, <2>6, <2>7, <2>8, <2>9, <2>10, <2>11, <2>12 DEF Local
<1>10. QED
  BY <1>7, <1>8, <1>9

\* Replacing a destination by its staged file.
LEMMA RenameLocal ==
  ASSUME TypeOK, NEW t \in Txns, Local(t), Rename(t), Frame(t)
  PROVE  TypeOK' /\ Local(t)'
<1>1. /\ plan' = plan /\ touched' = touched /\ windows' = windows
      /\ Edits(t)' = Edits(t) /\ Expected(t)' = Expected(t) /\ Dests(t)' = Dests(t)
      /\ \A n : Done(t, n)' = Done(t, n) /\ Compared(t, n)' = Compared(t, n)
  BY Carried DEF Frame
<1>2. /\ job[t] \in JobType /\ plan \in Plans
      /\ job[t].k \in Nat /\ job[t].held \in SUBSET Files /\ job[t].existed \in SUBSET Files
      /\ job[t].ready \in SUBSET Files /\ job[t].moved \in SUBSET Files
      /\ job[t].failed \in BOOLEAN
  BY DEF TypeOK, JobType
<1>3. /\ job[t].pc = "publish" /\ lock' = lock /\ backup' = backup /\ journal' = journal
      /\ Current(t) \notin job[t].existed \ job[t].ready
  BY DEF Rename, At
<1>4. /\ job[t].k \in 1..Len(Edits(t)) /\ Len(Edits(t)) \in Nat \ {0} /\ job[t].k + 1 \in Nat
      /\ (job[t].k + 1) - 1 = job[t].k
      /\ Current(t) \in Dests(t) /\ Current(t) \in Files /\ job[t].held = Dests(t)
      /\ Done(t, job[t].k) = Done(t, job[t].k - 1) \cup {Current(t)}
      /\ Current(t) \notin Done(t, job[t].k - 1) /\ Done(t, job[t].k) \subseteq Dests(t)
      /\ Done(t, Len(Edits(t))) = Dests(t) /\ Done(t, 0) = {} /\ Dests(t) \subseteq Files
  BY <1>2, <1>3, PlanShape, DoneSteps DEF Local, IndexInRange, HeldInOrder, Working,
    Phases, Current
<1>5. /\ job[t].moved = Done(t, job[t].k - 1) /\ job[t].ready \subseteq Done(t, job[t].k)
      /\ ~job[t].failed /\ journal[t] = "whole" /\ job[t].outcome = "none"
      /\ \A f \in job[t].ready : backup[t][f] \in Contents
      /\ job[t].ready \subseteq job[t].existed
      /\ stage \in [Txns -> SUBSET Files] /\ stage[t] \subseteq Dests(t) \ job[t].moved
  BY <1>3, <1>4 DEF TypeOK, Local, Staged, Published, OutcomeIsLast
<1>6. disk \in [Files -> Contents] /\ t \in Contents
  BY DEF TypeOK, Contents
<1>7. CASE /\ disk' = [disk EXCEPT ![Current(t)] = t]
           /\ stage' = [stage EXCEPT ![t] = @ \ {Current(t)}]
           /\ job' = [job EXCEPT ![t] =
                [Advance(t, Len(Edits(t)), "sweep") EXCEPT !.moved = @ \cup {Current(t)}]]
  <2> DEFINE M == job[t].moved \cup {Current(t)}
  <2>0. M \in SUBSET Files
    BY <1>2, <1>4
  <2>1. /\ M = Done(t, job[t].k) /\ M \subseteq Dests(t)
        /\ M \cap job[t].existed \subseteq job[t].ready
        /\ disk'[Current(t)] = t /\ \A f \in Files : f # Current(t) => disk'[f] = disk[f]
        /\ disk' \in [Files -> Contents]
        /\ stage' \in [Txns -> SUBSET Files] /\ stage'[t] \subseteq Dests(t) \ M
    BY <1>2, <1>3, <1>4, <1>5, <1>6, <1>7 DEF Local, Published
  <2>2. job' = [job EXCEPT ![t] = [Advance(t, Len(Edits(t)), "sweep") EXCEPT !.moved = M]]
    <3>1. Advance(t, Len(Edits(t)), "sweep").moved = job[t].moved
      BY <1>2 DEF Advance, JobType
    <3>2. QED
      BY <1>7, <3>1
  <2> HIDE DEF M
  <2>3. ASSUME NEW f \in Dests(t), touched[t][f] = "no",
               job'[t].pc \in {"publish", "sweep"}, job'[t].seen = job[t].seen,
               job'[t].existed = job[t].existed, job'[t].ready = job[t].ready,
               job'[t].moved = M, job'[t].pc = "publish" => job'[t].k = job[t].k + 1
        PROVE  Untouched(t, f)'
    <3>1. Untouched(t, f)
      BY <1>4, <2>3 DEF Local, Contained
    <3>2. CASE f # Current(t)
      BY <1>1, <1>3, <1>4, <1>5, <2>1, <2>3, <3>1, <3>2 DEF Untouched, InPlace, Sampled,
        BackedUp, Decided
    <3>3. CASE f = Current(t)
      BY <1>1, <1>3, <1>4, <1>5, <2>1, <2>3, <3>1, <3>3 DEF Untouched, InPlace, Sampled,
        BackedUp, Decided
    <3>4. QED
      BY <3>2, <3>3
  <2>4. ASSUME NEW f \in Dests(t), touched[t][f] # "late",
               job'[t].seen = job[t].seen, job'[t].ready = job[t].ready, job'[t].moved = M
        PROVE  Trusted(t, f)'
    <3>1. Trusted(t, f)
      BY <1>3, <1>4, <2>4 DEF Local, Contained, Rechecks
    <3>2. QED
      BY <1>3, <1>4, <1>5, <2>1, <2>4, <3>1 DEF Trusted
  <2>5. CASE job[t].k < Len(Edits(t))
    <3>1. /\ job' = [job EXCEPT ![t] = [job[t] EXCEPT !.k = job[t].k + 1, !.moved = M]]
          /\ lock' = lock /\ backup' = backup /\ journal' = journal
      BY <2>5, <1>3, <2>2 DEF Advance
    <3>2. job[t] \in JobType /\ [job[t] EXCEPT !.k = job[t].k + 1, !.moved = M] \in JobType
      BY <1>2, JobField, JobFields, <2>0, <1>4 DEF Phases, Outcomes
    <3>3. /\ job'[t].pc = job[t].pc
          /\ job'[t].k = job[t].k + 1
          /\ job'[t].seen = job[t].seen
          /\ job'[t].held = job[t].held
          /\ job'[t].existed = job[t].existed
          /\ job'[t].ready = job[t].ready
          /\ job'[t].moved = M
          /\ job'[t].failed = job[t].failed
          /\ job'[t].outcome = job[t].outcome
          /\ job'[t].at = job[t].at
      BY <3>1, <3>2 DEF TypeOK, JobType
    <3>4. TypeOK'
      BY <2>0, <2>1, <3>1, <3>2, <1>1 DEF TypeOK, Frame
    <3>5. IndexInRange(t)'
      BY <3>3, <1>1, <1>3, <1>4, <2>5 DEF IndexInRange
    <3>6. HeldInOrder(t)'
      BY <2>5, <3>1, <3>3, <1>1, <1>2, <1>3, <1>4, <1>5 DEF Local, HeldInOrder, Working,
        Phases
    <3>7. OutcomeIsLast(t)'
      BY <2>5, <3>1, <3>3, <1>1, <1>2, <1>3, <1>4, <1>5 DEF Local, OutcomeIsLast
    <3>8. Staged(t)'
      BY <1>1, <1>3, <2>1, <3>3 DEF Local, Staged
    <3>9. Published(t)'
      <4>1. Done(t, job[t].k - 1)' = Done(t, job[t].k) /\ Done(t, job[t].k)' = Done(t, job[t].k + 1)
        BY <1>1, <1>4, <3>3
      <4>2. Done(t, job[t].k) \subseteq Done(t, job[t].k + 1)
        BY <1>4, <2>5, <1>2, DoneSteps
      <4>3. ~Unpublished(t)'
        BY <1>3, <1>5, <3>3 DEF Unpublished
      <4>4. job'[t].moved = Done(t, job[t].k - 1)' /\ job'[t].ready \subseteq Done(t, job[t].k)'
        BY <1>5, <2>1, <3>3, <4>1, <4>2
      <4>5. QED
        BY <1>1, <1>3, <1>5, <2>1, <3>1, <3>3, <4>3, <4>4 DEF Local, Published
    <3>10. Settled(t)'
      BY <1>1, <1>3, <1>5, <3>1, <3>3 DEF Local, Settled, NoBackup
    <3>11. RolledBack(t)'
      BY <2>5, <3>1, <3>3, <1>1, <1>2, <1>3, <1>4, <1>5 DEF Local, RolledBack,
        Published, NoBackup
    <3>12. Contained(t)'
      BY <1>1, <1>3, <1>4, <2>3, <2>4, <3>3 DEF Contained
    <3>13. QED
      BY <3>4, <3>5, <3>6, <3>7, <3>8, <3>9, <3>10, <3>11, <3>12 DEF Local
  <2>6. CASE ~(job[t].k < Len(Edits(t)))
    <3>0. job[t].k = Len(Edits(t))
      BY <1>4, <2>6
    <3>1. /\ job' = [job EXCEPT ![t] = [job[t] EXCEPT !.k = 1, !.pc = "sweep", !.moved = M]]
          /\ lock' = lock /\ backup' = backup /\ journal' = journal
      BY <2>6, <1>3, <2>2 DEF Advance
    <3>2. job[t] \in JobType /\ [job[t] EXCEPT !.k = 1, !.pc = "sweep", !.moved = M] \in JobType
      BY <1>2, JobField, JobFields, <2>0, <1>4 DEF Phases, Outcomes
    <3>3. /\ job'[t].pc = "sweep"
          /\ job'[t].k = 1
          /\ job'[t].seen = job[t].seen
          /\ job'[t].held = job[t].held
          /\ job'[t].existed = job[t].existed
          /\ job'[t].ready = job[t].ready
          /\ job'[t].moved = M
          /\ job'[t].failed = job[t].failed
          /\ job'[t].outcome = job[t].outcome
          /\ job'[t].at = job[t].at
      BY <3>1, <3>2 DEF TypeOK, JobType
    <3>4. TypeOK'
      BY <2>0, <2>1, <3>1, <3>2, <1>1 DEF TypeOK, Frame
    <3>5. IndexInRange(t)'
      BY <1>1, <1>4, <3>3 DEF IndexInRange
    <3>6. HeldInOrder(t)'
      BY <2>6, <3>1, <3>3, <1>1, <1>2, <1>3, <1>4, <1>5 DEF Local, HeldInOrder, Working,
        Phases
    <3>7. OutcomeIsLast(t)'
      BY <2>6, <3>1, <3>3, <1>1, <1>2, <1>3, <1>4, <1>5 DEF Local, OutcomeIsLast
    <3>8. Staged(t)'
      BY <1>1, <1>3, <2>1, <3>3 DEF Local, Staged
    <3>9. Published(t)'
      <4>1. ~Unpublished(t)'
        BY <1>5, <3>3 DEF Unpublished
      <4>2. QED
        BY <1>1, <1>5, <2>1, <3>1, <3>3, <4>1 DEF Local, Published
    <3>10. Settled(t)'
      BY <1>1, <1>3, <1>4, <1>5, <2>1, <3>0, <3>1, <3>3 DEF Settled
    <3>11. RolledBack(t)'
      BY <2>6, <3>1, <3>3, <1>1, <1>2, <1>3, <1>4, <1>5 DEF Local, RolledBack,
        Published, NoBackup
    <3>12. Contained(t)'
      BY <1>1, <1>3, <1>4, <2>3, <3>3 DEF Contained, Rechecks
    <3>13. QED
      BY <3>4, <3>5, <3>6, <3>7, <3>8, <3>9, <3>10, <3>11, <3>12 DEF Local
  <2>7. QED
    BY <2>5, <2>6
<1>8. CASE /\ disk' = disk /\ stage' = stage
           /\ job' = [job EXCEPT ![t].pc = "rollback", ![t].k = Len(Edits(t))]
  <2>1. /\ job' = [job EXCEPT ![t] = [job[t] EXCEPT !.pc = "rollback", !.k = Len(Edits(t))]]
        /\ stage' = stage /\ backup' = backup /\ journal' = journal /\ lock' = lock
    BY <1>8, <1>3 DEF Current
  <2>2. job[t] \in JobType /\ [job[t] EXCEPT !.pc = "rollback", !.k = Len(Edits(t))] \in JobType
    BY <1>2, JobField, JobFields, <1>4 DEF Phases, Outcomes
  <2>3. /\ job'[t].pc = "rollback"
        /\ job'[t].k = Len(Edits(t))
        /\ job'[t].seen = job[t].seen
        /\ job'[t].held = job[t].held
        /\ job'[t].existed = job[t].existed
        /\ job'[t].ready = job[t].ready
        /\ job'[t].moved = job[t].moved
        /\ job'[t].failed = job[t].failed
        /\ job'[t].outcome = job[t].outcome
        /\ job'[t].at = job[t].at
    BY <2>1, <2>2 DEF TypeOK, JobType
  <2>4. TypeOK'
    BY <2>1, <2>2, <1>1, <1>8 DEF TypeOK, Frame
  <2>5. IndexInRange(t)'
    BY <1>8, <2>1, <2>3, <1>1, <1>2, <1>3, <1>4, <1>5 DEF Local, IndexInRange
  <2>6. HeldInOrder(t)'
    BY <1>8, <2>1, <2>3, <1>1, <1>2, <1>3, <1>4, <1>5 DEF Local, HeldInOrder, Working,
      Phases
  <2>7. OutcomeIsLast(t)'
    BY <1>8, <2>1, <2>3, <1>1, <1>2, <1>3, <1>4, <1>5 DEF Local, OutcomeIsLast
  <2>8. Staged(t)'
    BY <1>8, <2>1, <2>3, <1>1, <1>2, <1>3, <1>4, <1>5 DEF Local, Staged, Published
  <2>9. Published(t)'
    BY <1>1, <1>3, <1>4, <1>5, <2>1, <2>3 DEF Local, Published, Unpublished
  <2>10. Settled(t)'
    BY <1>8, <2>1, <2>3, <1>1, <1>2, <1>3, <1>4, <1>5 DEF Local, Settled, Published,
      NoBackup
  <2>11. RolledBack(t)'
    BY <1>1, <1>3, <1>4, <1>5, <2>1, <2>3 DEF Local, RolledBack
  <2>12. Contained(t)'
    <3>1. ASSUME NEW f \in Dests(t), touched[t][f] = "no"
          PROVE  Untouched(t, f)'
      <4>1. Untouched(t, f)
        BY <1>4, <3>1 DEF Local, Contained
      <4>2. QED
        BY <1>1, <1>3, <1>4, <1>5, <1>8, <2>1, <2>3, <4>1 DEF Untouched, InPlace,
          Sampled, BackedUp, Decided
    <3>2. QED
      BY <1>1, <1>4, <2>3, <3>1 DEF Contained, Rechecks
  <2>13. QED
    BY <2>4, <2>5, <2>6, <2>7, <2>8, <2>9, <2>10, <2>11, <2>12 DEF Local
<1>9. QED
  BY <1>7, <1>8 DEF Rename

\* Removing the backups, and the journal after them.
LEMMA SweepLocal ==
  ASSUME TypeOK, NEW t \in Txns, Local(t), Sweep(t), Frame(t)
  PROVE  TypeOK' /\ Local(t)'
<1>1. /\ plan' = plan /\ touched' = touched /\ windows' = windows
      /\ Edits(t)' = Edits(t) /\ Expected(t)' = Expected(t) /\ Dests(t)' = Dests(t)
      /\ \A n : Done(t, n)' = Done(t, n) /\ Compared(t, n)' = Compared(t, n)
  BY Carried DEF Frame
<1>2. /\ job[t] \in JobType /\ plan \in Plans
      /\ job[t].k \in Nat /\ job[t].held \in SUBSET Files /\ job[t].existed \in SUBSET Files
      /\ job[t].ready \in SUBSET Files /\ job[t].moved \in SUBSET Files
      /\ job[t].failed \in BOOLEAN
  BY DEF TypeOK, JobType
<1>3. /\ job[t].pc = "sweep" /\ disk' = disk /\ lock' = lock /\ stage' = stage
  BY DEF Sweep, At
<1>4. /\ job[t].k \in 1..(Len(Edits(t)) + 1) /\ Len(Edits(t)) \in Nat \ {0}
      /\ job[t].k + 1 \in Nat /\ (job[t].k + 1) - 1 = job[t].k
      /\ Done(t, Len(Edits(t))) = Dests(t) /\ Dests(t) \subseteq Files
      /\ job[t].held = Dests(t) /\ job[t].moved = Dests(t)
      /\ job[t].outcome = "none" /\ journal[t] = "whole"
  BY <1>2, <1>3, PlanShape DEF Local, IndexInRange, HeldInOrder, Working, Phases,
    Settled, Published, OutcomeIsLast
<1>5. backup \in [Txns -> [Files -> Contents \cup {NoOne, Torn}]]
  BY DEF TypeOK
<1>6. CASE /\ job[t].k <= Len(Edits(t)) /\ journal' = journal
           /\ backup' = [backup EXCEPT ![t][Current(t)] = NoOne]
           /\ job' = [job EXCEPT ![t].k = @ + 1]
  <2>0. /\ Current(t) \in Files /\ Done(t, job[t].k) = Done(t, job[t].k - 1) \cup {Current(t)}
    BY <1>2, <1>4, <1>6, PlanShape, DoneSteps DEF Current
  <2>a. /\ backup' \in [Txns -> [Files -> Contents \cup {NoOne, Torn}]]
        /\ backup'[t][Current(t)] = NoOne
        /\ \A f \in Files : f # Current(t) => backup'[t][f] = backup[t][f]
    BY <1>5, <1>6, <2>0
  <2>1. /\ job' = [job EXCEPT ![t] = [job[t] EXCEPT !.k = job[t].k + 1]]
        /\ disk' = disk /\ lock' = lock /\ stage' = stage /\ journal' = journal
    BY <1>6, <1>3 DEF Current
  <2>2. job[t] \in JobType /\ [job[t] EXCEPT !.k = job[t].k + 1] \in JobType
    BY <1>2, JobField, JobFields, <1>4 DEF Phases, Outcomes
  <2>3. /\ job'[t].pc = job[t].pc
        /\ job'[t].k = job[t].k + 1
        /\ job'[t].seen = job[t].seen
        /\ job'[t].held = job[t].held
        /\ job'[t].existed = job[t].existed
        /\ job'[t].ready = job[t].ready
        /\ job'[t].moved = job[t].moved
        /\ job'[t].failed = job[t].failed
        /\ job'[t].outcome = job[t].outcome
        /\ job'[t].at = job[t].at
    BY <2>1, <2>2 DEF TypeOK, JobType
  <2>4. TypeOK'
    BY <2>a, <2>1, <2>2, <1>1 DEF TypeOK, Frame
  <2>5. IndexInRange(t)'
    BY <1>1, <1>3, <1>4, <1>6, <2>3 DEF IndexInRange
  <2>6. HeldInOrder(t)'
    BY <1>6, <2>1, <2>3, <1>1, <1>2, <1>3, <1>4 DEF Local, HeldInOrder, Working, Phases
  <2>7. OutcomeIsLast(t)'
    BY <1>6, <2>1, <2>3, <1>1, <1>2, <1>3, <1>4 DEF Local, OutcomeIsLast
  <2>8. Staged(t)'
    BY <1>6, <2>1, <2>3, <1>1, <1>2, <1>3, <1>4 DEF Local, Staged, Published
  <2>9. Published(t)'
    <3>1. \A f \in job[t].ready : backup'[t][f] # Torn
      BY <1>2, <2>a, MarksAreNoContent DEF Local, Published
    <3>2. QED
      BY <1>1, <1>3, <1>4, <2>a, <2>1, <2>3, <3>1 DEF Local, Published, Unpublished
  <2>10. Settled(t)'
    <3>1. Done(t, job[t].k - 1)' = Done(t, job[t].k)
      BY <1>1, <1>4, <2>3
    <3>2. Done(t, job[t].k) \subseteq Files
      BY <1>2, <1>4, <1>6, <2>0, DoneSteps
    <3>3. \A f \in Done(t, job[t].k) : backup'[t][f] = NoOne
      BY <1>3, <2>0, <2>a, <3>2 DEF Local, Settled
    <3>4. QED
      BY <1>1, <1>3, <1>4, <2>3, <3>1, <3>3 DEF Settled
  <2>11. RolledBack(t)'
    BY <1>6, <2>1, <2>3, <1>1, <1>2, <1>3, <1>4 DEF Local, RolledBack, Published, NoBackup
  <2>12. Contained(t)'
    BY <1>1, <1>2, <1>3, <1>4, <2>1, <2>a, <2>3 DEF Local, Contained, Untouched,
      Rechecks, InPlace, Sampled, BackedUp, Decided
  <2>13. QED
    BY <2>4, <2>5, <2>6, <2>7, <2>8, <2>9, <2>10, <2>11, <2>12 DEF Local
<1>7. CASE /\ job[t].k > Len(Edits(t)) /\ backup' = backup
           /\ journal' = [journal EXCEPT ![t] = "none"]
           /\ Give(t, "drop", "ok")
  <2>0. NoBackup(t)
    <3>1. \A f \in Dests(t) : backup[t][f] = NoOne
      <4>1. job[t].k - 1 = Len(Edits(t))
        BY <1>4, <1>7
      <4>2. QED
        BY <1>3, <1>4, <4>1 DEF Local, Settled
    <3>2. QED
      BY <3>1 DEF NoBackup, Local, Published, Staged
  <2>1. /\ job' = [job EXCEPT ![t] = [job[t] EXCEPT !.pc = "drop", !.outcome = "ok"]]
        /\ disk' = disk /\ lock' = lock /\ stage' = stage /\ backup' = backup
        /\ journal' = [journal EXCEPT ![t] = "none"]
    BY <1>7, <1>3 DEF Give
  <2>2. job[t] \in JobType /\ [job[t] EXCEPT !.pc = "drop", !.outcome = "ok"] \in JobType
    BY <1>2, JobField, JobFields DEF Phases, Outcomes
  <2>3. /\ job'[t].pc = "drop"
        /\ job'[t].k = job[t].k
        /\ job'[t].seen = job[t].seen
        /\ job'[t].held = job[t].held
        /\ job'[t].existed = job[t].existed
        /\ job'[t].ready = job[t].ready
        /\ job'[t].moved = job[t].moved
        /\ job'[t].failed = job[t].failed
        /\ job'[t].outcome = "ok"
        /\ job'[t].at = job[t].at
    BY <2>1, <2>2 DEF TypeOK, JobType
  <2>4. TypeOK'
    BY <2>1, <2>2, <1>1 DEF TypeOK, Frame
  <2>5. IndexInRange(t)'
    BY <1>7, <2>1, <2>3, <1>1, <1>2, <1>3, <1>4 DEF Local, IndexInRange
  <2>6. HeldInOrder(t)'
    BY <1>7, <2>1, <2>3, <1>1, <1>2, <1>3, <1>4 DEF Local, HeldInOrder, Working, Phases
  <2>7. OutcomeIsLast(t)'
    BY <1>7, <2>1, <2>3, <1>1, <1>2, <1>3, <1>4 DEF Local, OutcomeIsLast
  <2>8. Staged(t)'
    BY <1>7, <2>1, <2>3, <1>1, <1>2, <1>3, <1>4 DEF Local, Staged, Published
  <2>9. Published(t)'
    BY <1>7, <2>1, <2>3, <1>1, <1>2, <1>3, <1>4 DEF Local, Published, Staged,
      Unpublished, NoBackup
  <2>10. Settled(t)'
    BY <1>1, <1>4, <2>0, <2>1, <2>3 DEF Settled, NoBackup, TypeOK
  <2>11. RolledBack(t)'
    BY <1>7, <2>1, <2>3, <1>1, <1>2, <1>3, <1>4 DEF Local, RolledBack, Published, NoBackup
  <2>12. Contained(t)'
    BY <1>1, <1>2, <1>3, <1>4, <2>1, <2>3 DEF Local, Contained, Untouched, Rechecks,
      InPlace, Sampled, BackedUp, Decided
  <2>13. QED
    BY <2>4, <2>5, <2>6, <2>7, <2>8, <2>9, <2>10, <2>11, <2>12 DEF Local
<1>8. CASE Give(t, "drop", "unswept") /\ backup' = backup /\ journal' = journal
  <2>1. /\ job' = [job EXCEPT ![t] = [job[t] EXCEPT !.pc = "drop", !.outcome = "unswept"]]
        /\ disk' = disk /\ lock' = lock /\ stage' = stage
        /\ backup' = backup /\ journal' = journal
    BY <1>8, <1>3 DEF Give
  <2>2. job[t] \in JobType /\ [job[t] EXCEPT !.pc = "drop", !.outcome = "unswept"] \in JobType
    BY <1>2, JobField, JobFields DEF Phases, Outcomes
  <2>3. /\ job'[t].pc = "drop"
        /\ job'[t].k = job[t].k
        /\ job'[t].seen = job[t].seen
        /\ job'[t].held = job[t].held
        /\ job'[t].existed = job[t].existed
        /\ job'[t].ready = job[t].ready
        /\ job'[t].moved = job[t].moved
        /\ job'[t].failed = job[t].failed
        /\ job'[t].outcome = "unswept"
        /\ job'[t].at = job[t].at
    BY <2>1, <2>2 DEF TypeOK, JobType
  <2>4. TypeOK'
    BY <2>1, <2>2, <1>1 DEF TypeOK, Frame
  <2>5. IndexInRange(t)'
    BY <1>8, <2>1, <2>3, <1>1, <1>2, <1>3, <1>4 DEF Local, IndexInRange
  <2>6. HeldInOrder(t)'
    BY <1>8, <2>1, <2>3, <1>1, <1>2, <1>3, <1>4 DEF Local, HeldInOrder, Working, Phases
  <2>7. OutcomeIsLast(t)'
    BY <1>8, <2>1, <2>3, <1>1, <1>2, <1>3, <1>4 DEF Local, OutcomeIsLast
  <2>8. Staged(t)'
    BY <1>8, <2>1, <2>3, <1>1, <1>2, <1>3, <1>4 DEF Local, Staged, Published
  <2>9. Published(t)'
    BY <1>8, <2>1, <2>3, <1>1, <1>2, <1>3, <1>4 DEF Local, Published, Staged,
      Unpublished, NoBackup
  <2>10. Settled(t)'
    BY <1>8, <2>1, <2>3, <1>1, <1>2, <1>3, <1>4 DEF Local, Settled, Published, NoBackup
  <2>11. RolledBack(t)'
    BY <1>8, <2>1, <2>3, <1>1, <1>2, <1>3, <1>4 DEF Local, RolledBack, Published, NoBackup
  <2>12. Contained(t)'
    BY <1>1, <1>2, <1>3, <1>4, <2>1, <2>3 DEF Local, Contained, Untouched, Rechecks,
      InPlace, Sampled, BackedUp, Decided
  <2>13. QED
    BY <2>4, <2>5, <2>6, <2>7, <2>8, <2>9, <2>10, <2>11, <2>12 DEF Local
<1>9. QED
  BY <1>6, <1>7, <1>8 DEF Sweep

\* Taking a replacement away again.
LEMMA RemoveReplacementLocal ==
  ASSUME TypeOK, NEW t \in Txns, Local(t), RemoveReplacement(t), Frame(t)
  PROVE  TypeOK' /\ Local(t)'
<1>1. /\ plan' = plan /\ touched' = touched /\ windows' = windows
      /\ Edits(t)' = Edits(t) /\ Expected(t)' = Expected(t) /\ Dests(t)' = Dests(t)
      /\ \A n : Done(t, n)' = Done(t, n) /\ Compared(t, n)' = Compared(t, n)
  BY Carried DEF Frame
<1>2. /\ job[t] \in JobType /\ plan \in Plans
      /\ job[t].k \in Nat /\ job[t].held \in SUBSET Files /\ job[t].existed \in SUBSET Files
      /\ job[t].ready \in SUBSET Files /\ job[t].moved \in SUBSET Files
      /\ job[t].failed \in BOOLEAN
  BY DEF TypeOK, JobType
<1>3. /\ job[t].pc = "rollback" /\ job[t].k > 0 /\ lock' = lock
      /\ backup' = backup /\ journal' = journal /\ Current(t) \in job[t].moved
  BY DEF RemoveReplacement, At
<1>4. /\ job[t].k \in 1..Len(Edits(t)) /\ Len(Edits(t)) \in Nat \ {0} /\ job[t].k - 1 \in Nat
      /\ Current(t) \in Dests(t) /\ Current(t) \in Files /\ job[t].held = Dests(t)
      /\ Done(t, job[t].k) = Done(t, job[t].k - 1) \cup {Current(t)}
      /\ Current(t) \notin Done(t, job[t].k - 1) /\ Done(t, job[t].k) \subseteq Dests(t)
      /\ Dests(t) \subseteq Files
  <2>1. job[t].k \in 1..Len(Edits(t)) /\ Len(Edits(t)) \in Nat \ {0} /\ job[t].k - 1 \in Nat
    BY <1>2, <1>3, PlanShape DEF Local, IndexInRange
  <2>2. QED
    BY <1>2, <1>3, <2>1, PlanShape, DoneSteps DEF Local, HeldInOrder, Working, Phases,
      Current
<1>5. /\ job[t].moved # Dests(t) /\ journal[t] = "whole" /\ job[t].outcome = "none"
      /\ \A f \in job[t].ready \cap Done(t, job[t].k) : backup[t][f] \in Contents
      /\ ~job[t].failed => \A f \in Dests(t) \ Done(t, job[t].k) :
                             f \notin job[t].moved /\ backup[t][f] = NoOne
      /\ job[t].moved \cap job[t].existed \subseteq job[t].ready
      /\ job[t].moved \subseteq Dests(t)
      /\ stage \in [Txns -> SUBSET Files]
  BY <1>3 DEF TypeOK, Local, Published, RolledBack, OutcomeIsLast
<1>6. CASE /\ disk' = [disk EXCEPT ![Current(t)] = Absent] /\ stage' = stage
           /\ job' = [job EXCEPT ![t].moved = @ \ {Current(t)}]
  <2>0. /\ disk'[Current(t)] = Absent /\ \A f \in Files : f # Current(t) => disk'[f] = disk[f]
        /\ disk' \in [Files -> Contents]
        /\ job[t].moved \ {Current(t)} # Dests(t)
    BY <1>4, <1>5, <1>6 DEF TypeOK, Contents, Written
  <2>a. job[t].moved \ {Current(t)} \in SUBSET Files
    BY <1>2
  <2>1. /\ job' = [job EXCEPT ![t] = [job[t] EXCEPT !.moved = job[t].moved \ {Current(t)}]]
        /\ stage' = stage /\ backup' = backup /\ journal' = journal /\ lock' = lock
    BY <1>6, <1>3 DEF Current
  <2>2. job[t] \in JobType /\ [job[t] EXCEPT !.moved = job[t].moved \ {Current(t)}] \in JobType
    BY <1>2, JobField, JobFields, <2>a DEF Phases, Outcomes
  <2>3. /\ job'[t].pc = job[t].pc
        /\ job'[t].k = job[t].k
        /\ job'[t].seen = job[t].seen
        /\ job'[t].held = job[t].held
        /\ job'[t].existed = job[t].existed
        /\ job'[t].ready = job[t].ready
        /\ job'[t].moved = job[t].moved \ {Current(t)}
        /\ job'[t].failed = job[t].failed
        /\ job'[t].outcome = job[t].outcome
        /\ job'[t].at = job[t].at
    BY <2>1, <2>2 DEF TypeOK, JobType
  <2>4. TypeOK'
    BY <2>0, <2>1, <2>2, <1>1 DEF TypeOK, Frame
  <2>5. IndexInRange(t)'
    BY <1>6, <2>1, <2>3, <1>1, <1>2, <1>3, <1>4, <1>5 DEF Local, IndexInRange
  <2>6. HeldInOrder(t)'
    BY <1>6, <2>1, <2>3, <1>1, <1>2, <1>3, <1>4, <1>5 DEF Local, HeldInOrder, Working,
      Phases
  <2>7. OutcomeIsLast(t)'
    BY <1>6, <2>1, <2>3, <1>1, <1>2, <1>3, <1>4, <1>5 DEF Local, OutcomeIsLast
  <2>8. Staged(t)'
    BY <1>6, <2>1, <2>3, <1>1, <1>2, <1>3, <1>4, <1>5 DEF Local, Staged, Published
  <2>9. Published(t)'
    <3>1. ~Unpublished(t)'
      BY <1>3, <1>5, <2>3 DEF Unpublished
    <3>2. QED
      BY <1>1, <1>3, <1>5, <2>1, <2>3, <3>1 DEF Local, Published
  <2>10. Settled(t)'
    BY <1>6, <2>1, <2>3, <1>1, <1>2, <1>3, <1>4, <1>5 DEF Local, Settled, Published,
      NoBackup
  <2>11. RolledBack(t)'
    BY <1>1, <1>3, <1>4, <1>5, <2>0, <2>1, <2>3 DEF RolledBack
  <2>12. Contained(t)'
    <3>1. ASSUME NEW f \in Dests(t), touched[t][f] = "no"
          PROVE  Untouched(t, f)'
      <4>1. Untouched(t, f)
        BY <1>4, <3>1 DEF Local, Contained
      <4>2. CASE f # Current(t)
        BY <1>1, <1>3, <1>4, <1>5, <2>0, <2>1, <2>3, <4>1, <4>2 DEF Untouched, InPlace,
          Sampled, BackedUp, Decided
      <4>3. CASE f = Current(t)
        BY <1>1, <1>3, <1>4, <1>5, <2>0, <2>1, <2>3, <4>1, <4>3 DEF Untouched, InPlace,
          Sampled, BackedUp, Decided
      <4>4. QED
        BY <4>2, <4>3
    <3>2. QED
      BY <1>1, <1>3, <1>4, <2>3, <3>1 DEF Contained, Rechecks
  <2>13. QED
    BY <2>4, <2>5, <2>6, <2>7, <2>8, <2>9, <2>10, <2>11, <2>12 DEF Local
<1>7. CASE LeaveFile(t, Current(t), TRUE) /\ disk' = disk
  <2>1. /\ job' = [job EXCEPT ![t] = [job[t] EXCEPT !.k = job[t].k - 1, !.failed = TRUE]]
        /\ stage' = [stage EXCEPT ![t] = @ \ {Current(t)}]
        /\ disk' = disk /\ backup' = backup /\ journal' = journal /\ lock' = lock
    BY <1>7, <1>3 DEF LeaveFile
  <2>2. job[t] \in JobType /\ [job[t] EXCEPT !.k = job[t].k - 1, !.failed = TRUE] \in JobType
    BY <1>2, JobField, JobFields, <1>4 DEF Phases, Outcomes
  <2>3. /\ job'[t].pc = job[t].pc
        /\ job'[t].k = job[t].k - 1
        /\ job'[t].seen = job[t].seen
        /\ job'[t].held = job[t].held
        /\ job'[t].existed = job[t].existed
        /\ job'[t].ready = job[t].ready
        /\ job'[t].moved = job[t].moved
        /\ job'[t].failed = TRUE
        /\ job'[t].outcome = job[t].outcome
        /\ job'[t].at = job[t].at
    BY <2>1, <2>2 DEF TypeOK, JobType
  <2>4. TypeOK'
    BY <2>1, <2>2, <1>1, <1>5 DEF TypeOK, Frame
  <2>5. IndexInRange(t)'
    BY <1>7, <2>1, <2>3, <1>1, <1>2, <1>3, <1>4, <1>5 DEF Local, IndexInRange
  <2>6. HeldInOrder(t)'
    BY <1>7, <2>1, <2>3, <1>1, <1>2, <1>3, <1>4, <1>5 DEF Local, HeldInOrder, Working,
      Phases
  <2>7. OutcomeIsLast(t)'
    BY <1>7, <2>1, <2>3, <1>1, <1>2, <1>3, <1>4, <1>5 DEF Local, OutcomeIsLast
  <2>8. Staged(t)'
    BY <1>7, <2>1, <2>3, <1>1, <1>2, <1>3, <1>4, <1>5 DEF Local, Staged, Published
  <2>9. Published(t)'
    <3>1. ~Unpublished(t)'
      BY <1>3, <1>5, <2>3 DEF Unpublished
    <3>2. QED
      BY <1>1, <1>3, <1>5, <2>1, <2>3, <3>1 DEF Local, Published
  <2>10. Settled(t)'
    BY <1>7, <2>1, <2>3, <1>1, <1>2, <1>3, <1>4, <1>5 DEF Local, Settled, Published,
      NoBackup
  <2>11. RolledBack(t)'
    <3>1. Done(t, job[t].k)' = Done(t, job[t].k - 1)
      BY <1>1, <2>3
    <3>2. QED
      BY <1>1, <1>3, <1>4, <1>5, <2>1, <2>3, <3>1 DEF RolledBack
  <2>12. Contained(t)'
    <3>1. ASSUME NEW f \in Dests(t), touched[t][f] = "no"
          PROVE  Untouched(t, f)'
      <4>1. Untouched(t, f)
        BY <1>4, <3>1 DEF Local, Contained
      <4>2. Done(t, job[t].k)' = Done(t, job[t].k - 1)
        BY <1>1, <2>3
      <4>3. QED
        BY <1>1, <1>3, <1>4, <1>5, <2>1, <2>3, <4>1, <4>2 DEF Untouched, InPlace,
          Sampled, BackedUp, Decided
    <3>2. QED
      BY <1>1, <1>3, <1>4, <2>3, <3>1 DEF Contained, Rechecks
  <2>13. QED
    BY <2>4, <2>5, <2>6, <2>7, <2>8, <2>9, <2>10, <2>11, <2>12 DEF Local
<1>8. QED
  BY <1>6, <1>7 DEF RemoveReplacement

\* Putting an original back.
LEMMA RestoreOriginalLocal ==
  ASSUME TypeOK, NEW t \in Txns, Local(t), RestoreOriginal(t), Frame(t)
  PROVE  TypeOK' /\ Local(t)'
<1>1. /\ plan' = plan /\ touched' = touched /\ windows' = windows
      /\ Edits(t)' = Edits(t) /\ Expected(t)' = Expected(t) /\ Dests(t)' = Dests(t)
      /\ \A n : Done(t, n)' = Done(t, n) /\ Compared(t, n)' = Compared(t, n)
  BY Carried DEF Frame
<1>2. /\ job[t] \in JobType /\ plan \in Plans
      /\ job[t].k \in Nat /\ job[t].held \in SUBSET Files /\ job[t].existed \in SUBSET Files
      /\ job[t].ready \in SUBSET Files /\ job[t].moved \in SUBSET Files
      /\ job[t].failed \in BOOLEAN
  BY DEF TypeOK, JobType
<1>3. /\ job[t].pc = "rollback" /\ job[t].k > 0 /\ lock' = lock
      /\ journal' = journal /\ Current(t) \notin job[t].moved
  BY DEF RestoreOriginal, At
<1>4. /\ job[t].k \in 1..Len(Edits(t)) /\ Len(Edits(t)) \in Nat \ {0} /\ job[t].k - 1 \in Nat
      /\ Current(t) \in Dests(t) /\ Current(t) \in Files /\ job[t].held = Dests(t)
      /\ Done(t, job[t].k) = Done(t, job[t].k - 1) \cup {Current(t)}
      /\ Current(t) \notin Done(t, job[t].k - 1) /\ Done(t, job[t].k) \subseteq Dests(t)
      /\ Dests(t) \subseteq Files
  <2>1. job[t].k \in 1..Len(Edits(t)) /\ Len(Edits(t)) \in Nat \ {0} /\ job[t].k - 1 \in Nat
    BY <1>2, <1>3, PlanShape DEF Local, IndexInRange
  <2>2. QED
    BY <1>2, <1>3, <2>1, PlanShape, DoneSteps DEF Local, HeldInOrder, Working, Phases,
      Current
<1>5. /\ job[t].moved # Dests(t) /\ journal[t] = "whole" /\ job[t].outcome = "none"
      /\ \A f \in job[t].ready \cap Done(t, job[t].k) : backup[t][f] \in Contents
      /\ ~job[t].failed => \A f \in Dests(t) \ Done(t, job[t].k) :
                             f \notin job[t].moved /\ backup[t][f] = NoOne
      /\ stage \in [Txns -> SUBSET Files] /\ disk \in [Files -> Contents]
      /\ backup \in [Txns -> [Files -> Contents \cup {NoOne, Torn}]]
      /\ (job[t].failed \/ FALSE) = job[t].failed /\ (job[t].failed \/ TRUE) = TRUE
  BY <1>2, <1>3 DEF TypeOK, Local, Published, RolledBack, OutcomeIsLast
<1>6. CASE /\ Current(t) \in job[t].ready
           /\ disk' = [disk EXCEPT ![Current(t)] = backup[t][Current(t)]]
           /\ backup' = [backup EXCEPT ![t][Current(t)] = NoOne]
           /\ LeaveFile(t, Current(t), FALSE)
  <2>0. /\ disk'[Current(t)] = backup[t][Current(t)] /\ backup'[t][Current(t)] = NoOne
        /\ \A f \in Files : f # Current(t) => disk'[f] = disk[f] /\ backup'[t][f] = backup[t][f]
        /\ disk' \in [Files -> Contents]
        /\ backup' \in [Txns -> [Files -> Contents \cup {NoOne, Torn}]]
    BY <1>4, <1>5, <1>6
  <2>1. /\ job' = [job EXCEPT ![t] = [job[t] EXCEPT !.k = job[t].k - 1, !.failed = job[t].failed]]
        /\ stage' = [stage EXCEPT ![t] = @ \ {Current(t)}]
        /\ journal' = journal /\ lock' = lock
    BY <1>6, <1>3, <1>5 DEF LeaveFile
  <2>2. job[t] \in JobType /\ [job[t] EXCEPT !.k = job[t].k - 1, !.failed = job[t].failed] \in JobType
    <3>1. job[t].failed \in BOOLEAN /\ job[t].k - 1 \in Nat
      BY <1>2, <1>4
    <3>2. QED
      BY <1>2, <3>1, JobFields, Zenon
  <2>3. /\ job'[t].pc = job[t].pc
        /\ job'[t].k = job[t].k - 1
        /\ job'[t].seen = job[t].seen
        /\ job'[t].held = job[t].held
        /\ job'[t].existed = job[t].existed
        /\ job'[t].ready = job[t].ready
        /\ job'[t].moved = job[t].moved
        /\ job'[t].failed = job[t].failed
        /\ job'[t].outcome = job[t].outcome
        /\ job'[t].at = job[t].at
    BY <2>1, <2>2 DEF TypeOK, JobType
  <2>4. TypeOK'
    BY <2>0, <2>1, <2>2, <1>1, <1>5 DEF TypeOK, Frame
  <2>5. IndexInRange(t)'
    BY <1>6, <2>1, <2>3, <1>1, <1>2, <1>3, <1>4, <1>5 DEF Local, IndexInRange
  <2>6. HeldInOrder(t)'
    BY <1>6, <2>1, <2>3, <1>1, <1>2, <1>3, <1>4, <1>5 DEF Local, HeldInOrder, Working,
      Phases
  <2>7. OutcomeIsLast(t)'
    BY <1>6, <2>1, <2>3, <1>1, <1>2, <1>3, <1>4, <1>5 DEF Local, OutcomeIsLast
  <2>8. Staged(t)'
    BY <1>1, <1>3, <1>5, <2>1, <2>3 DEF Local, Staged
  <2>9. Published(t)'
    <3>1. ~Unpublished(t)'
      BY <1>3, <1>5, <2>3 DEF Unpublished
    <3>2. \A f \in job[t].ready : backup'[t][f] # Torn
      BY <1>2, <2>0, MarksAreNoContent DEF Local, Published
    <3>3. QED
      BY <1>1, <1>3, <1>5, <2>0, <2>1, <2>3, <3>1, <3>2 DEF Local, Published
  <2>10. Settled(t)'
    BY <1>6, <2>1, <2>3, <1>1, <1>2, <1>3, <1>4, <1>5 DEF Local, Settled, Published,
      NoBackup
  <2>11. RolledBack(t)'
    <3>1. Done(t, job[t].k)' = Done(t, job[t].k - 1)
      BY <1>1, <2>3
    <3>2. job[t].failed \/ \A f \in Dests(t) \ Done(t, job[t].k - 1) : f \notin job[t].moved /\ backup'[t][f] = NoOne
      BY <1>3, <1>4, <1>5, <2>0
    <3>3. \A f \in job[t].ready \cap Done(t, job[t].k - 1) : backup'[t][f] \in Contents
      BY <1>4, <1>5, <2>0
    <3>4. QED
      BY <1>1, <1>3, <1>5, <2>3, <3>1, <3>2, <3>3 DEF RolledBack
  <2>12. Contained(t)'
    <3>1. ASSUME NEW f \in Dests(t), touched[t][f] = "no"
          PROVE  Untouched(t, f)'
      <4>1. Untouched(t, f)
        BY <1>4, <3>1 DEF Local, Contained
      <4>2. Done(t, job[t].k)' = Done(t, job[t].k - 1)
        BY <1>1, <2>3
      <4>3. CASE f # Current(t)
        BY <1>1, <1>3, <1>4, <1>5, <2>0, <2>1, <2>3, <4>1, <4>2, <4>3 DEF Untouched,
          InPlace, Sampled, BackedUp, Decided
      <4>4. CASE f = Current(t)
        BY <1>1, <1>3, <1>4, <1>5, <1>6, <2>0, <2>1, <2>3, <4>1, <4>2, <4>4 DEF
          Untouched, InPlace, Sampled, BackedUp, Decided
      <4>5. QED
        BY <4>3, <4>4
    <3>2. QED
      BY <1>1, <1>3, <1>4, <2>3, <3>1 DEF Contained, Rechecks
  <2>13. QED
    BY <2>4, <2>5, <2>6, <2>7, <2>8, <2>9, <2>10, <2>11, <2>12 DEF Local
<1>7. CASE /\ Current(t) \in job[t].ready /\ disk' = disk /\ backup' = backup
           /\ LeaveFile(t, Current(t), TRUE)
  <2>1. /\ job' = [job EXCEPT ![t] = [job[t] EXCEPT !.k = job[t].k - 1, !.failed = TRUE]]
        /\ stage' = [stage EXCEPT ![t] = @ \ {Current(t)}]
        /\ disk' = disk /\ backup' = backup /\ journal' = journal /\ lock' = lock
    BY <1>7, <1>3 DEF LeaveFile
  <2>2. job[t] \in JobType /\ [job[t] EXCEPT !.k = job[t].k - 1, !.failed = TRUE] \in JobType
    BY <1>2, JobField, JobFields, <1>4 DEF Phases, Outcomes
  <2>3. /\ job'[t].pc = job[t].pc
        /\ job'[t].k = job[t].k - 1
        /\ job'[t].seen = job[t].seen
        /\ job'[t].held = job[t].held
        /\ job'[t].existed = job[t].existed
        /\ job'[t].ready = job[t].ready
        /\ job'[t].moved = job[t].moved
        /\ job'[t].failed = TRUE
        /\ job'[t].outcome = job[t].outcome
        /\ job'[t].at = job[t].at
    BY <2>1, <2>2 DEF TypeOK, JobType
  <2>4. TypeOK'
    BY <2>1, <2>2, <1>1, <1>5 DEF TypeOK, Frame
  <2>5. IndexInRange(t)'
    BY <1>7, <2>1, <2>3, <1>1, <1>2, <1>3, <1>4, <1>5 DEF Local, IndexInRange
  <2>6. HeldInOrder(t)'
    BY <1>7, <2>1, <2>3, <1>1, <1>2, <1>3, <1>4, <1>5 DEF Local, HeldInOrder, Working,
      Phases
  <2>7. OutcomeIsLast(t)'
    BY <1>7, <2>1, <2>3, <1>1, <1>2, <1>3, <1>4, <1>5 DEF Local, OutcomeIsLast
  <2>8. Staged(t)'
    BY <1>7, <2>1, <2>3, <1>1, <1>2, <1>3, <1>4, <1>5 DEF Local, Staged, Published
  <2>9. Published(t)'
    <3>1. ~Unpublished(t)'
      BY <1>3, <1>5, <2>3 DEF Unpublished
    <3>2. QED
      BY <1>1, <1>3, <1>5, <2>1, <2>3, <3>1 DEF Local, Published
  <2>10. Settled(t)'
    BY <1>7, <2>1, <2>3, <1>1, <1>2, <1>3, <1>4, <1>5 DEF Local, Settled, Published,
      NoBackup
  <2>11. RolledBack(t)'
    <3>1. Done(t, job[t].k)' = Done(t, job[t].k - 1)
      BY <1>1, <2>3
    <3>2. QED
      BY <1>1, <1>3, <1>4, <1>5, <2>1, <2>3, <3>1 DEF RolledBack
  <2>12. Contained(t)'
    <3>1. ASSUME NEW f \in Dests(t), touched[t][f] = "no"
          PROVE  Untouched(t, f)'
      <4>1. Untouched(t, f)
        BY <1>4, <3>1 DEF Local, Contained
      <4>2. Done(t, job[t].k)' = Done(t, job[t].k - 1)
        BY <1>1, <2>3
      <4>3. QED
        BY <1>1, <1>3, <1>4, <1>5, <2>1, <2>3, <4>1, <4>2 DEF Untouched, InPlace,
          Sampled, BackedUp, Decided
    <3>2. QED
      BY <1>1, <1>3, <1>4, <2>3, <3>1 DEF Contained, Rechecks
  <2>13. QED
    BY <2>4, <2>5, <2>6, <2>7, <2>8, <2>9, <2>10, <2>11, <2>12 DEF Local
<1>8. CASE /\ Current(t) \notin job[t].ready /\ disk' = disk
           /\ backup' = [backup EXCEPT ![t][Current(t)] = NoOne]
           /\ LeaveFile(t, Current(t), FALSE)
  <2>0. /\ backup'[t][Current(t)] = NoOne
        /\ \A f \in Files : f # Current(t) => backup'[t][f] = backup[t][f]
        /\ backup' \in [Txns -> [Files -> Contents \cup {NoOne, Torn}]]
    BY <1>4, <1>5, <1>8
  <2>1. /\ job' = [job EXCEPT ![t] = [job[t] EXCEPT !.k = job[t].k - 1, !.failed = job[t].failed]]
        /\ stage' = [stage EXCEPT ![t] = @ \ {Current(t)}]
        /\ disk' = disk /\ journal' = journal /\ lock' = lock
    BY <1>8, <1>3, <1>5 DEF LeaveFile
  <2>2. job[t] \in JobType /\ [job[t] EXCEPT !.k = job[t].k - 1, !.failed = job[t].failed] \in JobType
    <3>1. job[t].failed \in BOOLEAN /\ job[t].k - 1 \in Nat
      BY <1>2, <1>4
    <3>2. QED
      BY <1>2, <3>1, JobFields, Zenon
  <2>3. /\ job'[t].pc = job[t].pc
        /\ job'[t].k = job[t].k - 1
        /\ job'[t].seen = job[t].seen
        /\ job'[t].held = job[t].held
        /\ job'[t].existed = job[t].existed
        /\ job'[t].ready = job[t].ready
        /\ job'[t].moved = job[t].moved
        /\ job'[t].failed = job[t].failed
        /\ job'[t].outcome = job[t].outcome
        /\ job'[t].at = job[t].at
    BY <2>1, <2>2 DEF TypeOK, JobType
  <2>4. TypeOK'
    BY <2>0, <2>1, <2>2, <1>1, <1>5 DEF TypeOK, Frame
  <2>5. IndexInRange(t)'
    BY <1>8, <2>1, <2>3, <1>1, <1>2, <1>3, <1>4, <1>5 DEF Local, IndexInRange
  <2>6. HeldInOrder(t)'
    BY <1>8, <2>1, <2>3, <1>1, <1>2, <1>3, <1>4, <1>5 DEF Local, HeldInOrder, Working,
      Phases
  <2>7. OutcomeIsLast(t)'
    BY <1>8, <2>1, <2>3, <1>1, <1>2, <1>3, <1>4, <1>5 DEF Local, OutcomeIsLast
  <2>8. Staged(t)'
    BY <1>1, <1>3, <1>5, <2>1, <2>3 DEF Local, Staged
  <2>9. Published(t)'
    <3>1. ~Unpublished(t)'
      BY <1>3, <1>5, <2>3 DEF Unpublished
    <3>2. \A f \in job[t].ready : backup'[t][f] # Torn
      BY <1>2, <2>0, MarksAreNoContent DEF Local, Published
    <3>3. QED
      BY <1>1, <1>3, <1>5, <2>0, <2>1, <2>3, <3>1, <3>2 DEF Local, Published
  <2>10. Settled(t)'
    BY <1>8, <2>1, <2>3, <1>1, <1>2, <1>3, <1>4, <1>5 DEF Local, Settled, Published,
      NoBackup
  <2>11. RolledBack(t)'
    <3>1. Done(t, job[t].k)' = Done(t, job[t].k - 1)
      BY <1>1, <2>3
    <3>2. QED
      BY <1>1, <1>3, <1>4, <1>5, <1>8, <2>0, <2>1, <2>3, <3>1 DEF RolledBack
  <2>12. Contained(t)'
    <3>1. ASSUME NEW f \in Dests(t), touched[t][f] = "no"
          PROVE  Untouched(t, f)'
      <4>1. Untouched(t, f)
        BY <1>4, <3>1 DEF Local, Contained
      <4>2. Done(t, job[t].k)' = Done(t, job[t].k - 1)
        BY <1>1, <2>3
      <4>3. CASE f # Current(t)
        BY <1>1, <1>3, <1>4, <1>5, <2>0, <2>1, <2>3, <1>8, <4>1, <4>2, <4>3 DEF
          Untouched, InPlace, Sampled, BackedUp, Decided
      <4>4. CASE f = Current(t)
        BY <1>1, <1>3, <1>4, <1>5, <1>8, <2>0, <2>1, <2>3, <4>1, <4>2, <4>4 DEF
          Untouched, InPlace, Sampled, BackedUp, Decided
      <4>5. QED
        BY <4>3, <4>4
    <3>2. QED
      BY <1>1, <1>3, <1>4, <2>3, <3>1 DEF Contained, Rechecks
  <2>13. QED
    BY <2>4, <2>5, <2>6, <2>7, <2>8, <2>9, <2>10, <2>11, <2>12 DEF Local
<1>9. QED
  BY <1>6, <1>7, <1>8 DEF RestoreOriginal

\* The end of a rollback.
LEMMA FinishRollbackLocal ==
  ASSUME TypeOK, NEW t \in Txns, Local(t), FinishRollback(t), Frame(t)
  PROVE  TypeOK' /\ Local(t)'
<1>1. /\ plan' = plan /\ touched' = touched /\ windows' = windows
      /\ Edits(t)' = Edits(t) /\ Expected(t)' = Expected(t) /\ Dests(t)' = Dests(t)
      /\ \A n : Done(t, n)' = Done(t, n) /\ Compared(t, n)' = Compared(t, n)
  BY Carried DEF Frame
<1>2. /\ job[t] \in JobType /\ plan \in Plans
      /\ job[t].k \in Nat /\ job[t].held \in SUBSET Files /\ job[t].existed \in SUBSET Files
      /\ job[t].ready \in SUBSET Files /\ job[t].moved \in SUBSET Files
      /\ job[t].failed \in BOOLEAN
  BY DEF TypeOK, JobType
<1>3. /\ job[t].pc = "rollback" /\ job[t].k = 0 /\ lock' = lock
      /\ disk' = disk /\ stage' = stage /\ backup' = backup
  BY DEF FinishRollback, At
<1>4. /\ job[t].moved # Dests(t) /\ journal[t] = "whole" /\ job[t].outcome = "none"
      /\ ~job[t].failed => job[t].moved = {} /\ NoBackup(t)
  <2>1. /\ job[t].moved # Dests(t) /\ journal[t] = "whole" /\ job[t].outcome = "none"
        /\ ~job[t].failed => \A f \in Dests(t) : f \notin job[t].moved /\ backup[t][f] = NoOne
    BY <1>2, <1>3, PlanShape DEF Local, Published, RolledBack, OutcomeIsLast
  <2>2. QED
    BY <2>1 DEF Local, Published, Staged, NoBackup
<1>5. \/ /\ job[t].failed /\ journal' = journal
         /\ Give(t, "drop", "rollbackFailed")
      \/ /\ ~job[t].failed /\ Give(t, "drop", "restored")
         /\ journal' = [journal EXCEPT ![t] = "none"] \/ journal' = journal
  BY DEF FinishRollback
<1>6. journal' \in [Txns -> {"none", "whole", "torn"}]
  BY <1>5 DEF TypeOK
<1>7. CASE job[t].failed /\ journal' = journal /\ Give(t, "drop", "rollbackFailed")
  <2>1. /\ job' = [job EXCEPT ![t] = [job[t] EXCEPT !.pc = "drop", !.outcome = "rollbackFailed"]]
        /\ journal' = journal
        /\ disk' = disk /\ lock' = lock /\ stage' = stage /\ backup' = backup
    BY <1>7, <1>3 DEF Give
  <2>2. job[t] \in JobType /\ [job[t] EXCEPT !.pc = "drop", !.outcome = "rollbackFailed"] \in JobType
    BY <1>2, JobField, JobFields DEF Phases, Outcomes
  <2>3. /\ job'[t].pc = "drop"
        /\ job'[t].k = job[t].k
        /\ job'[t].seen = job[t].seen
        /\ job'[t].held = job[t].held
        /\ job'[t].existed = job[t].existed
        /\ job'[t].ready = job[t].ready
        /\ job'[t].moved = job[t].moved
        /\ job'[t].failed = job[t].failed
        /\ job'[t].outcome = "rollbackFailed"
        /\ job'[t].at = job[t].at
    BY <2>1, <2>2 DEF TypeOK, JobType
  <2>4. TypeOK'
    BY <2>1, <2>2, <1>1, <1>6 DEF TypeOK, Frame
  <2>5. IndexInRange(t)'
    BY <1>7, <2>1, <2>3, <1>1, <1>2, <1>3, <1>4 DEF Local, IndexInRange
  <2>6. HeldInOrder(t)'
    BY <1>7, <2>1, <2>3, <1>1, <1>2, <1>3, <1>4 DEF Local, HeldInOrder, Working, Phases
  <2>7. OutcomeIsLast(t)'
    BY <1>7, <2>1, <2>3, <1>1, <1>2, <1>3, <1>4 DEF Local, OutcomeIsLast
  <2>8. Staged(t)'
    BY <1>7, <2>1, <2>3, <1>1, <1>2, <1>3, <1>4 DEF Local, Staged, Published
  <2>9. Published(t)'
    BY <1>7, <2>1, <2>3, <1>1, <1>2, <1>3, <1>4 DEF Local, Published, Staged,
      Unpublished, NoBackup
  <2>10. Settled(t)'
    BY <1>7, <2>1, <2>3, <1>1, <1>2, <1>3, <1>4 DEF Local, Settled, Published, NoBackup
  <2>11. RolledBack(t)'
    BY <1>7, <2>1, <2>3, <1>1, <1>2, <1>3, <1>4 DEF Local, RolledBack, Published, NoBackup
  <2>12. Contained(t)'
    BY <1>1, <1>3, <1>4, <2>1, <2>3 DEF Local, Contained, Untouched, Rechecks, InPlace,
      Sampled, BackedUp, Decided
  <2>13. QED
    BY <2>4, <2>5, <2>6, <2>7, <2>8, <2>9, <2>10, <2>11, <2>12 DEF Local
<1>8. CASE ~job[t].failed /\ Give(t, "drop", "restored")
  <2>1. /\ job' = [job EXCEPT ![t] = [job[t] EXCEPT !.pc = "drop", !.outcome = "restored"]]
        /\ disk' = disk /\ lock' = lock /\ stage' = stage /\ backup' = backup
    BY <1>8, <1>3 DEF Give
  <2>2. job[t] \in JobType /\ [job[t] EXCEPT !.pc = "drop", !.outcome = "restored"] \in JobType
    BY <1>2, JobField, JobFields DEF Phases, Outcomes
  <2>3. /\ job'[t].pc = "drop"
        /\ job'[t].k = job[t].k
        /\ job'[t].seen = job[t].seen
        /\ job'[t].held = job[t].held
        /\ job'[t].existed = job[t].existed
        /\ job'[t].ready = job[t].ready
        /\ job'[t].moved = job[t].moved
        /\ job'[t].failed = job[t].failed
        /\ job'[t].outcome = "restored"
        /\ job'[t].at = job[t].at
    BY <2>1, <2>2 DEF TypeOK, JobType
  <2>4. TypeOK'
    BY <2>1, <2>2, <1>1, <1>6 DEF TypeOK, Frame
  <2>5. IndexInRange(t)'
    BY <1>8, <2>1, <2>3, <1>1, <1>2, <1>3, <1>4 DEF Local, IndexInRange
  <2>6. HeldInOrder(t)'
    BY <1>8, <2>1, <2>3, <1>1, <1>2, <1>3, <1>4 DEF Local, HeldInOrder, Working, Phases
  <2>7. OutcomeIsLast(t)'
    BY <1>8, <2>1, <2>3, <1>1, <1>2, <1>3, <1>4 DEF Local, OutcomeIsLast
  <2>8. Staged(t)'
    BY <1>8, <2>1, <2>3, <1>1, <1>2, <1>3, <1>4 DEF Local, Staged, Published
  <2>9. Published(t)'
    BY <1>8, <2>1, <2>3, <1>1, <1>2, <1>3, <1>4 DEF Local, Published, Staged,
      Unpublished, NoBackup
  <2>10. Settled(t)'
    BY <1>8, <2>1, <2>3, <1>1, <1>2, <1>3, <1>4 DEF Local, Settled, Published, NoBackup
  <2>11. RolledBack(t)'
    BY <1>8, <2>1, <2>3, <1>1, <1>2, <1>3, <1>4 DEF Local, RolledBack, Published, NoBackup
  <2>12. Contained(t)'
    <3>1. ASSUME NEW f \in job[t].held, touched[t][f] = "no"
          PROVE  Untouched(t, f)'
      <4>1. Untouched(t, f)
        BY <3>1 DEF Local, Contained
      <4>2. f \in Dests(t) /\ Done(t, 0) = {}
        BY <1>2, PlanShape DEF Local, HeldInOrder
      <4>3. disk[f] = job[t].seen[f]
        BY <1>3, <1>8, <4>1, <4>2 DEF Untouched
      <4>4. QED
        BY <1>3, <2>1, <2>3, <4>1, <4>3 DEF Untouched, InPlace, Sampled, BackedUp, Decided
    <3>2. QED
      BY <1>1, <2>3, <3>1 DEF Contained, Rechecks
  <2>13. QED
    BY <2>4, <2>5, <2>6, <2>7, <2>8, <2>9, <2>10, <2>11, <2>12 DEF Local
<1>9. QED
  BY <1>5, <1>7, <1>8

\* What is known of a transaction holds on while nobody touches what it has.
LEMMA KeptLocal ==
  ASSUME NEW u \in Txns, Local(u), plan' = plan, touched' = touched,
         job'[u] = job[u], stage'[u] = stage[u], backup'[u] = backup[u], journal'[u] = journal[u],
         \A f \in job[u].held : disk'[f] = disk[f]
  PROVE  Local(u)'
<1>1. /\ Edits(u)' = Edits(u) /\ Expected(u)' = Expected(u) /\ Dests(u)' = Dests(u)
      /\ \A n : Done(u, n)' = Done(u, n) /\ Compared(u, n)' = Compared(u, n)
  BY Carried
<1>2. IndexInRange(u)' /\ HeldInOrder(u)' /\ OutcomeIsLast(u)'
  BY <1>1 DEF Local, IndexInRange, HeldInOrder, OutcomeIsLast, Working, Phases
<1>3. Staged(u)' /\ NoBackup(u)' = NoBackup(u) /\ Unpublished(u)' = Unpublished(u)
  BY <1>1 DEF Local, Staged, NoBackup, Unpublished
<1>4. Published(u)'
  BY <1>1, <1>3 DEF Local, Published
<1>5. Settled(u)' /\ RolledBack(u)'
  BY <1>1, <1>3 DEF Local, Settled, RolledBack
<1>6. Contained(u)'
  <2>1. ASSUME NEW f \in job[u].held
        PROVE  /\ Untouched(u, f) => Untouched(u, f)'
               /\ Trusted(u, f) => Trusted(u, f)'
               /\ Rechecks(u, f)' => Rechecks(u, f)
    BY <1>1 DEF Untouched, Trusted, Rechecks, InPlace, Sampled, BackedUp, Decided
  <2>2. QED
    BY <2>1 DEF Local, Contained
<1>7. QED
  BY <1>2, <1>3, <1>4, <1>5, <1>6 DEF Local

\* A step of one transaction keeps what is known of all of them.
LEMMA StepLocal ==
  ASSUME IInv, NEW t \in Txns, Step(t) \/ Crash(t)
  PROVE  TypeOK' /\ \A u \in Txns : Local(u)'
<1>1. TypeOK /\ Local(t) /\ HeldInOrder(t) /\ IndexInRange(t)
  BY DEF IInv, Local
<1>2. Frame(t)
  BY <1>1, Framed
<1>3. \A f \in Files : job[t].seen[f] # t
  BY DEF IInv, Shared, NotYetWritten
<1>4. TypeOK' /\ Local(t)'
  BY <1>1, <1>2, <1>3, ObserveLocal, LockLocal, VerifyLocal, StageLocal, CheckLocal,
    ReverifyLocal, CleanLocal, WriteJournalLocal, BackupLocal, RenameLocal, SweepLocal,
    RemoveReplacementLocal, RestoreOriginalLocal, FinishRollbackLocal, DropLocal,
    CrashLocal DEF Step
<1>5. ASSUME NEW u \in Txns \ {t}
      PROVE  Local(u)'
  <2>1. \A f \in job[u].held : f \in Files /\ f \notin job[t].held
    <3>1. job[u].held \subseteq Files
      BY DEF IInv, TypeOK, JobType
    <3>2. QED
      BY <3>1 DEF IInv, Shared, HeldIsLocked
  <2>2. \A f \in job[u].held : disk'[f] = disk[f]
    BY <1>2, <2>1 DEF Frame
  <2>3. QED
    BY <1>2, <2>2, KeptLocal DEF IInv, Frame
<1>6. QED
  BY <1>4, <1>5

\* An editor's save of a file disturbs what is known of that file only, and
\* is remembered.
LEMMA SaveLocal ==
  ASSUME IInv, NEW f \in Files, Save(f)
  PROVE  TypeOK' /\ \A t \in Txns : Local(t)'
<1>1. /\ plan' = plan /\ windows' = windows /\ lock' = lock /\ stage' = stage
      /\ backup' = backup /\ journal' = journal /\ job' = job
  BY DEF Save, sidecars
<1>2. PICK c \in Written : disk' = [disk EXCEPT ![f] = c]
  BY DEF Save
<1>3. touched' = [t \in Txns |->
        IF f \notin Dests(t) \/ job[t].pc \in {"observe", "lock", "done"} THEN touched[t]
        ELSE [touched[t] EXCEPT ![f] = IF @ = "late" \/ Rechecked(t, f) THEN "late" ELSE "early"]]
  BY DEF Save
<1>4. /\ touched \in [Txns -> [Files -> {"no", "early", "late"}]]
      /\ disk \in [Files -> Contents] /\ troubles \in 0..MaxTroubles /\ MaxTroubles \in Nat
  BY EditAssumption DEF IInv, TypeOK
<1>5. TypeOK'
  <2>1. troubles' \in 0..MaxTroubles
    BY <1>4 DEF Save, Trouble
  <2>2. disk' \in [Files -> Contents]
    BY <1>2, <1>4 DEF Contents
  <2>3. touched' \in [Txns -> [Files -> {"no", "early", "late"}]]
    BY <1>3, <1>4
  <2>4. QED
    BY <1>1, <2>1, <2>2, <2>3 DEF IInv, TypeOK
<1>6. ASSUME NEW t \in Txns
      PROVE  Local(t)'
  <2>1. Local(t) /\ job[t] \in JobType /\ job[t].held \subseteq Files
    BY DEF IInv, TypeOK, JobType
  <2>2. /\ Edits(t)' = Edits(t) /\ Expected(t)' = Expected(t) /\ Dests(t)' = Dests(t)
        /\ \A n : Done(t, n)' = Done(t, n) /\ Compared(t, n)' = Compared(t, n)
    BY <1>1, Carried
  <2>3. IndexInRange(t)' /\ HeldInOrder(t)' /\ OutcomeIsLast(t)' /\ Staged(t)'
    BY <1>1, <2>1, <2>2 DEF Local, IndexInRange, HeldInOrder, OutcomeIsLast, Staged, Working, Phases
  <2>4. Published(t)' /\ Settled(t)' /\ RolledBack(t)'
    BY <1>1, <2>1, <2>2 DEF Local, Published, Unpublished, NoBackup, Settled, RolledBack
  <2>5. ASSUME NEW g \in job[t].held, g # f
        PROVE  /\ touched[t][g] = touched'[t][g]
               /\ Untouched(t, g) => Untouched(t, g)'
               /\ Trusted(t, g) => Trusted(t, g)'
               /\ Rechecks(t, g)' => Rechecks(t, g)
    <3>1. g \in Files /\ disk'[g] = disk[g]
      BY <1>2, <1>4, <2>1, <2>5
    <3>2. touched[t][g] = touched'[t][g]
      BY <1>3, <1>4, <2>5, <3>1
    <3>3. QED
      BY <1>1, <2>2, <3>1, <3>2 DEF Untouched, Trusted, Rechecks, InPlace, Sampled, BackedUp, Decided
  <2>6. ASSUME f \in job[t].held
        PROVE  /\ touched'[t][f] = "no" => Untouched(t, f)'
               /\ touched'[t][f] # "late" => ~Rechecks(t, f)'
    <3>1. f \in Dests(t) /\ job[t].pc \notin {"observe", "done"}
      BY <2>1, <2>6 DEF Local, HeldInOrder
    <3>2. CASE job[t].pc = "lock"
      <4>1. /\ job[t].existed = {} /\ job[t].ready = {} /\ job[t].moved = {}
        BY <2>1, <3>2 DEF Local, Staged, Published, Unpublished
      <4>2. QED
        BY <1>1, <2>2, <3>2, <4>1 DEF Untouched, Rechecks, InPlace, Sampled, BackedUp
    <3>3. CASE job[t].pc # "lock"
      <4>1. /\ touched'[t][f] # "no"
            /\ Rechecked(t, f) => touched'[t][f] = "late"
        BY <1>3, <1>4, <3>1, <3>3
      <4>2. Rechecks(t, f)' => Rechecked(t, f)
        BY <1>1, <2>2 DEF Rechecks, Rechecked, Compared, At
      <4>3. QED
        BY <4>1, <4>2
    <3>4. QED
      BY <3>2, <3>3
  <2>7. Contained(t)'
    BY <1>1, <2>1, <2>5, <2>6 DEF Local, Contained
  <2>8. QED
    BY <2>3, <2>4, <2>7 DEF Local
<1>7. QED
  BY <1>5, <1>6

\* What a step does to the locks, and to who is refused.
Keeps(t) ==
  /\ lock' = lock /\ job'[t].held = job[t].held /\ job'[t].at = job[t].at
  /\ \/ job'[t].outcome = job[t].outcome
     \/ job[t].outcome = "none" /\ job'[t].outcome \notin {"none", "refused"}

Acquires(t, f) ==
  /\ f \in Dests(t) \ job[t].held /\ lock[f] = NoOne /\ lock' = [lock EXCEPT ![f] = t]
  /\ job'[t].held = job[t].held \cup {f}
  /\ job'[t].outcome = job[t].outcome /\ job'[t].at = job[t].at

Refuses(t, f) ==
  /\ f \in Dests(t) \ job[t].held /\ lock[f] # NoOne /\ lock' = lock
  /\ \A g \in job[t].held : g < f
  /\ job'[t].held = job[t].held
  /\ job[t].outcome = "none" /\ job'[t].outcome = "refused" /\ job'[t].at = f

Releases(t, f) ==
  /\ f \in job[t].held /\ lock' \in {lock, [lock EXCEPT ![f] = NoOne]}
  /\ job'[t].held = job[t].held \ {f} /\ job[t].outcome # "none"
  /\ job'[t].outcome = job[t].outcome /\ job'[t].at = job[t].at

\* Every step is one of the four.
LEMMA LockSteps ==
  ASSUME TypeOK, NEW t \in Txns, Local(t), Step(t) \/ Crash(t)
  PROVE  Keeps(t) \/ \E f \in Files : Acquires(t, f) \/ Refuses(t, f) \/ Releases(t, f)
<1>1. job \in [Txns -> JobType] /\ job[t] \in JobType /\ plan \in Plans
  BY DEF TypeOK
<1>2. CASE Lock(t)
  <2>1. PICK f \in Dests(t) \ job[t].held :
          /\ \/ /\ lock[f] = NoOne
                /\ lock' = [lock EXCEPT ![f] = t]
                /\ job' = [job EXCEPT ![t].held = @ \cup {f},
                             ![t].pc = IF Dests(t) = job[t].held \cup {f} THEN "verify" ELSE @]
             \/ /\ lock[f] # NoOne /\ UNCHANGED lock
                /\ job' = [job EXCEPT ![t].pc = "drop", ![t].outcome = "refused", ![t].at = f]
             \/ Give(t, "drop", "failed") /\ UNCHANGED lock
    BY <1>2 DEF Lock
  <2>2. job[t].pc = "lock" /\ job[t].outcome = "none" /\ f \in Files
        /\ \A g \in job[t].held : g < f
    BY <1>1, <1>2, PlanShape DEF Lock, At, Local, OutcomeIsLast, HeldInOrder
  <2>3. CASE /\ lock[f] = NoOne
             /\ lock' = [lock EXCEPT ![f] = t]
             /\ job' = [job EXCEPT ![t].held = @ \cup {f},
                          ![t].pc = IF Dests(t) = job[t].held \cup {f} THEN "verify" ELSE @]
    <3>1. Acquires(t, f)
      BY <1>1, <2>3 DEF Acquires, JobType
    <3>2. QED
      BY <2>2, <3>1
  <2>4. CASE /\ lock[f] # NoOne /\ UNCHANGED lock
             /\ job' = [job EXCEPT ![t].pc = "drop", ![t].outcome = "refused", ![t].at = f]
    <3>1. Refuses(t, f)
      BY <1>1, <2>2, <2>4 DEF Refuses, JobType
    <3>2. QED
      BY <2>2, <3>1
  <2>5. CASE Give(t, "drop", "failed") /\ UNCHANGED lock
    BY <1>1, <2>2, <2>5 DEF Give, Keeps, JobType
  <2>6. QED
    BY <2>1, <2>3, <2>4, <2>5
<1>3. CASE Drop(t)
  <2>1. CASE job[t].held = {} /\ job' = [job EXCEPT ![t].pc = "done"] /\ lock' = lock
    BY <1>1, <2>1 DEF Keeps, JobType
  <2>2. CASE \E f \in job[t].held :
               /\ job' = [job EXCEPT ![t].held = @ \ {f}]
               /\ lock' = [lock EXCEPT ![f] = NoOne] \/ lock' = lock
    <3>1. PICK f \in job[t].held :
               /\ job' = [job EXCEPT ![t].held = @ \ {f}]
               /\ lock' = [lock EXCEPT ![f] = NoOne] \/ lock' = lock
      BY <2>2
    <3>2. f \in Files /\ job[t].outcome # "none"
      BY <1>1, <1>3, <3>1 DEF JobType, Drop, At, Local, OutcomeIsLast
    <3>3. Releases(t, f)
      BY <1>1, <3>1, <3>2 DEF Releases, JobType
    <3>4. QED
      BY <3>2, <3>3
  <2>3. QED
    BY <1>3, <2>1, <2>2 DEF Drop
<1>4. ASSUME NEW pc, NEW outcome, Give(t, pc, outcome), lock' = lock,
             outcome \notin {"none", "refused"}, job[t].outcome = "none"
      PROVE  Keeps(t)
  BY <1>1, <1>4 DEF Give, Keeps, JobType
<1>5. ASSUME NEW n, NEW next, job' = [job EXCEPT ![t] = Advance(t, n, next)], lock' = lock
      PROVE  Keeps(t)
  BY <1>1, <1>5 DEF Advance, Keeps, JobType
<1>6. CASE Observe(t) \/ Clean(t) \/ Backup(t) \/ Crash(t)
  BY <1>1, <1>6 DEF Observe, Clean, Backup, Crash, Keeps, JobType
<1>7. CASE Verify(t) \/ Reverify(t)
  BY <1>4, <1>5, <1>7 DEF Verify, Reverify, Compare, At, Local, OutcomeIsLast
<1>8. CASE Check(t) \/ WriteJournal(t)
  <2>1. job[t].outcome = "none" /\ lock' = lock
    BY <1>8 DEF Check, WriteJournal, At, Local, OutcomeIsLast
  <2>2. CASE job' = [job EXCEPT ![t].pc = "reverify"] \/ job' = [job EXCEPT ![t].pc = "publish"]
    BY <1>1, <2>1, <2>2 DEF Keeps, JobType
  <2>3. QED
    BY <1>4, <1>8, <2>1, <2>2 DEF Check, WriteJournal
<1>9. CASE Stage(t)
  <2>1. job[t].outcome = "none" /\ lock' = lock
    BY <1>9 DEF Stage, At, Local, OutcomeIsLast
  <2>2. CASE Give(t, "drop", "failed")
    BY <1>4, <2>1, <2>2
  <2>3. CASE \E S : job' = [job EXCEPT ![t] =
                             [Advance(t, Len(Edits(t)), "check") EXCEPT !.existed = S]]
    BY <1>1, <2>1, <2>3 DEF Advance, Keeps, JobType
  <2>4. QED
    BY <1>9, <2>2, <2>3 DEF Stage
<1>10. CASE Rename(t)
  <2>1. CASE \E M : job' = [job EXCEPT ![t] =
                             [Advance(t, Len(Edits(t)), "sweep") EXCEPT !.moved = M]]
    BY <1>1, <1>10, <2>1 DEF Rename, Advance, Keeps, JobType
  <2>2. CASE job' = [job EXCEPT ![t].pc = "rollback", ![t].k = Len(Edits(t))]
    BY <1>1, <1>10, <2>2 DEF Rename, Keeps, JobType
  <2>3. QED
    BY <1>10, <2>1, <2>2 DEF Rename
<1>11. CASE Sweep(t) \/ FinishRollback(t)
  <2>1. job[t].outcome = "none" /\ lock' = lock
    BY <1>11 DEF Sweep, FinishRollback, At, Local, OutcomeIsLast
  <2>2. CASE job' = [job EXCEPT ![t].k = @ + 1]
    BY <1>1, <2>1, <2>2 DEF Keeps, JobType
  <2>3. QED
    BY <1>4, <1>11, <2>1, <2>2 DEF Sweep, FinishRollback
<1>12. CASE RemoveReplacement(t) \/ RestoreOriginal(t)
  <2>1. lock' = lock
    BY <1>12 DEF RemoveReplacement, RestoreOriginal
  <2>2. CASE \E S : job' = [job EXCEPT ![t].moved = S]
    BY <1>1, <2>1, <2>2 DEF Keeps, JobType
  <2>3. CASE \E b : job' = [job EXCEPT ![t].k = @ - 1, ![t].failed = b]
    BY <1>1, <2>1, <2>3 DEF Keeps, JobType
  <2>4. QED
    BY <1>12, <2>2, <2>3 DEF RemoveReplacement, RestoreOriginal, LeaveFile
<1>13. QED
  BY <1>2, <1>3, <1>6, <1>7, <1>8, <1>9, <1>10, <1>11, <1>12 DEF Step

\* A lock file that names t' still names a transaction that holds it or is
\* on its way out.
LEMMA StepLocks ==
  ASSUME IInv, NEW t \in Txns, Step(t) \/ Crash(t)
  PROVE  HeldIsLocked' /\ LocksHaveOwners'
<1>1. /\ TypeOK /\ Local(t) /\ HeldIsLocked /\ LocksHaveOwners /\ NoOne \notin Txns
      /\ lock \in [Files -> Txns \cup {NoOne}]
      /\ \A u \in Txns : job[u].held \subseteq Files
  BY EditAssumption DEF IInv, Shared, TypeOK, JobType
<1>2. \A u \in Txns \ {t} : job'[u] = job[u]
  BY <1>1, Framed DEF Frame, Local
<1>3. job[t].outcome = "refused" => \A g \in job[t].held : g < job[t].at
  BY <1>1 DEF Local, HeldInOrder
<1>4. CASE Keeps(t)
  BY <1>1, <1>2, <1>4 DEF Keeps, HeldIsLocked, LocksHaveOwners, Refused
<1>5. ASSUME NEW f \in Files, Acquires(t, f)
      PROVE  HeldIsLocked' /\ LocksHaveOwners'
  <2>1. HeldIsLocked'
    BY <1>1, <1>2, <1>5 DEF Acquires, HeldIsLocked
  <2>2. LocksHaveOwners'
    BY <1>1, <1>2, <1>5 DEF Acquires, LocksHaveOwners, Refused
  <2>3. QED
    BY <2>1, <2>2
<1>6. ASSUME NEW f \in Files, Refuses(t, f)
      PROVE  HeldIsLocked' /\ LocksHaveOwners'
  BY <1>1, <1>2, <1>6 DEF Refuses, HeldIsLocked, LocksHaveOwners, Refused
<1>7. ASSUME NEW f \in Files, Releases(t, f)
      PROVE  HeldIsLocked' /\ LocksHaveOwners'
  <2>1. HeldIsLocked'
    BY <1>1, <1>2, <1>7 DEF Releases, HeldIsLocked
  <2>2. ASSUME NEW u \in Txns, NEW g \in Files, lock'[g] = u
        PROVE  \/ g \in job'[u].held \/ job'[u].outcome \notin {"none", "refused"}
               \/ (job'[u].outcome = "refused" /\ g < job'[u].at)
    <3>1. lock[g] = u
      BY <1>1, <1>7, <2>2 DEF Releases
    <3>2. CASE u = t
      BY <1>1, <1>3, <1>7, <3>1, <3>2 DEF Releases, LocksHaveOwners, Refused
    <3>3. CASE u # t
      BY <1>1, <1>2, <3>1, <3>3 DEF LocksHaveOwners, Refused
    <3>4. QED
      BY <3>2, <3>3
  <2>3. QED
    BY <2>1, <2>2 DEF LocksHaveOwners, Refused
<1>8. QED
  BY <1>1, <1>4, <1>5, <1>6, <1>7, LockSteps

\* When a transaction is refused, the one that stands in its way, or the one
\* that has got furthest of all, has got at least as far.
LEMMA StepLeads ==
  ASSUME IInv, NEW t \in Txns, Step(t) \/ Crash(t)
  PROVE  SomeoneLeads'
<1>1. /\ TypeOK /\ Local(t) /\ HeldIsLocked /\ LocksHaveOwners /\ SomeoneLeads
      /\ NoOne \notin Txns /\ lock \in [Files -> Txns \cup {NoOne}] /\ Files \subseteq Nat
      /\ \A u \in Txns : job[u].held \subseteq Files /\ job[u].at \in Nat
  BY EditAssumption DEF IInv, Shared, TypeOK, JobType
<1>2. \A u \in Txns \ {t} : job'[u] = job[u]
  BY <1>1, Framed DEF Frame, Local
<1>3. \A u \in Txns : Refused(u) => \A g \in job[u].held : g < job[u].at
  BY DEF IInv, Local, HeldInOrder, Refused
<1>4. ASSUME \A u \in Txns : Refused(u)' => Refused(u) /\ job'[u].at = job[u].at,
             \A u \in Txns : Leads(u) =>
               /\ job'[u].outcome = job[u].outcome \/ job'[u].outcome \notin {"none", "refused"}
               /\ job[u].outcome = "none" => job[u].held \subseteq job'[u].held
      PROVE  SomeoneLeads'
  <2>1. ASSUME NEW u \in Txns, Leads(u)
        PROVE  Leads(u)'
    BY <1>4, <2>1 DEF Leads
  <2>2. QED
    BY <1>1, <1>4, <2>1 DEF SomeoneLeads
<1>5. CASE Keeps(t) \/ \E f \in Files : Acquires(t, f) \/ Releases(t, f)
  <2>1. /\ job'[t].outcome = "refused" => job[t].outcome = "refused" /\ job'[t].at = job[t].at
        /\ job'[t].outcome = job[t].outcome \/ job'[t].outcome \notin {"none", "refused"}
        /\ job[t].outcome = "none" => job[t].held \subseteq job'[t].held
    BY <1>5 DEF Keeps, Acquires, Releases
  <2>2. QED
    BY <1>2, <1>4, <2>1 DEF Refused
<1>6. ASSUME NEW f \in Files, Refuses(t, f)
      PROVE  SomeoneLeads'
  <2>1. PICK v \in Txns : lock[f] = v
    BY <1>1, <1>6 DEF Refuses
  <2>2. /\ \A u \in Txns : Refused(u)' => u = t \/ (Refused(u) /\ job'[u].at = job[u].at)
        /\ ~Refused(t) /\ job'[t].at = f /\ f \notin job[t].held
        /\ \A g \in job[t].held : g < f
    <3>1. ASSUME NEW u \in Txns, Refused(u)'
          PROVE  u = t \/ (Refused(u) /\ job'[u].at = job[u].at)
      BY <1>2, <3>1 DEF Refused
    <3>2. QED
      BY <1>6, <3>1 DEF Refuses, Refused
  <2>3. ASSUME NEW u \in Txns, job[u].outcome \notin {"none", "refused"}
        PROVE  SomeoneLeads'
    <3>1. u # t
      BY <1>6, <2>3 DEF Refuses
    <3>2. Leads(u)'
      BY <1>2, <2>3, <3>1 DEF Leads
    <3>3. QED
      BY <3>2 DEF SomeoneLeads
  <2>4. ASSUME NEW l \in Txns, l # t, job[l].outcome = "none",
               \A u \in Txns : Refused(u) => \E g \in job[l].held : job[u].at <= g,
               \E g \in job[l].held : f <= g
        PROVE  SomeoneLeads'
    <3>1. Leads(l)'
      BY <1>2, <2>2, <2>4 DEF Leads
    <3>2. QED
      BY <3>1 DEF SomeoneLeads
  <2>5. CASE Refused(v) /\ f < job[v].at
    <3>1. PICK l \in Txns : Leads(l)
      BY <1>1, <2>5 DEF SomeoneLeads
    <3>2. CASE job[l].outcome \notin {"none", "refused"}
      BY <2>3, <3>2
    <3>3. CASE job[l].outcome = "none" /\ \A u \in Txns : Refused(u) => \E g \in job[l].held : job[u].at <= g
      <4>1. PICK g \in job[l].held : job[v].at <= g
        BY <2>5, <3>3
      <4>2. f \in Nat /\ g \in Nat /\ job[v].at \in Nat
        BY <1>1
      <4>3. f <= g /\ ~(g < f)
        BY <2>5, <4>1, <4>2
      <4>4. l # t
        BY <2>2, <4>3
      <4>5. QED
        BY <2>4, <3>3, <4>3, <4>4
    <3>4. QED
      BY <3>1, <3>2, <3>3 DEF Leads
  <2>6. CASE f \in job[v].held /\ job[v].outcome = "none"
    <3>1. v # t /\ f <= f
      BY <1>1, <2>2, <2>6
    <3>2. CASE \A u \in Txns : ~Refused(u)
      BY <2>4, <2>6, <3>1, <3>2
    <3>3. CASE \E u \in Txns : Refused(u)
      <4>1. PICK l \in Txns : Leads(l)
        BY <1>1, <3>3 DEF SomeoneLeads
      <4>2. CASE job[l].outcome \notin {"none", "refused"}
        BY <2>3, <4>2
      <4>3. CASE job[l].outcome = "none" /\ \A u \in Txns : Refused(u) => \E g \in job[l].held : job[u].at <= g
        <5>1. CASE l # t /\ \E g \in job[l].held : f <= g
          BY <2>4, <4>3, <5>1
        <5>2. CASE l = t \/ \A g \in job[l].held : ~(f <= g)
          <6>1. \A g \in job[l].held : g < f
            <7>1. f \in Nat /\ \A g \in job[l].held : g \in Nat
              BY <1>1
            <7>2. \A g \in job[l].held : g < f \/ f <= g
              BY <7>1
            <7>3. QED
              BY <2>2, <5>2, <7>2
          <6>2. ASSUME NEW u \in Txns, Refused(u)
                PROVE  job[u].at <= f
            <7>1. PICK g \in job[l].held : job[u].at <= g
              BY <4>3, <6>2
            <7>2. g \in Nat /\ f \in Nat /\ job[u].at \in Nat /\ g < f
              BY <1>1, <6>1
            <7>3. QED
              BY <7>1, <7>2
          <6>3. QED
            BY <2>4, <2>6, <3>1, <6>2
        <5>3. QED
          BY <5>1, <5>2
      <4>4. QED
        BY <4>1, <4>2, <4>3 DEF Leads
    <3>4. QED
      BY <3>2, <3>3
  <2>7. CASE f \in job[v].held /\ Refused(v)
    BY <1>3, <2>5, <2>7
  <2>8. QED
    BY <1>1, <2>1, <2>3, <2>5, <2>6, <2>7 DEF LocksHaveOwners, Refused
<1>7. QED
  BY <1>1, <1>5, <1>6, LockSteps

\* What a step may write to the files and to the backups.
LEMMA StepWrites ==
  ASSUME TypeOK, NEW t \in Txns, Step(t) \/ Crash(t)
  PROVE  \A f \in Files : /\ disk'[f] \in {disk[f], t, Absent, backup[t][f]}
                          /\ backup'[t][f] \in {backup[t][f], disk[f], NoOne, Torn}
<1>1. disk \in [Files -> Contents] /\ backup \in [Txns -> [Files -> Contents \cup {NoOne, Torn}]]
  BY DEF TypeOK
<1>2. CASE Backup(t)
  BY <1>1, <1>2 DEF Backup
<1>3. CASE Rename(t)
  BY <1>1, <1>3 DEF Rename
<1>4. CASE Sweep(t)
  BY <1>1, <1>4 DEF Sweep
<1>5. CASE RemoveReplacement(t)
  BY <1>1, <1>5 DEF RemoveReplacement
<1>6. CASE RestoreOriginal(t)
  BY <1>1, <1>6 DEF RestoreOriginal
<1>7. CASE ~(Backup(t) \/ Rename(t) \/ Sweep(t) \/ RemoveReplacement(t) \/ RestoreOriginal(t))
  BY <1>7 DEF Step, Crash, Observe, Lock, Verify, Reverify, Compare, Stage, Check, Clean,
    WriteJournal, FinishRollback, Drop, sidecars
<1>8. QED
  BY <1>2, <1>3, <1>4, <1>5, <1>6, <1>7

\* What a process has observed changes when it observes, which is its first
\* step.
LEMMA StepObserves ==
  ASSUME TypeOK, NEW t \in Txns, Step(t) \/ Crash(t)
  PROVE  /\ job'[t].pc # "observe"
         /\ \/ job'[t].seen = job[t].seen
            \/ job[t].pc = "observe" /\ job'[t].seen = disk
<1>1. job \in [Txns -> JobType] /\ job[t] \in JobType
  BY DEF TypeOK
<1>2. CASE Observe(t)
  BY <1>1, <1>2 DEF Observe, At, JobType
<1>3. CASE Lock(t)
  <2>1. job'[t].pc # "observe" /\ job'[t].seen = job[t].seen
    <3>1. PICK f \in Dests(t) \ job[t].held :
            \/ job' = [job EXCEPT ![t].held = @ \cup {f},
                         ![t].pc = IF Dests(t) = job[t].held \cup {f} THEN "verify" ELSE @]
            \/ job' = [job EXCEPT ![t].pc = "drop", ![t].outcome = "refused", ![t].at = f]
            \/ Give(t, "drop", "failed")
      BY <1>3 DEF Lock
    <3>2. job[t].pc = "lock"
      BY <1>3 DEF Lock, At
    <3>3. CASE job' = [job EXCEPT ![t].held = @ \cup {f},
                         ![t].pc = IF Dests(t) = job[t].held \cup {f} THEN "verify" ELSE @]
      BY <1>1, <3>2, <3>3 DEF JobType
    <3>4. CASE job' = [job EXCEPT ![t].pc = "drop", ![t].outcome = "refused", ![t].at = f]
      BY <1>1, <3>4 DEF JobType
    <3>5. CASE Give(t, "drop", "failed")
      BY <1>1, <3>5 DEF Give, JobType
    <3>6. QED
      BY <3>1, <3>3, <3>4, <3>5
  <2>2. QED
    BY <2>1
<1>4. ASSUME NEW pc, NEW outcome, pc # "observe", Give(t, pc, outcome)
      PROVE  job'[t].pc # "observe" /\ job'[t].seen = job[t].seen
  BY <1>1, <1>4 DEF Give, JobType
<1>5. ASSUME NEW pc, job' = [job EXCEPT ![t].pc = pc], pc # "observe"
      PROVE  job'[t].pc # "observe" /\ job'[t].seen = job[t].seen
  BY <1>1, <1>5 DEF JobType
<1>6. CASE Verify(t) \/ Reverify(t)
  <2>1. ASSUME NEW n, NEW next, next # "observe", job[t].pc # "observe",
               job' = [job EXCEPT ![t] = Advance(t, n, next)]
        PROVE  job'[t].pc # "observe" /\ job'[t].seen = job[t].seen
    BY <1>1, <2>1 DEF Advance, JobType
  <2>2. job[t].pc # "observe"
    BY <1>6 DEF Verify, Reverify, At
  <2>3. QED
    BY <1>4, <1>6, <2>1, <2>2 DEF Verify, Reverify, Compare
<1>7. CASE Check(t) \/ WriteJournal(t) \/ Clean(t) \/ Crash(t) \/ FinishRollback(t)
  BY <1>4, <1>5, <1>7 DEF Check, WriteJournal, Clean, Crash, FinishRollback
<1>8. CASE Stage(t)
  <2>1. job[t].pc = "stage"
    BY <1>8 DEF Stage, At
  <2>2. CASE \E S : job' = [job EXCEPT ![t] =
                             [Advance(t, Len(Edits(t)), "check") EXCEPT !.existed = S]]
    BY <1>1, <2>1, <2>2 DEF Advance, JobType
  <2>3. QED
    BY <1>4, <1>8, <2>2 DEF Stage
<1>9. CASE Rename(t)
  <2>1. job[t].pc = "publish"
    BY <1>9 DEF Rename, At
  <2>2. CASE \E M : job' = [job EXCEPT ![t] =
                             [Advance(t, Len(Edits(t)), "sweep") EXCEPT !.moved = M]]
    BY <1>1, <2>1, <2>2 DEF Advance, JobType
  <2>3. CASE job' = [job EXCEPT ![t].pc = "rollback", ![t].k = Len(Edits(t))]
    BY <1>1, <2>3 DEF JobType
  <2>4. QED
    BY <1>9, <2>2, <2>3 DEF Rename
<1>10. CASE Backup(t)
  <2>1. job[t].pc = "publish"
    BY <1>10 DEF Backup, At
  <2>2. QED
    BY <1>1, <1>10, <2>1 DEF Backup, JobType
<1>11. CASE Sweep(t)
  <2>1. job[t].pc = "sweep"
    BY <1>11 DEF Sweep, At
  <2>2. CASE job' = [job EXCEPT ![t].k = @ + 1]
    BY <1>1, <2>1, <2>2 DEF JobType
  <2>3. QED
    BY <1>4, <1>11, <2>2 DEF Sweep
<1>12. CASE RemoveReplacement(t) \/ RestoreOriginal(t)
  <2>1. job[t].pc = "rollback"
    BY <1>12 DEF RemoveReplacement, RestoreOriginal, At
  <2>2. CASE \E S : job' = [job EXCEPT ![t].moved = S]
    BY <1>1, <2>1, <2>2 DEF JobType
  <2>3. CASE \E b : job' = [job EXCEPT ![t].k = @ - 1, ![t].failed = b]
    BY <1>1, <2>1, <2>3 DEF JobType
  <2>4. QED
    BY <1>12, <2>2, <2>3 DEF RemoveReplacement, RestoreOriginal, LeaveFile
<1>13. CASE Drop(t)
  <2>1. job[t].pc = "drop"
    BY <1>13 DEF Drop, At
  <2>2. CASE job' = [job EXCEPT ![t].pc = "done"] \/ \E S : job' = [job EXCEPT ![t].held = S]
    BY <1>1, <2>1, <2>2 DEF JobType
  <2>3. QED
    BY <1>13, <2>2 DEF Drop
<1>14. QED
  BY <1>2, <1>3, <1>6, <1>7, <1>8, <1>9, <1>10, <1>11, <1>12, <1>13 DEF Step

\* Nobody meets the content of a transaction that has not begun.
LEMMA StepNotYetWritten ==
  ASSUME IInv, NEW t \in Txns, Step(t) \/ Crash(t)
  PROVE  NotYetWritten'
<1>1. /\ TypeOK /\ NotYetWritten /\ Frame(t)
      /\ \A u \in Txns : u \notin {Absent, NoOne, Torn}
  BY EditAssumption, Framed DEF IInv, Shared, Local, Written
<1>2. ASSUME NEW u \in Txns, NEW f \in Files
      PROVE  job'[u].seen[f] # u
  <2>1. CASE u = t
    BY <1>1, <2>1, StepObserves DEF NotYetWritten
  <2>2. CASE u # t
    BY <1>1, <2>2 DEF NotYetWritten, Frame
  <2>3. QED
    BY <2>1, <2>2
<1>3. ASSUME NEW u \in Txns, NEW f \in Files, job'[u].pc = "observe"
      PROVE  disk'[f] # u /\ \A v \in Txns : backup'[v][f] # u
  <2>1. u # t /\ job[u].pc = "observe"
    BY <1>1, <1>3, StepObserves DEF Frame
  <2>2. disk[f] # u /\ \A v \in Txns : backup[v][f] # u
    BY <1>1, <2>1 DEF NotYetWritten
  <2>3. disk'[f] # u /\ backup'[t][f] # u
    BY <1>1, <2>1, <2>2, StepWrites
  <2>4. \A v \in Txns \ {t} : backup'[v] = backup[v]
    BY <1>1 DEF Frame
  <2>5. QED
    BY <2>2, <2>3, <2>4
<1>4. QED
  BY <1>2, <1>3 DEF NotYetWritten

\* An editor's save concerns nobody's lock.
LEMMA SaveShared ==
  ASSUME IInv, NEW f \in Files, Save(f)
  PROVE  Shared'
<1>1. /\ plan' = plan /\ lock' = lock /\ backup' = backup /\ job' = job
      /\ disk \in [Files -> Contents]
  BY DEF Save, sidecars, IInv, TypeOK
<1>2. HeldIsLocked' /\ LocksHaveOwners' /\ SomeoneLeads'
  BY <1>1 DEF IInv, Shared, HeldIsLocked, LocksHaveOwners, SomeoneLeads, Refused, Leads
<1>3. PICK c \in Written : disk' = [disk EXCEPT ![f] = c]
  BY DEF Save
<1>4. NotYetWritten'
  BY <1>1, <1>3, EditAssumption DEF IInv, Shared, NotYetWritten
<1>5. QED
  BY <1>2, <1>4 DEF Shared

\* Before anything has happened nothing is locked, staged or observed.
LEMMA InitInductive == Init => IInv
<1> SUFFICES ASSUME Init PROVE IInv
  OBVIOUS
<1>1. /\ disk \in [Files -> {Absent, "original"}] /\ plan \in Plans
      /\ Files \subseteq Nat /\ MaxTroubles \in Nat
      /\ \A u \in Txns : u \notin {Absent, "original", NoOne, Torn}
  BY EditAssumption DEF Init, Written
<1>2. disk \in [Files -> Contents]
  BY <1>1 DEF Contents, Written
<1>3. /\ [NewJob EXCEPT !.seen = disk] \in JobType
      /\ job \in [Txns -> JobType] /\ \A t \in Txns : job[t] = [NewJob EXCEPT !.seen = disk]
  <2>1. NewJob \in JobType
    <3>1. [f \in Files |-> Absent] \in [Files -> Contents]
      BY DEF Contents, Written
    <3>2. QED
      BY <3>1 DEF NewJob, JobType, Phases, Outcomes
  <2>2. [NewJob EXCEPT !.seen = disk] \in JobType
    BY <1>2, <2>1, JobField
  <2>3. QED
    BY <2>2 DEF Init
<1>4. \A t \in Txns :
        /\ job[t].pc = "observe" /\ job[t].k = 1 /\ job[t].seen = disk /\ job[t].held = {}
        /\ job[t].existed = {} /\ job[t].ready = {} /\ job[t].moved = {}
        /\ job[t].failed = FALSE /\ job[t].outcome = "none"
        /\ stage[t] = {} /\ \A f \in Files : backup[t][f] = NoOne
  BY <1>3 DEF Init, NewJob
<1>5. TypeOK
  BY <1>1, <1>2, <1>3 DEF Init, TypeOK
<1>6. Shared
  <2>1. HeldIsLocked /\ SomeoneLeads
    BY <1>4 DEF HeldIsLocked, SomeoneLeads, Refused
  <2>2. LocksHaveOwners
    BY <1>1 DEF Init, LocksHaveOwners
  <2>3. NotYetWritten
    <3>1. ASSUME NEW t \in Txns, NEW f \in Files
          PROVE  disk[f] # t /\ \A u \in Txns : backup[u][f] # t
      <4>1. disk[f] \in {Absent, "original"}
        BY <1>1
      <4>2. QED
        BY <1>1, <1>4, <4>1
    <3>2. \A t \in Txns : job[t].seen = disk
      BY <1>4
    <3>3. QED
      BY <3>1, <3>2 DEF NotYetWritten
  <2>4. QED
    BY <2>1, <2>2, <2>3 DEF Shared
<1>7. ASSUME NEW t \in Txns
      PROVE  Local(t)
  <2>1. IndexInRange(t) /\ HeldInOrder(t) /\ OutcomeIsLast(t)
    BY <1>4 DEF IndexInRange, HeldInOrder, OutcomeIsLast, Working
  <2>2. Staged(t) /\ Published(t)
    BY <1>4 DEF Staged, Published, Unpublished, NoBackup
  <2>3. Settled(t) /\ RolledBack(t)
    BY <1>4 DEF Settled, RolledBack
  <2>4. Contained(t)
    BY <1>4 DEF Contained
  <2>5. QED
    BY <2>1, <2>2, <2>3, <2>4 DEF Local
<1>8. QED
  BY <1>5, <1>6, <1>7 DEF IInv

\* Every step keeps the invariant.
LEMMA NextInductive == IInv /\ [Next]_vars => IInv'
<1> SUFFICES ASSUME IInv, [Next]_vars PROVE IInv'
  OBVIOUS
<1>1. ASSUME NEW t \in Txns, Step(t) \/ Crash(t)
      PROVE  IInv'
  BY <1>1, StepLocal, StepLocks, StepLeads, StepNotYetWritten DEF IInv, Shared
<1>2. ASSUME NEW f \in Files, Save(f)
      PROVE  IInv'
  BY <1>2, SaveLocal, SaveShared DEF IInv
<1>3. CASE UNCHANGED vars
  <2>1. TypeOK'
    BY <1>3 DEF IInv, TypeOK, vars, sidecars
  <2>2. Shared'
    BY <1>3 DEF IInv, Shared, HeldIsLocked, LocksHaveOwners, SomeoneLeads, NotYetWritten,
      Refused, Leads, vars, sidecars
  <2>3. \A t \in Txns : Local(t)'
    BY <1>3, KeptLocal DEF IInv, vars, sidecars
  <2>4. QED
    BY <2>1, <2>2, <2>3 DEF IInv
<1>4. QED
  BY <1>1, <1>2, <1>3 DEF Next

\* Only a rename adds to what has been replaced.
LEMMA StepMoves ==
  ASSUME TypeOK, NEW t \in Txns, Step(t) \/ Crash(t), ~Rename(t)
  PROVE  job'[t].moved \subseteq job[t].moved
<1>1. job \in [Txns -> JobType] /\ job[t] \in JobType
  BY DEF TypeOK
<1>2. ASSUME NEW pc, NEW outcome, Give(t, pc, outcome)
      PROVE  job'[t].moved = job[t].moved
  BY <1>1, <1>2 DEF Give, JobType
<1>3. ASSUME NEW pc, job' = [job EXCEPT ![t].pc = pc]
      PROVE  job'[t].moved = job[t].moved
  BY <1>1, <1>3 DEF JobType
<1>4. CASE Observe(t) \/ Backup(t)
  <2>1. CASE Observe(t)
    BY <1>1, <2>1 DEF Observe, JobType
  <2>2. CASE Backup(t)
    <3>1. CASE \E S : job' = [job EXCEPT ![t].ready = S]
      BY <1>1, <3>1 DEF JobType
    <3>2. CASE job' = [job EXCEPT ![t].pc = "rollback", ![t].k = Len(Edits(t))]
      BY <1>1, <3>2 DEF JobType
    <3>3. QED
      BY <2>2, <3>1, <3>2 DEF Backup
  <2>3. QED
    BY <1>4, <2>1, <2>2
<1>5. CASE Lock(t)
  <2>1. PICK f \in Dests(t) \ job[t].held :
          \/ job' = [job EXCEPT ![t].held = @ \cup {f},
                       ![t].pc = IF Dests(t) = job[t].held \cup {f} THEN "verify" ELSE @]
          \/ job' = [job EXCEPT ![t].pc = "drop", ![t].outcome = "refused", ![t].at = f]
          \/ Give(t, "drop", "failed")
    BY <1>5 DEF Lock
  <2>2. CASE job' = [job EXCEPT ![t].held = @ \cup {f},
                       ![t].pc = IF Dests(t) = job[t].held \cup {f} THEN "verify" ELSE @]
    BY <1>1, <2>2 DEF JobType
  <2>3. CASE job' = [job EXCEPT ![t].pc = "drop", ![t].outcome = "refused", ![t].at = f]
    BY <1>1, <2>3 DEF JobType
  <2>4. QED
    BY <1>2, <2>1, <2>2, <2>3
<1>6. CASE Verify(t) \/ Reverify(t)
  <2>1. ASSUME NEW n, NEW next, job' = [job EXCEPT ![t] = Advance(t, n, next)]
        PROVE  job'[t].moved = job[t].moved
    BY <1>1, <2>1 DEF Advance, JobType
  <2>2. QED
    BY <1>2, <1>6, <2>1 DEF Verify, Reverify, Compare
<1>7. CASE Check(t) \/ WriteJournal(t) \/ Clean(t) \/ Crash(t) \/ FinishRollback(t)
  BY <1>2, <1>3, <1>7 DEF Check, WriteJournal, Clean, Crash, FinishRollback
<1>8. CASE Stage(t)
  <2>1. CASE \E S : job' = [job EXCEPT ![t] =
                             [Advance(t, Len(Edits(t)), "check") EXCEPT !.existed = S]]
    BY <1>1, <2>1 DEF Advance, JobType
  <2>2. QED
    BY <1>2, <1>8, <2>1 DEF Stage
<1>9. CASE Sweep(t)
  <2>1. CASE job' = [job EXCEPT ![t].k = @ + 1]
    BY <1>1, <2>1 DEF JobType
  <2>2. QED
    BY <1>2, <1>9, <2>1 DEF Sweep
<1>10. CASE RemoveReplacement(t) \/ RestoreOriginal(t)
  <2>1. CASE \E f : job' = [job EXCEPT ![t].moved = @ \ {f}]
    BY <1>1, <2>1 DEF JobType
  <2>2. CASE \E b : job' = [job EXCEPT ![t].k = @ - 1, ![t].failed = b]
    BY <1>1, <2>2 DEF JobType
  <2>3. QED
    BY <1>10, <2>1, <2>2 DEF RemoveReplacement, RestoreOriginal, LeaveFile
<1>11. CASE Drop(t)
  <2>1. CASE \E S : job' = [job EXCEPT ![t].held = S]
    BY <1>1, <2>1 DEF JobType
  <2>2. QED
    BY <1>3, <1>11, <2>1 DEF Drop
<1>12. QED
  BY <1>4, <1>5, <1>6, <1>7, <1>8, <1>9, <1>10, <1>11 DEF Step
-----------------------------------------------------------------------------
(* What is known of every transaction, and of the locks they share, holds   *)
(* from the start and is kept by every step of every process, every call    *)
(* that fails, every kill and every editor save.                            *)
THEOREM TransactionInvariant == Spec => []IInv
BY InitInductive, NextInductive, PTL DEF Spec

(* What the processes remember and the files they leave stay of their types. *)
THEOREM TransactionTypeOK == Spec => []TypeOK
<1>1. IInv => TypeOK
  BY DEF IInv
<1>2. QED
  BY <1>1, TransactionInvariant, PTL

(* A process at work owns the lock of every destination, whatever failed or *)
(* crashed before it.                                                       *)
THEOREM DestinationsAreOwned == Spec => []OwnsDestinations
<1>1. IInv => OwnsDestinations
  BY DEF IInv, OwnsDestinations, Shared, HeldIsLocked, Local, HeldInOrder, Working
<1>2. QED
  BY <1>1, TransactionInvariant, PTL

(* Wherever a transaction stops, an original that is gone is in a backup the *)
(* journal names, and a success leaves nothing behind.                       *)
THEOREM SidecarsTellTheTruth == Spec => []SidecarsAreTrue
<1>1. IInv => OriginalsRecoverable
  <2> SUFFICES ASSUME IInv, NEW t \in Txns, NEW f \in Dests(t),
                      f \in job[t].held, ~Decided(t), touched[t][f] = "no",
                      disk[f] \in {t, Absent}, f \in job[t].existed
               PROVE  backup[t][f] = job[t].seen[f] /\ journal[t] = "whole"
    BY DEF OriginalsRecoverable
  <2>1. Untouched(t, f)
    BY DEF IInv, Local, Contained
  <2>2. QED
    BY <2>1 DEF Untouched
<1>2. IInv => SuccessLeavesNothing
  BY DEF IInv, SuccessLeavesNothing, Local, Settled, Staged, NoBackup, Decided
<1>3. QED
  BY <1>1, <1>2, TransactionInvariant, PTL DEF SidecarsAreTrue

(* Transactions that want the same files never all refuse: the one that has  *)
(* got furthest along the sorted destinations is not refused.                *)
THEOREM NotAllAreRefused == Spec => []SomeoneProceeds
<1>1. IInv => SomeoneProceeds
  BY EditAssumption DEF IInv, Shared, SomeoneLeads, Leads, Refused, SomeoneProceeds
<1>2. QED
  BY <1>1, TransactionInvariant, PTL

(* A rename lands on the content the transaction was computed from, unless   *)
(* an editor saved the file after the second comparison.                     *)
THEOREM RenamesReplaceVerified == Spec => PublishesVerified
<1>1. ASSUME IInv, [Next]_vars, NEW t \in Txns, NEW f \in job'[t].moved \ job[t].moved
      PROVE  touched[t][f] = "late" \/ Replaced(t, f) = job[t].seen[f]
  <2>1. TypeOK /\ Local(t) /\ job \in [Txns -> JobType] /\ job[t] \in JobType /\ plan \in Plans
    BY <1>1 DEF IInv, TypeOK
  <2>2. job' # job
    BY <1>1
  <2>3. PICK u \in Txns : Step(u) \/ Crash(u)
    BY <1>1, <2>2 DEF Next, Save, vars
  <2>4. u = t
    <3>1. Frame(u)
      BY <1>1, <2>3, Framed DEF IInv, Local
    <3>2. QED
      BY <1>1, <3>1 DEF Frame
  <2>5. Rename(t)
    BY <1>1, <2>1, <2>3, <2>4, StepMoves
  <2>6. At(t, "publish") /\ f = Current(t)
    <3>1. At(t, "publish") /\ job[t].pc = "publish"
      BY <2>5 DEF Rename, At
    <3>2. CASE job' = [job EXCEPT ![t] =
                  [Advance(t, Len(Edits(t)), "sweep") EXCEPT !.moved = @ \cup {Current(t)}]]
      BY <1>1, <2>1, <3>1, <3>2 DEF Advance, JobType
    <3>3. CASE job' = [job EXCEPT ![t].pc = "rollback", ![t].k = Len(Edits(t))]
      BY <1>1, <2>1, <3>3 DEF JobType
    <3>4. QED
      BY <2>5, <3>1, <3>2, <3>3 DEF Rename
  <2>7. f \in job[t].held
    <3>1. job[t].k \in 1..Len(Edits(t)) /\ job[t].held = Dests(t)
      BY <2>1, <2>6 DEF At, Local, IndexInRange, HeldInOrder, Working, Phases
    <3>2. QED
      BY <2>1, <2>6, <3>1, PlanShape DEF Current
  <2>8. touched[t][f] # "late" => Trusted(t, f)
    BY <2>1, <2>6, <2>7 DEF At, Local, Contained, Rechecks
  <2>9. QED
    BY <1>1, <2>8 DEF Trusted, Replaced
<1>2. IInv /\ [Next]_vars
        => [\A t \in Txns : \A f \in job'[t].moved \ job[t].moved :
              touched[t][f] = "late" \/ Replaced(t, f) = job[t].seen[f]]_vars
  BY <1>1
<1>3. QED
  BY <1>2, TransactionInvariant, PTL DEF Spec, PublishesVerified
-----------------------------------------------------------------------------
(* The refinement of AtomicEdits.  What a file holds once every journal is  *)
(* honoured is decided by the transaction whose lock it is under.           *)
View(t, f) ==
  IF Displaced(t, f) THEN IF f \in job[t].existed THEN backup[t][f] ELSE Absent
  ELSE disk[f]

HonouredView(f) ==
  /\ Disputed(f) => Honoured(f) = Unsettled
  /\ \A t \in Txns : ~Disputed(f) /\ lock[f] = t => Honoured(f) = View(t, f)
  /\ ~Disputed(f) /\ lock[f] \notin Txns => Honoured(f) = disk[f]

\* A file's honoured content is the view of the transaction that holds it.
LEMMA HonouredIsView ==
  ASSUME NEW f
  PROVE  HonouredView(f) /\ HonouredView(f)'
<1>1. HonouredView(f)
  <2>1. \A u \in Txns : Displaced(u, f) => lock[f] = u
    BY DEF Displaced
  <2>2. ASSUME NEW t \in Txns, Displaced(t, f)
        PROVE  (CHOOSE u \in Txns : Displaced(u, f)) = t
    BY <2>1, <2>2
  <2>3. QED
    BY <2>1, <2>2 DEF HonouredView, Honoured, View
<1>2. HonouredView(f)'
  <2>1. \A u \in Txns : Displaced(u, f)' => lock'[f] = u
    BY DEF Displaced
  <2>2. ASSUME NEW t \in Txns, Displaced(t, f)'
        PROVE  (CHOOSE u \in Txns : Displaced(u, f))' = t
    BY <2>1, <2>2
  <2>3. QED
    BY <2>1, <2>2 DEF HonouredView, Honoured, View
<1>3. QED
  BY <1>1, <1>2

\* What the caller has been told, case by case.
Told(t) ==
  /\ job[t].outcome = "ok" => Status(t) = "ok"
  /\ job[t].outcome = "unswept" => Status(t) = "unsure"
  /\ job[t].outcome = "rollbackFailed" => Status(t) = "abandoned"
  /\ job[t].outcome \in {"refused", "stale", "failed", "restored"} => Status(t) = "failed"
  /\ job[t].outcome = "none" /\ Decided(t) => Status(t) = "applied"
  /\ job[t].outcome = "none" /\ ~Decided(t) => Status(t) = "open"

\* The refinement's status agrees with each outcome the code reports.
LEMMA ToldIsStatus ==
  ASSUME NEW t
  PROVE  Told(t) /\ Told(t)'
<1>1. Told(t)
  BY DEF Told, Status
<1>2. Told(t)'
  BY DEF Told, Status
<1>3. QED
  BY <1>1, <1>2

\* Who wins or loses the lock of a file.
LEMMA LocksMove ==
  ASSUME IInv, NEW t \in Txns, Step(t) \/ Crash(t), NEW f \in Files
  PROVE  \/ lock'[f] = lock[f]
         \/ lock[f] = NoOne /\ lock'[f] = t
         \/ lock[f] = t /\ lock'[f] = NoOne
<1>1. /\ TypeOK /\ Local(t) /\ HeldIsLocked /\ lock \in [Files -> Txns \cup {NoOne}]
  BY DEF IInv, Shared, TypeOK
<1>2. QED
  BY <1>1, LockSteps DEF Keeps, Acquires, Refuses, Releases, HeldIsLocked

\* A step of t does not change what files under other locks hold.
LEMMA OthersHonoured ==
  ASSUME IInv, NEW t \in Txns, Step(t) \/ Crash(t), NEW f \in Files,
         lock[f] # t, lock'[f] # t, Disputed(f)' = Disputed(f)
  PROVE  Honoured(f)' = Honoured(f)
<1>1. Frame(t) /\ HeldIsLocked /\ lock \in [Files -> Txns \cup {NoOne}] /\ NoOne \notin Txns
  BY Framed, MarksAreNoContent DEF IInv, Shared, TypeOK, Local
<1>2. lock'[f] = lock[f] /\ disk'[f] = disk[f]
  BY <1>1, LocksMove DEF Frame, HeldIsLocked
<1>3. ASSUME NEW u \in Txns, lock[f] = u
      PROVE  View(u, f)' = View(u, f)
  <2>1. u # t /\ job'[u] = job[u] /\ backup'[u] = backup[u] /\ Dests(u)' = Dests(u)
    BY <1>1, <1>3, Carried DEF Frame
  <2>2. Displaced(u, f)' = Displaced(u, f)
    BY <1>2, <2>1 DEF Displaced, Decided
  <2>3. QED
    BY <1>2, <2>1, <2>2 DEF View
<1>4. HonouredView(f) /\ HonouredView(f)'
  BY HonouredIsView
<1>5. QED
  BY <1>2, <1>3, <1>4 DEF HonouredView

\* A dispute begins with a save or with a failed rollback.
LEMMA DisputesKept ==
  ASSUME NEW t \in Txns, Frame(t), NEW f,
         \/ f \notin Dests(t)
         \/ job'[t].outcome = "rollbackFailed" <=> job[t].outcome = "rollbackFailed"
  PROVE  Disputed(f)' = Disputed(f)
<1>1. touched' = touched /\ \A u \in Txns : Dests(u)' = Dests(u)
  BY Carried DEF Frame
<1>2. \A u \in Txns \ {t} : job'[u].outcome = job[u].outcome
  BY DEF Frame
<1>3. \A u \in Txns : (f \in Dests(u) /\ job'[u].outcome = "rollbackFailed")
                        <=> (f \in Dests(u) /\ job[u].outcome = "rollbackFailed")
  BY <1>2
<1>4. QED
  BY <1>1, <1>3 DEF Disputed

\* Nor does it change what the other callers have been told.
LEMMA OthersTold ==
  ASSUME NEW t \in Txns, Frame(t), NEW u \in Txns \ {t}
  PROVE  Status(u)' = Status(u) /\ job'[u].seen = job[u].seen
<1>1. job'[u] = job[u] /\ Dests(u)' = Dests(u)
  BY Carried DEF Frame
<1>2. QED
  BY <1>1 DEF Status, Decided

Content      == [f \in Files |-> Honoured(f)]
Seen         == [t \in Txns |-> job[t].seen]
Statuses     == [t \in Txns |-> Status(t)]
Destinations == [t \in Txns |-> Dests(t)]

\* A step that nobody can tell from the promise standing still.
LEMMA PromiseRests ==
  ASSUME plan' = plan, \A f \in Files : Honoured(f)' = Honoured(f),
         \A u \in Txns : Status(u)' = Status(u) /\ job'[u].seen = job[u].seen
  PROVE  UNCHANGED <<Content, Seen, Statuses, Destinations>>
BY Carried DEF Content, Seen, Statuses, Destinations

\* A step that is a report to the caller.
LEMMA PromiseReports ==
  ASSUME NEW t \in Txns, Frame(t), \A f \in Files : Honoured(f)' = Honoured(f),
         job'[t].seen = job[t].seen,
         \/ Status(t) = "applied" /\ Status(t)' \in {"ok", "unsure"}
         \/ Status(t) = "open" /\ Status(t)' = "failed"
  PROVE  Promise!Next
<1>1. plan' = plan /\ \A u \in Txns \ {t} : Status(u)' = Status(u) /\ job'[u].seen = job[u].seen
  BY OthersTold DEF Frame
<1>2. UNCHANGED <<Content, Seen, Destinations>>
  BY <1>1, Carried DEF Content, Seen, Destinations
<1>3. Statuses' = [Statuses EXCEPT ![t] = Status(t)'] /\ Statuses[t] = Status(t)
  BY <1>1 DEF Statuses
<1>4. Promise!Report(t)
  BY <1>2, <1>3 DEF Promise!Report, Content, Seen, Statuses, Destinations
<1>5. QED
  BY <1>4 DEF Promise!Next

\* A step that only changes what the files under its own locks consist of.
LEMMA QuietSteps ==
  ASSUME IInv, NEW t \in Txns, Step(t) \/ Crash(t),
         job'[t].seen = job[t].seen,
         job'[t].outcome = "rollbackFailed" <=> job[t].outcome = "rollbackFailed",
         \A f \in Files : (lock[f] = t \/ lock'[f] = t) /\ ~Disputed(f) => View(t, f)' = View(t, f),
         \/ Status(t)' = Status(t)
         \/ Status(t) = "applied" /\ Status(t)' \in {"ok", "unsure"}
         \/ Status(t) = "open" /\ Status(t)' = "failed"
  PROVE  Promise!Next \/ UNCHANGED <<Content, Seen, Statuses, Destinations>>
<1>1. Frame(t) /\ NoOne \notin Txns
  BY Framed, MarksAreNoContent DEF IInv, Local
<1>2. ASSUME NEW f \in Files
      PROVE  Honoured(f)' = Honoured(f)
  <2>1. Disputed(f)' = Disputed(f) /\ HonouredView(f) /\ HonouredView(f)'
    BY <1>1, DisputesKept, HonouredIsView
  <2>2. CASE lock[f] # t /\ lock'[f] # t
    BY <2>1, <2>2, OthersHonoured
  <2>3. CASE Disputed(f)
    BY <2>1, <2>3 DEF HonouredView
  <2>4. CASE (lock[f] = t \/ lock'[f] = t) /\ ~Disputed(f)
    <3>1. View(t, f)' = View(t, f)
      BY <2>4
    <3>2. Honoured(f) = View(t, f)
      <4>1. lock[f] = NoOne => View(t, f) = disk[f]
        BY <1>1 DEF View, Displaced
      <4>2. QED
        BY <1>1, <2>1, <2>4, <4>1, LocksMove DEF HonouredView
    <3>3. Honoured(f)' = View(t, f)'
      <4>1. lock'[f] = NoOne => View(t, f)' = disk'[f]
        BY <1>1 DEF View, Displaced
      <4>2. QED
        BY <1>1, <2>1, <2>4, <4>1, LocksMove DEF HonouredView
    <3>4. QED
      BY <3>1, <3>2, <3>3
  <2>5. QED
    BY <2>2, <2>3, <2>4
<1>3. CASE Status(t)' = Status(t)
  <2>1. plan' = plan /\ \A u \in Txns : Status(u)' = Status(u) /\ job'[u].seen = job[u].seen
    BY <1>1, <1>3, OthersTold DEF Frame
  <2>2. QED
    BY <1>2, <2>1, PromiseRests
<1>4. QED
  BY <1>1, <1>2, <1>3, PromiseReports

\* What a transaction does before it publishes leaves nothing to honour.
LEMMA PlainEffect ==
  ASSUME TypeOK, NEW t \in Txns, Local(t),
         \/ Lock(t) \/ Verify(t) \/ Stage(t) \/ Check(t) \/ Reverify(t) \/ Clean(t)
         \/ WriteJournal(t)
  PROVE  /\ job[t].ready = {} /\ job[t].moved = {} /\ job'[t].ready = {} /\ job'[t].moved = {}
         /\ job'[t].seen = job[t].seen /\ disk' = disk
         /\ \/ job'[t].outcome = job[t].outcome
            \/ job[t].outcome = "none" /\ job'[t].outcome \in {"refused", "stale", "failed"}
<1>1. job \in [Txns -> JobType] /\ job[t] \in JobType
  BY DEF TypeOK
<1>2. Unpublished(t) /\ disk' = disk
  BY DEF Unpublished, Lock, Verify, Reverify, Compare, Stage, Check, Clean, WriteJournal, At
<1>3. job[t].ready = {} /\ job[t].moved = {}
  BY <1>2 DEF Local, Published
<1> DEFINE Same == /\ job'[t].ready = job[t].ready /\ job'[t].moved = job[t].moved
                   /\ job'[t].seen = job[t].seen
<1>4. ASSUME NEW pc, NEW outcome, Give(t, pc, outcome)
      PROVE  Same /\ job'[t].outcome = outcome
  BY <1>1, <1>4 DEF Give, JobType
<1>5. ASSUME NEW pc, job' = [job EXCEPT ![t].pc = pc]
      PROVE  Same /\ job'[t].outcome = job[t].outcome
  BY <1>1, <1>5 DEF JobType
<1>6. ASSUME NEW n, NEW next, job' = [job EXCEPT ![t] = Advance(t, n, next)]
      PROVE  Same /\ job'[t].outcome = job[t].outcome
  BY <1>1, <1>6 DEF Advance, JobType
<1>7. ASSUME NEW S, job' = [job EXCEPT ![t] =
                              [Advance(t, Len(Edits(t)), "check") EXCEPT !.existed = S]]
      PROVE  Same /\ job'[t].outcome = job[t].outcome
  BY <1>1, <1>7 DEF Advance, JobType
<1>8. ASSUME NEW f,
             job' = [job EXCEPT ![t].held = @ \cup {f},
                       ![t].pc = IF Dests(t) = job[t].held \cup {f} THEN "verify" ELSE @]
      PROVE  Same /\ job'[t].outcome = job[t].outcome
  BY <1>1, <1>8 DEF JobType
<1>9. ASSUME NEW f,
             job' = [job EXCEPT ![t].pc = "drop", ![t].outcome = "refused", ![t].at = f]
      PROVE  Same /\ job'[t].outcome = "refused"
  BY <1>1, <1>9 DEF JobType
<1> HIDE DEF Same
<1>10. CASE Clean(t)
  BY <1>2, <1>3, <1>5, <1>10 DEF Clean, Same
<1>11. CASE ~Clean(t)
  <2>1. job[t].outcome = "none"
    BY <1>11 DEF Lock, Verify, Reverify, Compare, Stage, Check, WriteJournal, At,
      Local, OutcomeIsLast
  <2>2. \/ Same /\ job'[t].outcome = "none"
        \/ Same /\ job'[t].outcome \in {"refused", "stale", "failed"}
    <3>1. CASE Lock(t)
      BY <2>1, <3>1, <1>4, <1>8, <1>9 DEF Lock
    <3>2. CASE Stage(t)
      BY <2>1, <3>2, <1>4, <1>7 DEF Stage
    <3>3. CASE Verify(t) \/ Reverify(t) \/ Check(t) \/ WriteJournal(t)
      BY <2>1, <3>3, <1>4, <1>5, <1>6 DEF Verify, Reverify, Compare, Check, WriteJournal
    <3>4. QED
      BY <1>11, <3>1, <3>2, <3>3
  <2>3. QED
    BY <1>2, <1>3, <2>1, <2>2 DEF Same
<1>12. QED
  BY <1>10, <1>11

\* Such a step is a report, or none.
LEMMA PlainStep ==
  ASSUME IInv, NEW t \in Txns,
         \/ Lock(t) \/ Verify(t) \/ Stage(t) \/ Check(t) \/ Reverify(t) \/ Clean(t)
         \/ WriteJournal(t)
  PROVE  Promise!Next \/ UNCHANGED <<Content, Seen, Statuses, Destinations>>
<1>1. TypeOK /\ Local(t) /\ Step(t) /\ plan \in Plans
  BY DEF IInv, TypeOK, Step
<1>2. /\ job[t].ready = {} /\ job[t].moved = {} /\ job'[t].ready = {} /\ job'[t].moved = {}
      /\ job'[t].seen = job[t].seen /\ disk' = disk
      /\ \/ job'[t].outcome = job[t].outcome
         \/ job[t].outcome = "none" /\ job'[t].outcome \in {"refused", "stale", "failed"}
  BY <1>1, PlainEffect
<1>3. \A f \in Files : View(t, f)' = View(t, f)
  BY <1>2 DEF View, Displaced
<1>4. ~Decided(t) /\ ~Decided(t)'
  <2>1. Dests(t)' = Dests(t) /\ Dests(t) # {}
    BY <1>1, Framed, Carried, PlanShape DEF Frame, Local
  <2>2. QED
    BY <1>2, <2>1 DEF Decided
<1>5. Status(t)' = Status(t) \/ (Status(t) = "open" /\ Status(t)' = "failed")
  <2>1. CASE job'[t].outcome = job[t].outcome
    BY <1>4, <2>1 DEF Status
  <2>2. CASE job[t].outcome = "none" /\ job'[t].outcome \in {"refused", "stale", "failed"}
    BY <1>4, <2>2, ToldIsStatus DEF Told
  <2>3. QED
    BY <1>2, <2>1, <2>2
<1>6. QED
  BY <1>1, <1>2, <1>3, <1>5, QuietSteps

\* A process that is killed leaves things as they are.
LEMMA CrashStep ==
  ASSUME IInv, NEW t \in Txns, Crash(t)
  PROVE  Promise!Next \/ UNCHANGED <<Content, Seen, Statuses, Destinations>>
<1>1. /\ job[t] \in JobType /\ job \in [Txns -> JobType] /\ Dests(t)' = Dests(t)
      /\ disk' = disk /\ lock' = lock /\ backup' = backup /\ job' = [job EXCEPT ![t].pc = "crashed"]
  BY Carried DEF IInv, TypeOK, Crash, Rest, sidecars
<1>2. /\ job'[t].seen = job[t].seen /\ job'[t].outcome = job[t].outcome
      /\ job'[t].existed = job[t].existed /\ job'[t].ready = job[t].ready
      /\ job'[t].moved = job[t].moved
  BY <1>1 DEF JobType
<1>3. \A f \in Files : View(t, f)' = View(t, f)
  BY <1>1, <1>2 DEF View, Displaced, Decided
<1>4. Status(t)' = Status(t)
  BY <1>1, <1>2 DEF Status, Decided
<1>5. QED
  BY <1>2, <1>3, <1>4, QuietSteps

\* Observing is a step of the promise.
LEMMA ObserveStep ==
  ASSUME IInv, NEW t \in Txns, Observe(t)
  PROVE  Promise!Next
<1>1. /\ job[t] \in JobType /\ job \in [Txns -> JobType] /\ Dests(t)' = Dests(t)
      /\ disk \in [Files -> Contents] /\ plan \in Plans
      /\ disk' = disk /\ lock' = lock /\ backup' = backup /\ job[t].pc = "observe"
      /\ job' = [job EXCEPT ![t].seen = disk, ![t].pc = "lock"]
      /\ Frame(t) /\ plan' = plan /\ Local(t) /\ Step(t)
  BY Carried, Framed DEF IInv, Local, TypeOK, Observe, At, Rest, sidecars, Step
<1>2. /\ job'[t].seen = disk /\ job'[t].outcome = job[t].outcome
      /\ job'[t].existed = job[t].existed /\ job'[t].ready = job[t].ready
      /\ job'[t].moved = job[t].moved
  BY <1>1 DEF JobType
<1>3. job[t].outcome = "none" /\ job[t].moved = {} /\ job[t].ready = {}
  BY <1>1 DEF Local, OutcomeIsLast, Published, Unpublished
<1>4. ~Decided(t) /\ Status(t) = "open" /\ Status(t)' = "open"
  <2>1. ~Decided(t) /\ ~Decided(t)'
    BY <1>1, <1>2, <1>3, PlanShape DEF Decided
  <2>2. QED
    BY <1>2, <1>3, <2>1, ToldIsStatus DEF Told
<1>5. \A f \in Files : View(t, f)' = View(t, f)
  BY <1>2, <1>3, <1>1 DEF View, Displaced
<1>6. ASSUME NEW f \in Files
      PROVE  Honoured(f)' = Honoured(f)
  <2>1. Disputed(f)' = Disputed(f) /\ HonouredView(f) /\ HonouredView(f)'
    BY <1>1, <1>2, DisputesKept, HonouredIsView
  <2>2. CASE lock[f] # t
    BY <1>1, <2>1, <2>2, OthersHonoured
  <2>3. CASE lock[f] = t
    BY <1>1, <1>5, <2>1, <2>3 DEF HonouredView
  <2>4. QED
    BY <2>2, <2>3
<1>7. UNCHANGED <<Content, Destinations, Statuses>>
  BY <1>1, <1>4, <1>6, OthersTold, Carried DEF Content, Destinations, Statuses
<1>8. /\ \A u \in Txns \ {t} : Seen'[u] = Seen[u]
      /\ Seen'[t] \in [Files -> Contents] /\ Statuses[t] = "open"
  BY <1>1, <1>2, <1>4, OthersTold DEF Seen, Statuses
<1>9. Promise!Observe(t)
  BY <1>7, <1>8 DEF Promise!Observe, Content, Seen, Statuses, Destinations
<1>10. QED
  BY <1>9 DEF Promise!Next

\* While t publishes or rolls back, the files under its locks are its
\* destinations.
LEMMA LockedAreDests ==
  ASSUME IInv, NEW t \in Txns, job[t].pc \in {"publish", "sweep", "rollback"}
  PROVE  /\ job[t].outcome = "none" /\ job[t].held = Dests(t)
         /\ \A f \in Files : lock[f] = t <=> f \in Dests(t)
<1>1. job[t].outcome = "none" /\ job[t].held = Dests(t)
  BY DEF IInv, Local, OutcomeIsLast, HeldInOrder, Working, Phases
<1>2. Dests(t) \subseteq Files
  BY PlanShape DEF IInv, TypeOK
<1>3. QED
  BY <1>1, <1>2 DEF IInv, Shared, HeldIsLocked, LocksHaveOwners, Refused

\* An undisputed file nobody has saved is as its transaction left it.
LEMMA UndisputedIsUntouched ==
  ASSUME IInv, NEW t \in Txns, NEW f \in job[t].held, ~Disputed(f)
  PROVE  Untouched(t, f) /\ touched[t][f] = "no"
<1>1. touched[t][f] = "no"
  BY DEF Disputed
<1>2. QED
  BY <1>1 DEF IInv, Local, Contained

\* The file a loop over the edits is at.
LEMMA CurrentFile ==
  ASSUME IInv, NEW t \in Txns, job[t].k \in 1..Len(Edits(t))
  PROVE  /\ Current(t) \in Dests(t) /\ Current(t) \in Files
         /\ Done(t, job[t].k) = Done(t, job[t].k - 1) \cup {Current(t)}
         /\ Current(t) \notin Done(t, job[t].k - 1)
         /\ Done(t, job[t].k) \subseteq Dests(t)
         /\ job[t].k \in Nat /\ Len(Edits(t)) \in Nat
<1>1. plan \in Plans
  BY DEF IInv, TypeOK
<1>2. QED
  BY <1>1, PlanShape, DoneSteps DEF Current

\* Setting an original aside: the backup now stands for the file.
LEMMA BackupStep ==
  ASSUME IInv, NEW t \in Txns, Backup(t)
  PROVE  Promise!Next \/ UNCHANGED <<Content, Seen, Statuses, Destinations>>
<1>1. /\ job[t] \in JobType /\ job \in [Txns -> JobType] /\ Dests(t)' = Dests(t)
      /\ disk \in [Files -> Contents] /\ backup \in [Txns -> [Files -> Contents \cup {NoOne, Torn}]]
      /\ lock' = lock /\ job[t].pc = "publish" /\ Local(t)
      /\ Current(t) \in job[t].existed \ job[t].ready
  BY Carried DEF IInv, TypeOK, Backup, At, Rest
<1>2. /\ Current(t) \in Dests(t) /\ Current(t) \in Files
      /\ Current(t) \notin Done(t, job[t].k - 1)
      /\ job[t].moved = Done(t, job[t].k - 1) /\ job[t].outcome = "none"
      /\ \A f \in Files : lock[f] = t <=> f \in Dests(t)
  BY <1>1, CurrentFile, LockedAreDests DEF Local, IndexInRange, Published
<1>3. /\ job'[t].seen = job[t].seen /\ job'[t].outcome = job[t].outcome
      /\ job'[t].existed = job[t].existed /\ job'[t].moved = job[t].moved
      /\ \/ /\ job'[t].ready = job[t].ready \cup {Current(t)}
            /\ backup' = [backup EXCEPT ![t][Current(t)] = disk[Current(t)]]
         \/ /\ job'[t].ready = job[t].ready /\ disk' = disk
            /\ \/ backup' = backup
               \/ \E b : backup' = [backup EXCEPT ![t][Current(t)] = b]
  <2>1. CASE /\ backup' = [backup EXCEPT ![t][Current(t)] = disk[Current(t)]]
             /\ job' = [job EXCEPT ![t].ready = @ \cup {Current(t)}]
    BY <1>1, <2>1 DEF JobType
  <2>2. CASE /\ disk' = disk
             /\ \/ backup' = backup
                \/ \E b : backup' = [backup EXCEPT ![t][Current(t)] = b]
             /\ job' = [job EXCEPT ![t].pc = "rollback", ![t].k = Len(Edits(t))]
    BY <1>1, <2>2 DEF JobType
  <2>3. QED
    BY <2>1, <2>2 DEF Backup
<1>4. \A f \in Files : f # Current(t) => disk'[f] = disk[f] /\ backup'[t][f] = backup[t][f]
  BY <1>1, <1>2 DEF Backup
<1>5. ~Decided(t) /\ ~Decided(t)' /\ Status(t)' = Status(t)
  BY <1>1, <1>2, <1>3 DEF Decided, Status
<1>6. ASSUME NEW f \in Files
      PROVE  View(t, f)' = View(t, f)
  <2>1. CASE f # Current(t)
    BY <1>1, <1>3, <1>4, <1>5, <2>1 DEF View, Displaced
  <2>2. CASE f = Current(t) /\ job'[t].ready = job[t].ready
    BY <1>1, <1>3, <2>2 DEF View, Displaced
  <2>3. CASE /\ f = Current(t) /\ job'[t].ready = job[t].ready \cup {Current(t)}
             /\ backup' = [backup EXCEPT ![t][Current(t)] = disk[Current(t)]]
    <3>1. backup'[t][f] = disk[f] /\ disk[f] # NoOne /\ lock[f] = t
      BY <1>1, <1>2, <2>3, MarksAreNoContent
    <3>2. View(t, f) = disk[f]
      BY <1>1, <2>3 DEF View, Displaced
    <3>3. View(t, f)' = disk[f]
      BY <1>1, <1>3, <1>5, <2>3, <3>1 DEF View, Displaced
    <3>4. QED
      BY <3>2, <3>3
  <2>4. QED
    BY <1>3, <2>1, <2>2, <2>3
<1>7. QED
  BY <1>3, <1>5, <1>6, QuietSteps DEF Step

\* Replacing the last destination applies the transaction; replacing one
\* before it, or failing to, changes nothing the journal does not tell.
LEMMA RenameStep ==
  ASSUME IInv, NEW t \in Txns, Rename(t)
  PROVE  Promise!Next \/ UNCHANGED <<Content, Seen, Statuses, Destinations>>
<1>1. /\ job[t] \in JobType /\ job \in [Txns -> JobType] /\ Dests(t)' = Dests(t)
      /\ disk \in [Files -> Contents] /\ backup \in [Txns -> [Files -> Contents \cup {NoOne, Torn}]]
      /\ lock' = lock /\ backup' = backup /\ job[t].pc = "publish" /\ Local(t)
      /\ Current(t) \notin job[t].existed \ job[t].ready
      /\ plan \in Plans /\ plan' = plan
  BY Carried DEF IInv, TypeOK, Rename, At, Rest
<1>2. /\ job[t].k \in 1..Len(Edits(t)) /\ job[t].k \in Nat /\ Len(Edits(t)) \in Nat
      /\ Current(t) \in Dests(t) /\ Current(t) \in Files
      /\ Done(t, job[t].k) = Done(t, job[t].k - 1) \cup {Current(t)}
      /\ Current(t) \notin Done(t, job[t].k - 1)
      /\ job[t].moved = Done(t, job[t].k - 1) /\ job[t].outcome = "none"
      /\ job[t].moved \cap job[t].existed \subseteq job[t].ready
      /\ job[t].ready \subseteq job[t].existed
      /\ \A f \in job[t].ready : backup[t][f] \in Contents
      /\ job[t].held = Dests(t) /\ \A f \in Files : lock[f] = t <=> f \in Dests(t)
  BY <1>1, CurrentFile, LockedAreDests DEF Local, IndexInRange, Published
<1>3. Frame(t) /\ Step(t)
  BY <1>1, Framed DEF IInv, Local, Step
<1>4. ~Decided(t) /\ Status(t) = "open"
  <2>1. ~Decided(t)
    BY <1>2 DEF Decided
  <2>2. QED
    BY <1>2, <2>1, ToldIsStatus DEF Told
<1>5. CASE job' = [job EXCEPT ![t].pc = "rollback", ![t].k = Len(Edits(t))] /\ disk' = disk
  <2>1. /\ job'[t].seen = job[t].seen /\ job'[t].outcome = job[t].outcome
        /\ job'[t].existed = job[t].existed /\ job'[t].moved = job[t].moved
        /\ job'[t].ready = job[t].ready
    BY <1>1, <1>5 DEF JobType
  <2>2. Status(t)' = Status(t) /\ \A f \in Files : View(t, f)' = View(t, f)
    BY <1>1, <1>5, <2>1 DEF Status, Decided, View, Displaced
  <2>3. QED
    BY <1>3, <2>1, <2>2, QuietSteps
<1>6. CASE /\ disk' = [disk EXCEPT ![Current(t)] = t]
           /\ job' = [job EXCEPT ![t] =
                [Advance(t, Len(Edits(t)), "sweep") EXCEPT !.moved = @ \cup {Current(t)}]]
  <2>1. /\ job'[t].seen = job[t].seen /\ job'[t].outcome = job[t].outcome
        /\ job'[t].existed = job[t].existed /\ job'[t].ready = job[t].ready
        /\ job'[t].moved = job[t].moved \cup {Current(t)}
    BY <1>1, <1>6 DEF Advance, JobType
  <2>2. disk'[Current(t)] = t /\ \A f \in Files : f # Current(t) => disk'[f] = disk[f]
    BY <1>1, <1>2, <1>6
  <2>3. CASE job[t].k < Len(Edits(t))
    <3>1. ~Decided(t)'
      <4>1. job[t].k + 1 \in 1..Len(Edits(t)) /\ (job[t].k + 1) - 1 = job[t].k
        BY <1>2, <2>3
      <4>2. Edits(t)[job[t].k + 1] \in Dests(t) /\ Edits(t)[job[t].k + 1] \notin Done(t, job[t].k)
        BY <1>1, <4>1, PlanShape, DoneSteps
      <4>3. QED
        BY <1>1, <1>2, <2>1, <4>2 DEF Decided
    <3>2. ASSUME NEW f \in Files, lock[f] = t, ~Disputed(f)
          PROVE  View(t, f)' = View(t, f)
      <4>1. CASE f # Current(t) \/ f \in job[t].existed
        BY <1>1, <1>2, <1>4, <2>1, <2>2, <3>1, <3>2, <4>1, MarksAreNoContent DEF View, Displaced
      <4>2. CASE f = Current(t) /\ f \notin job[t].existed
        <5>1. Untouched(t, f)
          BY <1>2, <3>2, UndisputedIsUntouched
        <5>2. disk[f] = Absent
          BY <1>1, <1>2, <4>2, <5>1 DEF Untouched, InPlace, Sampled
        <5>3. QED
          BY <1>1, <1>2, <1>4, <2>1, <3>1, <3>2, <4>2, <5>2 DEF View, Displaced
      <4>3. QED
        BY <4>1, <4>2
    <3>3. Status(t)' = Status(t)
      BY <1>4, <2>1, <3>1 DEF Status
    <3>4. QED
      BY <1>1, <1>3, <2>1, <3>2, <3>3, QuietSteps
  <2>4. CASE ~(job[t].k < Len(Edits(t)))
    <3>1. Done(t, job[t].k) = Dests(t) /\ Decided(t)'
      <4>1. job[t].k = Len(Edits(t))
        BY <1>2, <2>4
      <4>2. QED
        BY <1>1, <1>2, <2>1, <4>1, PlanShape DEF Decided
    <3>2. Status(t)' = "applied"
      BY <1>2, <2>1, <3>1, ToldIsStatus DEF Told
    <3>3. ASSUME NEW f \in Files
          PROVE  Disputed(f)' = Disputed(f) /\ HonouredView(f) /\ HonouredView(f)'
      BY <1>3, <2>1, DisputesKept, HonouredIsView
    <3>4. ASSUME NEW f \in Dests(t), Disputed(f)
          PROVE  Honoured(f) = Unsettled /\ Honoured(f)' = Unsettled
      BY <1>1, <3>3, <3>4, PlanShape DEF HonouredView
    <3>5. ASSUME NEW f \in Dests(t), ~Disputed(f)
          PROVE  Honoured(f) = job[t].seen[f] /\ Honoured(f) # Unsettled /\ Honoured(f)' = t
      <4>1. f \in Files /\ lock[f] = t /\ f \in Done(t, job[t].k) /\ job[t].seen[f] \in Contents
        BY <1>1, <1>2, <3>1, PlanShape DEF JobType
      <4>2. Untouched(t, f)
        BY <1>2, <3>5, UndisputedIsUntouched
      <4>3. View(t, f) = job[t].seen[f]
        <5>1. CASE f \in job[t].ready
          <6>1. backup[t][f] = job[t].seen[f] /\ backup[t][f] # NoOne /\ f \in job[t].existed
            BY <1>1, <1>2, <4>2, <5>1, MarksAreNoContent DEF Untouched, BackedUp
          <6>2. QED
            BY <1>4, <4>1, <5>1, <6>1 DEF View, Displaced
        <5>2. CASE f \notin job[t].ready /\ f \in job[t].moved
          <6>1. f \notin job[t].existed /\ job[t].seen[f] = Absent
            BY <1>1, <1>2, <4>2, <5>2 DEF Untouched, Sampled
          <6>2. QED
            BY <1>4, <4>1, <5>2, <6>1 DEF View, Displaced
        <5>3. CASE f \notin job[t].ready /\ f \notin job[t].moved
          <6>1. disk[f] = job[t].seen[f]
            BY <1>1, <4>2, <5>3 DEF Untouched, InPlace
          <6>2. QED
            BY <5>3, <6>1 DEF View, Displaced
        <5>4. QED
          BY <5>1, <5>2, <5>3
      <4>4. View(t, f)' = t
        <5>1. View(t, f)' = disk'[f]
          BY <3>1 DEF View, Displaced
        <5>2. disk'[f] = t
          BY <1>1, <1>2, <2>2, <4>1, <4>2 DEF Untouched
        <5>3. QED
          BY <5>1, <5>2
      <4>5. QED
        BY <1>1, <3>3, <3>5, <4>1, <4>3, <4>4, MarksAreNoContent DEF HonouredView
    <3>6. ASSUME NEW f \in Files \ Dests(t)
          PROVE  Honoured(f)' = Honoured(f)
      BY <1>1, <1>2, <1>3, <3>3, <3>6, OthersHonoured
    <3>7. /\ Statuses[t] = "open" /\ Statuses' = [Statuses EXCEPT ![t] = "applied"]
          /\ Seen' = Seen /\ Destinations' = Destinations
      BY <1>1, <1>3, <1>4, <2>1, <3>2, OthersTold, Carried DEF Statuses, Seen, Destinations
    <3>8. /\ \A f \in Dests(t) : Content[f] # Unsettled => Content[f] = Seen[t][f]
          /\ Content' = [f \in Files |-> IF f \in Dests(t) /\ Content[f] # Unsettled
                                         THEN t ELSE Content[f]]
      <4>1. Dests(t) \subseteq Files
        BY <1>1, PlanShape
      <4>2. QED
        BY <3>4, <3>5, <3>6, <4>1 DEF Content, Seen
    <3>9. Promise!Apply(t)
      BY <3>7, <3>8 DEF Promise!Apply, Promise!Known, Content, Seen, Statuses, Destinations
    <3>10. QED
      BY <3>9 DEF Promise!Next
  <2>5. QED
    BY <2>3, <2>4
<1>7. QED
  BY <1>5, <1>6 DEF Rename

\* Removing the backups of what is replaced.
LEMMA SweepStep ==
  ASSUME IInv, NEW t \in Txns, Sweep(t)
  PROVE  Promise!Next \/ UNCHANGED <<Content, Seen, Statuses, Destinations>>
<1>1. /\ job[t] \in JobType /\ job \in [Txns -> JobType] /\ Dests(t)' = Dests(t)
      /\ lock' = lock /\ disk' = disk /\ job[t].pc = "sweep" /\ Local(t)
  BY Carried DEF IInv, TypeOK, Sweep, At, Rest
<1>2. Decided(t) /\ job[t].outcome = "none" /\ Status(t) = "applied"
  <2>1. Decided(t) /\ job[t].outcome = "none"
    BY <1>1 DEF Local, Settled, OutcomeIsLast, Decided
  <2>2. QED
    BY <2>1, ToldIsStatus DEF Told
<1>3. /\ job'[t].seen = job[t].seen /\ job'[t].moved = job[t].moved
      /\ job'[t].outcome \in {"none", "ok", "unswept"}
  <2>1. CASE job' = [job EXCEPT ![t].k = @ + 1]
    BY <1>1, <1>2, <2>1 DEF JobType
  <2>2. CASE Give(t, "drop", "ok") \/ Give(t, "drop", "unswept")
    BY <1>1, <2>2 DEF Give, JobType
  <2>3. QED
    BY <2>1, <2>2 DEF Sweep
<1>4. Decided(t)' /\ Status(t)' \in {"applied", "ok", "unsure"}
  <2>1. Decided(t)'
    BY <1>1, <1>2, <1>3 DEF Decided
  <2>2. QED
    BY <1>3, <2>1, ToldIsStatus DEF Told
<1>5. \A f \in Files : View(t, f)' = View(t, f)
  BY <1>1, <1>2, <1>4 DEF View, Displaced
<1>6. QED
  BY <1>2, <1>3, <1>4, <1>5, QuietSteps DEF Step

\* Taking a replacement away: its original is still in the backup, or there
\* was none.
LEMMA RemoveReplacementStep ==
  ASSUME IInv, NEW t \in Txns, RemoveReplacement(t)
  PROVE  Promise!Next \/ UNCHANGED <<Content, Seen, Statuses, Destinations>>
<1>1. /\ job[t] \in JobType /\ job \in [Txns -> JobType] /\ Dests(t)' = Dests(t)
      /\ disk \in [Files -> Contents] /\ lock' = lock /\ backup' = backup
      /\ job[t].pc = "rollback" /\ Local(t) /\ Current(t) \in job[t].moved
      /\ job[t].k > 0 /\ plan \in Plans
  BY Carried DEF IInv, TypeOK, RemoveReplacement, At, Rest
<1>2. job[t].k \in 1..Len(Edits(t))
  BY <1>1, PlanShape DEF Local, IndexInRange
<1>3. /\ Current(t) \in Dests(t) /\ Current(t) \in Files /\ Current(t) \in Done(t, job[t].k)
      /\ job[t].moved # Dests(t) /\ job[t].moved \subseteq Dests(t) /\ job[t].outcome = "none"
      /\ job[t].moved \cap job[t].existed \subseteq job[t].ready
      /\ \A f \in job[t].ready \cap Done(t, job[t].k) : backup[t][f] \in Contents
      /\ \A f \in Files : lock[f] = t <=> f \in Dests(t)
  BY <1>1, <1>2, CurrentFile, LockedAreDests DEF Local, Published, RolledBack
<1>4. CASE LeaveFile(t, Current(t), TRUE) /\ disk' = disk
  <2>1. /\ job'[t].seen = job[t].seen /\ job'[t].outcome = job[t].outcome
        /\ job'[t].existed = job[t].existed /\ job'[t].moved = job[t].moved
        /\ job'[t].ready = job[t].ready
    BY <1>1, <1>4 DEF LeaveFile, JobType
  <2>2. Status(t)' = Status(t) /\ \A f \in Files : View(t, f)' = View(t, f)
    BY <1>1, <1>4, <2>1 DEF Status, Decided, View, Displaced
  <2>3. QED
    BY <2>1, <2>2, QuietSteps DEF Step
<1>5. CASE /\ disk' = [disk EXCEPT ![Current(t)] = Absent]
           /\ job' = [job EXCEPT ![t].moved = @ \ {Current(t)}]
  <2>1. /\ job'[t].seen = job[t].seen /\ job'[t].outcome = job[t].outcome
        /\ job'[t].existed = job[t].existed /\ job'[t].ready = job[t].ready
        /\ job'[t].moved = job[t].moved \ {Current(t)}
    BY <1>1, <1>5 DEF JobType
  <2>2. disk'[Current(t)] = Absent /\ \A f \in Files : f # Current(t) => disk'[f] = disk[f]
    BY <1>1, <1>3, <1>5
  <2>3. ~Decided(t) /\ ~Decided(t)' /\ Status(t)' = Status(t)
    <3>1. ~Decided(t) /\ ~Decided(t)'
      BY <1>1, <1>3, <2>1 DEF Decided
    <3>2. QED
      BY <2>1, <3>1 DEF Status
  <2>4. ASSUME NEW f \in Files, lock[f] = t
        PROVE  View(t, f)' = View(t, f)
    <3>1. CASE f # Current(t)
      BY <1>1, <2>1, <2>2, <2>3, <3>1 DEF View, Displaced
    <3>2. CASE f = Current(t) /\ f \in job[t].existed
      <4>1. f \in job[t].ready /\ backup[t][f] # NoOne
        BY <1>1, <1>3, <3>2, MarksAreNoContent
      <4>2. QED
        BY <1>1, <2>1, <2>3, <2>4, <3>2, <4>1 DEF View, Displaced
    <3>3. CASE f = Current(t) /\ f \notin job[t].existed
      BY <1>1, <2>1, <2>2, <2>3, <2>4, <3>3 DEF View, Displaced
    <3>4. QED
      BY <3>1, <3>2, <3>3
  <2>5. QED
    BY <1>1, <2>1, <2>3, <2>4, QuietSteps DEF Step
<1>6. QED
  BY <1>4, <1>5 DEF RemoveReplacement

\* Putting an original back: the file now stands for its backup.
LEMMA RestoreOriginalStep ==
  ASSUME IInv, NEW t \in Txns, RestoreOriginal(t)
  PROVE  Promise!Next \/ UNCHANGED <<Content, Seen, Statuses, Destinations>>
<1>1. /\ job[t] \in JobType /\ job \in [Txns -> JobType] /\ Dests(t)' = Dests(t)
      /\ disk \in [Files -> Contents] /\ backup \in [Txns -> [Files -> Contents \cup {NoOne, Torn}]]
      /\ lock' = lock /\ job[t].pc = "rollback" /\ Local(t) /\ Current(t) \notin job[t].moved
      /\ job[t].k > 0 /\ plan \in Plans
  BY Carried DEF IInv, TypeOK, RestoreOriginal, At, Rest
<1>2. job[t].k \in 1..Len(Edits(t))
  BY <1>1, PlanShape DEF Local, IndexInRange
<1>3. /\ Current(t) \in Dests(t) /\ Current(t) \in Files /\ Current(t) \in Done(t, job[t].k)
      /\ job[t].moved # Dests(t) /\ job[t].outcome = "none"
      /\ job[t].ready \subseteq job[t].existed
      /\ \A f \in job[t].ready \cap Done(t, job[t].k) : backup[t][f] \in Contents
  <2>1. Current(t) \in Dests(t) /\ Current(t) \in Files /\ Current(t) \in Done(t, job[t].k)
    BY <1>2, CurrentFile
  <2>2. job[t].outcome = "none"
    BY <1>1, LockedAreDests
  <2>3. job[t].ready \subseteq job[t].existed
    BY <1>1 DEF Local, Published
  <2>4. /\ job[t].moved # Dests(t)
        /\ \A f \in job[t].ready \cap Done(t, job[t].k) : backup[t][f] \in Contents
    BY <1>1 DEF Local, RolledBack
  <2>5. QED
    BY <2>1, <2>2, <2>3, <2>4
<1>4. /\ job'[t].seen = job[t].seen /\ job'[t].outcome = job[t].outcome
      /\ job'[t].existed = job[t].existed /\ job'[t].moved = job[t].moved
      /\ job'[t].ready = job[t].ready
  BY <1>1 DEF RestoreOriginal, LeaveFile, JobType
<1>5. ~Decided(t) /\ ~Decided(t)' /\ Status(t)' = Status(t)
  <2>1. ~Decided(t) /\ ~Decided(t)'
    BY <1>1, <1>3, <1>4 DEF Decided
  <2>2. QED
    BY <1>4, <2>1 DEF Status
<1>6. \A f \in Files : f # Current(t) => disk'[f] = disk[f] /\ backup'[t][f] = backup[t][f]
  BY <1>1, <1>3 DEF RestoreOriginal
<1>7. ASSUME NEW f \in Files, lock[f] = t
      PROVE  View(t, f)' = View(t, f)
  <2>1. CASE f # Current(t) \/ (disk' = disk /\ backup' = backup)
    BY <1>1, <1>4, <1>5, <1>6, <1>7, <2>1 DEF View, Displaced
  <2>2. CASE /\ f = Current(t) /\ f \in job[t].ready
             /\ disk' = [disk EXCEPT ![f] = backup[t][f]]
             /\ backup' = [backup EXCEPT ![t][f] = NoOne]
    <3>1. /\ f \in job[t].existed /\ backup[t][f] # NoOne
          /\ disk'[f] = backup[t][f] /\ backup'[t][f] = NoOne
      BY <1>1, <1>3, <2>2, MarksAreNoContent
    <3>2. View(t, f) = backup[t][f]
      BY <1>5, <1>7, <2>2, <3>1 DEF View, Displaced
    <3>3. View(t, f)' = disk'[f]
      BY <1>4, <2>2, <3>1 DEF View, Displaced
    <3>4. QED
      BY <3>1, <3>2, <3>3
  <2>3. CASE f = Current(t) /\ f \notin job[t].ready /\ disk' = disk
    BY <1>1, <1>4, <2>3 DEF View, Displaced
  <2>4. QED
    BY <2>1, <2>2, <2>3 DEF RestoreOriginal
<1>8. QED
  BY <1>1, <1>4, <1>5, <1>7, QuietSteps DEF Step

\* The end of a rollback is a report, or the one failure that settles nothing.
LEMMA FinishRollbackStep ==
  ASSUME IInv, NEW t \in Txns, FinishRollback(t)
  PROVE  Promise!Next \/ UNCHANGED <<Content, Seen, Statuses, Destinations>>
<1>1. /\ job[t] \in JobType /\ job \in [Txns -> JobType] /\ Dests(t)' = Dests(t)
      /\ lock' = lock /\ backup' = backup /\ disk' = disk
      /\ job[t].pc = "rollback" /\ Local(t) /\ plan \in Plans /\ plan' = plan
  BY Carried DEF IInv, TypeOK, FinishRollback, At, Rest
<1>2. /\ ~Decided(t) /\ job[t].outcome = "none" /\ Status(t) = "open"
      /\ \A f \in Files : lock[f] = t <=> f \in Dests(t)
  <2>1. ~Decided(t) /\ job[t].outcome = "none" /\ \A f \in Files : lock[f] = t <=> f \in Dests(t)
    BY <1>1, LockedAreDests DEF Local, RolledBack, Decided
  <2>2. QED
    BY <2>1, ToldIsStatus DEF Told
<1>3. ASSUME NEW pc, NEW outcome, Give(t, pc, outcome)
      PROVE  /\ job'[t].seen = job[t].seen /\ job'[t].outcome = outcome
             /\ job'[t].existed = job[t].existed /\ job'[t].moved = job[t].moved
             /\ job'[t].ready = job[t].ready
  BY <1>1, <1>3 DEF Give, JobType
<1>4. CASE Give(t, "drop", "restored")
  <2>1. Status(t)' = "failed"
    BY <1>3, <1>4, ToldIsStatus DEF Told
  <2>2. \A f \in Files : View(t, f)' = View(t, f)
    BY <1>1, <1>3, <1>4 DEF View, Displaced, Decided
  <2>3. QED
    BY <1>2, <1>3, <1>4, <2>1, <2>2, QuietSteps DEF Step
<1>5. CASE Give(t, "drop", "rollbackFailed")
  <2>1. Status(t)' = "abandoned" /\ Frame(t) /\ Step(t)
    BY <1>1, <1>3, <1>5, ToldIsStatus, Framed DEF Told, Step, IInv, Local
  <2>2. ASSUME NEW f \in Files \ Dests(t)
        PROVE  Honoured(f)' = Honoured(f)
    BY <1>1, <1>2, <2>1, DisputesKept, OthersHonoured
  <2>3. ASSUME NEW f \in Dests(t)
        PROVE  Honoured(f)' = Unsettled
    <3>1. Disputed(f)'
      BY <1>1, <1>3, <1>5 DEF Disputed
    <3>2. QED
      BY <3>1, HonouredIsView DEF HonouredView
  <2>4. /\ Statuses[t] = "open" /\ Statuses' = [Statuses EXCEPT ![t] = "abandoned"]
        /\ Seen' = Seen /\ Destinations' = Destinations
    BY <1>1, <1>2, <1>3, <1>5, <2>1, OthersTold, Carried DEF Statuses, Seen, Destinations
  <2>5. Content' = [f \in Files |-> IF f \in Dests(t) THEN Unsettled ELSE Content[f]]
    BY <2>2, <2>3 DEF Content
  <2>6. Promise!Abandon(t)
    BY <2>4, <2>5 DEF Promise!Abandon, Content, Seen, Statuses, Destinations
  <2>7. QED
    BY <2>6 DEF Promise!Next
<1>6. QED
  BY <1>4, <1>5 DEF FinishRollback

\* Letting go of a lock: by then the file speaks for itself.
LEMMA DropStep ==
  ASSUME IInv, NEW t \in Txns, Drop(t)
  PROVE  Promise!Next \/ UNCHANGED <<Content, Seen, Statuses, Destinations>>
<1>1. /\ job[t] \in JobType /\ job \in [Txns -> JobType] /\ Dests(t)' = Dests(t)
      /\ backup' = backup /\ disk' = disk /\ job[t].pc = "drop" /\ Local(t)
      /\ lock \in [Files -> Txns \cup {NoOne}] /\ NoOne \notin Txns
      /\ job[t].outcome \in Outcomes
  BY Carried, MarksAreNoContent DEF IInv, TypeOK, Drop, At, Rest, sidecars, JobType
<1>2. /\ job'[t].seen = job[t].seen /\ job'[t].outcome = job[t].outcome
      /\ job'[t].existed = job[t].existed /\ job'[t].moved = job[t].moved
      /\ job'[t].ready = job[t].ready
  <2>1. CASE job' = [job EXCEPT ![t].pc = "done"] \/ \E S : job' = [job EXCEPT ![t].held = S]
    BY <1>1, <2>1 DEF JobType
  <2>2. QED
    BY <2>1 DEF Drop
<1>3. Status(t)' = Status(t) /\ Decided(t)' = Decided(t)
  BY <1>1, <1>2 DEF Status, Decided
<1>4. ASSUME NEW f \in Files, lock'[f] = lock[f]
      PROVE  View(t, f)' = View(t, f)
  BY <1>1, <1>2, <1>3, <1>4 DEF View, Displaced
<1>5. ASSUME NEW f \in job[t].held, ~Disputed(f)
      PROVE  ~Displaced(t, f)
  <2>1. job[t].outcome \notin {"none", "rollbackFailed"}
    BY <1>1, <1>5 DEF Disputed, Local, OutcomeIsLast, HeldInOrder
  <2>2. CASE job[t].outcome \in {"ok", "unswept"}
    BY <1>1, <2>2 DEF Local, Settled, Displaced, Decided
  <2>3. CASE job[t].outcome \in {"refused", "stale", "failed"}
    BY <1>1, <2>3 DEF Local, Published, Unpublished, Displaced
  <2>4. CASE job[t].outcome = "restored"
    <3>1. job[t].moved = {} /\ NoBackup(t) /\ f \in Files
      BY <1>1, <2>4 DEF Local, RolledBack, JobType
    <3>2. QED
      BY <3>1 DEF NoBackup, Displaced
  <2>5. QED
    BY <1>1, <2>1, <2>2, <2>3, <2>4 DEF Outcomes
<1>6. ASSUME NEW f \in Files, lock[f] = t \/ lock'[f] = t, ~Disputed(f)
      PROVE  View(t, f)' = View(t, f)
  <2>1. CASE lock'[f] = lock[f]
    BY <1>4, <2>1
  <2>2. CASE lock'[f] # lock[f]
    <3>1. f \in job[t].held /\ lock'[f] = NoOne
      BY <1>1, <2>2 DEF Drop
    <3>2. View(t, f) = disk[f] /\ View(t, f)' = disk'[f]
      BY <1>1, <1>5, <1>6, <3>1 DEF View, Displaced
    <3>3. QED
      BY <1>1, <3>2
  <2>3. QED
    BY <2>1, <2>2
<1>7. QED
  BY <1>2, <1>3, <1>6, QuietSteps DEF Step

\* An editor's save is a step of the promise's editor.
LEMMA SaveStep ==
  ASSUME IInv, NEW f \in Files, Save(f)
  PROVE  Promise!Next
<1>1. /\ plan' = plan /\ lock' = lock /\ backup' = backup /\ job' = job
      /\ disk \in [Files -> Contents] /\ touched \in [Txns -> [Files -> {"no", "early", "late"}]]
      /\ backup \in [Txns -> [Files -> Contents \cup {NoOne, Torn}]]
  BY DEF Save, sidecars, IInv, TypeOK
<1>2. /\ disk'[f] \in Contents /\ \A g \in Files : g # f => disk'[g] = disk[g]
      /\ \A g \in Files : g # f => \A t \in Txns : touched'[t][g] = touched[t][g]
  BY <1>1 DEF Save, Contents
<1>3. \A t \in Txns : Dests(t)' = Dests(t) /\ Decided(t)' = Decided(t) /\ Status(t)' = Status(t)
  BY <1>1, Carried DEF Decided, Status
<1>4. \A t \in Txns : \A g \in Files : Displaced(t, g)' = Displaced(t, g)
  BY <1>1, <1>3 DEF Displaced
<1>5. ASSUME NEW g \in Files, g # f
      PROVE  Honoured(g)' = Honoured(g)
  <2>1. Disputed(g)' = Disputed(g)
    BY <1>1, <1>2, <1>3, <1>5 DEF Disputed
  <2>2. \A t \in Txns : View(t, g)' = View(t, g)
    BY <1>1, <1>2, <1>4, <1>5 DEF View
  <2>3. QED
    BY <1>1, <1>2, <1>5, <2>1, <2>2, HonouredIsView DEF HonouredView
<1>6. Honoured(f)' \in Contents \cup {Unsettled}
  <2>1. ASSUME NEW t \in Txns
        PROVE  View(t, f)' \in Contents
    <3>1. CASE Displaced(t, f) /\ f \in job[t].existed
      <4>1. View(t, f)' = backup[t][f] /\ backup[t][f] # NoOne /\ f \in job[t].ready
        BY <1>1, <1>4, <3>1 DEF View, Displaced
      <4>2. backup[t][f] # Torn
        BY <4>1 DEF IInv, Local, Published
      <4>3. QED
        BY <1>1, <4>1, <4>2
    <3>2. CASE ~(Displaced(t, f) /\ f \in job[t].existed)
      BY <1>1, <1>2, <1>4, <3>2, MarksAreNoContent DEF View
    <3>3. QED
      BY <3>1, <3>2
  <2>2. QED
    BY <1>1, <1>2, <2>1, HonouredIsView DEF HonouredView
<1>7. /\ Content' = [Content EXCEPT ![f] = Honoured(f)']
      /\ Seen' = Seen /\ Statuses' = Statuses /\ Destinations' = Destinations
  BY <1>1, <1>3, <1>5 DEF Content, Seen, Statuses, Destinations
<1>8. Promise!Save(f)
  BY <1>6, <1>7 DEF Promise!Save, Content, Seen, Statuses, Destinations
<1>9. QED
  BY <1>8 DEF Promise!Next

\* The files at first are what the promise starts from.
LEMMA PromiseBegins == Init => Promise!Init
<1> SUFFICES ASSUME Init PROVE Promise!Init
  OBVIOUS
<1>1. IInv /\ disk \in [Files -> Contents] /\ plan \in Plans
  BY InitInductive DEF IInv, TypeOK
<1>2. \A t \in Txns : /\ job[t].seen = disk /\ job[t].outcome = "none" /\ job[t].moved = {}
                      /\ Dests(t) \subseteq Files /\ Dests(t) # {}
  BY <1>1, PlanShape DEF Init, NewJob
<1>3. \A t \in Txns : Status(t) = "open"
  BY <1>2, ToldIsStatus DEF Told, Decided
<1>4. ASSUME NEW f \in Files
      PROVE  Honoured(f) = disk[f]
  <2>1. ~Disputed(f) /\ lock[f] \notin Txns
    BY <1>2, MarksAreNoContent DEF Init, Disputed
  <2>2. QED
    BY <2>1, HonouredIsView DEF HonouredView
<1>5. [f \in Files |-> Honoured(f)] = disk
  BY <1>1, <1>4
<1>6. QED
  BY <1>1, <1>2, <1>3, <1>5 DEF Promise!Init

(* All or nothing: read through the journals, the steps of every process,   *)
(* its failures, its being killed and the editor's saves are the steps of   *)
(* AtomicEdits, each once or not at all.                                    *)
THEOREM TransactionIsAtomic == Spec => AllOrNothing
<1>1. IInv /\ [Next]_vars
        => Promise!Next \/ UNCHANGED <<Content, Seen, Statuses, Destinations>>
  <2> SUFFICES ASSUME IInv, [Next]_vars
               PROVE  Promise!Next \/ UNCHANGED <<Content, Seen, Statuses, Destinations>>
    OBVIOUS
  <2>1. ASSUME NEW t \in Txns, Step(t) \/ Crash(t)
        PROVE  Promise!Next \/ UNCHANGED <<Content, Seen, Statuses, Destinations>>
    BY <2>1, PlainStep, ObserveStep, CrashStep, BackupStep, RenameStep, SweepStep,
      RemoveReplacementStep, RestoreOriginalStep, FinishRollbackStep, DropStep DEF Step
  <2>2. ASSUME NEW f \in Files, Save(f)
        PROVE  Promise!Next
    BY <2>2, SaveStep
  <2>3. CASE UNCHANGED vars
    BY <2>3 DEF vars, sidecars, Content, Seen, Statuses, Destinations, Honoured, Disputed,
      Displaced, Decided, Status, Dests, Edits
  <2>4. QED
    BY <2>1, <2>2, <2>3 DEF Next
<1>2. IInv /\ [Next]_vars
        => [Promise!Next]_<<[f \in Files |-> Honoured(f)], [t \in Txns |-> job[t].seen],
                            [t \in Txns |-> Status(t)], [t \in Txns |-> Dests(t)]>>
  BY <1>1 DEF Content, Seen, Statuses, Destinations
<1>3. QED
  BY <1>2, PromiseBegins, TransactionInvariant, PTL DEF Spec, AllOrNothing, Promise!Spec
=============================================================================
