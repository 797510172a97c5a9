--------------------------- MODULE EditTransaction ---------------------------
(***************************************************************************)
(* WorkspaceEditTransaction::commit (workspace_edit_transaction.rs) as run *)
(* by command line processes that share a workspace: one action for each   *)
(* file system call another process can observe.  A process may be killed  *)
(* between any two of them, any call may fail, and an editor saves files   *)
(* without asking for a lock.                                              *)
(*                                                                         *)
(* plan[t].edits are the destinations in the order of the edits, and       *)
(* plan[t].expected the paths with an expected digest, the destinations    *)
(* among them.  A digest is modelled by the content it is taken of.        *)
(***************************************************************************)
EXTENDS Naturals, Sequences, Functions

CONSTANTS
  Files,         \* paths; their order is the order of destinations.sort()
  Txns,          \* transactions, each of its own process; t also names the
                 \* content t writes
  Plans,         \* what the transactions are asked to do
  Workspaces,    \* what the files hold at first
  MaxTroubles    \* failing calls, killed processes and editor saves explored,
                 \* all together

Absent == "absent"     \* ABSENT_CONTENT_DIGEST
Torn   == "torn"       \* a file whose writing stopped half way
NoOne  == "none"

Unsettled == "unsettled"   \* what AtomicEdits says nothing of

Written  == {Absent, "original", "external"}
Contents == Written \cup Txns

(* validate_shape: at least one edit, no path twice, every path expected. *)
Shaped(p) ==
  /\ p.edits \in Seq(Files) /\ p.expected \in Seq(Files)
  /\ p.edits # <<>> /\ IsInjective(p.edits)
  /\ Range(p.edits) \subseteq Range(p.expected)

ASSUME EditAssumption ==
  /\ Files \subseteq Nat
  /\ \A p \in Plans : \A t \in Txns : Shaped(p[t])
  /\ Workspaces \subseteq [Files -> {Absent, "original"}]
  /\ Txns # {} /\ MaxTroubles \in Nat
  /\ (Written \cup {NoOne, Torn, Unsettled}) \cap Txns = {}

VARIABLES
  plan,          \* chosen once
  windows,       \* chosen once: which prepare_rollback_backup was built
  disk,          \* path -> content
  lock,          \* path -> owner of its lock file
  stage,         \* t -> destinations whose staged file exists
  backup,        \* t -> destination -> content of its backup file
  journal,       \* t -> "none", "whole" or "torn"
  job,           \* t -> what its process remembers
  touched,       \* t -> path -> was it saved by an editor while t ran:
                 \* "no", "early", or "late", after t's second look at it
  troubles

sidecars == <<stage, backup, journal>>
vars == <<plan, windows, disk, lock, sidecars, job, touched, troubles>>

Edits(t)    == plan[t].edits
Expected(t) == plan[t].expected
Dests(t)    == Range(Edits(t))
Current(t)  == Edits(t)[job[t].k]

NewJob == [pc |-> "observe", k |-> 1, seen |-> [f \in Files |-> Absent], held |-> {},
           existed |-> {}, ready |-> {}, moved |-> {}, failed |-> FALSE,
           outcome |-> "none", at |-> 0]

Init ==
  /\ plan \in Plans /\ windows \in BOOLEAN
  /\ disk \in Workspaces
  /\ lock = [f \in Files |-> NoOne]
  /\ stage = [t \in Txns |-> {}]
  /\ backup = [t \in Txns |-> [f \in Files |-> NoOne]]
  /\ journal = [t \in Txns |-> "none"]
  /\ job = [t \in Txns |-> [NewJob EXCEPT !.seen = disk]]
  /\ touched = [t \in Txns |-> [f \in Files |-> "no"]]
  /\ troubles = 0

At(t, pc) == job[t].pc = pc
Trouble   == troubles < MaxTroubles /\ troubles' = troubles + 1
Works     == UNCHANGED troubles
Rest      == UNCHANGED <<plan, windows, touched>>

(* The next file of a loop over n files, or the phase after it. *)
Advance(t, n, next) ==
  IF job[t].k < n THEN [job[t] EXCEPT !.k = @ + 1]
                  ELSE [job[t] EXCEPT !.k = 1, !.pc = next]

Give(t, pc, outcome) ==
  job' = [job EXCEPT ![t].pc = pc, ![t].outcome = outcome]
-----------------------------------------------------------------------------
(* Before commit: the caller observes every path and computes the edits.   *)
(* Each path is compared for itself afterwards, so that one step will do.  *)
Observe(t) ==
  /\ At(t, "observe")
  /\ job' = [job EXCEPT ![t].seen = disk, ![t].pc = "lock"]
  /\ Works /\ Rest /\ UNCHANGED <<disk, lock, sidecars>>

(* TransactionLockGuard::acquire, one destination after another. *)
Lock_Unsorted(t) ==
  /\ At(t, "lock")
  /\ LET left == {i \in DOMAIN Edits(t) : Edits(t)[i] \notin job[t].held}
         f    == Edits(t)[CHOOSE i \in left : \A j \in left : i <= j]
     IN \/ /\ lock[f] = NoOne /\ Works
           /\ lock' = [lock EXCEPT ![f] = t]
           /\ job' = [job EXCEPT ![t].held = @ \cup {f},
                        ![t].pc = IF Dests(t) = job[t].held \cup {f} THEN "verify" ELSE @]
        \/ /\ lock[f] # NoOne /\ Works /\ UNCHANGED lock
           /\ job' = [job EXCEPT ![t].pc = "drop", ![t].outcome = "refused", ![t].at = f]
  /\ Rest /\ UNCHANGED <<disk, sidecars>>

Lock(t) ==
  /\ At(t, "lock")
  /\ \E f \in Dests(t) \ job[t].held :
       /\ \A g \in Dests(t) \ job[t].held : f <= g
       /\ \/ /\ lock[f] = NoOne /\ Works
             /\ lock' = [lock EXCEPT ![f] = t]
             /\ job' = [job EXCEPT ![t].held = @ \cup {f},
                          ![t].pc = IF Dests(t) = job[t].held \cup {f} THEN "verify" ELSE @]
          \/ /\ lock[f] # NoOne /\ Works /\ UNCHANGED lock
             /\ job' = [job EXCEPT ![t].pc = "drop", ![t].outcome = "refused", ![t].at = f]
          \/ Trouble /\ Give(t, "drop", "failed") /\ UNCHANGED lock
  /\ Rest /\ UNCHANGED <<disk, sidecars>>

(* verify_expected_content: the next expected path against its digest. *)
Compare(t, next, exit) ==
  /\ LET f == Expected(t)[job[t].k] IN
     \/ /\ disk[f] = job[t].seen[f] /\ Works
        /\ job' = [job EXCEPT ![t] = Advance(t, Len(Expected(t)), next)]
     \/ disk[f] # job[t].seen[f] /\ Works /\ Give(t, exit, "stale")
     \/ Trouble /\ Give(t, exit, "failed")
  /\ Rest /\ UNCHANGED <<disk, lock, sidecars>>

Verify(t) == At(t, "verify") /\ Compare(t, "stage", "drop")

Reverify_Skipped(t) ==
  /\ At(t, "reverify")
  /\ job' = [job EXCEPT ![t].pc = "journal"]
  /\ Works /\ Rest /\ UNCHANGED <<disk, lock, sidecars>>

Reverify(t) == At(t, "reverify") /\ Compare(t, "journal", "clean")

(* stage_edits, one edit: the sibling file is written, then path.exists()  *)
(* is sampled.  A write that fails may leave the file it created: it is    *)
(* not in the list that is cleaned up.                                     *)
Stage(t) ==
  /\ At(t, "stage")
  /\ LET f == Current(t) IN
     \/ /\ Works
        /\ stage' = [stage EXCEPT ![t] = @ \cup {f}]
        /\ job' = [job EXCEPT ![t] =
             [Advance(t, Len(Edits(t)), "check") EXCEPT
                !.existed = IF disk[f] = Absent THEN @ ELSE @ \cup {f}]]
     \/ /\ Trouble /\ Give(t, "drop", "failed")
        /\ \E left \in SUBSET {f} : stage' = [stage EXCEPT ![t] = left]
  /\ Rest /\ UNCHANGED <<disk, lock, backup, journal>>

(* verify_staged_edits: a read of the staged bytes or a postcondition may  *)
(* refuse them.                                                            *)
Check(t) ==
  /\ At(t, "check")
  /\ \/ Works /\ job' = [job EXCEPT ![t].pc = "reverify"]
     \/ Trouble /\ Give(t, "clean", "failed")
  /\ Rest /\ UNCHANGED <<disk, lock, sidecars>>

(* cleanup_staged before anything was moved; a removal that fails is       *)
(* ignored.                                                                *)
Clean(t) ==
  /\ At(t, "clean")
  /\ \/ Works /\ stage' = [stage EXCEPT ![t] = {}]
     \/ Trouble /\ UNCHANGED stage
  /\ job' = [job EXCEPT ![t].pc = "drop"]
  /\ Rest /\ UNCHANGED <<disk, lock, backup, journal>>

(* write_journal and verify_journal_precondition, which reads it back. *)
WriteJournal(t) ==
  /\ At(t, "journal")
  /\ \/ /\ Works /\ journal' = [journal EXCEPT ![t] = "whole"]
        /\ job' = [job EXCEPT ![t].pc = "publish"]
     \/ /\ Trouble /\ Give(t, "clean", "failed")
        /\ \E j \in {"none", "torn"} : journal' = [journal EXCEPT ![t] = j]
  /\ Rest /\ UNCHANGED <<disk, lock, stage, backup>>
-----------------------------------------------------------------------------
(* rename_all *)

(* prepare_rollback_backup: on Windows the original is moved, elsewhere it *)
(* is copied, and a copy may fail half way.                                *)
Backup_ReadyTooSoon(t) ==
  /\ At(t, "publish") /\ Current(t) \in job[t].existed \ job[t].ready
  /\ LET f == Current(t) IN
     \/ /\ Works /\ backup' = [backup EXCEPT ![t][f] = disk[f]]
        /\ job' = [job EXCEPT ![t].ready = @ \cup {f}]
     \/ /\ Trouble /\ backup' = [backup EXCEPT ![t][f] = Torn]
        /\ job' = [job EXCEPT ![t].pc = "rollback", ![t].k = Len(Edits(t)),
                              ![t].ready = @ \cup {f}]
  /\ Rest /\ UNCHANGED <<disk, lock, stage, journal>>

Backup(t) ==
  /\ At(t, "publish") /\ Current(t) \in job[t].existed \ job[t].ready
  /\ LET f == Current(t) IN
     \/ /\ disk[f] # Absent /\ Works
        /\ backup' = [backup EXCEPT ![t][f] = disk[f]]
        /\ disk' = IF windows THEN [disk EXCEPT ![f] = Absent] ELSE disk
        /\ job' = [job EXCEPT ![t].ready = @ \cup {f}]
     \/ /\ \/ disk[f] = Absent /\ Works /\ UNCHANGED backup
           \/ /\ Trouble
              /\ \E b \in IF windows THEN {NoOne} ELSE {NoOne, Torn} :
                   backup' = [backup EXCEPT ![t][f] = b]
        /\ job' = [job EXCEPT ![t].pc = "rollback", ![t].k = Len(Edits(t))]
        /\ UNCHANGED disk
  /\ Rest /\ UNCHANGED <<lock, stage, journal>>

Rename(t) ==
  /\ At(t, "publish") /\ Current(t) \notin job[t].existed \ job[t].ready
  /\ LET f == Current(t) IN
     \/ /\ Works /\ disk' = [disk EXCEPT ![f] = t]
        /\ stage' = [stage EXCEPT ![t] = @ \ {f}]
        /\ job' = [job EXCEPT ![t] =
             [Advance(t, Len(Edits(t)), "sweep") EXCEPT !.moved = @ \cup {f}]]
     \/ /\ Trouble /\ UNCHANGED <<disk, stage>>
        /\ job' = [job EXCEPT ![t].pc = "rollback", ![t].k = Len(Edits(t))]
  /\ Rest /\ UNCHANGED <<lock, backup, journal>>

(* cleanup_backups: every backup, then the journal; the first error is     *)
(* returned, although every destination is replaced.                       *)
Sweep_KeepsJournal(t) ==
  /\ At(t, "sweep")
  /\ Works /\ backup' = [backup EXCEPT ![t][Current(t)] = NoOne]
  /\ IF job[t].k < Len(Edits(t)) THEN job' = [job EXCEPT ![t].k = @ + 1]
                                 ELSE Give(t, "drop", "ok")
  /\ Rest /\ UNCHANGED <<disk, lock, stage, journal>>

Sweep(t) ==
  /\ At(t, "sweep")
  /\ \/ /\ Works /\ job[t].k <= Len(Edits(t))
        /\ backup' = [backup EXCEPT ![t][Current(t)] = NoOne]
        /\ job' = [job EXCEPT ![t].k = @ + 1]
        /\ UNCHANGED journal
     \/ /\ Works /\ job[t].k > Len(Edits(t))
        /\ journal' = [journal EXCEPT ![t] = "none"]
        /\ Give(t, "drop", "ok")
        /\ UNCHANGED backup
     \/ Trouble /\ Give(t, "drop", "unswept") /\ UNCHANGED <<backup, journal>>
  /\ Rest /\ UNCHANGED <<disk, lock, stage>>
-----------------------------------------------------------------------------
(* rollback_and_cleanup, in reverse order *)

(* A file is behind us, restored or not: its staged file goes, its backup  *)
(* only if it holds nothing to restore (cleanup_staged).                   *)
LeaveFile(t, f, failure) ==
  /\ stage' = [stage EXCEPT ![t] = @ \ {f}]
  /\ job' = [job EXCEPT ![t].k = @ - 1, ![t].failed = @ \/ failure]

RemoveReplacement(t) ==
  /\ At(t, "rollback") /\ job[t].k > 0 /\ Current(t) \in job[t].moved
  /\ LET f == Current(t) IN
     \/ /\ Works /\ disk' = [disk EXCEPT ![f] = Absent]
        /\ job' = [job EXCEPT ![t].moved = @ \ {f}]
        /\ UNCHANGED stage
     \/ Trouble /\ LeaveFile(t, f, TRUE) /\ UNCHANGED disk
  /\ Rest /\ UNCHANGED <<lock, backup, journal>>

RestoreOriginal_DropsBackup(t) ==
  /\ At(t, "rollback") /\ job[t].k > 0 /\ Current(t) \notin job[t].moved
  /\ LET f == Current(t) IN
     \/ /\ f \in job[t].ready /\ Works
        /\ disk' = [disk EXCEPT ![f] = backup[t][f]]
        /\ LeaveFile(t, f, FALSE)
     \/ /\ f \in job[t].ready /\ Trouble
        /\ LeaveFile(t, f, TRUE) /\ UNCHANGED disk
     \/ /\ f \notin job[t].ready /\ Works
        /\ LeaveFile(t, f, FALSE) /\ UNCHANGED disk
  /\ backup' = [backup EXCEPT ![t][Current(t)] = NoOne]
  /\ Rest /\ UNCHANGED <<lock, journal>>

RestoreOriginal(t) ==
  /\ At(t, "rollback") /\ job[t].k > 0 /\ Current(t) \notin job[t].moved
  /\ LET f == Current(t) IN
     \/ /\ f \in job[t].ready /\ Works
        /\ disk' = [disk EXCEPT ![f] = backup[t][f]]
        /\ backup' = [backup EXCEPT ![t][f] = NoOne]
        /\ LeaveFile(t, f, FALSE)
     \/ /\ f \in job[t].ready /\ Trouble
        /\ LeaveFile(t, f, TRUE) /\ UNCHANGED <<disk, backup>>
     \/ /\ f \notin job[t].ready /\ Works
        /\ backup' = [backup EXCEPT ![t][f] = NoOne]
        /\ LeaveFile(t, f, FALSE) /\ UNCHANGED disk
  /\ Rest /\ UNCHANGED <<lock, journal>>

(* No failure: the journal goes and the cause is returned.  Otherwise      *)
(* RollbackFailed names the journal that is kept.                          *)
FinishRollback(t) ==
  /\ At(t, "rollback") /\ job[t].k = 0
  /\ \/ /\ job[t].failed /\ Works
        /\ Give(t, "drop", "rollbackFailed") /\ UNCHANGED journal
     \/ /\ ~job[t].failed /\ Works
        /\ journal' = [journal EXCEPT ![t] = "none"]
        /\ Give(t, "drop", "restored")
     \/ /\ ~job[t].failed /\ Trouble
        /\ Give(t, "drop", "restored") /\ UNCHANGED journal
  /\ Rest /\ UNCHANGED <<disk, lock, stage, backup>>

(* TransactionLockGuard::drop, on every return: the last lock first; a     *)
(* removal that fails is ignored, and the lock file stays.                 *)
Drop_Everything(t) ==
  /\ At(t, "drop")
  /\ lock' = [f \in Files |-> IF f \in Dests(t) THEN NoOne ELSE lock[f]]
  /\ job' = [job EXCEPT ![t].pc = "done", ![t].held = {}]
  /\ Works /\ Rest /\ UNCHANGED <<disk, sidecars>>

Drop(t) ==
  /\ At(t, "drop")
  /\ \/ /\ job[t].held = {} /\ job' = [job EXCEPT ![t].pc = "done"]
        /\ Works /\ UNCHANGED lock
     \/ \E f \in job[t].held :
          /\ \A g \in job[t].held : g <= f
          /\ job' = [job EXCEPT ![t].held = @ \ {f}]
          /\ \/ Works /\ lock' = [lock EXCEPT ![f] = NoOne]
             \/ Trouble /\ UNCHANGED lock
  /\ Rest /\ UNCHANGED <<disk, sidecars>>
-----------------------------------------------------------------------------
(* Around the transactions *)

Running(t) == job[t].pc \notin {"observe", "done", "crashed"}

(* The process is killed: no destructor runs, every file stays. *)
Crash(t) ==
  /\ Running(t) /\ Trouble
  /\ job' = [job EXCEPT ![t].pc = "crashed"]
  /\ Rest /\ UNCHANGED <<disk, lock, sidecars>>

(* Has t compared f for the second time? *)
Rechecked(t, f) ==
  \/ job[t].pc \in {"journal", "publish", "sweep", "rollback", "drop", "crashed"}
  \/ At(t, "reverify") /\ \E i \in 1..(job[t].k - 1) : Expected(t)[i] = f

(* An editor saves, deletes or puts back a file while a transaction runs. *)
Save(f) ==
  /\ \E t \in Txns : Running(t)
  /\ Trouble
  /\ \E c \in Written \ {disk[f]} : disk' = [disk EXCEPT ![f] = c]
  /\ touched' = [t \in Txns |->
       IF f \notin Dests(t) \/ job[t].pc \in {"observe", "lock", "done"} THEN touched[t]
       ELSE [touched[t] EXCEPT ![f] = IF @ = "late" \/ Rechecked(t, f)
                                      THEN "late" ELSE "early"]]
  /\ UNCHANGED <<plan, windows, lock, sidecars, job>>

Step(t) ==
  \/ Observe(t) \/ Lock(t) \/ Verify(t) \/ Stage(t) \/ Check(t) \/ Reverify(t)
  \/ Clean(t) \/ WriteJournal(t) \/ Backup(t) \/ Rename(t) \/ Sweep(t)
  \/ RemoveReplacement(t) \/ RestoreOriginal(t) \/ FinishRollback(t) \/ Drop(t)

Next ==
  \/ \E t \in Txns : Step(t) \/ Crash(t)
  \/ \E f \in Files : Save(f)

Spec == Init /\ [][Next]_vars
-----------------------------------------------------------------------------
Outcomes == {"none", "refused", "stale", "failed", "ok", "unswept", "restored",
             "rollbackFailed"}
Phases   == {"observe", "lock", "verify", "stage", "check", "reverify", "clean",
             "journal", "publish", "sweep", "rollback", "drop", "done", "crashed"}

JobType ==
  [pc : Phases, k : Nat, seen : [Files -> Contents], held : SUBSET Files,
   existed : SUBSET Files, ready : SUBSET Files, moved : SUBSET Files,
   failed : BOOLEAN, outcome : Outcomes, at : Nat]

(* The types of the state. *)
TypeOK ==
  /\ plan \in Plans /\ windows \in BOOLEAN
  /\ disk \in [Files -> Contents]
  /\ lock \in [Files -> Txns \cup {NoOne}]
  /\ stage \in [Txns -> SUBSET Files]
  /\ backup \in [Txns -> [Files -> Contents \cup {NoOne, Torn}]]
  /\ journal \in [Txns -> {"none", "whole", "torn"}]
  /\ job \in [Txns -> JobType]
  /\ touched \in [Txns -> [Files -> {"no", "early", "late"}]]
  /\ troubles \in 0..MaxTroubles

(* Every destination is replaced: the transaction can only succeed now. *)
Decided(t) == job[t].moved = Dests(t)

(* A process that works on the files owns the lock of every destination:   *)
(* between the last acquire and the guard's drop nobody else is at work on *)
(* any of them, whatever failed or crashed.                                *)
OwnsDestinations ==
  \A t \in Txns : job[t].pc \in Phases \ {"observe", "lock", "drop", "done", "crashed"} =>
    \A f \in Dests(t) : lock[f] = t

(* Wherever the transaction stops, killed or out of luck, a destination    *)
(* whose original is gone has it in a backup that the journal names, until *)
(* every destination is replaced.                                          *)
OriginalsRecoverable ==
  \A t \in Txns : \A f \in Dests(t) :
    (/\ f \in job[t].held /\ ~Decided(t) /\ touched[t][f] = "no"
     /\ disk[f] \in {t, Absent} /\ f \in job[t].existed)
      => backup[t][f] = job[t].seen[f] /\ journal[t] = "whole"

(* A reported success has replaced everything and left nothing behind.     *)
SuccessLeavesNothing ==
  \A t \in Txns : job[t].outcome = "ok" =>
    /\ Decided(t) /\ stage[t] = {} /\ journal[t] = "none"
    /\ \A f \in Files : backup[t][f] = NoOne

(* What a transaction leaves beside the files is neither missing while it  *)
(* is needed nor there when it says nothing any more.                      *)
SidecarsAreTrue == OriginalsRecoverable /\ SuccessLeavesNothing

(* Two transactions that want the same files never refuse each other: who  *)
(* stood in the way of a refused one was itself refused, if at all, only   *)
(* further along the sorted destinations.                                  *)
SomeoneProceeds == \E t \in Txns : job[t].outcome # "refused"

(* A replacement lands on the content the transaction was computed from,   *)
(* unless an editor saved the file after the second comparison.            *)
Replaced(t, f) == IF f \in job[t].ready THEN backup[t][f] ELSE disk[f]

PublishesVerified ==
  [][\A t \in Txns : \A f \in job'[t].moved \ job[t].moved :
       touched[t][f] = "late" \/ Replaced(t, f) = job[t].seen[f]]_vars
-----------------------------------------------------------------------------
(* What the workspace holds once every journal is honoured: the original   *)
(* of a file an undecided transaction has displaced.                       *)
Disputed(f) ==
  \E t \in Txns : \/ touched[t][f] # "no"
                  \/ f \in Dests(t) /\ job[t].outcome = "rollbackFailed"

Displaced(t, f) ==
  /\ ~Decided(t) /\ lock[f] = t
  /\ IF f \in job[t].existed THEN f \in job[t].ready /\ backup[t][f] # NoOne
                             ELSE f \in job[t].moved

Honoured(f) ==
  IF Disputed(f) THEN Unsettled
  ELSE IF \E t \in Txns : Displaced(t, f)
       THEN LET t == CHOOSE t \in Txns : Displaced(t, f)
            IN IF f \in job[t].existed THEN backup[t][f] ELSE Absent
       ELSE disk[f]

Status(t) ==
  CASE job[t].outcome = "ok"             -> "ok"
    [] job[t].outcome = "unswept"        -> "unsure"
    [] job[t].outcome = "rollbackFailed" -> "abandoned"
    [] job[t].outcome \in {"refused", "stale", "failed", "restored"} -> "failed"
    [] OTHER -> IF Decided(t) THEN "applied" ELSE "open"

Promise == INSTANCE AtomicEdits WITH
  content   <- [f \in Files |-> Honoured(f)],
  seen      <- [t \in Txns |-> job[t].seen],
  status    <- [t \in Txns |-> Status(t)],
  dests     <- [t \in Txns |-> Dests(t)]

(* All or nothing: read through the journals, the transaction is one step  *)
(* that replaces all of its destinations or none, and what its caller is   *)
(* told says which.                                                        *)
AllOrNothing == Promise!Spec
=============================================================================
