------------------------------ MODULE DiskCache ------------------------------
(***************************************************************************)
(* The diagnostics cache on disk (disk_cache.rs) as servers that share a   *)
(* cache directory use it: what a shard records, when it is served, how it *)
(* is replaced, and how the directory is kept within its caps.  Servers    *)
(* may be killed, restarted with another build, and see different contents *)
(* of the same files (unsaved buffers).                                    *)
(*                                                                         *)
(* Diagnostics are modelled by what they were computed from.  A content    *)
(* hash is modelled by the content, an environment fingerprint by the set  *)
(* of the paths there are, mtimes by the order of the writes, and the two  *)
(* caps by the one on the number of shards.                                *)
(***************************************************************************)
EXTENDS Naturals, FiniteSets, SequencesExt

CONSTANTS
  Servers,       \* each a process of its own
  Builds,        \* binary fingerprints
  Files,         \* paths of the two corpora
  Targets,       \* the styles whose diagnostics are resolved
  Contents,      \* file -> what it may hold; a content has its imports
  MaxShards,     \* DiskDiagnosticsCacheLimitsV0::max_shards
  MaxFailures,   \* DISK_DIAGNOSTICS_CACHE_MAX_WRITE_FAILURES
  MaxEdits,      \* edits explored
  MaxTroubles    \* failing calls, killed servers and damaged shards explored

Absent == [imports |-> {}, text |-> "absent"]
NoFile == [whole |-> FALSE, there |-> FALSE]

ASSUME CacheAssumption ==
  /\ Targets \subseteq Files /\ MaxShards \in Nat \ {0} /\ MaxFailures \in Nat
  /\ \A f \in Files : \A c \in Contents[f] : c.imports \subseteq Files \ {f}

VARIABLES
  surface,       \* server -> file -> content, Absent included
  build,         \* server -> the build that runs
  shards,        \* target -> the shard at its stable address
  order,         \* the targets that have a shard, oldest mtime first
  temps,         \* temporary files: <<server, target>>
  job,           \* server -> the resolve it is at work on
  failures,      \* server -> write_failure_count
  damaged,       \* targets whose shard was damaged on disk
  overdue,       \* was a sweep killed, did its calls fail too often, or did
                 \* a write overtake a removal, since a sweep last left the
                 \* directory within its cap
  edits, troubles

store  == <<shards, order, damaged>>
bounds == <<edits, troubles>>
vars   == <<surface, build, store, temps, job, failures, overdue, bounds>>

Surfaces == {m \in [Files -> UNION {Contents[f] : f \in Files}] :
               \A f \in Files : m[f] \in Contents[f]}
-----------------------------------------------------------------------------
(* What diagnostics depend on *)

Members(m) == {f \in Files : m[f] # Absent}

(* An edge of the cross-file summary: its specifier resolves. *)
Edges(m, f) == m[f].imports \cap Members(m)
Users(m, t) == {f \in Members(m) : t \in Edges(m, f)}

(* The forward closure of diagnostics_read_set_for_target_v0: the least    *)
(* set that holds the target and wherever its members' edges lead.         *)
Closed(m, S) == \A f \in S : Edges(m, f) \subseteq S

Forward(m, t) ==
  {f \in Files : \A S \in SUBSET Files : t \in S /\ Closed(m, S) => f \in S}

Hashes(m, files) == {<<f, m[f]>> : f \in files}

(* The diagnostics of t: what its closure says, the specifiers in it that  *)
(* resolve to nothing, and who uses its selectors.                         *)
Fresh(b, m, t) ==
  [build |-> b, reads |-> Hashes(m, Forward(m, t)),
   unresolved |-> (UNION {m[f].imports : f \in Forward(m, t)}) \ Members(m),
   users |-> Hashes(m, Users(m, t))]

ReadSet_ForwardOnly(m, t) == Forward(m, t)
ReadSet(m, t) == Forward(m, t) \cup Users(m, t)

(* What is written for a target: store_disk_diagnostics_shard. *)
Shard(b, m, t) ==
  [there |-> TRUE, whole |-> TRUE, build |-> b, environment |-> Members(m),
   deps |-> Hashes(m, ReadSet(m, t)), diagnostics |-> Fresh(b, m, t)]

(* disk_diagnostics_shard_identity_matches, a digest that fails included,  *)
(* and disk_diagnostics_shard_trace_verifies.                              *)
Identity(shard, b) == shard.whole /\ shard.build = b

Verifies_AnyMembership(shard, m, t) ==
  shard.deps \subseteq Hashes(m, Files) /\ \E d \in shard.deps : d[1] = t

Verifies(shard, m, t) ==
  /\ shard.environment = Members(m)
  /\ shard.deps \subseteq Hashes(m, Files)
  /\ \E d \in shard.deps : d[1] = t
-----------------------------------------------------------------------------
NoJob == [pc |-> "idle"]

Init ==
  /\ \E m \in Surfaces : surface = [s \in Servers |-> m]
  /\ \E b \in Builds : build = [s \in Servers |-> b]
  /\ shards = [t \in Targets |-> NoFile] /\ order = <<>>
  /\ temps = {} /\ job = [s \in Servers |-> NoJob]
  /\ failures = [s \in Servers |-> 0]
  /\ damaged = {} /\ overdue = FALSE /\ edits = 0 /\ troubles = 0

At(s, pc) == job[s].pc = pc
Give(s, j) == job' = [job EXCEPT ![s] = j]
Go(s, pc) == Give(s, [job[s] EXCEPT !.pc = pc])
Target(s) == job[s].target
Seen(s)   == job[s].seen
Trouble == troubles < MaxTroubles /\ troubles' = troubles + 1 /\ UNCHANGED edits
Works   == UNCHANGED bounds
World   == UNCHANGED <<surface, build>>

Publish_Accumulates(t, shard) ==
  /\ shards' = [shards EXCEPT ![t] = shard] /\ order' = Append(order, t)
  /\ damaged' = damaged \ {t}

Without(t) ==
  IF t \in ToSet(order) THEN RemoveAt(order, CHOOSE i \in DOMAIN order : order[i] = t)
  ELSE order

Publish(t, shard) ==
  /\ shards' = [shards EXCEPT ![t] = shard]
  /\ order' = Append(Without(t), t)
  /\ damaged' = damaged \ {t}

Delete(t) ==
  /\ shards' = [shards EXCEPT ![t] = NoFile]
  /\ order' = Without(t)
  /\ damaged' = damaged \ {t}

(* A resolve takes the surface and plans its slot; it loads and computes   *)
(* against that, whatever is edited meanwhile.                             *)
Resolve(s, t) ==
  /\ At(s, "idle") /\ t \in Members(surface[s])
  /\ Give(s, [pc |-> "load", target |-> t, seen |-> surface[s]])
  /\ Works /\ World /\ UNCHANGED <<store, temps, failures, overdue>>

(* load_disk_diagnostics_shard: a shard of another build, and one that     *)
(* does not parse or fit its digest, is removed; one that does not verify  *)
(* stays, to be overwritten.                                               *)
Hit(s) ==
  /\ At(s, "load") /\ shards[Target(s)].there
  /\ Identity(shards[Target(s)], build[s])
  /\ Verifies(shards[Target(s)], Seen(s), Target(s))

Serve(s) ==
  /\ Hit(s) /\ Give(s, NoJob)
  /\ Works /\ World /\ UNCHANGED <<store, temps, failures, overdue>>

Miss(s) ==
  /\ At(s, "load") /\ ~Hit(s)
  /\ LET shard == shards[Target(s)]
     IN Go(s, IF shard.there /\ ~Identity(shard, build[s]) THEN "discard" ELSE "compute")
  /\ Works /\ World /\ UNCHANGED <<store, temps, failures, overdue>>

(* The file that is removed need not be the one that was read. *)
Discard(s) ==
  /\ At(s, "discard") /\ Go(s, "compute")
  /\ \/ Works /\ Delete(Target(s))
     \/ Trouble /\ UNCHANGED store
  /\ World /\ UNCHANGED <<temps, failures, overdue>>

(* Computed and handed to write-behind, which has given up after too many  *)
(* failures, or finds the shard too large.                                 *)
Skip(s) ==
  /\ At(s, "compute") /\ Give(s, NoJob)
  /\ IF failures[s] < MaxFailures THEN Trouble ELSE Works
  /\ World /\ UNCHANGED <<store, temps, failures, overdue>>

(* write_disk_diagnostics_shard_atomically *)
Fail(s) == failures' = [failures EXCEPT ![s] = @ + 1] /\ Give(s, NoJob)

Write_InPlace(s) ==
  /\ At(s, "compute") /\ failures[s] < MaxFailures
  /\ Give(s, [pc |-> "rename", target |-> Target(s), seen |-> Seen(s),
              existed |-> shards[Target(s)].there])
  /\ Publish(Target(s), [Shard(build[s], Seen(s), Target(s)) EXCEPT !.whole = FALSE])
  /\ Works /\ World /\ UNCHANGED <<temps, failures, overdue>>

Write(s) ==
  /\ At(s, "compute") /\ failures[s] < MaxFailures
  /\ \/ /\ Works /\ UNCHANGED failures
        /\ Give(s, [pc |-> "rename", target |-> Target(s), seen |-> Seen(s),
                    existed |-> shards[Target(s)].there])
        /\ temps' = temps \cup {<<s, Target(s)>>}
     \/ /\ Trouble /\ Fail(s)
        /\ \E left \in SUBSET {<<s, Target(s)>>} : temps' = temps \cup left
  /\ World /\ UNCHANGED <<store, overdue>>

(* Only a write that created its file sweeps; on Windows a destination     *)
(* that is there after a rename that failed counts as written.             *)
Written(s) == Give(s, IF job[s].existed THEN NoJob ELSE [pc |-> "list"])

Rename_SweepsOverwrites(s) ==
  /\ At(s, "rename") /\ temps' = temps \ {<<s, Target(s)>>}
  /\ Publish(Target(s), Shard(build[s], Seen(s), Target(s)))
  /\ IF job[s].existed THEN Give(s, [pc |-> "list"]) ELSE Give(s, NoJob)
  /\ Works /\ World /\ UNCHANGED <<failures, overdue>>

Rename(s) ==
  /\ At(s, "rename") /\ temps' = temps \ {<<s, Target(s)>>}
  /\ \/ /\ Works /\ Publish(Target(s), Shard(build[s], Seen(s), Target(s)))
        /\ Written(s) /\ UNCHANGED failures
        /\ overdue' = (overdue \/ (job[s].existed /\ ~shards[Target(s)].there))
     \/ /\ Trouble /\ shards[Target(s)].there
        /\ Written(s) /\ UNCHANGED <<store, failures, overdue>>
     \/ /\ Trouble /\ ~shards[Target(s)].there
        /\ Fail(s) /\ UNCHANGED <<store, overdue>>
  /\ World

(* enforce_disk_diagnostics_cache_caps: the directory is listed once, and  *)
(* the oldest go until enough removals have succeeded.                     *)
Sweeping(listed, count) ==
  IF listed = <<>> \/ count <= 1 \/ count <= MaxShards THEN NoJob
  ELSE [pc |-> "evict", listed |-> listed, count |-> count]

(* A call of the sweep failed, and with only these files left to try it    *)
(* cannot come within the cap.                                             *)
OutOfReach(listed) == Cardinality(ToSet(order) \ ToSet(listed)) > MaxShards

Swept(s, missed) ==
  overdue' = ((overdue \/ missed) /\ ~(job'[s] = NoJob /\ Len(order') <= MaxShards))

List(s) ==
  /\ At(s, "list") /\ World /\ UNCHANGED <<store, temps, failures>>
  /\ \/ Works /\ Give(s, Sweeping(order, Len(order))) /\ Swept(s, FALSE)
     \/ Trouble /\ Give(s, NoJob) /\ Swept(s, OutOfReach(<<>>))

Evict(s) ==
  /\ At(s, "evict")
  /\ LET t     == Head(job[s].listed)
         rest  == Tail(job[s].listed)
         count == job[s].count
     IN \/ /\ shards[t].there /\ Works /\ Delete(t)
           /\ Give(s, Sweeping(rest, count - 1)) /\ Swept(s, FALSE)
        \/ /\ ~shards[t].there /\ Works /\ UNCHANGED store
           /\ Give(s, Sweeping(rest, count)) /\ Swept(s, FALSE)
        \/ /\ shards[t].there /\ Trouble /\ UNCHANGED store
           /\ Give(s, Sweeping(rest, count)) /\ Swept(s, OutOfReach(rest))
  /\ World /\ UNCHANGED <<temps, failures>>
-----------------------------------------------------------------------------
(* Around the servers *)

Edit(s, f) ==
  /\ edits < MaxEdits /\ edits' = edits + 1
  /\ \E c \in Contents[f] \ {surface[s][f]} : surface' = [surface EXCEPT ![s][f] = c]
  /\ UNCHANGED <<build, store, temps, job, failures, overdue, troubles>>

(* A server is killed and started again, perhaps with another build, the   *)
(* temporary file of its last write still there.                           *)
Restart(s) ==
  /\ Trouble
  /\ \E b \in Builds : build' = [build EXCEPT ![s] = b]
  /\ Give(s, NoJob) /\ failures' = [failures EXCEPT ![s] = 0]
  /\ overdue' = (overdue \/ job[s].pc \in {"list", "evict"})
  /\ UNCHANGED <<surface, store, temps>>

(* A shard loses bytes, or keeps its shape and no longer fits its digest. *)
Damage(t) ==
  /\ shards[t].there /\ Trouble
  /\ shards' = [shards EXCEPT ![t].whole = FALSE] /\ damaged' = damaged \cup {t}
  /\ World /\ UNCHANGED <<order, temps, job, failures, overdue>>

Next ==
  \/ \E s \in Servers :
       \/ \E t \in Targets : Resolve(s, t)
       \/ \E f \in Files : Edit(s, f)
       \/ Serve(s) \/ Miss(s) \/ Discard(s) \/ Skip(s) \/ Write(s) \/ Rename(s)
       \/ List(s) \/ Evict(s) \/ Restart(s)
  \/ \E t \in Targets : Damage(t)

Spec == Init /\ [][Next]_vars
-----------------------------------------------------------------------------
Phases == {"idle", "load", "discard", "compute", "rename", "list", "evict"}

(* The types of the state; the order lists the shards there are. *)
TypeOK ==
  /\ surface \in [Servers -> Surfaces] /\ build \in [Servers -> Builds]
  /\ DOMAIN shards = Targets
  /\ IsInjective(order) /\ ToSet(order) = {t \in Targets : shards[t].there}
  /\ temps \subseteq Servers \X Targets
  /\ \A s \in Servers : job[s].pc \in Phases
  /\ failures \in [Servers -> Nat]
  /\ damaged \subseteq ToSet(order)

(* What s serves, and what it would have computed. *)
Served(s) == shards[Target(s)].diagnostics
Current(s) == Fresh(build[s], Seen(s), Target(s))

(* A shard is served only if every file its target reads, at any depth,    *)
(* says what it said when the shard was computed, if no specifier that led *)
(* nowhere leads somewhere now, if no usage it rests on is gone, and by    *)
(* the build that computed it: whichever server wrote it, over which edits *)
(* and crashes.                                                            *)
Stands(old, new) ==
  /\ old.build = new.build
  /\ old.reads = new.reads
  /\ old.unresolved = new.unresolved
  /\ old.users \subseteq new.users

HitsStillStand == [][\A s \in Servers : Serve(s) => Stands(Served(s), Current(s))]_vars

(* A manifest-verified hit is what a fresh compute would give. *)
HitsAreFresh == [][\A s \in Servers : Serve(s) => Served(s) = Current(s)]_vars

(* Whatever server dies in the middle of a write, a reader finds no half   *)
(* of a shard: one that does not parse was damaged by somebody else.       *)
NoHalfShards == \A t \in Targets : shards[t].there => shards[t].whole \/ t \in damaged

(* With nobody at work the directory is within its cap, unless a sweep was *)
(* killed, so many of its calls failed that the files left to try were too *)
(* few, or a write that had found its file there put it back after a       *)
(* removal: it does not sweep.                                             *)
QuietStoreIsBounded ==
  (\A s \in Servers : At(s, "idle")) => overdue \/ Len(order) <= MaxShards
=============================================================================
