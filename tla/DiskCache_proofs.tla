-------------------------- MODULE DiskCache_proofs --------------------------
(***************************************************************************)
(* What a served shard rests on, that no reader finds half of one, and     *)
(* that sweeps which get in one another's way keep the cap, for any number *)
(* of servers, builds, files and targets, whatever the contents import,    *)
(* and over any number of edits, restarts and failures.                    *)
(***************************************************************************)
EXTENDS DiskCache, FiniteSetTheorems, SequenceTheorems, TLAPS

(* A resolve under way is of a target and against a surface there has been. *)
Resolving(s) == job[s].pc \in {"load", "discard", "compute", "rename"}

JobsAreResolves ==
  \A s \in Servers : Resolving(s) => Target(s) \in Targets /\ Seen(s) \in Surfaces

(* Every whole shard is what some build writes for some surface. *)
ShardsAreWritten ==
  \A t \in Targets : shards[t].there /\ shards[t].whole =>
    \E b \in Builds, m \in Surfaces : shards[t] = Shard(b, m, t)

IInv ==
  /\ surface \in [Servers -> Surfaces] /\ build \in [Servers -> Builds]
  /\ DOMAIN shards = Targets /\ DOMAIN job = Servers
  /\ JobsAreResolves
  /\ ShardsAreWritten
  /\ NoHalfShards
-----------------------------------------------------------------------------
(* The read set *)

(* Two surfaces with the same members that agree on the closure of a target *)
(* in one of them have the same closure of it.                             *)
LEMMA SameClosure ==
  ASSUME NEW m, NEW n, NEW t \in Files, Members(m) = Members(n),
         \A f \in Forward(m, t) : m[f] = n[f]
  PROVE  Forward(m, t) = Forward(n, t)
<1> DEFINE R == Forward(m, t)
<1>1. t \in R /\ R \subseteq Files
  BY DEF Forward
<1>2. Closed(m, R)
  <2> SUFFICES ASSUME NEW f \in R, NEW g \in Edges(m, f)
               PROVE  g \in R
    BY DEF Closed
  <2>1. g \in Files
    BY DEF Edges, Members
  <2>2. ASSUME NEW S \in SUBSET Files, t \in S, Closed(m, S)
        PROVE  g \in S
    BY <2>2 DEF Forward, Closed
  <2>3. QED
    BY <2>1, <2>2 DEF Forward
<1>3. \A f \in R : Edges(m, f) = Edges(n, f)
  BY DEF Edges
<1>4. Closed(n, R)
  BY <1>2, <1>3 DEF Closed
<1>5. Forward(n, t) \subseteq R
  <2> HIDE DEF R
  <2>1. QED
    BY <1>1, <1>4 DEF Forward
<1>6. ASSUME NEW f \in R
      PROVE  f \in Forward(n, t)
  <2>1. ASSUME NEW S \in SUBSET Files, t \in S, Closed(n, S)
        PROVE  f \in S
    <3>1. Closed(m, S \cap R)
      BY <1>2, <1>3, <2>1 DEF Closed
    <3>2. t \in S \cap R /\ S \cap R \in SUBSET Files
      BY <1>1, <2>1
    <3>3. f \in S \cap R
      BY <3>1, <3>2 DEF Forward
    <3>4. QED
      BY <3>3
  <2>2. QED
    BY <1>1, <2>1 DEF Forward
<1>7. QED
  BY <1>5, <1>6

(* What a shard that verifies says of the surface it is verified against.  *)
LEMMA VerifiedShardStands ==
  ASSUME NEW b, NEW m, NEW n, NEW t \in Files,
         Verifies(Shard(b, m, t), n, t)
  PROVE  Stands(Fresh(b, m, t), Fresh(b, n, t))
<1>1. Members(m) = Members(n)
  BY DEF Verifies, Shard
<1>2. Hashes(m, ReadSet(m, t)) \subseteq Hashes(n, Files)
  BY DEF Verifies, Shard
<1>3. \A f \in ReadSet(m, t) : m[f] = n[f]
  <2> SUFFICES ASSUME NEW f \in ReadSet(m, t)
               PROVE  m[f] = n[f]
    OBVIOUS
  <2>1. <<f, m[f]>> \in Hashes(n, Files)
    BY <1>2 DEF Hashes
  <2>2. QED
    BY <2>1 DEF Hashes
<1>4. \A f \in Forward(m, t) : m[f] = n[f]
  BY <1>3 DEF ReadSet
<1>5. Forward(m, t) = Forward(n, t)
  BY <1>1, <1>4, SameClosure
<1>6. Hashes(m, Forward(m, t)) = Hashes(n, Forward(n, t))
  BY <1>4, <1>5 DEF Hashes
<1>7. UNION {m[f].imports : f \in Forward(m, t)} = UNION {n[f].imports : f \in Forward(n, t)}
  BY <1>4, <1>5
<1>8. Hashes(m, Users(m, t)) \subseteq Hashes(n, Users(n, t))
  <2> SUFFICES ASSUME NEW f \in Users(m, t)
               PROVE  f \in Users(n, t) /\ m[f] = n[f]
    BY DEF Hashes
  <2>1. m[f] = n[f]
    BY <1>3 DEF ReadSet
  <2>2. QED
    BY <1>1, <2>1 DEF Users, Edges
<1> DEFINE old == Fresh(b, m, t)
           new == Fresh(b, n, t)
<1>9. old.build = new.build /\ old.reads = new.reads
  BY <1>6 DEF Fresh
<1>10. old.unresolved = new.unresolved
  <2>1. old.unresolved = (UNION {m[f].imports : f \in Forward(m, t)}) \ Members(m)
    BY DEF Fresh
  <2>2. new.unresolved = (UNION {n[f].imports : f \in Forward(n, t)}) \ Members(n)
    BY DEF Fresh
  <2>3. (UNION {m[f].imports : f \in Forward(m, t)}) \ Members(m)
          = (UNION {n[f].imports : f \in Forward(n, t)}) \ Members(n)
    BY <1>1, <1>7
  <2>4. QED
    BY <2>1, <2>2, <2>3
<1>11. old.users \subseteq new.users
  BY <1>8 DEF Fresh
<1>12. QED
  BY <1>9, <1>10, <1>11 DEF Stands
-----------------------------------------------------------------------------
(* The invariant *)

LEMMA InitIInv == ASSUME Init PROVE IInv
BY DEF Init, IInv, JobsAreResolves, ShardsAreWritten, NoHalfShards, Resolving, NoJob, NoFile

(* A write that replaces a shard leaves the others as they were. *)
LEMMA PublishKeepsShards ==
  ASSUME IInv, NEW t \in Targets, NEW b \in Builds, NEW m \in Surfaces,
         Publish(t, Shard(b, m, t))
  PROVE  DOMAIN shards' = Targets /\ ShardsAreWritten' /\ NoHalfShards'
<1>1. Shard(b, m, t).whole
  BY DEF Shard
<1>2. DOMAIN shards' = Targets /\ shards'[t] = Shard(b, m, t)
  BY DEF Publish, IInv
<1>3. \A u \in Targets \ {t} : shards'[u] = shards[u]
  BY DEF Publish, IInv
<1>4. ShardsAreWritten'
  <2> SUFFICES ASSUME NEW u \in Targets, shards'[u].there, shards'[u].whole
               PROVE  \E c \in Builds, n \in Surfaces : shards'[u] = Shard(c, n, u)
    BY DEF ShardsAreWritten
  <2>1. CASE u = t
    BY <1>2, <2>1
  <2>2. CASE u # t
    BY <1>3, <2>2 DEF ShardsAreWritten, IInv
  <2>3. QED
    BY <2>1, <2>2
<1>5. NoHalfShards'
  BY <1>1, <1>2, <1>3 DEF NoHalfShards, IInv, Publish
<1>6. QED
  BY <1>2, <1>4, <1>5

LEMMA DeleteKeepsShards ==
  ASSUME IInv, NEW t, Delete(t)
  PROVE  DOMAIN shards' = Targets /\ ShardsAreWritten' /\ NoHalfShards'
<1>1. DOMAIN shards' = Targets /\ (t \in Targets => ~shards'[t].there)
  BY DEF Delete, IInv, NoFile
<1>2. \A u \in Targets \ {t} : shards'[u] = shards[u]
  BY DEF Delete, IInv
<1>3. ShardsAreWritten'
  BY <1>1, <1>2 DEF ShardsAreWritten, IInv
<1>4. NoHalfShards'
  BY <1>1, <1>2 DEF NoHalfShards, IInv, Delete
<1>5. QED
  BY <1>1, <1>3, <1>4

LEMMA StoreKept ==
  ASSUME IInv, UNCHANGED <<shards, damaged>>
  PROVE  DOMAIN shards' = Targets /\ ShardsAreWritten' /\ NoHalfShards'
<1>1. DOMAIN shards' = Targets /\ NoHalfShards'
  BY DEF IInv, NoHalfShards
<1>2. ShardsAreWritten'
  <2> SUFFICES ASSUME NEW u \in Targets, shards'[u].there, shards'[u].whole
               PROVE  \E b \in Builds, m \in Surfaces : shards'[u] = Shard(b, m, u)
    BY DEF ShardsAreWritten
  <2>1. QED
    BY DEF IInv, ShardsAreWritten
<1>3. QED
  BY <1>1, <1>2

LEMMA JobsKept ==
  ASSUME IInv, NEW s \in Servers, NEW j, Give(s, j),
         j.pc \in {"load", "discard", "compute", "rename"}
           => j.target \in Targets /\ j.seen \in Surfaces
  PROVE  DOMAIN job' = Servers /\ JobsAreResolves'
BY DEF IInv, Give, JobsAreResolves, Resolving, Target, Seen

LEMMA NextIInv == ASSUME IInv, [Next]_vars PROVE IInv'
<1> USE DEF World
<1>1. CASE UNCHANGED vars
  <2>1. UNCHANGED <<surface, build, shards, damaged, job>>
    BY <1>1 DEF vars, store
  <2>2. DOMAIN job' = Servers /\ JobsAreResolves'
    BY <2>1 DEF IInv, JobsAreResolves, Resolving, Target, Seen
  <2>3. QED
    BY <2>1, <2>2, StoreKept DEF IInv
<1>2. ASSUME NEW s \in Servers, NEW t \in Targets, Resolve(s, t)
      PROVE  IInv'
  <2>1. DOMAIN job' = Servers /\ JobsAreResolves'
    BY <1>2, JobsKept DEF Resolve, IInv
  <2>2. QED
    BY <1>2, <2>1, StoreKept DEF Resolve, IInv, store
<1>3. ASSUME NEW s \in Servers, NEW f \in Files, Edit(s, f)
      PROVE  IInv'
  <2>1. surface' \in [Servers -> Surfaces]
    <3>1. PICK c \in Contents[f] : surface' = [surface EXCEPT ![s][f] = c]
      BY <1>3 DEF Edit
    <3>2. surface[s] \in Surfaces
      BY DEF IInv
    <3>3. [surface[s] EXCEPT ![f] = c] \in Surfaces
      BY <3>1, <3>2 DEF Surfaces
    <3>4. QED
      BY <3>1, <3>3 DEF IInv
  <2>2. DOMAIN job' = Servers /\ JobsAreResolves'
    BY <1>3 DEF Edit, IInv, JobsAreResolves, Resolving, Target, Seen
  <2>3. QED
    BY <1>3, <2>1, <2>2, StoreKept DEF Edit, IInv, store
<1>4. ASSUME NEW s \in Servers, Serve(s) \/ Skip(s)
      PROVE  IInv'
  <2>1. DOMAIN job' = Servers /\ JobsAreResolves'
    BY <1>4, JobsKept DEF Serve, Skip, NoJob
  <2>2. QED
    BY <1>4, <2>1, StoreKept DEF Serve, Skip, IInv, store
<1>5. ASSUME NEW s \in Servers, Miss(s)
      PROVE  IInv'
  <2>1. DOMAIN job' = Servers /\ JobsAreResolves'
    BY <1>5 DEF Miss, Go, Give, At, IInv, JobsAreResolves, Resolving, Target, Seen
  <2>2. QED
    BY <1>5, <2>1, StoreKept DEF Miss, IInv, store
<1>6. ASSUME NEW s \in Servers, Discard(s)
      PROVE  IInv'
  <2>1. DOMAIN job' = Servers /\ JobsAreResolves'
    BY <1>6 DEF Discard, Go, Give, At, IInv, JobsAreResolves, Resolving, Target, Seen
  <2>2. Target(s) \in Targets
    BY <1>6 DEF Discard, At, IInv, JobsAreResolves, Resolving
  <2>3. CASE Delete(Target(s))
    BY <1>6, <2>1, <2>2, <2>3, DeleteKeepsShards DEF Discard, IInv
  <2>4. CASE UNCHANGED store
    BY <1>6, <2>1, <2>4, StoreKept DEF Discard, IInv, store
  <2>5. QED
    BY <1>6, <2>3, <2>4 DEF Discard
<1>7. ASSUME NEW s \in Servers, Write(s)
      PROVE  IInv'
  <2>1. Target(s) \in Targets /\ Seen(s) \in Surfaces
    BY <1>7 DEF Write, At, IInv, JobsAreResolves, Resolving
  <2>2. DOMAIN job' = Servers /\ JobsAreResolves'
    BY <1>7, <2>1, JobsKept DEF Write, Fail, NoJob
  <2>3. QED
    BY <1>7, <2>2, StoreKept DEF Write, IInv, store
<1>8. ASSUME NEW s \in Servers, Rename(s)
      PROVE  IInv'
  <2>1. Target(s) \in Targets /\ Seen(s) \in Surfaces
    BY <1>8 DEF Rename, At, IInv, JobsAreResolves, Resolving
  <2>2. build[s] \in Builds
    BY DEF IInv
  <2>3. DOMAIN job' = Servers /\ JobsAreResolves'
    <3>1. Give(s, NoJob) \/ Give(s, [pc |-> "list"])
      BY <1>8 DEF Rename, Written, Fail
    <3>2. QED
      BY <3>1, JobsKept DEF NoJob
  <2>4. CASE Publish(Target(s), Shard(build[s], Seen(s), Target(s)))
    BY <1>8, <2>1, <2>2, <2>3, <2>4, PublishKeepsShards DEF Rename, IInv
  <2>5. CASE UNCHANGED store
    BY <1>8, <2>3, <2>5, StoreKept DEF Rename, IInv, store
  <2>6. QED
    BY <1>8, <2>4, <2>5 DEF Rename
<1>9. ASSUME NEW s \in Servers, List(s)
      PROVE  IInv'
  <2>1. DOMAIN job' = Servers /\ JobsAreResolves'
    BY <1>9, JobsKept DEF List, Sweeping, NoJob
  <2>2. QED
    BY <1>9, <2>1, StoreKept DEF List, IInv, store
<1>10. ASSUME NEW s \in Servers, Evict(s)
       PROVE  IInv'
  <2> DEFINE t == Head(job[s].listed)
  <2>1. DOMAIN job' = Servers /\ JobsAreResolves'
    BY <1>10, JobsKept DEF Evict, Sweeping, NoJob
  <2>2. CASE shards[t].there /\ Delete(t)
    BY <1>10, <2>1, <2>2, DeleteKeepsShards DEF Evict, IInv
  <2>3. CASE UNCHANGED store
    BY <1>10, <2>1, <2>3, StoreKept DEF Evict, IInv, store
  <2>4. QED
    BY <1>10, <2>2, <2>3 DEF Evict
<1>11. ASSUME NEW s \in Servers, Restart(s)
       PROVE  IInv'
  <2>1. DOMAIN job' = Servers /\ JobsAreResolves'
    BY <1>11, JobsKept DEF Restart, NoJob
  <2>2. QED
    BY <1>11, <2>1, StoreKept DEF Restart, IInv, store
<1>12. ASSUME NEW t \in Targets, Damage(t)
       PROVE  IInv'
  <2>1. DOMAIN shards' = Targets /\ ~shards'[t].whole
    BY <1>12 DEF Damage, IInv
  <2>2. \A u \in Targets \ {t} : shards'[u] = shards[u]
    BY <1>12 DEF Damage, IInv
  <2>3. NoHalfShards'
    BY <1>12, <2>2 DEF NoHalfShards, IInv, Damage
  <2>4. ShardsAreWritten'
    <3> SUFFICES ASSUME NEW u \in Targets, shards'[u].there, shards'[u].whole
                 PROVE  \E b \in Builds, m \in Surfaces : shards'[u] = Shard(b, m, u)
      BY DEF ShardsAreWritten
    <3>1. QED
      BY <2>1, <2>2 DEF ShardsAreWritten, IInv
  <2>5. DOMAIN job' = Servers /\ JobsAreResolves'
    BY <1>12 DEF Damage, IInv, JobsAreResolves, Resolving, Target, Seen
  <2>6. QED
    BY <1>12, <2>1, <2>3, <2>4, <2>5 DEF Damage, IInv
<1>13. QED
  BY <1>1, <1>2, <1>3, <1>4, <1>5, <1>6, <1>7, <1>8, <1>9, <1>10, <1>11, <1>12 DEF Next
-----------------------------------------------------------------------------
(* IInv holds in every reachable state. *)
THEOREM CacheInvariant == Spec => []IInv
<1>1. Init => IInv
  BY InitIInv
<1>2. IInv /\ [Next]_vars => IInv'
  BY NextIInv
<1>3. QED
  BY <1>1, <1>2, PTL DEF Spec

(* A crash in the middle of a write leaves no half of a shard to read. *)
THEOREM ShardsAreWhole == Spec => []NoHalfShards
<1>1. IInv => NoHalfShards
  BY DEF IInv
<1>2. QED
  BY <1>1, CacheInvariant, PTL

(* Whatever is served was computed by the running build from what the      *)
(* target's closure says now, with the same specifiers leading nowhere and *)
(* no usage that is gone.                                                  *)
THEOREM HitsStand == Spec => HitsStillStand
<1>1. IInv /\ [Next]_vars => [\A s \in Servers : Serve(s) => Stands(Served(s), Current(s))]_vars
  <2> SUFFICES ASSUME IInv, NEW s \in Servers, Serve(s)
               PROVE  Stands(Served(s), Current(s))
    OBVIOUS
  <2> DEFINE t == Target(s)
             n == Seen(s)
  <2>1. Hit(s)
    BY DEF Serve
  <2>2. t \in Targets /\ t \in Files
    BY <2>1, CacheAssumption DEF Hit, At, IInv, JobsAreResolves, Resolving
  <2>3. PICK b \in Builds, m \in Surfaces : shards[t] = Shard(b, m, t)
    BY <2>1, <2>2 DEF Hit, Identity, IInv, ShardsAreWritten
  <2>4. b = build[s]
    BY <2>1, <2>3 DEF Hit, Identity, Shard
  <2>5. Verifies(Shard(b, m, t), n, t)
    BY <2>1, <2>3 DEF Hit
  <2>6. Stands(Fresh(b, m, t), Fresh(b, n, t))
    BY <2>2, <2>5, VerifiedShardStands
  <2>7. Served(s) = Fresh(b, m, t)
    BY <2>3 DEF Served, Shard
  <2>8. QED
    BY <2>4, <2>6, <2>7 DEF Current
<1>2. QED
  BY <1>1, CacheInvariant, PTL DEF Spec, HitsStillStand
-----------------------------------------------------------------------------
(* The order of the shards and the sweeps.  A sweep that is listed or at   *)
(* work covers what is over the cap: it will try all but a cap's worth of  *)
(* the shards, and its count is no less than what there is and it will try.*)

Kept == ToSet(order)

OrderListsShards ==
  /\ order \in Seq(Targets) /\ IsInjective(order)
  /\ Kept = {t \in Targets : shards[t].there}

HasFiles(j) ==
  /\ j.listed \in Seq(Targets) /\ j.listed # <<>> /\ IsInjective(j.listed)
  /\ j.count \in Nat /\ j.count > MaxShards

SweepsHaveFiles == \A s \in Servers : At(s, "evict") => HasFiles(job[s])

OtherTypes ==
  /\ temps \subseteq Servers \X Targets
  /\ \A s \in Servers : job[s].pc \in Phases
  /\ failures \in [Servers -> Nat]
  /\ damaged \subseteq Kept

Covers(s) ==
  \/ At(s, "list")
  \/ /\ At(s, "evict")
     /\ ~OutOfReach(job[s].listed)
     /\ Cardinality(Kept \cup ToSet(job[s].listed)) <= job[s].count

OverIsCovered ==
  overdue \/ Cardinality(Kept) <= MaxShards \/ \E s \in Servers : Covers(s)

StoreInv == OtherTypes /\ OrderListsShards /\ SweepsHaveFiles /\ OverIsCovered

LEMMA ToSetIsFinite ==
  ASSUME NEW S, NEW q \in Seq(S)
  PROVE  /\ ToSet(q) \subseteq S /\ IsFiniteSet(ToSet(q)) /\ Cardinality(ToSet(q)) \in Nat
         /\ IsInjective(q) => Cardinality(ToSet(q)) = Len(q)
<1>1. Len(q) \in Nat /\ DOMAIN q = 1..Len(q) /\ \A i \in 1..Len(q) : q[i] \in S
  OBVIOUS
<1>2. IsFiniteSet(1..Len(q)) /\ Cardinality(1..Len(q)) = Len(q)
  <2>1. \A n \in Nat : IsFiniteSet(1..n) /\ Cardinality(1..n) = n
    <3> SUFFICES ASSUME NEW n \in Nat
                 PROVE  IsFiniteSet(1..n) /\ Cardinality(1..n) = n
      OBVIOUS
    <3>1. 1 \in Int /\ n \in Int
      OBVIOUS
    <3>2. IsFiniteSet(1..n) /\ Cardinality(1..n) = IF 1 > n THEN 0 ELSE n - 1 + 1
      BY <3>1, FS_Interval
    <3>3. QED
      BY <3>2
  <2>2. QED
    BY <1>1, <2>1
<1>3. q \in Surjection(1..Len(q), ToSet(q))
  BY <1>1 DEF Surjection, ToSet
<1>4. /\ IsFiniteSet(ToSet(q))
      /\ Cardinality(ToSet(q)) = Len(q) <=> q \in Injection(1..Len(q), ToSet(q))
  BY <1>2, <1>3, FS_Surjection
<1>5. IsInjective(q) => q \in Injection(1..Len(q), ToSet(q))
  BY <1>1, <1>3 DEF Injection, Surjection
<1>6. ToSet(q) \subseteq S /\ Cardinality(ToSet(q)) \in Nat
  BY <1>1, <1>4, FS_CardinalityType DEF ToSet
<1>7. QED
  BY <1>4, <1>5, <1>6

(* Taking one place out of a sequence. *)
LEMMA RemovedAt ==
  ASSUME NEW S, NEW q \in Seq(S), NEW k \in 1..Len(q)
  PROVE  /\ RemoveAt(q, k) \in Seq(S) /\ Len(RemoveAt(q, k)) = Len(q) - 1
         /\ \A i \in 1..(Len(q) - 1) : RemoveAt(q, k)[i] = IF i < k THEN q[i] ELSE q[i + 1]
<1> DEFINE n == Len(q)
           a == SubSeq(q, 1, k - 1)
           b == SubSeq(q, k + 1, n)
<1>1. n \in Nat /\ k \in Nat /\ 1 <= k /\ k <= n
  OBVIOUS
<1>2. /\ a \in Seq(S) /\ Len(a) = k - 1
      /\ \A i \in 1..(k - 1) : a[i] = q[i]
  BY <1>1, SubSeqProperties
<1>3. /\ b \in Seq(S) /\ Len(b) = n - k
      /\ \A i \in 1..(n - k) : b[i] = q[k + i]
  BY <1>1, SubSeqProperties
<1> HIDE DEF a, b
<1>4. /\ a \o b \in Seq(S) /\ Len(a \o b) = n - 1
      /\ \A i \in 1..(n - 1) : (a \o b)[i] = IF i <= k - 1 THEN a[i] ELSE b[i - (k - 1)]
  <2>1. /\ a \o b \in Seq(S) /\ Len(a \o b) = Len(a) + Len(b)
        /\ \A i \in 1..(Len(a) + Len(b)) :
             (a \o b)[i] = IF i <= Len(a) THEN a[i] ELSE b[i - Len(a)]
    BY <1>2, <1>3, ConcatProperties
  <2>2. Len(a) + Len(b) = n - 1
    BY <1>1, <1>2, <1>3
  <2>3. QED
    BY <1>2, <2>1, <2>2
<1>5. ASSUME NEW i \in 1..(n - 1)
      PROVE  (a \o b)[i] = IF i < k THEN q[i] ELSE q[i + 1]
  <2>1. CASE i < k
    <3>1. i \in 1..(k - 1) /\ i <= k - 1
      BY <1>1, <2>1
    <3>2. QED
      BY <1>2, <1>4, <2>1, <3>1
  <2>2. CASE ~(i < k)
    <3>1. i - (k - 1) \in 1..(n - k) /\ k + (i - (k - 1)) = i + 1 /\ ~(i <= k - 1)
      BY <1>1, <2>2
    <3>2. QED
      BY <1>3, <1>4, <2>2, <3>1
  <2>3. QED
    BY <2>1, <2>2
<1>6. QED
  BY <1>4, <1>5 DEF RemoveAt, a, b

LEMMA OrderWithout ==
  ASSUME OrderListsShards, NEW t \in Targets
  PROVE  /\ Without(t) \in Seq(Targets) /\ IsInjective(Without(t))
         /\ ToSet(Without(t)) = Kept \ {t}
<1> DEFINE n == Len(order)
<1>1. /\ order \in Seq(Targets) /\ n \in Nat /\ DOMAIN order = 1..n
      /\ \A i, j \in 1..n : order[i] = order[j] => i = j
  BY DEF OrderListsShards, IsInjective
<1>2. CASE t \notin ToSet(order)
  BY <1>2 DEF OrderListsShards, Without, Kept
<1>3. CASE t \in ToSet(order)
  <2> DEFINE k == CHOOSE i \in DOMAIN order : order[i] = t
             q == RemoveAt(order, k)
  <2>1. k \in 1..n /\ order[k] = t
    BY <1>1, <1>3 DEF ToSet
  <2> HIDE DEF k
  <2>2. /\ q \in Seq(Targets) /\ Len(q) = n - 1
        /\ \A i \in 1..(n - 1) : q[i] = IF i < k THEN order[i] ELSE order[i + 1]
    BY <1>1, <2>1, RemovedAt
  <2> HIDE DEF q
  <2>3. DOMAIN q = 1..(n - 1)
    BY <2>2
  <2>4. \A i \in 1..(n - 1) : i \in 1..n /\ i + 1 \in 1..n
    BY <1>1
  <2>5. ASSUME NEW i \in 1..(n - 1), NEW j \in 1..(n - 1), q[i] = q[j]
        PROVE  i = j
    <3>1. CASE i < k /\ j < k
      BY <1>1, <2>2, <2>4, <2>5, <3>1
    <3>2. CASE i < k /\ ~(j < k)
      <4>1. i = j + 1
        BY <1>1, <2>2, <2>4, <2>5, <3>2
      <4>2. QED
        BY <1>1, <2>1, <3>2, <4>1
    <3>3. CASE ~(i < k) /\ j < k
      <4>1. j = i + 1
        BY <1>1, <2>2, <2>4, <2>5, <3>3
      <4>2. QED
        BY <1>1, <2>1, <3>3, <4>1
    <3>4. CASE ~(i < k) /\ ~(j < k)
      <4>1. i + 1 = j + 1
        BY <1>1, <2>2, <2>4, <2>5, <3>4
      <4>2. QED
        BY <1>1, <4>1
    <3>5. QED
      BY <3>1, <3>2, <3>3, <3>4
  <2>6. ToSet(q) \subseteq Kept \ {t}
    <3> SUFFICES ASSUME NEW i \in 1..(n - 1)
                 PROVE  q[i] \in Kept /\ q[i] # t
      BY <2>3 DEF ToSet
    <3>1. CASE i < k
      BY <1>1, <2>1, <2>2, <2>4, <3>1 DEF Kept, ToSet
    <3>2. CASE ~(i < k)
      <4>1. q[i] = order[i + 1] /\ i + 1 \in 1..n /\ i + 1 # k
        BY <1>1, <2>1, <2>2, <2>4, <3>2
      <4>2. QED
        BY <1>1, <2>1, <4>1 DEF Kept, ToSet
    <3>3. QED
      BY <3>1, <3>2
  <2>7. ASSUME NEW u \in Kept, u # t
        PROVE  u \in ToSet(q)
    <3>1. PICK i \in 1..n : order[i] = u
      BY <1>1 DEF Kept, ToSet
    <3>2. i # k
      BY <2>1, <2>7, <3>1
    <3>3. CASE i < k
      <4>1. i \in 1..(n - 1)
        BY <1>1, <2>1, <3>3
      <4>2. QED
        BY <2>2, <2>3, <3>1, <3>3, <4>1 DEF ToSet
    <3>4. CASE i > k
      <4>1. i - 1 \in 1..(n - 1) /\ ~(i - 1 < k) /\ (i - 1) + 1 = i
        BY <1>1, <2>1, <3>4
      <4>2. q[i - 1] = u
        BY <2>2, <3>1, <4>1
      <4>3. QED
        BY <2>3, <4>1, <4>2 DEF ToSet
    <3>5. QED
      BY <1>1, <2>1, <3>2, <3>3, <3>4
  <2>8. Without(t) = q
    BY <1>3 DEF Without, q, k
  <2>9. QED
    BY <2>2, <2>3, <2>5, <2>6, <2>7, <2>8 DEF IsInjective
<1>4. QED
  BY <1>2, <1>3

(* What a write and a removal do to the shards there are. *)
LEMMA PublishAdds ==
  ASSUME OrderListsShards, DOMAIN shards = Targets, NEW t \in Targets, NEW shard,
         shard.there, Publish(t, shard)
  PROVE  OrderListsShards' /\ Kept' = Kept \cup {t} /\ damaged' = damaged \ {t}
<1> DEFINE q == Without(t)
<1>1. /\ q \in Seq(Targets) /\ IsInjective(q) /\ ToSet(q) = Kept \ {t}
      /\ order' = Append(q, t)
  BY OrderWithout DEF Publish
<1> HIDE DEF q
<1> DEFINE n == Len(q)
<1>2. /\ n \in Nat /\ DOMAIN q = 1..n /\ order' \in Seq(Targets) /\ DOMAIN order' = 1..(n + 1)
      /\ order'[n + 1] = t /\ \A i \in 1..n : order'[i] = q[i]
  BY <1>1
<1>3. \A i \in 1..n : q[i] # t
  BY <1>1, <1>2 DEF ToSet
<1>4. IsInjective(order')
  <2> SUFFICES ASSUME NEW i \in 1..(n + 1), NEW j \in 1..(n + 1), order'[i] = order'[j]
               PROVE  i = j
    BY <1>2 DEF IsInjective
  <2>1. CASE i \in 1..n /\ j \in 1..n
    BY <1>1, <1>2, <2>1 DEF IsInjective
  <2>2. CASE i = n + 1 \/ j = n + 1
    BY <1>2, <1>3, <2>2
  <2>3. QED
    BY <1>2, <2>1, <2>2
<1>5. Kept' = Kept \cup {t}
  <2>1. n + 1 \in 1..(n + 1) /\ \A i \in 1..(n + 1) : i \in 1..n \/ i = n + 1
    BY <1>2
  <2>2. ToSet(order') = ToSet(q) \cup {t}
    BY <1>2, <2>1 DEF ToSet
  <2>3. QED
    BY <1>1, <2>2 DEF Kept
<1>6. {u \in Targets : shards'[u].there} = {u \in Targets : shards[u].there} \cup {t}
  BY DEF Publish
<1>7. QED
  BY <1>2, <1>4, <1>5, <1>6 DEF OrderListsShards, Publish

LEMMA DeleteTakes ==
  ASSUME OrderListsShards, DOMAIN shards = Targets, NEW t \in Targets, Delete(t)
  PROVE  OrderListsShards' /\ Kept' = Kept \ {t} /\ damaged' = damaged \ {t}
<1>1. {u \in Targets : shards'[u].there} = {u \in Targets : shards[u].there} \ {t}
  BY DEF Delete, NoFile
<1>2. order' \in Seq(Targets) /\ IsInjective(order') /\ ToSet(order') = Kept \ {t}
  BY OrderWithout DEF Delete
<1>3. QED
  BY <1>1, <1>2 DEF OrderListsShards, Kept, Delete
-----------------------------------------------------------------------------
(* A sweep covers what it did while no shard comes and it does not move.   *)
LEMMA StillCovers ==
  ASSUME OrderListsShards, OrderListsShards', SweepsHaveFiles, Kept' \subseteq Kept,
         NEW s \in Servers, Covers(s), job'[s] = job[s]
  PROVE  Covers(s)'
<1>1. CASE At(s, "list")
  BY <1>1 DEF Covers, At
<1>2. CASE At(s, "evict") /\ ~At(s, "list")
  <2> DEFINE listed == job[s].listed
             F == ToSet(listed)
  <2>1. IsFiniteSet(Kept) /\ IsFiniteSet(F) /\ F = ToSet(job'[s].listed)
    BY <1>2, ToSetIsFinite DEF OrderListsShards, SweepsHaveFiles, HasFiles, Kept
  <2>2. IsFiniteSet(Kept \cup F) /\ IsFiniteSet(Kept \ F)
    BY <2>1, FS_Union, FS_Difference
  <2>3. /\ Cardinality(Kept \cup F) \in Nat /\ Cardinality(Kept' \cup F) \in Nat
        /\ Cardinality(Kept' \cup F) <= Cardinality(Kept \cup F)
        /\ Cardinality(Kept \ F) \in Nat /\ Cardinality(Kept' \ F) \in Nat
        /\ Cardinality(Kept' \ F) <= Cardinality(Kept \ F)
    <3>1. Kept' \cup F \subseteq Kept \cup F /\ Kept' \ F \subseteq Kept \ F
      OBVIOUS
    <3>2. IsFiniteSet(Kept' \cup F) /\ IsFiniteSet(Kept' \ F)
      BY <2>2, <3>1, FS_Subset
    <3>3. QED
      BY <2>2, <3>1, <3>2, FS_Subset, FS_CardinalityType
  <2>4. Cardinality(Kept \cup F) <= job[s].count /\ job[s].count \in Nat
    BY <1>2 DEF Covers, SweepsHaveFiles, HasFiles
  <2>5. ~(Cardinality(Kept \ F) > MaxShards)
    BY <1>2 DEF Covers, OutOfReach, Kept
  <2>6. ~(Cardinality(Kept' \ F) > MaxShards) /\ Cardinality(Kept' \cup F) <= job[s].count
    BY <2>3, <2>4, <2>5, CacheAssumption
  <2>7. QED
    BY <1>2, <2>1, <2>6 DEF Covers, OutOfReach, Kept, At
<1>3. QED
  BY <1>1, <1>2 DEF Covers

(* So what is over the cap is covered until a sweep that covers it moves.  *)
LEMMA CoverStays ==
  ASSUME OrderListsShards, OrderListsShards', SweepsHaveFiles, OverIsCovered, Kept' \subseteq Kept,
         overdue => overdue' \/ Cardinality(Kept') <= MaxShards,
         \A s \in Servers : Covers(s) =>
           job'[s] = job[s] \/ Covers(s)' \/ overdue' \/ Cardinality(Kept') <= MaxShards
  PROVE  OverIsCovered'
<1>1. CASE Cardinality(Kept) <= MaxShards
  <2>1. IsFiniteSet(Kept) /\ Cardinality(Kept) \in Nat
    BY ToSetIsFinite DEF OrderListsShards, Kept
  <2>2. Cardinality(Kept') <= Cardinality(Kept) /\ Cardinality(Kept') \in Nat
    BY <2>1, FS_Subset, FS_CardinalityType
  <2>3. Cardinality(Kept') <= MaxShards
    BY <1>1, <2>1, <2>2, CacheAssumption
  <2>4. QED
    BY <2>3 DEF OverIsCovered
<1>2. CASE overdue
  BY <1>2 DEF OverIsCovered
<1>3. ASSUME NEW s \in Servers, Covers(s)
      PROVE  OverIsCovered'
  BY <1>3, StillCovers DEF OverIsCovered
<1>4. QED
  BY <1>1, <1>2, <1>3 DEF OverIsCovered

(* What a resolve does to the store short of its write. *)
LEMMA ResolveStep ==
  ASSUME IInv, StoreInv, NEW s \in Servers, NEW j, Give(s, j),
         job[s].pc \notin {"list", "evict"}, j.pc \in Phases \ {"evict"},
         UNCHANGED store \/ \E t \in Targets : Delete(t),
         overdue' = overdue, temps' \subseteq Servers \X Targets, failures' \in [Servers -> Nat]
  PROVE  StoreInv'
<1> USE DEF StoreInv
<1>1. /\ job'[s] = j /\ \A r \in Servers : r # s => job'[r] = job[r]
      /\ DOMAIN shards = Targets
  BY DEF Give, IInv
<1>2. OrderListsShards' /\ Kept' \subseteq Kept /\ damaged' \subseteq Kept'
  <2>1. CASE UNCHANGED store
    BY <2>1 DEF store, OrderListsShards, Kept, OtherTypes
  <2>2. ASSUME NEW t \in Targets, Delete(t)
        PROVE  OrderListsShards' /\ Kept' \subseteq Kept /\ damaged' \subseteq Kept'
    <3>1. OrderListsShards' /\ Kept' = Kept \ {t} /\ damaged' = damaged \ {t}
      BY <1>1, <2>2, DeleteTakes
    <3>2. QED
      BY <3>1 DEF OtherTypes
  <2>3. QED
    BY <2>1, <2>2
<1>3. OtherTypes'
  BY <1>1, <1>2 DEF OtherTypes, Phases
<1>4. SweepsHaveFiles'
  BY <1>1 DEF SweepsHaveFiles, At
<1>5. OverIsCovered'
  <2>1. ~Covers(s)
    BY DEF Covers, At
  <2>2. QED
    BY <1>1, <1>2, <2>1, CoverStays
<1>6. QED
  BY <1>2, <1>3, <1>4, <1>5

(* A rename that publishes: the shard was there, or its write sweeps, or   *)
(* had found it there before a removal.                                    *)
LEMMA RenameStep == ASSUME IInv, StoreInv, NEW s \in Servers, Rename(s) PROVE StoreInv'
<1> USE DEF StoreInv
<1> DEFINE t == Target(s)
           w == Shard(build[s], Seen(s), t)
<1>1. /\ t \in Targets /\ DOMAIN shards = Targets /\ job[s].pc \notin {"list", "evict"}
      /\ w.there /\ temps' \subseteq Servers \X Targets
      /\ Give(s, NoJob) \/ Give(s, [pc |-> "list"])
      /\ NoJob.pc = "idle" /\ [pc |-> "list"].pc = "list"
  <2>1. t \in Targets /\ DOMAIN shards = Targets /\ job[s].pc = "rename"
    BY DEF Rename, At, IInv, JobsAreResolves, Resolving
  <2>2. w.there /\ NoJob.pc = "idle" /\ [pc |-> "list"].pc = "list"
    BY DEF Shard, NoJob
  <2>3. temps' \subseteq Servers \X Targets
    BY DEF Rename, OtherTypes
  <2>4. Give(s, NoJob) \/ Give(s, [pc |-> "list"])
    BY DEF Rename, Written, Fail
  <2>5. QED
    BY <2>1, <2>2, <2>3, <2>4
<1>2. failures' \in [Servers -> Nat]
  BY DEF Rename, Fail, OtherTypes
<1>3. CASE UNCHANGED store /\ overdue' = overdue
  BY <1>1, <1>2, <1>3, ResolveStep DEF Phases
<1>4. CASE /\ Publish(t, w) /\ Written(s)
           /\ overdue' = (overdue \/ (job[s].existed /\ ~shards[t].there))
  <2>1. OrderListsShards' /\ Kept' = Kept \cup {t} /\ damaged' = damaged \ {t}
    BY <1>1, <1>4, PublishAdds
  <2>2. /\ job'[s].pc \in {"idle", "list"}
        /\ \A r \in Servers : r # s => job'[r] = job[r]
        /\ ~job[s].existed => job'[s].pc = "list"
    BY <1>1, <1>4 DEF Written, Give, IInv
  <2>3. OtherTypes'
    BY <1>1, <1>2, <2>1, <2>2 DEF OtherTypes, Phases
  <2>4. SweepsHaveFiles'
    BY <2>2 DEF SweepsHaveFiles, At
  <2>5. CASE ~job[s].existed
    BY <2>1, <2>2, <2>3, <2>4, <2>5 DEF OverIsCovered, Covers, At
  <2>6. CASE job[s].existed /\ ~shards[t].there
    BY <1>4, <2>1, <2>3, <2>4, <2>6 DEF OverIsCovered
  <2>7. CASE job[s].existed /\ shards[t].there
    <3>1. Kept' = Kept
      BY <1>1, <2>1, <2>7 DEF OrderListsShards
    <3>2. ~Covers(s)
      BY <1>1 DEF Covers, At
    <3>3. OverIsCovered'
      BY <1>4, <2>1, <2>2, <3>1, <3>2, CoverStays
    <3>4. QED
      BY <2>1, <2>3, <2>4, <3>3
  <2>8. QED
    BY <2>5, <2>6, <2>7
<1>5. QED
  BY <1>3, <1>4 DEF Rename

(* A sweep that begins covers all there is. *)
LEMMA ListStep == ASSUME IInv, StoreInv, NEW s \in Servers, List(s) PROVE StoreInv'
<1> USE DEF StoreInv
<1>1. /\ UNCHANGED <<shards, order, damaged, temps, failures>> /\ DOMAIN job = Servers
      /\ \A r \in Servers : r # s => job'[r] = job[r]
  BY DEF List, store, Give, IInv
<1>2. OrderListsShards' /\ Kept' = Kept
  BY <1>1 DEF OrderListsShards, Kept
<1>3. /\ IsFiniteSet(Kept) /\ Cardinality(Kept) = Len(order) /\ Len(order) \in Nat
  BY ToSetIsFinite DEF OrderListsShards, Kept
<1>4. CASE Trouble /\ Give(s, NoJob) /\ Swept(s, OutOfReach(<<>>))
  <2>1. job'[s] = NoJob /\ NoJob.pc = "idle"
    BY <1>1, <1>4 DEF Give, NoJob
  <2>2. OtherTypes' /\ SweepsHaveFiles'
    BY <1>1, <1>2, <2>1 DEF OtherTypes, SweepsHaveFiles, At, Phases, HasFiles
  <2>3. overdue' \/ Cardinality(Kept') <= MaxShards
    <3>1. ToSet(<<>>) = {} /\ Kept \ {} = Kept
      BY DEF ToSet
    <3>2. OutOfReach(<<>>) \/ Cardinality(Kept) <= MaxShards
      BY <1>3, <3>1, CacheAssumption DEF OutOfReach, Kept
    <3>3. QED
      BY <1>1, <1>2, <1>3, <1>4, <3>2 DEF Swept
  <2>4. QED
    BY <1>2, <2>2, <2>3 DEF OverIsCovered
<1>5. CASE Give(s, Sweeping(order, Len(order))) /\ Swept(s, FALSE)
  <2>1. job'[s] = Sweeping(order, Len(order))
    BY <1>1, <1>5 DEF Give
  <2>2. CASE order = <<>> \/ Len(order) <= 1 \/ Len(order) <= MaxShards
    <3>1. job'[s] = NoJob /\ NoJob.pc = "idle"
      BY <2>1, <2>2 DEF Sweeping, NoJob
    <3>2. OtherTypes' /\ SweepsHaveFiles'
      BY <1>1, <1>2, <3>1 DEF OtherTypes, SweepsHaveFiles, At, Phases, HasFiles
    <3>3. Cardinality(Kept') <= MaxShards
      <4>1. order = <<>> => Len(order) = 0
        OBVIOUS
      <4>2. QED
        BY <1>2, <1>3, <2>2, <4>1, CacheAssumption
    <3>4. QED
      BY <1>2, <3>2, <3>3 DEF OverIsCovered
  <2>3. CASE ~(order = <<>> \/ Len(order) <= 1 \/ Len(order) <= MaxShards)
    <3>1. /\ job'[s] = [pc |-> "evict", listed |-> order, count |-> Len(order)]
          /\ job'[s].pc = "evict" /\ job'[s].listed = order /\ job'[s].count = Len(order)
      BY <2>1, <2>3 DEF Sweeping
    <3>2. OtherTypes'
      BY <1>1, <1>2, <3>1 DEF OtherTypes, Phases
    <3>3. SweepsHaveFiles'
      <4>1. HasFiles(job'[s])
        BY <1>3, <2>3, <3>1, CacheAssumption DEF HasFiles, OrderListsShards
      <4>2. QED
        BY <1>1, <4>1 DEF SweepsHaveFiles, At, HasFiles
    <3>4. Covers(s)'
      <4>1. Kept' \cup ToSet(order) = Kept /\ ToSet(order') \ ToSet(job'[s].listed) = {}
        BY <1>1, <1>2, <3>1 DEF Kept
      <4>2. Cardinality(Kept' \cup ToSet(order)) = Len(order)
        BY <1>3, <4>1
      <4>3. Cardinality(ToSet(order') \ ToSet(job'[s].listed)) = 0
        BY <4>1, FS_EmptySet
      <4>4. ~(0 > MaxShards) /\ Len(order) <= Len(order)
        BY <1>3, CacheAssumption
      <4>5. QED
        BY <3>1, <4>2, <4>3, <4>4 DEF Covers, At, OutOfReach
    <3>5. QED
      BY <1>2, <3>2, <3>3, <3>4 DEF OverIsCovered
  <2>4. QED
    BY <2>2, <2>3
<1>6. QED
  BY <1>4, <1>5 DEF List

(* What is left to try, after one file. *)
LEMMA Rest ==
  ASSUME NEW q \in Seq(Targets), q # <<>>
  PROVE  /\ Head(q) \in Targets /\ Tail(q) \in Seq(Targets)
         /\ ToSet(q) = ToSet(Tail(q)) \cup {Head(q)}
         /\ IsInjective(q) => IsInjective(Tail(q)) /\ Head(q) \notin ToSet(Tail(q))
<1> DEFINE n == Len(q)
<1>1. /\ n \in Nat \ {0} /\ DOMAIN q = 1..n /\ Head(q) = q[1]
      /\ \A i \in 1..n : q[i] \in Targets
  OBVIOUS
<1>2. /\ Tail(q) \in Seq(Targets) /\ DOMAIN Tail(q) = 1..(n - 1)
      /\ \A i \in 1..(n - 1) : Tail(q)[i] = q[i + 1]
  BY <1>1
<1>3. \A i \in 1..(n - 1) : i + 1 \in 1..n /\ i + 1 # 1
  BY <1>1
<1>4. ToSet(q) = ToSet(Tail(q)) \cup {Head(q)}
  <2>1. ToSet(Tail(q)) \cup {Head(q)} \subseteq ToSet(q)
    BY <1>1, <1>2, <1>3 DEF ToSet
  <2>2. ASSUME NEW i \in 1..n
        PROVE  q[i] \in ToSet(Tail(q)) \cup {Head(q)}
    <3>1. CASE i = 1
      BY <1>1, <3>1
    <3>2. CASE i # 1
      <4>1. i - 1 \in 1..(n - 1) /\ (i - 1) + 1 = i
        BY <1>1, <3>2
      <4>2. Tail(q)[i - 1] = q[i]
        BY <1>2, <4>1
      <4>3. QED
        BY <1>2, <4>1, <4>2 DEF ToSet
    <3>3. QED
      BY <3>1, <3>2
  <2>3. QED
    BY <1>1, <2>1, <2>2 DEF ToSet
<1>5. ASSUME IsInjective(q)
      PROVE  IsInjective(Tail(q)) /\ Head(q) \notin ToSet(Tail(q))
  <2>1. \A i, j \in 1..n : q[i] = q[j] => i = j
    BY <1>1, <1>5 DEF IsInjective
  <2>2. IsInjective(Tail(q))
    <3> SUFFICES ASSUME NEW i \in 1..(n - 1), NEW j \in 1..(n - 1), Tail(q)[i] = Tail(q)[j]
                 PROVE  i = j
      BY <1>2 DEF IsInjective
    <3>1. i + 1 = j + 1
      BY <1>2, <1>3, <2>1
    <3>2. QED
      BY <3>1
  <2>3. Head(q) \notin ToSet(Tail(q))
    BY <1>1, <1>2, <1>3, <2>1 DEF ToSet
  <2>4. QED
    BY <2>2, <2>3
<1>6. QED
  BY <1>1, <1>2, <1>4, <1>5

(* A file that is gone, or stays although it should go, leaves the sweep   *)
(* with the others; one that goes counts.                                  *)
LEMMA EvictStep == ASSUME IInv, StoreInv, NEW s \in Servers, Evict(s) PROVE StoreInv'
<1> USE DEF StoreInv
<1> DEFINE q == job[s].listed
           t == Head(q)
           rest == Tail(q)
           count == job[s].count
           F == ToSet(q)
           R == ToSet(rest)
<1>1. /\ DOMAIN job = Servers /\ DOMAIN shards = Targets /\ UNCHANGED <<temps, failures>>
      /\ At(s, "evict") /\ HasFiles(job[s])
  BY DEF Evict, IInv, SweepsHaveFiles
<1>2. /\ t \in Targets /\ rest \in Seq(Targets) /\ IsInjective(rest)
      /\ F = R \cup {t} /\ t \notin R
  BY <1>1, Rest DEF HasFiles
<1>3. IsFiniteSet(Kept) /\ IsFiniteSet(F) /\ IsFiniteSet(R)
  BY <1>1, <1>2, ToSetIsFinite DEF OrderListsShards, HasFiles, Kept
<1>4. PICK k \in {count, count - 1} :
        /\ Give(s, Sweeping(rest, k))
        /\ \/ k = count - 1 /\ shards[t].there /\ Delete(t) /\ Swept(s, FALSE)
           \/ k = count /\ ~shards[t].there /\ UNCHANGED store /\ Swept(s, FALSE)
           \/ k = count /\ UNCHANGED store /\ Swept(s, OutOfReach(rest))
  BY DEF Evict
<1>5. k \in Nat
  BY <1>1, CacheAssumption DEF HasFiles
<1>6. /\ job'[s] = Sweeping(rest, k)
      /\ \A r \in Servers : r # s => job'[r] = job[r]
  BY <1>1, <1>4 DEF Give
<1>7. /\ OrderListsShards' /\ Kept' \subseteq Kept /\ damaged' \subseteq Kept'
      /\ k = count - 1 => Kept' = Kept \ {t}
  <2>1. CASE k = count - 1 /\ Delete(t)
    BY <1>1, <1>2, <2>1, DeleteTakes DEF OtherTypes
  <2>2. CASE k = count /\ UNCHANGED store
    <3>1. k # count - 1
      BY <1>1, <2>2 DEF HasFiles
    <3>2. QED
      BY <2>2, <3>1 DEF store, OrderListsShards, Kept, OtherTypes
  <2>3. QED
    BY <1>4, <2>1, <2>2
<1>8. /\ IsFiniteSet(Kept') /\ Cardinality(Kept') = Len(order') /\ Cardinality(Kept') \in Nat
  BY <1>7, ToSetIsFinite DEF OrderListsShards, Kept
<1>9. \/ job'[s] = NoJob /\ (rest = <<>> \/ k <= MaxShards)
      \/ /\ job'[s].pc = "evict" /\ job'[s].listed = rest /\ job'[s].count = k
         /\ rest # <<>> /\ k > MaxShards
  <2>1. CASE rest = <<>> \/ k <= 1 \/ k <= MaxShards
    <3>1. job'[s] = NoJob
      BY <1>6, <2>1 DEF Sweeping
    <3>2. rest = <<>> \/ k <= MaxShards
      BY <1>5, <2>1, CacheAssumption
    <3>3. QED
      BY <3>1, <3>2
  <2>2. CASE ~(rest = <<>> \/ k <= 1 \/ k <= MaxShards)
    <3>1. job'[s] = [pc |-> "evict", listed |-> rest, count |-> k]
      BY <1>6, <2>2 DEF Sweeping
    <3>2. rest # <<>> /\ k > MaxShards
      BY <1>5, <2>2, CacheAssumption
    <3>3. QED
      BY <3>1, <3>2
  <2>3. QED
    BY <2>1, <2>2
<1>10. OtherTypes' /\ SweepsHaveFiles'
  <2>1. job'[s].pc \in Phases
    BY <1>9 DEF NoJob, Phases
  <2>2. OtherTypes'
    BY <1>1, <1>6, <1>7, <2>1 DEF OtherTypes
  <2>3. At(s, "evict")' => HasFiles(job'[s])
    <3>1. NoJob.pc # "evict"
      BY DEF NoJob
    <3>2. QED
      BY <1>2, <1>5, <1>9, <3>1 DEF At, HasFiles
  <2>4. QED
    BY <1>6, <2>2, <2>3 DEF SweepsHaveFiles, At, HasFiles
<1>11. overdue => overdue' \/ Cardinality(Kept') <= MaxShards
  BY <1>4, <1>8 DEF Swept
<1>12. ASSUME Covers(s)
       PROVE  Covers(s)' \/ overdue' \/ Cardinality(Kept') <= MaxShards
  <2>1. Cardinality(Kept \cup F) <= count /\ ~(Cardinality(Kept \ F) > MaxShards)
    BY <1>1, <1>12 DEF Covers, At, OutOfReach, Kept
  <2>2. Cardinality(Kept' \cup R) <= k /\ Cardinality(Kept' \cup R) \in Nat
    <3>1. IsFiniteSet(Kept \cup F) /\ IsFiniteSet(Kept' \cup R)
      BY <1>3, <1>8, FS_Union
    <3>2. Cardinality(Kept \cup F) \in Nat /\ Cardinality(Kept' \cup R) \in Nat
      BY <3>1, FS_CardinalityType
    <3>3. CASE k = count
      <4>1. Kept' \cup R \subseteq Kept \cup F
        BY <1>2, <1>7
      <4>2. QED
        BY <1>5, <2>1, <3>1, <3>2, <3>3, <4>1, FS_Subset
    <3>4. CASE k = count - 1
      <4>1. Kept' \cup R = (Kept \cup F) \ {t} /\ t \in Kept \cup F
        BY <1>2, <1>7, <3>4
      <4>2. Cardinality(Kept' \cup R) = Cardinality(Kept \cup F) - 1
        <5> DEFINE U == Kept \cup F
        <5>1. IsFiniteSet(U) /\ t \in U /\ Kept' \cup R = U \ {t}
          BY <3>1, <4>1
        <5> HIDE DEF U
        <5>2. Cardinality(U \ {t}) = Cardinality(U) - 1
          BY <5>1, FS_RemoveElement
        <5>3. QED
          BY <5>1, <5>2 DEF U
      <4>3. QED
        BY <1>1, <2>1, <3>2, <3>4, <4>2 DEF HasFiles
    <3>5. QED
      BY <3>3, <3>4
  <2>3. overdue' \/ Cardinality(Kept') <= MaxShards \/ ~(Cardinality(Kept' \ R) > MaxShards)
    <3>1. CASE Swept(s, OutOfReach(rest)) /\ UNCHANGED store
      BY <1>8, <3>1 DEF Swept, OutOfReach, Kept, store
    <3>2. CASE k = count - 1 \/ (~shards[t].there /\ UNCHANGED store)
      <4>1. Kept' \ R \subseteq Kept \ F
        <5>1. CASE k = count - 1
          BY <1>2, <1>7, <5>1
        <5>2. CASE ~shards[t].there
          BY <1>2, <1>7, <5>2 DEF OrderListsShards
        <5>3. QED
          BY <3>2, <5>1, <5>2
      <4>2. IsFiniteSet(Kept \ F) /\ IsFiniteSet(Kept' \ R)
        BY <1>3, <1>8, FS_Difference
      <4>3. /\ Cardinality(Kept' \ R) <= Cardinality(Kept \ F)
            /\ Cardinality(Kept' \ R) \in Nat /\ Cardinality(Kept \ F) \in Nat
        BY <4>1, <4>2, FS_Subset, FS_CardinalityType
      <4>4. QED
        BY <2>1, <4>3, CacheAssumption
    <3>3. QED
      BY <1>4, <3>1, <3>2
  <2>4. CASE job'[s] = NoJob /\ rest = <<>>
    <3>1. R = {} /\ Kept' \ R = Kept'
      BY <2>4 DEF ToSet
    <3>2. QED
      <4>1. Cardinality(Kept' \ R) = Cardinality(Kept')
        BY <3>1
      <4>2. QED
        BY <1>8, <2>3, <4>1, CacheAssumption
  <2>5. CASE job'[s] = NoJob /\ k <= MaxShards
    <3>1. Kept' \subseteq Kept' \cup R /\ IsFiniteSet(Kept' \cup R)
      BY <1>3, <1>8, FS_Union
    <3>2. Cardinality(Kept') <= Cardinality(Kept' \cup R)
      BY <3>1, FS_Subset
    <3>3. QED
      BY <1>5, <1>8, <2>2, <2>5, <3>2, CacheAssumption
  <2>6. CASE job'[s].pc = "evict" /\ job'[s].listed = rest /\ job'[s].count = k
    BY <2>2, <2>3, <2>6 DEF Covers, At, OutOfReach, Kept
  <2>7. QED
    BY <1>9, <2>4, <2>5, <2>6
<1>13. OverIsCovered'
  BY <1>6, <1>7, <1>11, <1>12, CoverStays
<1>14. QED
  BY <1>7, <1>10, <1>13

LEMMA RestartStep == ASSUME IInv, StoreInv, NEW s \in Servers, Restart(s) PROVE StoreInv'
<1> USE DEF StoreInv
<1>1. /\ UNCHANGED <<shards, order, damaged, temps>> /\ DOMAIN job = Servers
      /\ job'[s] = NoJob /\ NoJob.pc = "idle"
      /\ \A r \in Servers : r # s => job'[r] = job[r]
      /\ failures' = [failures EXCEPT ![s] = 0]
      /\ overdue' = (overdue \/ job[s].pc \in {"list", "evict"})
  BY DEF Restart, store, Give, IInv, NoJob
<1>2. OrderListsShards' /\ Kept' = Kept
  BY <1>1 DEF OrderListsShards, Kept
<1>3. OtherTypes' /\ SweepsHaveFiles'
  <2>1. failures' \in [Servers -> Nat]
    BY <1>1 DEF OtherTypes
  <2>2. QED
    BY <1>1, <1>2, <2>1 DEF OtherTypes, SweepsHaveFiles, At, Phases, HasFiles
<1>4. OverIsCovered'
  <2>1. Covers(s) => overdue'
    BY <1>1 DEF Covers, At
  <2>2. QED
    BY <1>1, <1>2, <2>1, CoverStays
<1>5. QED
  BY <1>2, <1>3, <1>4

LEMMA SameStore ==
  ASSUME StoreInv, UNCHANGED <<order, temps, job, failures, overdue>>,
         \A t \in Targets : shards'[t].there = shards[t].there,
         damaged' \subseteq Kept
  PROVE  StoreInv'
<1> USE DEF StoreInv
<1>1. OrderListsShards' /\ Kept' = Kept
  BY DEF OrderListsShards, Kept
<1>2. OtherTypes' /\ SweepsHaveFiles'
  BY <1>1 DEF OtherTypes, SweepsHaveFiles, At, HasFiles
<1>3. OverIsCovered'
  BY <1>1, CoverStays
<1>4. QED
  BY <1>1, <1>2, <1>3

LEMMA Goes ==
  ASSUME NEW s, NEW p, Go(s, p)
  PROVE  \E j : Give(s, j) /\ j.pc \in {p, job[s].pc}
<1> DEFINE j == [job[s] EXCEPT !.pc = p]
<1>1. Give(s, j)
  BY DEF Go
<1>2. j.pc = p \/ j = job[s]
  OBVIOUS
<1>3. QED
  BY <1>1, <1>2

LEMMA NextStoreInv == ASSUME IInv, StoreInv, [Next]_vars PROVE StoreInv'
<1>0. /\ temps \subseteq Servers \X Targets /\ failures \in [Servers -> Nat]
      /\ damaged \subseteq Kept
  BY DEF StoreInv, OtherTypes
<1>1. CASE UNCHANGED vars
  BY <1>0, <1>1, SameStore DEF vars, store
<1>2. ASSUME NEW s \in Servers, NEW t \in Targets, Resolve(s, t)
      PROVE  StoreInv'
  <2> DEFINE j == [pc |-> "load", target |-> t, seen |-> surface[s]]
  <2>1. /\ Give(s, j) /\ j.pc \in Phases \ {"evict"} /\ job[s].pc \notin {"list", "evict"}
        /\ UNCHANGED <<store, overdue, temps, failures>>
    BY <1>2 DEF Resolve, At, Phases
  <2>2. QED
    BY <1>0, <2>1, ResolveStep
<1>3. ASSUME NEW s \in Servers, NEW f \in Files, Edit(s, f)
      PROVE  StoreInv'
  BY <1>0, <1>3, SameStore DEF Edit, store
<1>4. ASSUME NEW s \in Servers, Serve(s) \/ Skip(s)
      PROVE  StoreInv'
  <2>1. /\ Give(s, NoJob) /\ NoJob.pc \in Phases \ {"evict"} /\ job[s].pc \notin {"list", "evict"}
        /\ UNCHANGED <<store, overdue, temps, failures>>
    BY <1>4 DEF Serve, Skip, Hit, At, NoJob, Phases
  <2>2. QED
    BY <1>0, <2>1, ResolveStep
<1>5. ASSUME NEW s \in Servers, Miss(s)
      PROVE  StoreInv'
  <2>1. /\ Go(s, "discard") \/ Go(s, "compute")
        /\ At(s, "load") /\ UNCHANGED <<store, overdue, temps, failures>>
    BY <1>5 DEF Miss
  <2>2. PICK j : Give(s, j) /\ j.pc \in {"load", "discard", "compute"}
    BY <2>1, Goes DEF At
  <2>3. QED
    BY <1>0, <2>1, <2>2, ResolveStep DEF At, Phases
<1>6. ASSUME NEW s \in Servers, Discard(s)
      PROVE  StoreInv'
  <2>1. /\ Go(s, "compute") /\ At(s, "discard") /\ UNCHANGED <<overdue, temps, failures>>
        /\ Delete(Target(s)) \/ UNCHANGED store
        /\ Target(s) \in Targets
    BY <1>6 DEF Discard, At, IInv, JobsAreResolves, Resolving
  <2>2. PICK j : Give(s, j) /\ j.pc \in {"discard", "compute"}
    BY <2>1, Goes DEF At
  <2>3. QED
    BY <1>0, <2>1, <2>2, ResolveStep DEF At, Phases
<1>7. ASSUME NEW s \in Servers, Write(s)
      PROVE  StoreInv'
  <2>1. Target(s) \in Targets /\ job[s].pc = "compute"
    BY <1>7 DEF Write, At, IInv, JobsAreResolves, Resolving
  <2>2. /\ temps' \subseteq Servers \X Targets /\ failures' \in [Servers -> Nat]
        /\ UNCHANGED <<store, overdue>>
    BY <1>0, <1>7, <2>1 DEF Write, Fail
  <2>3. PICK j : Give(s, j) /\ j.pc \in {"rename", "idle"}
    <3> DEFINE k == [pc |-> "rename", target |-> Target(s), seen |-> Seen(s),
                     existed |-> shards[Target(s)].there]
    <3>1. Give(s, k) \/ Give(s, NoJob)
      BY <1>7 DEF Write, Fail
    <3>2. k.pc = "rename" /\ NoJob.pc = "idle"
      BY DEF NoJob
    <3>3. QED
      BY <3>1, <3>2
  <2>4. QED
    BY <2>1, <2>2, <2>3, ResolveStep DEF Phases
<1>8. ASSUME NEW t \in Targets, Damage(t)
      PROVE  StoreInv'
  <2>1. /\ UNCHANGED <<order, temps, job, failures, overdue>>
        /\ \A u \in Targets : shards'[u].there = shards[u].there
    BY <1>8 DEF Damage, IInv
  <2>2. t \in Kept /\ damaged' = damaged \cup {t}
    BY <1>8 DEF Damage, StoreInv, OrderListsShards
  <2>3. QED
    BY <1>0, <2>1, <2>2, SameStore
<1>9. QED
  BY <1>1, <1>2, <1>3, <1>4, <1>5, <1>6, <1>7, <1>8, RenameStep, ListStep, EvictStep, RestartStep
     DEF Next
-----------------------------------------------------------------------------
(* The order, the sweeps and what they cover, in every reachable state.    *)
THEOREM StoreInvariant == Spec => []StoreInv
<1>1. Init => StoreInv
  <2> SUFFICES ASSUME Init
               PROVE  StoreInv
    OBVIOUS
  <2>1. Kept = {} /\ order = <<>> /\ \A t \in Targets : ~shards[t].there
    BY DEF Init, Kept, ToSet, NoFile
  <2>2. OrderListsShards
    BY <2>1 DEF OrderListsShards, IsInjective
  <2>3. OtherTypes /\ SweepsHaveFiles
    BY DEF Init, OtherTypes, SweepsHaveFiles, At, NoJob, Phases
  <2>4. Cardinality(Kept) <= MaxShards
    <3>1. Cardinality(Kept) = 0
      BY <2>1, FS_EmptySet
    <3>2. QED
      BY <3>1, CacheAssumption
  <2>5. QED
    BY <2>2, <2>3, <2>4 DEF StoreInv, OverIsCovered
<1>2. IInv /\ StoreInv /\ [Next]_vars => StoreInv'
  BY NextStoreInv
<1>3. QED
  BY <1>1, <1>2, CacheInvariant, PTL DEF Spec

(* The state has its types, and the order by mtime lists each shard once   *)
(* (disk_cache.rs: the address of a target's shard is stable).             *)
THEOREM CacheTypeOK == Spec => []TypeOK
<1>1. IInv /\ StoreInv => TypeOK
  BY DEF IInv, StoreInv, OtherTypes, OrderListsShards, Kept, TypeOK
<1>2. QED
  BY <1>1, CacheInvariant, StoreInvariant, PTL

(* The cap is kept by whoever is the last to sweep, whatever the sweeps    *)
(* remove from under one another (enforce_disk_diagnostics_cache_caps).    *)
THEOREM CapIsKept == Spec => []QuietStoreIsBounded
<1>1. StoreInv => QuietStoreIsBounded
  <2> SUFFICES ASSUME StoreInv, \A s \in Servers : At(s, "idle")
               PROVE  overdue \/ Len(order) <= MaxShards
    BY DEF QuietStoreIsBounded
  <2>1. \A s \in Servers : ~Covers(s)
    BY DEF Covers, At
  <2>2. Cardinality(Kept) = Len(order)
    BY ToSetIsFinite DEF StoreInv, OrderListsShards, Kept
  <2>3. QED
    BY <2>1, <2>2 DEF StoreInv, OverIsCovered
<1>2. QED
  BY <1>1, StoreInvariant, PTL
=============================================================================
