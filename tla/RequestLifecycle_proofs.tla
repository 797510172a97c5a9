----------------------- MODULE RequestLifecycle_proofs -----------------------
(***************************************************************************)
(* Tokens, cancels and the registry for any number of ids and requests,    *)
(* and lanes and a store of late cancels of any size: which entries the    *)
(* registry may hold, that a cancel which found its request undecided      *)
(* keeps the payload from the client, that a cancel is spent once, and     *)
(* that nothing is dropped at the exit.                                    *)
(***************************************************************************)
EXTENDS RequestLifecycle, FiniteSetTheorems, TLAPS

Statuses == {"pending", "cancelled", "completed"}
Answers  == {NoAnswer, "result", "error", "cancelled"}
N        == Len(idOf)

Holding ==
  [at : {"idle"}, instance : {0}]
    \cup [at : {"resolving"}, instance : Nat]
    \cup [at : {"forgetting", "responding"}, instance : Nat \ {0}, response : Answers]

Types ==
  /\ loop \in {"open", "closing", "joined"}
  /\ idOf \in Seq(Ids)
  /\ status \in Seq(Statuses) /\ Len(status) = N
  /\ answer \in Seq(Answers) /\ Len(answer) = N
  /\ registry \in [Ids -> 0..N]
  /\ handing \in {Nobody} \cup [instance : 1..N, lane : Lane]
  /\ queue \in [Lane -> Seq(0..N)]
  /\ \A l \in Lane : Len(queue[l]) <= Capacity
  /\ held \in [Lane -> Holding]
  /\ \A l \in Lane : held[l].instance <= N
  /\ aimed \subseteq 1..N

(* The registry files each instance under the id it came with. *)
FiledUnderItsId == \A id \in Ids : registry[id] # 0 => idOf[registry[id]] = id

(* A request whose fate is open has not been answered, and if no later one *)
(* has its id, a cancel finds it.                                          *)
IsLast(i) == \A j \in 1..N : idOf[j] = idOf[i] => j <= i

PendingIsFound ==
  \A i \in 1..N : status[i] = "pending" =>
    /\ answer[i] = NoAnswer
    /\ IsLast(i) => registry[idOf[i]] = i

(* Decided first, then forgotten, then answered. *)
DecidedFirst ==
  \A l \in Lane : held[l].at \in {"forgetting", "responding"} =>
    status[held[l].instance] = "completed"

ForgottenFirst ==
  \A l \in Lane : held[l].at = "responding" =>
    \A id \in Ids : registry[id] # held[l].instance

(* The token of a request that a cancel found undecided has been decided,  *)
(* and what is held for its client is no payload.                          *)
AimedIsCancelled ==
  \A i \in aimed :
    /\ status[i] # "pending"
    /\ answer[i] \in {NoAnswer, "cancelled"}
    /\ \A l \in Lane :
         held[l].at \in {"forgetting", "responding"} /\ held[l].instance = i
           => held[l].response \in {NoAnswer, "cancelled"}

IInv ==
  /\ Types /\ FiledUnderItsId /\ PendingIsFound /\ DecidedFirst
  /\ ForgottenFirst /\ AimedIsCancelled /\ NoTokenLeaks

(* The store of late cancels, which the others do not depend on. *)
LateIsBounded ==
  /\ late \subseteq Ids /\ IsFiniteSet(late) /\ Cardinality(late) <= LateLimit
  /\ cancels \in [Ids -> 0..MaxCancels]
-----------------------------------------------------------------------------
LEMMA InitIInv == ASSUME Init PROVE IInv
<1> USE DEF Init, Nobody, Idle
<1>1. Types
  BY RequestAssumption DEF Types, Holding, N
<1>2. FiledUnderItsId /\ PendingIsFound /\ NoTokenLeaks
  BY DEF FiledUnderItsId, PendingIsFound, NoTokenLeaks, N
<1>3. DecidedFirst /\ ForgottenFirst /\ AimedIsCancelled
  BY DEF DecidedFirst, ForgottenFirst, AimedIsCancelled
<1>4. QED
  BY <1>1, <1>2, <1>3 DEF IInv

(* A request that arrives becomes the last instance; the older ones stay.  *)
LEMMA Arrival ==
  ASSUME Types, NEW id \in Ids, NEW what \in Answers, NEW state \in Statuses,
         Arrive(id, what, state)
  PROVE  /\ idOf' \in Seq(Ids) /\ status' \in Seq(Statuses) /\ answer' \in Seq(Answers)
         /\ N' = N + 1 /\ Len(status') = N' /\ Len(answer') = N'
         /\ idOf'[N + 1] = id /\ answer'[N + 1] = what /\ status'[N + 1] = state
         /\ \A i \in 1..N : /\ idOf'[i] = idOf[i] /\ answer'[i] = answer[i]
                            /\ status'[i] = status[i]
BY DEF Types, Arrive, N

(* What was true of the older instances' ids stays true.                   *)
LEMMA LastBefore ==
  ASSUME N \in Nat, N' = N + 1, \A i \in 1..N : idOf'[i] = idOf[i],
         NEW i \in 1..N, IsLast(i)'
  PROVE  IsLast(i) /\ idOf'[N + 1] # idOf[i]
BY DEF IsLast

LEMMA TypesGrow ==
  ASSUME Types, N \in Nat, N' = N + 1
  PROVE  /\ registry \in [Ids -> 0..N'] /\ queue \in [Lane -> Seq(0..N')]
         /\ \A l \in Lane : held[l].instance <= N'
         /\ aimed \subseteq 1..N'
<1>1. 0..N \subseteq 0..N' /\ 1..N \subseteq 1..N'
  OBVIOUS
<1>2. \A q \in Seq(0..N) : q \in Seq(0..N')
  BY <1>1
<1>3. registry \in [Ids -> 0..N'] /\ aimed \subseteq 1..N'
  BY <1>1 DEF Types
<1>4. queue \in [Lane -> Seq(0..N')]
  BY <1>2 DEF Types
<1>5. \A l \in Lane : held[l].instance <= N'
  BY DEF Types, Holding
<1>6. QED
  BY <1>3, <1>4, <1>5

(* A request that is answered as it arrives changes nothing else.          *)
LEMMA AnsweredOnArrival ==
  ASSUME IInv, NEW id \in Ids, NEW what \in Answers,
         Arrive(id, what, "completed"),
         UNCHANGED <<loop, registry, handing, queue, held, aimed>>
  PROVE  IInv'
<1> USE DEF IInv
<1>0. N \in Nat /\ "completed" \in Statuses
  BY DEF Types, N, Statuses
<1> DEFINE Grown ==
      /\ idOf' \in Seq(Ids) /\ status' \in Seq(Statuses) /\ answer' \in Seq(Answers)
      /\ N' = N + 1 /\ Len(status') = N' /\ Len(answer') = N'
      /\ idOf'[N + 1] = id /\ answer'[N + 1] = what /\ status'[N + 1] = "completed"
      /\ \A i \in 1..N : /\ idOf'[i] = idOf[i] /\ answer'[i] = answer[i]
                         /\ status'[i] = status[i]
<1>1. Grown
  BY <1>0, Arrival
<1>2. Types'
  <2>1. handing \in {Nobody} \cup [instance : 1..N', lane : Lane]
    BY <1>0, <1>1 DEF Types
  <2>2. QED
    BY <1>0, <1>1, <2>1, TypesGrow DEF Types
<1>3. FiledUnderItsId' /\ NoTokenLeaks'
  <2>1. \A id2 \in Ids : registry[id2] # 0 => registry[id2] \in 1..N
    BY <1>0 DEF Types
  <2>2. FiledUnderItsId'
    BY <1>1, <2>1 DEF FiledUnderItsId
  <2>3. NoTokenLeaks'
    BY DEF NoTokenLeaks
  <2>4. QED
    BY <2>2, <2>3
<1>4. PendingIsFound'
  <2> SUFFICES ASSUME NEW i \in 1..N', status'[i] = "pending"
               PROVE  answer'[i] = NoAnswer /\ (IsLast(i)' => registry[idOf'[i]] = i)
    BY DEF PendingIsFound
  <2>1. i \in 1..N /\ status[i] = "pending"
    BY <1>0, <1>1
  <2>2. QED
    BY <1>0, <1>1, <2>1, LastBefore DEF PendingIsFound
<1>5. DecidedFirst' /\ ForgottenFirst'
  BY <1>0, <1>1 DEF DecidedFirst, ForgottenFirst, Types, Holding
<1>6. AimedIsCancelled'
  BY <1>0, <1>1 DEF AimedIsCancelled, Types
<1>7. QED
  BY <1>2, <1>3, <1>4, <1>5, <1>6

LEMMA ReceiveQueryKeeps ==
  ASSUME IInv, NEW id \in Ids, NEW lane \in Lane, ReceiveQuery(id, lane)
  PROVE  IInv'
<1> USE DEF IInv
<1>0. /\ N \in Nat /\ "pending" \in Statuses /\ NoAnswer \in Answers
      /\ handing = Nobody
      /\ registry' = [registry EXCEPT ![id] = N + 1]
      /\ handing' = [instance |-> N + 1, lane |-> lane]
      /\ UNCHANGED <<loop, queue, held, aimed>>
  BY DEF Types, N, Statuses, Answers, ReceiveQuery, Register, LoopFree, Arrive
<1>1. /\ idOf' \in Seq(Ids) /\ status' \in Seq(Statuses) /\ answer' \in Seq(Answers)
      /\ N' = N + 1 /\ Len(status') = N' /\ Len(answer') = N'
      /\ idOf'[N + 1] = id /\ answer'[N + 1] = NoAnswer /\ status'[N + 1] = "pending"
      /\ \A i \in 1..N : /\ idOf'[i] = idOf[i] /\ answer'[i] = answer[i]
                         /\ status'[i] = status[i]
  BY <1>0, Arrival DEF ReceiveQuery
<1>2. Types'
  <2>1. handing' \in [instance : 1..N', lane : Lane]
    BY <1>0, <1>1
  <2>2. registry' \in [Ids -> 0..N']
    BY <1>0, <1>1, TypesGrow
  <2>3. QED
    BY <1>0, <1>1, <2>1, <2>2, TypesGrow DEF Types
<1>10. /\ registry'[id] = N + 1
       /\ \A other \in Ids \ {id} : registry'[other] = registry[other]
       /\ \A other \in Ids : registry[other] \in 0..N
  BY <1>0 DEF Types
<1>3. FiledUnderItsId'
  <2> SUFFICES ASSUME NEW other \in Ids, registry'[other] # 0
               PROVE  idOf'[registry'[other]] = other
    BY DEF FiledUnderItsId
  <2>1. CASE other = id
    BY <1>1, <1>10, <2>1
  <2>2. CASE other # id
    BY <1>0, <1>1, <1>10, <2>2 DEF FiledUnderItsId
  <2>3. QED
    BY <2>1, <2>2
<1>4. NoTokenLeaks'
  BY <1>0, <1>1 DEF NoTokenLeaks, Types, Nobody
<1>5. PendingIsFound'
  <2> SUFFICES ASSUME NEW i \in 1..N', status'[i] = "pending"
               PROVE  answer'[i] = NoAnswer /\ (IsLast(i)' => registry'[idOf'[i]] = i)
    BY DEF PendingIsFound
  <2>1. CASE i = N + 1
    BY <1>1, <1>10, <2>1
  <2>2. CASE i \in 1..N
    <3>1. idOf[i] \in Ids /\ idOf'[i] = idOf[i] /\ status[i] = "pending" /\ answer'[i] = answer[i]
      BY <1>1, <2>2 DEF Types, N
    <3>2. IsLast(i)' => IsLast(i) /\ idOf[i] # id
      BY <1>0, <1>1, <2>2, LastBefore
    <3>3. QED
      BY <1>10, <2>2, <3>1, <3>2 DEF PendingIsFound
  <2>3. QED
    BY <1>0, <1>1, <2>1, <2>2
<1>6. DecidedFirst' /\ ForgottenFirst'
  <2>1. ASSUME NEW l \in Lane, held[l].at \in {"forgetting", "responding"}
        PROVE  held[l].instance \in 1..N
    <3>1. held[l] \in Holding /\ held[l].instance <= N
      BY DEF Types
    <3>2. held[l].instance \in Nat \ {0}
      BY <2>1, <3>1 DEF Holding
    <3>3. QED
      BY <1>0, <3>1, <3>2
  <2>2. DecidedFirst'
    BY <1>0, <1>1, <2>1 DEF DecidedFirst
  <2>3. ForgottenFirst'
    <3> SUFFICES ASSUME NEW l \in Lane, held[l].at = "responding", NEW other \in Ids
                 PROVE  registry'[other] # held[l].instance
      BY <1>0 DEF ForgottenFirst
    <3>1. CASE other = id
      BY <1>0, <1>10, <2>1, <3>1
    <3>2. CASE other # id
      BY <1>10, <3>2 DEF ForgottenFirst
    <3>3. QED
      BY <3>1, <3>2
  <2>4. QED
    BY <2>2, <2>3
<1>7. AimedIsCancelled'
  BY <1>0, <1>1 DEF AimedIsCancelled, Types
<1>8. QED
  BY <1>2, <1>3, <1>4, <1>5, <1>6, <1>7

(* With the same instances and registry, what is handed out only moves.    *)
LEMMA SendQueryKeeps == ASSUME IInv, SendQuery PROVE IInv'
<1> USE DEF IInv
<1> DEFINE h == handing.lane
           i == handing.instance
<1>0. /\ N \in Nat /\ h \in Lane /\ i \in 1..N
      /\ queue' = [queue EXCEPT ![h] = Append(@, i)] /\ handing' = Nobody
      /\ Len(queue[h]) < Capacity
      /\ UNCHANGED <<loop, registry, status, held, idOf, answer, aimed>>
  BY DEF Types, N, SendQuery
<1>1. Types'
  BY <1>0, RequestAssumption DEF Types, N
<1>2. NoTokenLeaks'
  <2> SUFFICES ASSUME NEW id \in Ids, registry[id] # 0
               PROVE  \E l \in Lane : \/ held[l].instance = registry[id]
                                      \/ \E k \in DOMAIN queue'[l] : queue'[l][k] = registry[id]
    BY <1>0 DEF NoTokenLeaks
  <2>1. \A l \in Lane : queue[l] \in Seq(0..N)
    BY DEF Types
  <2>2. \A l \in Lane : \A k \in DOMAIN queue[l] :
          k \in DOMAIN queue'[l] /\ queue'[l][k] = queue[l][k]
    BY <1>0, <2>1 DEF Types
  <2>3. Len(queue[h]) + 1 \in DOMAIN queue'[h] /\ queue'[h][Len(queue[h]) + 1] = i
    BY <1>0, <2>1 DEF Types
  <2>4. QED
    BY <1>0, <2>2, <2>3 DEF NoTokenLeaks
<1>3. FiledUnderItsId' /\ PendingIsFound' /\ DecidedFirst' /\ ForgottenFirst' /\ AimedIsCancelled'
  BY <1>0 DEF FiledUnderItsId, PendingIsFound, IsLast, DecidedFirst, ForgottenFirst,
              AimedIsCancelled, N
<1>4. QED
  BY <1>1, <1>2, <1>3

(* The request a cancel found undecided is the one it marks.               *)
LEMMA ReceiveCancelKeeps ==
  ASSUME IInv, NEW id \in Ids, ReceiveCancel(id)
  PROVE  IInv'
<1> USE DEF IInv
<1> DEFINE r == registry[id]
<1>0. /\ N \in Nat /\ r \in 0..N
      /\ status' = IF r # 0 /\ status[r] = "pending"
                   THEN [status EXCEPT ![r] = "cancelled"] ELSE status
      /\ aimed' = aimed \cup Undecided(id)
      /\ UNCHANGED <<loop, registry, handing, queue, held, idOf, answer>>
  BY DEF Types, N, ReceiveCancel, CancelRequest
<1>1. /\ status' \in Seq(Statuses) /\ Len(status') = N
      /\ \A i \in 1..N : status'[i] = status[i] \/ (i = r /\ status[i] = "pending" /\ status'[i] = "cancelled")
      /\ r # 0 => status'[r] # "pending"
  <2>1. CASE r # 0 /\ status[r] = "pending"
    <3>1. status' = [status EXCEPT ![r] = "cancelled"] /\ r \in 1..N
      BY <1>0, <2>1
    <3>2. "cancelled" \in Statuses /\ status \in Seq(Statuses) /\ Len(status) = N
      BY DEF Types, Statuses
    <3>3. QED
      BY <1>0, <2>1, <3>1, <3>2
  <2>2. CASE ~(r # 0 /\ status[r] = "pending")
    BY <1>0, <2>2 DEF Types
  <2>3. QED
    BY <2>1, <2>2
<1>2. Undecided(id) \subseteq 1..N /\ \A i \in Undecided(id) : status[i] = "pending" /\ i = r /\ r # 0
  <2>1. Instances = 1..N
    BY DEF Instances, Types, N
  <2>2. ASSUME NEW i \in Undecided(id)
        PROVE  i \in 1..N /\ status[i] = "pending" /\ i = r
    BY <2>1 DEF Undecided, PendingIsFound, IsLast
  <2>3. QED
    BY <1>0, <2>2
<1>3. Types'
  BY <1>0, <1>1, <1>2 DEF Types, N
<1>4. FiledUnderItsId' /\ NoTokenLeaks' /\ ForgottenFirst'
  BY <1>0 DEF FiledUnderItsId, NoTokenLeaks, ForgottenFirst
<1>5. PendingIsFound'
  BY <1>0, <1>1 DEF PendingIsFound, IsLast, N
<1>6. DecidedFirst'
  BY <1>0, <1>1 DEF DecidedFirst, Types, Holding
<1>7. AimedIsCancelled'
  <2> SUFFICES ASSUME NEW i \in aimed'
               PROVE  /\ status'[i] # "pending"
                      /\ answer[i] \in {NoAnswer, "cancelled"}
                      /\ \A l \in Lane :
                           held[l].at \in {"forgetting", "responding"} /\ held[l].instance = i
                             => held[l].response \in {NoAnswer, "cancelled"}
    BY <1>0 DEF AimedIsCancelled
  <2>1. CASE i \in aimed
    BY <1>0, <1>1, <2>1 DEF AimedIsCancelled, Types
  <2>2. CASE i \in Undecided(id)
    BY <1>0, <1>1, <1>2, <2>2 DEF PendingIsFound, DecidedFirst
  <2>3. QED
    BY <1>0, <2>1, <2>2
<1>8. QED
  BY <1>3, <1>4, <1>5, <1>6, <1>7

LEMMA WarmupKeeps == ASSUME IInv, Warmup PROVE IInv'
<1> USE DEF IInv
<1>0. /\ Heavy \in Lane /\ N \in Nat
      /\ queue' = [queue EXCEPT ![Heavy] = Append(@, 0)] /\ Len(queue[Heavy]) < Capacity
      /\ UNCHANGED <<loop, registry, status, handing, held, idOf, answer, aimed>>
  BY DEF Lane, Warmup, Types, N
<1>1. Types'
  BY <1>0, RequestAssumption DEF Types, N
<1>2. NoTokenLeaks'
  <2>1. \A l \in Lane : queue[l] \in Seq(0..N)
    BY DEF Types
  <2>2. \A l \in Lane : \A k \in DOMAIN queue[l] :
          k \in DOMAIN queue'[l] /\ queue'[l][k] = queue[l][k]
    BY <1>0, <2>1 DEF Types
  <2>3. QED
    BY <1>0, <2>2 DEF NoTokenLeaks
<1>3. FiledUnderItsId' /\ PendingIsFound' /\ DecidedFirst' /\ ForgottenFirst' /\ AimedIsCancelled'
  BY <1>0 DEF FiledUnderItsId, PendingIsFound, IsLast, DecidedFirst, ForgottenFirst,
              AimedIsCancelled, N
<1>4. QED
  BY <1>1, <1>2, <1>3

LEMMA OnlyTheLoopMoves ==
  ASSUME IInv, loop' \in {"open", "closing", "joined"},
         UNCHANGED <<registry, status, handing, queue, held, idOf, answer, aimed>>
  PROVE  IInv'
BY DEF IInv, Types, FiledUnderItsId, PendingIsFound, IsLast, DecidedFirst, ForgottenFirst,
       AimedIsCancelled, NoTokenLeaks, N
-----------------------------------------------------------------------------
(* A query worker *)

LEMMA TakeKeeps == ASSUME IInv, NEW w \in Lane, Take(w) PROVE IInv'
<1> USE DEF IInv
<1>0. /\ N \in Nat /\ queue[w] \in Seq(0..N) /\ queue[w] # <<>> /\ held[w] = Idle
      /\ held' = [held EXCEPT ![w] = [at |-> "resolving", instance |-> Head(queue[w])]]
      /\ queue' = [queue EXCEPT ![w] = Tail(@)]
      /\ UNCHANGED <<loop, registry, status, handing, idOf, answer, aimed>>
  BY DEF Types, N, Take
<1>1. Types'
  BY <1>0, RequestAssumption DEF Types, N, Holding
<1>2. NoTokenLeaks'
  <2> SUFFICES ASSUME NEW id \in Ids, registry[id] # 0, handing.instance # registry[id]
               PROVE  \E l \in Lane : \/ held'[l].instance = registry[id]
                                      \/ \E k \in DOMAIN queue'[l] : queue'[l][k] = registry[id]
    BY <1>0 DEF NoTokenLeaks
  <2>1. PICK l \in Lane : \/ held[l].instance = registry[id]
                          \/ \E k \in DOMAIN queue[l] : queue[l][k] = registry[id]
    BY DEF NoTokenLeaks
  <2>2. CASE l # w
    BY <1>0, <2>1, <2>2 DEF Types
  <2>3. CASE l = w
    <3>1. PICK k \in DOMAIN queue[w] : queue[w][k] = registry[id]
      BY <1>0, <2>1, <2>3 DEF Idle
    <3>2. CASE k = 1
      BY <1>0, <3>1, <3>2 DEF Types
    <3>3. CASE k # 1
      <4>1. k - 1 \in DOMAIN queue'[w] /\ queue'[w][k - 1] = registry[id]
        <5>1. queue'[w] = Tail(queue[w]) /\ k \in 2..Len(queue[w])
          BY <1>0, <3>1, <3>3 DEF Types
        <5>2. /\ DOMAIN Tail(queue[w]) = 1..(Len(queue[w]) - 1)
              /\ \A j \in 1..(Len(queue[w]) - 1) : Tail(queue[w])[j] = queue[w][j + 1]
          BY <1>0
        <5>3. k - 1 \in 1..(Len(queue[w]) - 1) /\ k - 1 + 1 = k
          BY <1>0, <5>1
        <5>4. QED
          BY <3>1, <5>1, <5>2, <5>3
      <4>2. QED
        BY <4>1
    <3>4. QED
      BY <3>2, <3>3
  <2>4. QED
    BY <2>2, <2>3
<1>3. FiledUnderItsId' /\ PendingIsFound'
  BY <1>0 DEF FiledUnderItsId, PendingIsFound, IsLast, N
<1>4. DecidedFirst' /\ ForgottenFirst' /\ AimedIsCancelled'
  BY <1>0 DEF DecidedFirst, ForgottenFirst, AimedIsCancelled, Types
<1>5. QED
  BY <1>1, <1>2, <1>3, <1>4

LEMMA FinishWarmupKeeps == ASSUME IInv, NEW w \in Lane, FinishWarmup(w) PROVE IInv'
<1> USE DEF IInv
<1>0. /\ N \in Nat /\ held[w].instance = 0 /\ held' = [held EXCEPT ![w] = Idle]
      /\ UNCHANGED <<loop, registry, status, handing, queue, idOf, answer, aimed>>
  BY DEF Types, N, FinishWarmup
<1>1. Types'
  BY <1>0 DEF Types, N, Holding, Idle
<1>2. NoTokenLeaks'
  BY <1>0 DEF NoTokenLeaks, Types
<1>3. FiledUnderItsId' /\ PendingIsFound'
  BY <1>0 DEF FiledUnderItsId, PendingIsFound, IsLast, N
<1>4. DecidedFirst' /\ ForgottenFirst' /\ AimedIsCancelled'
  BY <1>0 DEF DecidedFirst, ForgottenFirst, AimedIsCancelled, Types, Idle
<1>5. QED
  BY <1>1, <1>2, <1>3, <1>4

(* The worker that completes a token gets the payload only from a token    *)
(* no cancel has reached.                                                  *)
LEMMA DecideKeeps == ASSUME IInv, NEW w \in Lane, Decide(w) PROVE IInv'
<1> USE DEF IInv
<1> DEFINE i == held[w].instance
<1>0. PICK computed \in {"result", "error"} :
        /\ held' = [held EXCEPT ![w] = [at |-> "forgetting", instance |-> i,
                                        response |-> Verdict(status[i], computed)]]
        /\ status' = [status EXCEPT ![i] = "completed"]
        /\ UNCHANGED <<loop, registry, handing, queue, idOf, answer, aimed>>
  BY DEF Decide
<1>1. N \in Nat /\ i \in 1..N /\ status[i] \in Statuses
  BY DEF Types, Holding, N, Decide
<1>2. Verdict(status[i], computed) \in Answers
  BY <1>1 DEF Verdict, Answers, Statuses
<1>3. status[i] # "pending" => Verdict(status[i], computed) \in {NoAnswer, "cancelled"}
  BY <1>1 DEF Verdict, Statuses
<1>4. /\ status' \in Seq(Statuses) /\ Len(status') = N /\ status'[i] = "completed"
      /\ \A j \in 1..N : j # i => status'[j] = status[j]
  BY <1>0, <1>1 DEF Types, Statuses
<1>5. Types'
  BY <1>0, <1>1, <1>2, <1>4 DEF Types, N, Holding
<1>6. NoTokenLeaks'
  BY <1>0 DEF NoTokenLeaks, Types
<1>7. FiledUnderItsId' /\ PendingIsFound'
  BY <1>0, <1>1, <1>4 DEF FiledUnderItsId, PendingIsFound, IsLast, N
<1>8. DecidedFirst' /\ ForgottenFirst'
  BY <1>0, <1>1, <1>4 DEF DecidedFirst, ForgottenFirst, Types, Holding
<1>9. AimedIsCancelled'
  BY <1>0, <1>1, <1>3, <1>4 DEF AimedIsCancelled, Types
<1>10. QED
  BY <1>5, <1>6, <1>7, <1>8, <1>9

LEMMA RemoveEntryKeeps == ASSUME IInv, NEW w \in Lane, RemoveEntry(w) PROVE IInv'
<1> USE DEF IInv
<1> DEFINE i == held[w].instance
<1>0. /\ N \in Nat /\ i \in 1..N /\ held[w].at = "forgetting" /\ status[i] = "completed"
      /\ held' = [held EXCEPT ![w].at = "responding"]
      /\ UNCHANGED <<loop, status, handing, queue, idOf, answer, aimed>>
  BY DEF Types, N, Holding, RemoveEntry, DecidedFirst
<1>1. /\ registry' \in [Ids -> 0..N] /\ idOf[i] \in Ids
      /\ \A id \in Ids : registry'[id] \in {registry[id], 0} /\ registry'[id] # i
      /\ \A id \in Ids : registry[id] # i => registry'[id] = registry[id]
  BY <1>0 DEF RemoveEntry, Forget, FiledUnderItsId, Types, N
<1>2. Types'
  BY <1>0, <1>1 DEF Types, N, Holding
<1>8. /\ \A l \in Lane : held'[l].instance = held[l].instance
      /\ held'[w].at = "responding"
      /\ \A l \in Lane \ {w} : held'[l] = held[l]
  BY <1>0 DEF Types, Holding
<1>3. NoTokenLeaks'
  <2> SUFFICES ASSUME NEW id \in Ids, registry'[id] # 0
               PROVE  \/ handing.instance = registry'[id]
                      \/ \E l \in Lane : \/ held'[l].instance = registry'[id]
                                         \/ \E k \in DOMAIN queue[l] : queue[l][k] = registry'[id]
    BY <1>0 DEF NoTokenLeaks
  <2>1. registry'[id] = registry[id]
    BY <1>1
  <2>2. QED
    BY <1>8, <2>1 DEF NoTokenLeaks
<1>4. FiledUnderItsId' /\ PendingIsFound'
  <2>1. FiledUnderItsId'
    BY <1>0, <1>1 DEF FiledUnderItsId
  <2>2. PendingIsFound'
    <3> SUFFICES ASSUME NEW j \in 1..N, status[j] = "pending"
                 PROVE  answer[j] = NoAnswer /\ (IsLast(j) => registry'[idOf[j]] = j)
      BY <1>0 DEF PendingIsFound, IsLast, N
    <3>1. idOf[j] \in Ids /\ j # i
      BY <1>0 DEF Types, N
    <3>2. QED
      BY <1>1, <3>1 DEF PendingIsFound
  <2>3. QED
    BY <2>1, <2>2
<1>5. DecidedFirst' /\ ForgottenFirst'
  <2>1. DecidedFirst'
    BY <1>0, <1>8 DEF DecidedFirst
  <2>2. ForgottenFirst'
    <3> SUFFICES ASSUME NEW l \in Lane, held'[l].at = "responding", NEW id \in Ids
                 PROVE  registry'[id] # held'[l].instance
      BY DEF ForgottenFirst
    <3>1. CASE l = w
      BY <1>1, <1>8, <3>1
    <3>2. CASE l # w
      <4>1. registry[id] # held[l].instance /\ held[l].instance # 0
        BY <1>8, <3>2 DEF ForgottenFirst, Types, Holding
      <4>2. QED
        BY <1>1, <1>8, <3>2, <4>1
    <3>3. QED
      BY <3>1, <3>2
  <2>3. QED
    BY <2>1, <2>2
<1>6. AimedIsCancelled'
  BY <1>0 DEF AimedIsCancelled, Types, Holding
<1>7. QED
  BY <1>2, <1>3, <1>4, <1>5, <1>6

LEMMA RespondKeeps == ASSUME IInv, NEW w \in Lane, Respond(w) PROVE IInv'
<1> USE DEF IInv
<1> DEFINE i == held[w].instance
           said == held[w].response
<1>0. /\ N \in Nat /\ i \in 1..N /\ held[w].at = "responding" /\ status[i] = "completed"
      /\ said \in Answers
      /\ held' = [held EXCEPT ![w] = Idle]
      /\ answer' = IF said = NoAnswer THEN answer ELSE [answer EXCEPT ![i] = said]
      /\ UNCHANGED <<loop, registry, status, handing, queue, idOf, aimed>>
  BY DEF Types, N, Holding, Respond, DecidedFirst
<1>1. /\ answer' \in Seq(Answers) /\ Len(answer') = N
      /\ \A j \in 1..N : answer'[j] = answer[j] \/ (j = i /\ answer'[j] = said)
  BY <1>0 DEF Types
<1>2. Types'
  BY <1>0, <1>1 DEF Types, N, Holding, Idle
<1>3. NoTokenLeaks'
  <2>1. \A id \in Ids : registry[id] # i
    BY <1>0 DEF ForgottenFirst
  <2>2. \A l \in Lane \ {w} : held'[l] = held[l]
    BY <1>0 DEF Types
  <2>3. QED
    BY <1>0, <2>1, <2>2 DEF NoTokenLeaks
<1>4. FiledUnderItsId' /\ PendingIsFound'
  BY <1>0, <1>1 DEF FiledUnderItsId, PendingIsFound, IsLast, N
<1>5. DecidedFirst' /\ ForgottenFirst'
  BY <1>0 DEF DecidedFirst, ForgottenFirst, Types, Idle
<1>6. AimedIsCancelled'
  BY <1>0, <1>1 DEF AimedIsCancelled, Types, Idle
<1>7. QED
  BY <1>2, <1>3, <1>4, <1>5, <1>6
-----------------------------------------------------------------------------
LEMMA NextIInv == ASSUME IInv, [Next]_vars PROVE IInv'
<1>1. CASE UNCHANGED vars
  BY <1>1, OnlyTheLoopMoves DEF vars, IInv, Types
<1>2. ASSUME NEW id \in Ids, ReceiveCancelled(id) \/ ReceiveInline(id)
      PROVE  IInv'
  BY <1>2, AnsweredOnArrival DEF ReceiveCancelled, ReceiveInline, Answers
<1>3. CASE EndInput \/ JoinWorkers
  BY <1>3, OnlyTheLoopMoves DEF EndInput, JoinWorkers
<1>4. ASSUME NEW l \in Lane, Worker(l)
      PROVE  IInv'
  BY <1>4, TakeKeeps, FinishWarmupKeeps, DecideKeeps, RemoveEntryKeeps, RespondKeeps DEF Worker
<1>5. QED
  BY <1>1, <1>2, <1>3, <1>4, ReceiveQueryKeeps, SendQueryKeeps, ReceiveCancelKeeps,
     WarmupKeeps DEF Next

LEMMA LateKept ==
  ASSUME LateIsBounded, [Next]_vars
  PROVE  LateIsBounded'
<1> USE DEF LateIsBounded
<1>1. ASSUME NEW id \in Ids, ReceiveCancelled(id)
      PROVE  LateIsBounded'
  <2>1. IsFiniteSet(late \ {id}) /\ Cardinality(late \ {id}) <= Cardinality(late)
    BY FS_Subset
  <2>2. Cardinality(late) \in Nat /\ Cardinality(late \ {id}) \in Nat
    BY <2>1, FS_CardinalityType
  <2>3. QED
    BY <1>1, <2>1, <2>2, RequestAssumption DEF ReceiveCancelled
<1>2. ASSUME NEW id \in Ids, ReceiveCancel(id)
      PROVE  LateIsBounded'
  <2>1. late' \in {late, FileLate(id)} /\ cancels' \in [Ids -> 0..MaxCancels]
    BY <1>2, RequestAssumption DEF ReceiveCancel, CancelRequest
  <2>2. CASE Cardinality(late) >= LateLimit /\ late' = FileLate(id)
    <3>1. late' = {id}
      BY <2>2 DEF FileLate
    <3>2. IsFiniteSet({id}) /\ Cardinality({id}) = 1
      BY FS_Singleton
    <3>3. QED
      BY <2>1, <3>1, <3>2, RequestAssumption
  <2>3. CASE ~(Cardinality(late) >= LateLimit) /\ late' = FileLate(id)
    <3>1. late' = late \cup {id}
      BY <2>3 DEF FileLate
    <3>2. /\ IsFiniteSet(late \cup {id}) /\ Cardinality(late) \in Nat
          /\ Cardinality(late \cup {id}) = Cardinality(late) \/ Cardinality(late \cup {id}) = Cardinality(late) + 1
      BY FS_AddElement, FS_CardinalityType
    <3>3. QED
      BY <2>1, <2>3, <3>1, <3>2, RequestAssumption
  <2>4. QED
    BY <2>1, <2>2, <2>3
<1>3. CASE UNCHANGED <<late, cancels>>
  BY <1>3
<1>4. QED
  BY <1>1, <1>2, <1>3
     DEF Next, vars, ReceiveInline, ReceiveQuery, SendQuery, Warmup, EndInput, JoinWorkers,
         Worker, Take, FinishWarmup, Decide, RemoveEntry, Respond
-----------------------------------------------------------------------------
(* IInv holds in every reachable state. *)
THEOREM RequestInvariant == Spec => []IInv
<1>1. Init => IInv
  BY InitIInv
<1>2. IInv /\ [Next]_vars => IInv'
  BY NextIInv
<1>3. QED
  BY <1>1, <1>2, PTL DEF Spec

(* The store of late cancels stays within its limit, lanes within their    *)
(* capacity, and the state has its types.                                  *)
THEOREM RequestTypes == Spec => []TypeOK
<1>1. Init => LateIsBounded
  BY RequestAssumption, FS_EmptySet DEF Init, LateIsBounded
<1>2. LateIsBounded /\ [Next]_vars => LateIsBounded'
  BY LateKept
<1>3. IInv /\ LateIsBounded => TypeOK
  <2> SUFFICES ASSUME IInv, LateIsBounded
               PROVE  TypeOK
    OBVIOUS
  <2> USE DEF IInv, Types, N
  <2>1. Instances = 1..N
    BY DEF Instances
  <2>2. status \in [Instances -> Statuses] /\ answer \in [Instances -> Answers]
    BY <2>1
  <2>3. handing.instance \in 0..N
    BY DEF Nobody
  <2>4. \A l \in Lane : held[l].instance \in 0..N
    BY DEF Holding
  <2>5. QED
    BY <2>1, <2>2, <2>3, <2>4 DEF LateIsBounded, TypeOK, Statuses, Answers
<1>4. QED
  BY <1>1, <1>2, <1>3, RequestInvariant, PTL DEF Spec

(* No token of a finished request stays in the registry, whatever ids are  *)
(* used again while their older requests run.                              *)
THEOREM TokensDoNotLeak == Spec => []NoTokenLeaks
<1>1. IInv => NoTokenLeaks
  BY DEF IInv
<1>2. QED
  BY <1>1, RequestInvariant, PTL

(* A request that a cancel found undecided is not answered with a payload. *)
THEOREM CancelledIsSuppressed == Spec => []CancelledGetsNoPayload
<1>1. IInv => CancelledGetsNoPayload
  BY DEF IInv, AimedIsCancelled, CancelledGetsNoPayload
<1>2. QED
  BY <1>1, RequestInvariant, PTL
-----------------------------------------------------------------------------
(* How often a cancel is spent.  A request is felled from the step that    *)
(* marks its token or takes its cancel from the store, and a cancel in the *)
(* store has felled nothing yet.                                           *)
AboutToCancel(i) ==
  \E l \in Lane : /\ held[l].at \in {"forgetting", "responding"}
                  /\ held[l].instance = i /\ held[l].response = "cancelled"

Felled(id) ==
  {i \in 1..N : idOf[i] = id /\ (\/ answer[i] = "cancelled"
                                 \/ status[i] = "cancelled"
                                 \/ AboutToCancel(i))}

Covered(id) ==
  /\ Cardinality(Felled(id)) <= cancels[id]
  /\ id \in late => Cardinality(Felled(id)) + 1 <= cancels[id]

CancelsCover == \A id \in Ids : Covered(id)

(* A step that fells nothing, or one request more.                         *)
LEMMA FelledGrows ==
  ASSUME NEW id \in Ids, N \in Nat, N' \in Nat
  PROVE  /\ Cardinality(Felled(id)) \in Nat /\ Cardinality(Felled(id)') \in Nat
         /\ Felled(id)' \subseteq Felled(id)
              => Cardinality(Felled(id)') <= Cardinality(Felled(id))
         /\ \A i : Felled(id)' \subseteq Felled(id) \cup {i}
              => Cardinality(Felled(id)') <= Cardinality(Felled(id)) + 1
<1>1. IsFiniteSet(Felled(id)) /\ IsFiniteSet(Felled(id)')
  <2>1. IsFiniteSet(1..N) /\ IsFiniteSet(1..N')
    BY FS_Interval
  <2>2. Felled(id) \subseteq 1..N /\ Felled(id)' \subseteq 1..N'
    BY DEF Felled
  <2>3. QED
    BY <2>1, <2>2, FS_Subset
<1>2. Cardinality(Felled(id)) \in Nat /\ Cardinality(Felled(id)') \in Nat
  BY <1>1, FS_CardinalityType
<1>3. Felled(id)' \subseteq Felled(id) => Cardinality(Felled(id)') <= Cardinality(Felled(id))
  BY <1>1, FS_Subset
<1>4. ASSUME NEW i, Felled(id)' \subseteq Felled(id) \cup {i}
      PROVE  Cardinality(Felled(id)') <= Cardinality(Felled(id)) + 1
  <2>1. /\ IsFiniteSet(Felled(id) \cup {i})
        /\ \/ Cardinality(Felled(id) \cup {i}) = Cardinality(Felled(id))
           \/ Cardinality(Felled(id) \cup {i}) = Cardinality(Felled(id)) + 1
    BY <1>1, FS_AddElement
  <2>2. Cardinality(Felled(id)') <= Cardinality(Felled(id) \cup {i})
    BY <1>4, <2>1, FS_Subset
  <2>3. QED
    BY <1>2, <2>1, <2>2
<1>5. QED
  BY <1>2, <1>3, <1>4

(* A step that fells nothing leaves every cancel spent as often.           *)
LEMMA NothingFelled ==
  ASSUME CancelsCover, N \in Nat, N' \in Nat, cancels \in [Ids -> 0..MaxCancels],
         late' \subseteq late, cancels' = cancels,
         \A id \in Ids : Felled(id)' \subseteq Felled(id)
  PROVE  CancelsCover'
<1>1. ASSUME NEW id \in Ids
      PROVE  Covered(id)'
  <2>1. /\ Cardinality(Felled(id)) \in Nat /\ Cardinality(Felled(id)') \in Nat
        /\ Cardinality(Felled(id)') <= Cardinality(Felled(id))
    BY <1>1, FelledGrows
  <2>2. Covered(id) /\ cancels[id] \in Nat /\ cancels'[id] = cancels[id]
    BY <1>1, RequestAssumption DEF CancelsCover
  <2>3. QED
    BY <2>1, <2>2 DEF Covered
<1>2. QED
  BY <1>1 DEF CancelsCover

(* A request that arrives is felled if its cancel is in the store.         *)
LEMMA ArrivalFells ==
  ASSUME Types, NEW id \in Ids, NEW what \in Answers, NEW state \in Statuses,
         Arrive(id, what, state), state # "cancelled", held' = held
  PROVE  /\ N \in Nat /\ N' \in Nat
         /\ \A other \in Ids : Felled(other)' \subseteq Felled(other) \cup {N + 1}
         /\ \A other \in Ids : other # id \/ what # "cancelled"
              => Felled(other)' \subseteq Felled(other)
<1>1. /\ N \in Nat /\ N' = N + 1
      /\ idOf'[N + 1] = id /\ answer'[N + 1] = what /\ status'[N + 1] = state
      /\ \A i \in 1..N : /\ idOf'[i] = idOf[i] /\ answer'[i] = answer[i]
                         /\ status'[i] = status[i]
  BY Arrival DEF Types, N
<1>2. ASSUME NEW other \in Ids, NEW i \in Felled(other)'
      PROVE  i \in Felled(other) \/ (i = N + 1 /\ other = id /\ what = "cancelled")
  <2>1. AboutToCancel(i)' = AboutToCancel(i)
    BY DEF AboutToCancel
  <2>2. CASE i \in 1..N
    BY <1>1, <1>2, <2>1, <2>2 DEF Felled
  <2>3. CASE i = N + 1
    <3>1. ~AboutToCancel(i)
      BY <1>1, <2>3 DEF AboutToCancel, Types, Holding
    <3>2. QED
      BY <1>1, <1>2, <2>1, <2>3, <3>1 DEF Felled
  <2>4. QED
    BY <1>1, <1>2, <2>2, <2>3 DEF Felled
<1>3. QED
  BY <1>1, <1>2

(* The workers pass a cancellation on, and make none.                      *)
LEMMA WorkersFellNothing ==
  ASSUME IInv, NEW w \in Lane, Worker(w), NEW id \in Ids
  PROVE  Felled(id)' \subseteq Felled(id)
<1> USE DEF IInv
<1>0. idOf' = idOf /\ N \in Nat /\ N' = N
  BY DEF Worker, Take, FinishWarmup, Decide, RemoveEntry, Respond, Types, N
<1> SUFFICES ASSUME NEW i \in 1..N, idOf[i] = id,
                    \/ answer'[i] = "cancelled"
                    \/ status'[i] = "cancelled"
                    \/ AboutToCancel(i)'
             PROVE  \/ answer[i] = "cancelled"
                    \/ status[i] = "cancelled"
                    \/ AboutToCancel(i)
  BY <1>0 DEF Felled
<1>1. ASSUME Take(w) \/ FinishWarmup(w), AboutToCancel(i)'
      PROVE  AboutToCancel(i)
  <2>1. \A l \in Lane : l # w => held'[l] = held[l]
    BY <1>1 DEF Take, FinishWarmup, Types
  <2>2. held'[w].at \in {"resolving", "idle"}
    BY <1>1 DEF Take, FinishWarmup, Types, Idle
  <2>3. QED
    BY <1>1, <2>1, <2>2 DEF AboutToCancel
<1>2. CASE Take(w) \/ FinishWarmup(w)
  BY <1>1, <1>2 DEF Take, FinishWarmup
<1>3. CASE Decide(w)
  <2> DEFINE i0 == held[w].instance
  <2>1. PICK computed \in {"result", "error"} :
          /\ held' = [held EXCEPT ![w] = [at |-> "forgetting", instance |-> i0,
                                          response |-> Verdict(status[i0], computed)]]
          /\ status' = [status EXCEPT ![i0] = "completed"] /\ answer' = answer
    BY <1>3 DEF Decide
  <2>2. i0 \in 1..N /\ status[i0] \in Statuses
    BY <1>3 DEF Types, Holding, N, Decide
  <2>3. Verdict(status[i0], computed) = "cancelled" => status[i0] = "cancelled"
    BY <2>2 DEF Verdict, Statuses, NoAnswer
  <2>4. status'[i] = "cancelled" => status[i] = "cancelled"
    BY <2>1, <2>2 DEF Types, N
  <2>5. \A l \in Lane : l # w => held'[l] = held[l]
    BY <2>1 DEF Types
  <2>6. /\ held'[w].instance = i0 /\ held'[w].response = Verdict(status[i0], computed)
    BY <2>1 DEF Types
  <2>7. AboutToCancel(i)' => AboutToCancel(i) \/ status[i] = "cancelled"
    BY <2>3, <2>5, <2>6 DEF AboutToCancel
  <2>8. QED
    BY <2>1, <2>4, <2>7
<1>4. CASE RemoveEntry(w)
  <2>1. /\ held' = [held EXCEPT ![w].at = "responding"] /\ held[w].at = "forgetting"
        /\ answer' = answer /\ status' = status
    BY <1>4 DEF RemoveEntry
  <2>2. /\ \A l \in Lane : l # w => held'[l] = held[l]
        /\ held'[w].instance = held[w].instance /\ held'[w].response = held[w].response
    BY <2>1 DEF Types, Holding
  <2>3. AboutToCancel(i)' => AboutToCancel(i)
    BY <2>1, <2>2 DEF AboutToCancel
  <2>4. QED
    BY <2>1, <2>3
<1>5. CASE Respond(w)
  <2>1. /\ held[w].at = "responding" /\ status' = status
        /\ answer' = IF held[w].response = NoAnswer THEN answer
                     ELSE [answer EXCEPT ![held[w].instance] = held[w].response]
        /\ held' = [held EXCEPT ![w] = Idle]
    BY <1>5 DEF Respond
  <2>2. answer'[i] = answer[i] \/ (i = held[w].instance /\ answer'[i] = held[w].response)
    BY <2>1 DEF Types, N
  <2>3. answer'[i] = "cancelled" => answer[i] = "cancelled" \/ AboutToCancel(i)
    BY <2>1, <2>2 DEF AboutToCancel
  <2>4. \A l \in Lane : l # w => held'[l] = held[l]
    BY <2>1 DEF Types
  <2>5. held'[w].at = "idle"
    BY <2>1 DEF Types, Idle
  <2>6. AboutToCancel(i)' => AboutToCancel(i)
    BY <2>4, <2>5 DEF AboutToCancel
  <2>7. QED
    BY <2>1, <2>3, <2>6
<1>6. QED
  BY <1>2, <1>3, <1>4, <1>5 DEF Worker

(* A cancel is filed in the store, or fells the request it finds.          *)
LEMMA CancelFellsOne ==
  ASSUME IInv, LateIsBounded, CancelsCover, NEW id \in Ids, ReceiveCancel(id)
  PROVE  CancelsCover'
<1> USE DEF IInv
<1> DEFINE r == registry[id]
<1>1. /\ N \in Nat /\ N' = N /\ r \in 0..N /\ cancels \in [Ids -> 0..MaxCancels]
      /\ cancels' = [cancels EXCEPT ![id] = @ + 1]
      /\ UNCHANGED <<held, idOf, answer>>
  BY DEF Types, N, ReceiveCancel, LateIsBounded
<1>2. \A i : AboutToCancel(i)' = AboutToCancel(i)
  BY <1>1 DEF AboutToCancel
<1>3. ASSUME NEW other \in Ids
      PROVE  Covered(other)'
  <2>0. /\ Covered(other) /\ cancels[other] \in Nat
        /\ cancels'[other] = IF other = id THEN cancels[other] + 1 ELSE cancels[other]
    BY <1>1, RequestAssumption DEF CancelsCover
  <2>1. CASE r = 0
    <3>1. late' \subseteq late \cup {id} /\ status' = status
      BY <2>1 DEF ReceiveCancel, CancelRequest, FileLate
    <3>2. Felled(other)' = Felled(other)
      BY <1>1, <1>2, <3>1 DEF Felled
    <3>3. Cardinality(Felled(other)) \in Nat
      BY <1>1, FelledGrows
    <3>4. QED
      BY <2>0, <3>1, <3>2, <3>3 DEF Covered
  <2>2. CASE r # 0
    <3>1. /\ late' = late /\ r \in 1..N /\ idOf[r] = id
          /\ \A i \in 1..N : status'[i] = status[i] \/ i = r
      <4>1. r \in 1..N /\ idOf[r] = id
        BY <1>1, <2>2 DEF FiledUnderItsId
      <4>2. /\ late' = late
            /\ status' = IF status[r] = "pending" THEN [status EXCEPT ![r] = "cancelled"]
                         ELSE status
        BY <2>2 DEF ReceiveCancel, CancelRequest
      <4>3. \A i \in 1..N : status'[i] = status[i] \/ i = r
        BY <4>1, <4>2 DEF Types
      <4>4. QED
        BY <4>1, <4>2, <4>3
    <3>2. /\ Felled(other)' \subseteq Felled(other) \cup {r}
          /\ other # id => Felled(other)' \subseteq Felled(other)
      BY <1>1, <1>2, <3>1 DEF Felled
    <3>3. /\ Cardinality(Felled(other)) \in Nat /\ Cardinality(Felled(other)') \in Nat
          /\ Cardinality(Felled(other)') <= Cardinality(Felled(other)) + 1
          /\ other # id => Cardinality(Felled(other)') <= Cardinality(Felled(other))
      BY <1>1, <3>2, FelledGrows
    <3>4. QED
      BY <2>0, <3>1, <3>3 DEF Covered
  <2>3. QED
    BY <2>1, <2>2
<1>4. QED
  BY <1>3 DEF CancelsCover

(* Every step spends the cancels as the store and the registry say.        *)
LEMMA CoverKept ==
  ASSUME IInv, LateIsBounded, CancelsCover, [Next]_vars
  PROVE  CancelsCover'
<1>0. Types /\ N \in Nat /\ cancels \in [Ids -> 0..MaxCancels]
  BY DEF IInv, Types, N, LateIsBounded
<1>1. ASSUME NEW id \in Ids, ReceiveCancelled(id)
      PROVE  CancelsCover'
  <2>1. /\ id \in late /\ late' = late \ {id} /\ cancels' = cancels /\ held' = held
        /\ Arrive(id, "cancelled", "completed")
        /\ "cancelled" \in Answers /\ "completed" \in Statuses
    BY <1>1 DEF ReceiveCancelled, Answers, Statuses
  <2>2. /\ N' \in Nat
        /\ \A other \in Ids : Felled(other)' \subseteq Felled(other) \cup {N + 1}
        /\ \A other \in Ids : other # id => Felled(other)' \subseteq Felled(other)
    BY <1>0, <2>1, ArrivalFells
  <2>3. ASSUME NEW other \in Ids
        PROVE  Covered(other)'
    <3>1. /\ Cardinality(Felled(other)) \in Nat /\ Cardinality(Felled(other)') \in Nat
          /\ Cardinality(Felled(other)') <= Cardinality(Felled(other)) + 1
          /\ other # id => Cardinality(Felled(other)') <= Cardinality(Felled(other))
      BY <1>0, <2>2, FelledGrows
    <3>2. Covered(other) /\ cancels[other] \in Nat
      BY <1>0, RequestAssumption DEF CancelsCover
    <3>3. QED
      BY <2>1, <3>1, <3>2 DEF Covered
  <2>4. QED
    BY <2>3 DEF CancelsCover
<1>2. ASSUME NEW id \in Ids, NEW what \in {"result", NoAnswer},
             NEW state \in {"completed", "pending"}, Arrive(id, what, state),
             UNCHANGED <<held, late, cancels>>
      PROVE  CancelsCover'
  <2>1. what \in Answers /\ what # "cancelled" /\ state \in Statuses /\ state # "cancelled"
    BY <1>2 DEF Answers, Statuses, NoAnswer
  <2>2. N' \in Nat /\ \A other \in Ids : Felled(other)' \subseteq Felled(other)
    BY <1>0, <1>2, <2>1, ArrivalFells
  <2>3. QED
    BY <1>0, <1>2, <2>2, NothingFelled
<1>3. ASSUME NEW id \in Ids, ReceiveInline(id)
      PROVE  CancelsCover'
  BY <1>2, <1>3 DEF ReceiveInline
<1>4. ASSUME NEW id \in Ids, NEW l \in Lane, ReceiveQuery(id, l)
      PROVE  CancelsCover'
  BY <1>2, <1>4 DEF ReceiveQuery
<1>5. ASSUME NEW w \in Lane, Worker(w)
      PROVE  CancelsCover'
  <2>1. late' = late /\ cancels' = cancels /\ idOf' = idOf
    BY <1>5 DEF Worker, Take, FinishWarmup, Decide, RemoveEntry, Respond
  <2>2. QED
    BY <1>0, <1>5, <2>1, WorkersFellNothing, NothingFelled DEF N
<1>6. CASE UNCHANGED <<held, idOf, answer, status, late, cancels>>
  <2>1. \A id \in Ids : Felled(id)' = Felled(id)
    BY <1>6 DEF Felled, AboutToCancel, N
  <2>2. QED
    BY <1>0, <1>6, <2>1, NothingFelled DEF N
<1>7. QED
  BY <1>1, <1>3, <1>4, <1>5, <1>6, CancelFellsOne
     DEF Next, vars, SendQuery, Warmup, EndInput, JoinWorkers

(* A cancel is spent once: an id has no more requests answered as          *)
(* cancelled than cancels were sent for it (message_loop.rs, state.rs).    *)
THEOREM CancelsAreSpentOnce == Spec => []CancelSpentOnce
<1>1. Init => LateIsBounded /\ CancelsCover
  <2> SUFFICES ASSUME Init
               PROVE  LateIsBounded /\ CancelsCover
    OBVIOUS
  <2>1. LateIsBounded
    BY RequestAssumption, FS_EmptySet DEF Init, LateIsBounded
  <2>2. \A id \in Ids : Felled(id) = {}
    BY DEF Init, Felled, N
  <2>3. Cardinality({}) = 0 /\ late = {} /\ \A id \in Ids : cancels[id] = 0
    BY FS_EmptySet DEF Init
  <2>4. \A id \in Ids : Cardinality(Felled(id)) = 0 /\ id \notin late /\ cancels[id] = 0
    BY <2>2, <2>3
  <2>5. CancelsCover
    BY <2>4 DEF CancelsCover, Covered
  <2>6. QED
    BY <2>1, <2>5
<1>2. IInv /\ LateIsBounded /\ CancelsCover /\ [Next]_vars => LateIsBounded' /\ CancelsCover'
  BY LateKept, CoverKept
<1>3. IInv /\ LateIsBounded /\ CancelsCover => CancelSpentOnce
  <2> SUFFICES ASSUME IInv, LateIsBounded, CancelsCover, NEW id \in Ids
               PROVE  Cardinality({i \in Instances : idOf[i] = id /\ answer[i] = "cancelled"})
                        <= cancels[id]
    BY DEF CancelSpentOnce
  <2> DEFINE told == {i \in Instances : idOf[i] = id /\ answer[i] = "cancelled"}
  <2>1. N \in Nat /\ Instances = 1..N /\ cancels[id] \in Nat
    BY RequestAssumption DEF IInv, Types, N, Instances, LateIsBounded
  <2>2. told \subseteq Felled(id) /\ Felled(id) \subseteq 1..N
    BY <2>1 DEF Felled
  <2>3. IsFiniteSet(Felled(id)) /\ Cardinality(Felled(id)) \in Nat
    <3>1. IsFiniteSet(1..N)
      BY <2>1, FS_Interval
    <3>2. IsFiniteSet(Felled(id))
      BY <2>2, <3>1, FS_Subset
    <3>3. QED
      BY <3>2, FS_CardinalityType
  <2>4. Cardinality(told) <= Cardinality(Felled(id)) /\ Cardinality(told) \in Nat
    BY <2>2, <2>3, FS_Subset, FS_CardinalityType
  <2>5. Cardinality(Felled(id)) <= cancels[id]
    BY DEF CancelsCover, Covered
  <2>6. QED
    BY <2>1, <2>3, <2>4, <2>5
<1>4. QED
  BY <1>1, <1>2, <1>3, RequestInvariant, PTL DEF Spec
-----------------------------------------------------------------------------
(* Nothing is dropped at the exit.  A request without an answer is in one  *)
(* place: with the loop, in one lane's queue, or with one worker.          *)
Handed(i)    == handing.instance = i
Queued(l, i) == \E k \in DOMAIN queue[l] : queue[l][k] = i
Holds(l, i)  == held[l].instance = i
Single(l, i) == \A j, k \in DOMAIN queue[l] : queue[l][j] = i /\ queue[l][k] = i => j = k

UnderWay(i) == Handed(i) \/ \E l \in Lane : Holds(l, i) \/ Queued(l, i)

UnansweredIsUnderWay == \A i \in 1..N : answer[i] = NoAnswer => UnderWay(i)

OnePlace ==
  \A i \in 1..N : \A l \in Lane :
    /\ Handed(i) => ~Queued(l, i) /\ ~Holds(l, i)
    /\ Single(l, i)
    /\ \A m \in Lane : /\ ~(Holds(l, i) /\ Queued(m, i))
                       /\ Holds(l, i) /\ Holds(m, i) => l = m
                       /\ Queued(l, i) /\ Queued(m, i) => l = m

(* What has not been resolved has not been decided, so that its worker has *)
(* a response for it.                                                      *)
Unresolved(i) ==
  Handed(i) \/ \E l \in Lane : Queued(l, i) \/ (held[l].at = "resolving" /\ Holds(l, i))

UnresolvedIsUndecided == \A i \in 1..N : Unresolved(i) => status[i] # "completed"

ResponsesAreSaid ==
  \A l \in Lane : held[l].at \in {"forgetting", "responding"} => held[l].response # NoAnswer

ClosedInOrder ==
  /\ loop # "open" => handing = Nobody
  /\ loop = "joined" => WorkersDone

NothingIsDropped ==
  /\ UnansweredIsUnderWay /\ OnePlace /\ UnresolvedIsUndecided
  /\ ResponsesAreSaid /\ ClosedInOrder

(* An instance that has not come yet is nowhere.                           *)
LEMMA NewIsNowhere ==
  ASSUME Types
  PROVE  ~Handed(N + 1) /\ \A l \in Lane : ~Queued(l, N + 1) /\ ~Holds(l, N + 1)
<1>1. N \in Nat
  BY DEF Types, N
<1>2. ~Handed(N + 1)
  BY <1>1 DEF Handed, Types, Nobody
<1>3. ASSUME NEW l \in Lane
      PROVE  ~Queued(l, N + 1) /\ ~Holds(l, N + 1)
  <2>1. DOMAIN queue[l] = 1..Len(queue[l])
    BY DEF Types
  <2>2. \A k \in 1..Len(queue[l]) : queue[l][k] \in 0..N
    BY DEF Types
  <2>3. held[l].instance \in Nat /\ held[l].instance <= N
    BY DEF Types, Holding
  <2>4. QED
    BY <1>1, <2>1, <2>2, <2>3 DEF Queued, Holds
<1>4. QED
  BY <1>2, <1>3

(* Sending puts an instance behind the others of its lane.                 *)
LEMMA QueueWhenSent ==
  ASSUME Types, NEW h \in Lane, NEW x \in 0..N, queue' = [queue EXCEPT ![h] = Append(@, x)]
  PROVE  \A i \in 1..N : \A l \in Lane :
           /\ Queued(l, i)' <=> Queued(l, i) \/ (l = h /\ i = x)
           /\ Single(l, i) /\ ~(i = x /\ Queued(l, i)) => Single(l, i)'
<1>1. ASSUME NEW i \in 1..N, NEW l \in Lane, l # h
      PROVE  /\ Queued(l, i)' <=> Queued(l, i)
             /\ Single(l, i) => Single(l, i)'
  <2>1. queue'[l] = queue[l]
    BY <1>1 DEF Types
  <2>2. QED
    BY <2>1 DEF Queued, Single
<1>2. ASSUME NEW i \in 1..N
      PROVE  /\ Queued(h, i)' <=> Queued(h, i) \/ i = x
             /\ Single(h, i) /\ ~(i = x /\ Queued(h, i)) => Single(h, i)'
  <2> DEFINE q == queue[h]
             n == Len(queue[h])
  <2>1. /\ q \in Seq(0..N) /\ n \in Nat /\ DOMAIN q = 1..n
        /\ queue'[h] = Append(q, x)
    BY DEF Types
  <2>2. /\ DOMAIN queue'[h] = 1..(n + 1) /\ queue'[h][n + 1] = x
        /\ \A k \in 1..n : queue'[h][k] = q[k]
    BY <2>1
  <2>3. Queued(h, i)' <=> Queued(h, i) \/ i = x
    <3>1. Queued(h, i)' => Queued(h, i) \/ i = x
      BY <2>1, <2>2 DEF Queued
    <3>2. Queued(h, i) \/ i = x => Queued(h, i)'
      BY <2>1, <2>2 DEF Queued
    <3>3. QED
      BY <3>1, <3>2
  <2>4. ASSUME Single(h, i), ~(i = x /\ Queued(h, i)),
               NEW j \in 1..(n + 1), NEW k \in 1..(n + 1), queue'[h][j] = i, queue'[h][k] = i
        PROVE  j = k
    <3>1. CASE j \in 1..n /\ k \in 1..n
      BY <2>1, <2>2, <2>4, <3>1 DEF Single
    <3>2. CASE j = n + 1 /\ k \in 1..n
      BY <2>1, <2>2, <2>4, <3>2 DEF Queued
    <3>3. CASE j \in 1..n /\ k = n + 1
      BY <2>1, <2>2, <2>4, <3>3 DEF Queued
    <3>4. CASE j = n + 1 /\ k = n + 1
      BY <3>4
    <3>5. QED
      BY <2>1, <3>1, <3>2, <3>3, <3>4
  <2>5. Single(h, i) /\ ~(i = x /\ Queued(h, i)) => Single(h, i)'
    BY <2>2, <2>4 DEF Single
  <2>6. QED
    BY <2>3, <2>5
<1>3. QED
  BY <1>1, <1>2

(* Taking the head leaves the others of its lane behind it.                *)
LEMMA QueueWhenTaken ==
  ASSUME Types, NEW w \in Lane, queue[w] # <<>>, queue' = [queue EXCEPT ![w] = Tail(@)]
  PROVE  /\ Queued(w, Head(queue[w])) /\ Head(queue[w]) \in 0..N
         /\ \A i \in 1..N : \A l \in Lane :
              /\ Queued(l, i)' => Queued(l, i)
              /\ Single(l, i) => Single(l, i)'
              /\ Queued(l, i) => Queued(l, i)' \/ (l = w /\ i = Head(queue[w]))
              /\ Single(w, i) /\ i = Head(queue[w]) => ~Queued(w, i)'
<1> DEFINE q == queue[w]
           n == Len(queue[w])
<1>1. /\ q \in Seq(0..N) /\ n \in Nat \ {0} /\ DOMAIN q = 1..n /\ Head(q) = q[1]
      /\ queue'[w] = Tail(q) /\ \A k \in 1..n : q[k] \in 0..N
  BY DEF Types
<1>2. /\ DOMAIN queue'[w] = 1..(n - 1)
      /\ \A k \in 1..(n - 1) : queue'[w][k] = q[k + 1] /\ k + 1 \in 1..n
  <2>1. /\ DOMAIN Tail(q) = 1..(n - 1)
        /\ \A k \in 1..(n - 1) : Tail(q)[k] = q[k + 1]
    BY <1>1
  <2>2. \A k \in 1..(n - 1) : k + 1 \in 1..n
    BY <1>1
  <2>3. QED
    BY <1>1, <2>1, <2>2
<1>3. Queued(w, Head(q)) /\ Head(q) \in 0..N
  <2>1. 1 \in 1..n
    BY <1>1
  <2>2. QED
    BY <1>1, <2>1 DEF Queued
<1>4. ASSUME NEW i \in 1..N, NEW l \in Lane, l # w
      PROVE  (Queued(l, i)' <=> Queued(l, i)) /\ (Single(l, i) => Single(l, i)')
  <2>1. queue'[l] = queue[l]
    BY <1>4 DEF Types
  <2>2. QED
    BY <2>1 DEF Queued, Single
<1>5. ASSUME NEW i \in 1..N
      PROVE  /\ Queued(w, i)' => Queued(w, i)
             /\ Single(w, i) => Single(w, i)'
             /\ Queued(w, i) => Queued(w, i)' \/ i = Head(q)
             /\ Single(w, i) /\ i = Head(q) => ~Queued(w, i)'
  <2>1. Queued(w, i)' => Queued(w, i)
    BY <1>1, <1>2 DEF Queued
  <2>2. ASSUME Single(w, i), NEW j \in 1..(n - 1), NEW k \in 1..(n - 1),
               queue'[w][j] = i, queue'[w][k] = i
        PROVE  j = k
    <3>1. /\ j + 1 \in 1..n /\ k + 1 \in 1..n /\ q[j + 1] = i /\ q[k + 1] = i
      BY <1>2, <2>2
    <3>2. j + 1 = k + 1
      BY <1>1, <2>2, <3>1 DEF Single
    <3>3. QED
      BY <3>2
  <2>3. Single(w, i) => Single(w, i)'
    BY <1>2, <2>2 DEF Single
  <2>4. ASSUME Queued(w, i), i # Head(q)
        PROVE  Queued(w, i)'
    <3>1. PICK k \in 1..n : q[k] = i
      BY <1>1, <2>4 DEF Queued
    <3>2. k # 1 /\ k - 1 \in 1..(n - 1) /\ (k - 1) + 1 = k
      BY <1>1, <2>4, <3>1
    <3>3. QED
      BY <1>2, <3>1, <3>2 DEF Queued
  <2>5. ASSUME Single(w, i), i = Head(q), NEW k \in 1..(n - 1), queue'[w][k] = i
        PROVE  FALSE
    <3>1. q[k + 1] = i /\ k + 1 \in 1..n /\ 1 \in 1..n /\ q[1] = i /\ k + 1 # 1
      BY <1>1, <1>2, <2>5
    <3>2. QED
      BY <1>1, <2>5, <3>1 DEF Single
  <2>6. Single(w, i) /\ i = Head(q) => ~Queued(w, i)'
    BY <1>2, <2>5 DEF Queued
  <2>7. QED
    BY <2>1, <2>3, <2>4, <2>6
<1>6. QED
  BY <1>3, <1>4, <1>5

(* An instance that is nowhere it was not before is in one place still.    *)
LEMMA PlacesOnlyLeft ==
  ASSUME OnePlace, N' = N,
         \A i \in 1..N : \A l \in Lane :
           /\ Handed(i)' => Handed(i)
           /\ Queued(l, i)' => Queued(l, i)
           /\ Holds(l, i)' => Holds(l, i)
           /\ Single(l, i) => Single(l, i)'
  PROVE  OnePlace'
BY DEF OnePlace

(* A step that moves and decides nothing.                                  *)
LEMMA NothingMoves ==
  ASSUME NothingIsDropped, UNCHANGED <<handing, queue, held, idOf, answer>>,
         \A i \in 1..N : status'[i] = "completed" => status[i] = "completed",
         loop' = loop \/ (LoopFree /\ loop' = "closing") \/ JoinWorkers
  PROVE  NothingIsDropped'
<1> USE DEF NothingIsDropped
<1>1. /\ N' = N
      /\ \A i : /\ Handed(i)' = Handed(i) /\ UnderWay(i)' = UnderWay(i)
                /\ Unresolved(i)' = Unresolved(i)
                /\ \A l : /\ Queued(l, i)' = Queued(l, i) /\ Holds(l, i)' = Holds(l, i)
                          /\ Single(l, i)' = Single(l, i)
  BY DEF N, Handed, UnderWay, Unresolved, Queued, Holds, Single
<1>2. UnansweredIsUnderWay' /\ UnresolvedIsUndecided'
  BY <1>1 DEF UnansweredIsUnderWay, UnresolvedIsUndecided
<1>3. OnePlace'
  BY <1>1, PlacesOnlyLeft
<1>4. ResponsesAreSaid' /\ ClosedInOrder'
  BY DEF ResponsesAreSaid, ClosedInOrder, WorkersDone, LoopFree, JoinWorkers
<1>5. QED
  BY <1>2, <1>3, <1>4

(* A request that arrives is answered at once or is with the loop.         *)
LEMMA ArrivalDropsNothing ==
  ASSUME Types, NothingIsDropped, NEW id \in Ids, NEW what \in Answers, NEW state \in Statuses,
         Arrive(id, what, state), LoopFree, UNCHANGED <<loop, queue, held>>,
         \/ what # NoAnswer /\ handing' = handing
         \/ state = "pending" /\ handing'.instance = N + 1
  PROVE  NothingIsDropped'
<1> USE DEF NothingIsDropped
<1>1. /\ N \in Nat /\ N' = N + 1 /\ answer'[N + 1] = what /\ status'[N + 1] = state
      /\ \A i \in 1..N : answer'[i] = answer[i] /\ status'[i] = status[i]
      /\ handing = Nobody /\ loop = "open"
  BY Arrival DEF Types, N, LoopFree
<1>2. \A i \in 1..N : ~Handed(i) /\ ~Handed(i)'
  BY <1>1 DEF Handed, Nobody
<1>3. /\ \A i : \A l \in Lane : /\ Queued(l, i)' = Queued(l, i) /\ Holds(l, i)' = Holds(l, i)
                                /\ Single(l, i)' = Single(l, i)
      /\ \A l \in Lane : ~Queued(l, N + 1) /\ ~Holds(l, N + 1)
  BY NewIsNowhere DEF Queued, Holds, Single
<1>4. UnansweredIsUnderWay'
  <2> SUFFICES ASSUME NEW i \in 1..(N + 1), answer'[i] = NoAnswer
               PROVE  UnderWay(i)'
    BY <1>1 DEF UnansweredIsUnderWay
  <2>1. CASE i \in 1..N
    BY <1>1, <1>2, <1>3, <2>1 DEF UnansweredIsUnderWay, UnderWay
  <2>2. CASE i = N + 1
    BY <1>1, <2>2 DEF UnderWay, Handed
  <2>3. QED
    BY <1>1, <2>1, <2>2
<1>5. OnePlace'
  <2> SUFFICES ASSUME NEW i \in 1..(N + 1), NEW l \in Lane
               PROVE  /\ Handed(i)' => ~Queued(l, i)' /\ ~Holds(l, i)'
                      /\ Single(l, i)'
                      /\ \A m \in Lane : /\ ~(Holds(l, i)' /\ Queued(m, i)')
                                         /\ Holds(l, i)' /\ Holds(m, i)' => l = m
                                         /\ Queued(l, i)' /\ Queued(m, i)' => l = m
    BY <1>1 DEF OnePlace
  <2>1. CASE i \in 1..N
    BY <1>2, <1>3, <2>1 DEF OnePlace
  <2>2. CASE i = N + 1
    <3>1. Single(l, i)'
      BY <1>3, <2>2 DEF Queued, Single
    <3>2. QED
      BY <1>3, <2>2, <3>1
  <2>3. QED
    BY <1>1, <2>1, <2>2
<1>6. UnresolvedIsUndecided'
  <2> SUFFICES ASSUME NEW i \in 1..(N + 1), Unresolved(i)'
               PROVE  status'[i] # "completed"
    BY <1>1 DEF UnresolvedIsUndecided
  <2>1. CASE i \in 1..N
    BY <1>1, <1>2, <1>3, <2>1 DEF UnresolvedIsUndecided, Unresolved
  <2>2. CASE i = N + 1
    <3>1. Handed(i)'
      BY <1>3, <2>2 DEF Unresolved
    <3>2. handing'.instance = N + 1 /\ handing' # handing
      BY <1>1, <2>2, <3>1 DEF Handed, Nobody
    <3>3. QED
      BY <1>1, <2>2, <3>2
  <2>3. QED
    BY <1>1, <2>1, <2>2
<1>7. ResponsesAreSaid' /\ ClosedInOrder'
  BY <1>1 DEF ResponsesAreSaid, ClosedInOrder
<1>8. QED
  BY <1>4, <1>5, <1>6, <1>7

(* A request that is sent goes from the loop to its lane.                  *)
LEMMA SendDropsNothing ==
  ASSUME Types, NothingIsDropped, SendQuery
  PROVE  NothingIsDropped'
<1> USE DEF NothingIsDropped
<1> DEFINE h == handing.lane
           x == handing.instance
<1>1. /\ N \in Nat /\ h \in Lane /\ x \in 1..N /\ x \in 0..N /\ N' = N
      /\ queue' = [queue EXCEPT ![h] = Append(@, x)] /\ handing' = Nobody
      /\ UNCHANGED <<loop, status, held, idOf, answer>> /\ loop = "open"
  BY DEF Types, N, SendQuery, ClosedInOrder
<1>2. \A i \in 1..N : ~Handed(i)' /\ (Handed(i) <=> i = x)
  BY <1>1 DEF Handed, Nobody
<1>3. \A i \in 1..N : \A l \in Lane :
        /\ Queued(l, i)' <=> Queued(l, i) \/ (l = h /\ i = x)
        /\ Holds(l, i)' <=> Holds(l, i)
        /\ Single(l, i)'
  <2>1. \A l \in Lane : ~Queued(l, x) /\ ~Holds(l, x)
    BY <1>1, <1>2 DEF OnePlace
  <2>2. \A i \in 1..N : \A l \in Lane : Single(l, i) /\ ~(i = x /\ Queued(l, i))
    BY <1>1, <2>1 DEF OnePlace
  <2>3. \A i : \A l \in Lane : Holds(l, i)' <=> Holds(l, i)
    BY <1>1 DEF Holds
  <2>4. QED
    BY <1>1, <2>2, <2>3, QueueWhenSent
<1>4. UnansweredIsUnderWay' /\ UnresolvedIsUndecided'
  BY <1>1, <1>2, <1>3 DEF UnansweredIsUnderWay, UnresolvedIsUndecided, UnderWay, Unresolved
<1>5. OnePlace'
  BY <1>1, <1>2, <1>3 DEF OnePlace
<1>6. ResponsesAreSaid' /\ ClosedInOrder'
  BY <1>1 DEF ResponsesAreSaid, ClosedInOrder
<1>7. QED
  BY <1>4, <1>5, <1>6

(* A warmup is nobody's request.                                           *)
LEMMA WarmupDropsNothing ==
  ASSUME Types, NothingIsDropped, Warmup
  PROVE  NothingIsDropped'
<1> USE DEF NothingIsDropped
<1>1. /\ N \in Nat /\ Heavy \in Lane /\ 0 \in 0..N /\ N' = N
      /\ queue' = [queue EXCEPT ![Heavy] = Append(@, 0)]
      /\ UNCHANGED <<loop, handing, status, held, idOf, answer>> /\ loop = "open"
  BY DEF Types, N, Lane, Warmup, LoopFree
<1>2. \A i \in 1..N : \A l \in Lane :
        /\ Handed(i)' = Handed(i) /\ Holds(l, i)' = Holds(l, i)
        /\ Queued(l, i)' <=> Queued(l, i)
        /\ Single(l, i) => Single(l, i)'
  <2>1. \A i \in 1..N : i # 0
    BY <1>1
  <2>2. \A i : \A l \in Lane : Handed(i)' = Handed(i) /\ Holds(l, i)' = Holds(l, i)
    BY <1>1 DEF Handed, Holds
  <2>3. QED
    BY <1>1, <2>1, <2>2, QueueWhenSent
<1>3. UnansweredIsUnderWay' /\ UnresolvedIsUndecided'
  BY <1>1, <1>2 DEF UnansweredIsUnderWay, UnresolvedIsUndecided, UnderWay, Unresolved
<1>4. OnePlace'
  BY <1>1, <1>2, PlacesOnlyLeft
<1>5. ResponsesAreSaid' /\ ClosedInOrder'
  BY <1>1 DEF ResponsesAreSaid, ClosedInOrder
<1>6. QED
  BY <1>3, <1>4, <1>5

(* A worker that takes the head of its lane has it alone.                  *)
LEMMA TakeDropsNothing ==
  ASSUME Types, NothingIsDropped, NEW w \in Lane, Take(w)
  PROVE  NothingIsDropped'
<1> USE DEF NothingIsDropped
<1> DEFINE h == Head(queue[w])
<1>1. /\ N' = N /\ N \in Nat /\ queue[w] # <<>> /\ held[w] = Idle
      /\ queue' = [queue EXCEPT ![w] = Tail(@)]
      /\ UNCHANGED <<loop, handing, status, idOf, answer>>
  BY DEF Take, Types, N
<1>2. /\ \A l \in Lane : l # w => held'[l] = held[l]
      /\ held'[w].at = "resolving" /\ held'[w].instance = h
  BY DEF Take, Types
<1>3. /\ Queued(w, h)
      /\ \A i \in 1..N : \A l \in Lane :
           /\ Queued(l, i)' => Queued(l, i)
           /\ Single(l, i) => Single(l, i)'
           /\ Queued(l, i) => Queued(l, i)' \/ (l = w /\ i = h)
           /\ Single(w, i) /\ i = h => ~Queued(w, i)'
  BY <1>1, QueueWhenTaken
<1>4. \A i \in 1..N : /\ Handed(i)' = Handed(i)
                      /\ Holds(w, i)' <=> i = h
                      /\ ~Holds(w, i)
                      /\ \A l \in Lane : l # w => Holds(l, i)' = Holds(l, i)
  BY <1>1, <1>2 DEF Handed, Holds, Idle
<1>5. UnansweredIsUnderWay'
  BY <1>1, <1>3, <1>4 DEF UnansweredIsUnderWay, UnderWay
<1>6. OnePlace'
  <2> SUFFICES ASSUME NEW i \in 1..N, NEW l \in Lane, NEW m \in Lane
               PROVE  /\ Handed(i)' => ~Queued(l, i)' /\ ~Holds(l, i)'
                      /\ Single(l, i)'
                      /\ ~(Holds(l, i)' /\ Queued(m, i)')
                      /\ Holds(l, i)' /\ Holds(m, i)' => l = m
                      /\ Queued(l, i)' /\ Queued(m, i)' => l = m
    BY <1>1 DEF OnePlace
  <2>1. CASE i # h
    BY <1>3, <1>4, <2>1 DEF OnePlace
  <2>2. CASE i = h
    <3>1. ~Handed(i) /\ \A k \in Lane : ~Holds(k, i) /\ (Queued(k, i) => k = w) /\ Single(k, i)
      BY <1>3, <2>2 DEF OnePlace
    <3>2. \A k \in Lane : ~Queued(k, i)'
      BY <1>3, <2>2, <3>1
    <3>3. QED
      BY <1>3, <1>4, <3>1, <3>2
  <2>3. QED
    BY <2>1, <2>2
<1>7. UnresolvedIsUndecided'
  <2>1. \A i \in 1..N : Unresolved(i)' => Unresolved(i)
    BY <1>2, <1>3, <1>4 DEF Unresolved
  <2>2. QED
    BY <1>1, <2>1 DEF UnresolvedIsUndecided
<1>8. ResponsesAreSaid' /\ ClosedInOrder'
  BY <1>1, <1>2 DEF ResponsesAreSaid, ClosedInOrder, WorkersDone
<1>9. QED
  BY <1>5, <1>6, <1>7, <1>8

(* Within a worker a request stays where it is.                            *)
LEMMA SamePlace ==
  ASSUME Types, NothingIsDropped, NEW w \in Lane, held[w] # Idle,
         UNCHANGED <<loop, handing, queue, idOf>>,
         \A l \in Lane : l # w => held'[l] = held[l],
         held'[w].instance \in {held[w].instance, 0}
  PROVE  /\ N \in Nat /\ N' = N /\ OnePlace' /\ ClosedInOrder'
         /\ \A i \in 1..N : \A l \in Lane : Holds(l, i)' => Holds(l, i)
         /\ \A i \in 1..N : /\ Handed(i)' = Handed(i)
                            /\ \A l \in Lane : /\ Queued(l, i)' = Queued(l, i)
                                               /\ l # w => Holds(l, i)' = Holds(l, i)
<1> USE DEF NothingIsDropped
<1>1. N \in Nat /\ N' = N
  BY DEF Types, N
<1>2. \A i : /\ Handed(i)' = Handed(i)
             /\ \A l \in Lane : /\ Queued(l, i)' = Queued(l, i)
                                /\ Single(l, i)' = Single(l, i)
                                /\ l # w => Holds(l, i)' = Holds(l, i)
  BY DEF Handed, Queued, Single, Holds
<1>3. \A i \in 1..N : \A l \in Lane : Holds(l, i)' => Holds(l, i)
  <2> SUFFICES ASSUME NEW i \in 1..N, NEW l \in Lane
               PROVE  Holds(l, i)' => Holds(l, i)
    OBVIOUS
  <2>1. CASE l = w
    BY <1>1, <2>1 DEF Holds
  <2>2. CASE l # w
    BY <1>2, <2>2
  <2>3. QED
    BY <2>1, <2>2
<1>4. OnePlace'
  BY <1>1, <1>2, <1>3, PlacesOnlyLeft
<1>5. ClosedInOrder'
  BY DEF ClosedInOrder, WorkersDone
<1>6. QED
  BY <1>1, <1>2, <1>3, <1>4, <1>5

LEMMA FinishWarmupDropsNothing ==
  ASSUME Types, NothingIsDropped, NEW w \in Lane, FinishWarmup(w)
  PROVE  NothingIsDropped'
<1> USE DEF NothingIsDropped
<1>1. /\ held[w].at = "resolving" /\ held[w].instance = 0 /\ held[w] # Idle
      /\ UNCHANGED <<loop, handing, queue, idOf, status, answer>>
      /\ \A l \in Lane : l # w => held'[l] = held[l]
      /\ held'[w] = Idle /\ held'[w].instance = 0 /\ held'[w].at = "idle"
  BY DEF FinishWarmup, Types, Idle
<1>2. /\ N \in Nat /\ N' = N /\ OnePlace' /\ ClosedInOrder'
      /\ \A i \in 1..N : /\ Handed(i)' = Handed(i)
                         /\ \A l \in Lane : /\ Queued(l, i)' = Queued(l, i)
                                            /\ l # w => Holds(l, i)' = Holds(l, i)
  BY <1>1, SamePlace
<1>3. \A i \in 1..N : Holds(w, i)' = Holds(w, i)
  BY <1>1, <1>2 DEF Holds
<1>4. UnansweredIsUnderWay' /\ UnresolvedIsUndecided'
  BY <1>1, <1>2, <1>3 DEF UnansweredIsUnderWay, UnresolvedIsUndecided, UnderWay, Unresolved
<1>5. ResponsesAreSaid'
  BY <1>1 DEF ResponsesAreSaid
<1>6. QED
  BY <1>2, <1>4, <1>5

(* The worker that decides a request is the only one to have it, and has   *)
(* something to say.                                                       *)
LEMMA DecideDropsNothing ==
  ASSUME Types, NothingIsDropped, NEW w \in Lane, Decide(w)
  PROVE  NothingIsDropped'
<1> USE DEF NothingIsDropped
<1> DEFINE x == held[w].instance
<1>0. PICK computed \in {"result", "error"} :
        held' = [held EXCEPT ![w] = [at |-> "forgetting", instance |-> x,
                                     response |-> Verdict(status[x], computed)]]
  BY DEF Decide
<1>1. /\ held[w].at = "resolving" /\ x # 0 /\ held[w] # Idle
      /\ status' = [status EXCEPT ![x] = "completed"]
      /\ UNCHANGED <<loop, handing, queue, idOf, answer>>
      /\ \A l \in Lane : l # w => held'[l] = held[l]
      /\ held'[w].instance = x /\ held'[w].at = "forgetting"
      /\ held'[w].response = Verdict(status[x], computed)
  BY <1>0 DEF Decide, Types, Idle
<1>2. /\ N \in Nat /\ N' = N /\ OnePlace' /\ ClosedInOrder'
      /\ \A i \in 1..N : /\ Handed(i)' = Handed(i)
                         /\ \A l \in Lane : /\ Queued(l, i)' = Queued(l, i)
                                            /\ l # w => Holds(l, i)' = Holds(l, i)
  BY <1>1, SamePlace
<1>3. /\ x \in 1..N /\ Holds(w, x) /\ status[x] \in Statuses
      /\ \A i \in 1..N : i # x => status'[i] = status[i]
  BY <1>1, <1>2 DEF Types, Holding, N, Holds
<1>4. \A i \in 1..N : Holds(w, i)' = Holds(w, i) /\ (Holds(w, i) => i = x)
  BY <1>1 DEF Holds
<1>5. UnansweredIsUnderWay'
  BY <1>1, <1>2, <1>4 DEF UnansweredIsUnderWay, UnderWay
<1>6. UnresolvedIsUndecided'
  <2> SUFFICES ASSUME NEW i \in 1..N, Unresolved(i)'
               PROVE  status'[i] # "completed"
    BY <1>2 DEF UnresolvedIsUndecided
  <2>1. Unresolved(i)
    BY <1>1, <1>2 DEF Unresolved
  <2>2. ASSUME i = x
        PROVE  FALSE
    <3>1. ~Handed(i) /\ \A l \in Lane : ~Queued(l, i) /\ (l # w => ~Holds(l, i))
      BY <1>3, <2>2 DEF OnePlace
    <3>2. QED
      BY <1>1, <1>2, <3>1 DEF Unresolved
  <2>3. QED
    BY <1>3, <2>1, <2>2 DEF UnresolvedIsUndecided
<1>7. ResponsesAreSaid'
  <2>1. Unresolved(x)
    BY <1>1, <1>3 DEF Unresolved
  <2>2. status[x] \in {"pending", "cancelled"}
    BY <1>3, <2>1 DEF UnresolvedIsUndecided, Statuses
  <2>3. Verdict(status[x], computed) # NoAnswer
    BY <2>2 DEF Verdict, NoAnswer
  <2>4. QED
    BY <1>1, <2>3 DEF ResponsesAreSaid
<1>8. QED
  BY <1>2, <1>5, <1>6, <1>7

LEMMA RemoveEntryDropsNothing ==
  ASSUME Types, NothingIsDropped, NEW w \in Lane, RemoveEntry(w)
  PROVE  NothingIsDropped'
<1> USE DEF NothingIsDropped
<1>1. /\ held[w].at = "forgetting" /\ held[w] # Idle
      /\ UNCHANGED <<loop, handing, queue, idOf, status, answer>>
      /\ \A l \in Lane : l # w => held'[l] = held[l]
      /\ held'[w].instance = held[w].instance /\ held'[w].at = "responding"
      /\ held'[w].response = held[w].response
  BY DEF RemoveEntry, Types, Holding, Idle
<1>2. /\ N \in Nat /\ N' = N /\ OnePlace' /\ ClosedInOrder'
      /\ \A i \in 1..N : /\ Handed(i)' = Handed(i)
                         /\ \A l \in Lane : /\ Queued(l, i)' = Queued(l, i)
                                            /\ l # w => Holds(l, i)' = Holds(l, i)
  BY <1>1, SamePlace
<1>3. \A i \in 1..N : Holds(w, i)' = Holds(w, i)
  BY <1>1 DEF Holds
<1>4. UnansweredIsUnderWay' /\ UnresolvedIsUndecided'
  BY <1>1, <1>2, <1>3 DEF UnansweredIsUnderWay, UnresolvedIsUndecided, UnderWay, Unresolved
<1>5. ResponsesAreSaid'
  BY <1>1 DEF ResponsesAreSaid
<1>6. QED
  BY <1>2, <1>4, <1>5

(* What a worker lets go of is answered.                                   *)
LEMMA RespondDropsNothing ==
  ASSUME Types, NothingIsDropped, NEW w \in Lane, Respond(w)
  PROVE  NothingIsDropped'
<1> USE DEF NothingIsDropped
<1> DEFINE x == held[w].instance
<1>1. /\ held[w].at = "responding" /\ held[w].response # NoAnswer /\ held[w] # Idle
      /\ answer' = [answer EXCEPT ![x] = held[w].response]
      /\ UNCHANGED <<loop, handing, queue, idOf, status>>
      /\ \A l \in Lane : l # w => held'[l] = held[l]
      /\ held'[w] = Idle /\ held'[w].instance = 0 /\ held'[w].at = "idle"
  BY DEF Respond, Types, ResponsesAreSaid, Idle
<1>2. /\ N \in Nat /\ N' = N /\ OnePlace' /\ ClosedInOrder'
      /\ \A i \in 1..N : /\ Handed(i)' = Handed(i)
                         /\ \A l \in Lane : /\ Queued(l, i)' = Queued(l, i)
                                            /\ l # w => Holds(l, i)' = Holds(l, i)
  BY <1>1, SamePlace
<1>3. \A i \in 1..N : /\ answer'[i] = IF i = x THEN held[w].response ELSE answer[i]
                      /\ Holds(w, i) <=> i = x
  BY <1>1 DEF Types, N, Holds
<1>4. UnansweredIsUnderWay'
  <2> SUFFICES ASSUME NEW i \in 1..N, answer'[i] = NoAnswer
               PROVE  UnderWay(i)'
    BY <1>2 DEF UnansweredIsUnderWay
  <2>1. answer[i] = NoAnswer /\ ~Holds(w, i)
    BY <1>1, <1>3
  <2>2. QED
    BY <1>2, <2>1 DEF UnansweredIsUnderWay, UnderWay
<1>5. UnresolvedIsUndecided'
  <2>1. \A i \in 1..N : Unresolved(i)' => Unresolved(i)
    BY <1>1, <1>2 DEF Unresolved
  <2>2. QED
    BY <1>1, <1>2, <2>1 DEF UnresolvedIsUndecided
<1>6. ResponsesAreSaid'
  BY <1>1 DEF ResponsesAreSaid
<1>7. QED
  BY <1>2, <1>4, <1>5, <1>6

LEMMA DropsNothing ==
  ASSUME Types, Types', NothingIsDropped, [Next]_vars
  PROVE  NothingIsDropped'
<1>1. ASSUME NEW id \in Ids, ReceiveCancelled(id)
      PROVE  NothingIsDropped'
  <2>1. /\ Arrive(id, "cancelled", "completed") /\ LoopFree
        /\ UNCHANGED <<loop, queue, held, handing>>
        /\ "cancelled" \in Answers /\ "completed" \in Statuses /\ "cancelled" # NoAnswer
    BY <1>1 DEF ReceiveCancelled, Answers, Statuses, NoAnswer
  <2>2. QED
    BY <2>1, ArrivalDropsNothing
<1>2. ASSUME NEW id \in Ids, ReceiveInline(id)
      PROVE  NothingIsDropped'
  <2>1. /\ Arrive(id, "result", "completed") /\ LoopFree
        /\ UNCHANGED <<loop, queue, held, handing>>
        /\ "result" \in Answers /\ "completed" \in Statuses /\ "result" # NoAnswer
    BY <1>2 DEF ReceiveInline, Answers, Statuses, NoAnswer
  <2>2. QED
    BY <2>1, ArrivalDropsNothing
<1>3. ASSUME NEW id \in Ids, NEW l \in Lane, ReceiveQuery(id, l)
      PROVE  NothingIsDropped'
  <2>1. /\ Arrive(id, NoAnswer, "pending") /\ LoopFree /\ UNCHANGED <<loop, queue, held>>
        /\ NoAnswer \in Answers /\ "pending" \in Statuses
    BY <1>3 DEF ReceiveQuery, Answers, Statuses
  <2>2. handing'.instance = N + 1
    BY <1>3, <2>1, Arrival DEF ReceiveQuery, N
  <2>3. QED
    BY <2>1, <2>2, ArrivalDropsNothing
<1>4. ASSUME NEW id \in Ids, ReceiveCancel(id)
      PROVE  NothingIsDropped'
  <2>1. UNCHANGED <<loop, handing, queue, held, idOf, answer>>
    BY <1>4 DEF ReceiveCancel
  <2>2. \A i \in 1..N : status'[i] = "completed" => status[i] = "completed"
    BY <1>4 DEF ReceiveCancel, CancelRequest, Types, N
  <2>3. QED
    BY <2>1, <2>2, NothingMoves
<1>5. CASE EndInput \/ JoinWorkers \/ UNCHANGED vars
  <2>1. /\ UNCHANGED <<handing, queue, held, idOf, answer, status>>
        /\ loop' = loop \/ (LoopFree /\ loop' = "closing") \/ JoinWorkers
    BY <1>5 DEF EndInput, JoinWorkers, vars
  <2>2. QED
    BY <2>1, NothingMoves
<1>6. ASSUME NEW w \in Lane, Worker(w)
      PROVE  NothingIsDropped'
  BY <1>6, TakeDropsNothing, FinishWarmupDropsNothing, DecideDropsNothing,
     RemoveEntryDropsNothing, RespondDropsNothing DEF Worker
<1>7. QED
  BY <1>1, <1>2, <1>3, <1>4, <1>5, <1>6, SendDropsNothing, WarmupDropsNothing DEF Next

(* "Shutdown/exit never drops an in-flight hover/definition response": the *)
(* workers are joined only when every request that came has its answer     *)
(* (bin/omena-lsp-server.rs).                                              *)
THEOREM ExitIsComplete == Spec => []ExitDropsNothing
<1>1. Init => NothingIsDropped
  <2> SUFFICES ASSUME Init
               PROVE  NothingIsDropped
    OBVIOUS
  <2>1. N = 0 /\ 1..N = {}
    BY DEF Init, N
  <2>2. UnansweredIsUnderWay /\ OnePlace /\ UnresolvedIsUndecided
    BY <2>1 DEF UnansweredIsUnderWay, OnePlace, UnresolvedIsUndecided
  <2>3. ResponsesAreSaid /\ ClosedInOrder
    BY DEF Init, ResponsesAreSaid, ClosedInOrder, Idle
  <2>4. QED
    BY <2>2, <2>3 DEF NothingIsDropped
<1>2. IInv /\ IInv' /\ NothingIsDropped /\ [Next]_vars => NothingIsDropped'
  BY DropsNothing DEF IInv
<1>3. IInv /\ NothingIsDropped => ExitDropsNothing
  <2> SUFFICES ASSUME IInv, NothingIsDropped, loop = "joined", NEW i \in Instances
               PROVE  answer[i] # NoAnswer
    BY DEF ExitDropsNothing
  <2>1. N \in Nat /\ i \in 1..N
    BY DEF IInv, Types, N, Instances
  <2>2. handing = Nobody /\ \A l \in Lane : queue[l] = <<>> /\ held[l] = Idle
    BY DEF NothingIsDropped, ClosedInOrder, WorkersDone
  <2>3. ~Handed(i) /\ \A l \in Lane : ~Holds(l, i)
    BY <2>1, <2>2 DEF Handed, Holds, Nobody, Idle
  <2>4. \A l \in Lane : ~Queued(l, i)
    BY <2>2 DEF Queued
  <2>5. QED
    BY <2>1, <2>3, <2>4 DEF NothingIsDropped, UnansweredIsUnderWay, UnderWay
<1>4. QED
  BY <1>1, <1>2, <1>3, RequestInvariant, PTL DEF Spec
=============================================================================
