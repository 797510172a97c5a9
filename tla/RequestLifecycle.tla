-------------------------- MODULE RequestLifecycle --------------------------
(***************************************************************************)
(* The life of a client request: the loop that answers it or hands it to a *)
(* query worker with a completion token, $/cancelRequest, the registry of  *)
(* requests in flight and the store of cancels that found nothing to       *)
(* cancel (message_loop.rs, state.rs and the query workers of              *)
(* bin/omena-lsp-server.rs).                                               *)
(*                                                                         *)
(* Each request instance has a number, the registry generation; its id is  *)
(* the client's and may be used again, even while the first use runs.      *)
(***************************************************************************)
EXTENDS Naturals, Sequences, FiniteSets

CONSTANTS
  Ids,            \* JSON-RPC request ids
  Interactive,    \* the two dispatch lanes, each with its worker:
  Heavy,          \* codeLens and warmups go to the heavy one
  Capacity,       \* sync_channel bound of a lane
  LateLimit,      \* DEFAULT_INCREMENTAL_CANCELLATION_LIMIT
  MaxRequests,    \* requests explored
  MaxCancels      \* cancels explored

Lane == {Interactive, Heavy}

ASSUME RequestAssumption ==
  /\ Capacity \in Nat \ {0} /\ LateLimit \in Nat \ {0}
  /\ MaxRequests \in Nat /\ MaxCancels \in Nat

VARIABLES
  loop,        \* "open", "closing" once input has ended, "joined"
  registry,    \* in_flight_requests: id -> instance, 0 for none
  status,      \* instance -> its token's AtomicU8
  late,        \* cancelled_request_ids
  handing,     \* dispatch the loop is sending
  queue,       \* lane -> channel of instances
  held,        \* lane -> what its worker does, and for which instance
  idOf,        \* instance -> id
  answer,      \* instance -> what the client was told, or NoAnswer
  cancels,     \* id -> cancels the loop has handled
  aimed        \* instances a cancel found undecided

vars == <<loop, registry, status, late, handing, queue, held, idOf, answer,
          cancels, aimed>>

Instances == DOMAIN idOf
NoAnswer  == "none"
Idle      == [at |-> "idle", instance |-> 0]
Nobody    == [instance |-> 0]

Init ==
  /\ loop = "open"
  /\ registry = [id \in Ids |-> 0]
  /\ status = <<>> /\ idOf = <<>> /\ answer = <<>>
  /\ late = {}
  /\ handing = Nobody
  /\ queue = [l \in Lane |-> <<>>]
  /\ held = [l \in Lane |-> Idle]
  /\ cancels = [id \in Ids |-> 0]
  /\ aimed = {}
-----------------------------------------------------------------------------
(* The loop *)

LoopFree == loop = "open" /\ handing = Nobody

Arrive(id, what, state) ==
  /\ Len(idOf) < MaxRequests
  /\ idOf' = Append(idOf, id)
  /\ answer' = Append(answer, what)
  /\ status' = Append(status, state)

\* A request whose cancel is on file is answered by it, whatever it asks.
ReceiveCancelled(id) ==
  /\ LoopFree
  /\ id \in late
  /\ late' = late \ {id}
  /\ Arrive(id, "cancelled", "completed")
  /\ UNCHANGED <<loop, registry, handing, queue, held, cancels, aimed>>

\* Requests the loop owns, and queries it can answer at once.
ReceiveInline(id) ==
  /\ LoopFree
  /\ id \notin late
  /\ Arrive(id, "result", "completed")
  /\ UNCHANGED <<loop, registry, late, handing, queue, held, cancels, aimed>>

Register(id, instance) == [registry EXCEPT ![id] = instance]

ReceiveQuery(id, lane) ==
  /\ LoopFree
  /\ id \notin late
  /\ Arrive(id, NoAnswer, "pending")
  /\ registry' = Register(id, Len(idOf'))
  /\ handing' = [instance |-> Len(idOf'), lane |-> lane]
  /\ UNCHANGED <<loop, late, queue, held, cancels, aimed>>

\* The send blocks the loop while the lane is full.
SendQuery ==
  /\ handing # Nobody
  /\ Len(queue[handing.lane]) < Capacity
  /\ queue' = [queue EXCEPT ![handing.lane] = Append(@, handing.instance)]
  /\ handing' = Nobody
  /\ UNCHANGED <<loop, registry, status, late, held, idOf, answer, cancels, aimed>>

\* The history of a cancel: the last request with that id, if its fate is open.
Undecided(id) ==
  {i \in Instances : /\ idOf[i] = id /\ status[i] = "pending"
                     /\ \A j \in Instances : idOf[j] = id => j <= i}

\* Variants named Operator_Flaw break one rule of the operator they precede;
\* the properties are tested against them.
FileLate_Unbounded(id) == late \cup {id}

\* The store forgets everything when it is full.
FileLate(id) == (IF Cardinality(late) >= LateLimit THEN {} ELSE late) \cup {id}

CancelRequest_Both(id) ==
  /\ late' = FileLate(id)
  /\ status' = IF registry[id] # 0 /\ status[registry[id]] = "pending"
               THEN [status EXCEPT ![registry[id]] = "cancelled"] ELSE status

\* Found in flight, it is marked unless already decided; otherwise the id is
\* kept for a request to come.
CancelRequest(id) ==
  IF registry[id] = 0 THEN late' = FileLate(id) /\ UNCHANGED status
  ELSE /\ UNCHANGED late
       /\ status' = IF status[registry[id]] = "pending"
                    THEN [status EXCEPT ![registry[id]] = "cancelled"] ELSE status

ReceiveCancel(id) ==
  /\ LoopFree
  /\ cancels[id] < MaxCancels
  /\ cancels' = [cancels EXCEPT ![id] = @ + 1]
  /\ aimed' = aimed \cup Undecided(id)
  /\ CancelRequest(id)
  /\ UNCHANGED <<loop, registry, handing, queue, held, idOf, answer>>

\* hover_substrate_warmup_dispatch: a dispatch of its own (instance 0), sent
\* only if the lane has room, with no token and no response.
Warmup ==
  /\ LoopFree
  /\ Len(queue[Heavy]) < Capacity
  /\ queue' = [queue EXCEPT ![Heavy] = Append(@, 0)]
  /\ UNCHANGED <<loop, registry, status, late, handing, held, idOf, answer,
                 cancels, aimed>>

EndInput ==
  /\ LoopFree
  /\ loop' = "closing"
  /\ UNCHANGED <<registry, status, late, handing, queue, held, idOf, answer,
                 cancels, aimed>>

WorkersDone_QueuesOnly == \A l \in Lane : queue[l] = <<>>

\* With its sender dropped a worker ends once its queue is empty.
WorkersDone == \A l \in Lane : queue[l] = <<>> /\ held[l] = Idle

JoinWorkers ==
  /\ loop = "closing"
  /\ WorkersDone
  /\ loop' = "joined"
  /\ UNCHANGED <<registry, status, late, handing, queue, held, idOf, answer,
                 cancels, aimed>>
-----------------------------------------------------------------------------
(* A query worker *)

Take(l) ==
  /\ held[l] = Idle /\ queue[l] # <<>>
  /\ held' = [held EXCEPT ![l] = [at |-> "resolving", instance |-> Head(queue[l])]]
  /\ queue' = [queue EXCEPT ![l] = Tail(@)]
  /\ UNCHANGED <<loop, registry, status, late, handing, idOf, answer, cancels, aimed>>

FinishWarmup(l) ==
  /\ held[l].at = "resolving" /\ held[l].instance = 0
  /\ held' = [held EXCEPT ![l] = Idle]
  /\ UNCHANGED <<loop, registry, status, late, handing, queue, idOf, answer,
                 cancels, aimed>>

Verdict_Dropped(state, computed) ==
  IF state = "pending" THEN computed ELSE NoAnswer

Verdict(state, computed) ==
  CASE state = "pending"   -> computed
    [] state = "cancelled" -> "cancelled"
    [] state = "completed" -> NoAnswer

\* LspDispatchedRequestToken::complete: the token decides between the computed
\* response, a result or -32603 after a panic, and the cancellation.
Decide(l) ==
  /\ held[l].at = "resolving" /\ held[l].instance # 0
  /\ LET i == held[l].instance IN
     /\ status' = [status EXCEPT ![i] = "completed"]
     /\ \E computed \in {"result", "error"} :
          held' = [held EXCEPT ![l] = [at |-> "forgetting", instance |-> i,
                                       response |-> Verdict(status[i], computed)]]
  /\ UNCHANGED <<loop, registry, late, handing, queue, idOf, answer, cancels, aimed>>

Forget_Kept(i) == registry

Forget_AnyGeneration(i) == [registry EXCEPT ![idOf[i]] = 0]

\* remove_if_current: a later request may have taken the id over.
Forget(i) ==
  IF registry[idOf[i]] = i THEN [registry EXCEPT ![idOf[i]] = 0] ELSE registry

RemoveEntry(l) ==
  /\ held[l].at = "forgetting"
  /\ registry' = Forget(held[l].instance)
  /\ held' = [held EXCEPT ![l].at = "responding"]
  /\ UNCHANGED <<loop, status, late, handing, queue, idOf, answer, cancels, aimed>>

Respond(l) ==
  /\ held[l].at = "responding"
  /\ answer' = IF held[l].response = NoAnswer THEN answer
               ELSE [answer EXCEPT ![held[l].instance] = held[l].response]
  /\ held' = [held EXCEPT ![l] = Idle]
  /\ UNCHANGED <<loop, registry, status, late, handing, queue, idOf, cancels, aimed>>

Worker(l) == Take(l) \/ FinishWarmup(l) \/ Decide(l) \/ RemoveEntry(l) \/ Respond(l)

Next ==
  \/ \E id \in Ids : \/ ReceiveCancelled(id) \/ ReceiveInline(id)
                     \/ ReceiveCancel(id)
                     \/ \E l \in Lane : ReceiveQuery(id, l)
  \/ SendQuery \/ Warmup \/ EndInput \/ JoinWorkers
  \/ \E l \in Lane : Worker(l)

Spec == Init /\ [][Next]_vars

\* A worker serves its queue whatever the loop does; the loop sends on when
\* it can.  Nothing makes the client send or end its input.
FairSpec == Spec /\ WF_vars(SendQuery) /\ \A l \in Lane : WF_vars(Worker(l))
-----------------------------------------------------------------------------
TypeOK ==
  /\ loop \in {"open", "closing", "joined"}
  /\ registry \in [Ids -> 0..Len(idOf)]
  /\ idOf \in Seq(Ids)
  /\ status \in [Instances -> {"pending", "cancelled", "completed"}]
  /\ answer \in [Instances -> {NoAnswer, "result", "error", "cancelled"}]
  /\ late \subseteq Ids /\ Cardinality(late) <= LateLimit
  /\ handing.instance \in 0..Len(idOf)
  /\ \A l \in Lane : Len(queue[l]) <= Capacity /\ held[l].instance \in 0..Len(idOf)
  /\ cancels \in [Ids -> 0..MaxCancels]
  /\ aimed \subseteq Instances

\* "If cancellation won the lifecycle race, its computed payload is
\* suppressed": the request a cancel found undecided is never answered with a
\* payload, however its id was used before or after.
CancelledGetsNoPayload ==
  \A i \in aimed : answer[i] \in {NoAnswer, "cancelled"}

\* A cancel is spent once: no id has more requests answered as cancelled than
\* cancels were sent for it, so a cancel never fells a second request.
CancelSpentOnce ==
  \A id \in Ids :
    Cardinality({i \in Instances : idOf[i] = id /\ answer[i] = "cancelled"})
      <= cancels[id]

\* The registry holds no token of a finished request: with nothing handed out,
\* a cancel can only be late.
NoTokenLeaks ==
  \A id \in Ids : registry[id] # 0 =>
    \/ handing.instance = registry[id]
    \/ \E l \in Lane : \/ held[l].instance = registry[id]
                       \/ \E k \in DOMAIN queue[l] : queue[l][k] = registry[id]

\* "Shutdown/exit never drops an in-flight hover/definition response".
ExitDropsNothing ==
  loop = "joined" => \A i \in Instances : answer[i] # NoAnswer

\* Every request gets a response, cancelled, panicked, queued behind others or
\* sent to a full lane.
EveryRequestAnswered ==
  \A i \in 1..MaxRequests :
    i \in Instances ~> (i \in Instances /\ answer[i] # NoAnswer)
=============================================================================
