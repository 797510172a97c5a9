----------------------------- MODULE AtomicEdits -----------------------------
(***************************************************************************)
(* What a workspace edit transaction promises: it replaces all of its      *)
(* destinations in one step, and only while each of them still holds what  *)
(* the transaction was computed from, or it replaces none.  A file an      *)
(* outside editor saves while a transaction is at work on it is Unsettled: *)
(* the promise is about the other files.                                   *)
(***************************************************************************)
CONSTANTS
  Files,      \* paths of the workspace
  Contents,   \* what a file can hold, Absent included
  Unsettled,  \* stands for whatever a disputed file holds
  Txns        \* transactions; a transaction's name is also what it writes

VARIABLES content, seen, status,
          dests      \* t -> the files t replaces, chosen once

Known(f) == content[f] # Unsettled

Init ==
  /\ content \in [Files -> Contents]
  /\ seen = [t \in Txns |-> content]
  /\ status = [t \in Txns |-> "open"]
  /\ dests \in [Txns -> SUBSET Files]

(* What it sees may be half of somebody else's step: nothing is promised   *)
(* before Apply compares it.                                               *)
Observe(t) ==
  /\ status[t] = "open"
  /\ \A u \in Txns \ {t} : seen'[u] = seen[u]
  /\ seen'[t] \in [Files -> Contents]
  /\ UNCHANGED <<status, content, dests>>

Apply(t) ==
  /\ status[t] = "open"
  /\ \A f \in dests[t] : Known(f) => content[f] = seen[t][f]
  /\ content' = [f \in Files |-> IF f \in dests[t] /\ Known(f) THEN t ELSE content[f]]
  /\ status' = [status EXCEPT ![t] = "applied"]
  /\ UNCHANGED <<seen, dests>>

(* "unsure": applied, but the caller was given an error. *)
Report(t) ==
  /\ \/ /\ status[t] = "applied"
        /\ \E s \in {"ok", "unsure"} : status' = [status EXCEPT ![t] = s]
     \/ status[t] = "open" /\ status' = [status EXCEPT ![t] = "failed"]
  /\ UNCHANGED <<content, seen, dests>>

(* The one failure that settles nothing, and says so. *)
Abandon(t) ==
  /\ status[t] = "open"
  /\ status' = [status EXCEPT ![t] = "abandoned"]
  /\ content' = [f \in Files |-> IF f \in dests[t] THEN Unsettled ELSE content[f]]
  /\ UNCHANGED <<seen, dests>>

Save(f) ==
  /\ \E c \in Contents \cup {Unsettled} : content' = [content EXCEPT ![f] = c]
  /\ UNCHANGED <<seen, status, dests>>

Next ==
  \/ \E t \in Txns : Observe(t) \/ Apply(t) \/ Report(t) \/ Abandon(t)
  \/ \E f \in Files : Save(f)

Spec == Init /\ [][Next]_<<content, seen, status, dests>>
=============================================================================
