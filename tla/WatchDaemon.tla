----------------------------- MODULE WatchDaemon -----------------------------
(***************************************************************************)
(* `omena ... --watch` clients and the omenad processes that keep a        *)
(* workspace session for them (daemon.rs): how a client finds, starts and  *)
(* gives up a daemon, what a session answers, and what the client prints.  *)
(*                                                                         *)
(* The workspace is one number, the version of its style sources; a        *)
(* payload is modelled by the version it was computed from.  The endpoint  *)
(* file is the one of this root and config digest.  A connection delivers  *)
(* in order; a handshake with its answer is one step.                      *)
(***************************************************************************)
EXTENDS Naturals, Sequences

CONSTANTS
  Clients,       \* watch processes
  Daemons,       \* omenad processes that can be spawned
  Commands,      \* client -> what it watches, one function per case: "check"
                 \* asks the session's workspace, "lint" and "format" read
                 \* the files
  MaxVersion,    \* versions of the workspace explored
  MaxTroubles    \* timeouts, failed operations and killed daemons explored

None    == "none"
Nothing == 0         \* no sources, or a payload that is not the command's
Version == 0..MaxVersion

ASSUME WatchAssumption ==
  /\ None \notin Daemons /\ MaxVersion \in Nat \ {0} /\ MaxTroubles \in Nat
  /\ Commands \subseteq [Clients -> {"check", "lint", "format"}]

VARIABLES
  files,         \* version of the workspace on disk
  endpoint,      \* the daemon the endpoint file names
  at,            \* daemon -> "unborn", "starting", "serving", "leaving", "gone"
  session,       \* daemon -> its resident session
  client,        \* client -> its state
  asked, told,   \* client -> requests and responses under way
  printed,       \* client -> what it printed last
  abandoned,     \* clients that stopped waiting for a read and kept the link
  troubles

vars == <<files, endpoint, at, session, client, asked, told, printed, abandoned, troubles>>
wires == <<asked, told>>

NoSession == [open |-> FALSE, sources |-> Nothing, revision |-> 0]

Init ==
  /\ files = 1 /\ endpoint = None
  /\ at = [d \in Daemons |-> "unborn"]
  /\ session = [d \in Daemons |-> NoSession]
  /\ \E command \in Commands :
       client = [c \in Clients |->
         [pc |-> "start", op |-> command[c], sources |-> Nothing, target |-> None,
          link |-> None, own |-> None, snapshot |-> 0]]
  /\ asked = [c \in Clients |-> <<>>] /\ told = [c \in Clients |-> <<>>]
  /\ printed = [c \in Clients |-> [route |-> None, of |-> Nothing]]
  /\ abandoned = {} /\ troubles = 0

At(c, pc) == client[c].pc = pc
Goto(c, pc) == client' = [client EXCEPT ![c].pc = pc]
Trouble == troubles < MaxTroubles /\ troubles' = troubles + 1
Works   == UNCHANGED troubles

Request(c, op) ==
  [op |-> op, snapshot |-> client[c].snapshot, sources |-> client[c].sources]

Send(c, request) == asked' = [asked EXCEPT ![c] = Append(@, request)]
HangUp(c) == asked' = [asked EXCEPT ![c] = <<>>] /\ told' = [told EXCEPT ![c] = <<>>]

Show(c, route, version) ==
  printed' = [printed EXCEPT ![c] = [route |-> route, of |-> version]]
-----------------------------------------------------------------------------
(* Opening a session: open_watch_daemon *)

Collect(c) ==
  /\ At(c, "start")
  /\ client' = [client EXCEPT ![c].sources = files, ![c].pc = "discover"]
  /\ Works /\ UNCHANGED <<files, endpoint, at, session, wires, printed, abandoned>>

Discover(c) ==
  /\ At(c, "discover")
  /\ client' = [client EXCEPT ![c].target = endpoint,
                              ![c].pc = IF endpoint = None THEN "spawn" ELSE "connect"]
  /\ Works /\ UNCHANGED <<files, endpoint, at, session, wires, printed, abandoned>>

(* The handshake of a reconnect carries no sources: it opens an empty      *)
(* session if it is the first, and the sources follow in a replacement.    *)
Connect(c) ==
  /\ At(c, "connect")
  /\ LET d == client[c].target IN
     \/ /\ at[d] = "serving" /\ Works
        /\ session' = [session EXCEPT ![d].open = TRUE]
        /\ client' = [client EXCEPT ![c].link = d, ![c].pc = "sync",
                                    ![c].snapshot = session[d].revision]
        /\ Send(c, [Request(c, "replace") EXCEPT !.snapshot = session[d].revision])
     \/ /\ \/ at[d] # "serving" /\ Works
           \/ Trouble
        /\ Goto(c, "unlink") /\ UNCHANGED <<session, asked>>
  /\ UNCHANGED <<files, endpoint, at, told, printed, abandoned>>

(* cleanup_endpoint removes the file, whichever daemon it names by now. *)
Unlink(c) ==
  /\ At(c, "unlink") /\ endpoint' = None /\ Goto(c, "spawn")
  /\ Works /\ UNCHANGED <<files, at, session, wires, printed, abandoned>>

Spawn(c) ==
  /\ At(c, "spawn")
  /\ \/ \E d \in Daemons :
          /\ at[d] = "unborn" /\ Works
          /\ at' = [at EXCEPT ![d] = "starting"]
          /\ client' = [client EXCEPT ![c].own = d, ![c].pc = "await"]
     \/ /\ \A d \in Daemons : at[d] # "unborn"
        /\ Works /\ Goto(c, "direct") /\ UNCHANGED at
  /\ UNCHANGED <<files, endpoint, session, wires, printed, abandoned>>

(* OmenadProcessV0::drop: the child is killed, and the endpoint removed. *)
GiveUpChild(c) ==
  /\ at' = [at EXCEPT ![client[c].own] = "gone"]
  /\ endpoint' = None
  /\ client' = [client EXCEPT ![c].own = None, ![c].pc = "direct"]

AwaitEndpoint_NoDeadline(c) ==
  /\ At(c, "await")
  /\ \/ /\ endpoint # None /\ Works
        /\ client' = [client EXCEPT ![c].target = endpoint, ![c].pc = "greet"]
        /\ UNCHANGED <<at, endpoint>>
     \/ endpoint = None /\ at[client[c].own] = "gone" /\ Works /\ GiveUpChild(c)
  /\ UNCHANGED <<files, session, wires, printed, abandoned>>

(* The ten seconds of the startup deadline also end for a child whose      *)
(* endpoint somebody else has removed or replaced and removed.             *)
AwaitEndpoint(c) ==
  /\ At(c, "await")
  /\ \/ /\ endpoint # None /\ Works
        /\ client' = [client EXCEPT ![c].target = endpoint, ![c].pc = "greet"]
        /\ UNCHANGED <<at, endpoint>>
     \/ /\ \/ endpoint = None /\ at[client[c].own] # "starting" /\ Works
           \/ endpoint = None /\ Trouble
        /\ GiveUpChild(c)
  /\ UNCHANGED <<files, session, wires, printed, abandoned>>

(* The handshake of a new daemon carries the sources; a session somebody   *)
(* else has opened refuses it.                                             *)
Greet_Adopts(c) ==
  /\ At(c, "greet") /\ at[client[c].target] = "serving" /\ Works
  /\ LET d == client[c].target IN
     /\ session' = [session EXCEPT ![d] =
          IF @.open THEN @ ELSE [@ EXCEPT !.open = TRUE, !.sources = client[c].sources]]
     /\ client' = [client EXCEPT ![c].link = d, ![c].own = None, ![c].pc = "ask",
                                 ![c].snapshot = session[d].revision]
  /\ UNCHANGED <<files, endpoint, at, wires, printed, abandoned>>

Greet(c) ==
  /\ At(c, "greet")
  /\ LET d == client[c].target IN
     \/ /\ at[d] = "serving" /\ ~session[d].open /\ Works
        /\ session' = [session EXCEPT ![d].open = TRUE, ![d].sources = client[c].sources]
        /\ client' = [client EXCEPT ![c].link = d, ![c].own = None, ![c].pc = "ask",
                                    ![c].snapshot = session[d].revision]
        /\ UNCHANGED <<at, endpoint>>
     \/ /\ at[d] # "serving" \/ session[d].open
        /\ Works /\ GiveUpChild(c) /\ UNCHANGED session
  /\ UNCHANGED <<files, wires, printed, abandoned>>
-----------------------------------------------------------------------------
(* The watch loop: run_watch_loop, execute_watch_command *)

Lost(c) == told[c] = <<>> /\ at[client[c].link] = "gone"
Answer(c) == Head(told[c])
Taken(c) == told' = [told EXCEPT ![c] = Tail(@)] /\ UNCHANGED asked

(* The answer to a replacement, at a reconnect or after a change: anything *)
(* but a success leaves the daemon for good.                               *)
ReadReplaced(c) ==
  /\ client[c].pc \in {"sync", "replacing"}
  /\ \/ /\ told[c] # <<>> /\ Answer(c).ok /\ Works
        /\ client' = [client EXCEPT ![c].snapshot = Answer(c).snapshot, ![c].pc = "ask"]
        /\ Taken(c)
     \/ /\ \/ told[c] # <<>> /\ ~Answer(c).ok /\ Works
           \/ Lost(c) /\ Works
           \/ told[c] = <<>> /\ Trouble
        /\ client' = [client EXCEPT ![c].link = None, ![c].pc = "direct"]
        /\ HangUp(c)
  /\ UNCHANGED <<files, endpoint, at, session, printed, abandoned>>

Ask(c) ==
  /\ At(c, "ask") /\ Send(c, Request(c, client[c].op)) /\ Goto(c, "reading")
  /\ Works /\ UNCHANGED <<files, endpoint, at, session, told, printed, abandoned>>

(* The answer to the command.  A refusal, an error or the 30 seconds of    *)
(* the read timeout make the client compute the payload itself; in the     *)
(* last case the answer is still to come, on a connection that stays.      *)
ReadAnswer(c) ==
  /\ At(c, "reading")
  /\ \/ /\ told[c] # <<>> /\ Answer(c).ok /\ Works
        /\ Show(c, "daemon", Answer(c).of) /\ Goto(c, "watch")
        /\ Taken(c) /\ UNCHANGED abandoned
     \/ /\ told[c] # <<>> /\ ~Answer(c).ok /\ Works
        /\ Goto(c, "direct")
        /\ Taken(c) /\ UNCHANGED <<printed, abandoned>>
     \/ /\ Lost(c) /\ Works
        /\ Goto(c, "direct")
        /\ HangUp(c) /\ UNCHANGED <<printed, abandoned>>
     \/ /\ told[c] = <<>> /\ Trouble
        /\ Goto(c, "direct") /\ abandoned' = abandoned \cup {c}
        /\ UNCHANGED <<wires, printed>>
  /\ UNCHANGED <<files, endpoint, at, session>>

(* direct_payload reads the files again. *)
Direct(c) ==
  /\ At(c, "direct")
  /\ Show(c, "directFallback", files) /\ Goto(c, "watch")
  /\ Works /\ UNCHANGED <<files, endpoint, at, session, wires, abandoned>>

(* A poll that finds the sources changed. *)
Poll_Overlaps(c) ==
  /\ client[c].pc \in {"watch", "reading"} /\ client[c].sources # files
  /\ client' = [client EXCEPT ![c].sources = files,
                  ![c].pc = IF client[c].link = None THEN "direct" ELSE "replacing"]
  /\ IF client[c].link = None THEN UNCHANGED asked
     ELSE Send(c, [Request(c, "replace") EXCEPT !.sources = files])
  /\ Works /\ UNCHANGED <<files, endpoint, at, session, told, printed, abandoned>>

Poll(c) ==
  /\ At(c, "watch") /\ client[c].sources # files
  /\ client' = [client EXCEPT ![c].sources = files,
                  ![c].pc = IF client[c].link = None THEN "direct" ELSE "replacing"]
  /\ IF client[c].link = None THEN UNCHANGED asked
     ELSE Send(c, [Request(c, "replace") EXCEPT !.sources = files])
  /\ Works /\ UNCHANGED <<files, endpoint, at, session, told, printed, abandoned>>
-----------------------------------------------------------------------------
(* omenad *)

(* write_endpoint: the temporary file is renamed over whatever was there. *)
Publish(d) ==
  /\ at[d] = "starting"
  /\ at' = [at EXCEPT ![d] = "serving"] /\ endpoint' = d
  /\ Works /\ UNCHANGED <<files, session, client, wires, printed, abandoned>>

Response(ok, version, revision) == [ok |-> ok, of |-> version, snapshot |-> revision]

(* replace_style_sources counts a revision only for sources that differ. *)
Replaced(s, sources) ==
  [s EXCEPT !.sources = sources,
            !.revision = IF s.sources = sources THEN @ ELSE @ + 1]

Reply(c, response) ==
  /\ asked' = [asked EXCEPT ![c] = Tail(@)]
  /\ told' = [told EXCEPT ![c] = Append(@, response)]

(* execute_session_request: the snapshot the request names must be the     *)
(* session's; the payload is computed on a clone of the workspace.         *)
Serve_AnySnapshot(c) ==
  /\ client[c].link # None /\ asked[c] # <<>>
  /\ at[client[c].link] \in {"serving", "leaving"}
  /\ LET d == client[c].link
         q == Head(asked[c])
         s == session[d]
     IN IF q.op = "replace"
        THEN /\ session' = [session EXCEPT ![d] = Replaced(s, q.sources)]
             /\ Reply(c, Response(TRUE, Nothing, Replaced(s, q.sources).revision))
        ELSE /\ UNCHANGED session
             /\ Reply(c, Response(TRUE, IF q.op = "check" THEN s.sources ELSE files,
                                  s.revision))
  /\ Works /\ UNCHANGED <<files, endpoint, at, client, printed, abandoned>>

Serve(c) ==
  /\ client[c].link # None /\ asked[c] # <<>>
  /\ at[client[c].link] \in {"serving", "leaving"}
  /\ LET d == client[c].link
         q == Head(asked[c])
         s == session[d]
     IN \/ /\ q.snapshot # s.revision /\ Works
           /\ Reply(c, Response(FALSE, Nothing, s.revision)) /\ UNCHANGED session
        \/ /\ q.snapshot = s.revision /\ q.op = "replace" /\ Works
           /\ session' = [session EXCEPT ![d] = Replaced(s, q.sources)]
           /\ Reply(c, Response(TRUE, Nothing, Replaced(s, q.sources).revision))
        \/ /\ q.snapshot = s.revision /\ q.op # "replace" /\ Works
           /\ Reply(c, Response(TRUE, IF q.op = "check" THEN s.sources ELSE files,
                                s.revision))
           /\ UNCHANGED session
        \/ /\ q.op # "replace" /\ Trouble   \* deadline, or the operation failed
           /\ Reply(c, Response(FALSE, Nothing, s.revision)) /\ UNCHANGED session
  /\ UNCHANGED <<files, endpoint, at, client, printed, abandoned>>

(* No message for the idle timeout, whatever the connections are doing:    *)
(* each of them ends after the request it is working on.                   *)
Idle(d) ==
  /\ at[d] = "serving" /\ at' = [at EXCEPT ![d] = "leaving"]
  /\ Works /\ UNCHANGED <<files, endpoint, session, client, wires, printed, abandoned>>

Leave(d) ==
  /\ at[d] = "leaving"
  /\ at' = [at EXCEPT ![d] = "gone"] /\ endpoint' = None
  /\ Works /\ UNCHANGED <<files, session, client, wires, printed, abandoned>>

Killed(d) ==
  /\ at[d] \in {"starting", "serving"} /\ Trouble
  /\ at' = [at EXCEPT ![d] = "gone"]
  /\ UNCHANGED <<files, endpoint, session, client, wires, printed, abandoned>>

EditFiles ==
  /\ files < MaxVersion /\ files' = files + 1
  /\ Works /\ UNCHANGED <<endpoint, at, session, client, wires, printed, abandoned>>

Opens(c) ==
  \/ Collect(c) \/ Discover(c) \/ Connect(c) \/ Unlink(c) \/ Spawn(c)
  \/ AwaitEndpoint(c) \/ Greet(c)
Watches(c) == ReadReplaced(c) \/ Ask(c) \/ ReadAnswer(c) \/ Direct(c) \/ Poll(c)

Next ==
  \/ \E c \in Clients : Opens(c) \/ Watches(c) \/ Serve(c)
  \/ \E d \in Daemons : Publish(d) \/ Idle(d) \/ Leave(d) \/ Killed(d)
  \/ EditFiles

(* The clients and the daemons run; nobody has to edit, idle or kill. *)
Fairness ==
  /\ \A c \in Clients : WF_vars(Opens(c)) /\ WF_vars(Watches(c)) /\ WF_vars(Serve(c))
  /\ \A d \in Daemons : WF_vars(Publish(d)) /\ WF_vars(Leave(d))

Spec == Init /\ [][Next]_vars /\ Fairness
-----------------------------------------------------------------------------
Phases == {"start", "discover", "connect", "unlink", "spawn", "await", "greet",
           "sync", "replacing", "ask", "reading", "direct", "watch"}

(* The types of the state; a client has one request under way, two after   *)
(* it has abandoned one.                                                   *)
TypeOK ==
  /\ files \in Version /\ endpoint \in Daemons \cup {None}
  /\ at \in [Daemons -> {"unborn", "starting", "serving", "leaving", "gone"}]
  /\ session \in [Daemons -> [open : BOOLEAN, sources : Version, revision : Nat]]
  /\ \A c \in Clients :
       /\ client[c].pc \in Phases /\ client[c].op \in {"check", "lint", "format"}
       /\ client[c].sources \in Version /\ client[c].snapshot \in Nat
       /\ client[c].link \in Daemons \cup {None}
       /\ client[c].own \in Daemons \cup {None}
       /\ Len(asked[c]) + Len(told[c]) <= IF c \in abandoned THEN MaxTroubles + 1 ELSE 1
  /\ printed \in [Clients -> [route : {None, "daemon", "directFallback"}, of : Version]]

(* A client that waits for no answer holds a snapshot of its own sources:  *)
(* as long as the session's revision is the one it holds, whatever others  *)
(* have replaced and restarted, the session's sources are the ones it      *)
(* collected.  Excepted is a client that stopped waiting for an answer:    *)
(* the answer is taken for the next one.                                   *)
SnapshotNamesSources ==
  \A c \in Clients \ abandoned :
    (/\ client[c].pc \in {"ask", "reading"}
     /\ session[client[c].link].revision = client[c].snapshot)
      => session[client[c].link].sources = client[c].sources

(* What a client prints was computed from the sources it collected for the *)
(* round, if the session's workspace was asked, and never from older ones. *)
PrintsItsSources ==
  \A c \in Clients \ abandoned : At(c, "watch") =>
    IF printed[c].route = "daemon" /\ client[c].op = "check"
    THEN printed[c].of = client[c].sources
    ELSE printed[c].of >= client[c].sources

(* What a session answers is about the sources of the client that asked,   *)
(* from the handshake to what is printed.                                  *)
SessionsAnswerForTheirClients == SnapshotNamesSources /\ PrintsItsSources

(* Once the workspace is left alone every watcher shows its last version,  *)
(* with the daemons' help or without it.                                   *)
ShowsLatest ==
  \A c \in Clients : <>[](c \in abandoned \/ printed[c].of = files)
=============================================================================
