-------------------------- MODULE WatchDaemon_proofs --------------------------
(***************************************************************************)
(* What the sessions of omenad answer, for any clients, daemons, versions  *)
(* and troubles.  The argument: the revision of a session counts the       *)
(* replacements that changed its sources, so a client whose snapshot is    *)
(* still the revision knows the sources, whatever the other clients do.    *)
(***************************************************************************)
EXTENDS WatchDaemon, TLAPS, SequenceTheorems

Operations == {"check", "lint", "format"}
Requests   == [op : Operations \cup {"replace"}, snapshot : Nat, sources : Version]
Responses  == [ok : BOOLEAN, of : Version, snapshot : Nat]

Target == Daemons \cup {None}
ClientType ==
  [pc : Phases, op : Operations, sources : Version, target : Target,
   link : Target, own : Target, snapshot : Nat]

Types ==
  /\ files \in Version /\ endpoint \in Target
  /\ at \in [Daemons -> {"unborn", "starting", "serving", "leaving", "gone"}]
  /\ session \in [Daemons -> [open : BOOLEAN, sources : Version, revision : Nat]]
  /\ client \in [Clients -> ClientType]
  /\ asked \in [Clients -> Seq(Requests)] /\ told \in [Clients -> Seq(Responses)]
  /\ printed \in [Clients -> [route : {None, "daemon", "directFallback"}, of : Version]]
  /\ abandoned \subseteq Clients /\ troubles \in 0..MaxTroubles

(* Whom c talks to.  A session with a client is open, so that no handshake *)
(* gives it other sources without counting a revision.                     *)
Linked(c) ==
  /\ client[c].pc \in {"connect", "greet"} => client[c].target \in Daemons
  /\ client[c].pc \in {"sync", "replacing", "ask", "reading"} => client[c].link \in Daemons
  /\ client[c].link \in Daemons => session[client[c].link].open
  /\ client[c].sources <= files

Waits(c) == client[c].pc \in {"sync", "replacing", "reading"}

InFlight(c) == Len(asked[c]) + Len(told[c])

(* Every answer c has stopped waiting for was a trouble. *)
Counted(c) ==
  /\ InFlight(c) <= troubles + 1
  /\ ~Waits(c) => InFlight(c) <= troubles

(* Revision n of session d stood for the sources of version v. *)
Names(d, n, v) ==
  /\ n <= session[d].revision
  /\ n = session[d].revision => session[d].sources = v

Answers(c, v) ==
  IF client[c].op = "check" THEN v = client[c].sources ELSE v >= client[c].sources

(* One message is under way while c waits, and none otherwise. *)
Replacing(c) ==
  client[c].pc \in {"sync", "replacing"} =>
    \/ /\ Len(asked[c]) = 1 /\ told[c] = <<>>
       /\ Head(asked[c]).op = "replace" /\ Head(asked[c]).sources = client[c].sources
    \/ /\ asked[c] = <<>> /\ Len(told[c]) = 1
       /\ Head(told[c]).ok =>
            Names(client[c].link, Head(told[c]).snapshot, client[c].sources)

Reading(c) ==
  client[c].pc = "reading" =>
    \/ /\ Len(asked[c]) = 1 /\ told[c] = <<>>
       /\ Head(asked[c]).op = client[c].op
       /\ Head(asked[c]).snapshot = client[c].snapshot
    \/ /\ asked[c] = <<>> /\ Len(told[c]) = 1
       /\ Head(told[c]).ok => Answers(c, Head(told[c]).of)

Quiet(c) == ~Waits(c) => asked[c] = <<>> /\ told[c] = <<>>

Knows(c) ==
  client[c].pc \in {"ask", "reading"} =>
    Names(client[c].link, client[c].snapshot, client[c].sources)

Shown(c) ==
  At(c, "watch") =>
    IF printed[c].route = "daemon" /\ client[c].op = "check"
    THEN printed[c].of = client[c].sources
    ELSE printed[c].of >= client[c].sources

Honest(c) == Replacing(c) /\ Reading(c) /\ Quiet(c) /\ Knows(c) /\ Shown(c)

Own(c) == Linked(c) /\ Counted(c) /\ (c \notin abandoned => Honest(c))

(* The inductive invariant. *)
IInv == Types /\ \A c \in Clients : Own(c)
-----------------------------------------------------------------------------
(* Messages and records *)

\* A message sent on a quiet connection is alone on it.
LEMMA SentAlone ==
  ASSUME NEW S, NEW x \in S
  PROVE  /\ Append(<<>>, x) \in Seq(S) /\ Len(Append(<<>>, x)) = 1
         /\ Head(Append(<<>>, x)) = x
<1>1. <<>> \in Seq(S) /\ Len(<<>>) = 0
  BY EmptySeq
<1>2. /\ Append(<<>>, x) \in Seq(S) /\ Len(Append(<<>>, x)) = 1
      /\ Append(<<>>, x)[1] = x /\ Append(<<>>, x) # <<>>
  BY <1>1, AppendProperties
<1>3. QED
  BY <1>2, HeadTailProperties

\* Sending adds one message behind the others.
LEMMA Sending ==
  ASSUME NEW S, NEW s \in Seq(S), NEW x \in S
  PROVE  Append(s, x) \in Seq(S) /\ Len(Append(s, x)) = Len(s) + 1 /\ Len(s) \in Nat
  BY AppendProperties, LenProperties

\* Taking the first message leaves the others.
LEMMA Taking ==
  ASSUME NEW S, NEW s \in Seq(S), s # <<>>
  PROVE  /\ Head(s) \in S /\ Tail(s) \in Seq(S) /\ Len(Tail(s)) = Len(s) - 1
         /\ Len(s) \in Nat \ {0} /\ Len(s) = 1 => Tail(s) = <<>>
<1>1. Head(s) \in S /\ Tail(s) \in Seq(S) /\ Len(Tail(s)) = Len(s) - 1 /\ Len(s) \in Nat \ {0}
  BY HeadTailProperties, LenProperties, EmptySeq
<1>2. QED
  BY <1>1, EmptySeq

\* A connection with messages is one that is not empty.
LEMMA EmptyHasNone ==
  ASSUME NEW S, NEW s \in Seq(S)
  PROVE  Len(s) \in Nat /\ (s = <<>> <=> Len(s) = 0)
  BY LenProperties, EmptySeq

\* The messages under way on a connection are a number.
LEMMA FlightIsCounted ==
  ASSUME NEW c \in Clients, asked[c] \in Seq(Requests), told[c] \in Seq(Responses)
  PROVE  InFlight(c) \in Nat
<1>1. Len(asked[c]) \in Nat /\ Len(told[c]) \in Nat
  BY EmptyHasNone
<1>2. \A m, n \in Nat : m + n \in Nat
  OBVIOUS
<1>3. QED
  BY <1>1, <1>2 DEF InFlight

-----------------------------------------------------------------------------
(* What the others do *)

(* A session that is open stays so, and counts what changes its sources. *)
Evolves(d) ==
  session[d].open =>
    /\ session'[d].open /\ session'[d].revision >= session[d].revision
    /\ session'[d].revision = session[d].revision => session'[d].sources = session[d].sources

World ==
  /\ \A d \in Daemons : Evolves(d)
  /\ files' >= files /\ troubles' >= troubles /\ abandoned \subseteq abandoned'

Alone(c) ==
  /\ client'[c] = client[c] /\ asked'[c] = asked[c] /\ told'[c] = told[c]
  /\ printed'[c] = printed[c]

\* A revision of an open session names the same sources after any step, and
\* none at all once they are replaced by others.
LEMMA NamesStay ==
  ASSUME Types, Types', World, NEW d \in Daemons, session[d].open,
         NEW n \in Nat, NEW v, Names(d, n, v)
  PROVE  Names(d, n, v)'
<1>1. /\ session[d].revision \in Nat /\ session'[d].revision \in Nat
      /\ session'[d].revision >= session[d].revision
      /\ session'[d].revision = session[d].revision => session'[d].sources = session[d].sources
  BY DEF Types, World, Evolves
<1>2. QED
  BY <1>1 DEF Names

\* A client that takes no part in a step still knows what it knew.
LEMMA OtherClients ==
  ASSUME IInv, Types', World, NEW c \in Clients, Alone(c)
  PROVE  Own(c)'
<1>1. /\ Own(c) /\ Types /\ client[c] \in ClientType /\ client'[c] = client[c]
      /\ asked'[c] = asked[c] /\ told'[c] = told[c] /\ printed'[c] = printed[c]
      /\ asked[c] \in Seq(Requests) /\ told[c] \in Seq(Responses)
  BY DEF IInv, Types, Alone
<1>2. Linked(c)'
  <2>1. client[c].link \in Daemons => session'[client[c].link].open
    BY <1>1 DEF Own, Linked, World, Evolves
  <2>2. client[c].sources \in Nat /\ files \in Nat /\ files' \in Nat /\ files' >= files
    BY <1>1 DEF Types, ClientType, Version, World
  <2>3. QED
    BY <1>1, <2>1, <2>2 DEF Own, Linked
<1>3. Counted(c)'
  <2>1. troubles \in Nat /\ troubles' \in Nat /\ troubles' >= troubles
    BY <1>1 DEF Types, World
  <2>2. InFlight(c) \in Nat /\ InFlight(c)' = InFlight(c)
    BY <1>1, FlightIsCounted DEF InFlight
  <2>3. QED
    BY <1>1, <2>1, <2>2 DEF Own, Counted, Waits
<1>4. ASSUME c \notin abandoned'
      PROVE  Honest(c)'
  <2>1. Honest(c)
    BY <1>1, <1>4 DEF Own, World
  <2>2. ASSUME client[c].link \in Daemons, NEW n \in Nat,
               Names(client[c].link, n, client[c].sources)
        PROVE  Names(client[c].link, n, client[c].sources)'
    BY <1>1, <2>2, NamesStay DEF Own, Linked
  <2>3. Replacing(c)'
    <3>1. CASE client[c].pc \in {"sync", "replacing"} /\ Len(told[c]) = 1 /\ Head(told[c]).ok
      <4>0. told[c] # <<>>
        BY <1>1, <3>1, EmptyHasNone
      <4>1. client[c].link \in Daemons
        BY <1>1, <3>1 DEF Own, Linked
      <4>2. Head(told[c]).snapshot \in Nat
        <5>1. Head(told[c]) \in Responses
          BY <1>1, <4>0, Taking
        <5>2. QED
          BY <5>1 DEF Responses
      <4>3. QED
        BY <1>1, <2>1, <2>2, <3>1, <4>1, <4>2 DEF Honest, Replacing
    <3>2. CASE ~(client[c].pc \in {"sync", "replacing"} /\ Len(told[c]) = 1 /\ Head(told[c]).ok)
      BY <1>1, <2>1, <3>2 DEF Honest, Replacing
    <3>3. QED
      BY <3>1, <3>2
  <2>4. Reading(c)' /\ Quiet(c)' /\ Shown(c)'
    BY <1>1, <2>1 DEF Honest, Reading, Quiet, Shown, Answers, Waits, At
  <2>5. Knows(c)'
    BY <1>1, <2>1, <2>2 DEF Honest, Knows, Own, Linked, ClientType
  <2>6. QED
    BY <2>3, <2>4, <2>5 DEF Honest
<1>5. QED
  BY <1>2, <1>3, <1>4 DEF Own

\* A step of one client: what it leaves alone keeps the invariant.
LEMMA StepOfOne ==
  ASSUME IInv, NEW c \in Clients, Types', World, Own(c)',
         \A u \in Clients : u # c => Alone(u)
  PROVE  IInv'
  BY OtherClients DEF IInv

\* A step of c that neither sends nor takes a message, before and after
\* which it waits for none.
LEMMA StepWithoutMessage ==
  ASSUME IInv, NEW c \in Clients, Types', World, asked' = asked, told' = told,
         \A u \in Clients : u # c => client'[u] = client[u] /\ printed'[u] = printed[u],
         ~Waits(c), ~Waits(c)', Linked(c)',
         c \notin abandoned' => Knows(c)' /\ Shown(c)'
  PROVE  IInv'
<1>1. /\ Types /\ Own(c) /\ asked[c] \in Seq(Requests) /\ told[c] \in Seq(Responses)
      /\ troubles \in Nat /\ troubles' \in Nat /\ troubles' >= troubles
  BY DEF IInv, Types, World
<1>2. Counted(c)'
  <2>1. InFlight(c) \in Nat /\ InFlight(c)' = InFlight(c)
    BY <1>1, FlightIsCounted DEF InFlight
  <2>2. InFlight(c) <= troubles
    BY <1>1 DEF Own, Counted
  <2>3. QED
    BY <1>1, <2>1, <2>2 DEF Counted
<1>3. ASSUME c \notin abandoned'
      PROVE  Honest(c)'
  <2>1. Quiet(c)'
    BY <1>1, <1>3 DEF Own, Honest, Quiet, World
  <2>2. Replacing(c)' /\ Reading(c)'
    BY DEF Replacing, Reading, Waits
  <2>3. QED
    BY <1>3, <2>1, <2>2 DEF Honest
<1>4. Own(c)'
  BY <1>2, <1>3 DEF Own
<1>5. QED
  BY <1>4, StepOfOne DEF Alone

\* Nothing a daemon's session holds changes in steps that leave sessions alone.
LEMMA SessionsRest ==
  ASSUME Types, session' = session, files' = files, abandoned' = abandoned,
         Works \/ Trouble
  PROVE  World
  BY DEF World, Evolves, Types, Version, Works, Trouble

\* A count of troubles stays within its bound.
LEMMA TroublesAreBounded ==
  ASSUME Types, Works \/ Trouble
  PROVE  troubles' \in 0..MaxTroubles
  BY WatchAssumption DEF Types, Works, Trouble

\* Sending a request: one more message, and the one there is if there was none.
LEMMA Sent ==
  ASSUME NEW c \in Clients, Types, NEW q \in Requests,
         asked' = [asked EXCEPT ![c] = Append(@, q)]
  PROVE  /\ asked' \in [Clients -> Seq(Requests)]
         /\ \A u \in Clients : u # c => asked'[u] = asked[u]
         /\ asked'[c] = Append(asked[c], q)
         /\ asked[c] = <<>> => Len(asked'[c]) = 1 /\ Head(asked'[c]) = q
         /\ told' = told => InFlight(c)' = InFlight(c) + 1
<1>1. /\ asked \in [Clients -> Seq(Requests)] /\ asked[c] \in Seq(Requests)
      /\ told[c] \in Seq(Responses)
  BY DEF Types
<1>2. /\ Append(asked[c], q) \in Seq(Requests) /\ Len(Append(asked[c], q)) = Len(asked[c]) + 1
      /\ Len(asked[c]) \in Nat /\ Len(told[c]) \in Nat
  BY <1>1, Sending, EmptyHasNone
<1>3. asked'[c] = Append(asked[c], q)
  BY <1>1
<1>4. /\ asked' \in [Clients -> Seq(Requests)]
      /\ \A u \in Clients : u # c => asked'[u] = asked[u]
  BY <1>1, <1>2
<1>5. asked[c] = <<>> => Len(asked'[c]) = 1 /\ Head(asked'[c]) = q
  BY <1>3, SentAlone
<1>6. told' = told => InFlight(c)' = InFlight(c) + 1
  <2>1. \A m, n \in Nat : (m + 1) + n = (m + n) + 1
    OBVIOUS
  <2>2. told' = told => InFlight(c)' = (Len(asked[c]) + 1) + Len(told[c])
    BY <1>2, <1>3 DEF InFlight
  <2>3. (Len(asked[c]) + 1) + Len(told[c]) = (Len(asked[c]) + Len(told[c])) + 1
    BY <1>2, <2>1
  <2>4. QED
    BY <2>2, <2>3 DEF InFlight
<1>7. QED
  BY <1>3, <1>4, <1>5, <1>6

\* A client that sends and then waits has one more message under way, and one
\* more allowed.
LEMMA CountedWhenSent ==
  ASSUME IInv, NEW c \in Clients, NEW q \in Requests, told' = told,
         asked' = [asked EXCEPT ![c] = Append(@, q)], troubles' = troubles,
         ~Waits(c), Waits(c)'
  PROVE  Counted(c)'
<1>1. /\ Types /\ Own(c) /\ troubles \in Nat
      /\ asked[c] \in Seq(Requests) /\ told[c] \in Seq(Responses)
  BY DEF IInv, Types
<1>2. InFlight(c) \in Nat /\ InFlight(c)' = InFlight(c) + 1
  BY <1>1, Sent, FlightIsCounted
<1>3. QED
  BY <1>1, <1>2 DEF Own, Counted

-----------------------------------------------------------------------------
(* The steps of a client that opens a session *)

\* Collecting the sources.
LEMMA CollectStep ==
  ASSUME IInv, NEW c \in Clients, Collect(c)
  PROVE  IInv'
<1>1. /\ Types /\ client[c] \in ClientType /\ files \in Version
      /\ client'[c] = [client[c] EXCEPT !.sources = files, !.pc = "discover"]
      /\ asked' = asked /\ told' = told /\ client[c].pc = "start" /\ Linked(c)
      /\ \A u \in Clients : u # c => client'[u] = client[u] /\ printed'[u] = printed[u]
  BY DEF IInv, Own, Types, Collect, At, wires
<1>2. client'[c] \in ClientType /\ client'[c].pc = "discover" /\ client'[c].sources = files
      /\ client'[c].link = client[c].link
  BY <1>1 DEF ClientType, Phases
<1>3. Types'
  BY <1>1, <1>2, TroublesAreBounded DEF Types, Collect, wires
<1>4. World
  BY <1>1, SessionsRest DEF Collect
<1>5. Linked(c)'
  BY <1>1, <1>2 DEF Linked, Collect, Version
<1>6. QED
  BY <1>1, <1>2, <1>3, <1>4, <1>5, StepWithoutMessage DEF Waits, Knows, Shown, At

\* Reading the endpoint file.
LEMMA DiscoverStep ==
  ASSUME IInv, NEW c \in Clients, Discover(c)
  PROVE  IInv'
<1>1. /\ Types /\ client[c] \in ClientType /\ endpoint \in Target
      /\ client'[c] = [client[c] EXCEPT !.target = endpoint,
                         !.pc = IF endpoint = None THEN "spawn" ELSE "connect"]
      /\ asked' = asked /\ told' = told /\ client[c].pc = "discover" /\ Linked(c)
      /\ \A u \in Clients : u # c => client'[u] = client[u] /\ printed'[u] = printed[u]
  BY DEF IInv, Own, Types, Discover, At, wires
<1>2. /\ client'[c] \in ClientType /\ client'[c].pc \in {"spawn", "connect"}
      /\ client'[c].pc = "connect" => client'[c].target \in Daemons
      /\ client'[c].link = client[c].link /\ client'[c].sources = client[c].sources
  BY <1>1 DEF ClientType, Phases, Target
<1>3. Types'
  BY <1>1, <1>2, TroublesAreBounded DEF Types, Discover, wires
<1>4. World
  BY <1>1, SessionsRest DEF Discover
<1>5. Linked(c)'
  BY <1>1, <1>2 DEF Linked, Discover
<1>6. QED
  BY <1>1, <1>2, <1>3, <1>4, <1>5, StepWithoutMessage DEF Waits, Knows, Shown, At

\* Removing the endpoint of a daemon that did not answer.
LEMMA UnlinkStep ==
  ASSUME IInv, NEW c \in Clients, Unlink(c)
  PROVE  IInv'
<1>1. /\ Types /\ client[c] \in ClientType
      /\ client'[c] = [client[c] EXCEPT !.pc = "spawn"]
      /\ asked' = asked /\ told' = told /\ client[c].pc = "unlink" /\ Linked(c)
      /\ \A u \in Clients : u # c => client'[u] = client[u] /\ printed'[u] = printed[u]
  BY DEF IInv, Own, Types, Unlink, At, Goto, wires
<1>2. /\ client'[c] \in ClientType /\ client'[c].pc = "spawn"
      /\ client'[c].link = client[c].link /\ client'[c].sources = client[c].sources
  BY <1>1 DEF ClientType, Phases
<1>3. Types'
  BY <1>1, <1>2, TroublesAreBounded DEF Types, Unlink, Goto, Target, wires
<1>4. World
  BY <1>1, SessionsRest DEF Unlink
<1>5. Linked(c)'
  BY <1>1, <1>2 DEF Linked, Unlink
<1>6. QED
  BY <1>1, <1>2, <1>3, <1>4, <1>5, StepWithoutMessage DEF Waits, Knows, Shown, At

\* Starting a daemon, or doing without one.
LEMMA SpawnStep ==
  ASSUME IInv, NEW c \in Clients, Spawn(c)
  PROVE  IInv'
<1>1. /\ Types /\ client[c] \in ClientType /\ client[c].pc = "spawn" /\ Linked(c)
      /\ asked' = asked /\ told' = told /\ files' = files /\ session' = session
      /\ endpoint' = endpoint /\ printed' = printed /\ abandoned' = abandoned
      /\ troubles' = troubles
  BY DEF IInv, Own, Types, Spawn, At, Works, wires
<1>2. PICK n \in {"await", "direct"}, d \in Target :
        /\ client' = [client EXCEPT ![c] = [client[c] EXCEPT !.own = d, !.pc = n]]
        /\ at' \in [Daemons -> {"unborn", "starting", "serving", "leaving", "gone"}]
  <2>1. CASE \E d \in Daemons : /\ at' = [at EXCEPT ![d] = "starting"]
                                /\ client' = [client EXCEPT ![c].own = d, ![c].pc = "await"]
    <3>1. PICK d \in Daemons : /\ at' = [at EXCEPT ![d] = "starting"]
                               /\ client' = [client EXCEPT ![c].own = d, ![c].pc = "await"]
      BY <2>1
    <3>2. /\ client' = [client EXCEPT ![c] = [client[c] EXCEPT !.own = d, !.pc = "await"]]
          /\ at' \in [Daemons -> {"unborn", "starting", "serving", "leaving", "gone"}]
      BY <1>1, <3>1 DEF Types, ClientType
    <3>3. QED
      BY <3>2 DEF Target
  <2>2. CASE Goto(c, "direct") /\ at' = at
    <3>1. /\ client' = [client EXCEPT ![c] = [client[c] EXCEPT !.own = client[c].own,
                                                              !.pc = "direct"]]
          /\ at' \in [Daemons -> {"unborn", "starting", "serving", "leaving", "gone"}]
          /\ client[c].own \in Target
      BY <1>1, <2>2 DEF Types, ClientType, Goto
    <3>2. QED
      BY <3>1
  <2>3. QED
    BY <2>1, <2>2 DEF Spawn
<1>3. /\ client'[c] \in ClientType /\ client'[c].pc = n
      /\ client'[c].link = client[c].link /\ client'[c].sources = client[c].sources
      /\ client' \in [Clients -> ClientType]
      /\ \A u \in Clients : u # c => client'[u] = client[u]
  BY <1>1, <1>2 DEF Types, ClientType, Phases
<1>4. Types'
  BY <1>1, <1>2, <1>3 DEF Types
<1>5. World
  BY <1>1, SessionsRest DEF Works
<1>6. Linked(c)'
  BY <1>1, <1>3 DEF Linked
<1>7. QED
  BY <1>1, <1>3, <1>4, <1>5, <1>6, StepWithoutMessage DEF Waits, Knows, Shown, At

\* Finding the endpoint of the daemon it started, or giving that one up.
LEMMA AwaitEndpointStep ==
  ASSUME IInv, NEW c \in Clients, AwaitEndpoint(c)
  PROVE  IInv'
<1>1. /\ Types /\ client[c] \in ClientType /\ client[c].pc = "await" /\ Linked(c)
      /\ endpoint \in Target
      /\ asked' = asked /\ told' = told /\ files' = files /\ session' = session
      /\ printed' = printed /\ abandoned' = abandoned /\ (Works \/ Trouble)
  BY DEF IInv, Own, Types, AwaitEndpoint, At, wires
<1>2. \/ /\ endpoint # None /\ at' = at /\ endpoint' = endpoint
         /\ client' = [client EXCEPT ![c].target = endpoint, ![c].pc = "greet"]
      \/ GiveUpChild(c)
  BY DEF AwaitEndpoint
<1>3. /\ client'[c] \in ClientType /\ client'[c].pc \in {"greet", "direct"}
      /\ client'[c].pc = "greet" => client'[c].target \in Daemons
      /\ client'[c].link = client[c].link /\ client'[c].sources = client[c].sources
      /\ client' \in [Clients -> ClientType]
      /\ \A u \in Clients : u # c => client'[u] = client[u]
  <2>1. CASE endpoint # None /\ client' = [client EXCEPT ![c].target = endpoint, ![c].pc = "greet"]
    BY <1>1, <2>1 DEF Types, ClientType, Phases, Target
  <2>2. CASE client' = [client EXCEPT ![c].own = None, ![c].pc = "direct"]
    BY <1>1, <2>2 DEF Types, ClientType, Phases, Target
  <2>3. QED
    BY <1>2, <2>1, <2>2 DEF GiveUpChild
<1>4. /\ endpoint' \in Target
      /\ at' \in [Daemons -> {"unborn", "starting", "serving", "leaving", "gone"}]
  BY <1>1, <1>2 DEF Types, GiveUpChild, Target
<1>5. Types'
  BY <1>1, <1>3, <1>4, TroublesAreBounded DEF Types
<1>6. World
  BY <1>1, SessionsRest
<1>7. Linked(c)'
  BY <1>1, <1>3 DEF Linked
<1>8. QED
  BY <1>1, <1>3, <1>5, <1>6, <1>7, StepWithoutMessage DEF Waits, Knows, Shown, At

\* The handshake with a new daemon: the one that opens the session gives it
\* its sources.
LEMMA GreetStep ==
  ASSUME IInv, NEW c \in Clients, Greet(c)
  PROVE  IInv'
<1> DEFINE d == client[c].target
<1>1. /\ Types /\ client[c] \in ClientType /\ client[c].pc = "greet" /\ Linked(c)
      /\ d \in Daemons /\ Works
      /\ asked' = asked /\ told' = told /\ files' = files
      /\ printed' = printed /\ abandoned' = abandoned
  BY DEF IInv, Own, Types, Greet, At, Linked, wires
<1>2. CASE /\ ~session[d].open
           /\ session' = [session EXCEPT ![d].open = TRUE, ![d].sources = client[c].sources]
           /\ client' = [client EXCEPT ![c].link = d, ![c].own = None, ![c].pc = "ask",
                                       ![c].snapshot = session[d].revision]
           /\ at' = at /\ endpoint' = endpoint
  <2>1. /\ session[d] \in [open : BOOLEAN, sources : Version, revision : Nat]
        /\ session'[d] = [session[d] EXCEPT !.open = TRUE, !.sources = client[c].sources]
        /\ \A e \in Daemons : e # d => session'[e] = session[e]
        /\ client[c].sources \in Version
    BY <1>1, <1>2 DEF Types, ClientType
  <2>2. /\ session'[d].open /\ session'[d].sources = client[c].sources
        /\ session'[d].revision = session[d].revision
        /\ session'[d] \in [open : BOOLEAN, sources : Version, revision : Nat]
    BY <2>1
  <2>3. /\ client'[c] = [client[c] EXCEPT !.link = d, !.own = None, !.pc = "ask",
                                         !.snapshot = session[d].revision]
        /\ \A u \in Clients : u # c => client'[u] = client[u]
    BY <1>1, <1>2 DEF Types
  <2>4. /\ client'[c] \in ClientType /\ client'[c].pc = "ask" /\ client'[c].link = d
        /\ client'[c].sources = client[c].sources
        /\ client'[c].snapshot = session[d].revision
    BY <1>1, <2>1, <2>3 DEF ClientType, Phases, Target
  <2>5. Types'
    <3>1. session' \in [Daemons -> [open : BOOLEAN, sources : Version, revision : Nat]]
      BY <1>1, <1>2, <2>1, <2>2 DEF Types
    <3>2. client' \in [Clients -> ClientType]
      BY <1>1, <1>2, <2>3, <2>4 DEF Types
    <3>3. QED
      BY <1>1, <1>2, <3>1, <3>2, TroublesAreBounded DEF Types
  <2>6. World
    <3>1. \A e \in Daemons : Evolves(e)
      BY <1>1, <1>2, <2>1 DEF Evolves, Types
    <3>2. QED
      BY <1>1, <3>1 DEF World, Works, Types, Version
  <2>7. Linked(c)'
    BY <1>1, <2>2, <2>4 DEF Linked
  <2>8. Knows(c)'
    <3>1. session'[d].revision \in Nat /\ session'[d].revision = client'[c].snapshot
      BY <2>2, <2>4
    <3>2. Names(client[c].link, client[c].snapshot, client[c].sources)'
      BY <2>2, <2>4, <3>1 DEF Names
    <3>3. QED
      BY <3>2 DEF Knows
  <2>9. QED
    BY <1>1, <2>3, <2>4, <2>5, <2>6, <2>7, <2>8, StepWithoutMessage DEF Waits, Shown, At
<1>3. CASE GiveUpChild(c) /\ session' = session
  <2>1. /\ client'[c] \in ClientType /\ client'[c].pc = "direct"
        /\ client'[c].link = client[c].link /\ client'[c].sources = client[c].sources
        /\ client' \in [Clients -> ClientType]
        /\ \A u \in Clients : u # c => client'[u] = client[u]
    BY <1>1, <1>3 DEF Types, ClientType, Phases, Target, GiveUpChild
  <2>2. /\ endpoint' \in Target
        /\ at' \in [Daemons -> {"unborn", "starting", "serving", "leaving", "gone"}]
    BY <1>1, <1>3 DEF Types, GiveUpChild, Target
  <2>3. Types'
    BY <1>1, <1>3, <2>1, <2>2, TroublesAreBounded DEF Types
  <2>4. World
    BY <1>1, <1>3, SessionsRest
  <2>5. Linked(c)'
    BY <1>1, <1>3, <2>1 DEF Linked
  <2>6. QED
    BY <1>1, <2>1, <2>3, <2>4, <2>5, StepWithoutMessage DEF Waits, Knows, Shown, At
<1>4. QED
  BY <1>2, <1>3 DEF Greet

\* Connecting to a daemon that is there: an empty session is opened, and a
\* replacement that names its revision is sent.
LEMMA ConnectStep ==
  ASSUME IInv, NEW c \in Clients, Connect(c)
  PROVE  IInv'
<1> DEFINE d == client[c].target
<1>1. /\ Types /\ client[c] \in ClientType /\ client[c].pc = "connect" /\ Linked(c) /\ Own(c)
      /\ d \in Daemons /\ told' = told /\ files' = files /\ endpoint' = endpoint /\ at' = at
      /\ printed' = printed /\ abandoned' = abandoned /\ (Works \/ Trouble)
  BY DEF IInv, Own, Types, Connect, At, Linked
<1>2. CASE /\ Works
           /\ session' = [session EXCEPT ![d].open = TRUE]
           /\ client' = [client EXCEPT ![c].link = d, ![c].pc = "sync",
                                       ![c].snapshot = session[d].revision]
           /\ Send(c, [Request(c, "replace") EXCEPT !.snapshot = session[d].revision])
  <2>1. /\ session[d] \in [open : BOOLEAN, sources : Version, revision : Nat]
        /\ session'[d] = [session[d] EXCEPT !.open = TRUE]
        /\ \A e \in Daemons : e # d => session'[e] = session[e]
        /\ client[c].sources \in Version
    BY <1>1, <1>2 DEF Types, ClientType
  <2>2. /\ session'[d].open /\ session'[d].sources = session[d].sources
        /\ session'[d].revision = session[d].revision
        /\ session'[d] \in [open : BOOLEAN, sources : Version, revision : Nat]
    BY <2>1
  <2>3. /\ client'[c] = [client[c] EXCEPT !.link = d, !.pc = "sync",
                                         !.snapshot = session[d].revision]
        /\ \A u \in Clients : u # c => client'[u] = client[u]
    BY <1>1, <1>2 DEF Types
  <2>4. /\ client'[c] \in ClientType /\ client'[c].pc = "sync" /\ client'[c].link = d
        /\ client'[c].sources = client[c].sources /\ client'[c].op = client[c].op
    BY <1>1, <2>1, <2>3 DEF ClientType, Phases, Target
  <2>5. PICK q \in Requests : /\ q.op = "replace" /\ q.sources = client[c].sources
                              /\ asked' = [asked EXCEPT ![c] = Append(@, q)]
    <3>1. /\ [Request(c, "replace") EXCEPT !.snapshot = session[d].revision]
               = [op |-> "replace", snapshot |-> session[d].revision, sources |-> client[c].sources]
          /\ [op |-> "replace", snapshot |-> session[d].revision, sources |-> client[c].sources]
               \in Requests
      BY <2>1 DEF Request, Requests
    <3>2. QED
      BY <1>2, <3>1 DEF Send
  <2>6. Types'
    <3>1. session' \in [Daemons -> [open : BOOLEAN, sources : Version, revision : Nat]]
      BY <1>1, <1>2, <2>1, <2>2 DEF Types
    <3>2. client' \in [Clients -> ClientType]
      BY <1>1, <1>2, <2>3, <2>4 DEF Types
    <3>3. QED
      BY <1>1, <1>2, <2>5, <3>1, <3>2, Sent, TroublesAreBounded DEF Types
  <2>7. World
    <3>1. \A e \in Daemons : Evolves(e)
      BY <1>1, <1>2, <2>1, <2>2 DEF Evolves, Types
    <3>2. QED
      BY <1>1, <1>2, <3>1 DEF World, Works, Types, Version
  <2>8. Linked(c)'
    BY <1>1, <2>2, <2>4 DEF Linked
  <2>9. ASSUME c \notin abandoned'
        PROVE  Honest(c)'
    <3>1. /\ Len(asked'[c]) = 1 /\ Head(asked'[c]) = q /\ told'[c] = <<>>
      BY <1>1, <2>5, <2>9, Sent DEF Own, Honest, Quiet, Waits, Types
    <3>2. QED
      BY <2>4, <2>5, <3>1 DEF Honest, Replacing, Reading, Quiet, Knows, Shown, Waits, At
  <2>10. Counted(c)'
    BY <1>1, <1>2, <2>4, <2>5, CountedWhenSent DEF Waits, Works
  <2>11. QED
    BY <1>1, <2>3, <2>5, <2>6, <2>7, <2>8, <2>9, <2>10, StepOfOne, Sent DEF Own, Alone
<1>3. CASE Goto(c, "unlink") /\ session' = session /\ asked' = asked
  <2>1. /\ client'[c] \in ClientType /\ client'[c].pc = "unlink"
        /\ client'[c].link = client[c].link /\ client'[c].sources = client[c].sources
        /\ client' \in [Clients -> ClientType]
        /\ \A u \in Clients : u # c => client'[u] = client[u]
    BY <1>1, <1>3 DEF Types, ClientType, Phases, Target, Goto
  <2>2. Types'
    BY <1>1, <1>3, <2>1, TroublesAreBounded DEF Types
  <2>3. World
    BY <1>1, <1>3, SessionsRest
  <2>4. Linked(c)'
    BY <1>1, <1>3, <2>1 DEF Linked
  <2>5. QED
    BY <1>1, <1>3, <2>1, <2>2, <2>3, <2>4, StepWithoutMessage DEF Waits, Knows, Shown, At
<1>4. QED
  BY <1>2, <1>3 DEF Connect
-----------------------------------------------------------------------------
(* The steps of a client that watches *)

\* Taking an answer: one message less, and none if it was the only one.
LEMMA Took ==
  ASSUME NEW c \in Clients, Types, told[c] # <<>>, Taken(c)
  PROVE  /\ asked' \in [Clients -> Seq(Requests)] /\ told' \in [Clients -> Seq(Responses)]
         /\ \A u \in Clients : u # c => asked'[u] = asked[u] /\ told'[u] = told[u]
         /\ Answer(c) \in Responses /\ asked'[c] = asked[c]
         /\ Len(told[c]) = 1 => told'[c] = <<>>
         /\ InFlight(c) \in Nat /\ InFlight(c)' \in Nat /\ InFlight(c)' = InFlight(c) - 1
<1>1. /\ told \in [Clients -> Seq(Responses)] /\ asked[c] \in Seq(Requests)
      /\ told[c] \in Seq(Responses) /\ asked' = asked /\ asked \in [Clients -> Seq(Requests)]
      /\ told' = [told EXCEPT ![c] = Tail(@)]
  BY DEF Types, Taken
<1>2. /\ Head(told[c]) \in Responses /\ Tail(told[c]) \in Seq(Responses)
      /\ Len(Tail(told[c])) = Len(told[c]) - 1 /\ Len(told[c]) \in Nat \ {0}
      /\ Len(told[c]) = 1 => Tail(told[c]) = <<>>
  BY <1>1, Taking
<1>3. Len(asked[c]) \in Nat
  BY <1>1, EmptyHasNone
<1>4. told'[c] = Tail(told[c]) /\ told' \in [Clients -> Seq(Responses)]
  BY <1>1, <1>2
<1>5. InFlight(c) \in Nat /\ InFlight(c)' \in Nat /\ InFlight(c)' = InFlight(c) - 1
  <2>1. \A m \in Nat, n \in Nat \ {0} :
          m + n \in Nat /\ m + (n - 1) \in Nat /\ m + (n - 1) = (m + n) - 1
    OBVIOUS
  <2>2. InFlight(c)' = Len(asked[c]) + (Len(told[c]) - 1)
    BY <1>1, <1>2, <1>4 DEF InFlight
  <2>3. QED
    BY <1>2, <1>3, <2>1, <2>2 DEF InFlight
<1>6. QED
  BY <1>1, <1>2, <1>4, <1>5 DEF Answer

\* Hanging up leaves nothing under way.
LEMMA HungUp ==
  ASSUME NEW c \in Clients, Types, HangUp(c)
  PROVE  /\ asked' \in [Clients -> Seq(Requests)] /\ told' \in [Clients -> Seq(Responses)]
         /\ \A u \in Clients : u # c => asked'[u] = asked[u] /\ told'[u] = told[u]
         /\ asked'[c] = <<>> /\ told'[c] = <<>> /\ InFlight(c)' = 0
<1>1. /\ asked' \in [Clients -> Seq(Requests)] /\ told' \in [Clients -> Seq(Responses)]
      /\ \A u \in Clients : u # c => asked'[u] = asked[u] /\ told'[u] = told[u]
      /\ asked'[c] = <<>> /\ told'[c] = <<>>
  BY EmptySeq DEF Types, HangUp
<1>2. InFlight(c)' = 0 + 0
  BY <1>1, EmptySeq DEF InFlight
<1>3. QED
  BY <1>1, <1>2

\* What the client of an honest wait holds when the answer is there.
LEMMA AnswerIsAlone ==
  ASSUME IInv, NEW c \in Clients, Waits(c), told[c] # <<>>, c \notin abandoned
  PROVE  /\ asked[c] = <<>> /\ Len(told[c]) = 1
         /\ client[c].pc \in {"sync", "replacing"} /\ Answer(c).ok
              => Names(client[c].link, Answer(c).snapshot, client[c].sources)
         /\ client[c].pc = "reading" /\ Answer(c).ok => Answers(c, Answer(c).of)
  BY DEF IInv, Own, Honest, Replacing, Reading, Waits, Answer

\* The answer to a replacement: its revision names what the client sent.
LEMMA ReadReplacedStep ==
  ASSUME IInv, NEW c \in Clients, ReadReplaced(c)
  PROVE  IInv'
<1>1. /\ Types /\ client[c] \in ClientType /\ client[c].pc \in {"sync", "replacing"}
      /\ Linked(c) /\ Own(c) /\ Counted(c)
      /\ session' = session /\ files' = files /\ endpoint' = endpoint /\ at' = at
      /\ printed' = printed /\ abandoned' = abandoned /\ (Works \/ Trouble)
      /\ troubles \in Nat /\ troubles' \in Nat /\ troubles' >= troubles
  BY DEF IInv, Own, Types, ReadReplaced, Works, Trouble
<1>2. World
  BY <1>1, SessionsRest
<1>3. CASE /\ told[c] # <<>> /\ Answer(c).ok /\ Taken(c)
           /\ client' = [client EXCEPT ![c].snapshot = Answer(c).snapshot, ![c].pc = "ask"]
  <2>1. Answer(c) \in Responses
    BY <1>1, <1>3, Took
  <2>2. /\ client'[c] \in ClientType /\ client'[c].pc = "ask"
        /\ client'[c].link = client[c].link /\ client'[c].sources = client[c].sources
        /\ client'[c].snapshot = Answer(c).snapshot
        /\ client' \in [Clients -> ClientType]
        /\ \A u \in Clients : u # c => client'[u] = client[u]
    BY <1>1, <1>3, <2>1 DEF Types, ClientType, Phases, Responses
  <2>3. Types'
    BY <1>1, <1>3, <2>2, Took, TroublesAreBounded DEF Types
  <2>4. Linked(c)'
    BY <1>1, <2>2 DEF Linked
  <2>5. ASSUME c \notin abandoned'
        PROVE  Honest(c)'
    <3>1. /\ asked[c] = <<>> /\ Len(told[c]) = 1
          /\ Names(client[c].link, Answer(c).snapshot, client[c].sources)
      BY <1>1, <1>3, <2>5, AnswerIsAlone DEF Waits
    <3>2. asked'[c] = <<>> /\ told'[c] = <<>>
      BY <1>1, <1>3, <3>1, Took
    <3>3. Knows(c)'
      BY <1>1, <2>2, <3>1 DEF Knows, Names
    <3>4. QED
      BY <2>2, <3>2, <3>3 DEF Honest, Replacing, Reading, Quiet, Shown, Waits, At
  <2>6. Counted(c)'
    <3>1. InFlight(c) \in Nat /\ InFlight(c)' \in Nat /\ InFlight(c)' = InFlight(c) - 1
      BY <1>1, <1>3, Took
    <3>2. QED
      BY <1>1, <3>1 DEF Counted
  <2>7. QED
    BY <1>1, <1>2, <1>3, <2>2, <2>3, <2>4, <2>5, <2>6, Took, StepOfOne DEF Own, Alone
<1>4. CASE HangUp(c) /\ client' = [client EXCEPT ![c].link = None, ![c].pc = "direct"]
  <2>1. /\ client'[c] \in ClientType /\ client'[c].pc = "direct"
        /\ client'[c].link = None /\ client'[c].sources = client[c].sources
        /\ client' \in [Clients -> ClientType]
        /\ \A u \in Clients : u # c => client'[u] = client[u]
    BY <1>1, <1>4 DEF Types, ClientType, Phases, Target
  <2>2. Types'
    BY <1>1, <1>4, <2>1, HungUp, TroublesAreBounded DEF Types
  <2>3. Linked(c)'
    BY <1>1, <2>1, WatchAssumption DEF Linked
  <2>4. asked'[c] = <<>> /\ told'[c] = <<>> /\ InFlight(c)' = 0
    BY <1>1, <1>4, HungUp
  <2>5. Honest(c)'
    BY <2>1, <2>4 DEF Honest, Replacing, Reading, Quiet, Shown, Knows, Waits, At
  <2>6. Counted(c)'
    BY <1>1, <2>4 DEF Counted
  <2>7. QED
    BY <1>1, <1>2, <1>4, <2>1, <2>2, <2>3, <2>5, <2>6, HungUp, StepOfOne DEF Own, Alone
<1>5. QED
  BY <1>3, <1>4 DEF ReadReplaced

\* Asking for the payload.
LEMMA AskStep ==
  ASSUME IInv, NEW c \in Clients, Ask(c)
  PROVE  IInv'
<1>1. /\ Types /\ client[c] \in ClientType /\ client[c].pc = "ask" /\ Linked(c) /\ Own(c)
      /\ told' = told /\ session' = session /\ files' = files /\ endpoint' = endpoint
      /\ at' = at /\ printed' = printed /\ abandoned' = abandoned /\ Works
      /\ troubles' = troubles
  BY DEF IInv, Own, Types, Ask, At, Works
<1>2. PICK q \in Requests : /\ q.op = client[c].op /\ q.snapshot = client[c].snapshot
                            /\ asked' = [asked EXCEPT ![c] = Append(@, q)]
  <2>1. Request(c, client[c].op) \in Requests
    BY <1>1 DEF Request, Requests, ClientType
  <2>2. QED
    BY <2>1 DEF Ask, Send, Request
<1>3. /\ client'[c] \in ClientType /\ client'[c].pc = "reading"
      /\ client'[c].link = client[c].link /\ client'[c].sources = client[c].sources
      /\ client'[c].op = client[c].op /\ client'[c].snapshot = client[c].snapshot
      /\ client' \in [Clients -> ClientType]
      /\ \A u \in Clients : u # c => client'[u] = client[u]
  BY <1>1 DEF Types, ClientType, Phases, Ask, Goto
<1>4. World
  BY <1>1, SessionsRest
<1>5. Types'
  BY <1>1, <1>2, <1>3, Sent, TroublesAreBounded DEF Types
<1>6. Linked(c)'
  BY <1>1, <1>3 DEF Linked
<1>7. ASSUME c \notin abandoned'
      PROVE  Honest(c)'
  <2>1. Names(client[c].link, client[c].snapshot, client[c].sources)
    BY <1>1, <1>7 DEF Own, Honest, Knows
  <2>2. Knows(c)'
    BY <1>1, <1>3, <2>1 DEF Knows, Names
  <2>3. Len(asked'[c]) = 1 /\ Head(asked'[c]) = q /\ told'[c] = <<>>
    BY <1>1, <1>2, <1>7, Sent DEF Own, Honest, Quiet, Waits
  <2>4. QED
    BY <1>2, <1>3, <2>2, <2>3 DEF Honest, Replacing, Reading, Quiet, Shown, Waits, At
<1>8. Counted(c)'
  BY <1>1, <1>2, <1>3, CountedWhenSent DEF Waits
<1>9. QED
  BY <1>1, <1>2, <1>3, <1>4, <1>5, <1>6, <1>7, <1>8, Sent, StepOfOne DEF Own, Alone

\* The answer to the command, or the end of the wait for it.
LEMMA ReadAnswerStep ==
  ASSUME IInv, NEW c \in Clients, ReadAnswer(c)
  PROVE  IInv'
<1>1. /\ Types /\ client[c] \in ClientType /\ client[c].pc = "reading"
      /\ Linked(c) /\ Own(c) /\ Counted(c)
      /\ session' = session /\ files' = files /\ endpoint' = endpoint /\ at' = at
      /\ (Works \/ Trouble) /\ abandoned \subseteq abandoned' /\ abandoned' \subseteq Clients
      /\ troubles \in Nat /\ troubles' \in Nat /\ troubles' >= troubles
  BY DEF IInv, Own, Types, ReadAnswer, At, Works, Trouble
<1>2. World
  BY <1>1 DEF World, Evolves, Types, Version
<1>3. ASSUME NEW n \in {"watch", "direct"}, Goto(c, n)
      PROVE  /\ client'[c] \in ClientType /\ client'[c].pc = n
             /\ client'[c].link = client[c].link /\ client'[c].sources = client[c].sources
             /\ client'[c].op = client[c].op
             /\ client' \in [Clients -> ClientType] /\ Linked(c)'
             /\ \A u \in Clients : u # c => client'[u] = client[u]
  <2>1. client' = [client EXCEPT ![c] = [client[c] EXCEPT !.pc = n]] /\ n \in Phases
    BY <1>1, <1>3 DEF Goto, Types, Phases
  <2>2. /\ client'[c] \in ClientType /\ client'[c].pc = n
        /\ client'[c].link = client[c].link /\ client'[c].sources = client[c].sources
        /\ client'[c].op = client[c].op
        /\ client' \in [Clients -> ClientType]
        /\ \A u \in Clients : u # c => client'[u] = client[u]
    BY <1>1, <2>1 DEF Types, ClientType
  <2>3. Linked(c)'
    BY <1>1, <1>3, <2>2 DEF Linked
  <2>4. QED
    BY <2>2, <2>3
<1>4. CASE told[c] # <<>> /\ Taken(c) /\ Goto(c, "watch") /\ Answer(c).ok
           /\ Show(c, "daemon", Answer(c).of) /\ abandoned' = abandoned
  <2>1. /\ Answer(c) \in Responses /\ InFlight(c) \in Nat /\ InFlight(c)' \in Nat
        /\ InFlight(c)' = InFlight(c) - 1
    BY <1>1, <1>4, Took
  <2>2. /\ printed'[c].route = "daemon" /\ printed'[c].of = Answer(c).of
        /\ \A u \in Clients : u # c => printed'[u] = printed[u]
        /\ printed' \in [Clients -> [route : {None, "daemon", "directFallback"}, of : Version]]
    BY <1>1, <1>4, <2>1 DEF Types, Show, Responses
  <2>3. Types'
    BY <1>1, <1>3, <1>4, <2>2, Took, TroublesAreBounded DEF Types
  <2>4. ASSUME c \notin abandoned'
        PROVE  Honest(c)'
    <3>1. asked[c] = <<>> /\ Len(told[c]) = 1 /\ Answers(c, Answer(c).of)
      BY <1>1, <1>4, <2>4, AnswerIsAlone DEF Waits
    <3>2. asked'[c] = <<>> /\ told'[c] = <<>>
      BY <1>1, <1>4, <3>1, Took
    <3>3. Shown(c)'
      BY <1>3, <1>4, <2>2, <3>1 DEF Shown, Answers, At
    <3>4. QED
      BY <1>3, <1>4, <3>2, <3>3 DEF Honest, Replacing, Reading, Quiet, Knows, Waits
  <2>5. Counted(c)'
    BY <1>1, <2>1 DEF Counted
  <2>6. QED
    BY <1>1, <1>2, <1>3, <1>4, <2>2, <2>3, <2>4, <2>5, Took, StepOfOne DEF Own, Alone
<1>5. CASE told[c] # <<>> /\ Taken(c) /\ Goto(c, "direct") /\ printed' = printed
           /\ abandoned' = abandoned
  <2>1. InFlight(c) \in Nat /\ InFlight(c)' \in Nat /\ InFlight(c)' = InFlight(c) - 1
    BY <1>1, <1>5, Took
  <2>2. Types'
    BY <1>1, <1>3, <1>5, Took, TroublesAreBounded DEF Types
  <2>3. ASSUME c \notin abandoned'
        PROVE  Honest(c)'
    <3>1. asked[c] = <<>> /\ Len(told[c]) = 1
      BY <1>1, <1>5, <2>3, AnswerIsAlone DEF Waits
    <3>2. asked'[c] = <<>> /\ told'[c] = <<>>
      BY <1>1, <1>5, <3>1, Took
    <3>3. QED
      BY <1>3, <1>5, <3>2 DEF Honest, Replacing, Reading, Quiet, Knows, Shown, Waits, At
  <2>4. Counted(c)'
    BY <1>1, <2>1 DEF Counted
  <2>5. QED
    BY <1>1, <1>2, <1>3, <1>5, <2>2, <2>3, <2>4, Took, StepOfOne DEF Own, Alone
<1>6. CASE HangUp(c) /\ Goto(c, "direct") /\ printed' = printed /\ abandoned' = abandoned
  <2>1. asked'[c] = <<>> /\ told'[c] = <<>> /\ InFlight(c)' = 0
    BY <1>1, <1>6, HungUp
  <2>2. Types'
    BY <1>1, <1>3, <1>6, HungUp, TroublesAreBounded DEF Types
  <2>3. Honest(c)'
    BY <1>3, <1>6, <2>1 DEF Honest, Replacing, Reading, Quiet, Knows, Shown, Waits, At
  <2>4. Counted(c)'
    BY <1>1, <2>1 DEF Counted
  <2>5. QED
    BY <1>1, <1>2, <1>3, <1>6, <2>2, <2>3, <2>4, HungUp, StepOfOne DEF Own, Alone
<1>7. CASE /\ Trouble /\ Goto(c, "direct") /\ abandoned' = abandoned \cup {c}
           /\ asked' = asked /\ told' = told /\ printed' = printed
  <2>1. Types'
    BY <1>1, <1>3, <1>7, TroublesAreBounded DEF Types
  <2>2. Counted(c)'
    <3>1. InFlight(c) \in Nat /\ InFlight(c)' = InFlight(c)
      BY <1>1, <1>7, FlightIsCounted DEF InFlight, Types
    <3>2. troubles' = troubles + 1
      BY <1>7 DEF Trouble
    <3>3. QED
      BY <1>1, <3>1, <3>2 DEF Counted
  <2>3. Own(c)'
    BY <1>3, <1>7, <2>2 DEF Own
  <2>4. QED
    BY <1>1, <1>2, <1>3, <1>7, <2>1, <2>3, StepOfOne DEF Alone
<1>8. QED
  BY <1>4, <1>5, <1>6, <1>7 DEF ReadAnswer, wires

\* Computing the payload from the files.
LEMMA DirectStep ==
  ASSUME IInv, NEW c \in Clients, Direct(c)
  PROVE  IInv'
<1>1. /\ Types /\ client[c] \in ClientType /\ client[c].pc = "direct" /\ Linked(c)
      /\ files \in Version /\ asked' = asked /\ told' = told
  BY DEF IInv, Own, Types, Direct, At, wires
<1>2. /\ client'[c] \in ClientType /\ client'[c].pc = "watch"
      /\ client'[c].link = client[c].link /\ client'[c].sources = client[c].sources
      /\ client' \in [Clients -> ClientType]
      /\ \A u \in Clients : u # c => client'[u] = client[u]
  BY <1>1 DEF Types, ClientType, Phases, Direct, Goto
<1>3. /\ printed'[c].route = "directFallback" /\ printed'[c].of = files
      /\ \A u \in Clients : u # c => printed'[u] = printed[u]
      /\ printed' \in [Clients -> [route : {None, "daemon", "directFallback"}, of : Version]]
  BY <1>1 DEF Types, Direct, Show
<1>4. Types'
  BY <1>1, <1>2, <1>3, TroublesAreBounded DEF Types, Direct
<1>5. World
  BY <1>1, SessionsRest DEF Direct
<1>6. Linked(c)'
  BY <1>1, <1>2 DEF Linked, Direct
<1>7. Shown(c)'
  <2>1. files \in Nat /\ client[c].sources \in Nat /\ files >= client[c].sources
    BY <1>1 DEF Linked, Version, ClientType
  <2>2. QED
    BY <1>2, <1>3, <2>1 DEF Shown
<1>8. QED
  BY <1>1, <1>2, <1>3, <1>4, <1>5, <1>6, <1>7, StepWithoutMessage DEF Waits, Knows

\* A poll that finds other sources.
LEMMA PollStep ==
  ASSUME IInv, NEW c \in Clients, Poll(c)
  PROVE  IInv'
<1>1. /\ Types /\ client[c] \in ClientType /\ client[c].pc = "watch" /\ Linked(c) /\ Own(c)
      /\ told' = told /\ session' = session /\ files' = files /\ endpoint' = endpoint
      /\ at' = at /\ printed' = printed /\ abandoned' = abandoned /\ Works
      /\ troubles' = troubles /\ files \in Version /\ files \in Nat
  BY DEF IInv, Own, Types, Poll, At, Works, Version
<1>2. World
  BY <1>1, SessionsRest
<1>3. CASE client[c].link = None
  <2>1. asked' = asked
        /\ client' = [client EXCEPT ![c].sources = files, ![c].pc = "direct"]
    BY <1>3 DEF Poll
  <2>2. /\ client'[c] \in ClientType /\ client'[c].pc = "direct"
        /\ client'[c].link = client[c].link /\ client'[c].sources = files
        /\ client' \in [Clients -> ClientType]
        /\ \A u \in Clients : u # c => client'[u] = client[u]
    BY <1>1, <2>1 DEF Types, ClientType, Phases
  <2>3. Types'
    BY <1>1, <2>1, <2>2, TroublesAreBounded DEF Types
  <2>4. Linked(c)'
    BY <1>1, <2>2 DEF Linked
  <2>5. QED
    BY <1>1, <1>2, <2>1, <2>2, <2>3, <2>4, StepWithoutMessage DEF Waits, Knows, Shown, At
<1>4. CASE client[c].link # None
  <2>1. client' = [client EXCEPT ![c].sources = files, ![c].pc = "replacing"]
        /\ Send(c, [Request(c, "replace") EXCEPT !.sources = files])
    BY <1>4 DEF Poll
  <2>2. /\ client'[c] \in ClientType /\ client'[c].pc = "replacing"
        /\ client'[c].link = client[c].link /\ client'[c].sources = files
        /\ client'[c].link \in Daemons
        /\ client' \in [Clients -> ClientType]
        /\ \A u \in Clients : u # c => client'[u] = client[u]
    BY <1>1, <1>4, <2>1 DEF Types, ClientType, Phases, Target
  <2>3. PICK q \in Requests : /\ q.op = "replace" /\ q.sources = files
                              /\ asked' = [asked EXCEPT ![c] = Append(@, q)]
    <3>1. /\ [Request(c, "replace") EXCEPT !.sources = files]
               = [op |-> "replace", snapshot |-> client[c].snapshot, sources |-> files]
          /\ [op |-> "replace", snapshot |-> client[c].snapshot, sources |-> files] \in Requests
      BY <1>1 DEF Request, Requests, ClientType
    <3>2. QED
      BY <2>1, <3>1 DEF Send
  <2>4. Types'
    BY <1>1, <2>2, <2>3, Sent, TroublesAreBounded DEF Types
  <2>5. Linked(c)'
    BY <1>1, <2>2 DEF Linked
  <2>6. ASSUME c \notin abandoned'
        PROVE  Honest(c)'
    <3>1. Len(asked'[c]) = 1 /\ Head(asked'[c]) = q /\ told'[c] = <<>>
      BY <1>1, <2>3, <2>6, Sent DEF Own, Honest, Quiet, Waits
    <3>2. QED
      BY <2>2, <2>3, <3>1 DEF Honest, Replacing, Reading, Quiet, Knows, Shown, Waits, At
  <2>7. Counted(c)'
    BY <1>1, <2>2, <2>3, CountedWhenSent DEF Waits
  <2>8. QED
    BY <1>1, <1>2, <2>2, <2>3, <2>4, <2>5, <2>6, <2>7, Sent, StepOfOne DEF Own, Alone
<1>5. QED
  BY <1>3, <1>4
-----------------------------------------------------------------------------
(* The steps of the daemons *)

\* Answering a request: as many messages as before, and the answer alone if
\* the request was.
LEMMA Replied ==
  ASSUME NEW c \in Clients, Types, asked[c] # <<>>, NEW r \in Responses, Reply(c, r)
  PROVE  /\ asked' \in [Clients -> Seq(Requests)] /\ told' \in [Clients -> Seq(Responses)]
         /\ \A u \in Clients : u # c => asked'[u] = asked[u] /\ told'[u] = told[u]
         /\ Head(asked[c]) \in Requests
         /\ Len(asked[c]) = 1 => asked'[c] = <<>>
         /\ told[c] = <<>> => Len(told'[c]) = 1 /\ Head(told'[c]) = r
         /\ InFlight(c) \in Nat /\ InFlight(c)' = InFlight(c)
<1>1. /\ asked \in [Clients -> Seq(Requests)] /\ told \in [Clients -> Seq(Responses)]
      /\ asked[c] \in Seq(Requests) /\ told[c] \in Seq(Responses)
      /\ asked' = [asked EXCEPT ![c] = Tail(@)] /\ told' = [told EXCEPT ![c] = Append(@, r)]
  BY DEF Types, Reply
<1>2. /\ Head(asked[c]) \in Requests /\ Tail(asked[c]) \in Seq(Requests)
      /\ Len(Tail(asked[c])) = Len(asked[c]) - 1 /\ Len(asked[c]) \in Nat \ {0}
      /\ Len(asked[c]) = 1 => Tail(asked[c]) = <<>>
  BY <1>1, Taking
<1>3. /\ Append(told[c], r) \in Seq(Responses) /\ Len(Append(told[c], r)) = Len(told[c]) + 1
      /\ Len(told[c]) \in Nat
  BY <1>1, Sending
<1>4. /\ asked'[c] = Tail(asked[c]) /\ told'[c] = Append(told[c], r)
      /\ asked' \in [Clients -> Seq(Requests)] /\ told' \in [Clients -> Seq(Responses)]
  BY <1>1, <1>2, <1>3
<1>5. told[c] = <<>> => Len(told'[c]) = 1 /\ Head(told'[c]) = r
  BY <1>4, SentAlone
<1>6. InFlight(c) \in Nat /\ InFlight(c)' = InFlight(c)
  <2>1. \A m \in Nat \ {0}, n \in Nat : m + n \in Nat /\ (m - 1) + (n + 1) = m + n
    OBVIOUS
  <2>2. InFlight(c)' = (Len(asked[c]) - 1) + (Len(told[c]) + 1)
    BY <1>2, <1>3, <1>4 DEF InFlight
  <2>3. QED
    BY <1>2, <1>3, <2>1, <2>2 DEF InFlight
<1>7. QED
  BY <1>1, <1>2, <1>4, <1>5, <1>6

\* The request an honest client waits on.
LEMMA RequestIsAlone ==
  ASSUME IInv, NEW c \in Clients, asked[c] # <<>>, c \notin abandoned
  PROVE  /\ Waits(c) /\ Len(asked[c]) = 1 /\ told[c] = <<>>
         /\ client[c].pc \in {"sync", "replacing"} =>
              Head(asked[c]).op = "replace" /\ Head(asked[c]).sources = client[c].sources
         /\ client[c].pc = "reading" =>
              /\ Head(asked[c]).op = client[c].op
              /\ Head(asked[c]).snapshot = client[c].snapshot
              /\ Names(client[c].link, client[c].snapshot, client[c].sources)
  BY DEF IInv, Own, Honest, Quiet, Replacing, Reading, Knows, Waits

\* A daemon's answer is right if it is a refusal, or true of what it says.
LEMMA StepOfAnswer ==
  ASSUME IInv, NEW c \in Clients, asked[c] # <<>>, NEW r \in Responses, Reply(c, r),
         client' = client, printed' = printed, abandoned' = abandoned, Types', World,
         troubles \in Nat, troubles' \in Nat, files' = files,
         c \notin abandoned /\ r.ok =>
           /\ client[c].pc \in {"sync", "replacing"} =>
                Names(client[c].link, r.snapshot, client[c].sources)'
           /\ client[c].pc = "reading" => Answers(c, r.of)
  PROVE  IInv'
<1>1. Types /\ Own(c) /\ Linked(c) /\ Counted(c)
  BY DEF IInv, Own
<1>2. Linked(c)'
  BY <1>1 DEF Linked, World, Evolves, Types
<1>3. Counted(c)'
  <2>1. InFlight(c) \in Nat /\ InFlight(c)' = InFlight(c)
    BY <1>1, Replied
  <2>2. QED
    BY <1>1, <2>1 DEF Counted, Waits, World
<1>4. ASSUME c \notin abandoned
      PROVE  Honest(c)'
  <2>1. Waits(c) /\ Len(asked[c]) = 1 /\ told[c] = <<>>
    BY <1>4, RequestIsAlone
  <2>2. asked'[c] = <<>> /\ Len(told'[c]) = 1 /\ Head(told'[c]) = r
    BY <1>1, <2>1, Replied
  <2>3. Replacing(c)' /\ Reading(c)'
    BY <1>4, <2>2 DEF Replacing, Reading, Answers
  <2>4. Knows(c)'
    <3>1. CASE client[c].pc = "reading"
      <4>1. /\ client[c].link \in Daemons /\ session[client[c].link].open
            /\ client[c].snapshot \in Nat
            /\ Names(client[c].link, client[c].snapshot, client[c].sources)
        BY <1>1, <1>4, <3>1, RequestIsAlone DEF Linked, Types, ClientType
      <4>2. Names(client[c].link, client[c].snapshot, client[c].sources)'
        BY <1>1, <4>1, NamesStay
      <4>3. QED
        BY <4>2 DEF Knows
    <3>2. CASE client[c].pc # "reading"
      BY <2>1, <3>2 DEF Waits, Knows
    <3>3. QED
      BY <3>1, <3>2
  <2>5. QED
    BY <2>1, <2>3, <2>4 DEF Honest, Quiet, Shown, Waits, At
<1>5. QED
  BY <1>1, <1>2, <1>3, <1>4, Replied, StepOfOne DEF Own, Alone

\* A session's answer: it names the revision it is about.
LEMMA ServeStep ==
  ASSUME IInv, NEW c \in Clients, Serve(c)
  PROVE  IInv'
<1> DEFINE d == client[c].link
           q == Head(asked[c])
           s == session[d]
<1>1. /\ Types /\ client[c] \in ClientType /\ Linked(c) /\ asked[c] # <<>>
      /\ d \in Daemons /\ s.open /\ s \in [open : BOOLEAN, sources : Version, revision : Nat]
      /\ q \in Requests
  <2>1. Types /\ Linked(c) /\ asked[c] # <<>> /\ client[c] \in ClientType /\ d # None
    BY DEF IInv, Own, Types, Serve
  <2>2. d \in Daemons
    BY <2>1 DEF ClientType, Target
  <2>3. q \in Requests
    BY <2>1, Taking DEF Types
  <2>4. QED
    BY <2>1, <2>2, <2>3 DEF Linked, Types
<1>2. /\ files' = files /\ endpoint' = endpoint /\ at' = at /\ client' = client
      /\ printed' = printed /\ abandoned' = abandoned /\ (Works \/ Trouble)
      /\ troubles \in Nat /\ troubles' \in Nat /\ troubles' >= troubles
  <2>1. /\ files' = files /\ endpoint' = endpoint /\ at' = at /\ client' = client
        /\ printed' = printed /\ abandoned' = abandoned /\ (Works \/ Trouble)
    BY DEF Serve
  <2>2. troubles \in Nat /\ troubles' \in Nat /\ troubles' >= troubles
    BY <1>1, <2>1 DEF Types, Works, Trouble
  <2>3. QED
    BY <2>1, <2>2
<1>3. ASSUME NEW r \in Responses, Reply(c, r), session' = session,
             c \notin abandoned /\ r.ok /\ client[c].pc = "reading" => Answers(c, r.of),
             r.ok => q.op # "replace"
      PROVE  IInv'
  <2>1. World
    BY <1>1, <1>2, <1>3, SessionsRest
  <2>2. Types'
    BY <1>1, <1>2, <1>3, Replied, TroublesAreBounded DEF Types
  <2>3. c \notin abandoned /\ r.ok => client[c].pc \notin {"sync", "replacing"}
    BY <1>1, <1>3, RequestIsAlone
  <2>4. QED
    BY <1>1, <1>2, <1>3, <2>1, <2>2, <2>3, StepOfAnswer
<1>4. CASE Reply(c, Response(FALSE, Nothing, s.revision)) /\ session' = session
  <2>1. Response(FALSE, Nothing, s.revision) \in Responses
        /\ ~Response(FALSE, Nothing, s.revision).ok
    BY <1>1, WatchAssumption DEF Response, Responses, Nothing, Version
  <2>2. QED
    BY <1>3, <1>4, <2>1
<1>5. CASE /\ q.snapshot = s.revision /\ q.op # "replace" /\ session' = session
           /\ Reply(c, Response(TRUE, IF q.op = "check" THEN s.sources ELSE files, s.revision))
  <2> DEFINE v == IF q.op = "check" THEN s.sources ELSE files
  <2>1. Response(TRUE, v, s.revision) \in Responses /\ Response(TRUE, v, s.revision).of = v
    BY <1>1 DEF Response, Responses, Types
  <2>2. ASSUME c \notin abandoned, client[c].pc = "reading"
        PROVE  Answers(c, v)
    <3>1. /\ q.op = client[c].op /\ q.snapshot = client[c].snapshot
          /\ Names(d, client[c].snapshot, client[c].sources)
      BY <1>1, <2>2, RequestIsAlone
    <3>2. s.sources = client[c].sources
      BY <1>5, <3>1 DEF Names
    <3>3. files >= client[c].sources
      BY <1>1 DEF Linked, Types, ClientType, Version
    <3>4. QED
      BY <3>1, <3>2, <3>3 DEF Answers
  <2>3. QED
    BY <1>3, <1>5, <2>1, <2>2
<1>6. CASE /\ q.op = "replace"
           /\ session' = [session EXCEPT ![d] = Replaced(s, q.sources)]
           /\ Reply(c, Response(TRUE, Nothing, Replaced(s, q.sources).revision))
  <2>0. PICK n : n = Replaced(s, q.sources).revision
    OBVIOUS
  <2> DEFINE r == Response(TRUE, Nothing, n)
  <2>1. q.sources \in Version
    BY <1>1 DEF Requests
  <2>2. /\ session'[d] = Replaced(s, q.sources)
        /\ \A e \in Daemons : e # d => session'[e] = session[e]
    BY <1>1, <1>6 DEF Types
  <2>3. /\ session'[d] \in [open : BOOLEAN, sources : Version, revision : Nat]
        /\ session'[d].open = s.open /\ session'[d].sources = q.sources
        /\ session'[d].revision \in {s.revision, s.revision + 1}
        /\ session'[d].revision = s.revision => q.sources = s.sources
    <3>1. CASE s.sources = q.sources
      <4>1. session'[d] = [s EXCEPT !.sources = q.sources, !.revision = s.revision]
        BY <2>2, <3>1 DEF Replaced
      <4>2. QED
        BY <1>1, <2>1, <3>1, <4>1
    <3>2. CASE s.sources # q.sources
      <4>1. session'[d] = [s EXCEPT !.sources = q.sources, !.revision = s.revision + 1]
        BY <2>2, <3>2 DEF Replaced
      <4>2. s.revision \in Nat /\ s.revision + 1 \in Nat /\ s.revision + 1 # s.revision
        BY <1>1
      <4>3. QED
        BY <1>1, <2>1, <3>2, <4>1, <4>2
    <3>3. QED
      BY <3>1, <3>2
  <2>4. /\ r \in Responses /\ r.snapshot = session'[d].revision /\ r.ok
        /\ n = session'[d].revision /\ Reply(c, r)
    BY <1>6, <2>0, <2>2, <2>3, WatchAssumption DEF Response, Responses, Nothing, Version
  <2>5. World
    <3>1. Evolves(d)
      BY <1>1, <2>3 DEF Evolves
    <3>2. \A e \in Daemons : e # d => Evolves(e)
      BY <1>1, <2>2 DEF Evolves, Types
    <3>3. QED
      BY <1>1, <1>2, <3>1, <3>2 DEF World, Types, Version
  <2>6. Types'
    <3>1. session' \in [Daemons -> [open : BOOLEAN, sources : Version, revision : Nat]]
      BY <1>1, <1>6, <2>2, <2>3 DEF Types
    <3>2. QED
      BY <1>1, <1>2, <1>6, <2>4, <3>1, Replied, TroublesAreBounded DEF Types
  <2>7. ASSUME c \notin abandoned
        PROVE  /\ client[c].pc \in {"sync", "replacing"} =>
                    Names(d, n, client[c].sources)'
               /\ client[c].pc # "reading"
    <3>1. /\ client[c].pc \in {"sync", "replacing"} => q.sources = client[c].sources
          /\ client[c].pc = "reading" => q.op = client[c].op
      BY <1>1, <2>7, RequestIsAlone
    <3>2. client[c].pc # "reading"
      BY <1>1, <1>6, <3>1 DEF ClientType, Operations
    <3>3. ASSUME client[c].pc \in {"sync", "replacing"}
          PROVE  Names(d, n, client[c].sources)'
      <4>1. session'[d].revision \in Nat /\ session'[d].sources = client[c].sources
        BY <2>3, <3>1, <3>3
      <4>2. QED
        BY <1>2, <2>4, <4>1 DEF Names
    <3>4. QED
      BY <3>2, <3>3
  <2>8. QED
    BY <1>1, <1>2, <1>6, <2>4, <2>5, <2>6, <2>7, StepOfAnswer
<1>7. QED
  BY <1>4, <1>5, <1>6 DEF Serve

\* Steps that concern no client: the daemons come and go, and the files are
\* edited.
LEMMA WorldSteps ==
  ASSUME IInv,
         \/ \E d \in Daemons : Publish(d) \/ Idle(d) \/ Leave(d) \/ Killed(d)
         \/ EditFiles
  PROVE  IInv'
<1>1. /\ Types /\ session' = session /\ client' = client /\ asked' = asked /\ told' = told
      /\ printed' = printed /\ abandoned' = abandoned /\ (Works \/ Trouble)
  BY DEF IInv, Publish, Idle, Leave, Killed, EditFiles, wires
<1>2. files' \in Version /\ files' >= files
  BY <1>1, WatchAssumption DEF Types, Version, Publish, Idle, Leave, Killed, EditFiles
<1>3. /\ endpoint' \in Target
      /\ at' \in [Daemons -> {"unborn", "starting", "serving", "leaving", "gone"}]
  <2>1. ASSUME NEW d \in Daemons, Publish(d) \/ Idle(d) \/ Leave(d) \/ Killed(d)
        PROVE  /\ endpoint' \in Target
               /\ at' \in [Daemons -> {"unborn", "starting", "serving", "leaving", "gone"}]
    BY <1>1, <2>1 DEF Types, Target, Publish, Idle, Leave, Killed
  <2>2. QED
    BY <1>1, <2>1 DEF Types, EditFiles
<1>4. Types'
  BY <1>1, <1>2, <1>3, TroublesAreBounded DEF Types
<1>5. World
  BY <1>1, <1>2 DEF World, Evolves, Types, Version, Works, Trouble
<1>6. \A c \in Clients : Own(c)'
  BY <1>1, <1>4, <1>5, OtherClients DEF Alone
<1>7. QED
  BY <1>4, <1>6 DEF IInv

-----------------------------------------------------------------------------
(* The invariant *)

\* At the start nobody knows or waits for anything.
LEMMA WatchBegins == Init => IInv
<1> SUFFICES ASSUME Init
             PROVE  IInv
  OBVIOUS
<1>1. PICK command \in Commands :
        client = [c \in Clients |->
          [pc |-> "start", op |-> command[c], sources |-> Nothing, target |-> None,
           link |-> None, own |-> None, snapshot |-> 0]]
  BY DEF Init
<1>2. /\ command \in [Clients -> Operations] /\ None \notin Daemons
      /\ MaxVersion \in Nat \ {0} /\ MaxTroubles \in Nat
  BY WatchAssumption DEF Operations
<1>3. /\ 0 \in Version /\ 1 \in Version /\ Nothing = 0
  BY <1>2 DEF Version, Nothing
<1>4. client \in [Clients -> ClientType]
  BY <1>1, <1>2, <1>3 DEF ClientType, Phases, Target
<1>5. /\ asked \in [Clients -> Seq(Requests)] /\ told \in [Clients -> Seq(Responses)]
      /\ \A c \in Clients : asked[c] = <<>> /\ told[c] = <<>>
  BY EmptySeq DEF Init
<1>6. Types
  <2>1. session \in [Daemons -> [open : BOOLEAN, sources : Version, revision : Nat]]
    BY <1>3 DEF Init, NoSession
  <2>2. printed \in [Clients -> [route : {None, "daemon", "directFallback"}, of : Version]]
    BY <1>3 DEF Init
  <2>3. QED
    BY <1>2, <1>3, <1>4, <1>5, <2>1, <2>2 DEF Init, Types, Target
<1>7. ASSUME NEW c \in Clients
      PROVE  Own(c)
  <2>1. client[c].pc = "start" /\ client[c].sources = 0 /\ client[c].link = None
    BY <1>1, <1>3
  <2>2. Linked(c)
    BY <1>2, <2>1 DEF Linked, Init
  <2>3. Counted(c)
    <3>1. InFlight(c) = 0 + 0
      BY <1>5, EmptySeq DEF InFlight
    <3>2. QED
      BY <3>1 DEF Counted, Init
  <2>4. Honest(c)
    BY <1>5, <2>1 DEF Honest, Replacing, Reading, Quiet, Knows, Shown, Waits, At
  <2>5. QED
    BY <2>2, <2>3, <2>4 DEF Own
<1>8. QED
  BY <1>6, <1>7 DEF IInv

\* Every step keeps the invariant.
LEMMA WatchSteps == IInv /\ [Next]_vars => IInv'
<1> SUFFICES ASSUME IInv, [Next]_vars
             PROVE  IInv'
  OBVIOUS
<1>1. ASSUME NEW c \in Clients, Opens(c)
      PROVE  IInv'
  BY <1>1, CollectStep, DiscoverStep, ConnectStep, UnlinkStep, SpawnStep,
     AwaitEndpointStep, GreetStep DEF Opens
<1>2. ASSUME NEW c \in Clients, Watches(c)
      PROVE  IInv'
  BY <1>2, ReadReplacedStep, AskStep, ReadAnswerStep, DirectStep, PollStep DEF Watches
<1>3. ASSUME NEW c \in Clients, Serve(c)
      PROVE  IInv'
  BY <1>3, ServeStep
<1>4. CASE UNCHANGED vars
  <2>1. /\ Types' /\ World /\ \A c \in Clients : Alone(c)
    BY <1>4 DEF IInv, Types, World, Evolves, Alone, Version, vars
  <2>2. QED
    BY <2>1, OtherClients DEF IInv
<1>5. QED
  BY <1>1, <1>2, <1>3, <1>4, WorldSteps DEF Next

\* The inductive invariant of the sessions: what is under way between a client
\* and its session, and what a revision says of the sources (daemon.rs).
THEOREM WatchInvariant == Spec => []IInv
  BY WatchBegins, WatchSteps, PTL DEF Spec

\* The types of the state; a client has one message under way, and one more
\* for each answer it has stopped waiting for (daemon.rs, the read timeout).
THEOREM WatchTypeOK == Spec => []TypeOK
<1>1. IInv => TypeOK
  <2> SUFFICES ASSUME IInv
               PROVE  TypeOK
    OBVIOUS
  <2>1. Types
    BY DEF IInv
  <2>2. ASSUME NEW c \in Clients
        PROVE  InFlight(c) <= IF c \in abandoned THEN MaxTroubles + 1 ELSE 1
    <3>1. /\ Own(c) /\ asked[c] \in Seq(Requests) /\ told[c] \in Seq(Responses)
          /\ troubles \in Nat /\ troubles <= MaxTroubles /\ MaxTroubles \in Nat
      BY <2>1, WatchAssumption DEF IInv, Types
    <3>2. CASE c \in abandoned
      <4>1. InFlight(c) \in Nat
        BY <3>1, FlightIsCounted
      <4>2. QED
        BY <3>1, <3>2, <4>1 DEF Own, Counted
    <3>3. CASE c \notin abandoned
      <4>1. \/ Len(asked[c]) = 1 /\ told[c] = <<>>
            \/ asked[c] = <<>> /\ Len(told[c]) = 1
            \/ asked[c] = <<>> /\ told[c] = <<>>
        BY <3>1, <3>3 DEF Own, Honest, Replacing, Reading, Quiet, Waits
      <4>2. \/ Len(asked[c]) = 1 /\ Len(told[c]) = 0
            \/ Len(asked[c]) = 0 /\ Len(told[c]) = 1
            \/ Len(asked[c]) = 0 /\ Len(told[c]) = 0
        BY <4>1, EmptySeq
      <4>3. InFlight(c) = 1 + 0 \/ InFlight(c) = 0 + 1 \/ InFlight(c) = 0 + 0
        BY <4>2 DEF InFlight
      <4>4. QED
        BY <3>3, <4>3
    <3>4. QED
      BY <3>2, <3>3
  <2>3. ASSUME NEW c \in Clients
        PROVE  client[c] \in ClientType
    BY <2>1 DEF Types
  <2>4. QED
    BY <2>1, <2>2, <2>3 DEF TypeOK, Types, ClientType, Operations, Target, InFlight
<1>2. QED
  BY <1>1, WatchInvariant, PTL

\* What a session answers is about the sources of the client that asked, from
\* the handshake to what is printed, whoever else replaces sources, restarts
\* daemons or gives up (execute_session_request, replace_style_sources).
THEOREM SessionsAnswer == Spec => []SessionsAnswerForTheirClients
<1>1. IInv => SessionsAnswerForTheirClients
  <2> SUFFICES ASSUME IInv
               PROVE  SessionsAnswerForTheirClients
    OBVIOUS
  <2>1. SnapshotNamesSources
    BY DEF IInv, Own, Honest, Knows, Names, SnapshotNamesSources
  <2>2. PrintsItsSources
    BY DEF IInv, Own, Honest, Shown, PrintsItsSources
  <2>3. QED
    BY <2>1, <2>2 DEF SessionsAnswerForTheirClients
<1>2. QED
  BY <1>1, WatchInvariant, PTL
=============================================================================
