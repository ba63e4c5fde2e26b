-------------------------- MODULE WorkerPoolProofs --------------------------
(* Theorems about WorkerPool, for every number of workers, clients and     *)
(* newer versions.                                                         *)
EXTENDS WorkerPool, FiniteSetTheorems, TLAPS

-----------------------------------------------------------------------------
(* The queues.                                                             *)

\* A socket pair holds at least one datagram.
LEMMA CapIsNat == QueueCap \in Nat /\ QueueCap > 0
BY PoolConstants DEF PoolConstants

\* A token put or taken leaves the length of a queue within its capacity, and
\* takes effect whenever there is room for it, or something to take.
LEMMA QueueLength ==
  ASSUME NEW q \in 0..QueueCap
  PROVE  /\ Put(q) \in 0..QueueCap /\ Take(q) \in 0..QueueCap
         /\ q < QueueCap => Put(q) = q + 1
         /\ q > 0 => Take(q) = q - 1
BY CapIsNat DEF Put, Take

-----------------------------------------------------------------------------
(* Type correctness.                                                       *)

\* Every variable starts with a value of its type.
LEMMA InitType == Init => TypeOK
<1> SUFFICES ASSUME Init PROVE TypeOK
  OBVIOUS
<1> USE DEF Init
<1>1. pc \in [Workers -> PC] /\ ev \in [Workers -> SUBSET (Signals \cup Updaters)]
  BY DEF PC
<1>2. live \in [Workers -> BOOLEAN] /\ ready \in [Workers -> BOOLEAN]
  OBVIOUS
<1>3. wtok \in 0..QueueCap /\ sess \in 0..QueueCap /\ pings \in 0..QueueCap
  BY CapIsNat
<1>4. marked \in BOOLEAN /\ killed \in BOOLEAN
  OBVIOUS
<1>5. st \in [Conns -> ConnState] /\ owner \in [Conns -> Workers \cup {None}]
  BY DEF ConnState
<1>6. /\ up \in [Updaters -> UpState]
      /\ link \in [Updaters -> {"none", "backlog", "open", "closed"}]
      /\ inbox \in [Updaters -> {"none", "port", "ready", "reset"}]
      /\ uown \in [Updaters -> Workers \cup {None}]
  BY DEF UpState
<1> QED
  BY <1>1, <1>2, <1>3, <1>4, <1>5, <1>6 DEF TypeOK

\* A worker's own step.
LEMMA WorkerType ==
  ASSUME TypeOK, NEW w \in Workers, Progress(w) \/ Choice(w)
  PROVE  TypeOK'
<1> USE CapIsNat DEF TypeOK, PC, LoopPC, TerminatePC, ConnState, UpState, Goto,
        pool, queues, conns, upd
<1>1. CASE Enter(w)
  BY <1>1 DEF Enter
<1>2. CASE Activate(w)
  BY <1>2, QueueLength DEF Activate
<1>3. CASE ActivatePeek(w)
  BY <1>3 DEF ActivatePeek
<1>4. CASE TerminationCheck(w)
  BY <1>4 DEF TerminationCheck
<1>5. CASE Deactivate(w)
  BY <1>5, QueueLength DEF Deactivate
<1>6. CASE LastWorker(w)
  BY <1>6 DEF LastWorker
<1>7. CASE KillGroup(w)
  BY <1>7 DEF KillGroup
<1>8. CASE Ping(w)
  BY <1>8, QueueLength DEF Ping
<1>9. CASE Wake(w)
  <2>1. Events(w) \subseteq Signals \cup Updaters
    BY DEF Events, EpollEvents, SelectEvents, WatchedByBoth, Comfds
  <2> QED
    BY <1>9, <2>1 DEF Wake
<1>10. CASE HandleWakeup(w)
  BY <1>10, QueueLength DEF HandleWakeup, Handled
<1>11. CASE HandleReady(w)
  BY <1>11 DEF HandleReady, Handled
<1>12. CASE HandleComfd(w)
  BY <1>12 DEF HandleComfd, Handled
<1>13. ASSUME NEW u \in Updaters, HandleMessage(w, u)
       PROVE  TypeOK'
  <2>1. /\ ev' = [ev EXCEPT ![w] = @ \ {u}]
        /\ UNCHANGED <<pc, live, ready, queues, conns, killed>>
        /\ Serve(u) \/ MarkReady(u) \/ HangUp(u)
    BY <1>13 DEF HandleMessage, Handled
  <2>2. /\ up' \in [Updaters -> UpState]
        /\ link' \in [Updaters -> {"none", "backlog", "open", "closed"}]
        /\ inbox' \in [Updaters -> {"none", "port", "ready", "reset"}]
        /\ uown' \in [Updaters -> Workers \cup {None}]
        /\ marked' \in BOOLEAN
    <3>1. CASE Serve(u)
      BY <3>1 DEF Serve
    <3>2. CASE MarkReady(u)
      BY <3>2 DEF MarkReady, DropLink
    <3>3. CASE HangUp(u)
      BY <3>3 DEF HangUp, DropLink
    <3> QED
      BY <2>1, <3>1, <3>2, <3>3
  <2> QED
    BY <2>1, <2>2
<1>14. CASE Return(w)
  BY <1>14 DEF Return, Visible, Entry
<1>15. CASE Leave(w)
  BY <1>15 DEF Leave, Entry
<1>16. ASSUME NEW c \in Conns, CountAccept(w, c) \/ Close(w, c) \/ CountClose(w, c)
       PROVE  TypeOK'
  <2>1. CASE CountAccept(w, c)
    BY <2>1, QueueLength DEF CountAccept
  <2>2. CASE Close(w, c)
    BY <2>2 DEF Close
  <2>3. CASE CountClose(w, c)
    BY <2>3, QueueLength DEF CountClose
  <2> QED
    BY <1>16, <2>1, <2>2, <2>3
<1>17. CASE Timeout(w)
  BY <1>17 DEF Timeout
<1>18. CASE Exit(w)
  BY <1>18 DEF Exit
<1>19. ASSUME NEW c \in Conns, Accept(w, c)
       PROVE  TypeOK'
  BY <1>19 DEF Accept
<1> QED
  BY <1>1, <1>2, <1>3, <1>4, <1>5, <1>6, <1>7, <1>8, <1>9, <1>10, <1>11, <1>12,
     <1>13, <1>14, <1>15, <1>16, <1>17, <1>18, <1>19 DEF Progress, Choice

\* A step of a client.
LEMMA ClientType ==
  ASSUME TypeOK, NEW c \in Conns, Connect(c) \/ End(c) \/ SuccessorAccept(c)
  PROVE  TypeOK'
BY DEF TypeOK, ConnState, pool, queues, upd, Connect, End, SuccessorAccept

\* A step of a newer version.
LEMMA UpdaterType ==
  ASSUME TypeOK, NEW u \in Updaters, UpdaterConnect(u) \/ UpdaterStep(u) \/ UpdaterCrash(u)
  PROVE  TypeOK'
BY DEF TypeOK, UpState, pool, queues, conns, UpdaterConnect, UpdaterStep, UpdaterSend,
       UpdaterReport, UpdaterCrash, SuccessorServe

\* Every step, of whatever actor, keeps every variable in its type.
LEMMA TypeStep == TypeOK /\ [Next]_vars => TypeOK'
<1> SUFFICES ASSUME TypeOK, [Next]_vars PROVE TypeOK'
  OBVIOUS
<1>1. CASE UNCHANGED vars
  BY <1>1 DEF vars, pool, queues, conns, upd, TypeOK
<1> QED
  BY <1>1, WorkerType, ClientType, UpdaterType DEF Next

\* Every variable of WorkerPool keeps its type: in particular no queue of the
\* library ever holds more than a socket pair can.
THEOREM TypeCorrect == Spec => []TypeOK
BY InitType, TypeStep, PTL DEF Spec

-----------------------------------------------------------------------------
(* Why a worker stops listening, and what it holds when it stops.          *)

\* At first nobody has reported and no stream is open.
LEMMA InitReported == Init => ReadyReported /\ LinksInService
BY DEF Init, ReadyReported, LinksInService, TerminatePC

\* A worker sees readyfd readable only once it is marked, and terminates only
\* once it has seen it.
LEMMA WorkerReported ==
  ASSUME TypeOK, ReadyReported, NEW w \in Workers, ~killed, Progress(w) \/ Choice(w)
  PROVE  ReadyReported'
<1> USE DEF TypeOK, ReadyReported, TerminatePC, Goto, pool, queues, conns, upd
<1>1. CASE Enter(w) \/ Activate(w) \/ ActivatePeek(w)
  BY <1>1 DEF Enter, Activate, ActivatePeek
<1>2. CASE TerminationCheck(w)
  BY <1>2 DEF TerminationCheck, Drained
<1>3. CASE Deactivate(w) \/ LastWorker(w) \/ Ping(w)
  BY <1>3 DEF Deactivate, LastWorker, Ping
<1>4. CASE KillGroup(w)
  BY <1>4 DEF KillGroup
<1>5. CASE Wake(w)
  <2>1. "ready" \in Events(w) => marked
    BY PoolConstants DEF PoolConstants, Signals, Comfds, Events, EpollEvents, SelectEvents,
                         WatchedByBoth
  <2> QED
    BY <1>5, <2>1 DEF Wake
<1>6. CASE HandleWakeup(w) \/ HandleReady(w) \/ HandleComfd(w)
  BY <1>6 DEF HandleWakeup, HandleReady, HandleComfd, Handled
<1>7. ASSUME NEW u \in Updaters, HandleMessage(w, u)
      PROVE  ReadyReported'
  BY <1>7 DEF HandleMessage, Handled, Serve, MarkReady, HangUp, DropLink
<1>8. CASE Return(w) \/ Leave(w) \/ Timeout(w)
  BY <1>8 DEF Return, Visible, Entry, Leave, Timeout
<1>9. ASSUME NEW c \in Conns,
             CountAccept(w, c) \/ Close(w, c) \/ CountClose(w, c) \/ Accept(w, c)
      PROVE  ReadyReported'
  BY <1>9 DEF CountAccept, Close, CountClose, Accept
<1>10. CASE Exit(w)
  BY <1>10 DEF Exit, LoopPC
<1> QED
  BY <1>1, <1>2, <1>3, <1>4, <1>5, <1>6, <1>7, <1>8, <1>9, <1>10 DEF Progress, Choice

\* A worker that passes the termination check holds no stream of a newer version.
LEMMA WorkerLinks ==
  ASSUME TypeOK, LinksInService, EventsOwned, NEW w \in Workers, Progress(w) \/ Choice(w)
  PROVE  LinksInService'
<1> USE DEF TypeOK, LinksInService, InService, LoopPC, Goto, pool, queues, conns, upd
<1>1. CASE Enter(w) \/ Activate(w) \/ ActivatePeek(w)
  BY <1>1 DEF Enter, Activate, ActivatePeek
<1>2. CASE TerminationCheck(w)
  BY <1>2 DEF TerminationCheck, Drained, Comfds
<1>3. CASE Deactivate(w) \/ LastWorker(w) \/ Ping(w) \/ KillGroup(w)
  BY <1>3 DEF Deactivate, LastWorker, Ping, KillGroup
<1>4. CASE Wake(w) \/ Timeout(w)
  BY <1>4 DEF Wake, Timeout
<1>5. CASE HandleWakeup(w) \/ HandleReady(w) \/ HandleComfd(w)
  BY <1>5 DEF HandleWakeup, HandleReady, HandleComfd, Handled
<1>6. ASSUME NEW u \in Updaters, HandleMessage(w, u)
      PROVE  LinksInService'
  BY <1>6 DEF EventsOwned, HandleMessage, Handled, Serve, MarkReady, HangUp, DropLink
<1>7. CASE Return(w) \/ Leave(w)
  BY <1>7 DEF Return, Leave, Entry
<1>8. ASSUME NEW c \in Conns,
             CountAccept(w, c) \/ Close(w, c) \/ CountClose(w, c) \/ Accept(w, c)
      PROVE  LinksInService'
  BY <1>8 DEF CountAccept, Close, CountClose, Accept
<1>9. CASE Exit(w)
  BY <1>9 DEF Exit, Comfds
<1> QED
  BY <1>1, <1>2, <1>3, <1>4, <1>5, <1>6, <1>7, <1>8, <1>9 DEF Progress, Choice

\* Clients touch neither the streams nor readyfd.
LEMMA ClientReported ==
  ASSUME ReadyReported, LinksInService, NEW c \in Conns,
         Connect(c) \/ End(c) \/ SuccessorAccept(c)
  PROVE  ReadyReported' /\ LinksInService'
BY DEF ReadyReported, LinksInService, InService, pool, queues, upd, Connect, End,
       SuccessorAccept

\* A newer version that reports is recorded as reported, and opens no stream
\* with a worker by itself.
LEMMA UpdaterReported ==
  ASSUME TypeOK, ReadyReported, LinksInService, NEW u \in Updaters,
         UpdaterConnect(u) \/ UpdaterStep(u) \/ UpdaterCrash(u)
  PROVE  ReadyReported' /\ LinksInService'
<1> USE DEF TypeOK, ReadyReported, LinksInService, InService, pool, queues, conns
<1>1. CASE UpdaterConnect(u) \/ UpdaterSend(u) \/ UpdaterCrash(u)
  BY <1>1 DEF UpdaterConnect, UpdaterSend, UpdaterCrash
<1>2. CASE UpdaterReport(u) \/ SuccessorServe(u)
  BY <1>2 DEF UpdaterReport, SuccessorServe
<1> QED
  BY <1>1, <1>2 DEF UpdaterStep

\* Nothing changes in a stuttering step.
LEMMA StutterReported ==
  ASSUME ReadyReported, LinksInService, UNCHANGED vars
  PROVE  ReadyReported' /\ LinksInService'
BY DEF vars, pool, queues, conns, upd, ReadyReported, LinksInService, InService

\* A worker gets the events of its own streams, and those of a stream that is
\* closed are gone with it.
LEMMA WorkerEvents ==
  ASSUME TypeOK, EventsOwned, NEW w \in Workers, Progress(w) \/ Choice(w)
  PROVE  EventsOwned'
<1> USE DEF TypeOK, EventsOwned, Goto, pool, queues, conns, upd
<1>1. CASE Enter(w) \/ Activate(w) \/ ActivatePeek(w) \/ TerminationCheck(w)
  BY <1>1 DEF Enter, Activate, ActivatePeek, TerminationCheck
<1>2. CASE Deactivate(w) \/ LastWorker(w) \/ Ping(w) \/ KillGroup(w)
  BY <1>2 DEF Deactivate, LastWorker, Ping, KillGroup
<1>3. CASE Wake(w)
  <2>1. Events(w) \cap Updaters \subseteq Comfds(w)
    BY PoolConstants DEF PoolConstants, Signals, Events, EpollEvents, SelectEvents,
                         WatchedByBoth
  <2> QED
    BY <1>3, <2>1 DEF Wake, Comfds
<1>4. CASE HandleWakeup(w) \/ HandleReady(w)
  BY <1>4 DEF HandleWakeup, HandleReady, Handled
<1>5. CASE HandleComfd(w)
  BY <1>5 DEF HandleComfd, Handled
<1>6. ASSUME NEW u \in Updaters, HandleMessage(w, u)
      PROVE  EventsOwned'
  <2>1. /\ ev' = [ev EXCEPT ![w] = @ \ {u}] /\ u \in ev[w]
        /\ \A v \in Updaters \ {u} : link'[v] = link[v] /\ uown'[v] = uown[v]
    BY <1>6 DEF HandleMessage, Handled, Serve, MarkReady, HangUp, DropLink
  <2> QED
    BY <2>1
<1>7. CASE Return(w) \/ Leave(w) \/ Timeout(w)
  BY <1>7 DEF Return, Visible, Leave, Timeout
<1>8. ASSUME NEW c \in Conns,
             CountAccept(w, c) \/ Close(w, c) \/ CountClose(w, c) \/ Accept(w, c)
      PROVE  EventsOwned'
  BY <1>8 DEF CountAccept, Close, CountClose, Accept
<1>9. CASE Exit(w)
  BY <1>9 DEF Exit, Comfds
<1> QED
  BY <1>1, <1>2, <1>3, <1>4, <1>5, <1>6, <1>7, <1>8, <1>9 DEF Progress, Choice

\* No other actor touches the events of a worker or a stream that is open.
LEMMA OthersEvents ==
  ASSUME TypeOK, LinksInService, EventsOwned,
         \/ UNCHANGED vars
         \/ \E c \in Conns : Connect(c) \/ End(c) \/ SuccessorAccept(c)
         \/ \E u \in Updaters : UpdaterConnect(u) \/ UpdaterStep(u) \/ UpdaterCrash(u)
  PROVE  EventsOwned'
<1> USE DEF TypeOK, EventsOwned, pool, queues, conns, upd
<1>1. CASE UNCHANGED vars
  BY <1>1 DEF vars
<1>2. ASSUME NEW c \in Conns, Connect(c) \/ End(c) \/ SuccessorAccept(c)
      PROVE  EventsOwned'
  BY <1>2 DEF Connect, End, SuccessorAccept
<1>3. ASSUME NEW u \in Updaters, UpdaterConnect(u)
      PROVE  EventsOwned'
  BY <1>3 DEF UpdaterConnect, LinksInService
<1>4. ASSUME NEW u \in Updaters, UpdaterStep(u) \/ UpdaterCrash(u)
      PROVE  EventsOwned'
  BY <1>4 DEF UpdaterStep, UpdaterSend, UpdaterReport, SuccessorServe, UpdaterCrash
<1> QED
  BY <1>1, <1>2, <1>3, <1>4

Basic == TypeOK /\ ReadyReported /\ LinksInService /\ EventsOwned

\* In every execution, under any assumption on the constants: types, readyfd
\* marked only after a report, streams held only by workers in service.
THEOREM BasicInvariant == Spec => []Basic
<1>1. Init => Basic
  <2>1. Init => EventsOwned
    BY DEF Init, EventsOwned
  <2> QED
    BY <2>1, InitType, InitReported DEF Basic
<1>2. Basic /\ [Next]_vars => Basic'
  <2> SUFFICES ASSUME Basic, [Next]_vars
               PROVE  ReadyReported' /\ LinksInService' /\ EventsOwned'
    BY TypeStep DEF Basic
  <2>1. CASE UNCHANGED vars
    BY <2>1, StutterReported, OthersEvents DEF Basic
  <2>2. ASSUME NEW w \in Workers, ~killed, Progress(w) \/ Choice(w)
        PROVE  ReadyReported' /\ LinksInService' /\ EventsOwned'
    BY <2>2, WorkerReported, WorkerLinks, WorkerEvents DEF Basic
  <2>3. ASSUME NEW c \in Conns, Connect(c) \/ End(c) \/ SuccessorAccept(c)
        PROVE  ReadyReported' /\ LinksInService' /\ EventsOwned'
    BY <2>3, ClientReported, OthersEvents DEF Basic
  <2>4. ASSUME NEW u \in Updaters, UpdaterConnect(u) \/ UpdaterStep(u) \/ UpdaterCrash(u)
        PROVE  ReadyReported' /\ LinksInService' /\ EventsOwned'
    BY <2>4, UpdaterReported, OthersEvents DEF Basic
  <2> QED
    BY <2>1, <2>2, <2>3, <2>4 DEF Next
<1> QED
  BY <1>1, <1>2, PTL DEF Spec

\* The group is killed only after some newer version has reported that it
\* serves the port, whatever the calls used, the queues lose, or workers do.
THEOREM Superseded == Spec => []SupersededWhenKilled
<1>1. Basic => SupersededWhenKilled
  BY DEF Basic, ReadyReported, SupersededWhenKilled, TerminatePC
<1> QED
  BY <1>1, BasicInvariant, PTL

-----------------------------------------------------------------------------
(* Counting sessions.                                                      *)

\* Adding or removing one element of a subset of a finite set.
LEMMA CountOne ==
  ASSUME NEW S, IsFiniteSet(S), NEW T \in SUBSET S, NEW x \in S
  PROVE  /\ IsFiniteSet(T) /\ Cardinality(T) \in Nat
         /\ Cardinality(T) = 0 <=> T = {}
         /\ x \notin T => /\ Cardinality(T \cup {x}) = Cardinality(T) + 1
                          /\ Cardinality(T) < Cardinality(S)
         /\ x \in T => /\ Cardinality(T \ {x}) = Cardinality(T) - 1
                       /\ Cardinality(T) > 0
<1>1. IsFiniteSet(T) /\ IsFiniteSet(T \cup {x})
  BY FS_Subset
<1>2. Cardinality(T) \in Nat /\ Cardinality(S) \in Nat /\ (Cardinality(T) = 0 <=> T = {})
  BY <1>1, FS_CardinalityType, FS_EmptySet
<1>3. ASSUME x \notin T
      PROVE  /\ Cardinality(T \cup {x}) = Cardinality(T) + 1
             /\ Cardinality(T) < Cardinality(S)
  <2>1. Cardinality(T \cup {x}) = Cardinality(T) + 1
    BY <1>1, <1>3, FS_AddElement
  <2>2. Cardinality(T \cup {x}) <= Cardinality(S)
    BY FS_Subset
  <2> QED
    BY <2>1, <2>2, <1>2
<1>4. ASSUME x \in T
      PROVE  Cardinality(T \ {x}) = Cardinality(T) - 1
  BY <1>1, <1>4, FS_RemoveElement
<1>5. x \in T => Cardinality(T) > 0
  BY <1>2
<1> QED
  BY <1>1, <1>2, <1>3, <1>4, <1>5

\* Clients are accepted with accept4(), and no more sessions are open at once
\* than the socket pair holds datagrams.
SessionsFit == AcceptCall = "accept4" /\ Cardinality(Conns) <= QueueCap

Sessions == SessionsCounted /\ OwnersInService

\* There are no sessions and no tokens at first.
LEMMA InitSessions == Init => Sessions
<1> SUFFICES ASSUME Init PROVE Sessions
  OBVIOUS
<1>1. Counted = {}
  BY DEF Init, Counted
<1>2. SessionsCounted
  BY <1>1, FS_EmptySet DEF SessionsCounted, Init
<1>3. OwnersInService
  BY DEF Init, OwnersInService, Accepted
<1> QED
  BY <1>2, <1>3 DEF Sessions

\* A step that leaves the connections, the token queue and, but for moves of
\* a worker that is not between a call and its token, the workers in service.
LEMMA SameSessions ==
  ASSUME TypeOK, Sessions, UNCHANGED <<st, owner, sess>>, NEW w \in Workers,
         NEW loc \in PC, pc' = [pc EXCEPT ![w] = loc],
         pc[w] \notin {"accepting", "closing"} \/ loc = pc[w],
         InService(w) => loc \in {"activate", "peek"} \cup LoopPC
  PROVE  Sessions'
<1>1. Counted' = Counted
  BY DEF Counted
<1>2. SessionsCounted'
  BY <1>1 DEF SessionsCounted, Sessions
<1>3. OwnersInService'
  BY DEF Sessions, OwnersInService, Accepted, InService, TypeOK
<1> QED
  BY <1>2, <1>3 DEF Sessions

\* No session is left to a worker that passes the termination check.
LEMMA DrainedOwnsNothing ==
  ASSUME TypeOK, Sessions, NEW w \in Workers, pc[w] = "check", Drained(w),
         NEW c \in Conns
  PROVE  ~(Accepted(c) /\ owner[c] = w)
<1>1. Counted = {}
  <2>1. Counted \in SUBSET Conns /\ IsFiniteSet(Conns)
    BY PoolConstants DEF PoolConstants, Counted
  <2>2. Cardinality(Counted) = 0
    BY DEF Sessions, SessionsCounted, Drained
  <2> QED
    BY <2>1, <2>2, FS_Subset, FS_EmptySet
<1> QED
  BY <1>1 DEF Counted, Sessions, OwnersInService, Accepted

\* accept4() and its token.
LEMMA AcceptSessions ==
  ASSUME SessionsFit, TypeOK, Sessions, NEW w \in Workers, NEW c \in Conns,
         Accept(w, c) \/ CountAccept(w, c)
  PROVE  Sessions'
<1> USE DEF SessionsFit, TypeOK, Sessions, SessionsCounted, OwnersInService, Accepted,
        InService, LoopPC, Goto
<1>1. CASE Accept(w, c)
  <2>1. Counted' = Counted
    BY <1>1 DEF Accept, Counted
  <2> QED
    BY <1>1, <2>1 DEF Accept, queues
<1>2. CASE CountAccept(w, c)
  <2>1. Counted' = Counted \cup {c} /\ c \notin Counted
    BY <1>2 DEF CountAccept, Counted
  <2>2. /\ Cardinality(Counted \cup {c}) = Cardinality(Counted) + 1
        /\ Cardinality(Counted) < Cardinality(Conns)
    BY <2>1, CountOne, PoolConstants DEF PoolConstants, Counted
  <2>3. Cardinality(Conns) \in Nat
    BY PoolConstants, FS_CardinalityType DEF PoolConstants
  <2>4. sess' = sess + 1
    BY <1>2, <2>2, <2>3, QueueLength, CapIsNat DEF CountAccept
  <2>5. SessionsCounted'
    BY <2>1, <2>2, <2>4
  <2>6. OwnersInService'
    BY <1>2 DEF CountAccept
  <2> QED
    BY <2>5, <2>6
<1> QED
  BY <1>1, <1>2

\* close() and its token.
LEMMA CloseSessions ==
  ASSUME TypeOK, Sessions, NEW w \in Workers, NEW c \in Conns,
         Close(w, c) \/ CountClose(w, c)
  PROVE  Sessions'
<1> USE DEF TypeOK, Sessions, SessionsCounted, OwnersInService, Accepted, InService,
        LoopPC, Goto
<1>1. CASE Close(w, c)
  <2>1. Counted' = Counted
    BY <1>1 DEF Close, Counted
  <2> QED
    BY <1>1, <2>1 DEF Close, queues
<1>2. CASE CountClose(w, c)
  <2>0. st[c] = "closing" /\ st' = [st EXCEPT ![c] = "free"] /\ st \in [Conns -> ConnState]
    BY <1>2 DEF CountClose
  <2>1. Counted' = Counted \ {c} /\ c \in Counted
    <3> HIDE DEF TypeOK, Sessions, SessionsCounted, OwnersInService
    <3>1. ASSUME NEW d \in Conns
          PROVE  st'[d] = IF d = c THEN "free" ELSE st[d]
      BY <2>0
    <3>2. \A d \in Conns : d \in Counted' <=> d \in Counted /\ d # c
      BY <3>1 DEF Counted
    <3>3. c \in Counted /\ Counted \subseteq Conns /\ Counted' \subseteq Conns
      BY <2>0 DEF Counted
    <3> QED
      BY <3>2, <3>3
  <2>2. /\ Cardinality(Counted \ {c}) = Cardinality(Counted) - 1
        /\ Cardinality(Counted) > 0
    <3> HIDE DEF TypeOK, Sessions, SessionsCounted, OwnersInService
    <3>1. IsFiniteSet(Counted)
      BY PoolConstants, FS_Subset DEF PoolConstants, Counted
    <3> QED
      BY <2>1, <3>1, CountOne
  <2>3. sess' = sess - 1
    BY <1>2, <2>2, QueueLength DEF CountClose
  <2>4. SessionsCounted'
    BY <2>1, <2>2, <2>3
  <2>5. OwnersInService'
    BY <1>2 DEF CountClose
  <2> QED
    BY <2>4, <2>5
<1> QED
  BY <1>1, <1>2

\* The sessions of a worker that dies keep their tokens.
LEMMA ExitSessions ==
  ASSUME TypeOK, Sessions, NEW w \in Workers, Exit(w)
  PROVE  Sessions'
<1> w # None
  BY PoolConstants DEF PoolConstants
<1>1. Counted' = Counted
  <2>1. ASSUME NEW c \in Conns
        PROVE  st'[c] \in {"open", "ended", "closing", "lost"}
                 <=> st[c] \in {"open", "ended", "closing", "lost"}
    BY DEF Exit, TypeOK, ConnState, Sessions, OwnersInService, Accepted
  <2> QED
    BY <2>1 DEF Counted
<1>2. SessionsCounted'
  BY <1>1 DEF Exit, queues, Sessions, SessionsCounted
<1>3. OwnersInService'
  BY DEF Exit, Goto, TypeOK, Sessions, OwnersInService, Accepted, InService
<1> QED
  BY <1>2, <1>3 DEF Sessions

\* Every step of a worker keeps the count of sessions right.
LEMMA WorkerSessions ==
  ASSUME SessionsFit, TypeOK, Sessions, NEW w \in Workers, Progress(w) \/ Choice(w)
  PROVE  Sessions'
<1> USE DEF PC, LoopPC, TerminatePC, InService, Goto, pool, queues, conns, upd
<1>1. CASE Enter(w) \/ Activate(w) \/ ActivatePeek(w)
  BY <1>1, SameSessions DEF Enter, Activate, ActivatePeek
<1>2. CASE TerminationCheck(w)
  <2>1. CASE Drained(w)
    <3>1. Counted' = Counted
      BY <1>2 DEF TerminationCheck, Counted
    <3>2. SessionsCounted'
      BY <1>2, <3>1 DEF TerminationCheck, Sessions, SessionsCounted
    <3>3. OwnersInService'
      BY <1>2, <2>1, DrainedOwnsNothing
         DEF TerminationCheck, TypeOK, Sessions, OwnersInService, Accepted
    <3> QED
      BY <3>2, <3>3 DEF Sessions
  <2>2. CASE ~Drained(w)
    BY <1>2, <2>2, SameSessions DEF TerminationCheck
  <2> QED
    BY <2>1, <2>2
<1>3. CASE Deactivate(w) \/ LastWorker(w) \/ Ping(w)
  BY <1>3, SameSessions DEF Deactivate, LastWorker, Ping
<1>4. ASSUME UNCHANGED <<pc, st, owner, sess>>
      PROVE  Sessions'
  BY <1>4 DEF Sessions, SessionsCounted, OwnersInService, Accepted, Counted
<1>5. CASE KillGroup(w) \/ HandleWakeup(w) \/ HandleReady(w) \/ HandleComfd(w)
  BY <1>4, <1>5 DEF KillGroup, HandleWakeup, HandleReady, HandleComfd
<1>6. ASSUME NEW u \in Updaters, HandleMessage(w, u)
      PROVE  Sessions'
  BY <1>4, <1>6 DEF HandleMessage
<1>7. CASE Wake(w) \/ Timeout(w) \/ Return(w) \/ Leave(w)
  BY <1>7, SameSessions DEF Wake, Timeout, Return, Leave, Entry
<1>8. ASSUME NEW c \in Conns,
             CountAccept(w, c) \/ Close(w, c) \/ CountClose(w, c) \/ Accept(w, c)
      PROVE  Sessions'
  BY <1>8, AcceptSessions, CloseSessions
<1>9. CASE Exit(w)
  BY <1>9, ExitSessions
<1> QED
  BY <1>1, <1>2, <1>3, <1>5, <1>6, <1>7, <1>8, <1>9 DEF Progress, Choice

\* Clients open and end sessions, and never touch one that is between a call
\* and its token.
LEMMA ClientSessions ==
  ASSUME TypeOK, Sessions, NEW c \in Conns, Connect(c) \/ End(c) \/ SuccessorAccept(c)
  PROVE  Sessions'
<1>1. Counted' = Counted
  BY DEF Counted, TypeOK, Connect, End, SuccessorAccept
<1>2. SessionsCounted'
  BY <1>1 DEF queues, Connect, End, SuccessorAccept, Sessions, SessionsCounted
<1>3. OwnersInService'
  BY DEF pool, Connect, End, SuccessorAccept, TypeOK, Sessions, OwnersInService, Accepted,
         InService
<1> QED
  BY <1>2, <1>3 DEF Sessions

\* Steps that leave workers, tokens and sessions alone keep the count.
LEMMA UnmovedSessions ==
  ASSUME Sessions, UNCHANGED <<pool, queues, conns>>
  PROVE  Sessions'
BY DEF pool, queues, conns, Sessions, SessionsCounted, Counted, OwnersInService, Accepted,
       InService

\* The queue behind `close` is exact, for any number of workers and versions
\* and whichever workers die, as long as it never overflows.
THEOREM SessionsExact ==
  ASSUME SessionsFit
  PROVE  Spec => []Sessions
<1>1. TypeOK /\ Sessions /\ [Next]_vars => Sessions'
  <2> SUFFICES ASSUME TypeOK, Sessions, [Next]_vars PROVE Sessions'
    OBVIOUS
  <2>1. CASE UNCHANGED vars
    BY <2>1, UnmovedSessions DEF vars
  <2>2. ASSUME NEW u \in Updaters, UpdaterConnect(u) \/ UpdaterStep(u) \/ UpdaterCrash(u)
        PROVE  Sessions'
    BY <2>2, UnmovedSessions
       DEF UpdaterConnect, UpdaterStep, UpdaterSend, UpdaterReport, UpdaterCrash, SuccessorServe
  <2> QED
    BY <2>1, <2>2, SessionsFit, WorkerSessions, ClientSessions DEF Next
<1> QED
  BY <1>1, InitSessions, TypeCorrect, PTL DEF Spec

-----------------------------------------------------------------------------
(* Counting workers.                                                       *)

\* No more workers than the socket pair holds datagrams, all of them in their
\* event loop before the first update starts.
WorkersFit == Cardinality(Workers) <= QueueCap /\ ~LateStart

Active == WorkersCounted /\ LiveInLoop /\ KillerIsLast

\* No worker is in the event loop and there are no tokens at first.
LEMMA InitActive == Init => Active
<1> SUFFICES ASSUME Init PROVE Active
  OBVIOUS
<1>1. Holding = {}
  BY DEF Init, Holding, HoldPC, LoopPC
<1>2. WorkersCounted /\ KillerIsLast
  BY <1>1, FS_EmptySet DEF Init, WorkersCounted, KillerIsLast
<1>3. LiveInLoop
  BY DEF Init, LiveInLoop, LoopPC, TerminatePC
<1> QED
  BY <1>2, <1>3 DEF Active

\* A step of w, to loc, that keeps its token or its lack of one.
LEMMA SameActive ==
  ASSUME TypeOK, Active, NEW w \in Workers, NEW loc \in PC,
         pc' = [pc EXCEPT ![w] = loc], UNCHANGED <<live, wtok>>,
         \A u \in Updaters : up'[u] # "idle" => up[u] # "idle",
         pc[w] \in HoldPC <=> loc \in HoldPC,
         loc \in {"init", "activate", "peek"} => ~live[w],
         loc \in LoopPC \cup TerminatePC => live[w],
         loc = "kill" => pc[w] = "kill",
         pc[w] \in {"leaked", "gone"} => loc \in {"leaked", "gone"}
  PROVE  Active'
<1>1. Holding' = Holding
  BY DEF Holding, TypeOK
<1>2. WorkersCounted' /\ KillerIsLast'
  BY <1>1 DEF TypeOK, Active, WorkersCounted, KillerIsLast
<1>3. LiveInLoop'
  BY DEF TypeOK, Active, LiveInLoop, Started
<1> QED
  BY <1>2, <1>3 DEF Active

\* Steps that leave workers and tokens alone keep the count of workers.
LEMMA UnmovedActive ==
  ASSUME Active, UNCHANGED <<pc, live, wtok>>,
         \A u \in Updaters : up'[u] # "idle" => up[u] # "idle"
  PROVE  Active'
BY DEF Active, WorkersCounted, Holding, LiveInLoop, Started, KillerIsLast

\* A worker sends its token: nobody is about to kill the group.
LEMMA ActivateActive ==
  ASSUME WorkersFit, Basic, Active, NEW w \in Workers, Activate(w)
  PROVE  Active'
<1> USE DEF Activate, Goto
<1>1. Holding' = Holding \cup {w} /\ w \notin Holding
  BY DEF Basic, TypeOK, Holding, HoldPC, LoopPC
<1>2. /\ Cardinality(Holding \cup {w}) = Cardinality(Holding) + 1
      /\ Cardinality(Holding) < Cardinality(Workers)
  BY <1>1, CountOne, PoolConstants DEF PoolConstants, Holding
<1>3. Cardinality(Workers) \in Nat
  BY PoolConstants, FS_CardinalityType DEF PoolConstants
<1>4. wtok' = wtok + 1
  BY <1>2, <1>3, QueueLength, CapIsNat DEF Active, WorkersCounted, WorkersFit, Basic, TypeOK
<1>5. WorkersCounted'
  BY <1>1, <1>2, <1>4 DEF Active, WorkersCounted
<1>6. LiveInLoop'
  BY DEF Basic, TypeOK, Active, LiveInLoop, LoopPC, TerminatePC, upd, Started
<1>7. ~ \E v \in Workers : pc[v] = "kill"
  <2> SUFFICES ASSUME NEW v \in Workers, pc[v] = "kill" PROVE FALSE
    OBVIOUS
  <2>1. \E u \in Updaters : up[u] = "reported"
    BY DEF Basic, ReadyReported, TerminatePC
  <2> QED
    BY <2>1 DEF Active, LiveInLoop, Started
<1>8. KillerIsLast'
  BY <1>7 DEF Basic, TypeOK, KillerIsLast
<1> QED
  BY <1>5, <1>6, <1>8 DEF Active

\* A worker sees at least its own token, and becomes live.
LEMMA PeekActive ==
  ASSUME Basic, Active, NEW w \in Workers, ActivatePeek(w)
  PROVE  Active'
<1> USE DEF ActivatePeek, Goto
<1>1. w \in Holding
  BY DEF Holding, HoldPC
<1>2. wtok > 0
  BY <1>1, CountOne, PoolConstants DEF PoolConstants, Holding, Active, WorkersCounted
<1>3. Holding' = Holding
  BY DEF Basic, TypeOK, Holding, HoldPC, LoopPC
<1>4. WorkersCounted' /\ KillerIsLast'
  BY <1>3 DEF queues, Active, WorkersCounted, KillerIsLast, Basic, TypeOK
<1>5. LiveInLoop'
  BY <1>2 DEF Basic, TypeOK, Active, LiveInLoop, LoopPC, TerminatePC, upd, Started
<1> QED
  BY <1>4, <1>5 DEF Active

\* A worker takes its token.
LEMMA DeactivateActive ==
  ASSUME Basic, Active, NEW w \in Workers, Deactivate(w)
  PROVE  Active'
<1> USE DEF Deactivate, Goto
<1>1. Holding' = Holding \ {w} /\ w \in Holding
  BY DEF Basic, TypeOK, Holding, HoldPC, LoopPC
<1>2. /\ Cardinality(Holding \ {w}) = Cardinality(Holding) - 1
      /\ Cardinality(Holding) > 0
  BY <1>1, CountOne, PoolConstants DEF PoolConstants, Holding
<1>3. wtok' = wtok - 1
  BY <1>2, QueueLength DEF Active, WorkersCounted, Basic, TypeOK
<1>4. WorkersCounted' /\ KillerIsLast'
  BY <1>1, <1>2, <1>3 DEF Basic, TypeOK, Active, WorkersCounted, KillerIsLast
<1>5. LiveInLoop'
  BY DEF Basic, TypeOK, Active, LiveInLoop, LoopPC, TerminatePC, upd, Started
<1> QED
  BY <1>4, <1>5 DEF Active

\* A worker that finds no token left is the last one.
LEMMA LastActive ==
  ASSUME Basic, Active, NEW w \in Workers, LastWorker(w)
  PROVE  Active'
<1> USE DEF LastWorker, Goto
<1>1. Holding' = Holding
  BY DEF Basic, TypeOK, Holding, HoldPC, LoopPC
<1>2. wtok = 0 => Holding = {}
  BY CountOne, PoolConstants DEF PoolConstants, Holding, Active, WorkersCounted
<1>3. WorkersCounted' /\ KillerIsLast'
  BY <1>1, <1>2 DEF queues, Basic, TypeOK, Active, WorkersCounted, KillerIsLast
<1>4. LiveInLoop'
  BY DEF Basic, TypeOK, Active, LiveInLoop, LoopPC, TerminatePC, upd, Started
<1> QED
  BY <1>3, <1>4 DEF Active

\* Every step of a worker keeps the count of active workers right.
LEMMA WorkerActive ==
  ASSUME WorkersFit, Basic, Active, NEW w \in Workers, Progress(w) \/ Choice(w)
  PROVE  Active'
<1> USE DEF PC, HoldPC, LoopPC, TerminatePC, Goto, Basic, pool, queues, conns, upd
<1>0. TypeOK
  OBVIOUS
<1>1. CASE Enter(w)
  BY <1>0, <1>1, SameActive DEF Enter, Active, LiveInLoop
<1>2. CASE Activate(w) \/ ActivatePeek(w) \/ Deactivate(w) \/ LastWorker(w)
  BY <1>2, ActivateActive, PeekActive, DeactivateActive, LastActive
<1>3. CASE TerminationCheck(w) \/ Ping(w)
  BY <1>0, <1>3, SameActive DEF TerminationCheck, Ping, Active, LiveInLoop
<1>4. CASE KillGroup(w) \/ HandleWakeup(w) \/ HandleReady(w) \/ HandleComfd(w)
  BY <1>4, UnmovedActive DEF KillGroup, HandleWakeup, HandleReady, HandleComfd
<1>5. ASSUME NEW u \in Updaters, HandleMessage(w, u)
      PROVE  Active'
  BY <1>5, UnmovedActive DEF HandleMessage, Serve, MarkReady, HangUp, TypeOK
<1>6. CASE Wake(w) \/ Timeout(w) \/ Return(w) \/ Leave(w)
  BY <1>0, <1>6, SameActive DEF Wake, Timeout, Return, Leave, Entry, Active, LiveInLoop
<1>7. ASSUME NEW c \in Conns,
             CountAccept(w, c) \/ Close(w, c) \/ CountClose(w, c)
      PROVE  Active'
  BY <1>0, <1>7, SameActive DEF CountAccept, Close, CountClose, Active, LiveInLoop
<1>8. ASSUME NEW c \in Conns, Accept(w, c)
      PROVE  Active'
  <2>1. CASE AcceptCall = "accept4"
    BY <1>0, <1>8, <2>1, SameActive DEF Accept, Active, LiveInLoop
  <2>2. CASE AcceptCall # "accept4"
    BY <1>8, <2>2, UnmovedActive DEF Accept
  <2> QED
    BY <2>1, <2>2
<1>9. CASE Exit(w)
  <2> DEFINE loc == IF pc[w] \in {"peek", "deactivate"} \cup LoopPC THEN "leaked" ELSE "gone"
  <2>1. \A u \in Updaters : up'[u] # "idle" => up[u] # "idle"
    BY <1>9 DEF Exit
  <2>2. pc' = [pc EXCEPT ![w] = loc] /\ UNCHANGED <<live, wtok>>
    BY <1>9 DEF Exit
  <2>3. pc[w] \in HoldPC <=> loc \in HoldPC
    BY <1>9 DEF Exit
  <2>4. loc \in {"leaked", "gone"}
    OBVIOUS
  <2> HIDE DEF loc
  <2> QED
    BY <1>0, <2>1, <2>2, <2>3, <2>4, SameActive
<1> QED
  BY <1>1, <1>2, <1>3, <1>4, <1>5, <1>6, <1>7, <1>8, <1>9 DEF Progress, Choice

\* A newer version connects only when every worker has started.
LEMMA UpdaterActive ==
  ASSUME WorkersFit, TypeOK, Active, NEW u \in Updaters, UpdaterConnect(u) \/ UpdaterStep(u) \/ UpdaterCrash(u)
  PROVE  Active'
<1>1. CASE UpdaterConnect(u)
  BY <1>1 DEF UpdaterConnect, pool, queues, WorkersFit, Active, WorkersCounted, Holding,
              LiveInLoop, Started, KillerIsLast
<1>2. CASE UpdaterStep(u) \/ UpdaterCrash(u)
  BY <1>2, UnmovedActive
     DEF TypeOK, pool, queues, UpdaterStep, UpdaterSend, UpdaterReport, UpdaterCrash,
         SuccessorServe
<1> QED
  BY <1>1, <1>2

\* The queue behind `deactivate` counts the workers exactly, whichever of them
\* die, as long as it never overflows and no worker starts late.
THEOREM WorkersExact ==
  ASSUME WorkersFit
  PROVE  Spec => []Active
<1>1. Basic /\ Active /\ [Next]_vars => Active'
  <2> SUFFICES ASSUME Basic, Active, [Next]_vars PROVE Active'
    OBVIOUS
  <2>1. CASE UNCHANGED vars
    BY <2>1, UnmovedActive DEF vars, pool, queues, upd
  <2>2. ASSUME NEW c \in Conns, Connect(c) \/ End(c) \/ SuccessorAccept(c)
        PROVE  Active'
    BY <2>2, UnmovedActive DEF pool, queues, upd, Connect, End, SuccessorAccept
  <2>3. ASSUME NEW u \in Updaters, UpdaterConnect(u) \/ UpdaterStep(u) \/ UpdaterCrash(u)
        PROVE  Active'
    BY <2>3, WorkersFit, UpdaterActive DEF Basic
  <2>4. ASSUME NEW w \in Workers, Progress(w) \/ Choice(w)
        PROVE  Active'
    BY <2>4, WorkersFit, WorkerActive
  <2> QED
    BY <2>1, <2>2, <2>3, <2>4 DEF Next
<1> QED
  BY <1>1, InitActive, BasicInvariant, PTL DEF Spec

-----------------------------------------------------------------------------
(* The events at hand.                                                     *)

\* The library's streams are none of its signals.
LEMMA SignalsApart == Signals \cap Updaters = {}
BY PoolConstants DEF PoolConstants

\* A worker handles and returns what its own wait gave it.
LEMMA WorkerAtHand ==
  ASSUME TypeOK, EventsAtHand, NEW w \in Workers, Progress(w) \/ Choice(w)
  PROVE  EventsAtHand'
<1> USE DEF TypeOK, EventsAtHand, LoopPC, Goto, pool, queues, conns, upd
<1>1. CASE Enter(w) \/ Activate(w) \/ ActivatePeek(w)
  BY <1>1 DEF Enter, Activate, ActivatePeek
<1>2. CASE TerminationCheck(w) \/ Deactivate(w) \/ LastWorker(w) \/ Ping(w) \/ KillGroup(w)
  BY <1>2 DEF TerminationCheck, Deactivate, LastWorker, Ping, KillGroup
<1>3. CASE Wake(w)
  <2>1. Handler = "select" /\ "comfd" \in Events(w) => ~ready[w]
    BY SignalsApart DEF Signals, Comfds, Events, SelectEvents, WatchedByBoth
  <2> QED
    BY <1>3, <2>1 DEF Wake
<1>4. CASE Timeout(w)
  BY <1>4 DEF Timeout
<1>5. CASE HandleWakeup(w) \/ HandleReady(w) \/ HandleComfd(w)
  BY <1>5 DEF HandleWakeup, HandleReady, HandleComfd, Handled, InOrder
<1>6. ASSUME NEW u \in Updaters, HandleMessage(w, u)
      PROVE  EventsAtHand'
  BY <1>6 DEF HandleMessage, Handled
<1>7. CASE Return(w)
  <2>1. Handler = "select" => ev[w] \subseteq {"public", "session"}
    BY <1>7 DEF Return, Signals
  <2>2. /\ pc[w] = "handle" /\ UNCHANGED ready /\ Visible(w) \subseteq ev[w]
        /\ ev' = [ev EXCEPT ![w] = Visible(w)]
        /\ pc' = [pc EXCEPT ![w] = "app"]
             \/ (Visible(w) = {} /\ pc' = [pc EXCEPT ![w] = Entry(w)])
    BY <1>7 DEF Return, Visible, Goto
  <2>3. Entry(w) \in {"check", "activate"}
    BY DEF Entry
  <2> QED
    BY <2>1, <2>2, <2>3
<1>8. CASE Leave(w)
  BY <1>8 DEF Leave, Entry
<1>9. ASSUME NEW c \in Conns,
             CountAccept(w, c) \/ Close(w, c) \/ CountClose(w, c) \/ Accept(w, c)
      PROVE  EventsAtHand'
  BY <1>9 DEF CountAccept, Close, CountClose, Accept
<1>10. CASE Exit(w)
  BY <1>10 DEF Exit
<1> QED
  BY <1>1, <1>2, <1>3, <1>4, <1>5, <1>6, <1>7, <1>8, <1>9, <1>10 DEF Progress, Choice

\* Whatever the others do, a worker has events at hand only after its wait.
LEMMA AtHandAlways == Spec => []EventsAtHand
<1>1. Init => EventsAtHand
  BY DEF Init, EventsAtHand
<1>2. TypeOK /\ EventsAtHand /\ [Next]_vars => EventsAtHand'
  <2> SUFFICES ASSUME TypeOK, EventsAtHand, [Next]_vars PROVE EventsAtHand'
    OBVIOUS
  <2>1. CASE UNCHANGED pool
    BY <2>1 DEF pool, EventsAtHand
  <2>2. ASSUME ~UNCHANGED pool PROVE \E w \in Workers : Progress(w) \/ Choice(w)
    BY <2>2 DEF Next, vars, Connect, End, SuccessorAccept, UpdaterConnect, UpdaterStep,
                UpdaterSend, UpdaterReport, SuccessorServe, UpdaterCrash
  <2> QED
    BY <2>1, <2>2, WorkerAtHand
<1> QED
  BY <1>1, <1>2, TypeCorrect, PTL DEF Spec

\* A select() never returns a descriptor of the library to the application,
\* for any number of workers, clients and newer versions.
THEOREM SelectHidesOwn ==
  ASSUME Handler = "select"
  PROVE  Spec => []OnlyOwnEvents
<1>1. EventsAtHand => OnlyOwnEvents
  BY DEF EventsAtHand, OnlyOwnEvents
<1> QED
  BY <1>1, AtHandAlways, PTL

-----------------------------------------------------------------------------
(* The last ping.                                                          *)

\* The worker that pings is not the last: its token was not the only one.
LEMMA RunnersStay ==
  ASSUME WorkersFit, Basic, Active, SomeoneRuns, [Next]_vars
  PROVE  SomeoneRuns'
<1> USE DEF Basic, TypeOK, SomeoneRuns, Goto, pool, queues, conns, upd
<1>1. CASE UNCHANGED pc
  BY <1>1
<1>2. ASSUME ~UNCHANGED pc PROVE \E w \in Workers : Progress(w) \/ Choice(w)
  BY <1>2 DEF Next, vars, Connect, End, SuccessorAccept, UpdaterConnect, UpdaterStep,
              UpdaterSend, UpdaterReport, SuccessorServe, UpdaterCrash
<1>3. ASSUME NEW w \in Workers, LastWorker(w) PROVE SomeoneRuns'
  <2>1. pc[w] = "last" /\ pc' = [pc EXCEPT ![w] = IF wtok = 0 THEN "kill" ELSE "ping"]
    BY <1>3 DEF LastWorker
  <2>2. CASE wtok = 0
    BY <2>1, <2>2
  <2>3. CASE wtok # 0
    <3>1. PICK v \in Workers : pc[v] \in HoldPC
      BY <2>3, FS_EmptySet DEF Active, WorkersCounted, Holding
    <3>2. v # w /\ pc[v] \notin {"ping", "parked"}
      BY <2>1, <3>1 DEF HoldPC, LoopPC
    <3> QED
      BY <2>1, <3>2
  <2> QED
    BY <2>2, <2>3
<1>4. ASSUME NEW w \in Workers, Ping(w) PROVE SomeoneRuns'
  BY <1>4 DEF Ping
<1>5. ASSUME NEW w \in Workers, Progress(w) \/ Choice(w), ~LastWorker(w), ~Ping(w)
      PROVE  SomeoneRuns'
  <2>1. \E loc \in PC \ {"ping", "parked"} : pc' = [pc EXCEPT ![w] = loc] \/ UNCHANGED pc
    <3> USE DEF PC, LoopPC, TerminatePC
    <3>1. CASE Enter(w) \/ Activate(w) \/ ActivatePeek(w) \/ TerminationCheck(w)
      BY <3>1 DEF Enter, Activate, ActivatePeek, TerminationCheck
    <3>2. CASE Deactivate(w) \/ KillGroup(w) \/ Wake(w) \/ Timeout(w)
      BY <3>2 DEF Deactivate, KillGroup, Wake, Timeout
    <3>3. CASE HandleWakeup(w) \/ HandleReady(w) \/ HandleComfd(w)
      BY <3>3 DEF HandleWakeup, HandleReady, HandleComfd
    <3>4. CASE \E u \in Updaters : HandleMessage(w, u)
      BY <3>4 DEF HandleMessage
    <3>5. CASE Return(w) \/ Leave(w) \/ Exit(w)
      BY <3>5 DEF Return, Leave, Exit, Entry
    <3>6. ASSUME NEW c \in Conns,
                 CountAccept(w, c) \/ Close(w, c) \/ CountClose(w, c) \/ Accept(w, c)
          PROVE  \E loc \in PC \ {"ping", "parked"} :
                   pc' = [pc EXCEPT ![w] = loc] \/ UNCHANGED pc
      BY <3>6 DEF CountAccept, Close, CountClose, Accept
    <3> QED
      BY <1>5, <3>1, <3>2, <3>3, <3>4, <3>5, <3>6 DEF Progress, Choice
  <2> QED
    BY <2>1
<1> QED
  BY <1>1, <1>2, <1>3, <1>4, <1>5

\* Only a ping brings the group to where nobody is on its way: a worker that
\* passes the termination check does not wait, one that waits has not passed.
LEMMA PingStays ==
  ASSUME Basic, PingLeft, [Next]_vars
  PROVE  PingLeft'
<1> USE DEF Basic, TypeOK, Goto, pool, queues, conns, upd
<1> DEFINE Idle(w) == pc[w] = "parked" \/ (pc[w] = "wait" /\ Drained(w))
<1>1. ASSUME UNCHANGED <<pc, pings, sess, ready>>,
             \A u \in Updaters : link'[u] = "open" <=> link[u] = "open",
             \A u \in Updaters : link[u] = "open" => uown'[u] = uown[u]
      PROVE  PingLeft'
  <2>1. \A w \in Workers : Drained(w)' = Drained(w)
    BY <1>1 DEF Drained, Comfds
  <2> QED
    BY <1>1, <2>1 DEF PingLeft
<1>2. ASSUME UNCHANGED vars PROVE PingLeft'
  BY <1>1, <1>2 DEF vars
<1>3. ASSUME NEW c \in Conns, Connect(c) \/ End(c) \/ SuccessorAccept(c) PROVE PingLeft'
  BY <1>1, <1>3 DEF Connect, End, SuccessorAccept
<1>4. ASSUME NEW u \in Updaters, UpdaterConnect(u) \/ UpdaterStep(u) \/ UpdaterCrash(u)
      PROVE  PingLeft'
  <2>1. UNCHANGED <<pc, pings, sess, ready, uown>>
    BY <1>4 DEF UpdaterConnect, UpdaterStep, UpdaterSend, UpdaterReport, SuccessorServe,
                UpdaterCrash
  <2>2. \A v \in Updaters : link'[v] = "open" <=> link[v] = "open"
    BY <1>4 DEF LinksInService, UpdaterConnect, UpdaterStep, UpdaterSend, UpdaterReport,
                SuccessorServe, UpdaterCrash
  <2> QED
    BY <1>1, <2>1, <2>2
<1>5. ASSUME NEW w \in Workers, Ping(w) PROVE PingLeft'
  <2>1. pings' > 0
    BY <1>5, CapIsNat DEF Ping, Put
  <2> QED
    BY <2>1 DEF PingLeft
<1>6. ASSUME NEW w \in Workers, TerminationCheck(w) PROVE PingLeft'
  <2>1. ~ Idle(w)'
    BY <1>6 DEF TerminationCheck, Drained, Comfds
  <2> QED
    BY <2>1 DEF PingLeft
<1>7. ASSUME NEW w \in Workers, Progress(w) \/ Choice(w), ~Ping(w), ~TerminationCheck(w)
      PROVE  PingLeft'
  <2>1. pc'[w] \notin {"parked", "wait"}
    <3>1. CASE Enter(w) \/ Activate(w) \/ ActivatePeek(w)
      BY <3>1 DEF Enter, Activate, ActivatePeek
    <3>2. CASE Deactivate(w) \/ LastWorker(w) \/ KillGroup(w) \/ Wake(w) \/ Timeout(w)
      BY <3>2 DEF Deactivate, LastWorker, KillGroup, Wake, Timeout
    <3>3. CASE HandleWakeup(w) \/ HandleReady(w) \/ HandleComfd(w)
      BY <3>3 DEF HandleWakeup, HandleReady, HandleComfd
    <3>4. CASE \E u \in Updaters : HandleMessage(w, u)
      BY <3>4 DEF HandleMessage
    <3>5. CASE Return(w) \/ Leave(w) \/ Exit(w)
      BY <3>5 DEF Return, Leave, Exit, Entry
    <3>6. CASE \E c \in Conns :
                 CountAccept(w, c) \/ Close(w, c) \/ CountClose(w, c) \/ Accept(w, c)
      BY <3>6 DEF CountAccept, Close, CountClose, Accept
    <3> QED
      BY <1>7, <3>1, <3>2, <3>3, <3>4, <3>5, <3>6 DEF Progress, Choice
  <2>2. ~ Idle(w)'
    BY <2>1
  <2> QED
    BY <2>2 DEF PingLeft
<1> QED
  BY <1>2, <1>3, <1>4, <1>5, <1>6, <1>7 DEF Next

\* A group whose queues never overflow always has a worker that is neither parked
\* nor about to ping before it parks, though it may be a dead one; and the group
\* never waits as a whole without a ping to wake one of its workers.
THEOREM PingsSuffice ==
  ASSUME WorkersFit, Workers # {}
  PROVE  Spec => [](SomeoneRuns /\ PingLeft)
<1>1. Init => SomeoneRuns /\ PingLeft
  BY DEF Init, SomeoneRuns, PingLeft
<1>2. Basic /\ Active /\ SomeoneRuns /\ PingLeft /\ [Next]_vars => (SomeoneRuns /\ PingLeft)'
  BY WorkersFit, RunnersStay, PingStays
<1> QED
  BY <1>1, <1>2, BasicInvariant, WorkersExact, WorkersFit, PTL DEF Spec

\* No wakeup is lost, for any number of workers: a group whose queues never overflow
\* comes to a stop short of its end only if one of its workers has died.  It is the
\* safety half of GroupEnds, and says nothing of what a death leaves behind.
THEOREM WakeupsArrive ==
  ASSUME WorkersFit, Workers # {}, Handler = "epoll"
  PROVE  Spec => []NoLostWakeup
<1>1. SomeoneRuns /\ PingLeft => NoLostWakeup
  <2> SUFFICES ASSUME SomeoneRuns, PingLeft, Stopped,
                      \A w \in Workers : pc[w] \notin {"leaked", "gone"}
               PROVE  FALSE
    BY DEF NoLostWakeup
  <2>1. PICK w \in Workers : pc[w] # "parked"
    BY DEF SomeoneRuns
  <2>2. pings > 0
    BY <2>1 DEF PingLeft, Stopped, NothingLeft
  <2>3. "wakeup" \in Events(w)
    BY <2>2 DEF Events, EpollEvents, Signals
  <2> QED
    BY <2>1, <2>3 DEF Stopped, NothingLeft
<1> QED
  BY <1>1, PingsSuffice, WorkersFit, PTL

-----------------------------------------------------------------------------
(* The end of the group.                                                   *)

\* When a worker is about to kill the group no worker is in service, for it
\* holds no token any more and nobody else does.
LEMMA KillerAlone ==
  ASSUME Basic, Active, NEW k \in Workers, pc[k] = "kill", NEW w \in Workers
  PROVE  ~InService(w)
<1>1. Holding = {}
  BY DEF Active, KillerIsLast
<1>2. pc[w] \notin LoopPC \cup {"peek"}
  BY <1>1 DEF Holding, HoldPC
<1>3. \E u \in Updaters : up[u] = "reported"
  BY DEF Basic, ReadyReported, TerminatePC
<1>4. Started(w)
  BY <1>3 DEF Active, LiveInLoop
<1>5. pc[w] # "activate"
  BY <1>4 DEF Active, LiveInLoop, Started
<1> QED
  BY <1>2, <1>5 DEF InService

\* ... nor when the group has been killed.
LEMMA NobodyInService ==
  ASSUME Basic, Active, killed, NEW w \in Workers
  PROVE  ~InService(w)
BY KillerAlone DEF Basic, ReadyReported

\* In every execution whose queues never overflow and whose workers all start
\* before the first update: the whole inductive invariant, with the number of
\* tokens in each queue equal to the number of sessions and of active workers.
THEOREM InductiveCorrect ==
  ASSUME WorkersFit, SessionsFit, Workers # {}
  PROVE  Spec => []Inductive
<1>1. /\ Basic /\ Active /\ Sessions /\ SomeoneRuns /\ PingLeft /\ EventsAtHand
      => Inductive
  BY DEF Basic, Active, Sessions, Inductive
<1> QED
  BY <1>1, BasicInvariant, WorkersExact, SessionsExact, PingsSuffice, AtHandAlways,
     WorkersFit, SessionsFit, PTL

\* The two counts, as the wrappers of accept4() and close(), and the activation
\* and termination of workers, keep them.
THEOREM SessionsExactlyCounted ==
  ASSUME SessionsFit
  PROVE  Spec => []SessionsCounted
<1>1. Sessions => SessionsCounted
  BY DEF Sessions
<1> QED
  BY <1>1, SessionsExact, PTL

\* One token in the queue for every active worker, and no more.
THEOREM WorkersExactlyCounted ==
  ASSUME WorkersFit
  PROVE  Spec => []WorkersCounted
<1>1. Active => WorkersCounted
  BY DEF Active
<1> QED
  BY <1>1, WorkersExact, PTL

\* The worker that kills the group is the last one in its event loop.
THEOREM LastWorkerKills ==
  ASSUME WorkersFit
  PROVE  Spec => []KillOnlyWhenAlone
<1>1. Basic /\ Active => KillOnlyWhenAlone
  BY NobodyInService DEF KillOnlyWhenAlone, InService
<1> QED
  BY <1>1, BasicInvariant, WorkersExact, PTL

\* No newer version loses its stream because the group is killed.
THEOREM UpdatesComplete ==
  ASSUME WorkersFit
  PROVE  Spec => []NoUpdateCutOff
<1>1. Basic /\ Active => NoUpdateCutOff
  BY NobodyInService DEF NoUpdateCutOff, Basic, LinksInService
<1> QED
  BY <1>1, BasicInvariant, WorkersExact, PTL

\* No client loses its connection because the group is killed.
THEOREM ClientsComplete ==
  ASSUME WorkersFit, SessionsFit
  PROVE  Spec => []DrainedWhenKilled
<1>1. Basic /\ Active /\ Sessions => DrainedWhenKilled
  BY NobodyInService DEF DrainedWhenKilled, Sessions, OwnersInService, Accepted
<1> QED
  BY <1>1, BasicInvariant, WorkersExact, SessionsExact, WorkersFit, SessionsFit, PTL

-----------------------------------------------------------------------------
(* The group as a whole implements VersionLife.                            *)

\* A step that leaves the group, its mark, its sessions and its streams alone
\* is none of VersionLife.
LEMMA UnmovedLife ==
  ASSUME UNCHANGED <<killed, marked, link>>,
         \A c \in Conns : Accepted(c)' = Accepted(c)
  PROVE  UNCHANGED Life!life
BY DEF Life!life

\* Only a group without sessions and streams is killed.
LEMMA KillEnds ==
  ASSUME Basic, Active, Sessions, ~killed, NEW w \in Workers, KillGroup(w)
  PROVE  Life!End
<1>1. pc[w] = "kill" /\ killed' /\ UNCHANGED <<marked, st, link>>
  BY DEF KillGroup, conns, upd
<1>2. marked
  BY <1>1 DEF Basic, ReadyReported, TerminatePC
<1>3. \A c \in Conns : ~Accepted(c)
  BY <1>1, KillerAlone DEF Sessions, OwnersInService
<1>4. \A u \in Updaters : link[u] # "open"
  BY <1>1, KillerAlone DEF Basic, LinksInService
<1> QED
  BY <1>1, <1>2, <1>3, <1>4 DEF Life!End, Accepted

\* A message on a stream comes from a newer version whose stream is held.
LEMMA MessageLives ==
  ASSUME Basic, ~killed, NEW w \in Workers, NEW u \in Updaters, HandleMessage(w, u)
  PROVE  Life!Supersede(u) \/ Life!Release \/ UNCHANGED Life!life
<1>1. link[u] = "open" /\ UNCHANGED <<killed, st>>
  BY DEF Basic, EventsOwned, HandleMessage, conns
<1>2. marked \in BOOLEAN /\ link \in [Updaters -> {"none", "backlog", "open", "closed"}]
  BY DEF Basic, TypeOK
<1>3. CASE Serve(u)
  BY <1>1, <1>3, UnmovedLife DEF Serve, Accepted
<1>4. CASE MarkReady(u)
  <2>1. marked' = TRUE /\ link' = [link EXCEPT ![u] = "closed"]
    BY <1>4 DEF MarkReady, DropLink
  <2>2. CASE marked
    BY <1>1, <1>2, <2>1, <2>2 DEF Life!Release, Accepted
  <2>3. CASE ~marked
    <3>1. {v \in Updaters : link'[v] = "open"} = {v \in Updaters : link[v] = "open"} \ {u}
      BY <1>2, <2>1
    <3>2. {c \in Conns : Accepted(c)'} = {c \in Conns : Accepted(c)}
      BY <1>1 DEF Accepted
    <3> QED
      BY <1>1, <2>1, <2>3, <3>1, <3>2 DEF Life!Supersede
  <2> QED
    BY <2>2, <2>3
<1>5. CASE HangUp(u)
  <2>1. UNCHANGED marked /\ link' = [link EXCEPT ![u] = "closed"]
    BY <1>5 DEF HangUp, DropLink
  <2> QED
    BY <1>1, <1>2, <2>1 DEF Life!Release, Accepted
<1> QED
  BY <1>3, <1>4, <1>5 DEF HandleMessage

\* A step of a worker, as one of the group.
LEMMA WorkerLives ==
  ASSUME Basic, Active, Sessions, ~killed, NEW w \in Workers, Progress(w) \/ Choice(w)
  PROVE  [Life!Next]_(Life!life)
<1>0. TypeOK
  BY DEF Basic
<1> USE <1>0 DEF pool, queues, conns, upd
<1>1. CASE Enter(w) \/ Activate(w) \/ ActivatePeek(w) \/ TerminationCheck(w)
  BY <1>1, UnmovedLife DEF Enter, Activate, ActivatePeek, TerminationCheck, Accepted
<1>2. CASE Deactivate(w) \/ LastWorker(w) \/ Ping(w)
  BY <1>2, UnmovedLife DEF Deactivate, LastWorker, Ping, Accepted
<1>3. CASE KillGroup(w)
  BY <1>3, KillEnds DEF Life!Next
<1>4. CASE Wake(w) \/ Timeout(w) \/ Return(w) \/ Leave(w)
  BY <1>4, UnmovedLife DEF Wake, Timeout, Return, Leave, Accepted
<1>5. CASE HandleWakeup(w) \/ HandleReady(w)
  BY <1>5, UnmovedLife DEF HandleWakeup, HandleReady, Accepted
<1>6. CASE HandleComfd(w)
  <2>1. CASE UNCHANGED upd
    BY <1>6, <2>1, UnmovedLife DEF HandleComfd, Accepted
  <2>2. ASSUME NEW u \in Updaters, link' = [link EXCEPT ![u] = "open"]
        PROVE  Life!Attach(u)
    <3>1. {v \in Updaters : link'[v] = "open"} = {v \in Updaters : link[v] = "open"} \cup {u}
      BY <2>2 DEF TypeOK
    <3>2. {c \in Conns : Accepted(c)'} = {c \in Conns : Accepted(c)}
      BY <1>6 DEF HandleComfd, Accepted
    <3> QED
      BY <1>6, <3>1, <3>2 DEF HandleComfd, Life!Attach
  <2> QED
    BY <1>6, <2>1, <2>2 DEF HandleComfd, Life!Next
<1>7. ASSUME NEW u \in Updaters, HandleMessage(w, u)
      PROVE  [Life!Next]_(Life!life)
  BY <1>7, MessageLives DEF Life!Next
<1>8. ASSUME NEW c \in Conns, Accept(w, c)
      PROVE  [Life!Next]_(Life!life)
  <2>1. \E s \in {"accepted", "open"} : st' = [st EXCEPT ![c] = s]
    BY <1>8 DEF Accept
  <2>2. {d \in Conns : Accepted(d)'} = {d \in Conns : Accepted(d)} \cup {c}
    BY <2>1 DEF TypeOK, Accepted
  <2>3. Life!Admit(c)
    BY <1>8, <2>2 DEF Accept, Life!Admit
  <2> QED
    BY <2>3 DEF Life!Next
<1>9. ASSUME NEW c \in Conns, CountAccept(w, c) \/ Close(w, c)
      PROVE  [Life!Next]_(Life!life)
  <2>1. UNCHANGED <<killed, marked, link>>
    BY <1>9 DEF CountAccept, Close
  <2>2. \A d \in Conns : Accepted(d)' = Accepted(d)
    BY <1>9 DEF CountAccept, Close, TypeOK, Accepted
  <2> QED
    BY <2>1, <2>2, UnmovedLife
<1>10. ASSUME NEW c \in Conns, CountClose(w, c)
       PROVE  [Life!Next]_(Life!life)
  <2>1. UNCHANGED <<killed, marked, link>> /\ st' = [st EXCEPT ![c] = "free"]
    BY <1>10 DEF CountClose
  <2>2. Life!Release
    BY <2>1 DEF TypeOK, Accepted, Life!Release
  <2> QED
    BY <2>2 DEF Life!Next
<1>11. CASE Exit(w)
  <2>1. \A u \in Updaters : link'[u] = "open" => link[u] = "open"
    BY <1>11 DEF Exit
  <2>2. \A c \in Conns : Accepted(c)' => Accepted(c)
    BY <1>11 DEF Exit, Accepted
  <2>3. Life!Release
    BY <1>11, <2>1, <2>2 DEF Exit, Life!Release
  <2> QED
    BY <2>3 DEF Life!Next
<1> QED
  BY <1>1, <1>2, <1>3, <1>4, <1>5, <1>6, <1>7, <1>8, <1>9, <1>10, <1>11
     DEF Progress, Choice

\* Clients and newer versions do not move the life of the group by themselves:
\* a session is accepted, a stream taken, by one of its workers.
LEMMA OthersLive ==
  ASSUME Basic,
         \/ UNCHANGED vars
         \/ \E c \in Conns : Connect(c) \/ End(c) \/ SuccessorAccept(c)
         \/ \E u \in Updaters : UpdaterConnect(u) \/ UpdaterStep(u) \/ UpdaterCrash(u)
  PROVE  UNCHANGED Life!life
<1>0. TypeOK
  BY DEF Basic
<1> USE <1>0 DEF pool, queues, conns, upd
<1>1. CASE UNCHANGED vars
  BY <1>1, UnmovedLife DEF vars, Accepted
<1>2. ASSUME NEW c \in Conns, Connect(c) \/ End(c) \/ SuccessorAccept(c)
      PROVE  UNCHANGED Life!life
  <2>1. \A d \in Conns : Accepted(d)' = Accepted(d)
    BY <1>2 DEF TypeOK, Connect, End, SuccessorAccept, Accepted
  <2>2. UNCHANGED <<killed, marked, link>>
    BY <1>2 DEF Connect, End, SuccessorAccept
  <2> QED
    BY <2>1, <2>2, UnmovedLife
<1>3. ASSUME NEW u \in Updaters,
             UpdaterConnect(u) \/ UpdaterSend(u) \/ UpdaterReport(u)
               \/ SuccessorServe(u) \/ UpdaterCrash(u)
      PROVE  UNCHANGED Life!life
  <2>1. UNCHANGED <<killed, marked, st>>
    BY <1>3 DEF UpdaterConnect, UpdaterSend, UpdaterReport, SuccessorServe, UpdaterCrash
  <2>2. \A v \in Updaters : (link'[v] = "open") = (link[v] = "open")
    BY <1>3 DEF TypeOK, Basic, LinksInService, UpdaterConnect, UpdaterSend, UpdaterReport,
                SuccessorServe, UpdaterCrash
  <2> QED
    BY <2>1, <2>2 DEF Life!life, Accepted
<1> QED
  BY <1>1, <1>2, <1>3 DEF UpdaterStep

\* The group lives as one, for any number of workers, clients and newer
\* versions, whichever workers die: WorkerPool implements VersionLife.
THEOREM GroupImplementsLife ==
  ASSUME WorkersFit, SessionsFit
  PROVE  Spec => LivesAsOne
<1>1. Init => Life!Init
  BY DEF Init, Life!Init, Accepted
<1>2. Basic /\ Active /\ Sessions /\ [Next]_vars => [Life!Next]_(Life!life)
  BY WorkerLives, OthersLive DEF Next
<1> QED
  BY <1>1, <1>2, BasicInvariant, WorkersExact, SessionsExact, WorkersFit, SessionsFit, PTL
     DEF Spec, LivesAsOne, Life!Spec

=============================================================================
