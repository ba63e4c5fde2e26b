------------------------- MODULE ShadowSocketsProofs -------------------------
(* Theorems about ShadowSockets, for any ports and any number of sockets. *)
EXTENDS ShadowSockets, FiniteSetTheorems, SequenceTheorems, TLAPS

\* The program does not close a bound socket, gives up if bind() fails, and does
\* not serve port 1.
Careful == "close" \notin Allowed /\ "fails" \notin Allowed /\ 1 \notin Ports

\* Types of what the proofs look at.
Types ==
  /\ fds \in [Fds -> Things]
  /\ binds \in Seq(Entries)
  /\ tokens \in Nat /\ entry \in Nat
  /\ at = "handle" => entry \in DOMAIN binds
  /\ older \subseteq Older
  /\ newer \in [Updates -> Stages]
  /\ given \in [Updates -> Things]

\* Kinds and ports of things.
LEMMA ThingFacts ==
  /\ Free \in Things /\ Session \in Things /\ Free[2] = 0 /\ Session[2] = 0
  /\ \A k \in {"stream", "dgram"}, p \in Ports \cup {0} :
       <<k, p>> \in Things /\ <<k, p>>[2] = p
  /\ \A p \in Ports : p # 0 /\ p \in Nat
BY ShadowConstants DEF Free, Session, Things, ShadowConstants

\* What is in an entry.
LEMMA EntryFacts ==
  ASSUME Types
  PROVE  \A i \in DOMAIN binds :
           binds[i] \in Entries /\ binds[i].fd \in Fds /\ binds[i].port \in Ports
<1>1. \A i \in DOMAIN binds : binds[i] \in Entries
  <2> HIDE DEF Entries
  <2> QED BY DEF Types
<1>2. \A e \in Entries : e.fd \in Fds /\ e.port \in Ports
  BY DEF Entries
<1> QED
  BY <1>1, <1>2

\* A newer version asks for a port, and its message says for which.
LEMMA UpdateFacts ==
  \A u \in Updates : /\ u[1] \in Ports /\ u[2] \in Nat /\ u = <<u[1], u[2]>>
                     /\ Message(u)[1] = "message" /\ Message(u)[2] = u[1]
BY ShadowConstants DEF Message, ShadowConstants

\* Who has been heard stays heard.
LEMMA HeardGrows ==
  ASSUME \A u \in Updates : newer[u] = "done" => newer'[u] = "done"
  PROVE  \A p : Heard(p) # {} => Heard(p)' # {}
BY DEF Heard

\* Nothing has been opened yet.
LEMMA InitFaithful == Init => Types /\ Inductive
<1> SUFFICES ASSUME Init PROVE Types /\ Inductive
  OBVIOUS
<1>1. Types
  BY ThingFacts, ShadowConstants DEF Init, Types, Stages, ShadowConstants
<1>2. binds = <<>> /\ DOMAIN binds = {}
  BY DEF Init
<1>3. EntriesTrue /\ Entered /\ EventsTrue /\ RightSocket
  BY <1>2, ThingFacts DEF Init, EntriesTrue, Entered, EventsTrue, RightSocket
<1> QED
  BY <1>1, <1>3 DEF Inductive

\* Sockets that are not bound come and go without an entry noticing.
LEMMA Unnoticed ==
  ASSUME Types, Inductive, NEW fd \in Fds, NEW t \in Things, t[2] = 0, fds[fd][2] = 0,
         fds' = [fds EXCEPT ![fd] = t], at' # "handle", tokens' \in Nat,
         UNCHANGED <<binds, entry, older, newer, given>>
  PROVE  Types' /\ Inductive'
<1>0. \A i \in DOMAIN binds : binds[i] \in Entries /\ binds[i].fd \in Fds /\ binds[i].port \in Ports
  BY EntryFacts
<1>1. Types'
  BY DEF Types
<1>2. \A i \in DOMAIN binds : binds[i].fd # fd
  BY <1>0, ThingFacts DEF Inductive, EntriesTrue
<1>3. EntriesTrue'
  BY <1>0, <1>2 DEF Inductive, EntriesTrue, Types, Heard
<1>4. Entered'
  BY DEF Inductive, Entered, HoldsName, Types
<1>5. EventsTrue' /\ RightSocket'
  BY DEF Inductive, EventsTrue, RightSocket
<1> QED
  BY <1>1, <1>3, <1>4, <1>5 DEF Inductive

\* bind() gives the socket its port and an entry of its own.
LEMMA BindFaithful ==
  ASSUME Types, Inductive, Careful, NEW fd \in Fds, NEW p \in Ports, Bind(fd, p)
  PROVE  Types' /\ Inductive'
<1>0. \A i \in DOMAIN binds : binds[i] \in Entries /\ binds[i].fd \in Fds /\ binds[i].port \in Ports
  BY EntryFacts
<1>1. /\ fds[fd] \in {"stream", "dgram"} \X {0} /\ at = "app"
      /\ UNCHANGED <<tokens, entry, older, newer, given>>
  BY DEF Bind, Called
<1>2. CASE at' = "stuck" /\ UNCHANGED <<fds, sockets, binds>>
  BY <1>1, <1>2 DEF Types, Inductive, EntriesTrue, Entered, EventsTrue, RightSocket, HoldsName, Heard
<1>3. ASSUME NEW o \in BOOLEAN, Transfer(fd, p, o),
             fds' = [fds EXCEPT ![fd] = <<@[1], p>>], UNCHANGED at
      PROVE  Types' /\ Inductive'
  <2> DEFINE new == [fd |-> fd, port |-> p, owes |-> o, ready |-> FALSE]
  <2>1. new \in Entries /\ binds' = Append(binds, new)
    BY <1>3 DEF Entries, Transfer
  <2>2. /\ binds' \in Seq(Entries) /\ DOMAIN binds' = DOMAIN binds \cup {Len(binds) + 1}
        /\ binds'[Len(binds) + 1] = new /\ Len(binds) + 1 \notin DOMAIN binds
        /\ \A i \in DOMAIN binds : binds'[i] = binds[i]
    BY <2>1 DEF Types
  <2>3. fds[fd][1] \in {"stream", "dgram"} /\ fds[fd][2] = 0
    BY <1>1
  <2>4. <<fds[fd][1], p>> \in Things /\ <<fds[fd][1], p>>[2] = p
    BY <2>3, ThingFacts
  <2>5. fds' \in [Fds -> Things] /\ fds'[fd][2] = p /\ \A f \in Fds \ {fd} : fds'[f] = fds[f]
    BY <1>3, <2>4 DEF Types
  <2>6. Types'
    BY <1>1, <1>3, <2>2, <2>5 DEF Types
  <2>7. \A i \in DOMAIN binds : binds[i].fd # fd
    BY <1>0, <2>3, ThingFacts DEF Inductive, EntriesTrue
  <2>8. EntriesTrue'
    BY <1>0, <1>1, <2>2, <2>5, <2>7 DEF Inductive, EntriesTrue, Heard
  <2>9. Entered'
    <3>1. ASSUME NEW f \in Fds, fds'[f][2] # 0
          PROVE  \E i \in DOMAIN binds' : binds'[i].fd = f /\ binds'[i].port = fds'[f][2]
      BY <2>2, <2>5, <3>1 DEF Inductive, Entered
    <3>2. \A q \in Older \ older : HoldsName(q)'
      BY <1>1, <2>2 DEF Inductive, Entered, HoldsName
    <3> QED
      BY <1>1, <3>1, <3>2 DEF Entered
  <2>10. EventsTrue' /\ RightSocket'
    BY <1>1, <1>3 DEF Inductive, EventsTrue, RightSocket
  <2> QED
    BY <2>6, <2>8, <2>9, <2>10 DEF Inductive
<1>4. \/ Inherit(fd, p) \/ BindOwn(fd, p)
      \/ at' = "stuck" /\ UNCHANGED <<fds, sockets, binds>>
  BY DEF Bind
<1> QED
  BY <1>2, <1>3, <1>4 DEF Inherit, BindOwn, Careful

\* The events of one entry are handled for what they mean.
LEMMA HandleFaithful ==
  ASSUME Types, Inductive, Careful, Handle
  PROVE  Types' /\ Inductive'
<1> DEFINE e       == binds[entry]
           p       == e.port
           places  == {k \in DOMAIN events : Handles(e, k)}
           handled == {events[k] : k \in places}
           heard   == <<"readyfd", p>> \in handled
<1>0. \A i \in DOMAIN binds : binds[i] \in Entries /\ binds[i].fd \in Fds /\ binds[i].port \in Ports
  BY EntryFacts
<1>1. /\ at = "handle" /\ entry \in DOMAIN binds
      /\ UNCHANGED <<fds, tokens>>
  BY DEF Handle, Types
<1>2. /\ older' = IF e.owes THEN older \ {p} ELSE older
      /\ binds' = [binds EXCEPT ![entry].owes = FALSE, ![entry].ready = @ \/ heard]
      /\ newer' = [u \in Updates |-> IF u \in Accepted(p, handled) THEN "asking"
                                    ELSE IF Message(u) \in handled THEN After(u)
                                    ELSE newer[u]]
      /\ given' = [u \in Updates |->
                     IF Message(u) \in handled /\ Asks(u) THEN Sent(e) ELSE given[u]]
      /\ events' = [k \in DOMAIN events |-> IF k \in places THEN Gone ELSE events[k]]
  BY DEF Handle
<1>3. p \in Ports /\ e.fd \in Fds /\ fds[e.fd][2] = p
  BY <1>0, <1>1 DEF Inductive, EntriesTrue
\* What the events that it takes say.
<1>4. \A u \in Updates : Message(u) \in handled => u[1] = p /\ newer[u] \in {"asking", "reported"}
  <2> SUFFICES ASSUME NEW u \in Updates, NEW k \in DOMAIN events, Handles(e, k), events[k] = Message(u)
      PROVE  u[1] = p /\ newer[u] \in {"asking", "reported"}
    OBVIOUS
  <2>1. u[1] = p
    BY UpdateFacts DEF Handles
  <2> QED
    BY <1>1, <2>1 DEF Inductive, EventsTrue
<1>5. heard => Heard(p) # {}
  BY <1>1, <1>3 DEF Inductive, EventsTrue
<1>6. \A u \in Accepted(p, handled) : newer[u] = "connected"
  BY DEF Accepted, Backlog
<1>7. \A k \in DOMAIN events, u \in Updates :
        events[k] = Message(u) /\ u[1] = p => k \in places
  BY UpdateFacts DEF Handles
<1>8. \A k \in DOMAIN events : k \in places => events[k] \in handled
  OBVIOUS
<1> HIDE DEF places, handled, heard
\* How each newer version gets further, and what it has then.
<1>9. ASSUME NEW u \in Updates
      PROVE  /\ newer'[u] \in Stages
             /\ newer[u] = "done" => newer'[u] = "done"
             /\ newer'[u] \in {"served", "reported", "done"} => given'[u][2] = u[1]
  <2>1. newer[u] \in Stages
    BY DEF Types
  <2>2. newer[u] \in {"served", "reported", "done"} => given[u][2] = u[1]
    BY DEF Inductive, RightSocket
  <2>3. /\ newer'[u] = IF u \in Accepted(p, handled) THEN "asking"
                       ELSE IF Message(u) \in handled THEN After(u) ELSE newer[u]
        /\ given'[u] = IF Message(u) \in handled /\ Asks(u) THEN fds[e.fd] ELSE given[u]
    BY <1>2 DEF Sent
  <2>4. CASE u \in Accepted(p, handled)
    <3>1. newer[u] = "connected" /\ newer'[u] = "asking"
      BY <1>6, <2>3, <2>4
    <3> QED
      BY <3>1 DEF Stages
  <2>5. CASE u \notin Accepted(p, handled) /\ Message(u) \in handled
    <3>1. u[1] = p /\ newer[u] \in {"asking", "reported"}
      BY <1>4, <2>5
    <3>2. Asks(u) <=> newer[u] = "asking"
      BY <1>3, <3>1 DEF Asks, Careful
    <3>3. newer'[u] = IF newer[u] = "asking" THEN "served" ELSE "done"
      BY <2>3, <2>5, <3>2 DEF After
    <3> QED
      BY <1>3, <2>2, <2>3, <2>5, <3>1, <3>2, <3>3 DEF Stages
  <2>6. CASE u \notin Accepted(p, handled) /\ Message(u) \notin handled
    BY <2>1, <2>2, <2>3, <2>6
  <2> QED
    BY <2>4, <2>5, <2>6
<1>done. \A q : Heard(q) # {} => Heard(q)' # {}
  BY <1>9, HeardGrows
<1>10. /\ binds' \in Seq(Entries) /\ DOMAIN binds' = DOMAIN binds
       /\ \A i \in DOMAIN binds :
            /\ binds'[i].fd = binds[i].fd /\ binds'[i].port = binds[i].port
            /\ binds'[i].ready => binds[i].ready \/ (binds[i].port = p /\ heard)
  <2> DEFINE new == [e EXCEPT !.owes = FALSE, !.ready = @ \/ heard]
  <2>1. new \in Entries /\ new.fd = e.fd /\ new.port = p /\ (new.ready => e.ready \/ heard)
    BY <1>0, <1>1 DEF Entries, heard
  <2>2. binds' = [binds EXCEPT ![entry] = new]
    BY <1>1, <1>2 DEF Types
  <2> HIDE DEF new, Entries
  <2>3. binds' \in Seq(Entries) /\ DOMAIN binds' = DOMAIN binds
    BY <1>1, <2>1, <2>2 DEF Types
  <2>4. binds'[entry] = new /\ \A i \in DOMAIN binds : i # entry => binds'[i] = binds[i]
    BY <1>1, <2>2 DEF Types
  <2>5. /\ binds'[entry].fd = e.fd /\ binds'[entry].port = e.port
        /\ binds'[entry].ready => e.ready \/ heard
    BY <2>1, <2>4
  <2> QED
    BY <2>3, <2>4, <2>5
<1>11. Types'
  <2>1. newer' \in [Updates -> Stages]
    BY <1>2, <1>9
  <2>2. given' \in [Updates -> Things]
    <3>1. Sent(e) \in Things
      BY <1>3 DEF Types, Sent
    <3> QED
      BY <1>2, <3>1 DEF Types
  <2>3. entry' \in Nat /\ (at' = "handle" => entry' \in DOMAIN binds)
    <3>1. DOMAIN binds = 1..Len(binds) /\ Len(binds) \in Nat /\ entry \in Nat
      BY DEF Types
    <3> QED
      BY <3>1 DEF Handle, Advance
  <2>4. older' \subseteq Older
    BY <1>2 DEF Types
  <2> QED
    BY <1>1, <1>10, <2>1, <2>2, <2>3, <2>4 DEF Types
<1>12. EntriesTrue'
  <2> SUFFICES ASSUME NEW i \in DOMAIN binds
      PROVE  /\ fds'[binds'[i].fd][2] = binds'[i].port
             /\ binds'[i].ready => Heard(binds[i].port)' # {}
    BY <1>10 DEF EntriesTrue, Heard
  <2>1. /\ fds' = fds
        /\ binds'[i].fd = binds[i].fd /\ binds'[i].port = binds[i].port
    BY <1>1, <1>10
  <2>2. fds[binds[i].fd][2] = binds[i].port /\ (binds[i].ready => Heard(binds[i].port) # {})
    BY DEF Inductive, EntriesTrue
  <2>3. binds'[i].ready => Heard(binds[i].port) # {}
    BY <1>5, <1>10, <2>2
  <2>4. Heard(binds[i].port) # {} => \E u \in Updates : u[1] = binds[i].port /\ newer'[u] = "done"
    BY <1>9 DEF Heard
  <2>5. binds'[i].port = binds[i].port
    BY <2>1
  <2> QED
    BY <2>1, <2>2, <2>3, <2>4, <2>5 DEF Heard
<1>13. Entered'
  <2>1. \A q \in Ports : HoldsName(q) => HoldsName(q)'
    BY <1>10 DEF HoldsName
  <2>2. HoldsName(p)
    BY <1>1 DEF HoldsName
  <2>3. \A q \in Older \ older' : HoldsName(q)'
    BY <1>2, <1>3, <2>1, <2>2, ShadowConstants DEF Inductive, Entered, ShadowConstants
  <2>4. ASSUME NEW f \in Fds, fds'[f][2] # 0
        PROVE  \E i \in DOMAIN binds' : binds'[i].fd = f /\ binds'[i].port = fds'[f][2]
    <3>1. fds' = fds
      BY <1>1
    <3>2. PICK i \in DOMAIN binds : binds[i].fd = f /\ binds[i].port = fds[f][2]
      BY <2>4, <3>1 DEF Inductive, Entered
    <3>3. binds'[i].fd = f /\ binds'[i].port = fds[f][2] /\ i \in DOMAIN binds'
      BY <1>10, <3>2
    <3> QED
      BY <3>1, <3>3
  <2> QED
    BY <2>3, <2>4 DEF Entered
<1>14. EventsTrue'
  <2>1. ASSUME NEW k \in DOMAIN events, NEW u \in Updates, events'[k] = Message(u)
        PROVE  newer'[u] \in {"asking", "reported"}
    <3>1. k \notin places /\ events[k] = Message(u)
      BY <1>2, <2>1, UpdateFacts DEF Gone
    <3>2. newer[u] \in {"asking", "reported"}
      BY <1>1, <3>1 DEF Inductive, EventsTrue
    <3>3. u \notin Accepted(p, handled) /\ Message(u) \notin handled
      BY <1>4, <1>6, <1>7, <3>1, <3>2
    <3>4. newer'[u] = newer[u]
      BY <1>2, <3>3
    <3> QED
      BY <3>2, <3>4
  <2>2. ASSUME NEW k \in DOMAIN events, NEW q \in Ports, events'[k] = <<"readyfd", q>>
        PROVE  Heard(q)' # {}
    <3>1. events[k] = <<"readyfd", q>>
      BY <1>2, <2>2 DEF Gone
    <3>2. Heard(q) # {}
      BY <1>1, <3>1 DEF Inductive, EventsTrue
    <3> QED
      BY <1>done, <3>2
  <2>3. DOMAIN events' = DOMAIN events
    BY <1>2
  <2> QED
    BY <2>1, <2>2, <2>3 DEF EventsTrue
<1>15. RightSocket'
  BY <1>9 DEF RightSocket
<1> QED
  BY <1>11, <1>12, <1>13, <1>14, <1>15 DEF Inductive

\* What the kernel returns is readable.
LEMMA BatchFacts ==
  ASSUME NEW b \in Batches
  PROVE  \A k \in DOMAIN b : b[k] \in Readable
BY DEF Batches, SetToSeqs

\* epoll_wait() changes nothing but the events and where the program stands.
LEMMA WaitFaithful ==
  ASSUME Types, Inductive, EpollWait \/ Correct \/ Deliver \/ Return
  PROVE  Types' /\ Inductive'
<1>1. UNCHANGED <<fds, binds, tokens, older, newer, given>>
  BY DEF EpollWait, Correct, Deliver, Return
<1>2. entry' \in Nat /\ (at' = "handle" => entry' \in DOMAIN binds)
  <2>1. binds # <<>> => 1 \in DOMAIN binds
    BY DEF Types
  <2> QED
    BY <2>1 DEF EpollWait, Correct, Compact, Deliver, Return, Types
<1>3. Types'
  BY <1>1, <1>2 DEF Types
<1>4. EntriesTrue' /\ Entered' /\ RightSocket'
  BY <1>1 DEF Inductive, EntriesTrue, Entered, RightSocket, HoldsName, Heard
<1>5. EventsTrue'
  <2>1. CASE EpollWait \/ Correct \/ Deliver
    <3>1. at' # "handle"
      BY <2>1 DEF EpollWait, Correct, Deliver
    <3> QED
      BY <3>1 DEF EventsTrue
  <2>2. CASE Return
    <3>1. PICK b \in Batches : events' = b
      BY <2>2 DEF Return
    <3>2. \A k \in DOMAIN b : b[k] \in Readable
      BY BatchFacts
    <3>3. ASSUME NEW x \in Readable, x[1] # "own"
          PROVE  /\ \A u \in Updates : x = Message(u) => newer[u] \in {"asking", "reported"}
                 /\ \A p \in Ports : x = <<"readyfd", p>> => Heard(p) # {}
      <4>1. PICK i \in DOMAIN binds : x \in Internal(binds[i])
        BY <3>3 DEF Readable
      <4>2. CASE x[1] = "message"
        <5>1. PICK v \in Updates : x = Message(v) /\ newer[v] \in {"asking", "reported"}
          BY <4>1, <4>2 DEF Internal
        <5>2. \A u \in Updates : x = Message(u) => u = v
          BY <5>1, UpdateFacts DEF Message
        <5> QED
          BY <4>2, <5>1, <5>2
      <4>3. CASE x[1] # "message"
        <5>1. x \in {"comfd", "readyfd"} \X {binds[i].port}
          BY <4>1, <4>3, UpdateFacts DEF Internal
        <5>2. x[1] = "readyfd" => Heard(binds[i].port) # {}
          BY <4>1, <4>3, UpdateFacts DEF Internal
        <5> QED
          BY <4>3, <5>1, <5>2, UpdateFacts
      <4> QED
        BY <4>2, <4>3
    <3>4. \A u \in Updates : Message(u)[1] # "own"
      BY UpdateFacts
    <3> QED
      BY <1>1, <3>1, <3>2, <3>3, <3>4 DEF EventsTrue, Heard
  <2> QED
    BY <2>1, <2>2
<1> QED
  BY <1>3, <1>4, <1>5 DEF Inductive

\* A newer version moves by itself only where no event speaks of it.
LEMMA NewerFaithful ==
  ASSUME Types, Inductive, NEW u \in Updates, Ask(u) \/ Announce(u) \/ AskElsewhere(u)
  PROVE  Types' /\ Inductive'
<1>1. /\ UNCHANGED <<fds, binds, tokens, at, entry, events, older, given>>
      /\ \/ newer[u] = "none" /\ newer' = [newer EXCEPT ![u] = "connected"]
         \/ newer[u] = "served" /\ newer' = [newer EXCEPT ![u] = "reported"]
         \/ newer[u] = "connected" /\ newer' = [newer EXCEPT ![u] = "elsewhere"]
  BY DEF Ask, Announce, AskElsewhere, Moves
<1>2. newer' \in [Updates -> Stages] /\ \A v \in Updates \ {u} : newer'[v] = newer[v]
  BY <1>1 DEF Types, Stages
<1>3. Types'
  BY <1>1, <1>2 DEF Types
<1>4. newer[u] # "done" /\ newer[u] \notin {"asking", "reported"}
  BY <1>1
<1>5. \A q : Heard(q) # {} => Heard(q)' # {}
  BY <1>2, <1>4, HeardGrows
<1>6. EntriesTrue' /\ Entered'
  <2>1. ASSUME NEW i \in DOMAIN binds, binds[i].ready
        PROVE  Heard(binds[i].port)' # {}
    BY <1>1, <1>2, <1>4, <2>1 DEF Inductive, EntriesTrue, Heard
  <2> QED
    BY <1>1, <2>1 DEF Inductive, EntriesTrue, Entered, HoldsName
<1>7. EventsTrue'
  BY <1>1, <1>2, <1>4, <1>5 DEF Inductive, EventsTrue
<1>8. RightSocket'
  <2>1. newer'[u] \in {"served", "reported", "done"} => newer[u] = "served"
    BY <1>1 DEF Types
  <2> QED
    BY <1>1, <1>2, <2>1 DEF Inductive, RightSocket
<1> QED
  BY <1>3, <1>6, <1>7, <1>8 DEF Inductive

\* Every step keeps entries, events and the newer version's socket right.
LEMMA FaithfulStep ==
  ASSUME Types, Inductive, Careful, [Next]_vars
  PROVE  Types' /\ Inductive'
<1>1. ASSUME NEW fd \in Fds, NEW kind \in {"stream", "dgram"}, Socket(fd, kind)
      PROVE  Types' /\ Inductive'
  <2>1. fds[fd] = Free /\ fds' = [fds EXCEPT ![fd] = <<kind, 0>>]
    BY <1>1 DEF Socket, Open, Lowest
  <2>2. at' # "handle" /\ tokens' \in Nat /\ UNCHANGED <<binds, entry, older, newer, given>>
    BY <1>1 DEF Socket, Called, Types
  <2> QED
    BY <2>1, <2>2, ThingFacts, Unnoticed
<1>2. ASSUME NEW fd \in Fds, NEW p \in Ports, Bind(fd, p)
      PROVE  Types' /\ Inductive'
  BY <1>2, BindFaithful
<1>3. ASSUME NEW fd \in Fds, NEW listener \in Fds, Accept4(listener, fd)
      PROVE  Types' /\ Inductive'
  <2>1. fds[fd] = Free /\ fds' = [fds EXCEPT ![fd] = Session]
    BY <1>3 DEF Accept4, Open, Lowest
  <2>2. at' # "handle" /\ tokens' \in Nat /\ UNCHANGED <<binds, entry, older, newer, given>>
    BY <1>3 DEF Accept4, Called, Types
  <2> QED
    BY <2>1, <2>2, ThingFacts, Unnoticed
<1>4. ASSUME NEW fd \in Fds, Close(fd)
      PROVE  Types' /\ Inductive'
  <2>1. fds[fd][2] = 0 /\ fds' = [fds EXCEPT ![fd] = Free]
    BY <1>4 DEF Close, Careful
  <2>2. at' # "handle" /\ tokens' \in Nat /\ UNCHANGED <<binds, entry, older, newer, given>>
    BY <1>4 DEF Close, TakeToken, Called, Types
  <2> QED
    BY <2>1, <2>2, ThingFacts, Unnoticed
<1>5. CASE UNCHANGED vars
  BY <1>5 DEF vars, Types, Inductive, EntriesTrue, Entered, EventsTrue, RightSocket, HoldsName, Heard
<1> QED
  BY <1>1, <1>2, <1>3, <1>4, <1>5, HandleFaithful, WaitFaithful, NewerFaithful DEF Next

LEMMA FaithfulAlways == Careful => (Spec => [](Types /\ Inductive))
<1> SUFFICES ASSUME Careful PROVE Spec => [](Types /\ Inductive)
  OBVIOUS
<1>1. Types /\ Inductive /\ [Next]_vars => (Types /\ Inductive)'
  BY FaithfulStep
<1> QED
  BY <1>1, InitFaithful, PTL DEF Spec

\* The inductive invariant: entries say the truth about the sockets they name and
\* about the newer version, and every bound socket has one.
THEOREM EntriesFaithful == Careful => (Spec => []Inductive)
BY FaithfulAlways, PTL

\* A program that is careful never sends a newer version a wrong socket, however
\* many ports it has and however their calls and events interleave
\* (dsu_handle_conn_epoll, dsu_write_fd).
THEOREM ShadowsFaithful == Careful => (Spec => []RightSocket)
<1>1. Types /\ Inductive => RightSocket
  BY DEF Inductive
<1> QED
  BY <1>1, FaithfulAlways, PTL

\* ... and never takes a port away from the older version without serving it
\* (dsu_inherit_fd, dsu_handle_conn_epoll).
THEOREM ReportsTruthful == Careful => (Spec => []TruthfulReport)
<1>1. Types /\ Inductive => TruthfulReport
  <2> SUFFICES ASSUME Types, Inductive, NEW p \in Older \ older
      PROVE  \E fd \in Fds : fds[fd][2] = p
    BY DEF TruthfulReport
  <2>1. PICK i \in DOMAIN binds : binds[i].port = p
    BY DEF Inductive, Entered, HoldsName
  <2>2. binds[i].fd \in Fds /\ fds[binds[i].fd][2] = p
    BY <2>1, EntryFacts DEF Inductive, EntriesTrue
  <2> QED
    BY <2>2
<1> QED
  BY <1>1, FaithfulAlways, PTL

\* The program waits for events only once it serves a port, and closes stream
\* sockets only if they are sessions.
Orderly == Careful /\ "early" \notin Allowed /\ "unbound" \notin Allowed

Sessions == {fd \in Fds : fds[fd] = Session}

\* Each open session holds one token.
Counted == tokens = Cardinality(Sessions)

LEMMA SessionsFinite == IsFiniteSet(Sessions) /\ Cardinality(Sessions) \in Nat
<1>1. IsFiniteSet(Fds)
  BY FS_Interval, ShadowConstants DEF Fds, ShadowConstants
<1>2. IsFiniteSet(Sessions)
  BY <1>1, FS_Subset DEF Sessions
<1> QED
  BY <1>2, FS_CardinalityType

\* The counter follows accept4() and close().
LEMMA CountedStep ==
  ASSUME Types, Inductive, Orderly, Counted, [Next]_vars
  PROVE  Counted'
<1>1. ASSUME NEW fd \in Fds, NEW listener \in Fds, Accept4(listener, fd)
      PROVE  Counted'
  <2>1. fds[fd] = Free /\ fds' = [fds EXCEPT ![fd] = Session] /\ tokens' = tokens + 1
    BY <1>1 DEF Accept4, Open, Lowest
  <2>2. Sessions' = Sessions \cup {fd} /\ fd \notin Sessions
    BY <2>1 DEF Sessions, Types, Free, Session
  <2>3. Cardinality(Sessions') = Cardinality(Sessions) + 1
    BY <2>2, SessionsFinite, FS_AddElement
  <2> QED
    BY <2>1, <2>3 DEF Counted
<1>2. ASSUME NEW fd \in Fds, Close(fd)
      PROVE  Counted'
  <2>1. /\ fds[fd] # <<"stream", 0>> /\ fds' = [fds EXCEPT ![fd] = Free]
        /\ tokens' = IF fds[fd] = Session /\ tokens > 0 THEN tokens - 1 ELSE tokens
    BY <1>2 DEF Close, TakeToken, Orderly
  <2>2. CASE fds[fd] = Session
    <3>1. Sessions' = Sessions \ {fd} /\ fd \in Sessions
      BY <2>1, <2>2 DEF Sessions, Types, Free, Session
    <3>2. Cardinality(Sessions') = Cardinality(Sessions) - 1 /\ Cardinality(Sessions) # 0
      BY <3>1, SessionsFinite, FS_RemoveElement, FS_EmptySet
    <3>3. tokens' = tokens - 1
      BY <2>1, <2>2, <3>2, SessionsFinite DEF Counted
    <3> QED
      BY <3>2, <3>3 DEF Counted
  <2>3. CASE fds[fd] # Session
    <3>1. Sessions' = Sessions
      BY <2>1, <2>3 DEF Sessions, Types, Free, Session
    <3> QED
      BY <2>1, <2>3, <3>1 DEF Counted
  <2> QED
    BY <2>2, <2>3
<1>3. ASSUME NEW fd \in Fds, NEW t, t # Session, fds[fd] # Session,
             fds' = [fds EXCEPT ![fd] = t], tokens' = tokens
      PROVE  Counted'
  <2>1. Sessions' = Sessions
    BY <1>3 DEF Sessions, Types
  <2> QED
    BY <1>3, <2>1 DEF Counted
<1>4. ASSUME NEW fd \in Fds, NEW kind \in {"stream", "dgram"}, Socket(fd, kind)
      PROVE  Counted'
  <2>1. fds[fd] # Session /\ <<kind, 0>> # Session
    BY <1>4 DEF Socket, Open, Lowest, Free, Session
  <2>2. fds' = [fds EXCEPT ![fd] = <<kind, 0>>] /\ tokens' = tokens
    BY <1>4 DEF Socket, Open
  <2> QED
    BY <1>3, <2>1, <2>2
<1>5. ASSUME NEW fd \in Fds, NEW p \in Ports, Bind(fd, p)
      PROVE  Counted'
  <2>1. fds[fd][1] \in {"stream", "dgram"} /\ tokens' = tokens
    BY <1>5 DEF Bind
  <2>2. fds[fd] # Session /\ <<fds[fd][1], p>> # Session
    BY <2>1 DEF Session
  <2>3. UNCHANGED fds \/ fds' = [fds EXCEPT ![fd] = <<@[1], p>>]
    BY <1>5 DEF Bind, Inherit, BindOwn
  <2> QED
    BY <1>3, <2>1, <2>2, <2>3 DEF Counted, Sessions
<1>6. CASE UNCHANGED <<fds, tokens>>
  BY <1>6 DEF Counted, Sessions
<1> QED
  BY <1>1, <1>2, <1>4, <1>5, <1>6
     DEF Next, EpollWait, Handle, Correct, Deliver, Return, Ask, Announce, AskElsewhere, Moves, vars

\* The program ends only in its event loop, when it has looked.
LEMMA EndedStep ==
  ASSUME Types, Inductive, Orderly, Counted, OnlyWhenDone, [Next]_vars
  PROVE  OnlyWhenDone'
<1>1. CASE EpollWait /\ Terminating
  <2>1. binds # <<>> /\ UNCHANGED <<fds, newer>>
    BY <1>1 DEF EpollWait, Orderly
  <2>2. \A i \in DOMAIN binds : Heard(binds[i].port) # {}
    BY <1>1 DEF Terminating, Inductive, EntriesTrue
  <2>3. 1 \in DOMAIN binds
    BY <2>1 DEF Types
  <2>4. \E u \in Updates : newer[u] = "done"
    BY <2>2, <2>3 DEF Heard
  <2>5. Sessions = {}
    BY <1>1, SessionsFinite, FS_EmptySet DEF Terminating, Counted
  <2>6. \A fd \in Fds : fds[fd][2] # 0 => Heard(fds[fd][2]) # {}
    BY <2>2 DEF Inductive, Entered
  <2> QED
    BY <2>1, <2>4, <2>5, <2>6 DEF OnlyWhenDone, Sessions, Heard
<1>2. ASSUME NEW u \in Updates, Ask(u) \/ Announce(u) \/ AskElsewhere(u)
      PROVE  OnlyWhenDone'
  <2>1. UNCHANGED <<fds, at>> /\ newer[u] # "done" /\ \A v \in Updates \ {u} : newer'[v] = newer[v]
    BY <1>2 DEF Ask, Announce, AskElsewhere, Moves, Types
  <2>2. \A v \in Updates : newer[v] = "done" => newer'[v] = "done"
    BY <2>1
  <2>3. \A fd \in Fds : Heard(fds[fd][2]) # {} => Heard(fds[fd][2])' # {}
    BY <2>1, <2>2 DEF Heard
  <2> QED
    BY <2>1, <2>2, <2>3 DEF OnlyWhenDone
<1>3. CASE UNCHANGED vars
  BY <1>3 DEF vars, OnlyWhenDone, Heard
<1>4. at' # "ended" => OnlyWhenDone'
  BY DEF OnlyWhenDone
<1> QED
  BY <1>1, <1>2, <1>3, <1>4 DEF Next, Socket, Bind, Inherit, BindOwn, Accept4, Close, Called,
     EpollWait, Handle, Advance, Correct, Deliver, Return

\* An orderly program is killed only when a newer version serves every port it
\* has bound and no session is open (dsu_termination_detection).
THEOREM EndsWhenDone == Orderly => (Spec => []OnlyWhenDone)
<1> SUFFICES ASSUME Orderly PROVE Spec => []OnlyWhenDone
  OBVIOUS
<1> DEFINE All == Types /\ Inductive /\ Counted /\ OnlyWhenDone
<1>1. Init => All
  <2> SUFFICES ASSUME Init PROVE Counted /\ OnlyWhenDone
    BY InitFaithful
  <2>1. Sessions = {} /\ tokens = 0 /\ at = "app"
    BY DEF Init, Sessions, Free, Session
  <2> QED
    BY <2>1, FS_EmptySet DEF Counted, OnlyWhenDone
<1>2. All /\ [Next]_vars => All'
  BY FaithfulStep, CountedStep, EndedStep DEF Orderly
<1> QED
  BY <1>1, <1>2, PTL DEF Spec

=============================================================================
