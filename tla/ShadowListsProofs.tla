--------------------------- MODULE ShadowListsProofs ---------------------------
(* Theorems about the lists of ShadowSockets themselves: every socket is in the  *)
(* list where it is looked for, and the list of events that the application gets *)
(* holds all of its own, in their order.                                         *)
EXTENDS ShadowSocketsProofs, WellFoundedInduction

\* A set of numbers has a least one.
LEMMA Least ==
  ASSUME NEW T \in SUBSET Nat, T # {}
  PROVE  \E x \in T : \A y \in T : x <= y
<1>1. PICK x \in T : \A y \in T : ~ (<<y, x>> \in OpToRel(<, Nat))
  BY NatLessThanWellFounded, WFMin
<1>2. \A y \in T : ~ (y < x)
  BY <1>1 DEF OpToRel
<1> QED
  BY <1>2

\* What is left of a sequence when one place goes.
LEMMA RemoveAtFacts ==
  ASSUME NEW S, NEW s \in Seq(S), NEW i \in 1..Len(s)
  PROVE  /\ RemoveAt(s, i) \in Seq(S) /\ Len(RemoveAt(s, i)) = Len(s) - 1
         /\ \A k \in 1..(Len(s) - 1) : RemoveAt(s, i)[k] = IF k < i THEN s[k] ELSE s[k+1]
<1> DEFINE a == SubSeq(s, 1, i-1)
           b == SubSeq(s, i+1, Len(s))
<1>0. Len(s) \in Nat
  OBVIOUS
<1>1. a \in Seq(S) /\ Len(a) = i - 1 /\ \A k \in 1..(i-1) : a[k] = s[k]
  BY <1>0, SubSeqProperties
<1>2. b \in Seq(S) /\ Len(b) = Len(s) - i /\ \A k \in 1..(Len(s)-i) : b[k] = s[k+i]
  BY <1>0, SubSeqProperties
<1> HIDE DEF a, b
<1>3. RemoveAt(s, i) = a \o b
  BY DEF RemoveAt, a, b
<1>4. /\ a \o b \in Seq(S) /\ Len(a \o b) = Len(a) + Len(b)
      /\ \A k \in 1..(Len(a) + Len(b)) : (a \o b)[k] = IF k <= Len(a) THEN a[k] ELSE b[k - Len(a)]
  BY <1>1, <1>2, ConcatProperties
<1>5. \A k \in 1..(Len(s)-1) : (a \o b)[k] = IF k < i THEN s[k] ELSE s[k+1]
  <2> SUFFICES ASSUME NEW k \in 1..(Len(s)-1) PROVE (a \o b)[k] = IF k < i THEN s[k] ELSE s[k+1]
    OBVIOUS
  <2>1. CASE k < i
    BY <1>0, <1>1, <1>2, <1>4, <2>1
  <2>2. CASE ~(k < i)
    <3>1. (a \o b)[k] = b[k - (i - 1)] /\ k - (i - 1) \in 1..(Len(s)-i)
      BY <1>0, <1>1, <1>2, <1>4, <2>2
    <3>2. b[k - (i - 1)] = s[(k - (i - 1)) + i]
      BY <1>2, <3>1
    <3>3. (k - (i - 1)) + i = k + 1
      BY <1>0
    <3>4. (a \o b)[k] = s[k + 1]
      BY <3>1, <3>2, <3>3
    <3> QED
      BY <2>2, <3>4
  <2> QED
    BY <2>1, <2>2
<1> QED
  BY <1>0, <1>1, <1>2, <1>3, <1>4, <1>5

\* SelectInSeq finds an element that is there.
LEMMA FirstPlace ==
  ASSUME NEW S, NEW s \in Seq(S), NEW e, Contains(s, e)
  PROVE  /\ SelectInSeq(s, LAMBDA v : v = e) \in 1..Len(s)
         /\ s[SelectInSeq(s, LAMBDA v : v = e)] = e
<1> DEFINE I == {i \in 1..Len(s) : s[i] = e}
<1>1. I # {} /\ I \in SUBSET Nat
  BY DEF Contains
<1>2. \E x \in I : \A y \in I : x <= y
  BY <1>1, Least
<1>3. Min(I) \in I
  BY <1>2 DEF Min
<1>4. SelectInSeq(s, LAMBDA v : v = e) = Min(I)
  BY <1>1 DEF SelectInSeq
<1> QED
  BY <1>3, <1>4

\* Only e leaves the sequence.
LEMMA RemoveFirstFacts ==
  ASSUME NEW S, NEW s \in Seq(S), NEW e
  PROVE  /\ RemoveFirst(s, e) \in Seq(S)
         /\ \A g : g # e /\ Contains(s, g) => Contains(RemoveFirst(s, e), g)
<1>1. CASE ~Contains(s, e)
  BY <1>1 DEF RemoveFirst, Contains
<1>2. CASE Contains(s, e)
  <2> DEFINE i == SelectInSeq(s, LAMBDA v : v = e)
             t == RemoveAt(s, i)
  <2>0. i \in 1..Len(s) /\ s[i] = e
    BY <1>2, FirstPlace
  <2>1. RemoveFirst(s, e) = t
    BY <1>2 DEF RemoveFirst, Contains
  <2> HIDE DEF i
  <2>2. /\ t \in Seq(S) /\ Len(t) = Len(s) - 1 /\ Len(s) \in Nat
        /\ \A k \in 1..(Len(s) - 1) : t[k] = IF k < i THEN s[k] ELSE s[k + 1]
    <3>1. Len(s) \in Nat
      OBVIOUS
    <3> QED
      BY <2>0, <3>1, RemoveAtFacts
  <2> HIDE DEF t
  <2>3. ASSUME NEW g, g # e, Contains(s, g)
        PROVE  Contains(t, g)
    <3>1. PICK j \in 1..Len(s) : s[j] = g
      BY <2>3 DEF Contains
    <3>2. j # i
      BY <2>0, <2>3, <3>1
    <3>3. CASE j < i
      <4>1. j \in 1..Len(t) /\ t[j] = g
        BY <2>0, <2>2, <3>1, <3>3
      <4> QED
        BY <4>1 DEF Contains
    <3>4. CASE j > i
      <4>1. j - 1 \in 1..Len(t) /\ ~(j - 1 < i) /\ (j - 1) + 1 = j
        BY <2>0, <2>2, <3>4
      <4>2. t[j - 1] = g
        BY <2>2, <3>1, <4>1
      <4> QED
        BY <4>1, <4>2 DEF Contains
    <3> QED
      BY <2>0, <3>2, <3>3, <3>4
  <2> QED
    BY <2>1, <2>2, <2>3
<1> QED
  BY <1>1, <1>2

-----------------------------------------------------------------------------
Typed ==
  /\ TypeOK
  /\ at = "handle" => entry \in DOMAIN binds
  /\ at = "correct" => entry # 0

LEMMA TypedTypes == Typed => Types
BY DEF Typed, TypeOK, Types

\* A new event or mark is one the list may hold.
LEMMA SlotFacts ==
  /\ Gone \in Slots /\ Gone[1] = "gone" /\ Gone[2] = 0
  /\ \A f \in Fds : <<"own", f>> \in Slots
  /\ \A kind \in {"comfd", "readyfd"}, p \in Ports : <<kind, p>> \in Slots
  /\ \A u \in Updates : Message(u) \in Slots
  /\ \A ev \in Slots : ev[1] \in {"gone", "own", "comfd", "message", "readyfd"}
BY UpdateFacts DEF Slots, Gone

\* What the kernel returns is a list of events.
LEMMA BatchTyped ==
  ASSUME Typed, NEW b \in Batches
  PROVE  b \in Seq(Slots)
<1>1. PICK S \in SUBSET Readable : Cardinality(S) \in 0..MaxEvents /\ b \in SetToSeqs(S)
  BY DEF Batches
<1>2. Cardinality(S) \in Nat
  BY <1>1, ShadowConstants DEF ShadowConstants
<1>3. b \in [1..Cardinality(S) -> S]
  BY <1>1 DEF SetToSeqs
<1>4. b \in Seq(S)
  BY <1>2, <1>3
<1>5. Readable \subseteq Slots
  <2>1. \A i \in DOMAIN binds : Internal(binds[i]) \subseteq Slots
    <3>1. \A i \in DOMAIN binds : binds[i].port \in Ports
      BY TypedTypes, EntryFacts
    <3> QED
      BY <3>1, SlotFacts DEF Internal
  <2>2. {"own"} \X {f \in Fds : Watched(f)} \subseteq Slots
    BY DEF Slots
  <2> QED
    BY <2>1, <2>2 DEF Readable
<1> QED
  BY <1>4, <1>5, SeqMonotonic

\* Every step keeps the types, whatever the program is allowed.
LEMMA TypedStep ==
  ASSUME Typed, [Next]_vars
  PROVE  Typed'
<1> USE DEF Typed, TypeOK
<1>0. \A i \in DOMAIN binds : binds[i] \in Entries /\ binds[i].fd \in Fds /\ binds[i].port \in Ports
  BY TypedTypes, EntryFacts
<1>e. <<>> \in Seq(Slots) /\ Len(binds) \in Nat /\ DOMAIN binds = 1..Len(binds)
  OBVIOUS
<1>1. ASSUME NEW fd \in Fds, NEW kind \in {"stream", "dgram"}, Socket(fd, kind)
      PROVE  Typed'
  <2>1. fds' = [fds EXCEPT ![fd] = <<kind, 0>>] /\ sockets' = Append(sockets, fd)
    BY <1>1 DEF Socket, Open
  <2>2. fds' \in [Fds -> Things]
    BY <2>1, ThingFacts
  <2>3. sockets' \in Seq(Fds)
    BY <2>1
  <2> QED
    BY <1>1, <1>e, <2>2, <2>3 DEF Socket, Called
<1>2. ASSUME NEW fd \in Fds, NEW p \in Ports, Bind(fd, p)
      PROVE  Typed'
  <2>1. fds[fd][1] \in {"stream", "dgram"} /\ at = "app" /\ at' \in {"app", "stuck"}
    BY <1>2 DEF Bind, Called, Inherit, BindOwn
  <2>2. <<fds[fd][1], p>> \in Things
    BY <2>1, ThingFacts
  <2>3. fds' \in [Fds -> Things]
    BY <1>2, <2>2 DEF Bind, Inherit, BindOwn
  <2>4. \A o \in BOOLEAN : [fd |-> fd, port |-> p, owes |-> o, ready |-> FALSE] \in Entries
    BY DEF Entries
  <2>5. \/ UNCHANGED <<sockets, binds>>
        \/ \E o \in BOOLEAN : Transfer(fd, p, o)
    BY <1>2 DEF Bind, Inherit, BindOwn
  <2>6. binds' \in Seq(Entries) /\ sockets' \in Seq(Fds)
    <3>1. ASSUME NEW o \in BOOLEAN, Transfer(fd, p, o)
          PROVE  binds' \in Seq(Entries) /\ sockets' \in Seq(Fds)
      <4>1. sockets' = RemoveFirst(sockets, fd) /\ sockets \in Seq(Fds)
        BY <3>1 DEF Transfer
      <4>2. sockets' \in Seq(Fds)
        BY <4>1, RemoveFirstFacts
      <4> DEFINE new == [fd |-> fd, port |-> p, owes |-> o, ready |-> FALSE]
      <4>3. new \in Entries /\ binds' = Append(binds, new) /\ binds \in Seq(Entries)
        BY <2>4, <3>1 DEF Transfer
      <4> HIDE DEF new, Entries
      <4> QED
        BY <4>2, <4>3
    <3>2. CASE UNCHANGED <<sockets, binds>>
      BY <3>2
    <3> QED
      BY <2>5, <3>1, <3>2
  <2> QED
    BY <1>2, <1>e, <2>1, <2>3, <2>6 DEF Bind, Called
<1>3. ASSUME NEW fd \in Fds, NEW listener \in Fds, Accept4(listener, fd)
      PROVE  Typed'
  <2>1. fds' \in [Fds -> Things]
    BY <1>3, ThingFacts DEF Accept4, Open
  <2> QED
    BY <1>3, <1>e, <2>1 DEF Accept4, Called
<1>4. ASSUME NEW fd \in Fds, Close(fd)
      PROVE  Typed'
  <2>1. fds' \in [Fds -> Things]
    BY <1>4, ThingFacts DEF Close
  <2>2. tokens' \in Nat
    BY <1>4 DEF Close, TakeToken
  <2> QED
    BY <1>4, <1>e, <2>1, <2>2 DEF Close, Called
<1>5. CASE EpollWait \/ Deliver
  <2>1. /\ UNCHANGED <<fds, sockets, binds, tokens, older, newer, given>>
        /\ events' \in Seq(Slots) /\ batch' \in Seq(Slots)
    BY <1>5, <1>e DEF EpollWait, Deliver
  <2>2. at' \in {"ended", "wait", "call", "app"} /\ entry' \in Nat
    BY <1>5 DEF EpollWait, Deliver
  <2> QED
    BY <2>1, <2>2
<1>6. CASE Handle
  <2> DEFINE e       == binds[entry]
             places  == {k \in DOMAIN events : Handles(e, k)}
             handled == {events[k] : k \in places}
             heard   == <<"readyfd", e.port>> \in handled
  <2>1. entry \in DOMAIN binds /\ e \in Entries /\ e.fd \in Fds /\ e.port \in Ports
    BY <1>0, <1>6 DEF Handle
  <2>2. /\ older' = IF e.owes THEN older \ {e.port} ELSE older
        /\ binds' = [binds EXCEPT ![entry].owes = FALSE, ![entry].ready = @ \/ heard]
        /\ newer' = [u \in Updates |-> IF u \in Accepted(e.port, handled) THEN "asking"
                                      ELSE IF Message(u) \in handled THEN After(u)
                                      ELSE newer[u]]
        /\ given' = [u \in Updates |->
                       IF Message(u) \in handled /\ Asks(u) THEN Sent(e) ELSE given[u]]
        /\ events' = [k \in DOMAIN events |-> IF k \in places THEN Gone ELSE events[k]]
    BY <1>6 DEF Handle
  <2>types. heard \in BOOLEAN
    OBVIOUS
  <2> HIDE DEF places, handled, heard
  <2>3. newer' \in [Updates -> Stages]
    <3>1. \A u \in Updates : {"asking", After(u), newer[u]} \subseteq Stages
      BY DEF After, Stages
    <3> QED
      BY <2>2, <3>1
  <2>4. given' \in [Updates -> Things]
    <3>1. Sent(e) \in Things /\ \A u \in Updates : given[u] \in Things
      BY <2>1 DEF Sent
    <3> QED
      BY <2>2, <3>1
  <2>5. events' \in Seq(Slots)
    <3>1. \A k \in DOMAIN events : events'[k] \in Slots
      BY <2>2, SlotFacts
    <3>2. DOMAIN events' = 1..Len(events) /\ Len(events) \in Nat
      BY <2>2
    <3> QED
      BY <2>2, <3>1, <3>2
  <2>6. binds' \in Seq(Entries) /\ DOMAIN binds' = DOMAIN binds
    <3> DEFINE new == [e EXCEPT !.owes = FALSE, !.ready = @ \/ heard]
    <3>1. new \in Entries
      BY <2>1, <2>types DEF Entries
    <3>2. binds' = [binds EXCEPT ![entry] = new]
      BY <2>1, <2>2
    <3> HIDE DEF new, Entries
    <3> QED
      BY <2>1, <3>1, <3>2
  <2>7. /\ entry' \in Nat /\ at' \in {"handle", "correct"} /\ entry' # 0
        /\ at' = "handle" => entry' \in DOMAIN binds
    BY <1>6, <1>e, <2>1 DEF Handle, Advance
  <2>8. UNCHANGED <<fds, sockets, tokens, batch>> /\ older' \subseteq Older
    BY <1>6, <2>2 DEF Handle
  <2> QED
    BY <2>3, <2>4, <2>5, <2>6, <2>7, <2>8
<1>7. CASE Correct
  <2>1. entry \in 1..Len(events) /\ at = "correct"
    BY <1>7 DEF Correct
  <2>2. events' \in Seq(Slots)
    BY <1>7, <2>1, RemoveAtFacts DEF Correct, Compact
  <2>3. entry' \in Nat /\ entry' # 0
    BY <1>7, <2>1 DEF Correct, Compact
  <2>4. UNCHANGED <<fds, sockets, binds, tokens, at, batch, older, newer, given>>
    BY <1>7 DEF Correct
  <2> QED
    BY <2>1, <2>2, <2>3, <2>4
<1>8. CASE Return
  <2>1. PICK b \in Batches : batch' = b /\ events' = b
    BY <1>8 DEF Return
  <2>2. events' \in Seq(Slots) /\ batch' \in Seq(Slots)
    BY <2>1, BatchTyped
  <2>3. /\ entry' \in Nat /\ entry' # 0 /\ at' \in {"handle", "correct"}
        /\ at' = "handle" => entry' \in DOMAIN binds
    <3>1. binds # <<>> => 1 \in DOMAIN binds
      BY <1>e
    <3> QED
      BY <1>8, <3>1 DEF Return
  <2>4. UNCHANGED <<fds, sockets, binds, tokens, older, newer, given>>
    BY <1>8 DEF Return
  <2> QED
    BY <2>2, <2>3, <2>4
<1>9. ASSUME NEW u \in Updates, Ask(u) \/ Announce(u) \/ AskElsewhere(u)
      PROVE  Typed'
  <2>1. newer' \in [Updates -> Stages]
    BY <1>9 DEF Ask, Announce, AskElsewhere, Moves, Stages
  <2> QED
    BY <1>9, <2>1 DEF Ask, Announce, AskElsewhere, Moves
<1>10. CASE UNCHANGED vars
  BY <1>10 DEF vars
<1> QED
  BY <1>1, <1>2, <1>3, <1>4, <1>5, <1>6, <1>7, <1>8, <1>9, <1>10 DEF Next

LEMMA InitTyped == Init => Typed
BY ThingFacts, ShadowConstants DEF Init, Typed, TypeOK, Stages, ShadowConstants

\* The lists hold descriptors, entries and events and nothing else, and the
\* counter of sessions never falls below zero, whatever the program does
\* (dsu_sockets_transfer_fd, dsu_epoll_correct_events, close).
THEOREM ShadowTypes == Spec => []TypeOK
<1>1. Typed => TypeOK
  BY DEF Typed
<1> QED
  BY <1>1, InitTyped, TypedStep, PTL DEF Spec

-----------------------------------------------------------------------------
\* The kernel's list as it is returned.
LEMMA ReturnMarks ==
  ASSUME Typed, Return
  PROVE  MarksGone'
<1>1. PICK b \in Batches : events' = b /\ batch' = b
  BY DEF Return
<1>2. /\ binds' = binds /\ entry' = 1
      /\ at' = IF binds = <<>> THEN "correct" ELSE "handle"
  BY DEF Return
<1>3. b \in Seq(Slots) /\ DOMAIN b = 1..Len(b) /\ Len(b) \in Nat
  BY BatchTyped
<1>4. ASSUME NEW k \in DOMAIN b, b[k][1] # "own"
      PROVE  \E i \in DOMAIN binds : /\ i >= 1 /\ b[k][2] = binds[i].port
                                     /\ b[k][1] = "comfd" => ~binds[i].ready
  <2>1. b[k] \in Readable
    BY BatchFacts
  <2>2. PICK i \in DOMAIN binds : b[k] \in Internal(binds[i])
    BY <1>4, <2>1 DEF Readable
  <2>3. b[k][2] = binds[i].port /\ (b[k][1] = "comfd" => ~binds[i].ready)
    BY <2>2, UpdateFacts DEF Internal
  <2>4. i >= 1
    BY DEF Typed, TypeOK
  <2> QED
    BY <2>3, <2>4
<1>5. CASE binds # <<>>
  BY <1>1, <1>2, <1>4, <1>5 DEF MarksGone, Own
<1>6. CASE binds = <<>>
  <2> DEFINE same == [k \in DOMAIN b |-> k]
  <2>1. same \in [DOMAIN b -> DOMAIN b] /\ \A k \in DOMAIN b : same[k] = k
    OBVIOUS
  <2> HIDE DEF same
  <2>2. \A k \in DOMAIN b : b[k][1] = "own"
    BY <1>4, <1>6
  <2>3. Sifted(same, 1)'
    BY <1>1, <2>1, <2>2 DEF Sifted, Own
  <2> QED
    BY <1>1, <1>2, <1>6, <2>1, <2>3 DEF MarksGone
<1> QED
  BY <1>5, <1>6

\* An entry marks its events, and they stay where they are.
LEMMA HandleMarks ==
  ASSUME Typed, MarksGone, Handle
  PROVE  MarksGone'
<1> DEFINE e      == binds[entry]
           places == {k \in DOMAIN events : Handles(e, k)}
<1>1. /\ at = "handle" /\ entry \in DOMAIN binds /\ e.port \in Ports /\ batch' = batch
      /\ events' = [k \in DOMAIN events |-> IF k \in places THEN Gone ELSE events[k]]
      /\ DOMAIN binds = 1..Len(binds) /\ Len(binds) \in Nat
  <2>1. at = "handle" /\ entry \in DOMAIN binds /\ batch' = batch
    BY DEF Handle, Typed
  <2>2. events' = [k \in DOMAIN events |-> IF k \in places THEN Gone ELSE events[k]]
    BY DEF Handle
  <2>3. e.port \in Ports
    BY <2>1, TypedTypes, EntryFacts
  <2>4. DOMAIN binds = 1..Len(binds) /\ Len(binds) \in Nat
    BY DEF Typed, TypeOK
  <2> QED
    BY <2>1, <2>2, <2>3, <2>4
<1>2. /\ DOMAIN events = DOMAIN batch /\ DOMAIN events' = DOMAIN events
      /\ DOMAIN events = 1..Len(events) /\ \A k \in DOMAIN events : events[k] \in Slots
  BY <1>1 DEF MarksGone, Typed, TypeOK
<1>3. ASSUME NEW k \in DOMAIN events, events[k] # batch[k]
      PROVE  events[k] = Gone /\ k \notin Own(batch)
  BY <1>1, <1>3 DEF MarksGone
<1>4. ASSUME NEW k \in places
      PROVE  events[k] = batch[k] /\ k \notin Own(batch) /\ events[k] # Gone
  <2>1. events[k][1] \in {"comfd", "message", "readyfd"} /\ k \in DOMAIN events
    BY DEF Handles
  <2>2. events[k] # Gone
    BY <2>1, SlotFacts
  <2> QED
    BY <1>3, <2>1, <2>2 DEF Own
<1>5. ASSUME NEW k \in DOMAIN events, k \notin places, events[k] = batch[k]
      PROVE  \/ k \in Own(batch) \/ Skipped(k)
             \/ \E i \in DOMAIN binds : /\ i > entry /\ events[k][2] = binds[i].port
                                        /\ events[k][1] = "comfd" => ~binds[i].ready
  <2> SUFFICES ASSUME k \notin Own(batch), ~Skipped(k)
      PROVE  \E i \in DOMAIN binds : /\ i > entry /\ events[k][2] = binds[i].port
                                     /\ events[k][1] = "comfd" => ~binds[i].ready
    OBVIOUS
  <2>1. PICK i \in DOMAIN binds : /\ i >= entry /\ events[k][2] = binds[i].port
                                  /\ events[k][1] = "comfd" => ~binds[i].ready
    BY <1>1, <1>5 DEF MarksGone
  <2>2. ASSUME i = entry
        PROVE  FALSE
    <3>1. events[k][2] # 0
      BY <1>1, <2>1, <2>2, ThingFacts
    <3>2. events[k][1] # "own" /\ events[k][1] # "gone"
      <4>1. events[k][1] # "own"
        BY <1>2, <1>5 DEF Own
      <4>2. CASE events[k] = Gone
        BY <3>1, <4>2, SlotFacts
      <4>3. \A ev \in Slots : ev[1] = "gone" => ev = Gone
        BY UpdateFacts DEF Slots, Gone
      <4> QED
        BY <1>2, <4>1, <4>2, <4>3
    <3>3. events[k][1] \in {"comfd", "message", "readyfd"}
      BY <1>2, <3>2, SlotFacts
    <3>4. /\ events[k][1] = "comfd"
          /\ \E j \in 1..(k - 1) : events[j] = <<"readyfd", e.port>>
      BY <1>5, <2>1, <2>2, <3>3 DEF Handles
    <3>5. PICK j \in 1..(k - 1) : events[j] = <<"readyfd", e.port>>
      BY <3>4
    <3>6. j \in DOMAIN events /\ events[j] # Gone
      BY <1>2, <3>5 DEF Gone
    <3>7. batch[j] = <<"readyfd", batch[k][2]>>
      BY <1>3, <1>5, <2>1, <2>2, <3>5, <3>6
    <3> QED
      BY <1>5, <3>4, <3>7 DEF Skipped
  <2>3. i > entry
    BY <1>1, <2>1, <2>2
  <2> QED
    BY <2>1, <2>3
<1>6. /\ DOMAIN binds' = DOMAIN binds
      /\ \A i \in DOMAIN binds : binds'[i].port = binds[i].port
      /\ \A i \in DOMAIN binds : i # entry => binds'[i] = binds[i]
  BY <1>1, TypedTypes, EntryFacts DEF Handle, Entries
<1> HIDE DEF places
<1>7. ASSUME NEW k \in DOMAIN events
      PROVE  IF events'[k] # batch[k] THEN events'[k] = Gone /\ k \notin Own(batch)
             ELSE \/ k \in Own(batch) \/ Skipped(k)
                  \/ \E i \in DOMAIN binds :
                       /\ i > entry /\ events'[k][2] = binds'[i].port
                       /\ events'[k][1] = "comfd" => ~binds'[i].ready
  <2>1. CASE k \in places
    BY <1>1, <1>4, <2>1
  <2>2. CASE k \notin places
    <3>1. events'[k] = events[k]
      BY <1>1, <2>2
    <3>2. \A i \in DOMAIN binds : i > entry => binds'[i] = binds[i]
      BY <1>1, <1>6
    <3> QED
      BY <1>3, <1>5, <2>2, <3>1, <3>2
  <2> QED
    BY <2>1, <2>2
<1>8. \/ at' = "handle" /\ entry < Len(binds) /\ entry' = entry + 1
      \/ at' = "correct" /\ entry >= Len(binds) /\ entry' = 1
  BY <1>1 DEF Handle, Advance
<1>9. CASE at' = "handle" /\ entry' = entry + 1
  <2>1. entry' # 0 /\ \A i \in DOMAIN binds : i > entry => i >= entry'
    BY <1>1, <1>9
  <2>2. \A k \in DOMAIN events :
          IF events'[k] # batch[k] THEN events'[k] = Gone /\ k \notin Own(batch)
          ELSE \/ k \in Own(batch) \/ Skipped(k)
               \/ \E i \in DOMAIN binds :
                    /\ i >= entry' /\ events'[k][2] = binds'[i].port
                    /\ events'[k][1] = "comfd" => ~binds'[i].ready
    BY <1>7, <2>1
  <2>3. DOMAIN events' = DOMAIN batch' /\ DOMAIN events' = DOMAIN events /\ DOMAIN binds' = DOMAIN binds
    BY <1>1, <1>2, <1>6
  <2>4. batch' = batch /\ \A k : Skipped(k)' <=> Skipped(k)
    BY <1>1 DEF Skipped
  <2> QED
    BY <1>9, <2>1, <2>2, <2>3, <2>4 DEF MarksGone
<1>10. CASE at' = "correct" /\ entry >= Len(binds) /\ entry' = 1
  <2>1. PICK same \in [DOMAIN events -> DOMAIN batch] : \A k \in DOMAIN events : same[k] = k
    <3>1. [k \in DOMAIN events |-> k] \in [DOMAIN events -> DOMAIN batch]
      BY <1>2
    <3> QED
      BY <3>1
  <2>2. \A i \in DOMAIN binds : ~(i > entry)
    BY <1>1, <1>10
  <2>3. \A k \in DOMAIN events :
          \/ events'[k] = batch[k] /\ (k \in Own(batch) \/ Skipped(k))
          \/ events'[k] = Gone /\ k \notin Own(batch)
    BY <1>7, <2>2
  <2>4. Own(batch) \subseteq DOMAIN events /\ \A k \in DOMAIN events : k >= 1
    BY <1>2 DEF Own
  <2>5. batch' = batch /\ DOMAIN events' = DOMAIN events /\ \A k : Skipped(k)' <=> Skipped(k)
    BY <1>1, <1>2 DEF Skipped
  <2>6. \A j, k \in DOMAIN events : j < k => same[j] < same[k]
    BY <2>1
  <2>7. \A m \in Own(batch) : \E k \in DOMAIN events : same[k] = m
    BY <2>1, <2>4
  <2>8. Sifted(same, 1)'
    BY <2>1, <2>3, <2>4, <2>5, <2>6, <2>7 DEF Sifted
  <2>9. same \in [DOMAIN events' -> DOMAIN batch']
    BY <2>1, <2>5
  <2> QED
    BY <1>10, <2>8, <2>9 DEF MarksGone
<1> QED
  BY <1>8, <1>9, <1>10

\* A turn of the loop closes a gap or goes past an event that stays.
LEMMA CorrectMarks ==
  ASSUME Typed, MarksGone, Correct
  PROVE  MarksGone'
<1>1. /\ at = "correct" /\ UNCHANGED <<at, binds, batch>>
      /\ entry \in 1..Len(events) /\ entry \in DOMAIN events
      /\ DOMAIN events = 1..Len(events) /\ Len(events) \in Nat
  BY DEF Correct, Typed, TypeOK
<1>2. PICK from \in [DOMAIN events -> DOMAIN batch] : Sifted(from, entry)
  BY <1>1 DEF MarksGone
<1>3. CASE events[entry] # Gone
  <2>1. UNCHANGED events /\ entry' = entry + 1 /\ entry' # 0
    BY <1>1, <1>3 DEF Correct, Compact
  <2>2. \A k \in DOMAIN events : k >= entry /\ events[k] = Gone => k >= entry + 1
    BY <1>1, <1>3
  <2>3. Sifted(from, entry)'
    BY <1>1, <1>2, <2>1, <2>2 DEF Sifted, Skipped, Own
  <2>4. from \in [DOMAIN events' -> DOMAIN batch']
    BY <1>1, <2>1
  <2> QED
    BY <1>1, <2>1, <2>3, <2>4 DEF MarksGone
<1>4. CASE events[entry] = Gone
  <2> DEFINE old(k) == IF k < entry THEN k ELSE k + 1
  <2>1. /\ events' = RemoveAt(events, entry) /\ entry' = entry
        /\ events \in Seq(Slots)
    BY <1>4 DEF Correct, Compact, Typed, TypeOK
  <2>2. /\ events' \in Seq(Slots) /\ DOMAIN events' = 1..(Len(events) - 1)
        /\ \A k \in DOMAIN events' : events'[k] = IF k < entry THEN events[k] ELSE events[k + 1]
    <3> DEFINE t == RemoveAt(events, entry)
    <3>1. /\ t \in Seq(Slots) /\ Len(t) = Len(events) - 1
          /\ \A k \in 1..(Len(events) - 1) :
               t[k] = IF k < entry THEN events[k] ELSE events[k + 1]
      BY <1>1, <2>1, RemoveAtFacts
    <3>2. events' = t
      BY <2>1
    <3> HIDE DEF t
    <3>3. DOMAIN t = 1..(Len(events) - 1)
      BY <1>1, <3>1
    <3> QED
      BY <3>1, <3>2, <3>3
  <2>3. \A k \in DOMAIN events' :
          /\ old(k) \in DOMAIN events /\ old(k) # entry /\ events'[k] = events[old(k)]
          /\ old(k) >= entry => k >= entry
    BY <1>1, <2>2
  <2>4. \A j, k \in DOMAIN events' : j < k => old(j) < old(k)
    BY <1>1, <2>2
  <2>5. \A m \in DOMAIN events : m # entry => \E k \in DOMAIN events' : old(k) = m
    <3> SUFFICES ASSUME NEW m \in DOMAIN events, m # entry
        PROVE  \E k \in DOMAIN events' : old(k) = m
      OBVIOUS
    <3>1. CASE m < entry
      BY <1>1, <2>2, <3>1
    <3>2. CASE m > entry
      <4>1. m - 1 \in DOMAIN events' /\ old(m - 1) = m
        BY <1>1, <2>2, <3>2
      <4> QED
        BY <4>1
    <3> QED
      BY <1>1, <3>1, <3>2
  <2>6. from[entry] \notin Own(batch)
    BY <1>1, <1>2, <1>4, SlotFacts DEF Sifted, Own, Skipped
  <2> HIDE DEF old
  <2>7. PICK froms \in [DOMAIN events' -> DOMAIN batch] :
          \A k \in DOMAIN events' : froms[k] = from[old(k)]
    <3>1. [k \in DOMAIN events' |-> from[old(k)]] \in [DOMAIN events' -> DOMAIN batch]
      BY <2>3
    <3> QED
      BY <3>1
  <2>8. Sifted(froms, entry)'
    <3>1. \A j, k \in DOMAIN events' : j < k => froms[j] < froms[k]
      BY <1>2, <2>3, <2>4, <2>7 DEF Sifted
    <3>2. \A k \in DOMAIN events' :
            \/ events'[k] = batch[froms[k]] /\ (froms[k] \in Own(batch) \/ Skipped(froms[k]))
            \/ events'[k] = Gone /\ froms[k] \notin Own(batch) /\ k >= entry
      BY <1>2, <2>3, <2>7 DEF Sifted
    <3>3. ASSUME NEW n \in Own(batch)
          PROVE  \E k \in DOMAIN events' : froms[k] = n
      <4>1. PICK m \in DOMAIN events : from[m] = n
        BY <1>2 DEF Sifted
      <4>2. m # entry
        BY <2>6, <4>1
      <4>3. PICK k \in DOMAIN events' : old(k) = m
        BY <2>5, <4>2
      <4> QED
        BY <2>7, <4>1, <4>3
    <3> QED
      BY <1>1, <2>1, <2>7, <3>1, <3>2, <3>3 DEF Sifted, Skipped, Own
  <2>9. froms \in [DOMAIN events' -> DOMAIN batch'] /\ entry' # 0 /\ at' = "correct"
    BY <1>1, <2>1, <2>7
  <2> QED
    BY <2>8, <2>9 DEF MarksGone
<1> QED
  BY <1>3, <1>4

LEMMA MarksStep ==
  ASSUME Typed, MarksGone, [Next]_vars
  PROVE  MarksGone'
<1>1. ASSUME NEW fd \in Fds,
             \/ \E kind \in {"stream", "dgram"} : Socket(fd, kind)
             \/ \E p \in Ports : Bind(fd, p)
             \/ \E listener \in Fds : Accept4(listener, fd)
             \/ Close(fd)
      PROVE  MarksGone'
  <2>1. at' \notin {"handle", "correct"}
    BY <1>1 DEF Called, Socket, Bind, Inherit, BindOwn, Accept4, Close
  <2> QED
    BY <2>1 DEF MarksGone
<1>2. CASE EpollWait \/ Deliver
  <2>1. at' \notin {"handle", "correct"}
    BY <1>2 DEF EpollWait, Deliver
  <2> QED
    BY <2>1 DEF MarksGone
<1>3. CASE UNCHANGED <<at, entry, events, batch, binds>>
  <2>1. \A k : Skipped(k)' <=> Skipped(k)
    BY <1>3 DEF Skipped
  <2>2. CASE at = "handle"
    BY <1>3, <2>1, <2>2 DEF MarksGone
  <2>3. CASE at = "correct"
    <3>1. PICK from \in [DOMAIN events -> DOMAIN batch] : Sifted(from, entry)
      BY <2>3 DEF MarksGone
    <3>2. Sifted(from, entry)'
      BY <1>3, <2>1, <3>1 DEF Sifted
    <3>3. from \in [DOMAIN events' -> DOMAIN batch'] /\ entry # 0
      BY <1>3, <2>3 DEF MarksGone
    <3> QED
      BY <1>3, <2>3, <3>2, <3>3 DEF MarksGone
  <2>4. CASE at \notin {"handle", "correct"}
    BY <1>3, <2>4 DEF MarksGone
  <2> QED
    BY <2>2, <2>3, <2>4
<1>4. ASSUME NEW u \in Updates, Ask(u) \/ Announce(u) \/ AskElsewhere(u)
      PROVE  MarksGone'
  BY <1>3, <1>4 DEF Ask, Announce, AskElsewhere, Moves
<1>5. CASE UNCHANGED vars
  BY <1>3, <1>5 DEF vars
<1> QED
  BY <1>1, <1>2, <1>4, <1>5, ReturnMarks, HandleMarks, CorrectMarks DEF Next

\* Whatever the program does, and whatever the kernel returns in which order: the
\* application is given all events of its own descriptors, in their order and none
\* twice.  Of the library's it is given a comfd that came behind the readyfd of the
\* same port, and no other (dsu_epoll_correct_events, dsu_handle_conn_epoll).
THEOREM EventsSifted == Spec => []OwnEvents
<1>1. Init => Typed /\ MarksGone
  <2>1. Init => at = "app"
    BY DEF Init
  <2> QED
    BY <2>1, InitTyped DEF MarksGone
<1>2. Typed /\ MarksGone /\ [Next]_vars => (Typed /\ MarksGone)'
  BY TypedStep, MarksStep
<1>3. MarksGone => OwnEvents
  BY DEF MarksGone, OwnEvents
<1> QED
  BY <1>1, <1>2, <1>3, PTL DEF Spec

-----------------------------------------------------------------------------
\* bind() moves one descriptor from one list to the other.
LEMMA BindApart ==
  ASSUME Typed, Inductive, Apart, Careful, NEW fd \in Fds, NEW p \in Ports, Bind(fd, p)
  PROVE  Apart'
<1>0. \A i \in DOMAIN binds : binds[i] \in Entries /\ binds[i].fd \in Fds /\ binds[i].port \in Ports
  BY TypedTypes, EntryFacts
<1>1. CASE UNCHANGED <<fds, sockets, binds>>
  BY <1>1 DEF Apart
<1>2. ASSUME NEW o \in BOOLEAN, Transfer(fd, p, o), fds' = [fds EXCEPT ![fd] = <<@[1], p>>]
      PROVE  Apart'
  <2> DEFINE new == [fd |-> fd, port |-> p, owes |-> o, ready |-> FALSE]
  <2>1. new.fd = fd /\ binds' = Append(binds, new) /\ sockets' = RemoveFirst(sockets, fd)
    BY <1>2 DEF Transfer
  <2> HIDE DEF new
  <2>2. /\ DOMAIN binds' = DOMAIN binds \cup {Len(binds) + 1} /\ Len(binds) + 1 \notin DOMAIN binds
        /\ binds'[Len(binds) + 1] = new /\ \A i \in DOMAIN binds : binds'[i] = binds[i]
    BY <2>1 DEF Typed, TypeOK
  <2>3. \A i \in DOMAIN binds : binds[i].fd # fd
    <3>1. fds[fd][2] = 0
      BY DEF Bind
    <3> QED
      BY <1>0, <3>1, ThingFacts DEF Inductive, EntriesTrue
  <2>4. \A i, j \in DOMAIN binds' : binds'[i].fd = binds'[j].fd => i = j
    BY <2>1, <2>2, <2>3 DEF Apart
  <2>5. ASSUME NEW f \in Fds, fds'[f] \in {"stream", "dgram"} \X {0}
        PROVE  Contains(sockets', f)
    <3>1. f # fd
      <4>1. fds'[fd][2] = p
        BY <1>2 DEF Typed, TypeOK
      <4>2. fds'[f][2] = 0 /\ p # 0
        BY <2>5, ThingFacts
      <4> QED
        BY <4>1, <4>2
    <3>2. fds'[f] = fds[f]
      BY <1>2, <3>1 DEF Typed, TypeOK
    <3>3. Contains(sockets, f) /\ sockets \in Seq(Fds)
      BY <2>5, <3>2 DEF Apart, Typed, TypeOK
    <3> QED
      BY <2>1, <3>1, <3>3, RemoveFirstFacts
  <2> QED
    BY <2>4, <2>5 DEF Apart
<1> QED
  BY <1>1, <1>2 DEF Bind, Inherit, BindOwn, Careful

LEMMA ApartStep ==
  ASSUME Typed, Inductive, Apart, Careful, [Next]_vars
  PROVE  Apart'
<1>1. ASSUME NEW fd \in Fds, NEW kind \in {"stream", "dgram"}, Socket(fd, kind)
      PROVE  Apart'
  <2>1. /\ sockets' = Append(sockets, fd) /\ binds' = binds
        /\ fds' = [fds EXCEPT ![fd] = <<kind, 0>>]
    BY <1>1 DEF Socket, Open
  <2>2. /\ Len(sockets) \in Nat /\ Len(sockets') = Len(sockets) + 1
        /\ sockets'[Len(sockets) + 1] = fd
        /\ \A i \in 1..Len(sockets) : sockets'[i] = sockets[i]
    BY <2>1 DEF Typed, TypeOK
  <2>3. Contains(sockets', fd) /\ \A f : Contains(sockets, f) => Contains(sockets', f)
    BY <2>2 DEF Contains
  <2> QED
    BY <2>1, <2>3 DEF Apart, Typed, TypeOK
<1>2. ASSUME NEW fd \in Fds, NEW t, t \notin {"stream", "dgram"} \X {0},
             fds' = [fds EXCEPT ![fd] = t], UNCHANGED <<sockets, binds>>
      PROVE  Apart'
  BY <1>2 DEF Apart, Typed, TypeOK
<1>3. ASSUME NEW fd \in Fds, (\E listener \in Fds : Accept4(listener, fd)) \/ Close(fd)
      PROVE  Apart'
  <2>1. Session \notin {"stream", "dgram"} \X {0} /\ Free \notin {"stream", "dgram"} \X {0}
    BY DEF Session, Free
  <2>2. /\ UNCHANGED <<sockets, binds>>
        /\ fds' = [fds EXCEPT ![fd] = Session] \/ fds' = [fds EXCEPT ![fd] = Free]
    BY <1>3 DEF Accept4, Open, Close
  <2> QED
    BY <1>2, <2>1, <2>2
<1>4. CASE UNCHANGED <<fds, sockets, binds>>
  BY <1>4 DEF Apart
<1>5. CASE Handle
  <2>1. /\ UNCHANGED <<fds, sockets>> /\ DOMAIN binds' = DOMAIN binds
        /\ \A i \in DOMAIN binds : binds'[i].fd = binds[i].fd
    BY <1>5, TypedTypes, EntryFacts DEF Handle, Typed, TypeOK, Entries
  <2> QED
    BY <2>1 DEF Apart
<1>6. CASE EpollWait \/ Correct \/ Deliver \/ Return \/ UNCHANGED vars
  BY <1>4, <1>6 DEF EpollWait, Correct, Deliver, Return, vars
<1>7. ASSUME NEW u \in Updates, Ask(u) \/ Announce(u) \/ AskElsewhere(u)
      PROVE  Apart'
  BY <1>4, <1>7 DEF Ask, Announce, AskElsewhere, Moves
<1> QED
  BY <1>1, <1>3, <1>5, <1>6, <1>7, BindApart DEF Next

\* What entries say is true, and about each socket one entry says it.
Sound == Typed /\ Inductive /\ Apart /\ MarksGone

LEMMA InitSound == Init => Sound
<1> SUFFICES ASSUME Init PROVE Sound
  OBVIOUS
<1>1. at = "app" /\ DOMAIN binds = {}
  BY DEF Init
<1>2. \A fd \in Fds : fds[fd] \notin {"stream", "dgram"} \X {0}
  BY DEF Init, Free
<1> QED
  BY <1>1, <1>2, InitTyped, InitFaithful DEF Sound, Apart, MarksGone

LEMMA SoundAlways == Careful => (Spec => []Sound)
<1> SUFFICES ASSUME Careful PROVE Spec => []Sound
  OBVIOUS
<1>1. Sound /\ [Next]_vars => Sound'
  BY TypedTypes, TypedStep, FaithfulStep, ApartStep, MarksStep DEF Sound
<1> QED
  BY <1>1, InitSound, PTL DEF Spec

\* The second half of the inductive invariant of a program that is careful: one
\* entry for each descriptor, and the marks in the event array where the two loops
\* over it expect them (dsu_sockets_transfer_fd, dsu_epoll_correct_events).
THEOREM ListsSound == Careful => (Spec => []ListsInductive)
<1>1. Sound => ListsInductive
  BY DEF Sound, ListsInductive
<1> QED
  BY <1>1, SoundAlways, PTL

\* A careful program has every socket where the library will look for it: in
\* `sockets` until it is bound, and then in exactly one entry of `binds`, under its
\* port - although close() takes nothing out of the lists, descriptors are used
\* again, and stale ones stay in `sockets` (socket, dsu_sockets_transfer_fd).
THEOREM AllShadowed == Careful => (Spec => []Shadowed)
<1>1. Sound => Shadowed
  <2> SUFFICES ASSUME Sound, NEW fd \in Fds
      PROVE  /\ fds[fd] \in {"stream", "dgram"} \X {0} => Contains(sockets, fd)
             /\ fds[fd][2] # 0 =>
                  Cardinality({i \in DOMAIN binds : binds[i].fd = fd /\ binds[i].port = fds[fd][2]}) = 1
    BY DEF Shadowed
  <2>1. fds[fd] \in {"stream", "dgram"} \X {0} => Contains(sockets, fd)
    BY DEF Sound, Apart
  <2>2. ASSUME fds[fd][2] # 0
        PROVE  Cardinality({i \in DOMAIN binds : binds[i].fd = fd /\ binds[i].port = fds[fd][2]}) = 1
    <3>1. PICK i \in DOMAIN binds : binds[i].fd = fd /\ binds[i].port = fds[fd][2]
      BY <2>2 DEF Sound, Inductive, Entered
    <3>2. {j \in DOMAIN binds : binds[j].fd = fd /\ binds[j].port = fds[fd][2]} = {i}
      BY <3>1 DEF Sound, Apart
    <3> QED
      BY <3>2, FS_Singleton
  <2> QED
    BY <2>1, <2>2
<1> QED
  BY <1>1, SoundAlways, PTL

=============================================================================
