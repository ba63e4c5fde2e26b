---------------------------- MODULE ShadowSockets ----------------------------
(***************************************************************************)
(* The lists in which the library shadows the sockets of a program that    *)
(* serves several ports, as one process with epoll sees them:              *)
(* dsu_program_state.sockets, of sockets not bound yet, and                *)
(* dsu_program_state.binds, of those that were, over which the event loop  *)
(* and termination detection run.                                          *)
(*                                                                         *)
(* Entries know their sockets by descriptor number, and the kernel gives a *)
(* closed number to the next one who asks.  The older and the newer        *)
(* version are the environment: Handover and WorkerPool model them.        *)
(***************************************************************************)
EXTENDS Naturals, Sequences, SequencesExt, FiniteSets

CONSTANTS
  Ports,         \* positive numbers
  Services,      \* the kinds of sockets the program binds to them
  Older,         \* those that an older version serves at first
  Updates,       \* a port and a number for each newer version that asks for it
  MaxFd,         \* descriptors are numbered from 1
  MaxSockets,    \* bounds the sockets that are in a list
  MaxEvents,     \* the argument of epoll_wait()
  Allowed        \* what the program may do though it does not go well

Mishaps == {"close",    \* close a socket that is bound
            "unbound",  \* close a stream socket that never was
            "twice",    \* bind two sockets to one port
            "fails",    \* go on after a bind() that failed
            "early"}    \* enter its event loop before it serves a port

ASSUME ShadowConstants ==
  /\ Ports \subseteq Nat \ {0} /\ Older \subseteq Ports
  /\ Services \subseteq {"stream", "dgram"} \X Ports
  /\ Updates \subseteq Ports \X Nat
  /\ MaxFd \in Nat \ {0} /\ MaxSockets \in Nat /\ MaxEvents \in Nat \ {0}
  /\ Allowed \subseteq Mishaps

VARIABLES
  fds,      \* what each descriptor refers to: a kind, and a port if bound
  sockets,  \* descriptors, in the order of socket()
  binds,    \* entries, in the order of bind()
  tokens,   \* how many sessions are counted
  at,       \* where the program stands
  entry,    \* the entry at hand while it handles events, then the event
  events,   \* the array epoll_wait() fills in
  batch,    \* what the kernel put there
  older,    \* ports for which the older version waits for a report
  newer,    \* how far each newer version is with its port
  given     \* what it was sent as the socket of the port

vars == <<fds, sockets, binds, tokens, at, entry, events, batch, older, newer, given>>

Fds == 1..MaxFd

Free    == <<"free", 0>>
Session == <<"session", 0>>
Things  == {Free, Session} \cup ({"stream", "dgram"} \X (Ports \cup {0}))

Entries == [fd : Fds, port : Ports, owes : BOOLEAN, ready : BOOLEAN]

\* What a descriptor in the event list stands for: the port of the entry comes
\* second or, for the application's own, the descriptor.
Gone       == <<"gone", 0>>
Message(u) == <<"message", u[1], u[2]>>
Slots == {Gone} \cup ({"comfd", "readyfd"} \X Ports) \cup {Message(u) : u \in Updates}
           \cup ({"own"} \X Fds)

\* A newer version connects, is accepted, asks for the port and is served, reports
\* that it serves it and is heard - or is accepted by one that serves it already.
Stages == {"none", "connected", "asking", "served", "reported", "done", "elsewhere"}

TypeOK ==
  /\ fds \in [Fds -> Things]
  /\ sockets \in Seq(Fds) /\ binds \in Seq(Entries)
  /\ tokens \in Nat /\ entry \in Nat
  /\ at \in {"app", "call", "wait", "handle", "correct", "stuck", "ended"}
  /\ events \in Seq(Slots) /\ batch \in Seq(Slots)
  /\ older \subseteq Older
  /\ newer \in [Updates -> Stages]
  /\ given \in [Updates -> Things]

Init ==
  /\ fds = [f \in Fds |-> Free]
  /\ sockets = <<>> /\ binds = <<>>
  /\ tokens = 0
  /\ at = "app" /\ entry = 0
  /\ events = <<>> /\ batch = <<>>
  /\ older = Older
  /\ newer = [u \in Updates |-> "none"]
  /\ given = [u \in Updates |-> Free]

-----------------------------------------------------------------------------
(* Calls of the application.  It has looked at its events when it makes one. *)

Called == at = "app" /\ events' = <<>> /\ batch' = <<>>

\* The kernel takes the lowest number that is free.
Lowest(fd) == fds[fd] = Free /\ \A g \in Fds : fds[g] = Free => fd <= g

Open(fd, thing) == Lowest(fd) /\ fds' = [fds EXCEPT ![fd] = thing]

\* socket(): dsu_sockets_add().
Socket(fd, kind) ==
  /\ Called
  /\ Len(sockets) + Len(binds) < MaxSockets
  /\ Open(fd, <<kind, 0>>)
  /\ sockets' = Append(sockets, fd)
  /\ UNCHANGED <<binds, tokens, at, entry, older, newer, given>>

\* The oldest entry of `sockets` goes instead of the one for fd.
WrongTransfer(fd, p, owes) ==
  /\ binds' = Append(binds, [fd |-> fd, port |-> p, owes |-> owes, ready |-> FALSE])
  /\ sockets' = Tail(sockets)

\* dsu_sockets_transfer_fd(): the first entry for fd moves to the end of `binds`.
Transfer(fd, p, owes) ==
  /\ binds' = Append(binds, [fd |-> fd, port |-> p, owes |-> owes, ready |-> FALSE])
  /\ sockets' = RemoveFirst(sockets, fd)

\* This program holds the name of p.  It does so for life: nothing closes the
\* comfd of an entry.
HoldsName(p) == \E i \in DOMAIN binds : binds[i].port = p

\* The descriptor is not replaced by the one received.
WrongInherit(fd, p) == Transfer(fd, p, TRUE) /\ UNCHANGED <<fds, at>>

\* The older version holds the name and answers: dup2() of what it sends.
Inherit(fd, p) ==
  /\ Transfer(fd, p, TRUE)
  /\ fds' = [fds EXCEPT ![fd] = <<@[1], p>>]
  /\ UNCHANGED at

\* Nobody holds the name.  The entry is moved before the port is bound.
BindOwn(fd, p) ==
  /\ Transfer(fd, p, FALSE)
  /\ \/ fds' = [fds EXCEPT ![fd] = <<@[1], p>>]
     \/ "fails" \in Allowed /\ UNCHANGED fds
  /\ UNCHANGED at

\* bind().  A program that holds the name itself has connected to its own comfd
\* and waits in recvmsg() for an answer only it could give.
Bind(fd, p) ==
  /\ Called
  /\ fds[fd] \in {"stream", "dgram"} \X {0} /\ Contains(sockets, fd)
  /\ <<fds[fd][1], p>> \in Services
  /\ "twice" \in Allowed \/ \A f \in Fds : fds[f][2] # p
  /\ IF p \in older THEN Inherit(fd, p)
     ELSE IF ~HoldsName(p) THEN BindOwn(fd, p)
     ELSE at' = "stuck" /\ UNCHANGED <<fds, sockets, binds>>
  /\ UNCHANGED <<tokens, entry, older, newer, given>>

\* accept4() on a socket that has a client.
Accept4(listener, fd) ==
  /\ Called
  /\ Contains(events, <<"own", listener>>) /\ fds[listener] \in {"stream"} \X Ports
  /\ Open(fd, Session)
  /\ tokens' = tokens + 1
  /\ UNCHANGED <<sockets, binds, at, entry, older, newer, given>>

\* A token is taken for any socket, and missed by none.
WrongTakeToken(fd) == tokens - 1

\* For each stream socket that does not listen, as those do that are bound.  The
\* library takes none for another family than AF_INET: here all are of it, as
\* bind() assumes too.
TakeToken(fd) ==
  IF fds[fd] \in {Session, <<"stream", 0>>} /\ tokens > 0 THEN tokens - 1 ELSE tokens

\* close() leaves the lists alone.
Close(fd) ==
  /\ Called
  /\ fds[fd] # Free
  /\ fds[fd][2] # 0 => "close" \in Allowed
  /\ fds[fd] = <<"stream", 0>> => "unbound" \in Allowed
  /\ fds' = [fds EXCEPT ![fd] = Free]
  /\ tokens' = TakeToken(fd)
  /\ UNCHANGED <<sockets, binds, at, entry, older, newer, given>>

-----------------------------------------------------------------------------
(* epoll_wait().                                                           *)

\* The stream stays in the list when the newer version has reported.
WrongComfds(e) ==
  {u \in Updates : u[1] = e.port /\ newer[u] \in {"asking", "served", "reported", "done"}}

\* Streams that the entry has accepted and that are still open.
Comfds(e) == {u \in Updates : u[1] = e.port /\ newer[u] \in {"asking", "served", "reported"}}

\* Only the first entry is looked at.
WrongTerminating ==
  /\ tokens = 0
  /\ binds # <<>> => Head(binds).ready /\ Comfds(Head(binds)) = {}

\* dsu_termination_detection().
Terminating ==
  /\ tokens = 0
  /\ \A i \in DOMAIN binds : binds[i].ready /\ Comfds(binds[i]) = {}

\* Called, or called again by itself.
EpollWait ==
  /\ at \in {"app", "call"}
  /\ binds = <<>> => "early" \in Allowed
  /\ at' = IF Terminating THEN "ended" ELSE "wait"
  /\ events' = <<>> /\ batch' = <<>>
  /\ UNCHANGED <<fds, sockets, binds, tokens, entry, older, newer, given>>

\* dsu_epoll_internal_conn() removes the descriptor of a port that is ready,
\* whatever it refers to by now.
Watched(fd) ==
  /\ fds[fd] = Session \/ fds[fd][2] # 0
  /\ \A i \in DOMAIN binds : binds[i].ready => binds[i].fd # fd

\* Who waits in the backlog of comfd, and who has been heard.
Backlog(p) == {u \in Updates : u[1] = p /\ newer[u] = "connected"}
Heard(p)   == {u \in Updates : u[1] = p /\ newer[u] = "done"}

\* ... and adds the library's own.  Nobody reads what is in readyfd.
Internal(e) ==
  {Message(u) : u \in {v \in Updates : v[1] = e.port /\ newer[v] \in {"asking", "reported"}}}
    \cup {ev \in {"comfd", "readyfd"} \X {e.port} :
            /\ ~e.ready
            /\ IF ev[1] = "comfd" THEN Backlog(e.port) # {} ELSE Heard(e.port) # {}}

Readable ==
  ({"own"} \X {f \in Fds : Watched(f)}) \cup UNION {Internal(binds[i]) : i \in DOMAIN binds}

Batches == UNION {SetToSeqs(S) : S \in {R \in SUBSET Readable : Cardinality(R) \in 0..MaxEvents}}

\* The kernel returns some of what is readable, in any order, or nothing after the
\* timeout of the call.
Return ==
  /\ at = "wait"
  /\ batch' \in Batches /\ events' = batch'
  /\ at' = (IF binds = <<>> THEN "correct" ELSE "handle") /\ entry' = 1
  /\ UNCHANGED <<fds, sockets, binds, tokens, older, newer, given>>

\* On one and the same stream a number asks for the port it names and the
\* number 1 reports: port 1 cannot be asked for.
Asks(u) == newer[u] = "asking" /\ u[1] # 1

\* How far a newer version is when its message has been handled.
After(u) == IF Asks(u) THEN "served" ELSE "done"

\* The socket of the first entry, for all ports.
WrongSent(e) == fds[Head(binds).fd]

\* What dsu_write_fd() passes on: whatever the number refers to by now.
Sent(e) == fds[e.fd]

\* After the last entry dsu_epoll_correct_events() starts.
Advance ==
  IF entry < Len(binds) THEN entry' = entry + 1 /\ UNCHANGED at
  ELSE at' = "correct" /\ entry' = 1

\* The loop over the events, come to place k, handles it for entry e.  It goes past
\* comfd if the entry is ready, or has become so at an earlier place.
Handles(e, k) ==
  /\ events[k][1] \in {"comfd", "message", "readyfd"} /\ events[k][2] = e.port
  /\ events[k][1] = "comfd" => ~e.ready /\ \A j \in 1..(k - 1) : events[j] # <<"readyfd", e.port>>

\* What dsu_accept4() takes out of the backlog: the oldest stream, if there is any.
Accepted(p, handled) ==
  {u \in Backlog(p) : <<"comfd", p>> \in handled /\ \A v \in Backlog(p) : u[2] <= v[2]}

\* dsu_handle_conn_epoll() for one entry: report to the older version, accept a
\* stream, answer or hear newer versions, become ready, and mark what was handled
\* as gone.
Handle ==
  /\ at = "handle"
  /\ LET e       == binds[entry]
         places  == {k \in DOMAIN events : Handles(e, k)}
         handled == {events[k] : k \in places}
     IN  /\ older' = IF e.owes THEN older \ {e.port} ELSE older
         /\ binds' = [binds EXCEPT ![entry].owes = FALSE,
                                   ![entry].ready = @ \/ <<"readyfd", e.port>> \in handled]
         /\ newer' = [u \in Updates |-> IF u \in Accepted(e.port, handled) THEN "asking"
                                       ELSE IF Message(u) \in handled THEN After(u)
                                       ELSE newer[u]]
         /\ given' = [u \in Updates |->
                        IF Message(u) \in handled /\ Asks(u) THEN Sent(e) ELSE given[u]]
         /\ events' = [k \in DOMAIN events |-> IF k \in places THEN Gone ELSE events[k]]
  /\ Advance
  /\ UNCHANGED <<fds, sockets, tokens, batch>>

\* The place just filled is not looked at again.
WrongCompact(i) ==
  /\ events' = IF events[i] = Gone THEN RemoveAt(events, i) ELSE events
  /\ entry' = i + 1

\* One turn of its loop: a gap is closed in place, and what stands there now is
\* looked at next.
Compact(i) ==
  IF events[i] = Gone
  THEN events' = RemoveAt(events, i) /\ entry' = i
  ELSE entry' = i + 1 /\ UNCHANGED events

Correct ==
  /\ at = "correct" /\ entry <= Len(events)
  /\ Compact(entry)
  /\ UNCHANGED <<fds, sockets, binds, tokens, at, batch, older, newer, given>>

\* The application gets what is left.  If nothing is left of what the kernel
\* returned, and the call has no timeout, epoll_wait() starts again.
Deliver ==
  /\ at = "correct" /\ entry > Len(events)
  /\ at' \in {"app"} \cup (IF events = <<>> /\ batch # <<>> THEN {"call"} ELSE {})
  /\ entry' = 0 /\ batch' = <<>>
  /\ UNCHANGED <<fds, sockets, binds, tokens, events, older, newer, given>>

-----------------------------------------------------------------------------
(* Newer versions.                                                         *)

Moves(u, from, to) ==
  /\ newer[u] = from /\ newer' = [newer EXCEPT ![u] = to]
  /\ UNCHANGED <<fds, sockets, binds, tokens, at, entry, events, batch, older, given>>

\* It binds its port, finds the name taken and asks.  Those that ask for one port
\* are numbered in the order in which they do.
Ask(u) ==
  /\ at # "ended" /\ HoldsName(u[1])
  /\ \A v \in Updates : v[1] = u[1] /\ v[2] < u[2] => newer[v] # "none"
  /\ Moves(u, "none", "connected")

\* It has reached its event loop.
Announce(u) == Moves(u, "served", "reported")

\* It is accepted by one that is in its event loop, with the same comfd.
AskElsewhere(u) ==
  /\ \E v \in Updates : v[1] = u[1] /\ newer[v] \in {"reported", "done"}
  /\ \A v \in Backlog(u[1]) : u[2] <= v[2]
  /\ Moves(u, "connected", "elsewhere")

-----------------------------------------------------------------------------
Next ==
  \/ \E fd \in Fds :
       \/ \E kind \in {"stream", "dgram"} : Socket(fd, kind)
       \/ \E p \in Ports : Bind(fd, p)
       \/ \E listener \in Fds : Accept4(listener, fd)
       \/ Close(fd)
  \/ EpollWait \/ Return \/ Handle \/ Correct \/ Deliver
  \/ \E u \in Updates : Ask(u) \/ Announce(u) \/ AskElsewhere(u)

Spec == Init /\ [][Next]_vars

(* The program comes back to its event loop, and the kernel's list of ready *)
(* descriptors goes round, so that none is left out for ever.  A client     *)
(* hangs up some day, and the program then closes the session.             *)
FairSpec ==
  /\ Spec
  /\ WF_vars(EpollWait \/ Handle \/ Correct \/ Deliver)
  /\ SF_vars(Return /\ \E ev \in ToSet(batch') : ev[1] \in {"message", "readyfd"})
  /\ SF_vars(Return /\ \E ev \in ToSet(batch') : ev[1] = "own" /\ fds[ev[2]] = Session)
  /\ SF_vars(\E fd \in Fds : fds[fd] = Session /\ Close(fd))

-----------------------------------------------------------------------------
(* Properties.                                                             *)

\* Each socket is shadowed where the library will look for it: one that is not
\* bound in `sockets`, one that is in exactly one entry of `binds`, under its
\* port (comment at the end of close()).
Shadowed ==
  \A fd \in Fds :
    /\ fds[fd] \in {"stream", "dgram"} \X {0} => Contains(sockets, fd)
    /\ fds[fd][2] # 0 =>
         Cardinality({i \in DOMAIN binds : binds[i].fd = fd /\ binds[i].port = fds[fd][2]}) = 1

\* A newer version is sent a socket bound to the port it asked for
\* (dsu_inherit_fd: "the file descriptor that is binded to the same port").
RightSocket ==
  \A u \in Updates : newer[u] \in {"served", "reported", "done"} => given[u][2] = u[1]

\* The older version is told to stop serving a port only by a program that has
\* a socket bound to it.
TruthfulReport == \A p \in Older \ older : \E fd \in Fds : fds[fd][2] = p

\* The events of the application in a list from the kernel.
Own(list) == {k \in DOMAIN list : list[k][1] = "own"}

\* The event of comfd behind that of readyfd, which no branch of the loop over the
\* events looks at.
Skipped(n) ==
  batch[n][1] = "comfd" /\ \E m \in 1..(n - 1) : batch[m] = <<"readyfd", batch[n][2]>>

\* from[k] is the place in `batch` of the event that is now at place k; from place
\* n on there may be marks.
Sifted(from, n) ==
  /\ from \in [DOMAIN events -> DOMAIN batch]
  /\ \A j, k \in DOMAIN events : j < k => from[j] < from[k]
  /\ \A m \in Own(batch) : \E k \in DOMAIN events : from[k] = m
  /\ \A k \in DOMAIN events :
       \/ events[k] = batch[from[k]] /\ (from[k] \in Own(batch) \/ Skipped(from[k]))
       \/ events[k] = Gone /\ from[k] \notin Own(batch) /\ k >= n

\* What epoll_wait() is about to return holds each event of the application, in the
\* kernel's order and none twice, and of the library's nothing but a comfd that
\* came behind its readyfd.  ("Remove internal connections from the event list"
\* promises that not even this is left: pool_leak refutes it.)
OwnEvents ==
  at = "correct" /\ entry > Len(events)
    => \E from \in [DOMAIN events -> DOMAIN batch] : Sifted(from, entry)

\* The program is killed only when a newer version serves every port it has
\* bound and no session is open.
OnlyWhenDone ==
  at = "ended" =>
    /\ \E u \in Updates : newer[u] = "done"
    /\ \A fd \in Fds : fds[fd] # Session /\ (fds[fd][2] # 0 => Heard(fds[fd][2]) # {})

(* What these rest on, inductive together as long as bound sockets are not  *)
(* closed, bind() does not fail and nobody serves port 1.                  *)

\* Entries say the truth about sockets, and about the newer version.
EntriesTrue ==
  \A i \in DOMAIN binds :
    /\ fds[binds[i].fd][2] = binds[i].port
    /\ binds[i].ready => Heard(binds[i].port) # {}

\* Every bound socket has an entry, and so has every port that was reported.
Entered ==
  /\ \A fd \in Fds : fds[fd][2] # 0 =>
       \E i \in DOMAIN binds : binds[i].fd = fd /\ binds[i].port = fds[fd][2]
  /\ \A p \in Older \ older : HoldsName(p)

\* An event that is not handled yet still means what it did when it was returned,
\* unless it is of comfd: somebody else may have accepted who asked.
EventsTrue ==
  at = "handle" => \A k \in DOMAIN events :
    /\ \A u \in Updates : events[k] = Message(u) => newer[u] \in {"asking", "reported"}
    /\ \A p \in Ports : events[k] = <<"readyfd", p>> => Heard(p) # {}

Inductive == EntriesTrue /\ Entered /\ EventsTrue /\ RightSocket

(* What Shadowed and OwnEvents rest on besides; the second part holds whatever *)
(* the program does.                                                       *)

\* No two entries have the same descriptor, and each socket that is not bound yet
\* will be found in `sockets`.
Apart ==
  /\ \A i, j \in DOMAIN binds : binds[i].fd = binds[j].fd => i = j
  /\ \A fd \in Fds : fds[fd] \in {"stream", "dgram"} \X {0} => Contains(sockets, fd)

\* Each event of the library is marked before the loop over the entries ends, or
\* is one that is skipped, and no mark is left behind by the loop that closes the
\* gaps.  An entry does not become ready before its turn.
MarksGone ==
  /\ at \in {"handle", "correct"} => entry # 0
  /\ at = "handle" => DOMAIN events = DOMAIN batch /\ \A k \in DOMAIN events :
       IF events[k] # batch[k] THEN events[k] = Gone /\ k \notin Own(batch)
       ELSE \/ k \in Own(batch) \/ Skipped(k)
            \/ \E i \in DOMAIN binds :
                 /\ i >= entry /\ events[k][2] = binds[i].port
                 /\ events[k][1] = "comfd" => ~binds[i].ready
  /\ at = "correct" => \E from \in [DOMAIN events -> DOMAIN batch] : Sifted(from, entry)

ListsInductive == Apart /\ MarksGone

\* bind() comes back (its comment: "processes will not communicate with each
\* other").
BindReturns == at # "stuck"

\* Of each port some newer version has reported that it serves it, and so has
\* every other one that was sent the socket of it.
AllTaken ==
  binds # <<>> /\ \A i \in DOMAIN binds :
    /\ Heard(binds[i].port) # {}
    /\ \A u \in Updates : u[1] = binds[i].port => newer[u] # "served"

\* Once newer versions have taken over all ports this one comes to its end, if it
\* neither binds another one nor serves yet another version.
Retires == AllTaken ~> at = "ended" \/ ~AllTaken

=============================================================================
