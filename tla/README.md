# A verification of openDSU

openDSU is a shared library that is preloaded into a server. It wraps `bind`,
`accept`, `close`, `epoll_wait` and `select` so that a newer version of the
server, started next to the running one, receives the listening socket over a
Unix domain socket, starts serving, and makes the older version drain its
clients and kill its process group. This directory holds TLA+ models of that
protocol, the TLC runs that check them, and TLAPS proofs about them.

Paths below are those of the repository; `core.c`, `state.c` and
`communication.c` are in `src/`, `epoll.c` and `select.c` in
`src/event_handlers/`.

## 1. The system

### 1.1 Components

| Component | State it keeps | Operations | What makes it correct |
|---|---|---|---|
| Worker group (`core.c`) | three datagram socket pairs made before any `fork()`: `activate`/`deactivate`, `accept`/`close`, `ping`/`wakeup`; per process `live` | `dsu_activate_process`, `dsu_deactivate_process`, `dsu_termination_detection`, `dsu_terminate`, `ping` | the group is killed once, by its last worker, never over a client, and it *is* killed once it has been superseded |
| Session accounting (`core.c`) | one token per open session in `accept`/`close` | `accept4`, `accept`, `close` | as many tokens as sessions |
| epoll handler (`epoll.c`) | `dsu_socket_list.ready`, `comfds`, the event list | `epoll_wait`: activate, check, add own descriptors, wait, handle own events, strip them | no lost wakeup; no descriptor of the library reaches the application (one does, `pool_leak`); newer versions are answered |
| select handler (`select.c`) | the same, plus descriptor sets and `correction` | `select` | the same |
| Handover (`core.c`, `communication.c`, and the two handlers) | the abstract name made from the port, the socket `comfd` bound to it, the stream of each newer version, `comfd_close`, `readyfd` | `bind`, `dsu_monitor_init`, `dsu_inherit_fd`, `dsu_write_fd`, `dsu_read_fd` | the port is always served, the servers share one socket, one version is left |
| Shadow lists (`state.c`) | `binds`, `sockets`, `comfds` linked lists | `dsu_sockets_add`, `dsu_sockets_remove_fd`, `dsu_sockets_transfer_fd`, searches | a socket is in one list at most, with the state of the descriptor it shadows |
| Event list compaction (`epoll.c`) | the array given back by the kernel | `dsu_epoll_correct_events`, `dsu_remove_internal` | the application's events are left, all of them and in order |
| Other wrappers, launcher, logging | - | `signal`, `sigaction`, `exec.c`, `utils.c` | - |

The processes of one version share what was open before the `fork()`: the socket
pairs, `readyfd`, the public socket and `comfd`. Each has its own copy of
`dsu_program_state`, and the streams it accepted are its own. Different versions share what the kernel
keeps: the name, the listening sockets and the streams. The application drives
the library by calling the wrapped functions; the library never calls it back.

### 1.2 What is hard

* *Atomicity.* A wrapper is a system call plus a token, in two steps
  (`core.c:580`, `core.c:620`), and deactivation is a receive and then a peek
  (`core.c:213`); the other workers run in between.
* *Capacity.* The pairs are non-blocking and hold a bounded number of datagrams;
  a failed send is only logged.
* *Lost wakeup.* A worker whose last session somebody else closed must be
  woken to notice that it may terminate, and one datagram is shared by all
  sleepers.
* *Stale batches.* The events `epoll_wait` returned may have been taken by
  another worker by the time they are handled, and come in any order.
* *Crashes.* A worker, the older or the newer version may die between any two
  steps; descriptors are closed by the kernel, tokens are not taken back.
* *Overlapping updates.* All versions accept requests for the port from one
  backlog.
* *Reused descriptors.* The lists know sockets by number, and the kernel gives
  the number of a closed socket to the next one.

`PROJECT.json` lists every such place, at its line, with the properties that
would catch it going wrong.

## 2. Modules

### 2.1 `WorkerPool`

One version, seen from inside: its workers from their first call of the event
loop to `killpg()`. One step is one system call on an object the processes
share, so that all interleavings of the two-step wrappers are explored.

| Model | Code |
|---|---|
| `wtok`, `sess`, `pings` | datagrams between `activate`/`deactivate`, `accept`/`close`, `ping`/`wakeup`; `Put` drops at `QueueCap`, `Take` does nothing on an empty queue |
| `pc`, `live` | where the process stands; `dsu_live_epoll` and `dsu_live` |
| `Enter`, `Activate`, `ActivatePeek` | `dsu_change_number_of_workers(1)` at the head of `epoll_wait()` and `select()` |
| `TerminationCheck`, `Drained` | `dsu_termination_detection()` |
| `Deactivate`, `LastWorker`, `KillGroup`, `Ping` | `dsu_terminate()` |
| `Wake`, `Events` | the system call with what the handler adds to the watched set (`dsu_epoll_internal_conn()`, `dsu_sniff_conn()`) |
| `HandleWakeup`, `HandleReady`, `HandleComfd`, `HandleMessage` | the branches of `dsu_handle_conn_epoll()`, and `dsu_handle_conn()` with `dsu_post_select()` |
| `Return` | compaction of the list, then the return to the application, or, if nothing is left and the call has no timeout, a call of the wrapper by itself |
| `Accept`+`CountAccept`, `Close`+`CountClose` | `accept4()` and `accept()`, `close()` |
| `Exit`, `UpdaterCrash` | death of a worker or of a newer version in `MayExit`, at any step |
| `Connect`, `End`, `Updater...`, `Successor...` | environment: clients, processes of newer versions |

`Handler` and `AcceptCall` select which of the library's wrappers the
application uses; `MayExit`, `LateStart` and `WriteFails` switch on a death, a
worker that enters its loop during an update, and the failure of
`dsu_write_fd()`.

Assumptions of the model:

* One listening port per version, with a non-blocking public socket; the
  shadow lists are then one entry of `binds`.
* Each worker has its own epoll descriptor and is forked before its first event
  call.
* `epoll_wait()` may return every readable descriptor to every waiting worker.
  `EPOLLEXCLUSIVE` only makes some of these returns not happen; a return the
  model has and the kernel does not is one after which somebody else has taken
  the event, a case the code has to handle anyway.
* A readable session is one the client has ended: requests and answers on an
  open session change no state of the library.
* `sigwait()` on `SIGKILL` never returns: a parked worker is at its end. The
  kill stops all workers where they stand; the state after it is what they
  left.
* A newer version reports at most once, and its report is sent whole.
* All sockets are of `AF_INET`: `close()` takes a token for no other family,
  while `accept4()` puts one for any. `bind()` assumes the same when it reads
  the port number (`core.c:499`).
* A receive on a stream returns a message, the end of the stream, or the error
  of a stream whose peer died before it had read what it was sent
  (`inbox = "reset"`). Of the last the code says "unknown error", and answers
  as if it had been asked for a port (`epoll.c:220`): the answer fails, and the
  stream stays until its end is seen.
* A peer that is gone makes a send fail. That it may also raise `SIGPIPE` is
  the subject of `Handover`; here a worker that dies so is one of `MayExit`.
* `select()` does not fail. After an error it would return with the library's
  descriptors still in the application's sets (`select.c:305`).
* A newer version inherits only if both descriptors are sent. One that got
  fewer waits (`WriteFails`).

### 2.2 `Handover`

All versions of one server, each one process with one port, from `bind()` to
the end. `WorkerPool` says when a superseded version may end; here it may end
when no newer version holds a stream with it.

| Model | Code |
|---|---|
| `pub`, `com` | the sockets behind the public descriptor and behind `comfd` |
| `names`, `listens`, `Named` | the abstract name and the socket bound to it; it is free again when nobody refers to that socket (`Exists`) |
| `stream`, `to`, `asks`, `mail` | the connection made in `dsu_inherit_fd()`: whose backlog it is in or who accepted it, the number sent on it, the descriptors on their way back |
| `owes` | `comfd_close > 0` |
| `duty` | `readyfd` not readable, readable, seen (`ready`) |
| `Start`, `Listen` | `dsu_monitor_init()`, between whose `bind()` and `listen()` another version may come |
| `Connect`, `Send`, `Receive` | `dsu_inherit_fd()`: `connect()`, `send()` of the port, the two calls of `dsu_read_fd()` |
| `BindPort` | the rest of `bind()` when nothing was inherited |
| `EnterLoop`, `Report` | the application reaches its event loop; the number 1 is sent and the stream closed |
| `Accept`, `Serve`, `HearReady`, `HangUp`, `Drain` | the event handlers, on behalf of other versions |
| `End` | the end `WorkerPool` describes |
| `Crash`, `CrashServing` | the death of a version at any step, and between the two sends of the descriptors |

Assumptions of the model:

* `bind()` and `listen()` of the public port are one step, without
  `SO_REUSEPORT`; a version whose `bind()` fails gives up.
* The backlog of `comfd` (5) never fills up: `connect()` would only wait.
* A version that inherited the port but not `comfd` goes on with no listening
  socket as `comfd` (`None`). In the code that is descriptor 0, which is
  watched instead; its events are not modelled. Neither are those of the dead
  stream that stays in `comfd` after a fallback.
* A version that dies with a descriptor unread on its stream makes the next
  receive of the serving one fail (`Reset`). That one then answers as if it had
  been asked (`select.c:138`), and its send fails, or with `SigPipe` ends it;
  the stream is closed only at its end.
* With epoll the report goes out with the first return of `epoll_wait()`. With
  select it takes a client (`dsu_post_select()`), which a version that is
  itself being drained does not look at; `MayHandle` and `Report` differ
  accordingly.

### 2.3 `ShadowSockets`

One process with epoll and several ports: the lists `sockets` and `binds` as
sequences, and the descriptor table of the process, where numbers are used
again. Where `WorkerPool` has one port and many workers, this module has many
ports and one worker; the older version and the newer ones are reduced to what
they do next with each port. `Services` says which kind of socket, of TCP or of
UDP, the program binds to which port. `Updates` are pairs of a port and a
number, one for each newer version that asks for the port.

| Model | Code |
|---|---|
| `fds` | descriptor table: what each number refers to |
| `sockets`, `binds` | the lists of `dsu_program_state`; an entry has `fd`, `port`, `owes` (`comfd_close > 0`) and `ready` |
| `newer` | how far each newer version is with its port: stream in the backlog of `comfd`, accepted (in `comfds`) and asking, served, reported, heard, or served by another newer version |
| `given` | the socket it was sent for the port |
| `events`, `batch` | the array `epoll_wait()` fills in, and what the kernel put there |
| `Socket`, `Bind`, `Accept4`, `Close` | the wrappers; `Bind` has one branch each for a port that is inherited, one that is free, and one whose name the program holds itself |
| `Transfer`, `Inherit`, `BindOwn`, `TakeToken` | `dsu_sockets_transfer_fd()`, `dsu_inherit_fd()`, the end of `bind()`, the receive in `close()` |
| `EpollWait`, `Terminating`, `Readable` | head of `epoll_wait()`: `dsu_termination_detection()`, `dsu_epoll_internal_conn()` |
| `Return` | the system call: any batch of readable descriptors up to `MaxEvents`, in any order, or none after a timeout |
| `Handle`, `Handles` | `dsu_handle_conn_epoll()` for one entry after the other, and which places of the array it handles: not `comfd` if the entry is ready, or becomes ready at an earlier place (`epoll.c:109`) |
| `Correct`, `Compact`, `Deliver` | `dsu_epoll_correct_events()`, one step for each turn of its loop, in place as in the code; then the return to the application, or the wrapper's call of itself |
| `Ask`, `Announce`, `AskElsewhere` | environment: `bind()` and event loop of a newer version, and another one that accepts its stream from the shared `comfd` |

`Allowed` lists what a program may do although the library does not cope with
it: close a bound socket (`"close"`), close a stream socket that is no session
(`"unbound"`), bind two sockets to one port (`"twice"`), go on after a `bind()`
that failed (`"fails"`), wait for events before it serves a port (`"early"`).

Assumptions of the model:

* Newer versions do not die, and each asks once for a port; `Handover` has the
  crashes. `dsu_write_fd()` succeeds. Several may ask for one port, and are
  numbered in the order in which they do: `accept4()` takes the oldest stream of
  the backlog, here or in a newer version that has reported.
* Two entries of one port, which `"twice"` and `"close"` lead to, have their
  events in common.
* All sockets are of `AF_INET`, as in `WorkerPool`.
* A port belongs to the older version until it has been reported, and the older
  version answers at once.
* No datagram is lost (`WorkerPool` loses them), and `wakeup` is left out: one
  process pings nobody.
* Applications store their descriptor in `data.fd` of an event.

### 2.4 `VersionLife` and `PortService`

Two abstract specifications.

`VersionLife` is what one version promises: it admits clients and streams of
newer versions, is superseded by a version whose stream it holds, and ends only
when it is superseded and holds no client and no stream. `WorkerPool`
implements it (`LivesAsOne`): `clients` are the connections some worker has
accepted, `streams` those of all workers, and `phase` is read off `marked` (a
report has been heard) and `killed`. `Handover`, in which a version is one step from
draining to its end, implements it version by version (`LivesAsPromised`). So
the two modules meet in one specification: what `Handover` takes for granted of
a version is what `WorkerPool` provides.

`PortService` is what all versions promise together: one opens the port, others
join, one retires only while another one serves. `Handover` implements it
(`KeepsPortOpen`): a version serves from its event loop until it sees `readyfd`.

### 2.5 The other modules

`MCWorkerPool` and `MCHandover` define the symmetry sets for TLC,
`MCShadowSockets` the server of TCP and UDP and the newer versions that race.
The theorems are in `WorkerPoolProofs`; in `HandoverProofs` (the port) and
`UpdateProofs` (the name, and one update after the other); in
`ShadowSocketsProofs` (the entries) and `ShadowListsProofs` (the lists and the
event array). Operators named
`Wrong...` are what the definition next to them would be with a plausible bug;
no specification uses them. They serve to see that a property can fail.

## 3. Runs

All runs set `CHECK_DEADLOCK FALSE`: a group that has been killed, or versions
that have all ended, have nothing left to do. That nothing stops *early* is the
subject of `NoLostWakeup`, `GroupEnds`, `Quiesces`, `Answered`, `UpdateEnds`.

### 3.1 What holds

| Run | Instance | Shows |
|---|---|---|
| `pool_epoll` | 3 workers, one may die, 2 clients, 1 update that may die, queue of 3, `WriteFails` | tokens match sessions and workers; the inductive invariant of the proofs; no kill over a client, next to an active worker, or without a successor; it does not stop short of its end unless that worker died; the group implements `VersionLife` |
| `pool_live` | 2 workers, 1 client, 2 updates of which one may die | both newer versions are answered; once one has reported the group ends; it does not cut the other off |
| `pool_select` | 2 workers, 2 clients, 1 update that may die, select | the same safety with select; the inductive invariant of the proofs with select; the application gets only its own events; after the update the last client is served and none is accepted |
| `handover_safe` | 5 versions, select, updates overlap as soon as the first serves, `WriteFails`, newer versions may die in `bind()` | the port, once served, always is; every server holds the named, listening `comfd`; nobody binds the port next to another version; one socket keeps the name (`NameKept`); the inductive invariant of the proofs; the versions implement `PortService` and each of them `VersionLife` |
| `handover_crash` | 3 versions, epoll, one update at a time, anyone may die at any time, `SIGPIPE` | the servers share one socket; each update has one version to supersede (`OneUpdate`), and one server is left after it; every request is answered; every update ends |
| `shadow_lists` | a port of TCP, inherited, and one of UDP, 3 descriptors, 2 listed sockets, 2 newer versions for the first port and 1 for the second, batches of 2, `Allowed = {}` | every socket is shadowed in the right list; each newer version gets the right socket; no false report; the application gets all its events, in order and none twice, and of the library's only a `comfd` behind its `readyfd`; the program ends when all its ports are taken over, and not before; the two parts of the inductive invariant of the proofs |

The bounds are the least at which the cases occur. Three workers: one
terminates, one sleeps, and a third takes the ping or dies. Two clients: one
token may stand for the other's session. Two updates: one is in progress while
the other completes. Five versions: a chain of two overlapping updates, one
version that dies and one that comes after; overlap as such needs three
(`handover_overlap` finds its counterexample there). `QueueCap` is the least
that fits workers and clients, where a real pair holds what its send buffer
allows; the queues do become full, and with one less a token is lost
(`pool_overflow`).
Each slot of `Conns` is used again and again.
Two ports: one can be inherited, ready or taken over while the other is not.
Two newer versions for one port: the second one can be in the backlog of
`comfd` when the first has reported, so that `readyfd` and `comfd` meet in one
batch.
Three descriptors: two ports and a session, and one number used for several
sockets. Batches of two: an event of the library before, after or next to one
of the application or of another entry.

`pool_live` and the select runs do without symmetry, because they check
temporal formulas. In `pool_epoll` the worker that may die is not in the
symmetry set.

### 3.2 Where code and documentation differ

Each of these runs is expected to find a violation; `PROJECT.json` (`findings`)
quotes the line it contradicts.

| Run | Property | What happens |
|---|---|---|
| `pool_select_ends` | `GroupEnds` | `dsu_sniff_conn()` never watches `wakeup`: with select, a worker that sleeps is not woken by one that terminates, and the group stays |
| `pool_accept` | `DrainedWhenKilled` | `accept()` sends no token where `accept4()` does: the group is killed over its clients |
| `pool_overflow` | `DrainedWhenKilled` | a token that does not fit is lost, and with it a worker that is counted by nobody |
| `pool_leak` | `OnlyOwnEvents` | `readyfd` before `comfd` in one batch: the event of `comfd` is returned to the application |
| `handover_overlap` | `SingleServer` | a second update that reaches the oldest version through the shared backlog supersedes the oldest one again, not the one in between: two versions serve for good |
| `shadow_rebind` | `BindReturns` | `close()` of a bound socket leaves its entry, and the entry its name: a later `bind()` of that port connects to the program itself and never returns |

What else the switches of the models show, one run of TLC each, and is listed
as a hazard: with `SigPipe` a newer version that dies while it is being
answered takes the server with it (`PortServed`); with `Starts = "any"` the
second of two versions started together finds a name that does not listen yet
and binds the port (`NoOtherVersion`); `"close"` violates `RightSocket`,
`Shadowed` and `TruthfulReport`, `"unbound"` and `"early"` violate
`OnlyWhenDone`, `"twice"` violates `BindReturns`, `"fails"` violates `Shadowed`
and `BindReturns`; a program with port 1 violates `RightSocket`.

### 3.3 Fairness

`WorkerPool!Fairness`: a process that can take a step inside the library takes
one (`WF`), the scheduler's promise. `Leave`, the application's next call of
its event loop, is strongly fair: an application may accept a client first,
over and over, but it is written to come back to its loop. A session ends some
day, and a newer version goes on with its update. There is no fairness for
timeouts, signals, crashes, arrivals or starts, so no liveness property relies
on a timeout to save a sleeping worker.

`Handover!FairSpec`: each version that is alive takes steps. This includes that
its event call returns: `Report` with epoll needs some event to occur, and with
select a client. The liveness run uses epoll. Nothing forces a start or a crash.

`GroupEnds` is checked without deaths of workers: the tokens of a dead worker are never
taken, so a group in which one died is never killed. `Answered` is
checked with `WriteFails = FALSE`: if the uninitialized length in
`dsu_write_fd()` makes `getsockopt()` fail, the newer version waits for ever.

`ShadowSockets!FairSpec`: the program comes back to its event loop, which
handles what it was given (`WF`). The kernel's ready list goes round, so a
descriptor that stays readable is in a batch some day (`SF`, for the streams
and `readyfd` and for the sessions). A client hangs up some day and the program then closes the
session (`SF`). Nothing makes a newer version ask or report: `Retires` starts
from a state in which each port has been taken over and every other version
that was sent one of them has reported too (`AllTaken`), and says that the
program ends unless this is no longer so, because it binds another port or
answers yet another version.

## 4. Proofs

All theorems hold for every value of the constants that satisfies
`PoolConstants`, `HandoverConstants` or `ShadowConstants`, in particular any
finite number of workers and clients, any set of versions, with workers that
die, and any ports, descriptors and sizes of batches.

| Theorem | States | Under |
|---|---|---|
| `TypeCorrect` | `[]TypeOK` | - |
| `Superseded` | `[]SupersededWhenKilled` | - |
| `SessionsExactlyCounted` | `[]SessionsCounted` | `SessionsFit` |
| `WorkersExactlyCounted` | `[]WorkersCounted` | `WorkersFit` |
| `LastWorkerKills` | `[]KillOnlyWhenAlone` | `WorkersFit` |
| `UpdatesComplete` | `[]NoUpdateCutOff` | `WorkersFit` |
| `ClientsComplete` | `[]DrainedWhenKilled` | `WorkersFit`, `SessionsFit` |
| `PingsSuffice` | `[](SomeoneRuns /\ PingLeft)` | `WorkersFit`, some worker |
| `WakeupsArrive` | `[]NoLostWakeup` | `WorkersFit`, some worker, epoll |
| `SelectHidesOwn` | `[]OnlyOwnEvents` | select |
| `InductiveCorrect` | `[]Inductive` | `WorkersFit`, `SessionsFit`, some worker |
| `GroupImplementsLife` | `LivesAsOne`: the group implements `VersionLife` | `WorkersFit`, `SessionsFit` |
| `HandoverTypes` | `[]TypeOK` of `Handover` | - |
| `SomebodySafe` | `[]Inductive` of `Handover` | `ServersLast` |
| `PortStaysServed` | `PortServed` | `ServersLast` |
| `VersionsImplementPort` | `KeepsPortOpen`: the versions implement `PortService` | `ServersLast` |
| `VersionsLive` | `LivesAsPromised`: each version implements `VersionLife` | `ServersLast` |
| `OneSocketForAll` | `[]OnePublicSocket` | `~WriteFails` |
| `OneName` | `[]NameKept` | `ServersLast`, `Starts # "any"` |
| `AlwaysUpdatable` | `[]Updatable` | `ServersLast`, `Starts # "any"` |
| `NobodyBindsTwice` | `[]NoOtherVersion` | `ServersLast`, `Starts # "any"` |
| `UpdatesFollow` | `[]OneUpdate` | `OneByOne` |
| `OneServes` | `[]SingleServer` | `OneByOne` |
| `EntriesFaithful` | `[]Inductive` of `ShadowSockets` | `Careful` |
| `ShadowsFaithful` | `[]RightSocket` | `Careful` |
| `ReportsTruthful` | `[]TruthfulReport` | `Careful` |
| `ShadowTypes` | `[]TypeOK` of `ShadowSockets` | - |
| `EventsSifted` | `[]OwnEvents` | - |
| `ListsSound` | `[]ListsInductive` | `Careful` |
| `AllShadowed` | `[]Shadowed` | `Careful` |
| `EndsWhenDone` | `[]OnlyWhenDone` of `ShadowSockets` | `Orderly` |

`WorkersFit` says that `LateStart` is false and that the queue has room for a
token of each worker; `SessionsFit` that the application uses `accept4()` and
that the queue has room for a token of each client connection. Neither can be
dropped: `pool_accept` and `pool_overflow` are counterexamples to the theorem
without them, and a worker that activates between another one's last peek and
its kill breaks `KillOnlyWhenAlone`.

The argument. `killed` alone says nothing about how it came about, so none of
the properties is inductive. `Inductive` adds what the processes know:

* `ReadyReported`: `ready` in a worker goes back, through `readyfd` and the
  message on a stream, to a newer version that has reported. With the types
  (`Basic`) it needs nothing else, and gives `Superseded`.
* `OwnersInService` and `LinksInService`: sessions and streams belong to workers
  that are not terminating. A worker that passes the check owns nothing,
  because its sessions are counted (`SessionsCounted`) and it has looked at its
  streams. Between a system call and its token a worker has one session at
  most, and is in no position to check.
* `WorkersCounted`: one token per worker between activation and deactivation.
  Two workers may both have deactivated before either peeks; then both see an
  empty queue and both kill, and that is harmless, because
* `KillerIsLast`: a worker about to kill sees `Holding = {}`, and
* `LiveInLoop`: nobody activates any more, since an update does not begin before
  all workers have started.

`NoLostWakeup` says that the group comes to a stop short of its end only if one
of its workers has died; it is about the group as a whole, and says nothing of
what a death leaves behind: a worker that dies may take the ping with it, or
leave a token that nobody takes. It has two parts. `SomeoneRuns`: not everybody
is past the termination check, because a worker that did not find itself the last
one has seen another one's token, and with it that worker, or a dead one.
`PingLeft`: when everybody is parked or asleep although it could terminate, a
ping is in the queue. Such a state is entered by a ping only, since every other
step leaves its worker awake: one that could terminate does not pass from its
check to its wait. `LateStart` and queues that are too short are what would
break this.

`EventsAtHand`: who waits has no events at hand. With select `PingLeft`
holds just the same, and is of no use: nobody watches the queue (`pool_select_ends`).
`OnlyOwnEvents` needs `EventsAtHand` too: a select() that returned `comfd` was
called by a worker that had not seen `readyfd`, so its entry is still handled.

The sessions part (`SessionsExact`) and the workers part (`WorkersExact`) are
inductive separately and have a lemma for each action that moves a token; the
rest leaves their variables alone (`SameSessions`, `SameActive`). `CountOne` is
the arithmetic of adding or removing one element.

For `GroupImplementsLife` the invariant says further, in `EventsOwned`, that a
worker handles a message only on a stream it has accepted. Each step of a
worker then maps to a step of `VersionLife`: `accept4()` to `Admit`, the accept
on `comfd` to `Attach`, the report to `Supersede`, the death of a worker to
`Release`, `killpg()` to `End`, all others to stuttering.

For `Handover` the type invariant is not inductive either: that a version is
sent two sockets at most needs that it asks once and is answered once
(`Posted`), and that these are sockets needs that whoever serves has a public
socket and a `comfd` (`Equipped`).

`ServersLast` says that versions which have the port do not crash and that no
send raises `SIGPIPE`; both are needed (`PortServed` fails with either). The
difficulty of `PortServed` is that no version looks at another: one drains on a
message that its sender, in its event loop when it sent it, may have outlived.
The invariant is `SomeoneSafe`: from the first server on there is a version
that serves and that nothing is about to stop - no version in its event loop,
and no report, is on a stream with it (`Safe`). A version that enters its loop
is one, because nobody's stream is accepted before. It stops being one only
when a version whose stream it holds enters its own loop, and then that one is.
`StreamSound` is what this needs about streams. `PortStaysServed` and the two
refinements follow from it: a version that sees `readyfd` is not the safe one,
so the port has another server.

`Updatable` and `NoOtherVersion` are about the name, and rest on `NameKept`.
Until the first version is in its event loop it is alone, and the comfd socket
it has bound is the one with the name (`Founding`). From then on that socket has the
name for good (`Established`): every version in bind() has found it and waits
for an answer from somebody who is in his event loop (`Waiting`), and what it
will be sent is that socket again. Nobody falls back to binding the port, since
somebody is left to answer - the version of `SomeoneSafe`.

`SingleServer` needs no assumption about crashes, but one update at a time
(`OneByOne`). `OneUpdate` says what that means from inside: there is a youngest
version, all others were in their event loops before it started, at most one of
them does not drain yet, and if that one still serves, the youngest holds the
stream on which it has to report. Once it has reported, nobody else is left.

`OneSocketForAll` needs neither: a public socket is opened only when no public
socket exists (`PublicFirst`), and all others are copies of it. It assumes that
`dsu_write_fd()` does not refuse the public socket and then send `comfd` in its
place, which the receiver could not tell apart.

`Careful` programs do not close bound sockets, give up if `bind()` fails and do
not serve port 1; `Orderly` ones also bind before they wait, and close only
sessions among their stream sockets. Each of these is needed, as section 3.2
shows. `Inductive` of `ShadowSockets` relates entries to the descriptor table
(`EntriesTrue`, `Entered`) and the events that are still to be handled to the
newer versions (`EventsTrue`: a stream whose event is at hand still carries its
message, and a `readyfd` its mark; who waited in a backlog may be gone).
`EndsWhenDone` adds that each open session holds a token (`Counted`).

`Shadowed` needs more than entries that are true: two of them might name one
descriptor, and a socket might have left `sockets` with another one's number.
`Apart` rules this out; that `dsu_sockets_remove_fd()` takes nothing but the
number it was given is `RemoveFirstFacts`. `OwnEvents` holds whatever the
program does. It does not say that nothing of the library's is left, which
`pool_leak` refutes: a `comfd` that came behind the `readyfd` of its port is
skipped (`Skipped`). Its invariant is `MarksGone`: each event of the library that is
not marked belongs to an entry that is still to come, one of `comfd` to an entry
that is not ready before its turn, or is such a `comfd`; so only these are left
when the loop over the entries ends. While the gaps are closed the events that
are left come from rising places of the kernel's list, none of the
application's is missing, and behind the index no mark is left: `Sifted` says so
of a map of places. `HandleMarks` and `CorrectMarks` are the two loops.

What stays with TLC is liveness: `GroupEnds`, `Answered`, `Quiesces`,
`UpdateEnds` and `Retires`, which are out of the prover's reach. Every
invariant and every action property that a passing run checks is stated by a
theorem above.

## 5. Plan

Done, in this order because the group kill and the handover are where clients
are lost: `WorkerPool` with its runs and proofs; `Handover` with its runs; the
abstract specifications and the three refinements; `ShadowSockets`; the proofs
about `Handover` and `ShadowSockets`; the invariants of all modules that were
only model-checked at first.

Next:

1. `WorkerPool`: what remains of the counts when a worker dies, as an exact
   statement.
2. `ShadowSockets`: a refinement for several ports, one life per port.
3. `Handover`: what overlapping updates still guarantee about the number of
   servers.

## 6. Not modelled

* Several ports together with several workers: the lists are private to each
  process once it is forked, and what the processes share is per port, so
  `WorkerPool` and `ShadowSockets` each keep one of the two.
* The counter `correction` of select, which is the number of descriptors it has
  cleared, and its copies of the sets. After an error of select the library's
  descriptors stay in the set of the application.
* The version that fell back after its stream broke and keeps the dead stream
  as `comfd`: its event loop turns without end.
* Threads: they share `dsu_live`, the lists and `correction`; the models have
  processes. The repository's event handlers take no lock.
* Descriptors that parent and child both close, which take tokens nobody put;
  outgoing connections are the sockets of `"unbound"`.
* An application that stores something else than a descriptor in its events.
* `pselect`, a stub, and event calls the library does not wrap.
* `signal`, `sigaction`, the launcher, path helpers, logging and the
  debug wrappers of `read`, `recv`, `write` and `send`: they do not change the
  state the models are about.
* Contents of requests and answers; the wording of the abstract name.
