----------------------------- MODULE WorkerPool -----------------------------
(***************************************************************************)
(* One running version of a server under openDSU: a process group of       *)
(* workers forked from one program, all of them looping on epoll_wait() or *)
(* select(), which the library wraps.  The module covers the life of that  *)
(* version from the first call of the event loop to killpg(), at the grain *)
(* of one system call on an object the processes share:                    *)
(*                                                                         *)
(*   - the three datagram socket pairs made by dsu_init() before any       *)
(*     fork(): the tokens of active workers, of open sessions, and the     *)
(*     pings that wake the other workers;                                  *)
(*   - the public listening socket and its client connections;             *)
(*   - the named socket `comfd` on which newer versions ask for the public *)
(*     socket, and the stream each of them holds with the worker that      *)
(*     accepted it;                                                        *)
(*   - the `readyfd`/`markreadyfd` pair, written once a newer version has  *)
(*     reported that it serves the port and never read.                    *)
(*                                                                         *)
(* The clients, the application above the library and the processes of the *)
(* newer versions are the environment.  Operators named Wrong... are what   *)
(* their neighbour would be with a plausible bug in it; nothing uses them.  *)
(***************************************************************************)
EXTENDS Integers, FiniteSets

CONSTANTS
  Workers,     \* the processes of the version that run the event loop
  Conns,       \* slots of client connections: as many as are open at once
  Updaters,    \* newer versions that try to take the port over
  QueueCap,    \* datagrams a socket pair holds before a send would block
  Handler,     \* the event call the application uses: "epoll" or "select"
  AcceptCall,  \* the call it accepts clients with: "accept4" or "accept"
  MayExit,     \* workers and newer versions that may crash on their own
  LateStart,   \* TRUE if a worker may enter its loop during an update
  WriteFails,  \* TRUE if dsu_write_fd() may refuse a valid descriptor
  None         \* no worker

Signals  == {"public", "session", "wakeup", "ready", "comfd"}

ASSUME PoolConstants ==
  /\ IsFiniteSet(Workers) /\ IsFiniteSet(Conns)
  /\ Updaters \cap Signals = {}
  /\ QueueCap \in Nat \ {0}
  /\ Handler \in {"epoll", "select"}
  /\ AcceptCall \in {"accept4", "accept"}
  /\ MayExit \subseteq Workers \cup Updaters
  /\ LateStart \in BOOLEAN /\ WriteFails \in BOOLEAN
  /\ None \notin Workers

VARIABLES
  pc,       \* where each worker stands, inside the library or outside it
  live,     \* dsu_live_epoll / dsu_live of each worker
  ready,    \* dsu_socket_list.ready of each worker
  ev,       \* the events its last wait returned and nobody has handled yet
  wtok,     \* datagrams between dsu_program_state.activate and .deactivate
  sess,     \* datagrams between dsu_program_state.accept and .close
  pings,    \* datagrams between dsu_program_state.ping and .wakeup
  marked,   \* TRUE once readyfd is readable
  st,       \* the state of each client connection
  owner,    \* the worker that accepted it
  up,       \* how far each newer version has come
  link,     \* its stream: not there, in comfd's backlog, accepted, gone
  inbox,    \* what it has sent on that stream and nobody has received yet, or
            \* "reset", the error of a stream whose peer died with data unread
  uown,     \* the worker that accepted the stream: it is in its comfds list
  killed    \* TRUE once the group has been killed

pool   == <<pc, live, ready, ev>>
queues == <<wtok, sess, pings>>
conns  == <<st, owner>>
upd    == <<up, link, inbox, uown>>
vars   == <<pool, queues, marked, conns, upd, killed>>

\* Inside dsu_terminate(): past the check, no way back to the event loop.
TerminatePC == {"deactivate", "last", "kill", "ping", "parked"}
LoopPC      == {"check", "wait", "handle", "app", "accepting", "closing"}
PC          == {"init", "activate", "peek", "leaked", "gone"}
                 \cup LoopPC \cup TerminatePC

ConnState == {"free", "pending", "accepted", "open", "ended", "closing", "lost"}
UpState   == {"idle", "connected", "sent", "inherited", "reported",
              "unheard", "refused", "crashed"}

TypeOK ==
  /\ pc \in [Workers -> PC]
  /\ live \in [Workers -> BOOLEAN]
  /\ ready \in [Workers -> BOOLEAN]
  /\ ev \in [Workers -> SUBSET (Signals \cup Updaters)]
  /\ wtok \in 0..QueueCap /\ sess \in 0..QueueCap /\ pings \in 0..QueueCap
  /\ marked \in BOOLEAN /\ killed \in BOOLEAN
  /\ st \in [Conns -> ConnState]
  /\ owner \in [Conns -> Workers \cup {None}]
  /\ up \in [Updaters -> UpState]
  /\ link \in [Updaters -> {"none", "backlog", "open", "closed"}]
  /\ inbox \in [Updaters -> {"none", "port", "ready", "reset"}]
  /\ uown \in [Updaters -> Workers \cup {None}]

Init ==
  /\ pc = [w \in Workers |-> "init"]
  /\ live = [w \in Workers |-> FALSE]
  /\ ready = [w \in Workers |-> FALSE]
  /\ ev = [w \in Workers |-> {}]
  /\ wtok = 0 /\ sess = 0 /\ pings = 0
  /\ marked = FALSE /\ killed = FALSE
  /\ st = [c \in Conns |-> "free"]
  /\ owner = [c \in Conns |-> None]
  /\ up = [u \in Updaters |-> "idle"]
  /\ link = [u \in Updaters |-> "none"]
  /\ inbox = [u \in Updaters |-> "none"]
  /\ uown = [u \in Updaters |-> None]

-----------------------------------------------------------------------------
(* The non-blocking datagram queues: a send to a full queue and a receive  *)
(* from an empty one fail, and the library only logs the failure.          *)

Put(q) == IF q < QueueCap THEN q + 1 ELSE q

\* A receive that is taken to succeed.
WrongTake(q) == q - 1
Take(q) == IF q > 0 THEN q - 1 ELSE 0

Goto(w, loc) == pc' = [pc EXCEPT ![w] = loc]

\* Where a (re)entered event call begins: a worker that is not live activates.
WrongEntry(w) == "activate"      \* the live flag is never looked at
Entry(w) == IF live[w] THEN "check" ELSE "activate"

(* The accepted streams of newer versions that worker w keeps in comfds.   *)
Comfds(w) == {u \in Updaters : link[u] = "open" /\ uown[u] = w}

(* A stream is readable when it carries a message or its peer has closed.  *)
Readable(u) == inbox[u] # "none" \/ up[u] = "crashed"

-----------------------------------------------------------------------------
(* Entering the event loop, dsu_change_number_of_workers(1).               *)

\* The first call of the event loop by this process.
Enter(w) ==
  /\ pc[w] = "init"
  /\ Goto(w, "activate")
  /\ UNCHANGED <<live, ready, ev, queues, marked, conns, upd, killed>>

\* Send one token on `activate`.
Activate(w) ==
  /\ pc[w] = "activate"
  /\ wtok' = Put(wtok)
  /\ Goto(w, "peek")
  /\ UNCHANGED <<live, ready, ev, sess, pings, marked, conns, upd, killed>>

\* Peek at `deactivate`: the worker is live if it sees any token.
ActivatePeek(w) ==
  /\ pc[w] = "peek"
  /\ live' = [live EXCEPT ![w] = wtok > 0]
  /\ Goto(w, "check")
  /\ UNCHANGED <<ready, ev, queues, marked, conns, upd, killed>>

-----------------------------------------------------------------------------
(* Termination.                                                            *)

\* dsu_termination_detection(): no session token to peek at, the port ready
\* in a newer version, and no stream of a newer version still open here.
WrongDrainedSess(w)  == ready[w] /\ Comfds(w) = {}    \* sessions not looked at
WrongDrainedReady(w) == sess = 0 /\ Comfds(w) = {}    \* ready not looked at
WrongDrainedLink(w)  == sess = 0 /\ ready[w]          \* comfds not looked at
Drained(w) == sess = 0 /\ ready[w] /\ Comfds(w) = {}

TerminationCheck(w) ==
  /\ pc[w] = "check"
  /\ Goto(w, IF Drained(w) THEN "deactivate" ELSE "wait")
  /\ UNCHANGED <<live, ready, ev, queues, marked, conns, upd, killed>>

\* Receive one token from `deactivate`.
Deactivate(w) ==
  /\ pc[w] = "deactivate"
  /\ wtok' = Take(wtok)
  /\ Goto(w, "last")
  /\ UNCHANGED <<live, ready, ev, sess, pings, marked, conns, upd, killed>>

\* The caller's own token taken to be still in the queue.
WrongLastWorker(w) ==
  /\ pc[w] = "last"
  /\ Goto(w, IF wtok <= 1 THEN "kill" ELSE "ping")
  /\ UNCHANGED <<live, ready, ev, queues, marked, conns, upd, killed>>

\* Peek at `deactivate` again: without a token left this was the last worker.
LastWorker(w) ==
  /\ pc[w] = "last"
  /\ Goto(w, IF wtok = 0 THEN "kill" ELSE "ping")
  /\ UNCHANGED <<live, ready, ev, queues, marked, conns, upd, killed>>

\* killpg(SIGKILL): every process of the group stops where it stands.
KillGroup(w) ==
  /\ pc[w] = "kill"
  /\ killed' = TRUE
  /\ UNCHANGED <<pool, queues, marked, conns, upd>>

\* Nobody is woken.
WrongPing(w) ==
  /\ pc[w] = "ping"
  /\ Goto(w, "parked")
  /\ UNCHANGED <<live, ready, ev, queues, marked, conns, upd, killed>>

\* Wake another worker, then wait in sigwait() for a signal that cannot come.
Ping(w) ==
  /\ pc[w] = "ping"
  /\ pings' = Put(pings)
  /\ Goto(w, "parked")
  /\ UNCHANGED <<live, ready, ev, wtok, sess, marked, conns, upd, killed>>

-----------------------------------------------------------------------------
(* Waiting.  The wrapped call returns every watched descriptor that is     *)
(* readable, level-triggered.                                              *)

Pending == \E c \in Conns : st[c] = "pending"
Over(w) == \E c \in Conns : st[c] = "ended" /\ owner[c] = w
Asked   == \E u \in Updaters : link[u] = "backlog"

\* The streams are left out, as comfd is, once the port is ready elsewhere.
WrongWatchedByBoth(w) ==
  {s \in Signals : \/ s = "session" /\ Over(w)
                   \/ s = "comfd" /\ ~ready[w] /\ Asked
                   \/ s = "ready" /\ ~ready[w] /\ marked}
    \cup {u \in Comfds(w) : ~ready[w] /\ Readable(u)}

\* What both handlers watch: the application's sessions, the streams of newer
\* versions and, until the port is ready elsewhere, comfd and readyfd.
WatchedByBoth(w) ==
  {s \in Signals : \/ s = "session" /\ Over(w)
                   \/ s = "comfd" /\ ~ready[w] /\ Asked
                   \/ s = "ready" /\ ~ready[w] /\ marked}
    \cup {u \in Comfds(w) : Readable(u)}

\* wakeup is not watched.
WrongEpollEvents(w) ==
  WatchedByBoth(w) \cup {s \in Signals : s = "public" /\ ~ready[w] /\ Pending}

\* dsu_epoll_internal_conn() adds wakeup and drops the public socket when ready.
EpollEvents(w) ==
  WatchedByBoth(w) \cup {s \in Signals : \/ s = "wakeup" /\ pings > 0
                                         \/ s = "public" /\ ~ready[w] /\ Pending}

\* dsu_sniff_conn() never adds wakeup, and leaves the application's set alone.
SelectEvents(w) == WatchedByBoth(w) \cup {s \in Signals : s = "public" /\ Pending}

Events(w) == IF Handler = "epoll" THEN EpollEvents(w) ELSE SelectEvents(w)

Wake(w) ==
  /\ pc[w] = "wait"
  /\ Events(w) # {}
  /\ ev' = [ev EXCEPT ![w] = Events(w)]
  /\ Goto(w, "handle")
  /\ UNCHANGED <<live, ready, queues, marked, conns, upd, killed>>

\* A timeout of the application's own, or a signal: back without an event.
Timeout(w) ==
  /\ pc[w] = "wait"
  /\ Events(w) = {}
  /\ Goto(w, "app")
  /\ UNCHANGED <<live, ready, ev, queues, marked, conns, upd, killed>>

-----------------------------------------------------------------------------
(* Handling the library's own events, one at a time.  epoll_wait() returns *)
(* them in any order; dsu_handle_conn() and dsu_post_select() look at      *)
(* comfd, then at the streams, then at readyfd.                            *)

InOrder(w, earlier) == Handler = "epoll" \/ ev[w] \cap earlier = {}

Handled(w, e) == ev' = [ev EXCEPT ![w] = @ \ {e}]

\* One datagram from wakeup, if nobody else has taken it.
HandleWakeup(w) ==
  /\ pc[w] = "handle" /\ "wakeup" \in ev[w]
  /\ pings' = Take(pings)
  /\ Handled(w, "wakeup")
  /\ UNCHANGED <<pc, live, ready, wtok, sess, marked, conns, upd, killed>>

\* The flag that says so is not set.
WrongHandleReady(w) ==
  /\ pc[w] = "handle" /\ "ready" \in ev[w]
  /\ InOrder(w, {"comfd"} \cup Updaters)
  /\ Handled(w, "ready")
  /\ UNCHANGED <<pc, live, ready, queues, marked, conns, upd, killed>>

\* readyfd is readable: this worker stops listening on the port.
HandleReady(w) ==
  /\ pc[w] = "handle" /\ "ready" \in ev[w]
  /\ InOrder(w, {"comfd"} \cup Updaters)
  /\ ready' = [ready EXCEPT ![w] = TRUE]
  /\ Handled(w, "ready")
  /\ UNCHANGED <<pc, live, queues, marked, conns, upd, killed>>

\* dsu_accept4() on comfd takes one stream of the backlog, or fails if it is
\* empty by now.  The epoll branch is skipped if readyfd came first.
HandleComfd(w) ==
  /\ pc[w] = "handle" /\ "comfd" \in ev[w] /\ ~ready[w]
  /\ Handled(w, "comfd")
  /\ \/ /\ ~Asked
        /\ UNCHANGED upd
     \/ \E u \in Updaters :
          /\ link[u] = "backlog"
          /\ link' = [link EXCEPT ![u] = "open"]
          /\ uown' = [uown EXCEPT ![u] = w]
          /\ UNCHANGED <<up, inbox>>
  /\ UNCHANGED <<pc, live, ready, queues, marked, conns, killed>>

\* The stream is closed and leaves comfds.
DropLink(u) ==
  /\ link' = [link EXCEPT ![u] = "closed"]
  /\ uown' = [uown EXCEPT ![u] = None]

\* A port number: pass on the public socket and comfd.  dsu_write_fd() asks
\* getsockopt() with an uninitialized length first, and sends nothing if that
\* fails; a newer version that gets less than both waits on.  An "unknown error" of
\* the receive goes the same way: the answer fails, and the stream stays open.
Serve(u) ==
  /\ inbox[u] \in {"port", "reset"}
  /\ inbox' = [inbox EXCEPT ![u] = "none"]
  /\ \/ up' = [up EXCEPT ![u] = IF @ = "sent" THEN "inherited" ELSE @]
     \/ WriteFails /\ UNCHANGED up
  /\ UNCHANGED <<link, uown, marked>>

\* The number 1: the newer version serves the port.  Mark readyfd, close.
MarkReady(u) ==
  /\ inbox[u] = "ready"
  /\ inbox' = [inbox EXCEPT ![u] = "none"]
  /\ marked' = TRUE
  /\ DropLink(u)
  /\ UNCHANGED up

\* End of file: the newer version is gone.
HangUp(u) ==
  /\ inbox[u] = "none"
  /\ DropLink(u)
  /\ UNCHANGED <<up, inbox, marked>>

HandleMessage(w, u) ==
  /\ pc[w] = "handle" /\ u \in ev[w]
  /\ InOrder(w, {"comfd"})
  /\ Serve(u) \/ MarkReady(u) \/ HangUp(u)
  /\ Handled(w, u)
  /\ UNCHANGED <<pc, live, ready, queues, conns, killed>>

\* The public socket stays in the application's set.
WrongVisible(w) == ev[w]

\* The library's events stay in the list.
WrongReturn(w) ==
  /\ pc[w] = "handle"
  /\ Goto(w, "app")
  /\ UNCHANGED <<live, ready, ev, queues, marked, conns, upd, killed>>

\* What is left for the application.  dsu_post_select() also clears the public
\* socket if the port is ready elsewhere.
Visible(w) ==
  ev[w] \ (IF Handler = "select" /\ ready[w] THEN {"public"} ELSE {})

\* Nothing left: the wrapper calls itself again, unless the call has a timeout, else
\* it returns.  An event of comfd that dsu_handle_conn_epoll() skipped is returned
\* too.
Return(w) ==
  /\ pc[w] = "handle"
  /\ ev[w] \cap ({"wakeup", "ready"} \cup Updaters) = {}
  /\ "comfd" \in ev[w] => ready[w]
  /\ ev' = [ev EXCEPT ![w] = Visible(w)]
  /\ Goto(w, "app") \/ (Visible(w) = {} /\ Goto(w, Entry(w)))
  /\ UNCHANGED <<live, ready, queues, marked, conns, upd, killed>>

-----------------------------------------------------------------------------
(* The application, outside the event call.                                *)

\* The kernel's accept of a pending connection, in accept4() or accept().
Accept(w, c) ==
  /\ pc[w] = "app" /\ "public" \in ev[w]
  /\ st[c] = "pending"
  /\ owner' = [owner EXCEPT ![c] = w]
  /\ IF AcceptCall = "accept4"
       THEN st' = [st EXCEPT ![c] = "accepted"] /\ Goto(w, "accepting")
       ELSE st' = [st EXCEPT ![c] = "open"] /\ UNCHANGED pc
  /\ UNCHANGED <<live, ready, ev, queues, marked, upd, killed>>

\* accept4() then sends one token on `accept`.
CountAccept(w, c) ==
  /\ pc[w] = "accepting"
  /\ st[c] = "accepted" /\ owner[c] = w
  /\ sess' = Put(sess)
  /\ st' = [st EXCEPT ![c] = "open"]
  /\ Goto(w, "app")
  /\ UNCHANGED <<live, ready, ev, wtok, pings, marked, owner, upd, killed>>

\* The kernel's close of a session that is over.
Close(w, c) ==
  /\ pc[w] = "app"
  /\ st[c] = "ended" /\ owner[c] = w
  /\ st' = [st EXCEPT ![c] = "closing"]
  /\ ev' = [ev EXCEPT ![w] = @ \ {"session"}]
  /\ Goto(w, "closing")
  /\ UNCHANGED <<live, ready, queues, marked, owner, upd, killed>>

\* close() as in libc: no token is taken.
WrongCountClose(w, c) ==
  /\ pc[w] = "closing"
  /\ st[c] = "closing" /\ owner[c] = w
  /\ st' = [st EXCEPT ![c] = "free"]
  /\ owner' = [owner EXCEPT ![c] = None]
  /\ Goto(w, "app")
  /\ UNCHANGED <<live, ready, ev, queues, marked, upd, killed>>

\* close() then receives one token from `close` if the socket is of AF_INET;
\* accept4() puts one for any.  Here all are of that family, as bind() assumes.
CountClose(w, c) ==
  /\ pc[w] = "closing"
  /\ st[c] = "closing" /\ owner[c] = w
  /\ sess' = Take(sess)
  /\ st' = [st EXCEPT ![c] = "free"]
  /\ owner' = [owner EXCEPT ![c] = None]
  /\ Goto(w, "app")
  /\ UNCHANGED <<live, ready, ev, wtok, pings, marked, upd, killed>>

\* The next call of the event loop.
Leave(w) ==
  /\ pc[w] = "app" /\ "session" \notin ev[w]
  /\ ev' = [ev EXCEPT ![w] = {}]
  /\ Goto(w, Entry(w))
  /\ UNCHANGED <<live, ready, queues, marked, conns, upd, killed>>

\* A worker crashes or leaves: the kernel closes its descriptors, and takes no
\* token out of any queue.
Exit(w) ==
  /\ w \in MayExit
  /\ pc[w] \notin {"init", "leaked", "gone"}
  /\ Goto(w, IF pc[w] \in {"peek", "deactivate"} \cup LoopPC THEN "leaked" ELSE "gone")
  /\ st' = [c \in Conns |->
              IF owner[c] # w THEN st[c]
              ELSE IF st[c] = "accepted" THEN "free" ELSE "lost"]
  /\ owner' = [c \in Conns |-> IF owner[c] = w THEN None ELSE owner[c]]
  /\ link' = [u \in Updaters |-> IF u \in Comfds(w) THEN "closed" ELSE link[u]]
  /\ uown' = [u \in Updaters |-> IF uown[u] = w THEN None ELSE uown[u]]
  /\ up' = [u \in Updaters |->
              IF u \in Comfds(w) /\ up[u] \in {"connected", "sent"}
                THEN "refused" ELSE up[u]]
  /\ inbox' = [u \in Updaters |-> IF u \in Comfds(w) THEN "none" ELSE inbox[u]]
  /\ ev' = [ev EXCEPT ![w] = {}]
  /\ UNCHANGED <<live, ready, queues, marked, killed>>

-----------------------------------------------------------------------------
(* Clients.                                                                *)

Connect(c) ==
  /\ st[c] = "free"
  /\ st' = [st EXCEPT ![c] = "pending"]
  /\ UNCHANGED <<pool, queues, marked, owner, upd, killed>>

\* Client or application is done with the session: its descriptor is readable.
End(c) ==
  /\ st[c] = "open"
  /\ st' = [st EXCEPT ![c] = "ended"]
  /\ UNCHANGED <<pool, queues, marked, owner, upd, killed>>

-----------------------------------------------------------------------------
(* Newer versions: dsu_inherit_fd() up to their report.                    *)

\* A newer version that has the public socket and comfd.
Successor == \E u \in Updaters : up[u] \in {"inherited", "reported", "unheard"}

Started(w) == live[w] \/ pc[w] \in {"leaked", "gone"}

\* connect() to the abstract name.
UpdaterConnect(u) ==
  /\ up[u] = "idle" /\ ~killed
  /\ LateStart \/ \A w \in Workers : Started(w)
  /\ up' = [up EXCEPT ![u] = "connected"]
  /\ link' = [link EXCEPT ![u] = "backlog"]
  /\ UNCHANGED <<pool, queues, marked, conns, inbox, uown, killed>>

\* send() of the port number.
UpdaterSend(u) ==
  /\ up[u] = "connected"
  /\ up' = [up EXCEPT ![u] = "sent"]
  /\ inbox' = [inbox EXCEPT ![u] = "port"]
  /\ UNCHANGED <<pool, queues, marked, conns, link, uown, killed>>

\* The first return from its own event call: send() of the number 1.  If the
\* other end is closed the send fails and the older version never hears of it.
UpdaterReport(u) ==
  /\ up[u] = "inherited"
  /\ IF link[u] = "open"
       THEN /\ up' = [up EXCEPT ![u] = "reported"]
            /\ inbox' = [inbox EXCEPT ![u] = "ready"]
       ELSE /\ up' = [up EXCEPT ![u] = "unheard"]
            /\ UNCHANGED inbox
  /\ UNCHANGED <<pool, queues, marked, conns, link, uown, killed>>

\* A newer version dies before it reports, and perhaps before it has read what it
\* was sent.
UpdaterCrash(u) ==
  /\ u \in MayExit
  /\ up[u] \in {"connected", "sent", "inherited"}
  /\ up' = [up EXCEPT ![u] = "crashed"]
  /\ \/ UNCHANGED inbox
     \/ /\ link[u] = "open" /\ inbox[u] = "none" /\ up[u] # "connected"
        /\ inbox' = [inbox EXCEPT ![u] = "reset"]
  /\ UNCHANGED <<pool, queues, marked, conns, link, uown, killed>>

\* A successor accepts a client from the shared public socket.
SuccessorAccept(c) ==
  /\ Successor
  /\ st[c] = "pending"
  /\ st' = [st EXCEPT ![c] = "free"]
  /\ UNCHANGED <<pool, queues, marked, owner, upd, killed>>

\* A successor accepts the stream of yet another version from the shared comfd:
\* from then on it is the successor that serves it.
SuccessorServe(u) ==
  /\ link[u] = "backlog" /\ up[u] \in {"connected", "sent"}
  /\ \E s \in Updaters \ {u} : up[s] \in {"inherited", "reported", "unheard"}
  /\ link' = [link EXCEPT ![u] = "closed"]
  /\ up' = [up EXCEPT ![u] = "unheard"]
  /\ inbox' = [inbox EXCEPT ![u] = "none"]
  /\ UNCHANGED <<pool, queues, marked, conns, uown, killed>>

-----------------------------------------------------------------------------
\* What the library and the application do by themselves.
Progress(w) ==
  \/ Enter(w) \/ Activate(w) \/ ActivatePeek(w)
  \/ TerminationCheck(w) \/ Deactivate(w) \/ LastWorker(w) \/ KillGroup(w) \/ Ping(w)
  \/ Wake(w) \/ HandleWakeup(w) \/ HandleReady(w) \/ HandleComfd(w)
  \/ \E u \in Updaters : HandleMessage(w, u)
  \/ Return(w) \/ Leave(w)
  \/ \E c \in Conns : CountAccept(w, c) \/ Close(w, c) \/ CountClose(w, c)

\* What they may do or not.
Choice(w) == Timeout(w) \/ Exit(w) \/ \E c \in Conns : Accept(w, c)

UpdaterStep(u) == UpdaterSend(u) \/ UpdaterReport(u) \/ SuccessorServe(u)

Next ==
  \/ ~killed /\ \E w \in Workers : Progress(w) \/ Choice(w)
  \/ \E c \in Conns : Connect(c) \/ End(c) \/ SuccessorAccept(c)
  \/ \E u \in Updaters : UpdaterConnect(u) \/ UpdaterStep(u) \/ UpdaterCrash(u)

Spec == Init /\ [][Next]_vars

(* Every live process keeps running.  An application that has returned from *)
(* its event call calls it again: Leave is strongly fair because accepting  *)
(* clients may come between.  A session is over some day, and a newer       *)
(* version takes its next step as soon as it can.  Nothing forces a         *)
(* timeout, a signal, a crash, a client or the start of a newer version.    *)
Fairness ==
  /\ \A w \in Workers : /\ WF_vars(~killed /\ Progress(w))
                        /\ SF_vars(~killed /\ Leave(w))
  /\ \A c \in Conns : WF_vars(End(c))
  /\ \A u \in Updaters : WF_vars(UpdaterStep(u))

FairSpec == Spec /\ Fairness

-----------------------------------------------------------------------------
(* Safety.                                                                 *)

Counted == {c \in Conns : st[c] \in {"open", "ended", "closing", "lost"}}
HoldPC  == {"peek", "deactivate", "leaked"} \cup LoopPC
Holding == {w \in Workers : pc[w] \in HoldPC}

\* The queue behind `close` holds one token for every session that accept4()
\* has counted and close() has not (core.c, accept4 and close), plus one for
\* each session whose worker died with it.
SessionsCounted == sess = Cardinality(Counted)

\* The queue behind `deactivate` holds one token for every worker between its
\* activation and its deactivation (dsu_change_number_of_workers), plus one
\* for each worker that died in between.
WorkersCounted == wtok = Cardinality(Holding)

\* dsu_terminate() never kills the group over a client: not one that is being
\* accepted, served, or closed by any of its workers.
DrainedWhenKilled ==
  killed => \A c \in Conns : st[c] \notin {"accepted", "open", "ended", "closing"}

\* The worker that kills the group is the last one: no other worker is in its
\* event loop any more (comment above dsu_terminate's body in core.c).
KillOnlyWhenAlone == killed => \A w \in Workers : pc[w] \notin LoopPC

\* The group is killed only after a newer version has reported that it serves
\* the port (dsu_termination_detection, `ready`).
SupersededWhenKilled == killed => \E u \in Updaters : up[u] = "reported"

\* The group is not killed while any of its workers holds the stream of a
\* newer version (dsu_termination_detection, `comfds`).
NoUpdateCutOff == killed => \A u \in Updaters : link[u] # "open"

\* No lost wakeup: the group comes to a stop short of its end, every worker parked
\* in sigwait(), dead, or blocked in its event call with nothing to wake it although
\* it would pass the termination check, only if one of the workers has died (ping()
\* and the wakeup descriptor).
NothingLeft(w) == pc[w] = "wait" /\ Drained(w) /\ Events(w) = {}
Stopped == \A w \in Workers : pc[w] \in {"parked", "leaked", "gone"} \/ NothingLeft(w)
NoLostWakeup ==
  ~killed /\ Stopped => \E w \in Workers : pc[w] \in {"leaked", "gone"}

\* The events an application gets are its own: the library's are removed from
\* the list (dsu_epoll_correct_events, and FD_CLR in the select handler).
OnlyOwnEvents == \A w \in Workers : pc[w] = "app" => ev[w] \subseteq {"public", "session"}

(* What the safety properties rest on, in parts that are inductive together. *)

Accepted(c) == st[c] \in {"accepted", "open", "ended", "closing"}

InService(w) == pc[w] \in {"activate", "peek"} \cup LoopPC

\* A session belongs to a worker that is not terminating, and at most one of
\* the sessions of a worker is between a system call and its token.
OwnersInService ==
  \A c \in Conns :
    /\ IF Accepted(c) THEN owner[c] \in Workers /\ InService(owner[c])
                      ELSE owner[c] = None
    /\ st[c] = "accepted" => pc[owner[c]] = "accepting"
    /\ st[c] = "closing"  => pc[owner[c]] = "closing"
    /\ \A d \in Conns : st[c] \in {"accepted", "closing"} /\ st[d] = st[c]
                          /\ owner[d] = owner[c] => c = d

\* The stream of a newer version belongs to a worker that is not terminating.
LinksInService ==
  \A u \in Updaters :
    /\ up[u] = "idle" => link[u] = "none"
    /\ link[u] = "open" => uown[u] \in Workers /\ InService(uown[u])

\* Only the worker that holds a stream has events of it at hand: nobody closes
\* a stream while another worker is about to read from it.
EventsOwned ==
  \A w \in Workers : \A u \in Updaters \cap ev[w] : link[u] = "open" /\ uown[u] = w

\* A worker gives up the port only because some newer version reported.
ReadyReported ==
  /\ \A w \in Workers : ready[w] \/ "ready" \in ev[w] => marked
  /\ marked => \E u \in Updaters : up[u] = "reported"
  /\ \A u \in Updaters : inbox[u] = "ready" => up[u] = "reported"
  /\ \A w \in Workers : pc[w] \in TerminatePC => ready[w]
  /\ killed => \E w \in Workers : pc[w] = "kill"

\* A worker is live from its activation on, and no update finds one that is not.
LiveInLoop ==
  /\ \A w \in Workers : pc[w] \in {"init", "activate", "peek"} => ~live[w]
  /\ \A w \in Workers : pc[w] \in LoopPC \cup TerminatePC => live[w]
  /\ (\E u \in Updaters : up[u] # "idle") => \A w \in Workers : Started(w)

\* A worker that is about to kill the group is the last one.
KillerIsLast == (\E w \in Workers : pc[w] = "kill") => Holding = {}

\* Somebody has yet to ping, or will never have to: a worker that did not find
\* itself the last one left a token, and with it a worker, behind.
SomeoneRuns == \E w \in Workers : pc[w] \notin {"ping", "parked"}

\* When nobody is on its way any more, the last ping to be sent is still there.
PingLeft ==
  (\A w \in Workers : pc[w] = "parked" \/ (pc[w] = "wait" /\ Drained(w)))
    => pings > 0 \/ \A w \in Workers : pc[w] = "parked"

\* Only a worker that has returned from its wait has events at hand, and a
\* select() that returned comfd was called by a worker without a successor.
EventsAtHand ==
  \A w \in Workers :
    /\ pc[w] \notin {"handle", "app", "accepting", "closing"} => ev[w] = {}
    /\ Handler = "select" =>
         /\ pc[w] = "handle" /\ "comfd" \in ev[w] => ~ready[w]
         /\ pc[w] \in {"app", "accepting", "closing"} => ev[w] \subseteq {"public", "session"}

Inductive ==
  /\ TypeOK /\ OwnersInService /\ LinksInService /\ EventsOwned /\ ReadyReported
  /\ SessionsCounted /\ WorkersCounted /\ LiveInLoop /\ KillerIsLast
  /\ SomeoneRuns /\ PingLeft /\ EventsAtHand

(* What the group promises as one: VersionLife with the sessions of all its *)
(* workers and the streams they all hold.                                  *)

Life == INSTANCE VersionLife WITH
  Clients <- Conns,
  Newer   <- Updaters,
  phase   <- IF killed THEN "ended" ELSE IF marked THEN "superseded" ELSE "current",
  clients <- {c \in Conns : Accepted(c)},
  streams <- {u \in Updaters : link[u] = "open"}

\* The group, although no worker sees more than its own sessions and streams
\* and the tokens it peeks at, lives like one process: it is superseded by a
\* newer version whose stream it holds, and ends with no client and no stream
\* left (dsu_termination_detection and dsu_terminate).
LivesAsOne == Life!Spec

(* Liveness.                                                               *)

\* Once a newer version has reported, the group ends.
GroupEnds == marked ~> killed

\* Once a newer version has reported, this version some day serves its last
\* client and accepts no more.
Quiesces == marked ~> [](\A c \in Conns : st[c] \in {"free", "pending"})

\* A newer version that asks for the port is answered, by this version or by
\* one that already has the port, or finds this version's worker dead.
Answered == \A u \in Updaters : up[u] = "sent" ~> up[u] # "sent"

=============================================================================
