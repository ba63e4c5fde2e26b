------------------------------ MODULE Handover ------------------------------
(***************************************************************************)
(* The versions of one server and how its port passes from one to the      *)
(* next.  Where WorkerPool looks inside one version, this module looks at  *)
(* all of them: each is one process with one listening port, from bind(),  *)
(* which the library wraps, to its end.                                    *)
(*                                                                         *)
(* What the versions share is kept by the kernel: the abstract name in the *)
(* unix domain that stands for the port, the sockets, which live as long   *)
(* as a process or a message refers to them, and one stream per version    *)
(* that found the name taken.  A version that inherits the port refers to  *)
(* the sockets of the version that opened it, `comfd` included, so that    *)
(* all versions accept requests for the port from one common backlog.      *)
(*                                                                         *)
(* WorkerPool decides when a superseded version may end; here it ends once *)
(* no newer version holds a stream with it.                                *)
(***************************************************************************)
EXTENDS Naturals, Sequences, SequencesExt

CONSTANTS
  Versions,      \* every version that is ever started
  Handler,       \* the event call the application uses: "epoll" or "select"
  Starts,        \* when the next one may be: see MayStart
  ServingDies,   \* TRUE if a version may crash once it has the port
  SigPipe,       \* TRUE if a send to a peer that is gone kills the sender
  WriteFails,    \* TRUE if dsu_write_fd() may refuse a valid descriptor
  None           \* no socket, no version

\* Named after the version that opens them.
Sockets == {"port", "com"} \X Versions

ASSUME HandoverConstants ==
  /\ Handler \in {"epoll", "select"}
  /\ Starts \in {"settled", "served", "any"}
  /\ ServingDies \in BOOLEAN /\ SigPipe \in BOOLEAN /\ WriteFails \in BOOLEAN
  /\ None \notin Versions \cup Sockets

VARIABLES
  loc,      \* where each version stands, in bind() or after it
  pub,      \* the socket behind its public descriptor
  com,      \* the socket behind its comfd
  names,    \* versions whose own comfd socket was bound to the name
  listens,  \* those of them whose comfd socket also listens
  stream,   \* its stream to an older version: in a backlog, accepted, closed
  to,       \* the comfd socket whose backlog that is, then who accepted it
  asks,     \* what it has sent on the stream and nobody has received yet
  mail,     \* the sockets sent to it on the stream and not received yet
  owes,     \* comfd_close > 0: it has yet to report that it serves the port
  duty      \* what it knows of a newer version that serves the port

vars == <<loc, pub, com, names, listens, stream, to, asks, mail, owes, duty>>

TypeOK ==
  /\ loc \in [Versions -> {"off", "named", "connect", "send", "recv",
                           "bind", "app", "loop", "dead"}]
  /\ pub \in [Versions -> Sockets \cup {None}]
  /\ com \in [Versions -> Sockets \cup {None}]
  /\ names \subseteq Versions /\ listens \subseteq names
  /\ stream \in [Versions -> {"none", "backlog", "open", "closed"}]
  /\ to \in [Versions -> Versions \cup {None}]
  /\ asks \in [Versions -> {"none", "port", "ready"}]
  /\ mail \in [Versions -> Seq(Sockets)]
  /\ \A v \in Versions : Len(mail[v]) <= 2
  /\ owes \in [Versions -> BOOLEAN]
  /\ duty \in [Versions -> {"serving", "marked", "draining"}]

Init ==
  /\ loc = [v \in Versions |-> "off"]
  /\ pub = [v \in Versions |-> None]
  /\ com = [v \in Versions |-> None]
  /\ names = {} /\ listens = {}
  /\ stream = [v \in Versions |-> "none"]
  /\ to = [v \in Versions |-> None]
  /\ asks = [v \in Versions |-> "none"]
  /\ mail = [v \in Versions |-> <<>>]
  /\ owes = [v \in Versions |-> FALSE]
  /\ duty = [v \in Versions |-> "serving"]

-----------------------------------------------------------------------------
(* The kernel.                                                             *)

Goto(v, l) == loc' = [loc EXCEPT ![v] = l]

Live(v) == loc[v] \notin {"off", "dead"}

\* A socket exists while a process or a message on its way refers to it.
Exists(s) ==
  \E v \in Versions : Live(v) /\ (s \in {pub[v], com[v]} \/ Contains(mail[v], s))

\* The comfd sockets that hold the name: at most one.
Named == {x \in names : Exists(<<"com", x>>)}

PortBound == \E x \in Versions : Exists(<<"port", x>>)

\* The other end of v's stream is gone.
Broken(v) ==
  \/ stream[v] = "closed"
  \/ stream[v] = "backlog" /\ ~Exists(<<"com", to[v]>>)
  \/ stream[v] = "open" /\ loc[to[v]] = "dead"

-----------------------------------------------------------------------------
(* bind().                                                                 *)

Serving(v) == loc[v] = "loop" /\ duty[v] = "serving"

OneServing == \A v, w \in Versions : Serving(v) /\ Serving(w) => v = w

\* No version is in bind(), has yet to report, or has yet to hear a report.
AtRest == \A v \in Versions :
  Live(v) => loc[v] = "loop" /\ ~owes[v] /\ asks[v] # "ready" /\ duty[v] # "marked"

\* "settled": one update at a time.  "served": as soon as the first version is
\* in its event loop, updates may overlap.  "any": whenever.
MayStart ==
  \/ Starts = "any"
  \/ \A v \in Versions : ~Live(v)
  \/ Starts = "settled" /\ AtRest /\ OneServing
  \/ Starts = "served" /\ \E v \in Versions : loc[v] = "loop"

\* dsu_monitor_init(): bind the own comfd socket to the name, or find it taken.
Start(v) ==
  /\ loc[v] = "off" /\ MayStart
  /\ com' = [com EXCEPT ![v] = <<"com", v>>]
  /\ IF Named = {} THEN names' = names \cup {v} /\ Goto(v, "named")
                   ELSE UNCHANGED names /\ Goto(v, "connect")
  /\ UNCHANGED <<pub, listens, stream, to, asks, mail, owes, duty>>

\* ... and listen on it.
Listen(v) ==
  /\ loc[v] = "named"
  /\ listens' = listens \cup {v}
  /\ Goto(v, "bind")
  /\ UNCHANGED <<pub, com, names, stream, to, asks, mail, owes, duty>>

\* dsu_inherit_fd(): connect() is refused unless the name is held by a socket
\* that listens by now.
Connect(v) ==
  /\ loc[v] = "connect"
  /\ \/ \E x \in Named \cap listens :
          /\ stream' = [stream EXCEPT ![v] = "backlog"]
          /\ to' = [to EXCEPT ![v] = x]
          /\ Goto(v, "send")
     \/ /\ Named \cap listens = {}
        /\ Goto(v, "bind")
        /\ UNCHANGED <<stream, to>>
  /\ UNCHANGED <<pub, com, names, listens, asks, mail, owes, duty>>

\* Ask for the port by its number.
Send(v) ==
  /\ loc[v] = "send"
  /\ IF Broken(v)
       THEN Goto(v, IF SigPipe THEN "dead" ELSE "bind") /\ UNCHANGED asks
       ELSE Goto(v, "recv") /\ asks' = [asks EXCEPT ![v] = "port"]
  /\ UNCHANGED <<pub, com, names, listens, stream, to, mail, owes, duty>>

\* dsu_read_fd() twice, each blocking until a message or the end of the stream.
Arrived(v) == Len(mail[v]) = 2 \/ Broken(v)

\* The two descriptors taken in the wrong order.
WrongReceive(v) ==
  /\ loc[v] = "recv"
  /\ Arrived(v)
  /\ IF mail[v] = <<>>
       THEN Goto(v, "bind") /\ UNCHANGED <<pub, com, owes>>
       ELSE /\ pub' = [pub EXCEPT ![v] = Last(mail[v])]
            /\ com' = [com EXCEPT ![v] = Head(mail[v])]
            /\ owes' = [owes EXCEPT ![v] = TRUE]
            /\ Goto(v, "app")
  /\ mail' = [mail EXCEPT ![v] = <<>>]
  /\ asks' = [asks EXCEPT ![v] = "none"]
  /\ UNCHANGED <<names, listens, stream, to, duty>>

\* The own comfd socket kept.
WrongReceiveComfd(v) ==
  /\ loc[v] = "recv"
  /\ Arrived(v)
  /\ IF mail[v] = <<>>
       THEN Goto(v, "bind") /\ UNCHANGED <<pub, owes>>
       ELSE /\ pub' = [pub EXCEPT ![v] = Head(mail[v])]
            /\ owes' = [owes EXCEPT ![v] = TRUE]
            /\ Goto(v, "app")
  /\ mail' = [mail EXCEPT ![v] = <<>>]
  /\ asks' = [asks EXCEPT ![v] = "none"]
  /\ UNCHANGED <<com, names, listens, stream, to, duty>>

\* The two descriptors.  Only the port number is looked at afterwards: one
\* message is enough to go on, with whatever the descriptor of the other is.
\* What is still unread at the other end of a broken stream is gone for good.
Receive(v) ==
  /\ loc[v] = "recv"
  /\ Arrived(v)
  /\ IF mail[v] = <<>>
       THEN Goto(v, "bind") /\ UNCHANGED <<pub, com, owes>>
       ELSE /\ pub' = [pub EXCEPT ![v] = Head(mail[v])]
            /\ com' = [com EXCEPT ![v] = IF Len(mail[v]) = 2 THEN Last(mail[v]) ELSE None]
            /\ owes' = [owes EXCEPT ![v] = TRUE]
            /\ Goto(v, "app")
  /\ mail' = [mail EXCEPT ![v] = <<>>]
  /\ asks' = [asks EXCEPT ![v] = "none"]
  /\ UNCHANGED <<names, listens, stream, to, duty>>

\* "No other version running": bind() and the listen() that follows it.  If the
\* port is taken after all bind() fails, and the program gives up.
BindPort(v) ==
  /\ loc[v] = "bind"
  /\ IF PortBound
       THEN Goto(v, "dead") /\ UNCHANGED pub
       ELSE Goto(v, "app") /\ pub' = [pub EXCEPT ![v] = <<"port", v>>]
  /\ UNCHANGED <<com, names, listens, stream, to, asks, mail, owes, duty>>

\* The application comes to its event loop.
EnterLoop(v) ==
  /\ loc[v] = "app"
  /\ Goto(v, "loop")
  /\ UNCHANGED <<pub, com, names, listens, stream, to, asks, mail, owes, duty>>

-----------------------------------------------------------------------------
(* The event loop.  With epoll the first return of epoll_wait() reports     *)
(* before it looks at any event; with select a client has to come first,    *)
(* and a version that is draining does not look at its clients any more.    *)

MayHandle(a) == loc[a] = "loop" /\ (Handler = "epoll" => ~owes[a])

\* send() of the number 1 on the stream that brought the port, then close().
Report(v) ==
  /\ loc[v] = "loop" /\ owes[v]
  /\ Handler = "select" => duty[v] # "draining"
  /\ owes' = [owes EXCEPT ![v] = FALSE]
  /\ IF Broken(v)
       THEN /\ IF SigPipe THEN Goto(v, "dead") ELSE UNCHANGED loc
            /\ UNCHANGED asks
       ELSE asks' = [asks EXCEPT ![v] = "ready"] /\ UNCHANGED loc
  /\ UNCHANGED <<pub, com, names, listens, stream, to, mail, duty>>

\* comfd is still watched while draining.
WrongAccept(a, v) ==
  /\ MayHandle(a)
  /\ stream[v] = "backlog" /\ com[a] = <<"com", to[v]>>
  /\ stream' = [stream EXCEPT ![v] = "open"]
  /\ to' = [to EXCEPT ![v] = a]
  /\ UNCHANGED <<loc, pub, com, names, listens, asks, mail, owes, duty>>

\* comfd is readable: take one stream out of its backlog.
Accept(a, v) ==
  /\ MayHandle(a) /\ duty[a] # "draining"
  /\ stream[v] = "backlog" /\ com[a] = <<"com", to[v]>>
  /\ stream' = [stream EXCEPT ![v] = "open"]
  /\ to' = [to EXCEPT ![v] = a]
  /\ UNCHANGED <<loc, pub, com, names, listens, asks, mail, owes, duty>>

Holds(a, v) == MayHandle(a) /\ stream[v] = "open" /\ to[v] = a

\* comfd is not passed on.
WrongLetters(a) == {<<pub[a]>>}

\* dsu_write_fd() of a's public socket and of its comfd to version v.
Letters(a) ==
  {<<pub[a], com[a]>>} \cup (IF WriteFails THEN {<<>>, <<pub[a]>>, <<com[a]>>} ELSE {})

\* The message is looked at and left on the stream.
WrongServe(a, v) ==
  /\ Holds(a, v) /\ asks[v] = "port"
  /\ \E letters \in Letters(a) : mail' = [mail EXCEPT ![v] = @ \o letters]
  /\ UNCHANGED <<loc, asks, pub, com, names, listens, stream, to, owes, duty>>

\* v died with a message unread: the next receive at the other end fails.
Reset(v) == asks[v] = "none" /\ loc[v] = "dead" /\ mail[v] # <<>>

\* A port number: pass on both sockets.  An "unknown error" of the receive goes the
\* same way, once, and leaves the stream open.  The two sends to a newer version
\* that is gone by now fail.
Serve(a, v) ==
  /\ Holds(a, v) /\ (asks[v] = "port" \/ Reset(v))
  /\ asks' = [asks EXCEPT ![v] = "none"]
  /\ IF loc[v] = "dead"
       THEN /\ IF SigPipe THEN Goto(a, "dead") ELSE UNCHANGED loc
            /\ mail' = [mail EXCEPT ![v] = <<>>]
       ELSE \E letters \in Letters(a) :
              mail' = [mail EXCEPT ![v] = @ \o letters] /\ UNCHANGED loc
  /\ UNCHANGED <<pub, com, names, listens, stream, to, owes, duty>>

\* The stream stays open.
WrongHearReady(a, v) ==
  /\ Holds(a, v) /\ asks[v] = "ready"
  /\ asks' = [asks EXCEPT ![v] = "none"]
  /\ duty' = [duty EXCEPT ![a] = IF @ = "serving" THEN "marked" ELSE @]
  /\ UNCHANGED <<loc, pub, com, names, listens, stream, to, mail, owes>>

\* The number 1: mark readyfd, close the stream.
HearReady(a, v) ==
  /\ Holds(a, v) /\ asks[v] = "ready"
  /\ asks' = [asks EXCEPT ![v] = "none"]
  /\ stream' = [stream EXCEPT ![v] = "closed"]
  /\ duty' = [duty EXCEPT ![a] = IF @ = "serving" THEN "marked" ELSE @]
  /\ UNCHANGED <<loc, pub, com, names, listens, to, mail, owes>>

\* readyfd is readable: no more clients, no more requests for the port.
Drain(a) ==
  /\ MayHandle(a) /\ duty[a] = "marked"
  /\ duty' = [duty EXCEPT ![a] = "draining"]
  /\ UNCHANGED <<loc, pub, com, names, listens, stream, to, asks, mail, owes>>

\* The end of the stream taken for a report.
WrongHangUp(a, v) ==
  /\ Holds(a, v) /\ asks[v] = "none" /\ loc[v] = "dead" /\ mail[v] = <<>>
  /\ stream' = [stream EXCEPT ![v] = "closed"]
  /\ duty' = [duty EXCEPT ![a] = IF @ = "serving" THEN "marked" ELSE @]
  /\ UNCHANGED <<loc, pub, com, names, listens, to, asks, mail, owes>>

\* End of the stream: close it.
HangUp(a, v) ==
  /\ Holds(a, v) /\ asks[v] = "none" /\ loc[v] = "dead" /\ mail[v] = <<>>
  /\ stream' = [stream EXCEPT ![v] = "closed"]
  /\ UNCHANGED <<loc, pub, com, names, listens, to, asks, mail, owes, duty>>

\* The streams of newer versions are not looked at.
WrongEnd(a) ==
  /\ MayHandle(a) /\ duty[a] = "draining"
  /\ Goto(a, "dead")
  /\ UNCHANGED <<pub, com, names, listens, stream, to, asks, mail, owes, duty>>

\* A superseded version that has served its last client ends.
End(a) ==
  /\ MayHandle(a) /\ duty[a] = "draining"
  /\ \A v \in Versions : ~Holds(a, v)
  /\ Goto(a, "dead")
  /\ UNCHANGED <<pub, com, names, listens, stream, to, asks, mail, owes, duty>>

\* A version dies.
Crash(v) ==
  /\ Live(v)
  /\ loc[v] \in {"app", "loop"} => ServingDies
  /\ Goto(v, "dead")
  /\ UNCHANGED <<pub, com, names, listens, stream, to, asks, mail, owes, duty>>

\* ... between the two sends of dsu_write_fd().
CrashServing(a, v) ==
  /\ ServingDies
  /\ Holds(a, v) /\ asks[v] = "port" /\ loc[v] # "dead"
  /\ asks' = [asks EXCEPT ![v] = "none"]
  /\ mail' = [mail EXCEPT ![v] = Append(@, pub[a])]
  /\ Goto(a, "dead")
  /\ UNCHANGED <<pub, com, names, listens, stream, to, owes, duty>>

-----------------------------------------------------------------------------
\* What a version does by itself.
Step(v) ==
  \/ Listen(v) \/ Connect(v) \/ Send(v) \/ Receive(v) \/ BindPort(v) \/ EnterLoop(v)
  \/ Report(v) \/ Drain(v) \/ End(v)
  \/ \E u \in Versions : Accept(v, u) \/ Serve(v, u) \/ HearReady(v, u) \/ HangUp(v, u)

Next ==
  \E v \in Versions :
    \/ Start(v) \/ Step(v) \/ Crash(v)
    \/ \E u \in Versions : CrashServing(v, u)

Spec == Init /\ [][Next]_vars

(* Every version that is alive runs on and, some client or signal coming    *)
(* its way, returns from its event call again and again.  Nothing forces a  *)
(* start or a crash.                                                        *)
FairSpec == Spec /\ \A v \in Versions : WF_vars(Step(v))

-----------------------------------------------------------------------------
(* Properties.                                                             *)

\* The versions that serve the port, or are about to, share one socket, so that
\* a client in its backlog can be accepted by any of them (dsu_inherit_fd).
OnePublicSocket ==
  \A v, w \in Versions :
    loc[v] \in {"app", "loop"} /\ loc[w] \in {"app", "loop"}
      => pub[v] = pub[w] /\ \E x \in Versions : pub[v] = <<"port", x>>

\* Some version accepts clients.
Served == \E v \in Versions : loc[v] = "loop" /\ duty[v] # "draining"

\* Once the port is served no step leaves it without a server: no version
\* drains or ends before another one serves (README.md: updates "without
\* disruption in service").
PortServed == [][Served => Served']_vars

\* A version that serves the port can itself be superseded: it waits for
\* requests on the socket that holds the name (dsu_inherit_fd passes on comfd
\* "so internal communication can be taken over when the update completes").
Updatable ==
  \A v \in Versions : Serving(v) => \E x \in Named \cap listens : com[v] = <<"com", x>>

\* A version binds the port itself only if no other one has it (bind(): "No
\* other version running").
NoOtherVersion ==
  \A v \in Versions : loc[v] = "bind" /\ v \notin names => ~PortBound

\* Between updates one version serves the port: the older one has been taken
\* over from "when the update completes" (dsu_inherit_fd).
SingleServer == AtRest => OneServing

(* What the safety properties rest on, in parts that are inductive together *)
(* unless a version that serves may die.                                   *)

\* A stream is there from connect() on, and one that was left in a backlog has
\* lost its listener for good; a report is sent on an accepted stream only.
StreamSound(v) ==
  /\ loc[v] \in {"off", "named", "connect"} => stream[v] = "none"
  /\ stream[v] = "backlog" => to[v] \in Versions /\ loc[to[v]] # "off"
  /\ stream[v] = "backlog" /\ loc[v] \in {"bind", "app", "loop"} => Broken(v)
  /\ mail[v] # <<>> \/ owes[v] => stream[v] \in {"open", "closed"}
  /\ asks[v] = "ready" => stream[v] = "open" /\ loc[v] \in {"loop", "dead"}
  /\ loc[v] \notin {"loop", "dead"} => duty[v] = "serving"

\* v serves the port, and no version that has reported, or that could report
\* without more ado, holds a stream with it: nothing is about to stop it.
Safe(w) ==
  /\ Serving(w)
  /\ \A v \in Versions :
       stream[v] = "open" /\ to[v] = w => loc[v] # "loop" /\ asks[v] # "ready"

\* Some version has come to its event loop.
Begun == \E v \in Versions : loc[v] = "loop" \/ duty[v] # "serving"

\* From then on some version is safe: the youngest of those that have come there.
SomeoneSafe == Begun => \E w \in Versions : Safe(w)

Inductive == (\A v \in Versions : StreamSound(v)) /\ SomeoneSafe

\* Until then at most one version is alive, and it has bound its comfd socket.
Founding ==
  \A v \in Versions : Live(v) =>
    /\ \A w \in Versions : Live(w) => v = w
    /\ loc[v] \in {"named", "bind", "app"} /\ (loc[v] # "named" => v \in listens)
    /\ v \in names /\ com[v] = <<"com", v>> /\ pub[v] \in {None, <<"port", v>>}

\* v has asked, or is about to ask, a version that is there to answer.
Waiting(v, x) ==
  loc[v] \in {"send", "recv"} =>
    /\ stream[v] # "closed"
    /\ stream[v] = "backlog" => to[v] = x
    /\ stream[v] = "open" => loc[to[v]] = "loop"
    /\ Len(mail[v]) = 2 => Last(mail[v]) = <<"com", x>>

\* The comfd socket of version x holds the name, is the one that every version
\* takes over, and nobody is left to bind one of its own.
Established(x) ==
  /\ x \in listens /\ Named \subseteq {x}
  /\ \A v \in Versions : /\ loc[v] \notin {"named", "bind"}
                         /\ loc[v] \in {"app", "loop"} => com[v] = <<"com", x>>
                         /\ Waiting(v, x)

\* One socket holds the name from the first version in its event loop to the last.
NameKept == IF Begun THEN \E x \in Versions : Established(x) ELSE Founding

\* n is the youngest version: all others have been in their event loops since
\* before it was started.  One of them at most still answers requests, and if
\* that one still serves, n has its port from it and owes it a report.
Youngest(n) ==
  /\ \A u \in Versions \ {n} : Live(u) => loc[u] = "loop"
  /\ \A u, w \in Versions \ {n} :
       /\ loc[u] = "loop" /\ duty[u] # "draining"
       /\ loc[w] = "loop" /\ duty[w] # "draining"
       => u = w
  /\ \A u \in Versions \ {n} : Serving(u) =>
       /\ loc[n] \in {"send", "recv"} /\ stream[n] = "open" => to[n] = u
       /\ loc[n] \in {"app", "loop"} =>
            stream[n] = "open" /\ to[n] = u /\ (owes[n] \/ asks[n] = "ready")

\* Updates follow one another: see "settled".
OneUpdate ==
  /\ (\E v \in Versions : Live(v)) => \E n \in Versions : Youngest(n)
  /\ \A v \in Versions : stream[v] = "closed" => loc[v] \in {"loop", "dead"}

(* What each version promises by itself, and all of them together.         *)

Life(v) == INSTANCE VersionLife WITH
  Clients <- {},
  Newer   <- Versions,
  phase   <- IF duty[v] = "serving" THEN "current"
             ELSE IF loc[v] = "dead" THEN "ended" ELSE "superseded",
  clients <- {},
  streams <- {u \in Versions : stream[u] = "open" /\ to[u] = v}

\* Each version lives as the group of workers that stands for it in WorkerPool
\* does: it is superseded by a version whose stream it holds, and ends when it
\* holds no stream any more.
LivesAsPromised ==
  /\ \A v \in Versions : Life(v)!Init
  /\ [][\A v \in Versions : [Life(v)!Next]_(Life(v)!life)]_vars

Port == INSTANCE PortService WITH
  stage <- [v \in Versions |-> IF duty[v] = "draining" THEN "retired"
                              ELSE IF loc[v] = "loop" THEN "serving" ELSE "new"]

\* The versions keep the port open: it is opened once, and a version retires
\* only while another one serves (README.md: updates "without disruption in
\* service").
KeepsPortOpen == Port!Spec

\* A newer version that asks for the port is answered.
Answered == \A v \in Versions : loc[v] = "recv" ~> loc[v] # "recv"

\* An update that has begun comes to an end: the newer version dies, or the
\* older one does.
UpdateEnds ==
  \A v, w \in Versions :
    v # w /\ Live(v) /\ Live(w) ~> loc[v] = "dead" \/ loc[w] = "dead"

=============================================================================
