---------------------------- MODULE UpdateProofs ----------------------------
(* More theorems about Handover: who holds the name of the port, and that    *)
(* updates which follow one another leave one version to serve it.           *)
EXTENDS HandoverProofs

-----------------------------------------------------------------------------
(* The name.                                                               *)

\* A version that runs refers to its comfd socket.
LEMMA OwnExists ==
  ASSUME NEW v \in Versions, Live(v), NEW s, com[v] = s
  PROVE  Exists(s)
BY DEF Exists

\* Once a version has come to its event loop, some version has.
LEMMA BegunStays ==
  ASSUME TypeInv, ServersLast, [Next]_vars, Begun
  PROVE  Begun'
<1>0. TypeOK
  BY DEF TypeInv
<1>1. ASSUME NEW v \in Versions, loc[v] = "loop" PROVE Begun'
  <2>1. CASE loc'[v] = "loop"
    BY <2>1 DEF Begun
  <2>2. CASE loc'[v] # "loop"
    <3>1. End(v)
      BY <1>1, <2>2, LoopLeft
    <3> QED
      BY <3>1 DEF End, Begun
  <2> QED
    BY <2>1, <2>2
<1>2. ASSUME NEW v \in Versions, duty[v] # "serving" PROVE Begun'
  <2>1. duty'[v] # "serving"
    <3> USE <1>0 DEF TypeOK
    <3>1. CASE UNCHANGED duty
      BY <1>2, <3>1
    <3>2. ASSUME NEW a \in Versions, NEW u \in Versions, HearReady(a, u)
          PROVE  duty'[v] # "serving"
      BY <1>2, <3>2 DEF HearReady
    <3>3. ASSUME NEW a \in Versions, Drain(a) PROVE duty'[v] # "serving"
      BY <1>2, <3>3 DEF Drain
    <3>4. ASSUME Next,
                 ~ \E a \in Versions : Drain(a) \/ \E u \in Versions : HearReady(a, u)
          PROVE  UNCHANGED duty
      BY <3>4 DEF Next, Step, Start, Listen, Connect, Send, Receive, BindPort, EnterLoop,
                  Report, End, Crash, Accept, Serve, HangUp, CrashServing
    <3> QED
      BY <3>1, <3>2, <3>3, <3>4 DEF vars
  <2> QED
    BY <2>1 DEF Begun
<1> QED
  BY <1>1, <1>2 DEF Begun

\* Before that, a version may start only when no other one is alive.
LEMMA FoundingStep ==
  ASSUME TypeInv, Sound, Starts # "any", ~Begun, Founding, [Next]_vars, ~Begun'
  PROVE  Founding'
<1>0. TypeOK /\ \A v \in Versions : loc[v] # "loop" /\ duty[v] = "serving"
  BY DEF TypeInv, Begun
<1> USE <1>0 DEF TypeOK, Goto, Live
<1>1. CASE UNCHANGED vars
  BY <1>1 DEF vars, Founding
<1>2. ASSUME NEW v \in Versions, Start(v) PROVE Founding'
  <2>1. \A u \in Versions : ~Live(u)
    <3>1. MayStart
      BY <1>2 DEF Start
    <3> QED
      BY <3>1, HandoverConstants DEF MayStart, AtRest, HandoverConstants
  <2>2. Named = {}
    BY <2>1 DEF Named, Exists
  <2>3. /\ names' = names \cup {v} /\ loc' = [loc EXCEPT ![v] = "named"]
        /\ com' = [com EXCEPT ![v] = <<"com", v>>] /\ UNCHANGED <<pub, listens>>
    BY <1>2, <2>2 DEF Start
  <2>4. pub[v] = None
    BY <1>2 DEF Start, TypeInv, Equipped
  <2> QED
    BY <2>1, <2>3, <2>4 DEF Founding
<1>3. ASSUME NEW v \in Versions, Listen(v) PROVE Founding'
  BY <1>3 DEF Listen, Founding
<1>4. ASSUME NEW v \in Versions, BindPort(v) PROVE Founding'
  <2>1. /\ loc[v] = "bind" /\ UNCHANGED <<com, names, listens>>
        /\ \/ loc' = [loc EXCEPT ![v] = "dead"] /\ pub' = pub
           \/ loc' = [loc EXCEPT ![v] = "app"] /\ pub' = [pub EXCEPT ![v] = <<"port", v>>]
    BY <1>4 DEF BindPort
  <2>2. CASE loc' = [loc EXCEPT ![v] = "dead"] /\ pub' = pub
    BY <2>1, <2>2 DEF Founding
  <2>3. CASE loc' = [loc EXCEPT ![v] = "app"] /\ pub' = [pub EXCEPT ![v] = <<"port", v>>]
    BY <2>1, <2>3 DEF Founding
  <2> QED
    BY <2>1, <2>2, <2>3
<1>5. ASSUME NEW v \in Versions, Crash(v) PROVE Founding'
  BY <1>5 DEF Crash, Founding
<1>6. ASSUME NEW v \in Versions, EnterLoop(v) PROVE FALSE
  BY <1>6 DEF EnterLoop, Begun
<1>7. ASSUME NEW v \in Versions, Connect(v) \/ Send(v) \/ Receive(v) PROVE FALSE
  BY <1>7 DEF Connect, Send, Receive, Founding
<1>8. ASSUME NEW v \in Versions, NEW u \in Versions,
             \/ Report(v) \/ Drain(v) \/ End(v) \/ Accept(v, u) \/ Serve(v, u)
             \/ HearReady(v, u) \/ HangUp(v, u) \/ CrashServing(v, u)
      PROVE  FALSE
  BY <1>8 DEF Report, Drain, End, Accept, Serve, HearReady, HangUp, CrashServing, Holds,
              MayHandle
<1> QED
  BY <1>1, <1>2, <1>3, <1>4, <1>5, <1>6, <1>7, <1>8 DEF Next, Step

\* The first version that comes to its event loop holds the name.
LEMMA FounderEstablished ==
  ASSUME TypeInv, ~Begun, Founding, [Next]_vars, Begun'
  PROVE  \E x \in Versions : Established(x)'
<1>0. TypeOK /\ \A v \in Versions : loc[v] # "loop" /\ duty[v] = "serving"
  BY DEF TypeInv, Begun
<1> USE <1>0 DEF TypeOK, Goto
<1>1. ~UNCHANGED vars
  BY DEF vars, Begun
<1>2. ASSUME NEW v \in Versions,
             \/ Start(v) \/ Listen(v) \/ Connect(v) \/ Send(v) \/ Receive(v)
             \/ BindPort(v) \/ Crash(v)
      PROVE  FALSE
  <2>1. duty' = duty /\ \E l \in {"named", "connect", "bind", "send", "recv", "app", "dead"} :
                          loc' = [loc EXCEPT ![v] = l]
    BY <1>2 DEF Start, Listen, Connect, Send, Receive, BindPort, Crash
  <2> QED
    BY <2>1 DEF Begun
<1>3. ASSUME NEW v \in Versions, NEW u \in Versions,
             \/ Report(v) \/ Drain(v) \/ End(v) \/ Accept(v, u) \/ Serve(v, u)
             \/ HearReady(v, u) \/ HangUp(v, u) \/ CrashServing(v, u)
      PROVE  FALSE
  BY <1>3 DEF Report, Drain, End, Accept, Serve, HearReady, HangUp, CrashServing, Holds,
              MayHandle
<1>4. ASSUME NEW v \in Versions, EnterLoop(v) PROVE Established(v)'
  <2>1. /\ loc[v] = "app" /\ loc' = [loc EXCEPT ![v] = "loop"]
        /\ UNCHANGED <<pub, com, names, listens, stream, to, mail>>
    BY <1>4 DEF EnterLoop
  <2>2. \A u \in Versions \ {v} : ~Live(u)
    BY <2>1 DEF Founding, Live
  <2>3. v \in listens /\ com[v] = <<"com", v>> /\ pub[v] \in {None, <<"port", v>>}
        /\ mail[v] = <<>>
    BY <2>1 DEF Founding, Live, TypeInv, Posted
  <2>4. Named' \subseteq {v}
    <3> SUFFICES ASSUME NEW y \in names, y # v, Exists(<<"com", y>>)' PROVE FALSE
      BY <2>1 DEF Named
    <3>1. \A u \in Versions \ {v} : ~Live(u)'
      BY <2>1, <2>2 DEF Live
    <3>2. <<"com", y>> \in {pub[v], com[v]} \/ Contains(mail[v], <<"com", y>>)
      BY <2>1, <3>1 DEF Exists
    <3>3. ~Contains(<<>>, <<"com", y>>)
      BY DEF Contains
    <3>4. <<"com", y>> # None
      <4>1. <<"com", y>> \in Sockets
        BY OwnSockets
      <4> QED
        BY <4>1, HandoverConstants DEF HandoverConstants
    <3>5. ~Contains(mail[v], <<"com", y>>)
      BY <2>3, <3>3
    <3>6. <<"com", y>> # <<"com", v>> /\ <<"com", y>> # <<"port", v>>
      OBVIOUS
    <3>7. <<"com", y>> # com[v] /\ <<"com", y>> # pub[v]
      BY <2>3, <3>4, <3>6
    <3> QED
      BY <3>2, <3>5, <3>7
  <2>5. \A u \in Versions : /\ loc'[u] \notin {"named", "bind", "send", "recv"}
                            /\ loc'[u] \in {"app", "loop"} => com'[u] = <<"com", v>>
    BY <2>1, <2>2, <2>3 DEF Live
  <2> QED
    BY <2>1, <2>3, <2>4, <2>5 DEF Established, Waiting
<1> QED
  BY <1>1, <1>2, <1>3, <1>4 DEF Next, Step

\* The socket that holds the name is there, in the hands of a version that serves.
LEMMA EstablishedNamed ==
  ASSUME TypeInv, NEW x \in Versions, Established(x), NEW w \in Versions, loc[w] = "loop"
  PROVE  Named = {x} /\ x \in names /\ Exists(<<"com", x>>)
<1>1. com[w] = <<"com", x>> /\ Live(w) /\ x \in names
  BY DEF Established, Live, TypeInv, TypeOK
<1>2. Exists(<<"com", x>>)
  BY <1>1, OwnExists
<1> QED
  BY <1>1, <1>2 DEF Established, Named

\* Nobody else comes to hold it.
LEMMA NameStays ==
  ASSUME TypeInv, [Next]_vars, NEW x \in Versions, Named = {x}
  PROVE  Named' \subseteq {x} /\ names' = names
<1>1. names' = names
  <2>1. ASSUME NEW v \in Versions, Start(v) PROVE names' = names
    BY <2>1 DEF Start
  <2> QED
    BY <2>1 DEF Next, Step, vars, Listen, Connect, Send, Receive, BindPort, EnterLoop, Report,
                Drain, End, Crash, Accept, Serve, HearReady, HangUp, CrashServing
<1>2. ASSUME NEW y \in names, y # x PROVE ~Exists(<<"com", y>>)'
  <2>1. y \in Versions /\ loc[y] # "off" /\ ~Exists(<<"com", y>>)
    BY <1>2 DEF TypeInv, TypeOK, Equipped, Named
  <2>2. /\ <<"com", y>> \in Sockets
        /\ \A z \in Versions : /\ <<"com", y>> = <<"com", z>> => loc[z] # "off"
                              /\ <<"com", y>> # <<"port", z>>
    BY <2>1, OwnSockets
  <2> QED
    BY <2>1, <2>2, GoneForGood
<1> QED
  BY <1>1, <1>2 DEF Named

\* A version that waits for an answer has one coming.
LEMMA WaitingUnbroken ==
  ASSUME NEW x \in Versions, Exists(<<"com", x>>), NEW v \in Versions, Waiting(v, x),
         loc[v] \in {"send", "recv"}
  PROVE  ~Broken(v)
BY DEF Waiting, Broken

\* The versions in bind() go by the one that holds the name.
LEMMA BindEstablished ==
  ASSUME TypeInv, Sound, NEW x \in Versions, Established(x), Named = {x},
         Exists(<<"com", x>>), NEW v \in Versions, NEW u \in Versions,
         \/ Start(v) \/ Listen(v) \/ Connect(v) \/ Send(v)
         \/ Receive(v) \/ BindPort(v) \/ EnterLoop(v)
  PROVE  /\ loc'[u] \notin {"named", "bind"}
         /\ loc'[u] \in {"app", "loop"} => com'[u] = <<"com", x>>
         /\ Waiting(u, x)'
<1>0. /\ TypeOK /\ loc[u] \notin {"named", "bind"} /\ loc[v] \notin {"named", "bind"}
      /\ loc[u] \in {"app", "loop"} => com[u] = <<"com", x>>
      /\ loc[v] \in {"app", "loop"} => com[v] = <<"com", x>>
      /\ Waiting(u, x) /\ Waiting(v, x)
  BY DEF TypeInv, Established
<1> USE <1>0 DEF TypeOK, Goto
<1>1. CASE Start(v)
  <2>1. /\ loc[v] = "off" /\ loc' = [loc EXCEPT ![v] = "connect"]
        /\ com' = [com EXCEPT ![v] = <<"com", v>>] /\ UNCHANGED <<stream, to, mail>>
    BY <1>1 DEF Start
  <2> QED
    BY <2>1 DEF Waiting
<1>2. CASE Connect(v)
  <2>1. /\ loc[v] = "connect" /\ loc' = [loc EXCEPT ![v] = "send"]
        /\ stream' = [stream EXCEPT ![v] = "backlog"] /\ to' = [to EXCEPT ![v] = x]
        /\ UNCHANGED <<com, mail>>
    BY <1>2 DEF Connect, Established
  <2>2. mail[v] = <<>>
    BY <2>1 DEF TypeInv, Posted
  <2>3. CASE u = v
    BY <2>1, <2>2, <2>3 DEF Waiting
  <2>4. CASE u # v
    BY <2>1, <2>4 DEF Waiting
  <2> QED
    BY <2>3, <2>4
<1>3. CASE Send(v)
  <2>1. /\ loc[v] = "send" /\ loc' = [loc EXCEPT ![v] = "recv"]
        /\ UNCHANGED <<com, stream, to, mail>>
    BY <1>3, WaitingUnbroken DEF Send
  <2> QED
    BY <2>1 DEF Waiting
<1>4. CASE Receive(v)
  <2>1. loc[v] = "recv" /\ ~Broken(v) /\ Len(mail[v]) = 2
    BY <1>4, WaitingUnbroken DEF Receive, Arrived
  <2>2. mail[v] # <<>> /\ Last(mail[v]) = <<"com", x>>
    <3>1. Len(<<>>) # 2
      OBVIOUS
    <3> QED
      BY <2>1, <3>1 DEF Waiting
  <2>3. /\ loc' = [loc EXCEPT ![v] = "app"] /\ com' = [com EXCEPT ![v] = <<"com", x>>]
        /\ mail' = [mail EXCEPT ![v] = <<>>] /\ UNCHANGED <<stream, to>>
    BY <1>4, <2>1, <2>2 DEF Receive
  <2> QED
    BY <2>1, <2>3 DEF Waiting
<1>5. CASE EnterLoop(v)
  BY <1>5 DEF EnterLoop, Waiting
<1> QED
  BY <1>1, <1>2, <1>3, <1>4, <1>5 DEF Listen, BindPort

\* The versions in their event loops pass it on.
LEMMA LoopEstablished ==
  ASSUME TypeInv, Sound, ServersLast, NEW x \in Versions, Established(x),
         NEW a \in Versions, NEW v \in Versions, NEW u \in Versions,
         \/ Report(a) \/ Drain(a) \/ End(a) \/ Crash(a)
         \/ Accept(a, v) \/ Serve(a, v) \/ HearReady(a, v) \/ HangUp(a, v)
         \/ CrashServing(a, v)
  PROVE  /\ loc'[u] \notin {"named", "bind"}
         /\ loc'[u] \in {"app", "loop"} => com'[u] = <<"com", x>>
         /\ Waiting(u, x)'
<1>0. /\ TypeOK /\ loc[u] \notin {"named", "bind"}
      /\ loc[u] \in {"app", "loop"} => com[u] = <<"com", x>>
      /\ Waiting(u, x) /\ StreamSound(u) /\ StreamSound(v)
  BY DEF TypeInv, Established, Sound
<1> USE <1>0, ServersLast DEF ServersLast, TypeOK, Goto
<1>1. CASE Report(a) \/ Drain(a)
  <2>1. UNCHANGED <<loc, com, stream, to, mail>>
    BY <1>1 DEF Report, Drain
  <2> QED
    BY <2>1 DEF Waiting
<1>2. CASE End(a)
  <2>1. /\ loc[a] = "loop" /\ loc' = [loc EXCEPT ![a] = "dead"]
        /\ UNCHANGED <<com, stream, to, mail>>
        /\ ~ (stream[u] = "open" /\ to[u] = a)
    BY <1>2 DEF End, Holds, MayHandle
  <2>2. stream[u] = "open" => to[u] \in Versions
    BY DEF TypeInv, Equipped
  <2> QED
    BY <2>1, <2>2 DEF Waiting
<1>3. CASE Crash(a)
  <2>1. /\ loc[a] # "loop" /\ loc' = [loc EXCEPT ![a] = "dead"]
        /\ UNCHANGED <<com, stream, to, mail>>
    BY <1>3 DEF Crash
  <2> QED
    BY <2>1 DEF Waiting
<1>4. CASE Accept(a, v)
  <2>1. /\ loc[a] = "loop" /\ stream' = [stream EXCEPT ![v] = "open"]
        /\ to' = [to EXCEPT ![v] = a] /\ UNCHANGED <<loc, com, mail>>
    BY <1>4 DEF Accept, MayHandle
  <2> QED
    BY <2>1 DEF Waiting
<1>5. CASE Serve(a, v)
  <2>1. /\ Holds(a, v) /\ loc[a] = "loop" /\ com[a] = <<"com", x>>
        /\ UNCHANGED <<loc, com, stream, to>>
    BY <1>5 DEF Serve, Holds, MayHandle, Established
  <2>2. /\ pub[a] \in Sockets /\ Len(<<>>) # 2 /\ Len(<<pub[a]>>) # 2
    BY <2>1, ShortSeq DEF TypeInv, Equipped, Holds
  <2>3. \E m \in Answers(a) : mail' = [mail EXCEPT ![v] = m]
    BY <1>5, ServeMail
  <2>4. ASSUME NEW letters \in Letters(a), Len(letters) = 2
        PROVE  Last(letters) = <<"com", x>>
    <3>1. letters \in {<<>>, <<pub[a]>>, <<com[a]>>, <<pub[a], com[a]>>}
      BY DEF Letters
    <3>2. letters = <<pub[a], com[a]>>
      <4>1. pub[a] \in Sockets /\ com[a] \in Sockets
        BY <2>1 DEF TypeInv, Equipped, Holds
      <4>2. Len(<<>>) # 2 /\ Len(<<pub[a]>>) # 2 /\ Len(<<com[a]>>) # 2
        BY <4>1, ShortSeq
      <4> QED
        BY <2>4, <3>1, <4>2
    <3> QED
      BY <2>1, <3>2 DEF Last
  <2> QED
    BY <2>1, <2>2, <2>3, <2>4 DEF Waiting, Answers
<1>6. CASE HearReady(a, v)
  <2>1. /\ asks[v] = "ready" /\ stream' = [stream EXCEPT ![v] = "closed"]
        /\ UNCHANGED <<loc, com, to, mail>>
    BY <1>6 DEF HearReady
  <2>2. loc[v] \in {"loop", "dead"}
    BY <2>1 DEF StreamSound
  <2> QED
    BY <2>1, <2>2 DEF Waiting
<1>7. CASE HangUp(a, v)
  <2>1. /\ loc[v] = "dead" /\ stream' = [stream EXCEPT ![v] = "closed"]
        /\ UNCHANGED <<loc, com, to, mail>>
    BY <1>7 DEF HangUp
  <2> QED
    BY <2>1 DEF Waiting
<1> QED
  BY <1>1, <1>2, <1>3, <1>4, <1>5, <1>6, <1>7 DEF CrashServing

\* The name is kept, step by step.
LEMMA NameKeptStep ==
  ASSUME TypeInv, Inductive, NameKept, ServersLast, Starts # "any", [Next]_vars
  PROVE  NameKept'
<1>0. Sound /\ SomeoneSafe
  BY DEF Inductive, Sound
<1>1. CASE ~Begun /\ ~Begun'
  BY <1>0, <1>1, FoundingStep DEF NameKept
<1>2. CASE ~Begun /\ Begun'
  BY <1>2, FounderEstablished DEF NameKept
<1>3. CASE Begun
  <2>1. PICK x \in Versions : Established(x)
    BY <1>3 DEF NameKept
  <2>2. PICK w \in Versions : loc[w] = "loop"
    BY <1>0, <1>3 DEF SomeoneSafe, Safe, Serving
  <2>3. Named = {x} /\ x \in names /\ Exists(<<"com", x>>)
    BY <2>1, <2>2, EstablishedNamed
  <2>4. Named' \subseteq {x}
    BY <2>3, NameStays
  <2>5. x \in listens'
    BY <2>1 DEF Established, Next, Step, vars, Start, Listen, Connect, Send, Receive, BindPort,
                EnterLoop, Report, Drain, End, Crash, Accept, Serve, HearReady, HangUp,
                CrashServing
  <2>6. ASSUME NEW u \in Versions
        PROVE  /\ loc'[u] \notin {"named", "bind"}
               /\ loc'[u] \in {"app", "loop"} => com'[u] = <<"com", x>>
               /\ Waiting(u, x)'
    <3>1. CASE UNCHANGED vars
      BY <2>1, <3>1 DEF vars, Established, Waiting
    <3>2. CASE Next
      BY <1>0, <2>1, <2>3, <3>2, BindEstablished, LoopEstablished DEF Next, Step
    <3> QED
      BY <3>1, <3>2
  <2>7. Established(x)'
    BY <2>4, <2>5, <2>6 DEF Established
  <2>8. Begun'
    BY <1>3, BegunStays
  <2> QED
    BY <2>7, <2>8 DEF NameKept
<1> QED
  BY <1>1, <1>2, <1>3

\* In every execution in which the versions that serve last and none starts before
\* the first one serves, one comfd socket holds the name for all of them.
THEOREM OneName ==
  ASSUME ServersLast, Starts # "any"
  PROVE  Spec => []NameKept
<1>1. Init => NameKept
  BY DEF Init, NameKept, Begun, Founding, Live
<1>2. TypeInv /\ Inductive /\ NameKept /\ [Next]_vars => NameKept'
  BY NameKeptStep
<1> QED
  BY <1>1, <1>2, SomebodySafe, PTL DEF Spec

\* Every version that serves the port can be superseded in turn, however many
\* updates have come before and however they overlap.
THEOREM AlwaysUpdatable ==
  ASSUME ServersLast, Starts # "any"
  PROVE  Spec => []Updatable
<1>1. TypeInv /\ NameKept => Updatable
  <2> SUFFICES ASSUME TypeInv, NameKept, NEW v \in Versions, Serving(v)
               PROVE  \E x \in Named \cap listens : com[v] = <<"com", x>>
    BY DEF Updatable
  <2>1. PICK x \in Versions : Established(x)
    BY DEF NameKept, Begun, Serving
  <2>2. x \in Named /\ x \in listens /\ com[v] = <<"com", x>>
    BY <2>1, EstablishedNamed DEF Established, Serving
  <2> QED
    BY <2>2
<1> QED
  BY <1>1, OneName, SomebodySafe, PTL

\* No version takes the port for free while another one has it.
THEOREM NobodyBindsTwice ==
  ASSUME ServersLast, Starts # "any"
  PROVE  Spec => []NoOtherVersion
<1>1. NameKept => NoOtherVersion
  BY DEF NameKept, Established, Founding, Live, NoOtherVersion
<1> QED
  BY <1>1, OneName, PTL

-----------------------------------------------------------------------------
(* One update at a time.                                                   *)

\* No descriptor is lost on its way, and updates follow one another.
OneByOne == Starts = "settled" /\ ~WriteFails

\* The public descriptors are sound in every execution, crashes included.
LEMMA PublicAlways ==
  ASSUME ~WriteFails
  PROVE  Spec => [](\A v \in Versions : PublicSound(v))
<1> DEFINE Inv == \A v \in Versions : PublicSound(v)
<1>1. Init => Inv
  BY DEF Init, PublicSound
<1>2. TypeInv /\ Inv /\ [Next]_vars => Inv'
  BY PublicFirst
<1> QED
  BY <1>1, <1>2, StreamsSound, PTL DEF Spec

\* Whoever closes a stream was told so by a version in its event loop, or finds
\* the other end dead.
LEMMA ClosedStays ==
  ASSUME TypeInv, Sound, [Next]_vars, NEW u \in Versions,
         stream[u] = "closed" => loc[u] \in {"loop", "dead"},
         stream'[u] = "closed"
  PROVE  loc'[u] \in {"loop", "dead"}
<1>0. TypeOK /\ StreamSound(u)
  BY DEF TypeInv, Sound
<1> USE <1>0 DEF TypeOK, Goto
<1>1. CASE UNCHANGED vars
  BY <1>1 DEF vars
<1>2. ASSUME NEW v \in Versions,
             \/ Start(v) \/ Listen(v) \/ Send(v) \/ Receive(v) \/ BindPort(v)
             \/ EnterLoop(v) \/ Report(v) \/ Drain(v) \/ End(v) \/ Crash(v)
      PROVE  loc'[u] \in {"loop", "dead"}
  BY <1>2 DEF Start, Listen, Send, Receive, BindPort, EnterLoop, Report, Drain, End, Crash
<1>3. ASSUME NEW v \in Versions, Connect(v) PROVE loc'[u] \in {"loop", "dead"}
  <2>1. /\ loc[v] = "connect" /\ stream[v] = "none"
        /\ \A w \in Versions \ {v} : stream'[w] = stream[w] /\ loc'[w] = loc[w]
        /\ stream'[v] \in {"none", "backlog"}
    BY <1>3 DEF Connect, Sound, StreamSound
  <2> QED
    BY <2>1
<1>4. ASSUME NEW a \in Versions, NEW v \in Versions,
             Accept(a, v) \/ Serve(a, v) \/ CrashServing(a, v)
      PROVE  loc'[u] \in {"loop", "dead"}
  BY <1>4 DEF Accept, Serve, CrashServing
<1>5. ASSUME NEW a \in Versions, NEW v \in Versions, HearReady(a, v) \/ HangUp(a, v)
      PROVE  loc'[u] \in {"loop", "dead"}
  BY <1>5 DEF HearReady, HangUp, StreamSound
<1> QED
  BY <1>1, <1>2, <1>3, <1>4, <1>5 DEF Next, Step

\* A version is started when all others have come to rest: it is the youngest.
LEMMA StarterYoungest ==
  ASSUME TypeInv, OneByOne, NEW v \in Versions, Start(v)
  PROVE  Youngest(v)'
<1>0. TypeOK
  BY DEF TypeInv
<1> USE <1>0 DEF TypeOK, Goto
<1>1. /\ loc'[v] \in {"named", "connect"} /\ UNCHANGED duty
      /\ \A u \in Versions \ {v} : loc'[u] = loc[u]
  BY DEF Start
<1>2. (\A u \in Versions : ~Live(u)) \/ (AtRest /\ OneServing)
  BY HandoverConstants DEF Start, MayStart, OneByOne, HandoverConstants
<1>3. \A u \in Versions \ {v} : Live(u)' => Live(u)
  BY <1>1 DEF Live
<1>4. \A u \in Versions \ {v} : Live(u)' => loc'[u] = "loop" /\ duty[u] # "marked"
  BY <1>1, <1>2, <1>3 DEF AtRest
<1>5. \A u \in Versions \ {v} :
        loc'[u] = "loop" /\ duty'[u] # "draining" => Serving(u) /\ OneServing
  BY <1>1, <1>2, <1>4 DEF Live, Serving
<1>6. \A u, w \in Versions \ {v} :
        /\ loc'[u] = "loop" /\ duty'[u] # "draining"
        /\ loc'[w] = "loop" /\ duty'[w] # "draining"
        => u = w
  BY <1>5 DEF OneServing
<1> QED
  BY <1>1, <1>4, <1>6 DEF Youngest

\* The steps of a version in bind(), and of one that crashes, leave the youngest
\* the youngest.
LEMMA BindYoungest ==
  ASSUME TypeInv, Sound, \A v \in Versions : PublicSound(v),
         \A v \in Versions : stream[v] = "closed" => loc[v] \in {"loop", "dead"},
         NEW n \in Versions, Youngest(n), NEW v \in Versions,
         \/ Listen(v) \/ Connect(v) \/ Send(v) \/ Receive(v) \/ BindPort(v)
         \/ EnterLoop(v) \/ Crash(v)
  PROVE  Youngest(n)'
<1>0. TypeOK /\ StreamSound(n)
  BY DEF TypeInv, Sound
<1> USE <1>0 DEF TypeOK, Goto
<1>1. UNCHANGED duty
  BY DEF Listen, Connect, Send, Receive, BindPort, EnterLoop, Crash
<1>2. CASE Crash(v)
  <2>1. /\ loc' = [loc EXCEPT ![v] = "dead"] /\ UNCHANGED <<stream, to, owes, asks>>
    BY <1>2 DEF Crash
  <2> QED
    BY <1>1, <2>1 DEF Youngest, Live, Serving
<1>3. CASE ~Crash(v)
  <2>1. v = n
    BY <1>3 DEF Listen, Connect, Send, Receive, BindPort, EnterLoop, Youngest, Live
  <2>2. \A u \in Versions \ {n} : loc'[u] = loc[u]
    BY <1>3, <2>1 DEF Listen, Connect, Send, Receive, BindPort, EnterLoop
  <2>3. \A u \in Versions \ {n} : Serving(u)' <=> Serving(u)
    BY <1>1, <2>2 DEF Serving
  <2>4. ASSUME NEW u \in Versions \ {n}, Serving(u)
        PROVE  /\ loc'[n] \in {"send", "recv"} /\ stream'[n] = "open" => to'[n] = u
               /\ loc'[n] \in {"app", "loop"} =>
                    stream'[n] = "open" /\ to'[n] = u /\ (owes'[n] \/ asks'[n] = "ready")
    <3>1. CASE Listen(n)
      BY <3>1 DEF Listen
    <3>2. CASE Connect(n)
      <4>1. stream[n] = "none" /\ loc[n] = "connect"
        BY <3>2 DEF Connect, StreamSound
      <4>2. loc'[n] = "send" => stream'[n] = "backlog"
        BY <3>2 DEF Connect
      <4>3. loc'[n] \in {"send", "bind"}
        BY <3>2 DEF Connect
      <4> QED
        BY <4>2, <4>3
    <3>3. CASE Send(n)
      <4>1. loc[n] = "send" /\ UNCHANGED <<stream, to>> /\ loc'[n] \in {"dead", "bind", "recv"}
        BY <3>3 DEF Send
      <4> QED
        BY <2>4, <4>1 DEF Youngest
    <3>4. CASE Receive(n)
      <4>1. /\ loc[n] = "recv" /\ UNCHANGED <<stream, to>>
            /\ mail[n] = <<>> => loc'[n] = "bind"
            /\ mail[n] # <<>> => loc'[n] = "app" /\ owes'[n] = TRUE
        BY <3>4 DEF Receive
      <4>2. mail[n] # <<>> => stream[n] = "open"
        BY <4>1 DEF StreamSound
      <4> QED
        BY <2>4, <4>1, <4>2 DEF Youngest
    <3>5. CASE BindPort(n)
      <4>1. pub[u] \in Public /\ Live(u)
        BY <2>4 DEF Serving, PublicSound, Live
      <4>2. PortBound
        <5>1. PICK x \in Versions : pub[u] = <<"port", x>>
          BY <4>1 DEF Public
        <5> QED
          BY <4>1, <5>1 DEF PortBound, Exists
      <4> QED
        BY <3>5, <4>2 DEF BindPort
    <3>6. CASE EnterLoop(n)
      <4>1. loc[n] = "app" /\ loc'[n] = "loop" /\ UNCHANGED <<stream, to, owes, asks>>
        BY <3>6 DEF EnterLoop
      <4> QED
        BY <2>4, <4>1 DEF Youngest
    <3> QED
      BY <1>3, <2>1, <3>1, <3>2, <3>3, <3>4, <3>5, <3>6
  <2> QED
    BY <1>1, <2>2, <2>3, <2>4 DEF Youngest, Live
<1> QED
  BY <1>2, <1>3

\* So do those of a version in its event loop.
LEMMA LoopYoungest ==
  ASSUME TypeInv, Sound, NEW n \in Versions, Youngest(n),
         NEW a \in Versions, NEW v \in Versions,
         \/ Report(a) \/ Drain(a) \/ End(a)
         \/ Accept(a, v) \/ Serve(a, v) \/ HearReady(a, v) \/ HangUp(a, v)
         \/ CrashServing(a, v)
  PROVE  Youngest(n)'
<1>0. TypeOK /\ StreamSound(n)
  BY DEF TypeInv, Sound
<1> USE <1>0 DEF TypeOK, Goto
<1>1. /\ \A u \in Versions : loc'[u] = loc[u] \/ loc'[u] = "dead"
      /\ \A u \in Versions : duty[u] = "draining" => duty'[u] = "draining"
      /\ \A u \in Versions : duty'[u] = "serving" => duty[u] = "serving"
  <2>1. CASE Report(a) \/ End(a)
    BY <2>1 DEF Report, End
  <2>2. CASE Drain(a)
    BY <2>2 DEF Drain
  <2>3. CASE Accept(a, v) \/ Serve(a, v) \/ HangUp(a, v) \/ CrashServing(a, v)
    BY <2>3 DEF Accept, Serve, HangUp, CrashServing
  <2>4. CASE HearReady(a, v)
    BY <2>4 DEF HearReady
  <2> QED
    BY <2>1, <2>2, <2>3, <2>4
<1>2. /\ \A u \in Versions \ {n} : Live(u)' => loc'[u] = "loop"
      /\ \A u, w \in Versions \ {n} :
           /\ loc'[u] = "loop" /\ duty'[u] # "draining"
           /\ loc'[w] = "loop" /\ duty'[w] # "draining"
           => u = w
      /\ \A u \in Versions : Serving(u)' => Serving(u)
  BY <1>1 DEF Youngest, Live, Serving
<1>3. ASSUME NEW u \in Versions \ {n}, Serving(u)', loc'[n] \notin {"off", "dead"}
      PROVE  /\ loc'[n] \in {"send", "recv"} /\ stream'[n] = "open" => to'[n] = u
             /\ loc'[n] \in {"app", "loop"} =>
                  stream'[n] = "open" /\ to'[n] = u /\ (owes'[n] \/ asks'[n] = "ready")
  <2>1. /\ Serving(u) /\ loc'[n] = loc[n]
        /\ loc[n] \in {"send", "recv"} /\ stream[n] = "open" => to[n] = u
        /\ loc[n] \in {"app", "loop"} =>
             stream[n] = "open" /\ to[n] = u /\ (owes[n] \/ asks[n] = "ready")
    BY <1>1, <1>2, <1>3 DEF Youngest
  <2>2. CASE UNCHANGED <<stream[n], to[n], owes[n], asks[n]>>
    BY <2>1, <2>2
  <2>3. CASE Report(a)
    <3>1. /\ UNCHANGED <<stream, to>> /\ loc[a] = "loop"
          /\ \A w \in Versions \ {a} : owes'[w] = owes[w] /\ asks'[w] = asks[w]
          /\ Broken(a) \/ asks'[a] = "ready"
      BY <2>3 DEF Report
    <3>2. a = n => ~Broken(n)
      BY <2>1, <3>1 DEF Broken, Serving
    <3> QED
      BY <2>1, <3>1, <3>2
  <2>4. CASE Drain(a) \/ End(a)
    BY <2>1, <2>4 DEF Drain, End
  <2>5. CASE Accept(a, v)
    <3>1. /\ loc[a] = "loop" /\ duty[a] # "draining" /\ stream[v] = "backlog"
          /\ com[a] = <<"com", to[v]>> /\ to' = [to EXCEPT ![v] = a]
          /\ stream' = [stream EXCEPT ![v] = "open"] /\ UNCHANGED <<owes, asks>>
      BY <2>5 DEF Accept, MayHandle
    <3>2. CASE v = n
      <4>1. ~Broken(n)
        BY <3>1, <3>2 DEF Broken, Exists, Live
      <4>2. loc[n] \notin {"app", "loop"}
        BY <3>1, <3>2, <4>1 DEF StreamSound
      <4>3. a # n /\ a = u
        BY <2>1, <3>1, <4>2 DEF Serving, Youngest
      <4> QED
        BY <2>1, <3>1, <3>2, <4>2, <4>3
    <3>3. CASE v # n
      BY <2>1, <3>1, <3>3
    <3> QED
      BY <3>2, <3>3
  <2>6. CASE Serve(a, v) \/ CrashServing(a, v)
    <3>1. /\ asks[v] # "ready" /\ asks' = [asks EXCEPT ![v] = "none"]
          /\ UNCHANGED <<stream, to, owes>>
      BY <2>6, ServeMail DEF Serve, CrashServing
    <3> QED
      BY <2>1, <3>1
  <2>7. CASE HearReady(a, v)
    <3>1. /\ to[v] = a /\ stream[v] = "open" /\ asks[v] = "ready"
          /\ stream' = [stream EXCEPT ![v] = "closed"]
          /\ asks' = [asks EXCEPT ![v] = "none"] /\ UNCHANGED <<to, owes>>
          /\ duty' = [duty EXCEPT ![a] = IF @ = "serving" THEN "marked" ELSE @]
      BY <2>7 DEF HearReady, Holds
    <3>2. duty'[a] # "serving"
      BY <3>1
    <3>3. a # u
      BY <1>3, <3>2 DEF Serving
    <3>4. v = n => loc[n] \in {"loop", "dead"}
      BY <3>1 DEF StreamSound
    <3>5. v # n
      BY <1>3, <2>1, <3>1, <3>3, <3>4
    <3> QED
      BY <2>1, <3>1, <3>5
  <2>8. CASE HangUp(a, v)
    <3>1. /\ loc[v] = "dead" /\ stream' = [stream EXCEPT ![v] = "closed"]
          /\ UNCHANGED <<to, owes, asks>>
      BY <2>8 DEF HangUp
    <3> QED
      BY <1>3, <2>1, <3>1
  <2> QED
    BY <2>3, <2>4, <2>5, <2>6, <2>7, <2>8
<1> QED
  BY <1>2, <1>3 DEF Youngest

\* At every step the youngest version stays so, or a new one takes its place.
LEMMA OneUpdateStep ==
  ASSUME TypeInv, Sound, \A v \in Versions : PublicSound(v), OneByOne, OneUpdate,
         [Next]_vars
  PROVE  OneUpdate'
<1>1. \A v \in Versions : stream'[v] = "closed" => loc'[v] \in {"loop", "dead"}
  BY ClosedStays DEF OneUpdate
<1>2. ASSUME NEW v \in Versions, Start(v) PROVE OneUpdate'
  BY <1>1, <1>2, StarterYoungest DEF OneUpdate
<1>3. CASE UNCHANGED vars
  BY <1>1, <1>3 DEF vars, OneUpdate, Live, Youngest, Serving
<1>4. ASSUME NEW a \in Versions, Step(a) \/ Crash(a) \/ \E v \in Versions : CrashServing(a, v)
      PROVE  OneUpdate'
  <2>1. Live(a)
    BY <1>4 DEF Live, Step, Crash, CrashServing, Listen, Connect, Send, Receive, BindPort,
                EnterLoop, Report, Drain, End, Accept, Serve, HearReady, HangUp, Holds, MayHandle
  <2>2. PICK n \in Versions : Youngest(n)
    BY <2>1 DEF OneUpdate
  <2>3. Youngest(n)'
    BY <1>4, <2>2, BindYoungest, LoopYoungest DEF Step, OneUpdate
  <2> QED
    BY <1>1, <2>3 DEF OneUpdate
<1> QED
  BY <1>2, <1>3, <1>4 DEF Next

\* In every execution in which updates follow one another, crashes at any point
\* included, there is at most one version left to take over from.
THEOREM UpdatesFollow ==
  ASSUME OneByOne
  PROVE  Spec => []OneUpdate
<1>1. Init => OneUpdate
  BY DEF Init, OneUpdate, Live
<1>2. /\ TypeInv /\ Sound /\ (\A v \in Versions : PublicSound(v))
      /\ OneUpdate /\ [Next]_vars
      => OneUpdate'
  BY OneByOne, OneUpdateStep
<1>3. Spec => [](\A v \in Versions : PublicSound(v))
  BY OneByOne, PublicAlways DEF OneByOne
<1> QED
  BY <1>1, <1>2, <1>3, StreamsSound, PTL DEF Spec

\* Between updates one version serves the port, for any number of updates and
\* whichever versions crash on the way, by themselves or by a signal.
THEOREM OneServes ==
  ASSUME OneByOne
  PROVE  Spec => []SingleServer
<1>1. OneUpdate => SingleServer
  <2> SUFFICES ASSUME OneUpdate, AtRest, NEW v \in Versions, NEW w \in Versions,
                      Serving(v), Serving(w), v # w
               PROVE  FALSE
    BY DEF SingleServer, OneServing
  <2>1. PICK n \in Versions : Youngest(n)
    BY DEF OneUpdate, Live, Serving
  <2>2. CASE v # n /\ w # n
    BY <2>1, <2>2 DEF Youngest, Serving
  <2>3. CASE v = n \/ w = n
    <3>1. PICK u \in Versions \ {n} : Serving(u) /\ Serving(n)
      BY <2>3
    <3>2. owes[n] \/ asks[n] = "ready"
      BY <2>1, <3>1 DEF Youngest, Serving
    <3> QED
      BY <3>1, <3>2 DEF AtRest, Live, Serving
  <2> QED
    BY <2>2, <2>3
<1> QED
  BY <1>1, UpdatesFollow, PTL

=============================================================================
