--------------------------- MODULE HandoverProofs ---------------------------
(* Theorems about Handover, for any number of versions. *)
EXTENDS Handover, SequenceTheorems, TLAPS

-----------------------------------------------------------------------------
(* Types.  That no version is ever sent more than the two sockets it reads, *)
(* and only sockets that exist, takes some knowledge of the protocol.       *)

\* A version is sent sockets only while it waits for them, once, after it asked.
Posted(v) ==
  /\ loc[v] \notin {"recv", "dead"} => mail[v] = <<>> /\ asks[v] # "port"
  /\ asks[v] = "port" => mail[v] = <<>>

\* A version in its event loop has a public socket, not so before, and one that
\* has accepted a stream has the comfd socket it came from.
Equipped(v) ==
  /\ loc[v] \notin {"app", "loop", "dead"} => pub[v] = None
  /\ loc[v] = "named" => v \in names
  /\ loc[v] = "off" => v \notin names
  /\ loc[v] \in {"app", "loop"} => pub[v] \in Sockets
  /\ stream[v] = "backlog" => to[v] \in Versions
  /\ stream[v] = "open" => /\ to[v] \in Versions
                           /\ loc[to[v]] \in {"loop", "dead"}
                           /\ com[to[v]] \in Sockets

TypeInv == TypeOK /\ \A v \in Versions : Posted(v) /\ Equipped(v)

\* The sockets a version may open.
LEMMA OwnSockets ==
  ASSUME NEW v \in Versions
  PROVE  <<"com", v>> \in Sockets /\ <<"port", v>> \in Sockets
BY DEF Sockets

\* Sequences of at most two sockets.
LEMMA ShortSeq ==
  ASSUME NEW S, NEW p \in S, NEW c \in S
  PROVE  /\ <<>> \in Seq(S) /\ Len(<<>>) = 0
         /\ <<p>> \in Seq(S) /\ Len(<<p>>) = 1
         /\ <<c>> \in Seq(S) /\ Len(<<c>>) = 1
         /\ <<p, c>> \in Seq(S) /\ Len(<<p, c>>) = 2
OBVIOUS

\* The sockets a version passes on are two at most, and sockets indeed.
LEMMA LettersType ==
  ASSUME TypeInv, NEW a \in Versions, NEW v \in Versions, Holds(a, v),
         NEW letters \in Letters(a)
  PROVE  letters \in Seq(Sockets) /\ Len(letters) <= 2
<1>1. pub[a] \in Sockets /\ com[a] \in Sockets
  BY DEF TypeInv, Equipped, Holds, MayHandle
<1>2. letters \in {<<>>, <<pub[a]>>, <<com[a]>>, <<pub[a], com[a]>>}
  BY DEF Letters
<1>3. /\ <<>> \in Seq(Sockets) /\ Len(<<>>) <= 2
      /\ <<pub[a]>> \in Seq(Sockets) /\ Len(<<pub[a]>>) <= 2
      /\ <<com[a]>> \in Seq(Sockets) /\ Len(<<com[a]>>) <= 2
      /\ <<pub[a], com[a]>> \in Seq(Sockets) /\ Len(<<pub[a], com[a]>>) <= 2
  BY <1>1, ShortSeq
<1> QED
  BY <1>2, <1>3

\* Nothing has happened yet.
LEMMA InitTypeInv == Init => TypeInv
<1> SUFFICES ASSUME Init PROVE TypeInv
  OBVIOUS
<1>1. mail \in [Versions -> Seq(Sockets)] /\ \A v \in Versions : mail[v] = <<>>
  BY DEF Init
<1>2. TypeOK
  BY <1>1 DEF Init, TypeOK
<1>3. \A v \in Versions : Posted(v) /\ Equipped(v)
  BY DEF Init, Posted, Equipped
<1> QED
  BY <1>2, <1>3 DEF TypeInv

\* Every step of a version in bind() keeps the types.
LEMMA BindType ==
  ASSUME TypeInv, NEW v \in Versions,
         \/ Start(v) \/ Listen(v) \/ Connect(v) \/ Send(v)
         \/ Receive(v) \/ BindPort(v) \/ EnterLoop(v)
  PROVE  TypeOK'
<1>0. TypeOK
  BY DEF TypeInv
<1> USE <1>0 DEF TypeOK, Goto
<1>1. CASE Start(v)
  <2>1. UNCHANGED <<pub, listens, stream, to, asks, mail, owes, duty>>
    BY <1>1 DEF Start
  <2>2. com' = [com EXCEPT ![v] = <<"com", v>>]
    BY <1>1 DEF Start
  <2>3. com' \in [Versions -> Sockets \cup {None}]
    BY <2>2, OwnSockets
  <2>4. /\ names' = names \cup {v} \/ names' = names
        /\ loc' = [loc EXCEPT ![v] = "named"] \/ loc' = [loc EXCEPT ![v] = "connect"]
    BY <1>1 DEF Start
  <2>5. /\ names' \subseteq Versions /\ listens \subseteq names'
        /\ loc' \in [Versions -> {"off", "named", "connect", "send", "recv",
                              "bind", "app", "loop", "dead"}]
    BY <2>4
  <2> QED
    BY <2>1, <2>3, <2>5
<1>2. CASE Listen(v)
  <2>1. v \in names
    BY <1>2 DEF Listen, TypeInv, Equipped
  <2> QED
    BY <1>2, <2>1 DEF Listen
<1>3. CASE Connect(v)
  <2>1. UNCHANGED <<pub, com, names, listens, asks, mail, owes, duty>>
    BY <1>3 DEF Connect
  <2>2. loc' = [loc EXCEPT ![v] = "send"] \/ loc' = [loc EXCEPT ![v] = "bind"]
    BY <1>3 DEF Connect
  <2>3. \/ UNCHANGED <<stream, to>>
        \/ \E x \in Versions : /\ stream' = [stream EXCEPT ![v] = "backlog"]
                              /\ to' = [to EXCEPT ![v] = x]
    BY <1>3 DEF Connect, Named
  <2>4. /\ stream' \in [Versions -> {"none", "backlog", "open", "closed"}]
        /\ to' \in [Versions -> Versions \cup {None}]
    <3>1. CASE UNCHANGED <<stream, to>>
      BY <3>1
    <3>2. ASSUME NEW x \in Versions,
                 stream' = [stream EXCEPT ![v] = "backlog"],
                 to' = [to EXCEPT ![v] = x]
          PROVE  /\ stream' \in [Versions -> {"none", "backlog", "open", "closed"}]
                 /\ to' \in [Versions -> Versions \cup {None}]
      BY <3>2
    <3> QED
      BY <2>3, <3>1, <3>2
  <2>5. loc' \in [Versions -> {"off", "named", "connect", "send", "recv",
                              "bind", "app", "loop", "dead"}]
    BY <2>2
  <2> QED
    BY <2>1, <2>4, <2>5
<1>4. CASE Send(v)
  BY <1>4 DEF Send
<1>5. CASE Receive(v)
  <2>1. mail[v] # <<>> => /\ Head(mail[v]) \in Sockets
                          /\ Len(mail[v]) = 2 => Last(mail[v]) \in Sockets
    BY DEF Last
  <2>2. /\ pub' \in [Versions -> Sockets \cup {None}]
        /\ com' \in [Versions -> Sockets \cup {None}]
        /\ owes' \in [Versions -> BOOLEAN]
    <3>1. CASE mail[v] = <<>>
      BY <1>5, <3>1 DEF Receive
    <3>2. ASSUME mail[v] # <<>>
          PROVE  \E p \in Sockets, c \in Sockets \cup {None} :
                   /\ pub' = [pub EXCEPT ![v] = p]
                   /\ com' = [com EXCEPT ![v] = c]
                   /\ owes' = [owes EXCEPT ![v] = TRUE]
      BY <1>5, <2>1, <3>2 DEF Receive
    <3>3. ASSUME NEW p \in Sockets, NEW c \in Sockets \cup {None},
                 pub' = [pub EXCEPT ![v] = p],
                 com' = [com EXCEPT ![v] = c],
                 owes' = [owes EXCEPT ![v] = TRUE]
          PROVE  /\ pub' \in [Versions -> Sockets \cup {None}]
                 /\ com' \in [Versions -> Sockets \cup {None}]
                 /\ owes' \in [Versions -> BOOLEAN]
      BY <3>3
    <3> QED
      BY <3>1, <3>2, <3>3
  <2>3. /\ mail' \in [Versions -> Seq(Sockets)]
        /\ \A u \in Versions : Len(mail'[u]) <= 2
    BY <1>5, ShortSeq DEF Receive
  <2>4. loc' = [loc EXCEPT ![v] = "bind"] \/ loc' = [loc EXCEPT ![v] = "app"]
    BY <1>5 DEF Receive
  <2>5. /\ asks' = [asks EXCEPT ![v] = "none"]
        /\ UNCHANGED <<names, listens, stream, to, duty>>
    BY <1>5 DEF Receive
  <2> QED
    BY <2>2, <2>3, <2>4, <2>5
<1>6. CASE BindPort(v)
  BY <1>6, OwnSockets DEF BindPort
<1>7. CASE EnterLoop(v)
  BY <1>7 DEF EnterLoop
<1> QED
  BY <1>1, <1>2, <1>3, <1>4, <1>5, <1>6, <1>7

\* ... and what they rest on.
LEMMA BindPosted ==
  ASSUME TypeInv, NEW v \in Versions, NEW u \in Versions,
         \/ Start(v) \/ Listen(v) \/ Connect(v) \/ Send(v)
         \/ Receive(v) \/ BindPort(v) \/ EnterLoop(v)
  PROVE  Posted(u)' /\ Equipped(u)'
<1>0. TypeOK /\ Posted(u) /\ Equipped(u)
  BY DEF TypeInv
<1> USE <1>0 DEF TypeOK, Posted, Equipped, Goto
<1>1. CASE Start(v)
  BY <1>1, OwnSockets DEF Start
<1>2. CASE Listen(v)
  BY <1>2 DEF Listen
<1>3. CASE Connect(v)
  <2>1. UNCHANGED <<pub, com, names, listens, asks, mail, owes, duty>>
    BY <1>3 DEF Connect
  <2>2. /\ loc[v] = "connect"
        /\ loc' = [loc EXCEPT ![v] = "send"] \/ loc' = [loc EXCEPT ![v] = "bind"]
    BY <1>3 DEF Connect
  <2>3. \/ UNCHANGED <<stream, to>>
        \/ \E x \in Versions : /\ stream' = [stream EXCEPT ![v] = "backlog"]
                              /\ to' = [to EXCEPT ![v] = x]
    BY <1>3 DEF Connect, Named
  <2>4. Posted(u)'
    BY <2>1, <2>2
  <2>5. Equipped(u)'
    BY <2>1, <2>2, <2>3
  <2> QED
    BY <2>4, <2>5
<1>4. CASE Send(v)
  <2>1. /\ loc[v] = "send"
        /\ \E l \in {"dead", "bind", "recv"} :
             /\ loc' = [loc EXCEPT ![v] = l]
             /\ asks' = asks \/ asks' = [asks EXCEPT ![v] = "port"]
             /\ l # "recv" => asks' = asks
    BY <1>4 DEF Send
  <2>2. UNCHANGED <<pub, com, names, listens, stream, to, mail, owes, duty>>
    BY <1>4 DEF Send
  <2>3. Posted(u)'
    BY <2>1, <2>2
  <2>4. Equipped(u)'
    BY <2>1, <2>2
  <2> QED
    BY <2>3, <2>4
<1>5. CASE Receive(v)
  <2>1. mail[v] # <<>> => Head(mail[v]) \in Sockets
    OBVIOUS
  <2>2. /\ loc[v] = "recv"
        /\ loc' = [loc EXCEPT ![v] = IF mail[v] = <<>> THEN "bind" ELSE "app"]
        /\ mail' = [mail EXCEPT ![v] = <<>>]
        /\ asks' = [asks EXCEPT ![v] = "none"]
        /\ UNCHANGED <<names, listens, stream, to>>
    BY <1>5 DEF Receive
  <2>3. \A x \in Versions \ {v} : pub'[x] = pub[x] /\ com'[x] = com[x]
    BY <1>5 DEF Receive
  <2>4. mail[v] # <<>> => pub'[v] \in Sockets
    BY <1>5, <2>1 DEF Receive
  <2>5. Posted(u)'
    BY <2>2
  <2>6. Equipped(u)'
    <3>1. stream[u] = "open" => to[u] # v
      BY <2>2
    <3>2. mail[v] = <<>> => pub'[v] = pub[v] /\ com'[v] = com[v]
      BY <1>5 DEF Receive
    <3> QED
      BY <2>2, <2>3, <2>4, <3>1, <3>2
  <2> QED
    BY <2>5, <2>6
<1>6. CASE BindPort(v)
  <2>1. /\ loc[v] = "bind"
        /\ UNCHANGED <<com, names, listens, stream, to, asks, mail, owes, duty>>
        /\ \/ loc' = [loc EXCEPT ![v] = "dead"] /\ pub' = pub
           \/ /\ loc' = [loc EXCEPT ![v] = "app"]
              /\ pub' = [pub EXCEPT ![v] = <<"port", v>>]
    BY <1>6 DEF BindPort
  <2>2. Posted(u)'
    BY <2>1
  <2>3. Equipped(u)'
    <3>1. loc'[u] \in {"app", "loop"} => pub'[u] \in Sockets
      <4>1. CASE u # v
        BY <2>1, <4>1
      <4>2. CASE loc' = [loc EXCEPT ![v] = "dead"] /\ u = v
        BY <4>2
      <4>3. CASE pub' = [pub EXCEPT ![v] = <<"port", v>>] /\ u = v
        BY <4>3, OwnSockets
      <4> QED
        BY <2>1, <4>1, <4>2, <4>3
    <3>2. stream[u] = "open" => to[u] # v
      BY <2>1
    <3> QED
      BY <2>1, <3>1, <3>2
  <2> QED
    BY <2>2, <2>3
<1>7. CASE EnterLoop(v)
  BY <1>7 DEF EnterLoop
<1> QED
  BY <1>1, <1>2, <1>3, <1>4, <1>5, <1>6, <1>7

\* Every step of a version in its event loop keeps the types.
LEMMA LoopType ==
  ASSUME TypeInv, NEW a \in Versions, NEW v \in Versions,
         \/ Report(a) \/ Drain(a) \/ End(a) \/ Crash(a)
         \/ Accept(a, v) \/ HearReady(a, v) \/ HangUp(a, v)
  PROVE  TypeOK'
<1>0. TypeOK
  BY DEF TypeInv
<1> USE <1>0 DEF TypeOK, Goto
<1>1. CASE Report(a)
  BY <1>1 DEF Report
<1>2. CASE Drain(a) \/ End(a)
  BY <1>2 DEF Drain, End
<1>3. CASE Crash(a)
  BY <1>3 DEF Crash
<1>4. CASE Accept(a, v)
  BY <1>4 DEF Accept
<1>5. CASE HearReady(a, v) \/ HangUp(a, v)
  <2>1. duty' \in [Versions -> {"serving", "marked", "draining"}]
    BY <1>5 DEF HearReady, HangUp
  <2>2. /\ asks' \in [Versions -> {"none", "port", "ready"}]
        /\ stream' \in [Versions -> {"none", "backlog", "open", "closed"}]
        /\ UNCHANGED <<loc, pub, com, names, listens, to, mail, owes>>
    BY <1>5 DEF HearReady, HangUp
  <2> QED
    BY <2>1, <2>2
<1> QED
  BY <1>1, <1>2, <1>3, <1>4, <1>5

\* ... and what they rest on.
LEMMA LoopPosted ==
  ASSUME TypeInv, NEW a \in Versions, NEW v \in Versions, NEW u \in Versions,
         \/ Report(a) \/ Drain(a) \/ End(a) \/ Crash(a)
         \/ Accept(a, v) \/ HearReady(a, v) \/ HangUp(a, v)
  PROVE  Posted(u)' /\ Equipped(u)'
<1>0. TypeOK /\ Posted(u) /\ Equipped(u)
  BY DEF TypeInv
<1> USE <1>0 DEF TypeOK, Posted, Equipped, Goto
<1>1. CASE Report(a)
  BY <1>1 DEF Report
<1>2. CASE Drain(a) \/ End(a)
  BY <1>2 DEF Drain, End, MayHandle
<1>3. CASE Crash(a)
  BY <1>3 DEF Crash, Live
<1>4. CASE Accept(a, v)
  <2>1. com[a] \in Sockets
    <3>1. to[v] \in Versions
      BY <1>4 DEF Accept, TypeInv
    <3> QED
      BY <1>4, <3>1, OwnSockets DEF Accept
  <2>2. /\ loc[a] = "loop"
        /\ stream' = [stream EXCEPT ![v] = "open"]
        /\ to' = [to EXCEPT ![v] = a]
        /\ UNCHANGED <<loc, pub, com, names, asks, mail>>
    BY <1>4 DEF Accept, MayHandle
  <2> QED
    BY <2>1, <2>2
<1>5. CASE HearReady(a, v) \/ HangUp(a, v)
  BY <1>5 DEF HearReady, HangUp, Holds, MayHandle
<1> QED
  BY <1>1, <1>2, <1>3, <1>4, <1>5

\* What a version is sent: both sockets, some of them, or nothing.
Answers(a) == Letters(a) \cup {<<>>, <<pub[a]>>}

LEMMA ServeMail ==
  ASSUME TypeInv, NEW a \in Versions, NEW v \in Versions,
         Serve(a, v) \/ CrashServing(a, v)
  PROVE  /\ Holds(a, v) /\ loc[a] = "loop" /\ a # v
         /\ loc[v] \in {"recv", "dead"} /\ asks[v] # "ready"
         /\ \E m \in Answers(a) : mail' = [mail EXCEPT ![v] = m]
<1>1. Holds(a, v) /\ loc[a] = "loop" /\ asks[v] # "ready"
  BY DEF Serve, Reset, CrashServing, Holds, MayHandle
<1>2. /\ asks[v] = "port" => mail[v] = <<>> /\ loc[v] \in {"recv", "dead"}
      /\ mail[v] = <<>> => \A s : <<>> \o s = s \/ s \notin Letters(a)
  <2>1. asks[v] = "port" => mail[v] = <<>> /\ loc[v] \in {"recv", "dead"}
    BY DEF TypeInv, Posted
  <2>2. \A s \in Letters(a) : s \in Seq(Sockets)
    BY <1>1, LettersType
  <2>3. \A s \in Seq(Sockets) : <<>> \o s = s
    OBVIOUS
  <2> QED
    BY <2>1, <2>2, <2>3
<1>3. CASE Serve(a, v)
  <2>1. loc[v] \in {"recv", "dead"}
    BY <1>2, <1>3 DEF Serve, Reset
  <2>2. CASE loc[v] = "dead"
    <3>1. mail' = [mail EXCEPT ![v] = <<>>]
      BY <1>3, <2>2 DEF Serve
    <3> QED
      BY <1>1, <2>1, <2>2, <3>1 DEF Answers
  <2>3. CASE loc[v] # "dead"
    <3>1. asks[v] = "port" /\ mail[v] = <<>>
      BY <1>2, <1>3, <2>3 DEF Serve, Reset
    <3>2. PICK m \in Letters(a) : mail' = [mail EXCEPT ![v] = mail[v] \o m]
      BY <1>3, <2>3 DEF Serve
    <3>3. mail' = [mail EXCEPT ![v] = m]
      BY <1>2, <3>1, <3>2
    <3> QED
      BY <1>1, <2>1, <3>3 DEF Answers
  <2> QED
    BY <2>2, <2>3
<1>4. CASE CrashServing(a, v)
  <2>1. asks[v] = "port" /\ mail[v] = <<>> /\ loc[v] \in {"recv", "dead"}
    BY <1>2, <1>4 DEF CrashServing
  <2>2. Append(<<>>, pub[a]) = <<pub[a]>>
    OBVIOUS
  <2>3. mail' = [mail EXCEPT ![v] = <<pub[a]>>]
    BY <1>4, <2>1, <2>2 DEF CrashServing
  <2> QED
    BY <1>1, <2>1, <2>3 DEF Answers
<1> QED
  BY <1>3, <1>4

\* The sockets passed on arrive where the version that asked expects them.
LEMMA ServeType ==
  ASSUME TypeInv, NEW a \in Versions, NEW v \in Versions,
         Serve(a, v) \/ CrashServing(a, v)
  PROVE  TypeInv'
<1>1. Holds(a, v)
  BY ServeMail
<1>2. loc[v] \in {"recv", "dead"} /\ a # v
  BY ServeMail
<1>3. \E letters \in Seq(Sockets) :
        Len(letters) <= 2 /\ mail' = [mail EXCEPT ![v] = letters]
  <2>1. PICK m \in Answers(a) : mail' = [mail EXCEPT ![v] = m]
    BY ServeMail
  <2>2. pub[a] \in Sockets
    BY <1>1 DEF TypeInv, Equipped, Holds, MayHandle
  <2>3. m \in Seq(Sockets) /\ Len(m) <= 2
    <3>1. <<>> \in Seq(Sockets) /\ Len(<<>>) <= 2 /\ <<pub[a]>> \in Seq(Sockets) /\ Len(<<pub[a]>>) <= 2
      BY <2>2, ShortSeq
    <3>2. \A letters \in Letters(a) : letters \in Seq(Sockets) /\ Len(letters) <= 2
      BY <1>1, LettersType
    <3> QED
      BY <2>1, <3>1, <3>2 DEF Answers
  <2> QED
    BY <2>1, <2>3
<1>4. /\ UNCHANGED <<pub, com, names, listens, stream, to, owes, duty>>
      /\ asks' = [asks EXCEPT ![v] = "none"]
      /\ loc' = loc \/ loc' = [loc EXCEPT ![a] = "dead"]
  BY DEF Serve, CrashServing, Goto
<1>5. TypeOK'
  <2>1. mail' \in [Versions -> Seq(Sockets)] /\ \A u \in Versions : Len(mail'[u]) <= 2
    <3>1. ASSUME NEW letters \in Seq(Sockets), Len(letters) <= 2,
                 mail' = [mail EXCEPT ![v] = letters]
          PROVE  /\ mail' \in [Versions -> Seq(Sockets)]
                 /\ \A u \in Versions : Len(mail'[u]) <= 2
      BY <3>1 DEF TypeInv, TypeOK
    <3> QED
      BY <1>3, <3>1
  <2>2. /\ asks' \in [Versions -> {"none", "port", "ready"}]
        /\ loc' \in [Versions -> {"off", "named", "connect", "send", "recv",
                                  "bind", "app", "loop", "dead"}]
    BY <1>4 DEF TypeInv, TypeOK
  <2> QED
    BY <1>4, <2>1, <2>2 DEF TypeInv, TypeOK
<1>6. ASSUME NEW u \in Versions
      PROVE  Posted(u)' /\ Equipped(u)'
  <2>1. TypeOK /\ Posted(u) /\ Equipped(u)
    BY DEF TypeInv
  <2>2. Posted(u)'
    BY <1>2, <1>3, <1>4, <2>1 DEF TypeOK, Posted
  <2>3. Equipped(u)'
    BY <1>4, <2>1, <1>1 DEF TypeOK, Equipped, Holds, MayHandle
  <2> QED
    BY <2>2, <2>3
<1> QED
  BY <1>5, <1>6 DEF TypeInv

\* Every step keeps the type invariant.
LEMMA TypeInvStep == TypeInv /\ [Next]_vars => TypeInv'
<1> SUFFICES ASSUME TypeInv, [Next]_vars PROVE TypeInv'
  OBVIOUS
<1>1. CASE UNCHANGED vars
  BY <1>1 DEF vars, TypeInv, TypeOK, Posted, Equipped
<1>2. CASE Next
  BY <1>2, BindType, BindPosted, LoopType, LoopPosted, ServeType DEF Next, Step, TypeInv
<1> QED
  BY <1>1, <1>2

\* In every execution every variable has a value of its type; in particular
\* no version is ever sent more than dsu_inherit_fd() reads.
THEOREM HandoverTypes == Spec => []TypeOK
<1>1. TypeInv => TypeOK
  BY DEF TypeInv
<1> QED
  BY <1>1, InitTypeInv, TypeInvStep, PTL DEF Spec

-----------------------------------------------------------------------------
(* Sockets.                                                                *)

\* The sockets a version refers to, itself or by a message it has yet to read.
Refers(v, s) == Live(v) /\ (s \in {pub[v], com[v]} \/ Contains(mail[v], s))

\* No message refers to nothing, and one passes on what its sender refers to.
LEMMA LetterSockets ==
  ASSUME TypeInv, NEW a \in Versions, NEW v \in Versions, Holds(a, v),
         NEW letters \in Letters(a), NEW s, Contains(letters, s)
  PROVE  s \in {pub[a], com[a]}
<1>1. letters \in {<<>>, <<pub[a]>>, <<com[a]>>, <<pub[a], com[a]>>}
  BY DEF Letters
<1>2. /\ ~Contains(<<>>, s)
      /\ \A x : Contains(<<x>>, s) => s = x
      /\ \A x, y : Contains(<<x, y>>, s) => s \in {x, y}
  BY DEF Contains
<1> QED
  BY <1>1, <1>2

\* What a version receives was in its messages.
LEMMA MailSockets ==
  ASSUME TypeOK, NEW v \in Versions, mail[v] # <<>>
  PROVE  Contains(mail[v], Head(mail[v])) /\ Contains(mail[v], Last(mail[v]))
<1>1. mail[v] \in Seq(Sockets) /\ Len(mail[v]) \in 1..2
  <2>1. mail[v] \in Seq(Sockets) /\ Len(mail[v]) <= 2
    BY DEF TypeOK
  <2>2. Len(mail[v]) \in Nat \ {0}
    BY <2>1, EmptySeq
  <2>3. \A n \in Nat \ {0} : n <= 2 => n \in 1..2
    OBVIOUS
  <2> QED
    BY <2>1, <2>2, <2>3
<1> QED
  BY <1>1 DEF Contains, Last

\* Nobody comes to refer to a socket that nobody refers to, unless by opening it.
LEMMA GoneForGood ==
  ASSUME TypeInv, [Next]_vars, NEW s \in Sockets, ~Exists(s),
         \A x \in Versions :
           /\ s = <<"com", x>> => loc[x] # "off"
           /\ s = <<"port", x>> => ~BindPort(x) \/ PortBound
  PROVE  ~Exists(s)'
<1>0. TypeOK /\ s # None /\ \A v \in Versions : ~Refers(v, s)
  BY HandoverConstants DEF TypeInv, Exists, Refers, HandoverConstants, Sockets
<1> SUFFICES ASSUME NEW u \in Versions, Refers(u, s)' PROVE FALSE
  BY DEF Exists, Refers
<1> USE <1>0 DEF TypeOK, Refers, Live, Goto
<1>1. CASE UNCHANGED vars
  BY <1>1 DEF vars
<1>2. ASSUME NEW v \in Versions, Start(v)
      PROVE  FALSE
  <2>1. ~Contains(<<>>, s)
    BY DEF Contains
  <2>2. mail[v] = <<>> /\ pub[v] = None /\ loc[v] = "off"
    BY <1>2 DEF Start, TypeInv, Posted, Equipped
  <2>3. /\ com' = [com EXCEPT ![v] = <<"com", v>>] /\ UNCHANGED <<pub, mail>>
        /\ \A x \in Versions \ {v} : loc'[x] = loc[x]
    BY <1>2 DEF Start
  <2>4. CASE u = v
    <3>1. s # <<"com", v>>
      BY <2>2
    <3>2. pub'[v] = None /\ com'[v] = <<"com", v>> /\ mail'[v] = <<>>
      BY <2>2, <2>3
    <3>3. s \in {pub'[v], com'[v]} \/ Contains(mail'[v], s)
      BY <2>4
    <3> QED
      BY <2>1, <3>1, <3>2, <3>3
  <2>5. CASE u # v
    BY <2>3, <2>5
  <2> QED
    BY <2>4, <2>5
<1>3. ASSUME NEW v \in Versions, Listen(v) \/ EnterLoop(v)
      PROVE  FALSE
  BY <1>3 DEF Listen, EnterLoop
<1>4. ASSUME NEW v \in Versions, Connect(v)
      PROVE  FALSE
  BY <1>4 DEF Connect
<1>5. ASSUME NEW v \in Versions, Send(v)
      PROVE  FALSE
  BY <1>5 DEF Send
<1>6. ASSUME NEW v \in Versions, Receive(v)
      PROVE  FALSE
  <2>1. mail[v] # <<>> => s \notin {Head(mail[v]), Last(mail[v])}
    <3>1. ~Contains(mail[v], s)
      BY <1>6 DEF Receive
    <3> QED
      BY <3>1, MailSockets
  <2>2. ~Contains(<<>>, s)
    BY DEF Contains
  <2> QED
    BY <1>6, <2>1, <2>2 DEF Receive
<1>7. ASSUME NEW v \in Versions, BindPort(v)
      PROVE  FALSE
  BY <1>7 DEF BindPort
<1>8. ASSUME NEW v \in Versions, Report(v) \/ Drain(v) \/ End(v) \/ Crash(v)
      PROVE  FALSE
  BY <1>8 DEF Report, Drain, End, Crash
<1>9. ASSUME NEW a \in Versions, NEW v \in Versions,
             Accept(a, v) \/ HearReady(a, v) \/ HangUp(a, v)
      PROVE  FALSE
  BY <1>9 DEF Accept, HearReady, HangUp
<1>10. ASSUME NEW a \in Versions, NEW v \in Versions, Serve(a, v) \/ CrashServing(a, v)
       PROVE  FALSE
  <2>1. Holds(a, v) /\ loc[a] = "loop"
    BY <1>10, ServeMail
  <2>2. pub[a] # s /\ com[a] # s
    BY <2>1
  <2>3. UNCHANGED <<pub, com>> /\ \A x \in Versions : Live(x)' => Live(x)
    BY <1>10 DEF Serve, CrashServing
  <2>4. \E m \in Answers(a) : mail' = [mail EXCEPT ![v] = m]
    BY <1>10, ServeMail
  <2>5. ~Contains(<<pub[a]>>, s) /\ ~Contains(<<>>, s)
    BY <2>2 DEF Contains
  <2>6. \A letters \in Letters(a) : ~Contains(letters, s)
    BY <2>1, <2>2, LetterSockets
  <2>7. ~Contains(mail'[u], s) \/ ~Live(u)
    <3>1. Live(u) => ~Contains(mail[u], s)
      OBVIOUS
    <3>2. ASSUME NEW m, ~Contains(m, s), mail' = [mail EXCEPT ![v] = m]
          PROVE  ~Contains(mail'[u], s) \/ ~Live(u)
      BY <3>1, <3>2
    <3> QED
      BY <2>4, <2>5, <2>6, <3>1, <3>2 DEF Answers
  <2> QED
    BY <2>2, <2>3, <2>7
<1> QED
  BY <1>1, <1>2, <1>3, <1>4, <1>5, <1>6, <1>7, <1>8, <1>9, <1>10 DEF Next, Step

-----------------------------------------------------------------------------
(* Streams.                                                                *)

Sound == \A v \in Versions : StreamSound(v)

\* Whoever holds the name has been started.
LEMMA NamedStarted ==
  ASSUME TypeInv, NEW x \in Named
  PROVE  x \in Versions /\ loc[x] # "off"
BY DEF TypeInv, TypeOK, Equipped, Named

\* The listener a stream was waiting for does not come back.
LEMMA BrokenStays ==
  ASSUME TypeInv, [Next]_vars, NEW v \in Versions, stream[v] = "backlog",
         to[v] \in Versions, loc[to[v]] # "off", Broken(v),
         UNCHANGED <<stream[v], to[v]>>
  PROVE  Broken(v)'
<1>1. ~Exists(<<"com", to[v]>>) /\ <<"com", to[v]>> \in Sockets
  BY OwnSockets DEF Broken
<1>2. \A x \in Versions : /\ <<"com", to[v]>> = <<"com", x>> => loc[x] # "off"
                         /\ <<"com", to[v]>> # <<"port", x>>
  OBVIOUS
<1>3. ~Exists(<<"com", to[v]>>)'
  BY <1>1, <1>2, GoneForGood
<1> QED
  BY <1>3 DEF Broken

\* A step in bind() keeps all streams sound.
LEMMA BindSound ==
  ASSUME TypeInv, Sound, NEW v \in Versions, NEW u \in Versions,
         \/ Start(v) \/ Listen(v) \/ Connect(v) \/ Send(v)
         \/ Receive(v) \/ BindPort(v) \/ EnterLoop(v)
  PROVE  StreamSound(u)'
<1>1. TypeOK /\ Next /\ StreamSound(u) /\ StreamSound(v)
  BY DEF TypeInv, Sound, Next, Step
<1>2. stream'[u] = "backlog" /\ stream[u] = "backlog" /\ Broken(u) => Broken(u)'
  <2>1. stream'[u] = "backlog" /\ stream[u] = "backlog" => to'[u] = to[u]
    BY <1>1 DEF StreamSound, Start, Listen, Connect, Send, Receive, BindPort, EnterLoop, TypeOK
  <2> QED
    BY <1>1, <2>1, BrokenStays DEF StreamSound
<1> USE <1>1, <1>2 DEF TypeOK, StreamSound, Goto
<1>3. CASE Start(v)
  BY <1>3 DEF Start
<1>4. CASE Listen(v)
  BY <1>4 DEF Listen
<1>5. CASE Connect(v)
  <2>1. /\ loc[v] = "connect" /\ stream[v] = "none"
        /\ UNCHANGED <<mail, owes, asks, duty>>
    BY <1>5 DEF Connect
  <2>2. ASSUME NEW x \in Named, stream' = [stream EXCEPT ![v] = "backlog"],
               to' = [to EXCEPT ![v] = x], loc' = [loc EXCEPT ![v] = "send"]
        PROVE  StreamSound(u)'
    <3>1. x \in Versions /\ loc[x] # "off"
      BY NamedStarted
    <3>2. CASE u = v
      BY <2>1, <2>2, <3>1, <3>2
    <3>3. CASE u # v
      BY <2>1, <2>2, <3>3
    <3> QED
      BY <3>2, <3>3
  <2>3. CASE UNCHANGED <<stream, to>> /\ loc' = [loc EXCEPT ![v] = "bind"]
    BY <2>1, <2>3
  <2> QED
    BY <1>5, <2>2, <2>3 DEF Connect
<1>6. CASE Send(v)
  BY <1>6 DEF Send
<1>7. CASE Receive(v)
  <2>1. mail[v] = <<>> => Broken(v)
    BY <1>7 DEF Receive, Arrived
  <2>2. mail[v] # <<>> => stream[v] \in {"open", "closed"}
    OBVIOUS
  <2>3. /\ loc[v] = "recv" /\ UNCHANGED <<stream, to, duty>>
        /\ loc' = [loc EXCEPT ![v] = IF mail[v] = <<>> THEN "bind" ELSE "app"]
        /\ mail' = [mail EXCEPT ![v] = <<>>]
        /\ asks' = [asks EXCEPT ![v] = "none"]
        /\ \A x \in Versions \ {v} : owes'[x] = owes[x]
        /\ mail[v] = <<>> => owes'[v] = owes[v]
    BY <1>7 DEF Receive
  <2>4. CASE u = v
    BY <2>1, <2>2, <2>3, <2>4
  <2>5. CASE u # v
    BY <2>3, <2>5
  <2> QED
    BY <2>4, <2>5
<1>8. CASE BindPort(v)
  BY <1>8 DEF BindPort
<1>9. CASE EnterLoop(v)
  BY <1>9 DEF EnterLoop
<1> QED
  BY <1>3, <1>4, <1>5, <1>6, <1>7, <1>8, <1>9

\* A step in the event loop keeps all streams sound.
LEMMA LoopSound ==
  ASSUME TypeInv, Sound, NEW a \in Versions, NEW v \in Versions, NEW u \in Versions,
         \/ Report(a) \/ Drain(a) \/ End(a) \/ Crash(a)
         \/ Accept(a, v) \/ Serve(a, v) \/ HearReady(a, v) \/ HangUp(a, v)
         \/ CrashServing(a, v)
  PROVE  StreamSound(u)'
<1>1. TypeOK /\ Next /\ StreamSound(u)
  BY DEF TypeInv, Sound, Next, Step
<1>2. stream'[u] = "backlog" => /\ stream[u] = "backlog" /\ to'[u] = to[u]
                               /\ (Broken(u) => Broken(u)')
  <2>1. stream'[u] = "backlog" => stream[u] = "backlog" /\ to'[u] = to[u]
    BY <1>1 DEF Report, Drain, End, Crash, Accept, Serve, HearReady, HangUp, CrashServing,
                TypeOK
  <2> QED
    BY <1>1, <2>1, BrokenStays DEF StreamSound
<1> USE <1>1, <1>2 DEF TypeOK, StreamSound, Goto
<1>3. CASE Report(a)
  BY <1>3 DEF Report, Broken
<1>4. CASE Drain(a) \/ End(a)
  BY <1>4 DEF Drain, End, MayHandle
<1>5. CASE Crash(a)
  BY <1>5 DEF Crash, Live
<1>6. CASE Accept(a, v)
  BY <1>6 DEF Accept
<1>7. CASE Serve(a, v) \/ CrashServing(a, v)
  <2>1. /\ stream[v] = "open" /\ loc[a] = "loop"
        /\ UNCHANGED <<stream, to, owes, duty>>
        /\ asks' = [asks EXCEPT ![v] = "none"]
        /\ loc' = loc \/ loc' = [loc EXCEPT ![a] = "dead"]
        /\ \A x \in Versions \ {v} : mail'[x] = mail[x]
    BY <1>7 DEF Serve, CrashServing, Holds, MayHandle
  <2> QED
    BY <2>1
<1>8. CASE HearReady(a, v) \/ HangUp(a, v)
  BY <1>8 DEF HearReady, HangUp, Holds, MayHandle
<1> QED
  BY <1>3, <1>4, <1>5, <1>6, <1>7, <1>8

\* In every execution, crashes at any point included: types, one answer per
\* request, and streams as StreamSound describes them.
THEOREM StreamsSound == Spec => [](TypeInv /\ Sound)
<1>1. Init => TypeInv /\ Sound
  <2>1. Init => Sound
    BY DEF Init, Sound, StreamSound
  <2> QED
    BY <2>1, InitTypeInv
<1>2. TypeInv /\ Sound /\ [Next]_vars => Sound'
  <2> SUFFICES ASSUME TypeInv, Sound, [Next]_vars, NEW u \in Versions
               PROVE  StreamSound(u)'
    BY DEF Sound
  <2>1. CASE UNCHANGED vars
    BY <2>1 DEF vars, Sound, StreamSound, Broken, Exists, Live
  <2>2. CASE Next
    BY <2>2, BindSound, LoopSound DEF Next, Step
  <2> QED
    BY <2>1, <2>2
<1> QED
  BY <1>1, <1>2, TypeInvStep, PTL DEF Spec

-----------------------------------------------------------------------------
(* Somebody always serves.                                                 *)

\* Versions that serve do not die: neither by themselves nor by a signal.
ServersLast == ~ServingDies /\ ~SigPipe

\* A version that is safe remains so, unless a newer version whose stream it
\* holds comes to its own event loop.
LEMMA SafeStays ==
  ASSUME TypeInv, Sound, ServersLast, [Next]_vars, NEW w \in Versions, Safe(w),
         ~ \E v \in Versions : EnterLoop(v) /\ stream[v] = "open" /\ to[v] = w
  PROVE  Safe(w)'
<1>0. TypeOK /\ \A v \in Versions : StreamSound(v)
  BY DEF TypeInv, Sound
<1> USE <1>0, ServersLast DEF ServersLast, TypeOK, Safe, Serving, Goto
<1>1. CASE UNCHANGED vars
  BY <1>1 DEF vars
<1>2. ASSUME NEW v \in Versions, Start(v) \/ Listen(v) \/ BindPort(v)
      PROVE  Safe(w)'
  BY <1>2 DEF Start, Listen, BindPort
<1>3. ASSUME NEW v \in Versions, Connect(v)
      PROVE  Safe(w)'
  <2>1. /\ loc[v] = "connect" /\ UNCHANGED <<asks, duty>>
        /\ \E l \in {"send", "bind"} : loc' = [loc EXCEPT ![v] = l]
        /\ stream'[v] # "open" \/ UNCHANGED <<stream, to>>
        /\ \A x \in Versions \ {v} : stream'[x] = stream[x] /\ to'[x] = to[x]
    BY <1>3 DEF Connect
  <2> QED
    BY <2>1
<1>4. ASSUME NEW v \in Versions, Send(v) \/ Receive(v)
      PROVE  Safe(w)'
  <2>1. /\ loc[v] \in {"send", "recv"} /\ UNCHANGED <<stream, to, duty>>
        /\ \E l \in {"recv", "bind", "app"} : loc' = [loc EXCEPT ![v] = l]
        /\ \A x \in Versions : asks'[x] = asks[x] \/ asks'[x] \in {"port", "none"}
    BY <1>4 DEF Send, Receive
  <2> QED
    BY <2>1
<1>5. ASSUME NEW v \in Versions, EnterLoop(v)
      PROVE  Safe(w)'
  BY <1>5 DEF EnterLoop
<1>6. ASSUME NEW v \in Versions, Report(v)
      PROVE  Safe(w)'
  BY <1>6 DEF Report
<1>7. ASSUME NEW v \in Versions, Drain(v) \/ End(v) \/ Crash(v)
      PROVE  Safe(w)'
  BY <1>7 DEF Drain, End, Crash
<1>8. ASSUME NEW a \in Versions, NEW v \in Versions, Accept(a, v)
      PROVE  Safe(w)'
  <2>1. /\ stream[v] = "backlog" /\ loc[a] = "loop" /\ com[a] = <<"com", to[v]>>
        /\ stream' = [stream EXCEPT ![v] = "open"] /\ to' = [to EXCEPT ![v] = a]
        /\ UNCHANGED <<loc, asks, duty>>
    BY <1>8 DEF Accept, MayHandle
  <2>2. ~Broken(v)
    BY <2>1 DEF Broken, Exists, Live
  <2>3. loc[v] # "loop" /\ asks[v] # "ready"
    BY <2>1, <2>2 DEF StreamSound
  <2> QED
    BY <2>1, <2>3
<1>9. ASSUME NEW a \in Versions, NEW v \in Versions, Serve(a, v) \/ CrashServing(a, v)
      PROVE  Safe(w)'
  <2>1. /\ asks' = [asks EXCEPT ![v] = "none"]
        /\ UNCHANGED <<loc, stream, to, duty>>
    BY <1>9 DEF Serve, CrashServing
  <2> QED
    BY <2>1
<1>10. ASSUME NEW a \in Versions, NEW v \in Versions, HearReady(a, v) \/ HangUp(a, v)
       PROVE  Safe(w)'
  BY <1>10 DEF HearReady, HangUp, Holds
<1> QED
  BY <1>1, <1>2, <1>3, <1>4, <1>5, <1>6, <1>7, <1>8, <1>9, <1>10 DEF Next, Step

\* A version that comes to its event loop is safe: nobody has asked it yet.
LEMMA NewcomerSafe ==
  ASSUME TypeInv, Sound, NEW v \in Versions, EnterLoop(v)
  PROVE  Safe(v)'
<1>1. duty[v] = "serving"
  BY DEF Sound, StreamSound, EnterLoop
<1>2. \A u \in Versions : stream[u] = "open" => to[u] # v
  BY DEF TypeInv, Equipped, EnterLoop
<1> QED
  BY <1>1, <1>2 DEF EnterLoop, Goto, Safe, Serving, TypeInv, TypeOK

\* Until somebody serves nobody enters the picture but by his event loop.
LEMMA SafeStep ==
  ASSUME TypeInv, Sound, SomeoneSafe, ServersLast, [Next]_vars
  PROVE  SomeoneSafe'
<1>1. CASE \E v \in Versions : EnterLoop(v)
  BY <1>1, NewcomerSafe DEF SomeoneSafe, Begun
<1>2. CASE \E w \in Versions : Safe(w)
  BY <1>1, <1>2, SafeStays DEF SomeoneSafe, Begun
<1>3. ASSUME ~ \E v \in Versions : EnterLoop(v),
             \A v \in Versions : loc[v] # "loop" /\ duty[v] = "serving"
      PROVE  \A v \in Versions : loc'[v] # "loop" /\ duty'[v] = "serving"
  <2>0. TypeOK
    BY DEF TypeInv
  <2>1. CASE UNCHANGED vars
    BY <1>3, <2>1 DEF vars
  <2>2. ASSUME NEW v \in Versions,
               \/ Start(v) \/ Listen(v) \/ Connect(v) \/ Send(v) \/ Receive(v)
               \/ BindPort(v) \/ Crash(v)
        PROVE  duty' = duty /\ \E l \in {"named", "connect", "bind", "send", "recv", "app", "dead"} :
                                loc' = [loc EXCEPT ![v] = l]
    BY <2>2 DEF Start, Listen, Connect, Send, Receive, BindPort, Crash, Goto
  <2>3. ASSUME NEW v \in Versions, NEW u \in Versions
        PROVE  /\ ~Report(v) /\ ~Drain(v) /\ ~End(v)
               /\ ~Accept(v, u) /\ ~Serve(v, u) /\ ~HearReady(v, u) /\ ~HangUp(v, u)
               /\ ~CrashServing(v, u)
    BY <1>3 DEF Report, Drain, End, Accept, Serve, HearReady, HangUp, CrashServing, Holds,
                MayHandle
  <2> QED
    BY <1>3, <2>0, <2>1, <2>2, <2>3 DEF Next, Step, TypeOK
<1> QED
  BY <1>1, <1>2, <1>3 DEF SomeoneSafe, Begun

\* A version leaves its event loop only by its end.
LEMMA LoopLeft ==
  ASSUME TypeInv, ServersLast, [Next]_vars, NEW v \in Versions,
         loc[v] = "loop", loc'[v] # "loop"
  PROVE  End(v)
<1>0. TypeOK
  BY DEF TypeInv
<1> USE <1>0, ServersLast DEF ServersLast, TypeOK, Goto
<1>1. ~UNCHANGED vars
  BY DEF vars
<1>2. ASSUME NEW u \in Versions,
             \/ Start(u) \/ Listen(u) \/ Connect(u) \/ Send(u) \/ Receive(u)
             \/ BindPort(u) \/ EnterLoop(u) \/ Report(u) \/ Drain(u) \/ Crash(u)
      PROVE  FALSE
  BY <1>2 DEF Start, Listen, Connect, Send, Receive, BindPort, EnterLoop, Report, Drain, Crash
<1>3. ASSUME NEW a \in Versions, NEW u \in Versions,
             \/ Accept(a, u) \/ Serve(a, u) \/ HearReady(a, u) \/ HangUp(a, u)
             \/ CrashServing(a, u)
      PROVE  FALSE
  BY <1>3 DEF Accept, Serve, HearReady, HangUp, CrashServing
<1>4. ASSUME NEW a \in Versions, End(a)
      PROVE  a = v
  BY <1>4 DEF End
<1> QED
  BY <1>1, <1>2, <1>3, <1>4 DEF Next, Step

\* Somebody is safe in every execution in which the versions that serve last.
THEOREM SomebodySafe ==
  ASSUME ServersLast
  PROVE  Spec => [](TypeInv /\ Inductive)
<1>1. Inductive <=> Sound /\ SomeoneSafe
  BY DEF Inductive, Sound
<1>2. Init => SomeoneSafe
  BY DEF Init, SomeoneSafe, Begun
<1>3. TypeInv /\ Sound /\ SomeoneSafe /\ [Next]_vars => SomeoneSafe'
  BY SafeStep
<1>4. Inductive' <=> Sound' /\ SomeoneSafe'
  BY DEF Inductive, Sound
<1> QED
  BY <1>1, <1>2, <1>3, <1>4, StreamsSound, PTL DEF Spec

\* No step leaves a served port without a server.
THEOREM PortStaysServed ==
  ASSUME ServersLast
  PROVE  Spec => PortServed
<1>1. TypeInv /\ Inductive /\ [Next]_vars => (Served => Served')
  <2> SUFFICES ASSUME TypeInv, Inductive, [Next]_vars, Served
               PROVE  Served'
    OBVIOUS
  <2>1. SomeoneSafe'
    BY SafeStep DEF Inductive, Sound
  <2>2. \E v \in Versions : (loc[v] = "loop" \/ duty[v] # "serving")'
    <3>1. PICK v \in Versions : loc[v] = "loop"
      BY DEF Served
    <3>2. CASE loc'[v] = "loop"
      BY <3>2
    <3>3. CASE loc'[v] # "loop"
      <4>1. End(v)
        BY <3>1, <3>3, LoopLeft
      <4>2. duty'[v] = "draining"
        BY <4>1 DEF End
      <4> QED
        BY <4>2
    <3> QED
      BY <3>2, <3>3
  <2>3. \E w \in Versions : Safe(w)'
    BY <2>1, <2>2 DEF SomeoneSafe, Begun
  <2> QED
    BY <2>3 DEF Safe, Serving, Served
<1> QED
  BY <1>1, SomebodySafe, PTL DEF Spec, PortServed

-----------------------------------------------------------------------------
(* The versions together keep the port open.                               *)

\* A version's part in the service of the port.
Stage(v) == IF duty[v] = "draining" THEN "retired"
            ELSE IF loc[v] = "loop" THEN "serving" ELSE "new"

\* A step changes the parts of no two versions, and each in one of two ways.
LEMMA StageStep ==
  ASSUME TypeInv, Sound, ServersLast, [Next]_vars
  PROVE  \/ \A v \in Versions : Stage(v)' = Stage(v)
         \/ \E v \in Versions :
              /\ \A u \in Versions \ {v} : Stage(u)' = Stage(u)
              /\ \/ Stage(v) = "new" /\ Stage(v)' = "serving" /\ EnterLoop(v)
                 \/ Stage(v) = "serving" /\ Stage(v)' = "retired" /\ Drain(v)
<1>0. TypeOK /\ \A v \in Versions : StreamSound(v)
  BY DEF TypeInv, Sound
<1> USE <1>0, ServersLast DEF ServersLast, TypeOK, Goto, Stage
<1>1. CASE UNCHANGED vars
  BY <1>1 DEF vars
<1>2. ASSUME NEW u \in Versions,
             \/ Start(u) \/ Listen(u) \/ Connect(u) \/ Send(u) \/ Receive(u)
             \/ BindPort(u) \/ Crash(u)
      PROVE  \A v \in Versions : Stage(v)' = Stage(v)
  <2>1. /\ UNCHANGED duty /\ loc[u] # "loop"
        /\ \E l \in {"named", "connect", "bind", "send", "recv", "app", "dead"} :
             loc' = [loc EXCEPT ![u] = l]
    BY <1>2 DEF Start, Listen, Connect, Send, Receive, BindPort, Crash
  <2> QED
    BY <2>1
<1>3. ASSUME NEW u \in Versions, Report(u)
      PROVE  \A v \in Versions : Stage(v)' = Stage(v)
  BY <1>3 DEF Report
<1>4. ASSUME NEW u \in Versions, End(u)
      PROVE  \A v \in Versions : Stage(v)' = Stage(v)
  BY <1>4 DEF End
<1>5. ASSUME NEW a \in Versions, NEW u \in Versions,
             \/ Accept(a, u) \/ Serve(a, u) \/ HangUp(a, u) \/ CrashServing(a, u)
      PROVE  \A v \in Versions : Stage(v)' = Stage(v)
  BY <1>5 DEF Accept, Serve, HangUp, CrashServing
<1>6. ASSUME NEW a \in Versions, NEW u \in Versions, HearReady(a, u)
      PROVE  \A v \in Versions : Stage(v)' = Stage(v)
  BY <1>6 DEF HearReady
<1>7. ASSUME NEW v \in Versions, EnterLoop(v)
      PROVE  /\ \A u \in Versions \ {v} : Stage(u)' = Stage(u)
             /\ Stage(v) = "new" /\ Stage(v)' = "serving"
  <2>1. duty[v] = "serving"
    BY <1>7 DEF EnterLoop, StreamSound
  <2> QED
    BY <1>7, <2>1 DEF EnterLoop
<1>8. ASSUME NEW v \in Versions, Drain(v)
      PROVE  /\ \A u \in Versions \ {v} : Stage(u)' = Stage(u)
             /\ Stage(v) = "serving" /\ Stage(v)' = "retired"
  BY <1>8 DEF Drain, MayHandle
<1> QED
  BY <1>1, <1>2, <1>3, <1>4, <1>5, <1>6, <1>7, <1>8 DEF Next, Step

\* In every execution the versions keep the port open, as PortService says: it
\* is opened once, later versions join, and a version retires only while another
\* one serves.
THEOREM VersionsImplementPort ==
  ASSUME ServersLast
  PROVE  Spec => KeepsPortOpen
<1> DEFINE Stages == [v \in Versions |-> Stage(v)]
<1>1. Init => Port!Init
  BY DEF Init, Port!Init
<1>2. TypeInv /\ Inductive /\ [Next]_vars
        => [Port!Next]_[v \in Versions |-> IF duty[v] = "draining" THEN "retired"
                              ELSE IF loc[v] = "loop" THEN "serving" ELSE "new"]
  <2> SUFFICES ASSUME TypeInv, Inductive, [Next]_vars
               PROVE  Port!Next \/ Stages' = Stages
    BY DEF Stage
  <2>1. Sound /\ SomeoneSafe
    BY DEF Inductive, Sound
  <2>2. CASE \A v \in Versions : Stage(v)' = Stage(v)
    BY <2>2
  <2>3. ASSUME NEW v \in Versions,
               \A u \in Versions \ {v} : Stage(u)' = Stage(u),
               Stage(v) = "new", Stage(v)' = "serving"
        PROVE  Port!Next
    <3>1. Stages' = [Stages EXCEPT ![v] = "serving"]
      BY <2>3
    <3>2. \/ \A u \in Versions : Stages[u] = "new"
          \/ \E u \in Versions : Stages[u] = "serving"
      <4>1. \/ \A u \in Versions : loc[u] # "loop" /\ duty[u] = "serving"
            \/ \E w \in Versions : Serving(w)
        BY <2>1 DEF SomeoneSafe, Begun, Safe
      <4> QED
        BY <4>1 DEF Stage, Serving
    <3>3. Port!Open(v) \/ Port!Join(v)
      BY <2>3, <3>1, <3>2 DEF Port!Open, Port!Join, Port!Server, Stage
    <3> QED
      BY <3>3 DEF Port!Next
  <2>4. ASSUME NEW v \in Versions,
               \A u \in Versions \ {v} : Stage(u)' = Stage(u),
               Stage(v) = "serving", Stage(v)' = "retired", Drain(v)
        PROVE  Port!Next
    <3>1. Stages' = [Stages EXCEPT ![v] = "retired"]
      BY <2>4
    <3>2. duty[v] = "marked"
      BY <2>4 DEF Drain
    <3>3. \E w \in Versions : Serving(w)
      BY <2>1, <3>2 DEF SomeoneSafe, Begun, Safe
    <3>4. \E w \in Versions \ {v} : Stages[w] = "serving"
      BY <3>2, <3>3 DEF Serving, Stage
    <3>5. Port!Retire(v)
      BY <2>4, <3>1, <3>4 DEF Port!Retire, Port!Server, Stage
    <3> QED
      BY <3>5 DEF Port!Next
  <2> QED
    BY <2>1, <2>2, <2>3, <2>4, StageStep
<1> QED
  BY <1>1, <1>2, SomebodySafe, PTL DEF Spec, KeepsPortOpen, Port!Spec

-----------------------------------------------------------------------------
(* Each version lives as it promises.                                      *)

\* What VersionLife sees of a version.
Phase(v) == IF duty[v] = "serving" THEN "current"
            ELSE IF loc[v] = "dead" THEN "ended" ELSE "superseded"

Streams(v) == {u \in Versions : stream[u] = "open" /\ to[u] = v}

\* A step that leaves the open streams and the duties alone, and ends no version
\* that is superseded, is none for VersionLife.
LEMMA LifeStutters ==
  ASSUME NEW v \in Versions, Phase(v)' = Phase(v), Streams(v)' = Streams(v)
  PROVE  UNCHANGED Life(v)!life
BY DEF Life!life, Phase, Streams

\* A step of a version in bind() is none.
LEMMA BindLives ==
  ASSUME TypeInv, Sound, ServersLast, NEW v \in Versions, NEW u \in Versions,
         \/ Start(u) \/ Listen(u) \/ Connect(u) \/ Send(u) \/ Receive(u)
         \/ BindPort(u) \/ EnterLoop(u) \/ Report(u) \/ Crash(u)
  PROVE  UNCHANGED Life(v)!life
<1>0. TypeOK /\ StreamSound(u)
  BY DEF TypeInv, Sound
<1> USE <1>0, ServersLast DEF ServersLast, TypeOK, Goto
<1>1. Streams(v)' = Streams(v)
  <2>1. CASE Connect(u)
    <3>1. stream[u] # "open"
      BY <2>1 DEF Connect, StreamSound
    <3>2. stream'[u] # "open"
      BY <2>1, <3>1 DEF Connect
    <3>3. \A x \in Versions \ {u} : stream'[x] = stream[x] /\ to'[x] = to[x]
      BY <2>1 DEF Connect
    <3> QED
      BY <3>1, <3>2, <3>3 DEF Streams
  <2>2. CASE ~Connect(u)
    <3>1. UNCHANGED <<stream, to>>
      BY <2>2 DEF Start, Listen, Send, Receive, BindPort, EnterLoop, Report, Crash
    <3> QED
      BY <3>1 DEF Streams
  <2> QED
    BY <2>1, <2>2
<1>2. Phase(v)' = Phase(v)
  <2>1. UNCHANGED duty
    BY DEF Start, Listen, Connect, Send, Receive, BindPort, EnterLoop, Report, Crash
  <2>2. CASE Report(u)
    BY <2>1, <2>2 DEF Report, Phase
  <2>3. CASE ~Report(u)
    <3>1. loc[u] \notin {"loop", "dead"}
      BY <2>3 DEF Start, Listen, Connect, Send, Receive, BindPort, EnterLoop, Crash, Live
    <3>2. duty[u] = "serving"
      BY <3>1 DEF StreamSound
    <3>3. \A x \in Versions \ {u} : loc'[x] = loc[x]
      BY <2>3 DEF Start, Listen, Connect, Send, Receive, BindPort, EnterLoop, Crash
    <3> QED
      BY <2>1, <3>2, <3>3 DEF Phase
  <2> QED
    BY <2>2, <2>3
<1> QED
  BY <1>1, <1>2, LifeStutters

\* In its event loop a version accepts, releases and is superseded by the
\* versions whose streams it holds, and ends when it holds none.
LEMMA LoopLives ==
  ASSUME TypeInv, ServersLast, NEW v \in Versions, NEW a \in Versions, NEW u \in Versions,
         \/ Drain(a) \/ End(a) \/ Accept(a, u) \/ Serve(a, u)
         \/ HearReady(a, u) \/ HangUp(a, u) \/ CrashServing(a, u)
  PROVE  [Life(v)!Next]_(Life(v)!life)
<1>0. TypeOK
  BY DEF TypeInv
<1> USE <1>0, ServersLast DEF ServersLast, TypeOK, Goto
<1>1. CASE Drain(a) \/ Serve(a, u) \/ CrashServing(a, u)
  <2>1. UNCHANGED <<stream, to, loc>>
    BY <1>1 DEF Drain, Serve, CrashServing
  <2>2. Phase(v)' = Phase(v)
    BY <1>1, <2>1 DEF Drain, Serve, CrashServing, Phase
  <2> QED
    BY <2>1, <2>2, LifeStutters DEF Streams
<1>2. CASE End(a)
  <2>1. UNCHANGED <<stream, to, duty>> /\ duty[a] = "draining" /\ loc[a] = "loop"
    BY <1>2 DEF End, MayHandle
  <2>2. CASE a # v
    <3>1. Phase(v)' = Phase(v)
      BY <1>2, <2>1, <2>2 DEF End, Phase
    <3> QED
      BY <2>1, <3>1, LifeStutters DEF Streams
  <2>3. CASE a = v
    <3>1. Streams(v) = {}
      BY <1>2, <2>3 DEF End, Holds, Streams
    <3>2. Phase(v) = "superseded" /\ Phase(v)' = "ended"
      BY <1>2, <2>1, <2>3 DEF End, Phase
    <3>3. Life(v)!End
      BY <2>1, <3>1, <3>2 DEF Life!End, Phase, Streams
    <3> QED
      BY <3>3 DEF Life!Next
  <2> QED
    BY <2>2, <2>3
<1>3. CASE Accept(a, u)
  <2>1. /\ stream[u] = "backlog" /\ loc[a] = "loop"
        /\ stream' = [stream EXCEPT ![u] = "open"] /\ to' = [to EXCEPT ![u] = a]
        /\ UNCHANGED <<loc, duty>>
    BY <1>3 DEF Accept, MayHandle
  <2>2. CASE a # v
    <3>1. Streams(v)' = Streams(v)
      BY <2>1, <2>2 DEF Streams
    <3> QED
      BY <2>1, <3>1, LifeStutters DEF Phase
  <2>3. CASE a = v
    <3>1. Streams(v)' = Streams(v) \cup {u}
      BY <2>1, <2>3 DEF Streams
    <3>2. Phase(v) # "ended" /\ Phase(v)' = Phase(v)
      BY <2>1, <2>3 DEF Phase
    <3>3. Life(v)!Attach(u)
      BY <3>1, <3>2 DEF Life!Attach, Phase, Streams
    <3> QED
      BY <3>3 DEF Life!Next
  <2> QED
    BY <2>2, <2>3
<1>4. CASE HearReady(a, u) \/ HangUp(a, u)
  <2>0. /\ stream[u] = "open" /\ to[u] = a /\ loc[a] = "loop"
        /\ stream' = [stream EXCEPT ![u] = "closed"]
        /\ UNCHANGED <<loc, to>>
        /\ \/ duty' = duty
           \/ duty' = [duty EXCEPT ![a] = IF @ = "serving" THEN "marked" ELSE @]
    BY <1>4 DEF HearReady, HangUp, Holds, MayHandle
  <2>1. /\ \A x \in Versions \ {a} : duty'[x] = duty[x]
        /\ \/ duty'[a] = duty[a]
           \/ duty[a] = "serving" /\ duty'[a] = "marked"
    <3>1. CASE duty' = duty
      BY <3>1
    <3>2. CASE duty' = [duty EXCEPT ![a] = IF @ = "serving" THEN "marked" ELSE @]
      <4>1. duty'[a] = IF duty[a] = "serving" THEN "marked" ELSE duty[a]
        BY <3>2
      <4> QED
        BY <3>2, <4>1
    <3> QED
      BY <2>0, <3>1, <3>2
  <2>2. CASE a # v
    <3>1. Streams(v)' = Streams(v)
      BY <2>0, <2>2 DEF Streams
    <3>2. Phase(v)' = Phase(v)
      BY <2>0, <2>1, <2>2 DEF Phase
    <3> QED
      BY <3>1, <3>2, LifeStutters
  <2>3. CASE a = v
    <3>1. u \in Streams(v) /\ Streams(v)' = Streams(v) \ {u}
      BY <2>0, <2>3 DEF Streams
    <3>2. CASE duty'[a] = duty[a]
      <4>1. Phase(v)' = Phase(v) /\ Phase(v) # "ended"
        BY <2>0, <2>3, <3>2 DEF Phase
      <4>2. Life(v)!Release
        BY <3>1, <4>1 DEF Life!Release, Phase, Streams
      <4> QED
        BY <4>2 DEF Life!Next
    <3>3. CASE duty[a] = "serving" /\ duty'[a] = "marked"
      <4>1. Phase(v) = "current" /\ Phase(v)' = "superseded"
        BY <2>0, <2>3, <3>3 DEF Phase
      <4>2. Life(v)!Supersede(u)
        BY <3>1, <4>1 DEF Life!Supersede, Phase, Streams
      <4> QED
        BY <4>2 DEF Life!Next
    <3> QED
      BY <2>1, <3>2, <3>3
  <2> QED
    BY <2>2, <2>3
<1> QED
  BY <1>1, <1>2, <1>3, <1>4

\* In every execution each version does towards the others what VersionLife
\* allows, which is what the group of workers it consists of is shown to do.
THEOREM VersionsLive ==
  ASSUME ServersLast
  PROVE  Spec => LivesAsPromised
<1>1. Init => \A v \in Versions : Life(v)!Init
  BY DEF Init, Life!Init
<1>2. ASSUME TypeInv, Sound, [Next]_vars, NEW v \in Versions
      PROVE  [Life(v)!Next]_(Life(v)!life)
  <2>1. CASE UNCHANGED vars
    <3>1. Phase(v)' = Phase(v) /\ Streams(v)' = Streams(v)
      BY <2>1 DEF vars, Phase, Streams
    <3> QED
      BY <3>1, LifeStutters
  <2>2. CASE Next
    BY <1>2, <2>2, BindLives, LoopLives DEF Next, Step
  <2> QED
    BY <1>2, <2>1, <2>2
<1>3. TypeInv /\ Sound /\ [Next]_vars
        => \A v \in Versions : [Life(v)!Next]_(Life(v)!life)
  BY <1>2
<1> QED
  BY <1>1, <1>3, StreamsSound, PTL DEF Spec, LivesAsPromised

-----------------------------------------------------------------------------
(* One public socket.                                                      *)

Public == {"port"} \X Versions

\* What a version serves, or is sent first, is a socket bound to the port.
PublicSound(v) ==
  /\ loc[v] \in {"app", "loop"} => pub[v] \in Public
  /\ mail[v] # <<>> => Head(mail[v]) \in Public

\* All that exist of them are one and the same.
OneExists ==
  \A x, y \in Versions : Exists(<<"port", x>>) /\ Exists(<<"port", y>>) => x = y

\* The public socket is sent before comfd.
LEMMA PublicFirst ==
  ASSUME TypeInv, ~WriteFails, \A v \in Versions : PublicSound(v),
         [Next]_vars, NEW u \in Versions
  PROVE  PublicSound(u)'
<1>0. TypeOK
  BY DEF TypeInv
<1> USE <1>0 DEF TypeOK, PublicSound, Goto
<1>1. CASE UNCHANGED vars
  BY <1>1 DEF vars
<1>2. ASSUME NEW v \in Versions,
             \/ Start(v) \/ Listen(v) \/ Connect(v) \/ Send(v) \/ EnterLoop(v)
             \/ Report(v) \/ Drain(v) \/ End(v) \/ Crash(v)
      PROVE  PublicSound(u)'
  <2>1. UNCHANGED <<pub, mail>>
    BY <1>2 DEF Start, Listen, Connect, Send, EnterLoop, Report, Drain, End, Crash
  <2>2. loc'[u] \in {"app", "loop"} => loc[u] \in {"app", "loop"}
    BY <1>2 DEF Start, Listen, Connect, Send, EnterLoop, Report, Drain, End, Crash
  <2> QED
    BY <2>1, <2>2
<1>3. ASSUME NEW v \in Versions, Receive(v)
      PROVE  PublicSound(u)'
  <2>1. /\ mail' = [mail EXCEPT ![v] = <<>>]
        /\ \A x \in Versions \ {v} : loc'[x] = loc[x] /\ pub'[x] = pub[x]
        /\ mail[v] = <<>> => loc'[v] = "bind"
        /\ mail[v] # <<>> => pub'[v] = Head(mail[v])
    BY <1>3 DEF Receive
  <2> QED
    BY <2>1
<1>4. ASSUME NEW v \in Versions, BindPort(v)
      PROVE  PublicSound(u)'
  <2>1. <<"port", v>> \in Public
    BY DEF Public
  <2> QED
    BY <1>4, <2>1 DEF BindPort
<1>5. ASSUME NEW a \in Versions, NEW v \in Versions,
             Accept(a, v) \/ HearReady(a, v) \/ HangUp(a, v)
      PROVE  PublicSound(u)'
  BY <1>5 DEF Accept, HearReady, HangUp
<1>6. ASSUME NEW a \in Versions, NEW v \in Versions, Serve(a, v) \/ CrashServing(a, v)
      PROVE  PublicSound(u)'
  <2>1. Holds(a, v) /\ loc[a] = "loop"
    BY <1>6, ServeMail
  <2>2. pub[a] \in Public
    BY <2>1
  <2>3. UNCHANGED pub /\ \A x \in Versions : loc'[x] = loc[x] \/ loc'[x] = "dead"
    BY <1>6 DEF Serve, CrashServing
  <2>4. \E m \in {<<>>, <<pub[a]>>, <<pub[a], com[a]>>} : mail' = [mail EXCEPT ![v] = m]
    BY <1>6, ServeMail DEF Answers, Letters
  <2>5. Head(<<pub[a], com[a]>>) = pub[a] /\ Head(<<pub[a]>>) = pub[a]
    OBVIOUS
  <2> QED
    BY <2>2, <2>3, <2>4, <2>5
<1> QED
  BY <1>1, <1>2, <1>3, <1>4, <1>5, <1>6 DEF Next, Step

\* A new socket is bound to the port only when no other one is.
LEMMA OneExistsStep ==
  ASSUME TypeInv, OneExists, [Next]_vars
  PROVE  OneExists'
<1> SUFFICES ASSUME NEW x \in Versions, NEW y \in Versions, x # y,
                    Exists(<<"port", x>>)', Exists(<<"port", y>>)'
             PROVE  FALSE
  BY DEF OneExists
<1>1. ASSUME NEW z \in Versions, Exists(<<"port", z>>)', ~Exists(<<"port", z>>)
      PROVE  BindPort(z) /\ ~PortBound
  <2>1. /\ <<"port", z>> \in Sockets
        /\ \A v \in Versions : /\ <<"port", z>> # <<"com", v>>
                              /\ <<"port", z>> = <<"port", v>> => v = z
    BY OwnSockets
  <2> QED
    BY <1>1, <2>1, GoneForGood
<1>2. ~PortBound
  BY <1>1 DEF OneExists
<1>3. BindPort(x) /\ BindPort(y)
  BY <1>1, <1>2 DEF PortBound
<1>4. loc'[y] = "app"
  BY <1>2, <1>3 DEF BindPort, Goto, TypeInv, TypeOK
<1> QED
  BY <1>2, <1>3, <1>4 DEF BindPort, Goto, TypeInv, TypeOK

\* In every execution, crashes at any point included, all versions that serve
\* the port or are about to have one and the same socket for it, provided no
\* descriptor is lost on its way.
THEOREM OneSocketForAll ==
  ASSUME ~WriteFails
  PROVE  Spec => []OnePublicSocket
<1> DEFINE Inv == OneExists /\ \A v \in Versions : PublicSound(v)
<1>1. Init => Inv
  BY DEF Init, OneExists, PublicSound, Exists, Live
<1>2. TypeInv /\ Inv /\ [Next]_vars => Inv'
  BY PublicFirst, OneExistsStep
<1>3. TypeInv /\ Inv => OnePublicSocket
  <2> SUFFICES ASSUME Inv, NEW v \in Versions, NEW w \in Versions,
                      loc[v] \in {"app", "loop"}, loc[w] \in {"app", "loop"}
               PROVE  pub[v] = pub[w] /\ \E x \in Versions : pub[v] = <<"port", x>>
    BY DEF OnePublicSocket
  <2>1. PICK x \in Versions : pub[v] = <<"port", x>>
    BY DEF PublicSound, Public
  <2>2. PICK y \in Versions : pub[w] = <<"port", y>>
    BY DEF PublicSound, Public
  <2>3. Exists(<<"port", x>>) /\ Exists(<<"port", y>>)
    BY <2>1, <2>2 DEF Exists, Live
  <2> QED
    BY <2>1, <2>2, <2>3 DEF OneExists
<1> QED
  BY <1>1, <1>2, <1>3, StreamsSound, PTL DEF Spec

=============================================================================
