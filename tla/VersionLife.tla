---------------------------- MODULE VersionLife ----------------------------
(***************************************************************************)
(* What one version of a server promises to its clients and to the newer   *)
(* versions, whatever it consists of.  WorkerPool implements it with a     *)
(* group of processes and tokens in socket pairs, where no process knows   *)
(* the whole; Handover takes each version for granted in this form.        *)
(***************************************************************************)
CONSTANTS Clients,  \* client connections
          Newer     \* newer versions

VARIABLES phase,    \* "current", "superseded" by a newer version, "ended"
          clients,  \* connections it has accepted and not closed
          streams   \* newer versions whose stream it holds

life == <<phase, clients, streams>>

Init == phase = "current" /\ clients = {} /\ streams = {}

\* Until its end it accepts clients ...
Admit(c) ==
  /\ phase # "ended"
  /\ clients' = clients \cup {c}
  /\ UNCHANGED <<phase, streams>>

\* ... and the streams of newer versions, superseded or not.
Attach(u) ==
  /\ phase # "ended"
  /\ streams' = streams \cup {u}
  /\ UNCHANGED <<phase, clients>>

\* Connections and streams come to an end; several at once, if the process
\* that holds them does.
Release ==
  /\ phase # "ended"
  /\ clients' \in SUBSET clients /\ streams' \in SUBSET streams
  /\ UNCHANGED phase

\* It is superseded by a version whose stream it holds, and once only.
Supersede(u) ==
  /\ phase = "current" /\ u \in streams
  /\ phase' = "superseded"
  /\ streams' = streams \ {u}
  /\ UNCHANGED clients

\* It ends when it is superseded and owes nothing to anybody.
End ==
  /\ phase = "superseded" /\ clients = {} /\ streams = {}
  /\ phase' = "ended"
  /\ UNCHANGED <<clients, streams>>

Next ==
  \/ \E c \in Clients : Admit(c)
  \/ \E u \in Newer : Attach(u) \/ Supersede(u)
  \/ Release \/ End

Spec == Init /\ [][Next]_life
=============================================================================
