------------------------------- MODULE Presence -------------------------------
(***************************************************************************)
(* Connections of one user in @mariachi/realtime: handleConnect,           *)
(* handleDisconnect, heartbeat and disconnect() of several instances, the   *)
(* WebSocket attach around them, and the presence entries in Redis with     *)
(* their expiry.  Each Redis script is one action.  Channels, messages and  *)
(* the set of online users are left out.                                    *)
(***************************************************************************)
EXTENDS Naturals, FiniteSets

CONSTANTS
  Conns,             \* connection ids, of one user
  RtInstances, NoInstance,
  MaxConnections     \* maxConnectionsPerUser

ASSUME PresenceAssumption ==
  /\ MaxConnections \in Nat /\ IsFiniteSet(Conns)
  /\ NoInstance \notin RtInstances

VARIABLES
  rtUp,         \* instances whose heartbeat timer runs
  rtAt,         \* [Conns -> instance, or NoInstance]
  rtStep,       \* [Conns -> where the server is with the connection]
  rtCount,      \* [Conns -> the count ADD returned]
  rtEntry,      \* [Conns -> presence entry: "none", "fresh" or "expired"]
  rtSocket,     \* connections whose socket is open
  rtAlive,      \* connections with alive set
  rtTouched     \* FALSE when touches may fail for longer than the TTL

rtVars == <<rtUp, rtAt, rtStep, rtCount, rtEntry, rtSocket, rtAlive, rtTouched>>

RtInit ==
  /\ rtUp = RtInstances
  /\ rtAt = [c \in Conns |-> NoInstance]
  /\ rtStep = [c \in Conns |-> "new"]
  /\ rtCount = [c \in Conns |-> 0]
  /\ rtEntry = [c \in Conns |-> "none"]
  /\ rtSocket = {}
  /\ rtAlive = {}
  /\ rtTouched \in BOOLEAN

Registered(c) == rtStep[c] \in {"registered", "open"}
RtGo(c, step) == rtStep' = [rtStep EXCEPT ![c] = step]

\* Mutant: counted without the entries of those still connecting.
PresenceAddLate(c) ==
  /\ rtEntry' = [d \in Conns |-> IF d = c THEN "fresh"
                                ELSE IF rtEntry[d] = "expired" THEN "none" ELSE rtEntry[d]]
  /\ rtCount' = [rtCount EXCEPT ![c] =
                  1 + Cardinality({d \in Conns \ {c} : rtEntry[d] = "fresh" /\ Registered(d)})]

\* The ADD script: purge what expired, set the entry, count.
PresenceAdd(c) ==
  /\ rtEntry' = [d \in Conns |-> IF d = c THEN "fresh"
                                ELSE IF rtEntry[d] = "expired" THEN "none" ELSE rtEntry[d]]
  /\ rtCount' = [rtCount EXCEPT ![c] = Cardinality({d \in Conns : rtEntry'[d] = "fresh"})]

\* attach: handleConnect up to the reply of presence.add.
RtConnect(c, i) ==
  /\ rtStep[c] = "new"
  /\ i \in rtUp
  /\ rtAt' = [rtAt EXCEPT ![c] = i]
  /\ rtSocket' = rtSocket \cup {c}
  /\ PresenceAdd(c)
  /\ RtGo(c, "added")
  /\ UNCHANGED <<rtUp, rtAlive, rtTouched>>

\* The reply: over the limit the entry goes again, else the connection is
\* registered; attach has no close listener yet.
RtDecide(c) ==
  /\ rtStep[c] = "added"
  /\ RtGo(c, IF rtCount[c] > MaxConnections THEN "refused" ELSE "registered")
  /\ rtAlive' = IF rtCount[c] > MaxConnections THEN rtAlive ELSE rtAlive \cup {c}
  /\ rtCount' = [rtCount EXCEPT ![c] = 0]
  /\ UNCHANGED <<rtUp, rtAt, rtEntry, rtSocket, rtTouched>>

\* handleConnect returned: attach listens to pong and close.
RtListen(c) ==
  /\ rtStep[c] = "registered"
  /\ RtGo(c, "open")
  /\ UNCHANGED <<rtUp, rtAt, rtCount, rtEntry, rtSocket, rtAlive, rtTouched>>

\* presence.remove, of a refused or a leaving connection, and the socket is
\* closed.  When it rejects the entry stays, and so does the socket of a refused
\* connection: the rejection leaves handleConnect before its close.
RtRemove(c) ==
  /\ rtStep[c] \in {"refused", "leaving"}
  /\ RtGo(c, "gone")
  /\ \/ /\ rtEntry' = [rtEntry EXCEPT ![c] = "none"]
        /\ rtSocket' = rtSocket \ {c}
     \/ /\ rtSocket' = IF rtStep[c] = "refused" THEN rtSocket ELSE rtSocket \ {c}
        /\ UNCHANGED rtEntry
  /\ UNCHANGED <<rtUp, rtAt, rtCount, rtAlive, rtTouched>>

\* The client goes away; only an attach that listens calls handleDisconnect.
SocketCloses(c) ==
  /\ c \in rtSocket
  /\ rtSocket' = rtSocket \ {c}
  /\ RtGo(c, IF rtStep[c] = "open" THEN "leaving" ELSE rtStep[c])
  /\ UNCHANGED <<rtUp, rtAt, rtCount, rtEntry, rtAlive, rtTouched>>

\* A pong or a frame: markAlive.
RtPong(c) ==
  /\ c \in rtSocket
  /\ rtStep[c] = "open"
  /\ rtAlive' = rtAlive \cup {c}
  /\ UNCHANGED <<rtUp, rtAt, rtCount, rtEntry, rtSocket, rtStep, rtTouched>>

\* The TOUCH script: an entry that is there, expired or not, is fresh again;
\* one that was purged is not made anew.
PresenceTouch(c) ==
  \/ rtEntry' = [rtEntry EXCEPT ![c] = IF @ = "none" THEN @ ELSE "fresh"]
  \/ ~rtTouched /\ UNCHANGED rtEntry

\* heartbeat, one connection of its loop.
Beat(c) ==
  /\ Registered(c)
  /\ rtAt[c] \in rtUp
  /\ c \in rtAlive
  /\ rtAlive' = rtAlive \ {c}
  /\ PresenceTouch(c)
  /\ UNCHANGED <<rtUp, rtAt, rtStep, rtCount, rtSocket, rtTouched>>

\* Mutant: the heartbeat pings and touches whoever is silent.
BeatAnyway(c) ==
  /\ Registered(c)
  /\ rtAt[c] \in rtUp
  /\ c \notin rtAlive
  /\ PresenceTouch(c)
  /\ UNCHANGED <<rtUp, rtAt, rtStep, rtCount, rtSocket, rtAlive, rtTouched>>

\* No sign of life since the ping: close, then handleDisconnect.
BeatMissed(c) ==
  /\ Registered(c)
  /\ rtAt[c] \in rtUp
  /\ c \notin rtAlive
  /\ rtSocket' = rtSocket \ {c}
  /\ RtGo(c, "leaving")
  /\ UNCHANGED <<rtUp, rtAt, rtCount, rtEntry, rtAlive, rtTouched>>

\* connectionTtlMs (three heartbeats) without a touch.
EntryExpires(c) ==
  /\ rtEntry[c] = "fresh"
  /\ Registered(c) /\ rtAt[c] \in rtUp => ~rtTouched
  /\ rtStep[c] # "added"
  /\ rtEntry' = [rtEntry EXCEPT ![c] = "expired"]
  /\ UNCHANGED <<rtUp, rtAt, rtStep, rtCount, rtSocket, rtAlive, rtTouched>>

\* disconnect(): the timer stops and every registered connection is closed; one
\* that is connecting registers after it.
RtShutdown(i) ==
  /\ i \in rtUp
  /\ rtUp' = rtUp \ {i}
  /\ rtStep' = [c \in Conns |-> IF rtAt[c] = i /\ Registered(c) THEN "leaving" ELSE rtStep[c]]
  /\ UNCHANGED <<rtAt, rtCount, rtEntry, rtSocket, rtAlive, rtTouched>>

\* The process dies: its sockets close, its entries stay.
RtCrash(i) ==
  /\ \E c \in Conns : rtAt[c] = i /\ rtStep[c] # "gone"
  /\ rtUp' = rtUp \ {i}
  /\ rtStep' = [c \in Conns |-> IF rtAt[c] = i THEN "gone" ELSE rtStep[c]]
  /\ rtSocket' = {c \in rtSocket : rtAt[c] # i}
  /\ UNCHANGED <<rtAt, rtCount, rtEntry, rtAlive, rtTouched>>

\* The steps of the server and of time.
RtServerStep(c) ==
  RtDecide(c) \/ RtListen(c) \/ RtRemove(c) \/ Beat(c) \/ BeatMissed(c)

RtNext ==
  \/ \E c \in Conns :
       \/ \E i \in RtInstances : RtConnect(c, i)
       \/ RtServerStep(c) \/ SocketCloses(c) \/ RtPong(c) \/ EntryExpires(c)
  \/ \E i \in RtInstances : RtShutdown(i) \/ RtCrash(i)

RtSpec == RtInit /\ [][RtNext]_rtVars

-----------------------------------------------------------------------------
RtTypeOK ==
  /\ rtUp \subseteq RtInstances
  /\ rtAt \in [Conns -> RtInstances \cup {NoInstance}]
  /\ rtStep \in [Conns -> {"new", "added", "refused", "registered", "open", "leaving", "gone"}]
  /\ rtCount \in [Conns -> 0..Cardinality(Conns)]
  /\ rtEntry \in [Conns -> {"none", "fresh", "expired"}]
  /\ rtSocket \subseteq Conns /\ rtAlive \subseteq Conns
  /\ rtTouched \in BOOLEAN

\* "maxConnectionsPerUser is enforced across the cluster": however connects of
\* several instances interleave with departures, crashes and expiries, the
\* instances that are up serve at most so many connections of a user, as long as
\* heartbeats reach Redis within the TTL.
ConnectionLimit ==
  rtTouched =>
    Cardinality({c \in Conns : Registered(c) /\ rtAt[c] \in rtUp}) <= MaxConnections

\* A connection whose client is gone stops counting, whether its instance
\* noticed, was shut down while it connected, or died.
GhostsLeave ==
  \A c \in Conns :
    (rtStep[c] # "new" /\ c \notin rtSocket) ~> rtEntry[c] # "fresh"
=============================================================================
