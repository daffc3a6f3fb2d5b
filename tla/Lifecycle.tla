------------------------------- MODULE Lifecycle -------------------------------
(***************************************************************************)
(* Lifecycle of @mariachi/lifecycle: the resources given to manage(), the   *)
(* startup run, the shared shutdown run with its time limit per hook, and   *)
(* the signal handlers with their overall limit.  Resources are numbered in *)
(* the order of their registration.  Each settled promise and each signal   *)
(* is a step; nothing happens after exit().  Health checks are left out.    *)
(***************************************************************************)
EXTENDS Naturals

CONSTANTS
  Resources,       \* numbers, in the order of registration
  Priority,        \* [Resources -> Nat]: ManageOptions.priority
  LimitedHooks     \* those with a shutdownTimeoutMs

ASSUME LifecycleAssumption ==
  /\ Resources \subseteq Nat \ {0}
  /\ Priority \in [Resources -> Nat]
  /\ LimitedHooks \subseteq Resources

VARIABLES
  lcUp,            \* resources that are connected
  lcStart,         \* start(): "new", "starting", "started", "failed"
  lcConnecting,    \* the hook start() awaits, or 0
  lcConnected,     \* startup hooks that returned
  lcStop,          \* this.running: "no", "running", "done"
  lcClosing,       \* the hook the shutdown run awaits, or 0
  lcClosed,        \* shutdown hooks it is done with
  lcHanging,       \* hooks it gave up, which still run
  lcOk,            \* ok of the shutdown run
  lcSignal,        \* received
  lcExit,          \* "no", "0" or "1"
  lcOverlap        \* whether startup and shutdown ever ran at once

startVars == <<lcStart, lcConnecting, lcConnected>>
stopVars == <<lcStop, lcClosing, lcClosed, lcHanging, lcOk>>
lcVars == <<lcUp, startVars, stopVars, lcSignal, lcExit, lcOverlap>>

LcInit ==
  /\ lcUp = {} /\ lcStart = "new" /\ lcConnecting = 0 /\ lcConnected = {}
  /\ lcStop = "no" /\ lcClosing = 0 /\ lcClosed = {} /\ lcHanging = {} /\ lcOk = TRUE
  /\ lcSignal = FALSE /\ lcExit = "no" /\ lcOverlap = FALSE

\* Both sorts are stable: equal priorities keep the order of registration.
StartsBefore(q, r) == Priority[q] < Priority[r] \/ (Priority[q] = Priority[r] /\ q < r)
StopsBefore(q, r) == Priority[q] > Priority[r] \/ (Priority[q] = Priority[r] /\ q < r)

StartUp ==
  /\ lcStart = "new"
  /\ lcStart' = "starting"
  /\ lcOverlap' = (lcStop # "no")
  /\ UNCHANGED <<lcUp, lcConnecting, lcConnected, stopVars, lcSignal, lcExit>>

Connect(r) ==
  /\ lcStart = "starting" /\ lcConnecting = 0
  /\ r \notin lcConnected
  /\ \A q \in Resources \ lcConnected : q = r \/ StartsBefore(r, q)
  /\ lcConnecting' = r
  /\ UNCHANGED <<lcUp, lcStart, lcConnected, stopVars, lcSignal, lcExit, lcOverlap>>

ConnectReturns(r) ==
  /\ lcConnecting = r
  /\ lcUp' = lcUp \cup {r}
  /\ lcConnecting' = 0
  /\ lcConnected' = lcConnected \cup {r}
  /\ lcStart' = IF lcConnected' = Resources THEN "started" ELSE lcStart
  /\ UNCHANGED <<stopVars, lcSignal, lcExit, lcOverlap>>

\* startup/failed: what is connected stays so, and the process lives.
ConnectThrows(r) ==
  /\ lcConnecting = r
  /\ lcConnecting' = 0
  /\ lcStart' = "failed"
  /\ UNCHANGED <<lcUp, lcConnected, stopVars, lcSignal, lcExit, lcOverlap>>

\* runAll: a run that was started is shared.
BeginStop ==
  /\ lcStop' = IF lcStop = "no" THEN "running" ELSE lcStop
  /\ lcOverlap' = (lcOverlap \/ lcStart = "starting")

StopCalled ==
  /\ lcStop = "no"
  /\ BeginStop
  /\ UNCHANGED <<lcUp, startVars, lcClosing, lcClosed, lcHanging, lcOk, lcSignal, lcExit>>

FirstSignal ==
  /\ ~lcSignal
  /\ lcSignal' = TRUE
  /\ BeginStop
  /\ UNCHANGED <<lcUp, startVars, lcClosing, lcClosed, lcHanging, lcOk, lcExit>>

SecondSignal ==
  /\ lcSignal
  /\ lcExit' = "1"
  /\ UNCHANGED <<lcUp, startVars, stopVars, lcSignal, lcOverlap>>

Disconnect(r) ==
  /\ lcStop = "running" /\ lcClosing = 0
  /\ r \notin lcClosed
  /\ \A q \in Resources \ lcClosed : q = r \/ StopsBefore(r, q)
  /\ lcClosing' = r
  /\ UNCHANGED <<lcUp, startVars, lcStop, lcClosed, lcHanging, lcOk, lcSignal, lcExit, lcOverlap>>

\* The run goes on with the next hook, or is done.
HookEnds(r) ==
  /\ lcClosing = r
  /\ lcClosing' = 0
  /\ lcClosed' = lcClosed \cup {r}
  /\ lcStop' = IF lcClosed' = Resources THEN "done" ELSE lcStop

DisconnectReturns(r) ==
  /\ HookEnds(r)
  /\ lcUp' = lcUp \ {r}
  /\ UNCHANGED <<startVars, lcHanging, lcOk, lcSignal, lcExit, lcOverlap>>

DisconnectThrows(r) ==
  /\ HookEnds(r)
  /\ lcOk' = FALSE
  /\ UNCHANGED <<lcUp, startVars, lcHanging, lcSignal, lcExit, lcOverlap>>

\* Mutant: a hook that is given up does not count as failed.
TimeoutForgiven(r) ==
  /\ r \in LimitedHooks
  /\ HookEnds(r)
  /\ lcHanging' = lcHanging \cup {r}
  /\ UNCHANGED <<lcUp, startVars, lcOk, lcSignal, lcExit, lcOverlap>>

\* lifecycle/shutdown-timeout of one hook, which goes on by itself.
DisconnectTimesOut(r) ==
  /\ r \in LimitedHooks
  /\ HookEnds(r)
  /\ lcOk' = FALSE
  /\ lcHanging' = lcHanging \cup {r}
  /\ UNCHANGED <<lcUp, startVars, lcSignal, lcExit, lcOverlap>>

HangingReturns(r) ==
  /\ r \in lcHanging
  /\ lcHanging' = lcHanging \ {r}
  /\ lcUp' = lcUp \ {r}
  /\ UNCHANGED <<startVars, lcStop, lcClosing, lcClosed, lcOk, lcSignal, lcExit, lcOverlap>>

Drained ==
  /\ lcSignal /\ lcStop = "done"
  /\ lcExit' = IF lcOk THEN "0" ELSE "1"
  /\ UNCHANGED <<lcUp, startVars, stopVars, lcSignal, lcOverlap>>

\* The overall timeoutMs.
DrainTimesOut ==
  /\ lcSignal /\ lcStop = "running"
  /\ lcExit' = "1"
  /\ UNCHANGED <<lcUp, startVars, stopVars, lcSignal, lcOverlap>>

LcNext ==
  /\ lcExit = "no"
  /\ \/ StartUp \/ StopCalled \/ FirstSignal \/ SecondSignal \/ Drained \/ DrainTimesOut
     \/ \E r \in Resources :
          \/ Connect(r) \/ ConnectReturns(r) \/ ConnectThrows(r)
          \/ Disconnect(r) \/ DisconnectReturns(r) \/ DisconnectThrows(r)
          \/ DisconnectTimesOut(r) \/ HangingReturns(r)

LcSpec == LcInit /\ [][LcNext]_lcVars

-----------------------------------------------------------------------------
LcTypeOK ==
  /\ lcUp \subseteq Resources /\ lcConnected \subseteq Resources
  /\ lcClosed \subseteq Resources /\ lcHanging \subseteq LimitedHooks
  /\ lcConnecting \in Resources \cup {0} /\ lcClosing \in Resources \cup {0}
  /\ lcStart \in {"new", "starting", "started", "failed"}
  /\ lcStop \in {"no", "running", "done"}
  /\ lcOk \in BOOLEAN /\ lcSignal \in BOOLEAN /\ lcOverlap \in BOOLEAN
  /\ lcExit \in {"no", "0", "1"}

\* Exit code 0 is the promise of a clean drain: nothing is still being
\* disconnected, and nothing is connected, after failed startups, throwing and
\* hanging hooks, stop() and signals in any order.  Only a startup that runs
\* beside the shutdown goes on connecting behind it.
CleanExit ==
  lcExit = "0" => lcHanging = {} /\ (~lcOverlap => lcUp = {})
=============================================================================
