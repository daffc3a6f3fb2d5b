------------------------------ MODULE MCServices ------------------------------
(***************************************************************************)
(* The components that share no state with one another, checked in one run. *)
(* focus, chosen in the initial state, names the component a behaviour runs; *)
(* the others stay where they start.  The states of the run are the sum of  *)
(* the components' states, never their product.                            *)
(***************************************************************************)
EXTENDS CacheFill, MemoryJobs, JobQueue, NotificationDispatch, Presence, AuditChain,
        MCAISessions, AuthGuards, RateLimit, Lifecycle, SubscriptionMirror

CONSTANTS c3, i1, i2

VARIABLE focus

MCHome(c) == IF c = c3 THEN i2 ELSE i1
MCPriority == [r \in Resources |-> IF r = 1 THEN 2 ELSE 1]

servicesVars == <<focus, fillVars, memVars, bullVars, noteVars, rtVars, auVars, aiVars,
                  authVars, rlVars, lcVars, subVars>>

Focuses == {"tokens", "owned", "fill", "memory", "bull", "notes", "presence", "audit", "ai",
            "guesses", "keys", "rate", "lifecycle", "mirror"}

ServicesInit ==
  /\ focus \in Focuses
  /\ FillInit /\ MemInit /\ BullInit /\ NoteInit /\ RtInit /\ AuInit /\ AiInit
  /\ AuthInit /\ RateInit /\ LcInit /\ SubInit
  \* what a component may start with is one thing where it does not run
  /\ focus \in {"tokens", "fill"} \/ lockOutlives
  /\ focus = "presence" \/ rtTouched
  /\ focus = "audit" \/ auAgree
  /\ focus = "rate" \/ rlRule = "fixed-window"
  /\ focus = "mirror" \/ subAgree

Stays(f, v) == IF focus = f THEN TRUE ELSE UNCHANGED v

ServicesNext ==
  /\ UNCHANGED focus
  /\ \/ focus = "tokens" /\ TokenNext /\ UNCHANGED <<cached, fpc, inflight>>
     \/ focus = "owned" /\ OwnedNext /\ UNCHANGED <<cached, fpc, inflight>>
     \/ focus = "fill" /\ FillNext
     \/ focus = "memory" /\ MemNext
     \/ focus = "bull" /\ BullNext
     \/ focus = "notes" /\ NoteNext
     \/ focus = "presence" /\ RtNext
     \/ focus = "audit" /\ AuNext
     \/ focus = "ai" /\ AiNext
     \/ focus = "guesses" /\ BfNext
     \/ focus = "keys" /\ AkNext
     \/ focus = "rate" /\ RateNext
     \/ focus = "lifecycle" /\ LcNext
     \/ focus = "mirror" /\ SubNext
  /\ IF focus \in {"tokens", "owned"} THEN TRUE ELSE Stays("fill", fillVars)
  /\ Stays("memory", memVars) /\ Stays("bull", bullVars) /\ Stays("notes", noteVars)
  /\ Stays("presence", rtVars) /\ Stays("audit", auVars) /\ Stays("ai", aiVars)
  /\ IF focus = "guesses" THEN TRUE ELSE Stays("keys", authVars)
  /\ Stays("rate", rlVars) /\ Stays("lifecycle", lcVars) /\ Stays("mirror", subVars)

ServicesSpec ==
  /\ ServicesInit
  /\ [][ServicesNext]_servicesVars
  \* replies arrive, no wait for a lock is endless, and a TTL runs out
  /\ \A c \in LockCallers : /\ WF_fillVars(focus = "fill" /\ FillStep(c))
                            /\ SF_fillVars(focus = "fill" /\ FillWaited(c))
  /\ WF_fillVars(focus = "fill" /\ FillExpire)
  \* timers fire, and handlers end or time out
  /\ \A j \in MemJobs : WF_memVars(focus = "memory" /\ MemStep(j))
  \* the heartbeat timer fires and its awaits settle; a TTL runs out
  /\ \A c \in Conns : /\ WF_rtVars(focus = "presence" /\ RtServerStep(c))
                      /\ WF_rtVars(focus = "presence" /\ EntryExpires(c))

=============================================================================
