--------------------------- MODULE SubscriptionMirror ---------------------------
(***************************************************************************)
(* One subscription at the provider and its row in the local mirror of      *)
(* @mariachi/billing, written by the operations of Billing with what the    *)
(* provider answered, and by the webhooks of the provider with what each    *)
(* event carries.  A state of the subscription is the number of its change. *)
(* Two instants make a second: an event tells its second only, a local      *)
(* write the instant.  The webhook handler around the write is              *)
(* BillingWebhooks.                                                         *)
(***************************************************************************)
EXTENDS Naturals

CONSTANTS
  SubCallers,      \* callers of changePlan, cancel-, pause- and resumeSubscription
  MaxChanges,      \* bound: changes after the creation, which is change 1
  MaxInstant       \* bound: the clock

ASSUME MirrorAssumption == MaxChanges \in Nat /\ MaxInstant \in Nat \ {0}

VARIABLES
  subNow,
  subAgree,        \* whether the clocks of the instances are the provider's
  subChanged,      \* [change -> instant], as many as were made
  subEvents,       \* changes whose event the provider still has to deliver
  subRow,          \* the mirror: the change it shows, and lastEventAt
  subStep,         \* [SubCallers -> "idle", "asked" or "stamped"]
  subGot,          \* [SubCallers -> the change the provider answered]
  subStamp,        \* [SubCallers -> its new Date()]
  subApart         \* whether every change came in a second of its own

subVars == <<subNow, subAgree, subChanged, subEvents, subRow, subStep, subGot, subStamp, subApart>>
callVars == <<subStep, subGot, subStamp>>

SubChanges == 1..(MaxChanges + 1)
Made == {v \in SubChanges : subChanged[v] > 0}
LastChange == CHOOSE v \in Made : \A u \in Made : u <= v
SecondOf(t) == t - (t % 2)

SubInit ==
  /\ subNow = 2
  /\ subAgree \in BOOLEAN
  /\ subChanged = [v \in SubChanges |-> IF v = 1 THEN 2 ELSE 0]
  /\ subEvents = {1}
  /\ subRow = [of |-> 1, at |-> 2]
  /\ subStep = [c \in SubCallers |-> "idle"]
  /\ subGot = [c \in SubCallers |-> 1]
  /\ subStamp = [c \in SubCallers |-> 0]
  /\ subApart = TRUE

SubTick ==
  /\ subNow < MaxInstant
  /\ subNow' = subNow + 1
  /\ UNCHANGED <<subAgree, subChanged, subEvents, subRow, callVars, subApart>>

\* The provider changes the subscription and owes an event for it.  It is apart
\* when nothing else was changed or stamped in its second, and no other call is
\* between its answer and its write.
SubChange(others) ==
  /\ LastChange < MaxChanges + 1
  /\ subChanged' = [subChanged EXCEPT ![LastChange + 1] = subNow]
  /\ subEvents' = subEvents \cup {LastChange + 1}
  /\ subApart' = (/\ subApart
                  /\ \A v \in Made : subChanged[v] < SecondOf(subNow)
                  /\ subRow.at < SecondOf(subNow)
                  /\ \A c \in others : subStep[c] = "idle")

\* A renewal, the customer portal, the dashboard.
ProviderChanges ==
  /\ SubChange(SubCallers)
  /\ UNCHANGED <<subNow, subAgree, subRow, callVars>>

\* await this.adapter....
AskProvider(c) ==
  /\ subStep[c] = "idle"
  /\ SubChange(SubCallers \ {c})
  /\ subStep' = [subStep EXCEPT ![c] = "asked"]
  /\ subGot' = [subGot EXCEPT ![c] = LastChange + 1]
  /\ UNCHANGED <<subNow, subAgree, subRow, subStamp>>

\* new Date(), when the answer is there.
StampAnswer(c) ==
  /\ subStep[c] = "asked"
  /\ \E t \in IF subAgree THEN {subNow} ELSE 2..MaxInstant : subStamp' = [subStamp EXCEPT ![c] = t]
  /\ subStep' = [subStep EXCEPT ![c] = "stamped"]
  /\ UNCHANGED <<subNow, subAgree, subChanged, subEvents, subRow, subGot, subApart>>

\* Mutant: the write has no setWhere.
ApplyAlways(v, at) == subRow' = [of |-> v, at |-> at]

\* upsertSubscription: lte(lastEventAt, occurredAt).
ApplyNewer(v, at) ==
  subRow' = IF subRow.at <= at THEN [of |-> v, at |-> at] ELSE subRow

CallEnds(c) ==
  /\ subStep' = [subStep EXCEPT ![c] = "idle"]
  /\ subGot' = [subGot EXCEPT ![c] = 1]
  /\ subStamp' = [subStamp EXCEPT ![c] = 0]

StoreAnswer(c) ==
  /\ subStep[c] = "stamped"
  /\ ApplyNewer(subGot[c], subStamp[c])
  /\ CallEnds(c)
  /\ UNCHANGED <<subNow, subAgree, subChanged, subEvents, subApart>>

\* The provider's answer is lost, the write rejects, or the process dies.
CallDies(c) ==
  /\ subStep[c] # "idle"
  /\ CallEnds(c)
  /\ UNCHANGED <<subNow, subAgree, subChanged, subEvents, subRow, subApart>>

\* An event is handled, in any order; it may come again.
HandleSubEvent(v) ==
  /\ v \in subEvents
  /\ ApplyNewer(v, SecondOf(subChanged[v]))
  /\ subEvents' \in {subEvents, subEvents \ {v}}
  /\ UNCHANGED <<subNow, subAgree, subChanged, callVars, subApart>>

SubNext ==
  \/ SubTick \/ ProviderChanges
  \/ \E c \in SubCallers : AskProvider(c) \/ StampAnswer(c) \/ StoreAnswer(c) \/ CallDies(c)
  \/ \E v \in SubChanges : HandleSubEvent(v)

SubSpec == SubInit /\ [][SubNext]_subVars

-----------------------------------------------------------------------------
SubTypeOK ==
  /\ subNow \in 2..MaxInstant
  /\ subAgree \in BOOLEAN /\ subApart \in BOOLEAN
  /\ subChanged \in [SubChanges -> 0..MaxInstant]
  /\ subEvents \subseteq Made
  /\ subRow \in [of : Made, at : 2..MaxInstant]
  /\ subStep \in [SubCallers -> {"idle", "asked", "stamped"}]
  /\ subGot \in [SubCallers -> SubChanges]
  /\ subStamp \in [SubCallers -> 0..MaxInstant]

\* "Must ignore writes older than what is stored, since webhooks arrive out of
\* order": once all events are handled and no call is under way, the mirror
\* shows what the provider has, whatever the order and the repetitions of the
\* events and whichever calls died; provided the clocks agree and each change
\* has a second to itself.  (Without that a local write can hide a newer event
\* for good, and of two events in one second the older one can win.)
MirrorSettles ==
  (subAgree /\ subApart /\ subEvents = {} /\ \A c \in SubCallers : subStep[c] = "idle")
    => subRow.of = LastChange
=============================================================================
