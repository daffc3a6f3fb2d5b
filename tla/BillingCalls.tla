----------------------------- MODULE BillingCalls -----------------------------
(***************************************************************************)
(* The operations of Billing that ask the provider to create something:    *)
(* charge and refund, subscribe, and reportUsage.  A caller (a request, a   *)
(* job) may run an operation again after it failed, or beside itself; each  *)
(* attempt passes the key of the operation.  One action is one await.       *)
(*                                                                         *)
(* The tenant has its customer, and retries come while the provider still   *)
(* remembers the key: it answers a known key with its first result.  A      *)
(* thing it creates starts incomplete and may settle later (a payment, a    *)
(* first invoice), which an event tells the mirror.                         *)
(***************************************************************************)
EXTENDS Naturals, FiniteSets

CONSTANTS
  Charges,        \* operations by kind: charge or refund
  Subscribes,
  Usages,
  Attempts,       \* attempts that can run at once
  NoOperation

Operations == Charges \cup Subscribes \cup Usages

ASSUME BillingCallsAssumption ==
  /\ NoOperation \notin Operations
  /\ Charges \cap Subscribes = {} /\ Charges \cap Usages = {} /\ Subscribes \cap Usages = {}

VARIABLES
  made,        \* [Operations -> things the provider made, or meter events it counted]
  settled,     \* those of the operations whose thing is active, or paid
  mirror,      \* [Operations -> the status in the local row: "none", "incomplete", "settled"]
  usageRow,    \* the usage records
  told,        \* operations that returned their result to a caller
  cstep,       \* the await each attempt is at
  cop          \* its operation

callsVars == <<made, settled, mirror, usageRow, told, cstep, cop>>
providerVars == <<made, settled>>

CallsInit ==
  /\ made = [o \in Operations |-> 0]
  /\ settled = {} /\ usageRow = {} /\ told = {}
  /\ mirror = [o \in Operations |-> "none"]
  /\ cstep = [a \in Attempts |-> "idle"]
  /\ cop = [a \in Attempts |-> NoOperation]

At(a, step) == cstep[a] = step
To(a, step) == cstep' = [cstep EXCEPT ![a] = step] /\ UNCHANGED cop

\* The attempt returns, throws, or loses its process.
Over(a) ==
  /\ cstep' = [cstep EXCEPT ![a] = "idle"]
  /\ cop' = [cop EXCEPT ![a] = NoOperation]

BeginCall(a, o) ==
  /\ At(a, "idle")
  /\ cop' = [cop EXCEPT ![a] = o]
  /\ cstep' = [cstep EXCEPT ![a] =
       IF o \in Subscribes THEN "check" ELSE IF o \in Usages THEN "record" ELSE "create"]
  /\ UNCHANGED <<providerVars, mirror, usageRow, told>>

\* subscribe: an entitled subscription in the mirror is 'subscription-exists'.
CheckExisting(a) ==
  /\ At(a, "check")
  /\ IF \E o \in Subscribes : mirror[o] = "settled" THEN Over(a) ELSE To(a, "create")
  /\ UNCHANGED <<providerVars, mirror, usageRow, told>>

\* Mutant: the key does not reach the provider.
MakeAgain(o) == made' = [made EXCEPT ![o] = @ + 1]

\* idempotencyKey, or the identifier of a meter event.
MakeOnce(o) == made' = [made EXCEPT ![o] = 1]

\* The provider makes it, or answers with what it made; or it refuses.
CreateAtProvider(a) ==
  /\ At(a, "create")
  /\ \/ MakeOnce(cop[a]) /\ (To(a, "store") \/ Over(a))
     \/ UNCHANGED made /\ Over(a)
  /\ UNCHANGED <<settled, mirror, usageRow, told>>

\* upsertCharge, upsertRefund, upsertSubscription, stamped new Date(): what was
\* answered, a replayed first result included, replaces what an event told.
StoreResult(a) ==
  /\ At(a, "store")
  /\ mirror' = [mirror EXCEPT ![cop[a]] = "incomplete"]
  /\ \/ Over(a) /\ told' = told \cup {cop[a]}
     \/ Over(a) /\ UNCHANGED told
  /\ UNCHANGED <<providerVars, usageRow>>

\* Mutant: usage goes to the provider first, and is then recorded.
RecordLater(a) ==
  /\ At(a, "record")
  /\ To(a, "report")
  /\ UNCHANGED <<providerVars, mirror, usageRow, told>>

\* recordUsage: ON CONFLICT DO NOTHING on (tenant, key); a record that was
\* there returns false at once.
RecordUsage(a) ==
  /\ At(a, "record")
  /\ IF cop[a] \in usageRow
       THEN Over(a) /\ UNCHANGED usageRow
       ELSE usageRow' = usageRow \cup {cop[a]} /\ To(a, "report")
  /\ UNCHANGED <<providerVars, mirror, told>>

ReportUsage(a) ==
  /\ At(a, "report")
  /\ \/ MakeOnce(cop[a]) /\ told' = told \cup {cop[a]}
     \/ MakeOnce(cop[a]) /\ UNCHANGED told
     \/ UNCHANGED <<made, told>>
  /\ Over(a)
  /\ UNCHANGED <<settled, mirror, usageRow>>

\* At any await: a rejected statement, the end of the process.
AttemptDies(a) ==
  /\ ~At(a, "idle")
  /\ Over(a)
  /\ UNCHANGED <<providerVars, mirror, usageRow, told>>

Settles(o) ==
  /\ made[o] > 0 /\ o \notin settled /\ o \notin Usages
  /\ settled' = settled \cup {o}
  /\ UNCHANGED <<made, mirror, usageRow, told, cstep, cop>>

\* The webhook handler mirrors what an event of the provider says.
EventMirrors(o) ==
  /\ made[o] > 0 /\ o \notin Usages
  /\ \/ mirror[o] = "none" /\ mirror' = [mirror EXCEPT ![o] = "incomplete"]
     \/ o \in settled /\ mirror' = [mirror EXCEPT ![o] = "settled"]
  /\ UNCHANGED <<providerVars, usageRow, told, cstep, cop>>

CallsNext ==
  \/ \E a \in Attempts :
       \/ \E o \in Operations : BeginCall(a, o)
       \/ CheckExisting(a) \/ CreateAtProvider(a) \/ StoreResult(a)
       \/ RecordUsage(a) \/ ReportUsage(a) \/ AttemptDies(a)
  \/ \E o \in Operations : Settles(o) \/ EventMirrors(o)

CallsSpec == CallsInit /\ [][CallsNext]_callsVars

-----------------------------------------------------------------------------
CallsTypeOK ==
  /\ made \in [Operations -> Nat]
  /\ settled \subseteq Operations /\ usageRow \subseteq Usages /\ told \subseteq Operations
  /\ mirror \in [Operations -> {"none", "incomplete", "settled"}]
  /\ cstep \in [Attempts -> {"idle", "check", "create", "store", "record", "report"}]
  /\ cop \in [Attempts -> Operations \cup {NoOperation}]

\* "The retry reuses it and Stripe returns the first result instead of charging
\* twice", "usage is recorded locally first": whatever attempts of an operation
\* fail, die or run beside one another, the provider makes one thing for it, and
\* counts no usage that has no local record; and what a caller was told was done
\* is at the provider and in the local tables.
RetriesBillOnce ==
  /\ \A o \in Operations : made[o] <= 1
  /\ \A o \in Usages : made[o] > 0 => o \in usageRow
  /\ \A o \in told : made[o] = 1 /\ (o \in usageRow \/ mirror[o] # "none")
=============================================================================
