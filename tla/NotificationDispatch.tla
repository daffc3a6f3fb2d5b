------------------------- MODULE NotificationDispatch -------------------------
(***************************************************************************)
(* Notifications.notify with a queue, the worker's deliverJob, the delivery *)
(* rows of DrizzleNotificationStore and the callbacks of a provider.  A    *)
(* note is one channel of one intent: one job and one row.  Every await is  *)
(* a step.  The queue is any at-least-once queue with deduplication by id.  *)
(* Rendering and the inline sends (the same sendChannel under retry, in the *)
(* caller) are left out.                                                    *)
(***************************************************************************)
EXTENDS Naturals

CONSTANTS
  Intents, Channels,
  SameKey,         \* whether all intents carry one idempotencyKey
  NoteWorkers, NoNote,
  NoteAttempts     \* times the queue gives a notifications.dispatch job out

Notes == Intents \X Channels

ASSUME NotesAssumption ==
  /\ SameKey \in BOOLEAN
  /\ NoteAttempts \in Nat \ {0}
  /\ NoNote \notin Notes

VARIABLES
  routing,       \* [Intents -> channels notify has still to queue, or "new"]
  noteRow,       \* [Notes -> status of the row, or "none"]
  noteExternal,  \* notes whose row has the provider's id
  noteJob,       \* [Notes -> the job in the queue]
  noteTries,     \* [Notes -> times the job was taken]
  accepted,      \* notes the provider took at least once
  noteLock,      \* workers whose lock on the job in hand is alive
  onNote,        \* [NoteWorkers -> the note in hand, or NoNote]
  noteStep       \* [NoteWorkers -> step of sendChannel]

noteVars == <<routing, noteRow, noteExternal, noteJob, noteTries,
              accepted, noteLock, onNote, noteStep>>

Settled == {"sent", "delivered"}

NoteInit ==
  /\ routing = [i \in Intents |-> {"new"}]
  /\ noteRow = [n \in Notes |-> "none"]
  /\ noteExternal = {}
  /\ noteJob = [n \in Notes |-> "none"]
  /\ noteTries = [n \in Notes |-> 0]
  /\ accepted = {}
  /\ noteLock = {}
  /\ onNote = [w \in NoteWorkers |-> NoNote]
  /\ noteStep = [w \in NoteWorkers |-> "idle"]

\* resolveChannels: of the channels the intent names, or of all when it names
\* none, those the recipient enabled, whose rows setChannels writes at once (a
\* recipient without rows has the default ones); a critical intent is sent all
\* the same.
ResolveChannels(wanted, enabled, critical) ==
  IF wanted = {}
  THEN IF enabled = {} /\ critical THEN Channels ELSE enabled
  ELSE IF critical THEN wanted ELSE wanted \cap enabled

Notify(i, wanted, enabled, critical) ==
  /\ routing[i] = {"new"}
  /\ routing' = [routing EXCEPT ![i] = ResolveChannels(wanted, enabled, critical)]
  /\ UNCHANGED <<noteRow, noteExternal, noteJob, noteTries, accepted, noteLock, onNote, noteStep>>

\* deliveries.record: the whole row is replaced.
RecordRow(n, status, external) ==
  /\ noteRow' = [noteRow EXCEPT ![n] = status]
  /\ noteExternal' = IF external THEN noteExternal \cup {n} ELSE noteExternal \ {n}

RecordQueued(n) ==
  /\ n[2] \in routing[n[1]]
  /\ noteRow[n] = "none"
  /\ RecordRow(n, "queued", FALSE)
  /\ UNCHANGED <<routing, noteJob, noteTries, accepted, noteLock, onNote, noteStep>>

SameJob(n, k) == n = k \/ (SameKey /\ n[2] = k[2])

\* queue.enqueue with the key of the intent: a pending job of that id takes its
\* place, an ended one may.
EnqueueNote(n) ==
  /\ n[2] \in routing[n[1]]
  /\ noteRow[n] # "none"
  /\ routing' = [routing EXCEPT ![n[1]] = @ \ {n[2]}]
  /\ \/ /\ \E k \in Notes \ {n} : SameJob(n, k) /\ noteJob[k] \in {"waiting", "active", "ended", "dead"}
        /\ noteJob' = [noteJob EXCEPT ![n] = "dropped"]
     \/ /\ \A k \in Notes \ {n} : SameJob(n, k) => noteJob[k] \notin {"waiting", "active"}
        /\ noteJob' = [noteJob EXCEPT ![n] = "waiting"]
  /\ UNCHANGED <<noteRow, noteExternal, noteTries, accepted, noteLock, onNote, noteStep>>

\* Mutant: the job first, its row after.
EnqueueFirst(n) ==
  /\ n[2] \in routing[n[1]]
  /\ noteJob[n] = "none"
  /\ noteJob' = [noteJob EXCEPT ![n] = "waiting"]
  /\ UNCHANGED <<routing, noteRow, noteExternal, noteTries, accepted, noteLock, onNote, noteStep>>

RecordLast(n) ==
  /\ n[2] \in routing[n[1]]
  /\ noteJob[n] # "none"
  /\ RecordRow(n, "queued", FALSE)
  /\ routing' = [routing EXCEPT ![n[1]] = @ \ {n[2]}]
  /\ UNCHANGED <<noteJob, noteTries, accepted, noteLock, onNote, noteStep>>

QueueFirst(n) == EnqueueFirst(n) \/ RecordLast(n)

\* A channel of notify: record before enqueueing.
QueueNote(n) == RecordQueued(n) \/ EnqueueNote(n)

\* A step of notify rejects, or its process dies.
NotifyFails(i) ==
  /\ routing[i] \notin {{}, {"new"}}
  /\ routing' = [routing EXCEPT ![i] = {}]
  /\ UNCHANGED <<noteRow, noteExternal, noteJob, noteTries, accepted, noteLock, onNote, noteStep>>

NoteGo(w, n, step) ==
  /\ onNote' = [onNote EXCEPT ![w] = n]
  /\ noteStep' = [noteStep EXCEPT ![w] = step]

TakeNote(w, n) ==
  /\ noteStep[w] = "idle"
  /\ noteJob[n] = "waiting"
  /\ noteJob' = [noteJob EXCEPT ![n] = "active"]
  /\ noteTries' = [noteTries EXCEPT ![n] = @ + 1]
  /\ noteLock' = noteLock \cup {w}
  /\ NoteGo(w, n, "get")
  /\ UNCHANGED <<routing, noteRow, noteExternal, accepted>>

\* The run of w ends: its job moves on, unless the lock was lost and the job is
\* the queue's again, or another worker's.
EndJob(w, state) ==
  /\ noteLock' = noteLock \ {w}
  /\ noteJob' = IF w \in noteLock THEN [noteJob EXCEPT ![onNote[w]] = state] ELSE noteJob

\* deliveries.get: a channel already sent is skipped.
SkipSent(w) ==
  /\ noteStep[w] = "get"
  /\ noteRow[onNote[w]] \in Settled
  /\ EndJob(w, "ended")
  /\ NoteGo(w, NoNote, "idle")
  /\ UNCHANGED <<routing, noteRow, noteExternal, noteTries, accepted>>

ReadUnsent(w) ==
  /\ noteStep[w] = "get"
  /\ noteRow[onNote[w]] \notin Settled
  /\ NoteGo(w, onNote[w], "send")
  /\ UNCHANGED <<routing, noteRow, noteExternal, noteJob, noteTries, accepted, noteLock>>

\* The provider takes the message; its answer may be lost.
SendNote(w) ==
  /\ noteStep[w] = "send"
  /\ accepted' = accepted \cup {onNote[w]}
  /\ \E step \in {"record", "failed"} : NoteGo(w, onNote[w], step)
  /\ UNCHANGED <<routing, noteRow, noteExternal, noteJob, noteTries, noteLock>>

\* The provider refuses, the note has no recipient, or record rejects.
NoteThrows(w) ==
  /\ noteStep[w] \in {"send", "record"}
  /\ NoteGo(w, onNote[w], "failed")
  /\ UNCHANGED <<routing, noteRow, noteExternal, noteJob, noteTries, accepted, noteLock>>

RecordSent(w) ==
  /\ noteStep[w] = "record"
  /\ RecordRow(onNote[w], "sent", TRUE)
  /\ NoteGo(w, onNote[w], "dispatched")
  /\ UNCHANGED <<routing, noteJob, noteTries, accepted, noteLock>>

\* onChannelDispatched: a throw of the hook takes the path of a failed send.
Dispatched(w) ==
  /\ noteStep[w] = "dispatched"
  /\ \/ EndJob(w, "ended") /\ NoteGo(w, NoNote, "idle")
     \/ NoteGo(w, onNote[w], "failed") /\ UNCHANGED <<noteJob, noteLock>>
  /\ UNCHANGED <<routing, noteRow, noteExternal, noteTries, accepted>>

\* The attempt is recorded as failed, unless that rejects too; the job is
\* tried again while it has attempts.
NoteFailed(w) ==
  /\ noteStep[w] = "failed"
  /\ RecordRow(onNote[w], "failed", FALSE) \/ UNCHANGED <<noteRow, noteExternal>>
  /\ EndJob(w, IF noteTries[onNote[w]] < NoteAttempts THEN "waiting" ELSE "dead")
  /\ NoteGo(w, NoNote, "idle")
  /\ UNCHANGED <<routing, noteTries, accepted>>

\* The worker's process dies, or its lock runs out while it goes on.
NoteStalls(w) ==
  /\ w \in noteLock
  /\ noteTries[onNote[w]] < NoteAttempts
  /\ EndJob(w, "waiting")
  /\ NoteGo(w, NoNote, "idle") \/ UNCHANGED <<onNote, noteStep>>
  /\ UNCHANGED <<routing, noteRow, noteExternal, noteTries, accepted>>

\* updateByExternalId, called by the application for a provider's callback.
ProviderCallback(n, status) ==
  /\ n \in accepted /\ n \in noteExternal
  /\ noteRow' = [noteRow EXCEPT ![n] = status]
  /\ UNCHANGED <<routing, noteExternal, noteJob, noteTries, accepted, noteLock, onNote, noteStep>>

NoteStep(w) ==
  \/ \E n \in Notes : TakeNote(w, n)
  \/ SkipSent(w) \/ ReadUnsent(w) \/ SendNote(w) \/ NoteThrows(w)
  \/ RecordSent(w) \/ Dispatched(w) \/ NoteFailed(w)

NoteNext ==
  \/ \E i \in Intents, wanted, enabled \in SUBSET Channels, critical \in BOOLEAN :
       Notify(i, wanted, enabled, critical)
  \/ \E n \in Notes : QueueNote(n)
  \/ \E i \in Intents : NotifyFails(i)
  \/ \E w \in NoteWorkers : NoteStep(w) \/ NoteStalls(w)
  \/ \E n \in Notes, status \in {"delivered", "bounced"} : ProviderCallback(n, status)

NoteSpec == NoteInit /\ [][NoteNext]_noteVars

-----------------------------------------------------------------------------
NoteTypeOK ==
  /\ routing \in [Intents -> SUBSET Channels \cup {{"new"}}]
  /\ noteRow \in [Notes -> {"none", "queued", "sent", "failed", "delivered", "bounced"}]
  /\ noteExternal \subseteq accepted /\ accepted \subseteq Notes
  /\ noteJob \in [Notes -> {"none", "waiting", "active", "ended", "dead", "dropped"}]
  /\ noteTries \in [Notes -> 0..NoteAttempts]
  /\ noteLock \subseteq NoteWorkers
  /\ onNote \in [NoteWorkers -> Notes \cup {NoNote}]
  /\ noteStep \in [NoteWorkers -> {"idle", "get", "send", "record", "dispatched", "failed"}]

\* A row tells what became of the message: 'queued' never comes over what a
\* worker or the provider wrote, and a row that says sent, delivered or bounced
\* is of a message the provider has, whatever workers overlap or die.
RowsTellTheTruth ==
  [][\A n \in Notes :
       /\ noteRow[n] # "none" /\ noteRow'[n] = "queued" => noteRow[n] = "queued"
       /\ noteRow'[n] \in {"sent", "delivered", "bounced"} => n \in accepted']_noteVars
=============================================================================
