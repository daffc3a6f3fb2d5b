------------------------------ MODULE AuditChain ------------------------------
(***************************************************************************)
(* DrizzleAuditLog of @mariachi/audit, one hash chain: write under its      *)
(* advisory lock, retain, and verifyChain page by page.  It is the chain of *)
(* the entries without a tenant: the unique index on tenant and chainSeq    *)
(* holds nothing against two of their rows with one chainSeq.              *)
(* One action per statement where others can come between.  The hash of an  *)
(* entry is its identity: entries get distinct ids, and Genesis is none.    *)
(* Nobody tampers.  How often log() writes an entry when its enqueue         *)
(* rejects is the queue's: a writer writes any number of times.             *)
(***************************************************************************)
EXTENDS Naturals, FiniteSets

CONSTANTS
  AuWriters, NoWriter,
  MaxEntries,      \* bound: entries ever written
  MaxTime,         \* bound: the clock
  PageSize         \* PAGE

ASSUME AuditAssumption ==
  /\ NoWriter \notin AuWriters
  /\ MaxEntries \in Nat /\ MaxTime \in Nat /\ PageSize \in Nat \ {0}

Genesis == 0

VARIABLES
  auRows,        \* the table: [id, prev, seq, at]
  auWritten,     \* entries written so far
  auNow,         \* the time of the database's clock
  auAgree,       \* whether the clocks of the instances agree with it
  auLock,        \* the writer with the advisory lock
  auLast,        \* [AuWriters -> [id, seq] of the row it read]
  auPc,          \* [AuWriters -> "idle", "locked", "read"]
  auPrev,        \* verifyChain: expectedPrev, {} before the first row
  auAfter,       \* verifyChain: afterSeq
  auVerdict,     \* verifyChain: "none", "running", "ok", "broken"
  auUndisturbed  \* verifyChain: no retention since it started

auVars == <<auRows, auWritten, auNow, auAgree, auLock, auLast, auPc,
            auPrev, auAfter, auVerdict, auUndisturbed>>
verifyVars == <<auPrev, auAfter, auVerdict, auUndisturbed>>

Start == [id |-> Genesis, seq |-> 0]

AuInit ==
  /\ auRows = {}
  /\ auWritten = 0
  /\ auNow = 0
  /\ auAgree \in BOOLEAN
  /\ auLock = NoWriter
  /\ auLast = [w \in AuWriters |-> Start]
  /\ auPc = [w \in AuWriters |-> "idle"]
  /\ auPrev = {} /\ auAfter = 0 /\ auVerdict = "none" /\ auUndisturbed = TRUE

Tick ==
  /\ auNow < MaxTime
  /\ auNow' = auNow + 1
  /\ UNCHANGED <<auRows, auWritten, auAgree, auLock, auLast, auPc, verifyVars>>

\* Mutant: the transaction starts without pg_advisory_xact_lock.
BeginUnlocked(w) ==
  /\ auPc[w] = "idle"
  /\ auPc' = [auPc EXCEPT ![w] = "locked"]
  /\ UNCHANGED <<auRows, auWritten, auNow, auAgree, auLock, auLast, verifyVars>>

BeginWrite(w) ==
  /\ auPc[w] = "idle"
  /\ auLock = NoWriter
  /\ auLock' = w
  /\ auPc' = [auPc EXCEPT ![w] = "locked"]
  /\ UNCHANGED <<auRows, auWritten, auNow, auAgree, auLast, verifyVars>>

\* The row with the highest chainSeq, if any row is left.
Newest(rows) ==
  {[id |-> r.id, seq |-> r.seq] : r \in {r \in rows : \A q \in rows : q.seq <= r.seq}}

ReadLast(w) ==
  /\ auPc[w] = "locked"
  /\ auLast' = [auLast EXCEPT ![w] = IF auRows = {} THEN Start ELSE CHOOSE l \in Newest(auRows) : TRUE]
  /\ auPc' = [auPc EXCEPT ![w] = "read"]
  /\ UNCHANGED <<auRows, auWritten, auNow, auAgree, auLock, verifyVars>>

EndWrite(w) ==
  /\ auPc' = [auPc EXCEPT ![w] = "idle"]
  /\ auLast' = [auLast EXCEPT ![w] = Start]
  /\ auLock' = IF auLock = w THEN NoWriter ELSE auLock

\* The entry is stamped by the instance's clock, after the lock, and committed.
InsertAudit(w) ==
  /\ auPc[w] = "read"
  /\ auWritten < MaxEntries
  /\ \E at \in IF auAgree THEN {auNow} ELSE 0..MaxTime :
       auRows' = auRows \cup {[id |-> auWritten + 1, prev |-> auLast[w].id,
                               seq |-> auLast[w].seq + 1, at |-> at]}
  /\ auWritten' = auWritten + 1
  /\ EndWrite(w)
  /\ UNCHANGED <<auNow, auAgree, verifyVars>>

\* A statement fails or the process dies: rollback.
WriteFails(w) ==
  /\ auPc[w] # "idle"
  /\ EndWrite(w)
  /\ UNCHANGED <<auRows, auWritten, auNow, auAgree, verifyVars>>

\* retain: the committed rows older than the cutoff.
Retain(cutoff) ==
  /\ cutoff <= auNow
  /\ \E r \in auRows : r.at < cutoff
  /\ auRows' = {r \in auRows : r.at >= cutoff}
  /\ auUndisturbed' = FALSE
  /\ UNCHANGED <<auWritten, auNow, auAgree, auLock, auLast, auPc, auPrev, auAfter, auVerdict>>

VerifyStarts ==
  /\ auVerdict # "running"
  /\ auVerdict' = "running" /\ auPrev' = {} /\ auAfter' = 0 /\ auUndisturbed' = TRUE
  /\ UNCHANGED <<auRows, auWritten, auNow, auAgree, auLock, auLast, auPc>>

\* Mutant: the cursor's own row is read again.
PageFrom(seq) ==
  LET left == {r \in auRows : r.seq >= seq}
  IN {r \in left : Cardinality({q \in left : q.seq < r.seq}) < PageSize}

\* Rows past a cursor, oldest first, as many as a page takes.
PageAfter(seq) ==
  LET left == {r \in auRows : r.seq > seq}
  IN {r \in left : Cardinality({q \in left : q.seq < r.seq}) < PageSize}

\* Every row's prevHash is the hash of the row before it; the first row of all
\* anchors the chain.
Linked(page) ==
  \A r \in page :
    LET before == {q \in page : q.seq < r.seq}
    IN IF before = {} THEN auPrev \subseteq {r.prev}
       ELSE \E q \in before : q.id = r.prev /\ \A p \in before : p.seq <= q.seq

VerifyPage ==
  LET page == PageAfter(auAfter)
      last == CHOOSE l \in Newest(page) : TRUE
  IN
  /\ auVerdict = "running"
  /\ IF ~Linked(page) \/ Cardinality(page) < PageSize
     THEN /\ auVerdict' = IF Linked(page) THEN "ok" ELSE "broken"
          /\ auPrev' = {} /\ auAfter' = 0
     ELSE /\ auPrev' = {last.id} /\ auAfter' = last.seq
          /\ UNCHANGED auVerdict
  /\ UNCHANGED <<auRows, auWritten, auNow, auAgree, auLock, auLast, auPc, auUndisturbed>>

AuNext ==
  \/ Tick
  \/ \E w \in AuWriters : BeginWrite(w) \/ ReadLast(w) \/ InsertAudit(w) \/ WriteFails(w)
  \/ \E cutoff \in 1..MaxTime : Retain(cutoff)
  \/ VerifyStarts \/ VerifyPage

AuSpec == AuInit /\ [][AuNext]_auVars

-----------------------------------------------------------------------------
AuTypeOK ==
  /\ \A r \in auRows : /\ r.id \in 1..auWritten /\ r.prev \in 0..auWritten
                       /\ r.seq \in 1..MaxEntries /\ r.at \in 0..MaxTime
  /\ auWritten \in 0..MaxEntries /\ auNow \in 0..MaxTime /\ auAgree \in BOOLEAN
  /\ auLock \in AuWriters \cup {NoWriter}
  /\ auLast \in [AuWriters -> [id : 0..MaxEntries, seq : 0..MaxEntries]]
  /\ auPc \in [AuWriters -> {"idle", "locked", "read"}]
  /\ auPrev \subseteq 1..MaxEntries
  /\ auAfter \in 0..MaxEntries
  /\ auVerdict \in {"none", "running", "ok", "broken"}
  /\ auUndisturbed \in BOOLEAN

\* The chain is never forked: concurrent writes, on any instances and beside a
\* retention, take distinct places, and the entry after a remaining entry links
\* to it.
OneChain ==
  \A r, q \in auRows :
    /\ r.seq = q.seq => r = q
    /\ q.seq = r.seq + 1 => q.prev = r.id

\* A chain nobody tampered with verifies, whatever is written meanwhile and was
\* retained before, page by page: provided that the clocks of the instances
\* agree and no retention runs during the verification.  Without either the
\* code reports a link mismatch.
HonestChainVerifies == (auAgree /\ auUndisturbed) => auVerdict # "broken"
=============================================================================
