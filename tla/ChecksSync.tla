------------------------------- MODULE ChecksSync -------------------------------
(***************************************************************************)
(* The Shared Checks document: several devices of one owner, each with its *)
(* durable journal (JournalHead), synchronizing one document with the      *)
(* server through a compare-and-swap RPC that remembers operation ids      *)
(* (shared-checks-v2-runtime.js, shared-checks-storage-v2.js, the merge in *)
(* checks-merge.js, and save_shared_checks_document of the migrations).    *)
(*                                                                         *)
(* A document gives each check its row, and a row is the number of the     *)
(* edit that wrote it: 0 for the rows the server had at first, Absent for  *)
(* no row.  A put therefore always writes a row not seen before.           *)
(*                                                                         *)
(* The network: a request once sent may be processed at any later moment,  *)
(* any number of times or never, and a reply may be lost - a client that   *)
(* timed out sends the same request again.  A device may restart at any    *)
(* moment; what is in its emergency log and database stays (StorageJournal *)
(* is about how).                                                          *)
(*                                                                         *)
(* Left out: bank events and deposit numbers, which the server owns; row   *)
(* order; the 8 attempts of a checkpoint (fewer edits than that interrupt  *)
(* it here); retry delays; epochs after the first; server contention       *)
(* (save_busy), a retry of the same request.                               *)
(***************************************************************************)
EXTENDS JournalHead, Sequences, FiniteSets

CONSTANTS
    Devices,
    Checks,         \* check ids (a new check gets a fresh one)
    Original,       \* the checks of the server's first version
    MaxEdits,       \* bound on the edits of all devices
    MaxRestarts     \* bound on the restarts of all devices

\* A document has finitely many rows: an insertion goes to a place among them.
ASSUME ChecksAssumption ==
    Original \subseteq Checks /\ IsFiniteSet(Checks) /\ MaxEdits \in Nat /\ MaxRestarts \in Nat

VARIABLES
    server,     \* [versions, operations]: shared_checks_documents with its
                \* backups, and the ledger of operation ids
    requests,   \* save requests sent
    disk,       \* disk[d]: the head in IndexedDB of device d
    log,        \* log[d]: its edits not yet in IndexedDB, in the emergency log
    view,       \* view[d]: the document on its screen (model.state.checks)
    sync,       \* sync[d]: where its runtime is
    edited,     \* edits so far
    restarts    \* restarts so far

vars == <<server, requests, disk, log, view, sync, edited, restarts>>

-----------------------------------------------------------------------------
(* Documents and edits. *)

Absent == -1

Rows == -1..MaxEdits

Documents == [Checks -> Rows]

Present(doc) == {c \in Checks : doc[c] # Absent}

FirstDocument == [c \in Checks |-> IF c \in Original THEN 0 ELSE Absent]

\* applyStoredOperation: what makes a change fit the rows it is applied to.
Fits(doc, e) ==
    IF e.kind = "insert"
    THEN doc[e.check] = Absent /\ e.index <= Cardinality(Present(doc))
    ELSE doc[e.check] # Absent

\* What a change leaves of its check.
Value(e) == IF e.kind = "delete" THEN Absent ELSE e.n

Apply(doc, e) == [doc EXCEPT ![e.check] = Value(e)]

\* The document after the first n changes: what the last one left of each check.
After(doc, es, n) ==
    [c \in Checks |->
        LET changes == {i \in 1..n : es[i].check = c}
        IN  IF changes = {} THEN doc[c]
            ELSE Value(es[CHOOSE i \in changes : \A j \in changes : j <= i])]

\* replayStorageJournal: one change that does not fit refuses the whole replay.
Replay(doc, es) ==
    [ok  |-> \A i \in DOMAIN es : Fits(After(doc, es, i - 1), es[i]),
     doc |-> After(doc, es, Len(es))]

-----------------------------------------------------------------------------
(* A device. *)

Epoch == 1

\* The journal's next position: everything in the log comes after the database.
StoreSeq(d) == disk[d].seq + Len(log[d])

OpAt(h, n) == CHOOSE op \in h.journal : op.seq = n

\* recover(): the checkpoint, the journal after it and the emergency log.
Recovered(d) ==
    Replay(disk[d].cp.state,
           [i \in 1..(disk[d].seq - disk[d].cp.seq) |->
               OpAt(disk[d], disk[d].cp.seq + i).id] \o log[d])

EditsOf(d) == {op.id : op \in disk[d].journal} \cup {log[d][i] : i \in DOMAIN log[d]}

AllEdits == UNION {EditsOf(d) : d \in Devices}

\* Mutant of DeleteIntents: only the last operation is looked at.
DeleteIntentsOfLast(h, from, to) ==
    {op.id.check : op \in {x \in h.journal : x.seq = to /\ x.id.kind = "delete"}}

\* The checks deleted by the operations from..to: the delete intents of a flight
\* and of a merge.
DeleteIntents(h, from, to) ==
    {op.id.check : op \in {x \in h.journal : x.seq \in from..to /\ x.id.kind = "delete"}}

Base(h) == CHOOSE b \in h.base : TRUE

Flight(h) == CHOOSE f \in h.flight : TRUE

InConflict(d) == \E c \in disk[d].control : c.conflict # {}

Active(d) == sync[d].stage \notin {"new", "dead"}

Idle == [stage |-> "idle"]

Dead == [stage |-> "dead"]

-----------------------------------------------------------------------------
(* The merge of checks-merge.js.  A check has no fields that merge on their  *)
(* own, so two different changes of one check conflict.                      *)

\* Mutant of ProtectImplicitDeletes: explicit intents are ignored.
ProtectAllDeletes(base, local, deleteIds) ==
    [c \in Checks |-> IF local[c] = Absent THEN base[c] ELSE local[c]]

\* A check the base has and the local document lacks is a deletion only with an
\* explicit intent.
ProtectImplicitDeletes(base, local, deleteIds) ==
    [c \in Checks |-> IF local[c] = Absent /\ c \notin deleteIds THEN base[c] ELSE local[c]]

MergeSharedChecks(base, local, remote, deleteIds) ==
    LET mine == ProtectImplicitDeletes(base, local, deleteIds)
    IN  [conflicts |-> {c \in Checks : /\ mine[c] # base[c] /\ remote[c] # base[c]
                                       /\ mine[c] # remote[c]},
         checks    |-> [c \in Checks |-> IF mine[c] # base[c] THEN mine[c] ELSE remote[c]]]

-----------------------------------------------------------------------------
(* The server. *)

Revision == Len(server.versions)

Document == server.versions[Revision].doc

Row == [revision |-> Revision, doc |-> Document]

\* save_shared_checks_document_core and save_shared_checks_document: a known
\* operation is answered with the current row; a document equal to the current
\* one is accepted whatever its revision; then the revision must match; then an
\* update that removes rows must declare exactly those.
Replayed(r) == r.flight.operationId \in server.operations

Unchanged(r) == ~Replayed(r) /\ r.flight.snapshot = Document

\* Mutant of RevisionConflict: revisions are compared before the ledger is read.
RevisionConflictFirst(r) == ~Unchanged(r) /\ r.flight.baseRevision # Revision

RevisionConflict(r) ==
    ~Replayed(r) /\ ~Unchanged(r) /\ r.flight.baseRevision # Revision

Removed(doc, r) == Present(doc) \ Present(r.flight.snapshot)

DeleteMismatch(r) == Removed(Document, r) \notin {{}, r.deletes}

\* Mutant of Saved: no compare-and-swap.
SavedAnyRevision(r) == ~Replayed(r) /\ ~Unchanged(r) /\ ~DeleteMismatch(r)

Saved(r) ==
    /\ ~Replayed(r) /\ ~Unchanged(r)
    /\ r.flight.baseRevision = Revision
    /\ ~DeleteMismatch(r)

\* Mutant of Save: an unchanged document is answered before the ledger is written.
SaveRecordingChanges(r) ==
    IF Saved(r)
    THEN [versions   |-> Append(server.versions, [doc |-> r.flight.snapshot, by |-> {r}]),
          operations |-> server.operations \cup {r.flight.operationId}]
    ELSE server

Save(r) ==
    [versions   |-> IF Saved(r)
                    THEN Append(server.versions, [doc |-> r.flight.snapshot, by |-> {r}])
                    ELSE server.versions,
     operations |-> IF Saved(r) \/ Unchanged(r)
                    THEN server.operations \cup {r.flight.operationId}
                    ELSE server.operations]

-----------------------------------------------------------------------------
Init ==
    /\ server = [versions |-> <<[doc |-> FirstDocument, by |-> {}]>>, operations |-> {}]
    /\ requests = {}
    /\ disk = [d \in Devices |-> EmptyHead]
    /\ log = [d \in Devices |-> <<>>]
    /\ view = [d \in Devices |-> [c \in Checks |-> Absent]]
    /\ sync = [d \in Devices |-> [stage |-> "new"]]
    /\ edited = 0 /\ restarts = 0

\* initialize(): the device adopts the owner's cloud document as its first head.
Initialize(d) ==
    /\ sync[d].stage = "new"
    /\ InitializeCloudHeadOk(disk[d], {})
    /\ disk' = [disk EXCEPT ![d] =
                   InitializeCloudHead(Epoch, d, Document,
                       [revision |-> Revision, ackSeq |-> 0, state |-> Document], {})]
    /\ view' = [view EXCEPT ![d] = Document]
    /\ sync' = [sync EXCEPT ![d] = Idle]
    /\ UNCHANGED <<server, requests, log, edited, restarts>>

-----------------------------------------------------------------------------
(* Edits: made on what the screen shows, appended whatever synchronization is *)
(* doing, durable at once in the log.  over and early are kept for the        *)
(* properties: the row the user saw, and whether the screen was behind the    *)
(* database (between a checkpoint and its publication).                       *)

Edit(d, c, kind) ==
    /\ Active(d)
    /\ edited < MaxEdits
    /\ edited' = edited + 1
    /\ LET e == [n |-> edited + 1, check |-> c, kind |-> kind,
                 index |-> IF kind = "insert" THEN Cardinality(Present(view[d])) ELSE 0,
                 over |-> view[d][c], early |-> sync[d].stage \in {"publish", "apply"}]
       IN  /\ log' = [log EXCEPT ![d] = Append(@, e)]
           /\ view' = [view EXCEPT ![d] = Apply(@, e)]
    /\ UNCHANGED <<server, requests, disk, sync, restarts>>

Insert(d, c) ==
    /\ c \notin Original /\ \A e \in AllEdits : e.check # c
    /\ Edit(d, c, "insert")

Replace(d, c) == view[d][c] # Absent /\ Edit(d, c, "replace")

Delete(d, c) == view[d][c] # Absent /\ Edit(d, c, "delete")

\* The queue commits the next edit.
Commit(d) ==
    /\ log[d] # <<>>
    /\ LET op == [seq |-> disk[d].seq + 1, id |-> Head(log[d])]
       IN  /\ AppendOk(disk[d], Epoch, d, op)
           /\ disk' = [disk EXCEPT ![d] = AppendOp(@, op)]
    /\ log' = [log EXCEPT ![d] = Tail(@)]
    /\ UNCHANGED <<server, requests, view, sync, edited, restarts>>

-----------------------------------------------------------------------------
(* synchronize().  A round starts at "idle" and comes back to it: the loop of *)
(* attempts and the next call of sync() are the same thing here.              *)

\* The catch of sync(): a retry control, unless there is a conflict to keep.
WithRetry(h) ==
    IF \E c \in h.control : c.conflict # {} THEN h
    ELSE SetControl(h, [retry |-> TRUE, conflict |-> {}])

\* Mutant of MaySync: a conflict does not stop synchronization.
MaySyncAnyway(d) == sync[d] = Idle

MaySync(d) == sync[d] = Idle /\ ~InConflict(d)

\* With operations to send, or a flight not settled, the flight goes out - the
\* stored one as it is, else one over everything committed.  recover() sees the
\* log and the journal does not, so an edit not yet committed fails this round.
Upload(d) ==
    /\ MaySync(d)
    /\ Pending(disk[d]) \/ disk[d].flight # {}
    /\ LET h == disk[d]
           f == IF h.flight # {} THEN Flight(h)
                ELSE [operationId  |-> <<d, Base(h).revision, Base(h).ackSeq + 1>>,
                      baseRevision |-> Base(h).revision,
                      startSeq |-> Base(h).ackSeq + 1, endSeq |-> h.seq,
                      snapshot |-> Recovered(d).doc]
       IN  IF h.flight # {} \/ log[d] = <<>>
           THEN /\ BeginFlightOk(h, Epoch, d, f)
                /\ disk' = [disk EXCEPT ![d] = BeginFlight(@, f)]
                /\ requests' = requests \cup
                      {[device |-> d, flight |-> f,
                        deletes |-> DeleteIntents(h, f.startSeq, f.endSeq)]}
                /\ sync' = [sync EXCEPT ![d] = [stage |-> "rpc", flight |-> f]]
           ELSE /\ disk' = [disk EXCEPT ![d] = WithRetry(@)]
                /\ UNCHANGED <<requests, sync>>
    /\ UNCHANGED <<server, log, view, edited, restarts>>

Awaited(r) ==
    sync[r.device].stage = "rpc" /\ sync[r.device].flight = r.flight

\* The server processes a request.  The reply is the row as it is now, or
\* revision_conflict, or another refusal.
Serve(r) ==
    /\ server' = Save(r)
    /\ UNCHANGED <<requests, disk, log, view, sync, edited, restarts>>

ServeAndReply(r) ==
    /\ Awaited(r)
    /\ server' = Save(r)
    /\ sync' = [sync EXCEPT ![r.device] =
          IF RevisionConflict(r) THEN [stage |-> "rejected", flight |-> r.flight]
          ELSE IF Saved(r) \/ Unchanged(r) \/ Replayed(r)
          THEN [stage |-> "integrate", flight |-> r.flight, rejected |-> FALSE, row |-> Row']
          ELSE [stage |-> "failed"]]
    /\ UNCHANGED <<requests, disk, log, view, edited, restarts>>

\* Only a revision_conflict lets the flight go: read the current row.
ReadRemote(d) ==
    /\ sync[d].stage = "rejected"
    /\ sync' = [sync EXCEPT ![d] =
          [stage |-> "integrate", flight |-> @.flight, rejected |-> TRUE, row |-> Row]]
    /\ UNCHANGED <<server, requests, disk, log, view, edited, restarts>>

\* The RPC or the read got no answer.
Timeout(d) ==
    /\ sync[d].stage \in {"rpc", "rejected"}
    /\ sync' = [sync EXCEPT ![d] = [stage |-> "failed"]]
    /\ UNCHANGED <<server, requests, disk, log, view, edited, restarts>>

Fail(d) ==
    /\ sync[d].stage = "failed"
    /\ sync' = [sync EXCEPT ![d] = Idle]
    /\ disk' = [disk EXCEPT ![d] = WithRetry(@)]
    /\ UNCHANGED <<server, requests, log, view, edited, restarts>>

-----------------------------------------------------------------------------
(* integrate().  The answer is merged into a checkpoint computed from one     *)
(* reading of the journal; edits may come before it is committed, which makes *)
(* it stale, and between its commit and its publication.                      *)

\* Mutant of BelievedRow: the row of the very next revision is not believed.
BelievedRowLater(s) == s.row.revision > s.flight.baseRevision + 1

\* What the server must have moved past for the answer to be believed.
BelievedRow(s) == s.row.revision > s.flight.baseRevision

Integrate(d) ==
    /\ sync[d].stage = "integrate"
    /\ log[d] = <<>>
    /\ LET h      == disk[d]
           s      == sync[d]
           local  == Recovered(d).doc
           base   == IF s.rejected THEN Base(h).state ELSE s.flight.snapshot
           from   == IF s.rejected THEN Base(h).ackSeq + 1 ELSE s.flight.endSeq + 1
           merged == MergeSharedChecks(base, local, s.row.doc, DeleteIntents(h, from, h.seq))
           state  == IF merged.conflicts = {} THEN merged.checks ELSE local
           conflict == [kind |-> "entity-conflict", remoteRevision |-> s.row.revision]
       IN  sync' = [sync EXCEPT ![d] =
              IF BelievedRow(s)
              THEN [stage |-> "commit", flight |-> s.flight, rejected |-> s.rejected,
                    row |-> s.row, cp |-> [seq |-> h.seq, state |-> state],
                    control |-> IF merged.conflicts = {} THEN {}
                                ELSE {[retry |-> FALSE, conflict |-> {conflict}]}]
              ELSE [stage |-> "failed"]]
    /\ UNCHANGED <<server, requests, disk, log, view, edited, restarts>>

\* The journal moved on since the merge: another attempt.
Stale(d) == log[d] # <<>> \/ disk[d].seq # sync[d].cp.seq

\* Mutant of CommitAck: the new base is what was sent, not what was answered.
CommitAckSnapshot(d) ==
    /\ sync[d].stage = "commit" /\ ~sync[d].rejected
    /\ LET s    == sync[d]
           base == [revision |-> s.row.revision, ackSeq |-> s.flight.endSeq,
                    state |-> s.flight.snapshot]
       IN  /\ ~Stale(d)
           /\ AcknowledgeOk(disk[d], Epoch, d, s.flight.operationId, base, {s.cp})
           /\ disk' = [disk EXCEPT ![d] = Acknowledge(@, base, {s.cp}, s.control)]
    /\ sync' = [sync EXCEPT ![d] = [stage |-> "publish"]]
    /\ UNCHANGED <<server, requests, log, view, edited, restarts>>

CommitAck(d) ==
    /\ sync[d].stage = "commit" /\ ~sync[d].rejected
    /\ LET s    == sync[d]
           base == [revision |-> s.row.revision, ackSeq |-> s.flight.endSeq, state |-> s.row.doc]
       IN  /\ ~Stale(d)
           /\ AcknowledgeOk(disk[d], Epoch, d, s.flight.operationId, base, {s.cp})
           /\ disk' = [disk EXCEPT ![d] = Acknowledge(@, base, {s.cp}, s.control)]
    /\ sync' = [sync EXCEPT ![d] = [stage |-> "publish"]]
    /\ UNCHANGED <<server, requests, log, view, edited, restarts>>

CommitReject(d) ==
    /\ sync[d].stage = "commit" /\ sync[d].rejected
    /\ LET s    == sync[d]
           base == [revision |-> s.row.revision, ackSeq |-> Base(disk[d]).ackSeq,
                    state |-> s.row.doc]
       IN  /\ ~Stale(d)
           /\ RejectFlightOk(disk[d], Epoch, d, s.flight.operationId, base, s.cp, s.cp.seq)
           /\ disk' = [disk EXCEPT ![d] = RejectFlight(@, base, s.cp, s.control)]
    /\ sync' = [sync EXCEPT ![d] = [stage |-> "publish"]]
    /\ UNCHANGED <<server, requests, log, view, edited, restarts>>

Retry(d) ==
    /\ sync[d].stage = "commit"
    /\ Stale(d)
    /\ sync' = [sync EXCEPT ![d] = [stage |-> "integrate", flight |-> @.flight,
                                    rejected |-> @.rejected, row |-> @.row]]
    /\ UNCHANGED <<server, requests, disk, log, view, edited, restarts>>

\* publish(): the screen takes the recovered document, unless an edit came while
\* it was read; a replay that throws ends the runtime.
PublishRead(d) ==
    /\ sync[d].stage = "publish"
    /\ sync' = [sync EXCEPT ![d] =
          IF Recovered(d).ok THEN [stage |-> "apply", seq |-> StoreSeq(d), doc |-> Recovered(d).doc]
          ELSE Dead]
    /\ UNCHANGED <<server, requests, disk, log, view, edited, restarts>>

PublishApply(d) ==
    /\ sync[d].stage = "apply"
    /\ IF sync[d].seq = StoreSeq(d)
       THEN /\ view' = [view EXCEPT ![d] = sync[d].doc]
            /\ sync' = [sync EXCEPT ![d] = Idle]
       ELSE /\ sync' = [sync EXCEPT ![d] = [stage |-> "publish"]]
            /\ UNCHANGED view
    /\ UNCHANGED <<server, requests, disk, log, edited, restarts>>

-----------------------------------------------------------------------------
(* With nothing to send, the device reads the server and adopts its row.      *)

Poll(d) ==
    /\ MaySync(d)
    /\ ~Pending(disk[d]) /\ disk[d].flight = {}
    /\ Base(disk[d]).revision <= Revision
    /\ sync' = [sync EXCEPT ![d] = [stage |-> "adopt", row |-> Row]]
    /\ UNCHANGED <<server, requests, disk, log, view, edited, restarts>>

Adopt(d) ==
    /\ sync[d].stage = "adopt"
    /\ LET h    == disk[d]
           row  == sync[d].row
           cp   == [seq |-> h.seq, state |-> row.doc]
           base == [revision |-> row.revision, ackSeq |-> h.seq, state |-> row.doc]
       IN  IF log[d] = <<>> /\ AdoptCloudHeadOk(h, Epoch, d, cp, base)
           THEN /\ disk' = [disk EXCEPT ![d] = AdoptCloudHead(@, cp, base)]
                /\ sync' = [sync EXCEPT ![d] = [stage |-> "publish"]]
           ELSE /\ sync' = [sync EXCEPT ![d] = Idle]
                /\ UNCHANGED disk
    /\ UNCHANGED <<server, requests, log, view, edited, restarts>>

\* The page is killed or reloaded and opens its journal again; the requests it
\* sent stay on their way.
Restart(d) ==
    /\ Active(d)
    /\ restarts < MaxRestarts
    /\ restarts' = restarts + 1
    /\ IF Recovered(d).ok
       THEN /\ view' = [view EXCEPT ![d] = Recovered(d).doc]
            /\ sync' = [sync EXCEPT ![d] = Idle]
       ELSE /\ sync' = [sync EXCEPT ![d] = Dead]
            /\ UNCHANGED view
    /\ UNCHANGED <<server, requests, disk, log, edited>>

-----------------------------------------------------------------------------
\* What a live page does without its user or the network.
Progress(d) ==
    \/ Initialize(d)
    \/ Upload(d) \/ Fail(d)
    \/ Integrate(d) \/ CommitAck(d) \/ CommitReject(d) \/ Retry(d)
    \/ PublishRead(d) \/ PublishApply(d)
    \/ Poll(d) \/ Adopt(d)

Answer(d) == \E r \in requests : r.device = d /\ ServeAndReply(r)

Next ==
    \/ \E r \in requests : Serve(r) \/ ServeAndReply(r)
    \/ \E d \in Devices :
          \/ Initialize(d)
          \/ \E c \in Checks : Insert(d, c) \/ Replace(d, c) \/ Delete(d, c)
          \/ Commit(d)
          \/ Upload(d) \/ ReadRemote(d) \/ Timeout(d) \/ Fail(d)
          \/ Integrate(d) \/ CommitAck(d) \/ CommitReject(d) \/ Retry(d)
          \/ PublishRead(d) \/ PublishApply(d)
          \/ Poll(d) \/ Adopt(d)
          \/ Restart(d)

Spec == Init /\ [][Next]_vars

\* A page that stays alive runs its queue and its rounds of synchronization (the
\* poll timer starts one again and again); a network that loses requests and
\* replies does not lose every one of them.
FairSpec ==
    /\ Spec
    /\ \A d \in Devices :
          /\ WF_vars(Commit(d)) /\ WF_vars(Progress(d))
          /\ SF_vars(Answer(d)) /\ SF_vars(ReadRemote(d))

-----------------------------------------------------------------------------
(* Properties. *)

Stages == {"new", "idle", "rpc", "rejected", "failed", "integrate", "commit",
           "publish", "apply", "adopt", "dead"}

\* Type invariant.
TypeOK ==
    /\ server.operations \subseteq {r.flight.operationId : r \in requests}
    /\ \A i \in DOMAIN server.versions :
          server.versions[i].doc \in Documents /\ server.versions[i].by \subseteq requests
    /\ \A d \in Devices :
          /\ sync[d].stage \in Stages
          /\ view[d] \in Documents
          /\ disk[d].seq \in 0..MaxEdits
          /\ sync[d].stage # "new" => disk[d].base # {} /\ disk[d].cp.state \in Documents
    /\ Cardinality(AllEdits) = edited

\* The edits of a device its server has not acknowledged.
Unacked(d) ==
    {op.id : op \in PendingOps(disk[d])} \cup {log[d][i] : i \in DOMAIN log[d]}

\* The last of them on check c.
LastUnacked(d, c) ==
    {e \in Unacked(d) : e.check = c /\ \A x \in Unacked(d) : x.check = c => x.n <= e.n}

\* An edit not yet acknowledged is never merged away: acknowledgement, rebase,
\* adoption and restart all keep it in the device's own document.
PendingEditKept ==
    \A d \in Devices : sync[d].stage # "new" /\ Recovered(d).ok =>
        \A c \in Checks : \A e \in LastUnacked(d, c) :
            Recovered(d).doc[c] = IF e.kind = "delete" THEN Absent ELSE e.n

\* The base a device merges against is what the server really held at that
\* revision: whatever replay, duplicate or no-op answered the RPC, revision and
\* state of a row are never mixed from two versions.  And with nothing to send a
\* device holds a copy of its base and nothing more, so adopting a newer row loses
\* nothing.
BaseIsServerVersion ==
    \A d \in Devices : \A b \in disk[d].base :
        /\ b.revision \in 1..Revision /\ b.state = server.versions[b.revision].doc
        /\ Active(d) /\ Unacked(d) = {} => disk[d].cp.state = b.state

\* An acknowledgement is earned: the server has recorded, once, an operation that
\* carried every edit the device counts as acknowledged.
AckedEditsStored ==
    \A d \in Devices : \A b \in disk[d].base : \A n \in 1..b.ackSeq :
        \E r \in requests :
            /\ r.device = d /\ n \in r.flight.startSeq..r.flight.endSeq
            /\ r.flight.operationId \in server.operations

\* No edit is applied by two operations: a rejected flight never lands late beside
\* its successor, and a retried one lands once.
EditsAppliedOnce ==
    \A i, j \in DOMAIN server.versions :
        i < j => \A p \in server.versions[i].by, q \in server.versions[j].by :
            p.device = q.device => p.flight.endSeq < q.flight.startSeq

\* No row disappears unasked: a row the base has and the snapshot lacks was
\* deleted by an operation of the flight's own range, and the flight says so.
FlightDeletesDeclared ==
    \A r \in requests :
        Removed(server.versions[r.flight.baseRevision].doc, r) \subseteq r.deletes

\* The first edit of r's device on c that r carries.
FirstEdit(r, c) ==
    {op.id : op \in {x \in disk[r.device].journal :
        /\ x.seq \in r.flight.startSeq..r.flight.endSeq /\ x.id.check = c
        /\ \A y \in disk[r.device].journal :
              y.seq \in r.flight.startSeq..(x.seq - 1) => y.id.check # c}}

\* The checks version i changes.
ChangedBy(i) ==
    {c \in Checks : server.versions[i].doc[c] # server.versions[i - 1].doc[c]}

\* No lost update: a version replaces a row only by the edits of a user who had
\* that very row on the screen (or his own newer one over it).
SeenBeforeReplaced(earlyToo) ==
    \A i \in DOMAIN server.versions : \A r \in server.versions[i].by :
        \A c \in ChangedBy(i) :
            \E e \in FirstEdit(r, c) :
                \/ e.over = server.versions[i - 1].doc[c]
                \/ e.early /\ ~earlyToo

\* No lost update for edits made while the screen was up to date.
NoLostUpdate == SeenBeforeReplaced(FALSE)

\* No lost update for every edit.
NoLostUpdateEver == SeenBeforeReplaced(TRUE)

\* A conflict waits for its user: until then the device sends nothing, takes no
\* newer base and does not forget what it conflicted with.
ConflictHolds ==
    [][\A d \in Devices : InConflict(d) =>
          /\ disk'[d].control = disk[d].control
          /\ disk'[d].base = disk[d].base /\ disk'[d].flight = {}
          /\ \A r \in requests' \ requests : r.device # d]_vars

\* No answer can settle the flight: the server recorded it without a new revision,
\* which the device does not believe, or refuses its list of deleted rows.
Wedged(d) ==
    \E r \in requests :
        /\ r.device = d /\ r.flight \in disk[d].flight
        /\ r.flight.baseRevision = Revision
        /\ Replayed(r) \/ Unchanged(r) \/ DeleteMismatch(r)

\* When edits stop, every device ends with the server's document on its screen,
\* unless it waits for the user's decision, is wedged or has ended itself.
Converges ==
    \A d \in Devices :
        <>[](InConflict(d) \/ Wedged(d) \/ sync[d].stage = "dead" \/ view[d] = Document)

\* A flight the server has recorded is settled.
RecordedFlightSettles ==
    \A d \in Devices :
        (\E f \in disk[d].flight : f.operationId \in server.operations)
            ~> (disk[d].flight = {} \/ sync[d].stage = "dead")

=============================================================================
