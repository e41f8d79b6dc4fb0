-------------------------------- MODULE MainSync --------------------------------
(***************************************************************************)
(* The main document of netunim-orders on one device: rounds of saving and *)
(* polling over its durable journal (JournalHead), while its user edits    *)
(* and other computers save the same document.  save-operation.js starts a *)
(* round, write-flight.js sends and rebases the flight, ack-publication.js *)
(* commits and shows an acknowledgement, cloud-post-ack-recovery.js        *)
(* repairs a publication an edit got ahead of, remote-adoption.js takes a  *)
(* newer document, document.js lets the user approve a fenced one.         *)
(*                                                                         *)
(* Unlike Shared Checks (ChecksSync) the screen changes only by edits and  *)
(* by publications, never by a reload of what was committed: the hard part *)
(* is the gap between the commit of a checkpoint and its publication,      *)
(* where an edit is journaled over a checkpoint its user never saw.        *)
(*                                                                         *)
(* A document gives each record a row, and a row is the number of the save *)
(* that wrote it, as in ChecksSync: a record is what merges as a whole, so *)
(* two different changes of one record conflict.                           *)
(*                                                                         *)
(* A round and a poll take turns (cloudBusy, cloudPollPromise): sync is    *)
(* the one slot.  "await queue" is the guard log = <<>> of the step that   *)
(* reads; an edit that comes between that await and the read fails the     *)
(* commit that follows, as it does when it comes after the read.           *)
(*                                                                         *)
(* Left out: failed local mutations, account and tab authority             *)
(* (OwnerTransfer, TabLock), retry delays, conflicts the user settles by   *)
(* choosing a side, server contention (save_busy, a retry of the same      *)
(* request).                                                               *)
(***************************************************************************)
EXTENDS JournalHead, Sequences, FiniteSets

CONSTANTS
    Records,            \* record ids (a new record gets a fresh one)
    Original,           \* the records of the server's first version
    MaxEdits,           \* bound on the edits of this device
    MaxRemote,          \* bound on the saves of other computers
    MaxRestarts,        \* bound on the restarts of the page
    ConflictAttempts    \* CLOUD_WRITE_POLICY.conflictAttempts, 3 in the code

ASSUME RecordsAssumption == IsFiniteSet(Records) /\ Original \subseteq Records

ASSUME BoundsAssumption ==
    /\ MaxEdits \in Nat /\ MaxRemote \in Nat /\ MaxRestarts \in Nat
    /\ ConflictAttempts \in Nat \ {0}

VARIABLES
    server,     \* [versions, operations]: order_management_documents with its
                \* backups, and the ledger of operation ids
    requests,   \* save requests sent
    disk,       \* the head in IndexedDB
    log,        \* the edits not yet in IndexedDB, in the emergency log
    view,       \* model.state, the document on the screen
    sync,       \* where the round is
    edited,     \* edits so far; localGeneration counts them within a page
    restarts,   \* restarts so far
    history     \* edits the user approved, edits a restart tore (for the properties)

vars == <<server, requests, disk, log, view, sync, edited, restarts, history>>

-----------------------------------------------------------------------------
(* Documents and edits. *)

Absent == -1

Documents == [Records -> -1..(MaxEdits + MaxRemote)]

Present(doc) == {c \in Records : doc[c] # Absent}

FirstDocument == [c \in Records |-> IF c \in Original THEN 0 ELSE Absent]

\* applyStoredOperation: what makes a change fit the rows it is applied to.
Fits(doc, e) ==
    IF e.kind = "insert"
    THEN doc[e.record] = Absent /\ e.index <= Cardinality(Present(doc))
    ELSE doc[e.record] # Absent

\* What a change leaves of its record.
Value(e) == IF e.kind = "delete" THEN Absent ELSE e.n

Apply(doc, e) == [doc EXCEPT ![e.record] = Value(e)]

\* The document after the first n changes: what the last one left of each record.
After(doc, es, n) ==
    [c \in Records |->
        LET changes == {i \in 1..n : es[i].record = c}
        IN  IF changes = {} THEN doc[c]
            ELSE Value(es[CHOOSE i \in changes : \A j \in changes : j <= i])]

\* replayStorageJournal: one change that does not fit refuses the whole replay.
Replay(doc, es) ==
    [ok  |-> \A i \in DOMAIN es : Fits(After(doc, es, i - 1), es[i]),
     doc |-> After(doc, es, Len(es))]

-----------------------------------------------------------------------------
(* The device. *)

Epoch == 1

Device == "device"

\* The journal's next position, and with one page the generation too: every edit
\* takes a position, whether or not it has reached the database.
Position == disk.seq + Len(log)

EditAt(n) == (CHOOSE op \in disk.journal : op.seq = n).id

EditsAfter(n) == [i \in 1..(disk.seq - n) |-> EditAt(n + i)]

\* recover(): the checkpoint, the journal after it and the emergency log.
Recovered == Replay(disk.cp.state, EditsAfter(disk.cp.seq) \o log)

AllEdits == {op.id : op \in disk.journal} \cup {log[i] : i \in DOMAIN log}

\* The deletions of the operations from..to, which their flight and merge declare.
DeleteIntents(from, to) ==
    {op.id.record : op \in {x \in disk.journal : x.seq \in from..to /\ x.id.kind = "delete"}}

Base == CHOOSE b \in disk.base : TRUE

Flight == CHOOSE f \in disk.flight : TRUE

InConflict == \E c \in disk.control : c.conflict # {}

Conflict(kind, revision) ==
    {[retry |-> FALSE, conflict |-> {[kind |-> kind, remoteRevision |-> revision]}]}

Idle == [stage |-> "idle"]

Failed == [stage |-> "failed"]

-----------------------------------------------------------------------------
(* merge3 of merge.js. *)

\* A row the base has and the local document lacks is a deletion only with an
\* explicit intent.
ProtectImplicitDeletes(base, local, deletes) ==
    [c \in Records |-> IF local[c] = Absent /\ c \notin deletes THEN base[c] ELSE local[c]]

\* Mutant of Merge3: the local change wins silently.
Merge3PreferLocal(base, local, remote, deletes) ==
    LET mine == ProtectImplicitDeletes(base, local, deletes)
    IN  [conflict |-> FALSE,
         doc      |-> [c \in Records |-> IF mine[c] # base[c] THEN mine[c] ELSE remote[c]]]

Merge3(base, local, remote, deletes) ==
    LET mine == ProtectImplicitDeletes(base, local, deletes)
    IN  [conflict |-> \E c \in Records :
                         mine[c] # base[c] /\ remote[c] # base[c] /\ mine[c] # remote[c],
         doc      |-> [c \in Records |-> IF mine[c] # base[c] THEN mine[c] ELSE remote[c]]]

-----------------------------------------------------------------------------
(* The server: save_order_management_document_v4 over its core. *)

Revision == Len(server.versions)

Document == server.versions[Revision].doc

Row == [revision |-> Revision, doc |-> Document]

\* A known operation is answered with the current row; a document equal to the
\* current one is accepted whatever its revision; then the revision must match;
\* then the rows removed must be exactly those declared.
Replayed(r) == \E o \in server.operations : o.id = r.flight.operationId

Unchanged(r) == ~Replayed(r) /\ r.flight.snapshot = Document

RevisionConflict(r) ==
    ~Replayed(r) /\ ~Unchanged(r) /\ r.flight.baseRevision # Revision

DeleteMismatch(r) == Present(Document) \ Present(r.flight.snapshot) # r.deletes

Saved(r) ==
    /\ ~Replayed(r) /\ ~Unchanged(r)
    /\ r.flight.baseRevision = Revision
    /\ ~DeleteMismatch(r)

\* Mutant of Save: the operation is not entered in the ledger.
SaveWithoutLedger(r) ==
    IF Saved(r)
    THEN [server EXCEPT !.versions = Append(@, [doc |-> r.flight.snapshot, by |-> {r}])]
    ELSE server

Save(r) ==
    LET versions == IF Saved(r)
                    THEN Append(server.versions, [doc |-> r.flight.snapshot, by |-> {r}])
                    ELSE server.versions
    IN  [versions   |-> versions,
         operations |-> IF Saved(r) \/ Unchanged(r)
                        THEN server.operations \cup
                                {[id |-> r.flight.operationId, revision |-> Len(versions)]}
                        ELSE server.operations]

\* documentWriteAckRevision: the operation took effect at the flight's base or at
\* the very next revision.  A no-op accepted at a later revision is not believed.
Believed(r, operations) ==
    \E o \in operations :
        o.id = r.flight.operationId
        /\ o.revision \in r.flight.baseRevision..(r.flight.baseRevision + 1)

-----------------------------------------------------------------------------
Init ==
    /\ server = [versions |-> <<[doc |-> FirstDocument, by |-> {}]>>, operations |-> {}]
    /\ requests = {}
    /\ disk = InitializeCloudHead(Epoch, Device, FirstDocument,
                 [revision |-> 1, ackSeq |-> 0, state |-> FirstDocument], {})
    /\ log = <<>>
    /\ view = FirstDocument
    /\ sync = Idle
    /\ edited = 0 /\ restarts = 0
    /\ history = [approved |-> {}, torn |-> {}]

-----------------------------------------------------------------------------
(* The user and the other computers. *)

\* An edit is made on what the screen shows, whatever the round is doing; over is
\* the row its user saw.
Edit(c, kind) ==
    /\ sync.stage # "dead"
    /\ edited < MaxEdits
    /\ edited' = edited + 1
    /\ LET e == [n |-> edited + 1, record |-> c, kind |-> kind, over |-> view[c],
                 index |-> IF kind = "insert" THEN Cardinality(Present(view)) ELSE 0]
       IN  /\ log' = Append(log, e)
           /\ view' = Apply(view, e)
    /\ UNCHANGED <<server, requests, disk, sync, restarts, history>>

Insert(c) ==
    /\ c \notin Original /\ \A e \in AllEdits : e.record # c
    /\ Edit(c, "insert")

Replace(c) == view[c] # Absent /\ Edit(c, "replace")

Delete(c) == view[c] # Absent /\ Edit(c, "delete")

\* The journal's queue commits the next edit.
Commit ==
    /\ log # <<>>
    /\ LET op == [seq |-> disk.seq + 1, id |-> Head(log)]
       IN  /\ AppendOk(disk, Epoch, Device, op)
           /\ disk' = AppendOp(disk, op)
    /\ log' = Tail(log)
    /\ UNCHANGED <<server, requests, view, sync, edited, restarts, history>>

\* Another computer's save is accepted: one row changes or goes.
RemoteSaves == Cardinality({i \in DOMAIN server.versions : server.versions[i].by = {}}) - 1

RemoteSave(c) ==
    /\ RemoteSaves < MaxRemote
    /\ Document[c] # Absent
    /\ \E row \in {Absent, MaxEdits + RemoteSaves + 1} :
          server' = [server EXCEPT !.versions =
                        Append(@, [doc |-> [Document EXCEPT ![c] = row], by |-> {}])]
    /\ UNCHANGED <<requests, disk, log, view, sync, edited, restarts, history>>

-----------------------------------------------------------------------------
(* A round of saving, up to the answer of the server. *)

\* Mutant of NewFlight: the range is not the snapshot's.
NewFlightThroughHead(through, snapshot) ==
    [operationId  |-> <<Base.revision, Base.ackSeq + 1>>,
     baseRevision |-> Base.revision,
     startSeq |-> Base.ackSeq + 1, endSeq |-> disk.seq, snapshot |-> snapshot]

\* A flight over the operations the cloud has not acknowledged, up to a position.
NewFlight(through, snapshot) ==
    [operationId  |-> <<Base.revision, Base.ackSeq + 1>>,
     baseRevision |-> Base.revision,
     startSeq |-> Base.ackSeq + 1, endSeq |-> through, snapshot |-> snapshot]

\* effectiveDeleteIntents: of the deletions journaled, those the snapshot makes.
Declared(f) ==
    {c \in DeleteIntents(f.startSeq, f.endSeq) :
        Base.state[c] # Absent /\ f.snapshot[c] = Absent}

Send(f, attempt) ==
    /\ requests' = requests \cup {[flight |-> f, deletes |-> Declared(f)]}
    /\ sync' = [stage |-> "rpc", flight |-> f, attempt |-> attempt]

\* The stored flight goes out as it is, else one over everything committed.
Upload ==
    /\ sync = Idle /\ ~InConflict
    /\ Pending(disk) \/ disk.flight # {}
    /\ disk.flight = {} => log = <<>> /\ Recovered.ok
    /\ LET f == IF disk.flight # {} THEN Flight ELSE NewFlight(disk.seq, Recovered.doc)
       IN  /\ BeginFlightOk(disk, Epoch, Device, f)
           /\ disk' = BeginFlight(disk, f)
           /\ Send(f, 1)
    /\ UNCHANGED <<server, log, view, edited, restarts, history>>

\* The server processes a request once sent: late, again, or never.
Serve(r) ==
    /\ server' = Save(r)
    /\ UNCHANGED <<requests, disk, log, view, sync, edited, restarts, history>>

ServeAndReply(r) ==
    /\ sync.stage = "rpc" /\ sync.flight = r.flight
    /\ server' = Save(r)
    /\ sync' = IF RevisionConflict(r)
               THEN [sync EXCEPT !.stage = "rejected"]
               ELSE IF Believed(r, server'.operations)
               THEN [stage |-> "ack", flight |-> r.flight, row |-> Row']
               ELSE Failed
    /\ UNCHANGED <<requests, disk, log, view, edited, restarts, history>>

ReadRemote ==
    /\ sync.stage = "rejected"
    /\ sync' = [stage |-> "rebase", flight |-> sync.flight, attempt |-> sync.attempt,
                row |-> Row]
    /\ UNCHANGED <<server, requests, disk, log, view, edited, restarts, history>>

\* The RPC or the read got no answer.
Timeout ==
    /\ sync.stage \in {"rpc", "rejected"}
    /\ sync' = Failed
    /\ UNCHANGED <<server, requests, disk, log, view, edited, restarts, history>>

\* createCloudRetryControl: the error is recorded and the round ends.
Fail ==
    /\ sync = Failed
    /\ disk' = SetControl(disk, [retry |-> TRUE, conflict |-> {}])
    /\ sync' = Idle
    /\ UNCHANGED <<server, requests, log, view, edited, restarts, history>>

-----------------------------------------------------------------------------
(* The answer becomes a checkpoint, computed from one reading of the journal *)
(* and the screen, and committed if no edit came since.  A candidate is what *)
(* is to be shown after the commit: state over position seq, instead of prev.*)

\* Mutant of StillCurrent: only what reached the database is compared.
StillCommitted(n) == disk.seq = n

\* No edit since position n.
StillCurrent(n) == Position = n

\* What the screen becomes: the merged document, with the edits after the flight.
Reconciled(f, target) ==
    IF disk.seq > f.endSeq
    THEN Merge3(f.snapshot, view, target, DeleteIntents(f.endSeq + 1, disk.seq))
    ELSE [conflict |-> FALSE, doc |-> target]

\* A conflict keeps the screen and fences the document.
Checkpoint(conflict, doc) == [seq |-> disk.seq, state |-> IF conflict THEN view ELSE doc]

ControlFor(conflict, row) == IF conflict THEN Conflict("entity-conflict", row.revision) ELSE {}

Ack ==
    /\ sync.stage = "ack"
    /\ log = <<>>
    /\ LET now == Reconciled(sync.flight, sync.row.doc)
       IN  sync' = [stage |-> "commitAck", flight |-> sync.flight, row |-> sync.row,
                    cp |-> Checkpoint(now.conflict, now.doc), prev |-> view,
                    control |-> ControlFor(now.conflict, sync.row)]
    /\ UNCHANGED <<server, requests, disk, log, view, edited, restarts, history>>

CommitAck ==
    /\ sync.stage = "commitAck"
    /\ LET f    == sync.flight
           base == [revision |-> sync.row.revision, ackSeq |-> f.endSeq, state |-> sync.row.doc]
       IN  IF StillCurrent(sync.cp.seq) /\ Recovered.ok
           THEN /\ AcknowledgeOk(disk, Epoch, Device, f.operationId, base, {sync.cp})
                /\ disk' = Acknowledge(disk, base, {sync.cp}, sync.control)
                /\ sync' = IF sync.control # {} THEN Idle
                           ELSE [stage |-> "publish", attempt |-> 0,
                                 cand |-> [kind |-> "concurrent-ack", tries |-> 6, next |-> Idle,
                                           base |-> base, prev |-> sync.prev, cp |-> sync.cp]]
           ELSE /\ sync' = Failed
                /\ UNCHANGED disk
    /\ UNCHANGED <<server, requests, log, view, edited, restarts, history>>

Rebase ==
    /\ sync.stage = "rebase"
    /\ log = <<>>
    /\ LET f    == sync.flight
           sent == Merge3(Base.state, f.snapshot, sync.row.doc,
                          DeleteIntents(f.startSeq, f.endSeq))
           now  == Reconciled(f, sent.doc)
           conflict == sent.conflict \/ now.conflict
       IN  sync' = [stage |-> "commitRebase", flight |-> f, row |-> sync.row,
                    cp |-> Checkpoint(conflict, now.doc), prev |-> view,
                    control |-> ControlFor(conflict, sync.row),
                    next |-> [stage |-> "materialize", attempt |-> sync.attempt,
                              through |-> f.endSeq, snapshot |-> sent.doc]]
    /\ UNCHANGED <<server, requests, disk, log, view, edited, restarts, history>>

\* Mutant of CommitRebase: the acknowledged sequence moves to the head.
CommitRebaseToHead ==
    /\ sync.stage = "commitRebase"
    /\ disk' = RejectFlight(disk, [revision |-> sync.row.revision, ackSeq |-> disk.seq,
                                   state |-> sync.row.doc], sync.cp, sync.control)
    /\ sync' = Idle
    /\ UNCHANGED <<server, requests, log, view, edited, restarts, history>>

CommitRebase ==
    /\ sync.stage = "commitRebase"
    /\ LET f    == sync.flight
           base == [revision |-> sync.row.revision, ackSeq |-> Base.ackSeq,
                    state |-> sync.row.doc]
       IN  IF StillCurrent(sync.cp.seq) /\ Recovered.ok
           THEN /\ RejectFlightOk(disk, Epoch, Device, f.operationId, base, sync.cp, sync.cp.seq)
                /\ disk' = RejectFlight(disk, base, sync.cp, sync.control)
                /\ sync' = IF sync.control # {} THEN Idle
                           ELSE [stage |-> "publish", attempt |-> 0,
                                 cand |-> [kind |-> "concurrent-rebase", tries |-> 2,
                                           next |-> sync.next, base |-> base,
                                           prev |-> sync.prev, cp |-> sync.cp]]
           ELSE /\ sync' = Failed
                /\ UNCHANGED disk
    /\ UNCHANGED <<server, requests, log, view, edited, restarts, history>>

\* The rebased operations go out again as a new flight, unless the attempts are spent.
Materialize ==
    /\ sync.stage = "materialize"
    /\ LET f == NewFlight(sync.through, sync.snapshot)
       IN  IF Recovered.ok
           THEN /\ BeginFlightOk(disk, Epoch, Device, f)
                /\ disk' = BeginFlight(disk, f)
                /\ IF sync.attempt < ConflictAttempts
                   THEN Send(f, sync.attempt + 1)
                   ELSE sync' = Failed /\ UNCHANGED requests
           ELSE /\ sync' = Failed
                /\ UNCHANGED <<requests, disk>>
    /\ UNCHANGED <<server, log, view, edited, restarts, history>>

-----------------------------------------------------------------------------
(* The publication of what was committed, and its repair when an edit came   *)
(* first: recoverPostAckPublication.                                         *)

\* The next attempt, or the fence when there is none left.
Repair(c, attempt) ==
    IF attempt < c.tries THEN [stage |-> "recover", cand |-> c, attempt |-> attempt]
    ELSE [stage |-> "fence", cand |-> c]

Publish ==
    /\ sync.stage = "publish"
    /\ IF StillCurrent(sync.cand.cp.seq)
       THEN /\ view' = sync.cand.cp.state
            /\ sync' = sync.cand.next
       ELSE /\ sync' = Repair(sync.cand, 0)
            /\ UNCHANGED view
    /\ UNCHANGED <<server, requests, disk, log, edited, restarts, history>>

\* The edits since the candidate must explain the screen, and merge with it.  An
\* edit still in the emergency log is not yet evidence.
RecoverRead ==
    /\ sync.stage = "recover"
    /\ LET c      == sync.cand
           proof  == Replay(c.prev, EditsAfter(c.cp.seq))
           merged == Merge3(c.prev, view, c.cp.state, DeleteIntents(c.cp.seq + 1, disk.seq))
       IN  sync' = IF /\ log = <<>> /\ Recovered.ok
                      /\ disk.base = {c.base} /\ disk.flight = {} /\ disk.control = {}
                      /\ proof.ok /\ proof.doc = view
                      /\ ~merged.conflict
                   THEN [stage |-> "recoverCommit", cand |-> c, attempt |-> sync.attempt,
                         cp |-> [seq |-> disk.seq, state |-> merged.doc]]
                   ELSE [stage |-> "fence", cand |-> c]
    /\ UNCHANGED <<server, requests, disk, log, view, edited, restarts, history>>

RecoverCommit ==
    /\ sync.stage = "recoverCommit"
    /\ IF StillCurrent(sync.cp.seq)
          /\ CommitCloudRecoveryOk(disk, Epoch, Device, sync.cp, "none")
       THEN /\ disk' = CommitCloudRecovery(disk, sync.cp)
            /\ sync' = [sync EXCEPT !.stage = "recoverPublish"]
       ELSE /\ sync' = Repair(sync.cand, sync.attempt + 1)
            /\ UNCHANGED disk
    /\ UNCHANGED <<server, requests, log, view, edited, restarts, history>>

RecoverPublish ==
    /\ sync.stage = "recoverPublish"
    /\ IF StillCurrent(sync.cp.seq)
       THEN /\ view' = sync.cp.state
            /\ sync' = sync.cand.next
       ELSE /\ sync' = Repair(sync.cand, sync.attempt + 1)
            /\ UNCHANGED view
    /\ UNCHANGED <<server, requests, disk, log, edited, restarts, history>>

\* Mutant of FenceOff: the fence is kept in memory only.
FenceOffVolatile ==
    /\ sync.stage = "fence"
    /\ sync' = Idle
    /\ UNCHANGED <<server, requests, disk, log, view, edited, restarts, history>>

\* setWriteControl: a durable conflict stops the rounds until its user decides.
FenceOff ==
    /\ sync.stage = "fence"
    /\ \E control \in Conflict(sync.cand.kind, sync.cand.base.revision) :
          disk' = SetControl(disk, control)
    /\ sync' = Idle
    /\ UNCHANGED <<server, requests, log, view, edited, restarts, history>>

\* prepareConcurrentAckRecovery and its resume, which checks the same evidence
\* again: the edits since the base explain both the journal and the screen, and the
\* server still holds the base.  The user looks at them and approves.
Approve ==
    /\ sync = Idle /\ log = <<>>
    /\ \E c \in disk.control : \E k \in c.conflict :
          ~c.retry /\ k.kind = "concurrent-ack" /\ k.remoteRevision = Base.revision
    /\ Recovered.ok /\ Recovered.doc = view
    /\ Replay(Base.state, EditsAfter(Base.ackSeq)) = [ok |-> TRUE, doc |-> view]
    /\ Row = [revision |-> Base.revision, doc |-> Base.state]
    /\ LET cp == [seq |-> disk.seq, state |-> view]
       IN  /\ CommitCloudRecoveryOk(disk, Epoch, Device, cp, "concurrent-ack")
           /\ disk' = CommitCloudRecovery(disk, cp)
    /\ history' = [history EXCEPT !.approved = @ \cup {op.id.n : op \in PendingOps(disk)}]
    /\ UNCHANGED <<server, requests, log, view, sync, edited, restarts>>

-----------------------------------------------------------------------------
(* With nothing to send, the device polls and adopts a newer document. *)

Poll ==
    /\ sync = Idle /\ disk.control = {}
    /\ log = <<>> /\ ~Pending(disk) /\ disk.flight = {}
    /\ Base.revision < Revision
    /\ sync' = [stage |-> "polled", row |-> Row]
    /\ UNCHANGED <<server, requests, disk, log, view, edited, restarts, history>>

\* An edit since the poll drops it; one during the commit fences it.
Adopt ==
    /\ sync.stage = "polled"
    /\ LET cp   == [seq |-> disk.seq, state |-> sync.row.doc]
           base == [revision |-> sync.row.revision, ackSeq |-> disk.seq, state |-> sync.row.doc]
       IN  IF log = <<>> /\ AdoptCloudHeadOk(disk, Epoch, Device, cp, base)
           THEN /\ disk' = AdoptCloudHead(disk, cp, base)
                /\ sync' = [stage |-> "publish", attempt |-> 0,
                            cand |-> [kind |-> "concurrent-hydration", tries |-> 0, next |-> Idle,
                                      base |-> base, prev |-> view, cp |-> cp]]
           ELSE /\ sync' = Idle
                /\ UNCHANGED disk
    /\ UNCHANGED <<server, requests, log, view, edited, restarts, history>>

\* Stages between the commit of a checkpoint and its publication or its fence.
Unpublished == {"publish", "recover", "recoverCommit", "recoverPublish", "fence"}

\* The page is killed or reloaded; requests sent stay on their way.  Edits made in
\* the gap are replayed over a checkpoint their user did not see.
Restart ==
    /\ sync.stage # "dead"
    /\ restarts < MaxRestarts
    /\ restarts' = restarts + 1
    /\ history' = IF sync.stage \in Unpublished
                  THEN [history EXCEPT !.torn = @ \cup
                           {EditAt(n).n : n \in (disk.cp.seq + 1)..disk.seq} \cup
                           {log[i].n : i \in DOMAIN log}]
                  ELSE history
    /\ IF Recovered.ok
       THEN view' = Recovered.doc /\ sync' = Idle
       ELSE sync' = [stage |-> "dead"] /\ UNCHANGED view
    /\ UNCHANGED <<server, requests, disk, log, edited>>

-----------------------------------------------------------------------------
\* What a live page does without its user, the network or other computers.
Progress ==
    \/ Upload \/ Fail
    \/ Ack \/ CommitAck \/ Rebase \/ CommitRebase \/ Materialize
    \/ Publish \/ RecoverRead \/ RecoverCommit \/ RecoverPublish \/ FenceOff
    \/ Poll \/ Adopt

Next ==
    \/ \E c \in Records : Insert(c) \/ Replace(c) \/ Delete(c) \/ RemoteSave(c)
    \/ \E r \in requests : Serve(r) \/ ServeAndReply(r)
    \/ ReadRemote \/ Timeout
    \/ Commit
    \/ Upload \/ Fail
    \/ Ack \/ CommitAck \/ Rebase \/ CommitRebase \/ Materialize
    \/ Publish \/ RecoverRead \/ RecoverCommit \/ RecoverPublish \/ FenceOff
    \/ Poll \/ Adopt
    \/ Approve
    \/ Restart

Spec == Init /\ [][Next]_vars

\* A page that stays alive runs its queue and starts a round again and again; not
\* every request and read is lost.
FairSpec ==
    /\ Spec
    /\ WF_vars(Commit) /\ WF_vars(Progress)
    /\ SF_vars(\E r \in requests : ServeAndReply(r)) /\ SF_vars(ReadRemote)

-----------------------------------------------------------------------------
(* Properties. *)

\* Type invariant.
TypeOK ==
    /\ \A i \in DOMAIN server.versions :
          server.versions[i].doc \in Documents /\ server.versions[i].by \subseteq requests
    /\ view \in Documents /\ disk.cp.state \in Documents
    /\ disk.base # {} /\ disk.seq + Len(log) = edited
    /\ sync.stage \in Unpublished \cup
          {"idle", "rpc", "rejected", "failed", "ack", "commitAck", "rebase", "commitRebase",
           "materialize", "polled", "dead"}

Unacked == {op.id : op \in PendingOps(disk)} \cup {log[i] : i \in DOMAIN log}

LastUnacked(c) ==
    {e \in Unacked : e.record = c /\ \A x \in Unacked : x.record = c => x.n <= e.n}

\* The last edit of a record that the cloud has not acknowledged stays on the screen
\* and in what a reload would recover: no merge, publication, repair or adoption
\* takes it away.
UnackedEditKept ==
    \A c \in Records : \A e \in LastUnacked(c) :
        /\ sync.stage # "dead" => view[c] = Value(e)
        /\ Recovered.ok => Recovered.doc[c] = Value(e)

\* Between rounds, unless it is fenced, the screen is exactly what a reload would
\* recover, and with nothing to send it is the server's document at the base.
ViewIsDurable ==
    sync = Idle /\ ~InConflict =>
        /\ Recovered = [ok |-> TRUE, doc |-> view]
        /\ Unacked = {} => view = Base.state

\* The edits of record c that r carries.
Carried(r, c) ==
    {op.id : op \in {x \in disk.journal :
        x.seq \in r.flight.startSeq..r.flight.endSeq /\ x.id.record = c}}

\* An acknowledgement is earned: the base is what the server held at that revision,
\* and every acknowledged edit was carried by an operation the server has recorded,
\* whose document has the row of that edit or of a later one.
AckIsEarned ==
    \A b \in disk.base :
        /\ b.revision \in 1..Revision /\ b.state = server.versions[b.revision].doc
        /\ \A n \in 1..b.ackSeq : \E r \in requests :
              /\ Replayed(r)
              /\ EditAt(n) \in Carried(r, EditAt(n).record)
              /\ \E e \in Carried(r, EditAt(n).record) :
                    e.n >= EditAt(n).n /\ r.flight.snapshot[e.record] = Value(e)

\* The first edit on c that r carries.
FirstEdit(r, c) == {e \in Carried(r, c) : \A x \in Carried(r, c) : e.n <= x.n}

\* Another computer's change is never overwritten by an edit whose user did not see
\* it, not even by one made between a commit and its publication, unless the user
\* approved it - or the page died in that very gap: then the checkpoint is durable
\* and the control that would fence the edit is not.
NoSilentOverwrite ==
    \A i \in DOMAIN server.versions : \A r \in server.versions[i].by : \A c \in Records :
        server.versions[i].doc[c] # server.versions[i - 1].doc[c] =>
            \E e \in FirstEdit(r, c) :
                \/ e.over = server.versions[i - 1].doc[c]
                \/ e.n \in history.approved \cup history.torn

\* No answer can settle the flight: the server recorded it as a no-op at a revision
\* the device does not believe.
Wedged ==
    \E r \in requests :
        r.flight \in disk.flight /\ Replayed(r) /\ ~Believed(r, server.operations)

\* When edits stop, the screen ends as the server's document, unless the user has
\* to decide, the flight is wedged or the journal cannot be replayed.
Converges == <>[](InConflict \/ Wedged \/ ~Recovered.ok \/ view = Document)

\* Every step of the device is a transaction of the IndexedDB layer, or none, with
\* the documents left out.
Shape ==
    [disk EXCEPT !.cp.state = "document",
                 !.journal = {[seq |-> op.seq, id |-> op.id.n] : op \in @},
                 !.base = {[b EXCEPT !.state = "document"] : b \in @},
                 !.flight = {[f EXCEPT !.snapshot = "document"] : f \in @}]

Store == INSTANCE JournalStore WITH
            head <- Shape, Epochs <- {Epoch}, Writers <- {Device},
            States <- {"document"}, OpIds <- 1..MaxEdits,
            FlightIds <- (1..(MaxEdits + MaxRemote + 1)) \X (1..MaxEdits),
            ConflictKinds <- {"entity-conflict", "concurrent-ack", "concurrent-rebase",
                              "concurrent-hydration"},
            MaxSeq <- MaxEdits, MaxRevision <- MaxEdits + MaxRemote + 1

\* The device starts from a head its first hydration installed.
StoreSpec == Store!TypeOK /\ [][Shape' = Shape \/ Store!Next]_disk
=============================================================================
