------------------------------ MODULE JournalStore ------------------------------
(***************************************************************************)
(* The IndexedDB layer of one owner, under callers about which nothing is  *)
(* assumed: any page that ever opened the database may issue any           *)
(* transaction, with arguments it computed from any earlier head (a stale  *)
(* checkpoint, an old cursor, the flight of another reload).  This is what *)
(* the transactions of storage-journal-idb.js promise on their own, and    *)
(* the abstract specification StorageJournal and ChecksSync implement.     *)
(***************************************************************************)
EXTENDS JournalHead

CONSTANTS
    Epochs,         \* journal epochs (a fresh UUID per epoch)
    Writers,        \* writer tokens, one per page load
    States,         \* checkpoint, base and flight states
    OpIds,          \* operation ids of journal records
    FlightIds,      \* operation ids of flights
    ConflictKinds,  \* kinds a control's conflict may have
    MaxSeq,         \* bound on sequences
    MaxRevision     \* bound on cloud revisions

ASSUME NoneAssumption ==
    NoEpoch \notin Epochs /\ NoWriter \notin Writers

ASSUME BoundsAssumption == MaxSeq \in Nat /\ MaxRevision \in Nat

VARIABLE head

Seqs == 0..MaxSeq

Revisions == 0..MaxRevision

Checkpoints == [seq : Seqs, state : States]

Operations == [seq : 1..MaxSeq, id : OpIds]

Bases == [revision : Revisions, ackSeq : Seqs, state : States]

Flights == [operationId : FlightIds, baseRevision : Revisions,
            startSeq : 1..MaxSeq, endSeq : 1..MaxSeq, snapshot : States]

Conflicts == [kind : ConflictKinds, remoteRevision : Revisions]

Controls == [retry : BOOLEAN, conflict : Maybe(Conflicts)]

Heads == [epoch : Epochs \cup {NoEpoch}, seq : Seqs, writer : Writers \cup {NoWriter},
          cp : [seq : Seqs, state : States \cup {NoState}],
          journal : SUBSET Operations, base : Maybe(Bases),
          flight : Maybe(Flights), control : Maybe(Controls)]

Init == head = EmptyHead

-----------------------------------------------------------------------------
(* One action per read-write transaction.  e and w are the epoch and the   *)
(* writer token the caller believes are current.                           *)

InstallTx(e, w) ==
    \E next \in Epochs \ {e}, s \in States :
        /\ InstallOk(head, e)
        /\ head' = Install(next, w, s)

InitializeCloudHeadTx(e, w) ==
    \E entry \in Maybe(Operations) :
        /\ InitializeCloudHeadOk(head, entry)
        /\ \E s \in States, b \in Bases :
              /\ b.ackSeq = 0
              /\ head' = InitializeCloudHead(e, w, s, b, entry)

ClaimTx(e, w) ==
    /\ ClaimOk(head, e)
    /\ head' = Claim(head, w)

AppendTx(e, w) ==
    \E op \in Operations :
        /\ AppendOk(head, e, w, op)
        /\ head' = AppendOp(head, op)

CompactTx(e, w) ==
    \E cp \in Checkpoints :
        /\ CompactOk(head, e, w, cp)
        /\ head' = Compact(head, cp)

ReplaceCheckpointTx(e, w) ==
    \E cp \in Checkpoints :
        /\ ReplaceCheckpointOk(head, e, w, cp)
        /\ head' = ReplaceCheckpoint(head, cp)

ReplaceLocalCheckpointTx(e, w) ==
    \E cp \in Checkpoints, expectedSeq \in Seqs :
        /\ ReplaceLocalCheckpointOk(head, e, w, cp, expectedSeq)
        /\ head' = ReplaceLocalCheckpoint(head, cp)

AppendBoundaryTx(e, w) ==
    \E op \in Operations, expectedSeq \in Seqs, expectedRevision \in Revisions :
        /\ AppendBoundaryOk(head, e, w, op, expectedSeq, expectedRevision)
        /\ head' = AppendBoundary(head, op)

BeginFlightTx(e, w) ==
    \E f \in Flights :
        /\ BeginFlightOk(head, e, w, f)
        /\ head' = BeginFlight(head, f)

AcknowledgeTx(e, w) ==
    \E id \in FlightIds, b \in Bases, checkpoint \in Maybe(Checkpoints) :
        /\ AcknowledgeOk(head, e, w, id, b, checkpoint)
        /\ \E control \in Maybe(Controls) :
              head' = Acknowledge(head, b, checkpoint, control)

RejectFlightTx(e, w) ==
    \E id \in FlightIds, b \in Bases, cp \in Checkpoints, expectedSeq \in Seqs :
        /\ RejectFlightOk(head, e, w, id, b, cp, expectedSeq)
        /\ \E control \in Maybe(Controls) :
              head' = RejectFlight(head, b, cp, control)

\* expectedHead is optional in the transaction, so a caller may adopt without.
AdoptCloudHeadTx(e, w) ==
    \E cp \in Checkpoints, b \in Bases :
        /\ AdoptCloudHeadOk(head, e, w, cp, b)
        /\ head' = AdoptCloudHead(head, cp, b)

CommitCloudRecoveryTx(e, w) ==
    \E cp \in Checkpoints, conflictKind \in ConflictKinds \cup {"none"} :
        /\ CommitCloudRecoveryOk(head, e, w, cp, conflictKind)
        /\ head' = CommitCloudRecovery(head, cp)

SetControlTx(e, w) ==
    \E c \in Controls :
        /\ SetControlOk(head, e, w)
        /\ head' = SetControl(head, c)

ClearControlTx(e, w) ==
    /\ FullFence(head, e, w)
    /\ head' = ClearControl(head)

ResetStateTx(e, w) ==
    \E next \in Epochs \ {e}, s \in States :
        /\ ResetStateOk(head, e, w)
        /\ head' = ResetState(next, w, s)

ResetCloudHeadTx(e, w) ==
    \E next \in Epochs \ {e}, s \in States, b \in Bases :
        /\ ResetCloudHeadOk(head, e, w, b)
        /\ head' = ResetCloudHead(next, w, s, b)

\* The transactions behind the fence: each of their guards implies Fenced, so a
\* caller with another epoch or writer token is refused by all of them.
FencedTx(e, w) ==
    \/ AppendTx(e, w)
    \/ CompactTx(e, w)
    \/ ReplaceCheckpointTx(e, w)
    \/ ReplaceLocalCheckpointTx(e, w)
    \/ AppendBoundaryTx(e, w)
    \/ BeginFlightTx(e, w)
    \/ AcknowledgeTx(e, w)
    \/ RejectFlightTx(e, w)
    \/ AdoptCloudHeadTx(e, w)
    \/ CommitCloudRecoveryTx(e, w)
    \/ SetControlTx(e, w)
    \/ ClearControlTx(e, w)
    \/ ResetStateTx(e, w)
    \/ ResetCloudHeadTx(e, w)

Next ==
    \/ \E e \in Epochs \cup {NoEpoch}, w \in Writers : InstallTx(e, w)
    \/ \E e \in Epochs, w \in Writers :
          \/ InitializeCloudHeadTx(e, w)
          \/ ClaimTx(e, w)
          \/ Fenced(head, e, w) /\ FencedTx(e, w)

Spec == Init /\ [][Next]_head

-----------------------------------------------------------------------------
(* Properties. *)

\* Type invariant of the head.
TypeOK == head \in Heads

\* However stale the callers, no accepted transaction leaves a head that the
\* next recover() would refuse: the cloud records agree with each other and
\* with the committed sequence (readStorageCloudHead), the checkpoint has every
\* operation after it (replayStorageJournal's gap check), and the journal keys
\* are unique and not past the committed sequence.
HeadReadable ==
    CloudHeadOk(head) /\ ReplayOk(head) /\ JournalKeysOk(head)

\* Compaction never outruns the cloud: every operation after the acknowledged
\* sequence is still in the journal, so the next flight finds no
\* storage_cloud_journal_gap.
PendingRetained == PendingOk(head)

\* Inside an epoch an operation that the cloud has not acknowledged never
\* leaves the journal and is never replaced by another with its sequence.
UnackedNeverDropped ==
    [][head'.epoch = head.epoch => PendingOps(head) \subseteq head'.journal]_head

\* Inside an epoch the cloud cursor never moves back: neither the revision nor
\* the acknowledged sequence, and a known base is never forgotten.
CursorMonotonic ==
    [][head'.epoch = head.epoch =>
          \A b \in head.base : \E c \in head'.base :
             c.revision >= b.revision /\ c.ackSeq >= b.ackSeq]_head

\* A flight is immutable until the cloud answered it.  Inside an epoch it goes
\* away in two ways only: acknowledged, which moves the cursor exactly to its
\* last operation, or rejected, which keeps the cursor and takes a newer
\* revision - so operations are neither skipped nor counted twice.
FlightSettledOnce ==
    [][head'.epoch = head.epoch =>
          \A f \in head.flight :
             \/ f \in head'.flight
             \/ /\ head'.flight = {}
                /\ \E b \in head.base, c \in head'.base :
                      \/ c.ackSeq = f.endSeq
                      \/ c.ackSeq = b.ackSeq /\ c.revision > b.revision]_head
=============================================================================
