------------------------------- MODULE JournalHead -------------------------------
(***************************************************************************)
(* The durable head of one storage owner and the IndexedDB transactions    *)
(* that change it (storage-journal-idb.js with the decisions it imports    *)
(* from storage-journal-authority.js and storage-cloud-*.js).              *)
(*                                                                         *)
(* A head is the content of six object stores for one owner:               *)
(*   epoch, seq, writer   metadata: the fence and the last committed       *)
(*                        sequence                                         *)
(*   cp                   checkpoints: a state and the sequence it is at   *)
(*   journal              journal: the operations kept, each with its seq  *)
(*   base                 bases: the last cloud revision this device knows *)
(*                        and the sequence acknowledged at it, or nothing  *)
(*   flight               flights: the upload in progress, or nothing      *)
(*   control              controls: a retry or a conflict, or nothing      *)
(* An optional record is a set with at most one element, so that an absent *)
(* record needs no invented value.                                         *)
(*                                                                         *)
(* Every transaction X has a guard XOk, false exactly where the code       *)
(* throws and so changes nothing, and an effect X.  The module has no      *)
(* variable: JournalStore, StorageJournal and ChecksSync keep the heads.   *)
(*                                                                         *)
(* Abstracted: checksums (a record is what it says), owners (one owner per *)
(* head), generations, surfaces and audit fields, and the epoch stored in  *)
(* each record, which every writer takes from the same transaction as the  *)
(* metadata's epoch.                                                       *)
(***************************************************************************)
EXTENDS Integers

CONSTANTS
    NoEpoch,    \* metadata is absent: the owner was never initialized
    NoWriter,
    NoState

Min2(m, n) == IF m <= n THEN m ELSE n

\* The records an optional field may hold.
Maybe(S) == {{}} \cup {{x} : x \in S}

EmptyHead ==
    [epoch |-> NoEpoch, seq |-> 0, writer |-> NoWriter,
     cp |-> [seq |-> 0, state |-> NoState],
     journal |-> {}, base |-> {}, flight |-> {}, control |-> {}]

\* What a new epoch starts from: a checkpoint at zero and nothing else, except
\* the cloud base the transaction brings with it.
FreshHead(e, w, state, base) ==
    [epoch |-> e, seq |-> 0, writer |-> w,
     cp |-> [seq |-> 0, state |-> state],
     journal |-> {}, base |-> base, flight |-> {}, control |-> {}]

-----------------------------------------------------------------------------
(* Reading a head. *)

\* readStorageCloudHead: what every reader and every full transaction demands
\* of the cloud records before it looks at anything else.
CloudHeadOk(h) ==
    /\ \A b \in h.base : b.ackSeq <= h.seq
    /\ \A f \in h.flight :
          /\ f.startSeq <= f.endSeq /\ f.endSeq <= h.seq
          /\ \E b \in h.base :
                f.baseRevision = b.revision /\ f.startSeq = b.ackSeq + 1

\* The operations recover() replays over the checkpoint have no gap, and the
\* last one is the committed sequence.
ReplayOk(h) ==
    /\ h.cp.seq <= h.seq
    /\ \A n \in (h.cp.seq + 1)..h.seq : \E op \in h.journal : op.seq = n

\* cloudSnapshot and materializeFlight walk every sequence after the cursor.
PendingOk(h) ==
    \A b \in h.base : \A n \in (b.ackSeq + 1)..h.seq :
        \E op \in h.journal : op.seq = n

\* The journal is keyed by sequence and holds nothing past the committed one.
JournalKeysOk(h) ==
    /\ \A op \in h.journal : op.seq \in 1..h.seq
    /\ \A op1, op2 \in h.journal : op1.seq = op2.seq => op1 = op2

Pending(h) == \E b \in h.base : h.seq > b.ackSeq

PendingOps(h) == {op \in h.journal : \E b \in h.base : op.seq > b.ackSeq}

-----------------------------------------------------------------------------
(* The fence.  append checks the metadata alone; every other transaction   *)
(* also validates the cloud records it read.                               *)

\* Mutant of Fenced: the writer token is not compared.
FencedByEpoch(h, e, w) == h.epoch = e

Fenced(h, e, w) == h.epoch = e /\ h.writer = w

FullFence(h, e, w) == Fenced(h, e, w) /\ CloudHeadOk(h)

-----------------------------------------------------------------------------
(* Transactions that start an epoch. *)

InstallOk(h, expectedEpoch) == h.epoch = expectedEpoch /\ h.flight = {}

Install(e, w, state) == FreshHead(e, w, state, {})

\* Create-only: it never erases an earlier owner's work.
InitializeCloudHeadOk(h, entry) ==
    h = EmptyHead /\ \A op \in entry : op.seq = 1

InitializeCloudHead(e, w, state, base, entry) ==
    [FreshHead(e, w, state, {base})
        EXCEPT !.journal = entry, !.seq = IF entry = {} THEN 0 ELSE 1]

ResetStateOk(h, e, w) == FullFence(h, e, w)

ResetState(next, w, state) == FreshHead(next, w, state, {})

ResetCloudHeadOk(h, e, w, base) == FullFence(h, e, w) /\ base.ackSeq = 0

ResetCloudHead(next, w, state, base) == FreshHead(next, w, state, {base})

-----------------------------------------------------------------------------
(* Transactions of the journal. *)

ClaimOk(h, e) == h.epoch = e /\ CloudHeadOk(h)

Claim(h, w) == [h EXCEPT !.writer = w]

\* A retry of the same record succeeds and changes nothing; another record at
\* the same key, or a sequence out of turn, is refused.
AppendOk(h, e, w, op) ==
    /\ Fenced(h, e, w)
    /\ \/ op \in h.journal
       \/ /\ \A old \in h.journal : old.seq # op.seq
          /\ op.seq = h.seq + 1

\* Mutant of AppendOp: a retry of a stored record counts again.
AppendCountingRetries(h, op) == [h EXCEPT !.journal = @ \cup {op}, !.seq = @ + 1]

AppendOp(h, op) ==
    IF op \in h.journal THEN h
    ELSE [h EXCEPT !.journal = @ \cup {op}, !.seq = op.seq]

\* Mutant of CompactedThrough: the cloud cursor is not consulted.
CompactedToCheckpoint(h, cp) == cp.seq

\* storageJournalCompactionThrough: operations after the cloud cursor stay.
CompactedThrough(h, cp) ==
    IF h.base = {} THEN cp.seq
    ELSE CHOOSE n \in {Min2(cp.seq, b.ackSeq) : b \in h.base} : TRUE

\* Mutant of CompactOk: a checkpoint past the committed sequence is accepted.
CompactOkAhead(h, e, w, cp) == FullFence(h, e, w) /\ h.cp.seq <= cp.seq

CompactOk(h, e, w, cp) ==
    /\ FullFence(h, e, w)
    /\ h.cp.seq <= cp.seq
    /\ cp.seq <= h.seq

Compact(h, cp) ==
    [h EXCEPT !.cp = cp,
              !.journal = {op \in @ : op.seq > CompactedThrough(h, cp)}]

ReplaceCheckpointOk(h, e, w, cp) == FullFence(h, e, w) /\ cp.seq = h.seq

ReplaceCheckpoint(h, cp) == [h EXCEPT !.cp = cp]

\* Mutant of ReplaceLocalCheckpointOk: a head with a cloud base is accepted.
ReplaceLocalCheckpointOkAnyHead(h, e, w, cp, expectedSeq) ==
    FullFence(h, e, w) /\ h.seq = expectedSeq /\ cp.seq = expectedSeq

ReplaceLocalCheckpointOk(h, e, w, cp, expectedSeq) ==
    /\ FullFence(h, e, w)
    /\ h.seq = expectedSeq /\ cp.seq = expectedSeq
    /\ h.base = {} /\ h.flight = {} /\ h.control = {}

ReplaceLocalCheckpoint(h, cp) == [h EXCEPT !.cp = cp, !.journal = {}]

\* An import or a normalization over an acknowledged head enters as one more
\* operation, behind the cursor it was computed from.
AppendBoundaryOk(h, e, w, op, expectedSeq, expectedRevision) ==
    /\ FullFence(h, e, w)
    /\ \E b \in h.base : b.revision = expectedRevision /\ b.ackSeq = expectedSeq
    /\ h.seq = expectedSeq /\ op.seq = expectedSeq + 1
    /\ h.flight = {} /\ h.control = {}

AppendBoundary(h, op) == [h EXCEPT !.journal = @ \cup {op}, !.seq = op.seq]

-----------------------------------------------------------------------------
(* Transactions of the cloud cursor. *)

BeginFlightOk(h, e, w, f) ==
    /\ FullFence(h, e, w)
    /\ f.startSeq <= f.endSeq /\ f.endSeq <= h.seq
    /\ \E b \in h.base : f.baseRevision = b.revision /\ f.startSeq = b.ackSeq + 1
    /\ h.flight \subseteq {f}

BeginFlight(h, f) == [h EXCEPT !.flight = {f}]

\* Mutant of AcknowledgeOk: any sequence up to the head is acknowledged.
AcknowledgeOkUpToHead(h, e, w, id, base, checkpoint) ==
    /\ FullFence(h, e, w)
    /\ \E f \in h.flight : f.operationId = id /\ base.revision >= f.baseRevision
    /\ base.ackSeq <= h.seq
    /\ \A cp \in checkpoint : cp.seq = h.seq

\* checkpoint and control are optional: a cursor-only ACK brings neither.
AcknowledgeOk(h, e, w, id, base, checkpoint) ==
    /\ FullFence(h, e, w)
    /\ \E f \in h.flight :
          /\ f.operationId = id
          /\ base.revision >= f.baseRevision
          /\ base.ackSeq = f.endSeq
    /\ \A cp \in checkpoint : cp.seq = h.seq

Acknowledge(h, base, checkpoint, control) ==
    [h EXCEPT !.base = {base}, !.flight = {}, !.control = control,
              !.cp = IF checkpoint = {} THEN @ ELSE CHOOSE cp \in checkpoint : TRUE]

RejectFlightOk(h, e, w, id, base, cp, expectedSeq) ==
    /\ FullFence(h, e, w)
    /\ \E f \in h.flight : f.operationId = id /\ base.revision > f.baseRevision
    /\ \E b \in h.base : base.ackSeq = b.ackSeq
    /\ h.seq = expectedSeq /\ cp.seq = expectedSeq

RejectFlight(h, base, cp, control) ==
    [h EXCEPT !.base = {base}, !.flight = {}, !.cp = cp, !.control = control]

\* Mutant of AdoptCloudHeadOk: an older revision is adopted.
AdoptCloudHeadOkOlder(h, e, w, cp, base) ==
    /\ FullFence(h, e, w) /\ h.flight = {}
    /\ \A c \in h.control : c.conflict = {}
    /\ \E b \in h.base : b.ackSeq = h.seq
    /\ cp.seq = h.seq /\ base.ackSeq = h.seq

\* The transaction also compares the head with the one its caller captured
\* (expectedHead); callers here capture and commit in one step.
AdoptCloudHeadOk(h, e, w, cp, base) ==
    /\ FullFence(h, e, w)
    /\ h.flight = {}
    /\ \A c \in h.control : c.conflict = {}
    /\ \E b \in h.base : b.ackSeq = h.seq /\ base.revision >= b.revision
    /\ cp.seq = h.seq /\ base.ackSeq = h.seq

AdoptCloudHead(h, cp, base) ==
    [h EXCEPT !.cp = cp, !.base = {base}, !.control = {}]

\* assertCloudRecoveryHead: a retry control or a flight blocks the recovery,
\* and so does a conflict other than the one it was asked to settle.
CommitCloudRecoveryOk(h, e, w, cp, conflictKind) ==
    /\ FullFence(h, e, w)
    /\ h.base # {} /\ h.flight = {}
    /\ \A c \in h.control : ~c.retry
    /\ IF conflictKind = "none"
       THEN h.control = {}
       ELSE /\ conflictKind = "concurrent-ack"
            /\ \E c \in h.control, b \in h.base : \E k \in c.conflict :
                  k.kind = conflictKind /\ k.remoteRevision = b.revision
    /\ cp.seq = h.seq

CommitCloudRecovery(h, cp) == [h EXCEPT !.cp = cp, !.control = {}]

SetControlOk(h, e, w) == FullFence(h, e, w)

SetControl(h, c) == [h EXCEPT !.control = {c}]

ClearControl(h) == [h EXCEPT !.control = {}]
=============================================================================
