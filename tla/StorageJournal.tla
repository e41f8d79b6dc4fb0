----------------------------- MODULE StorageJournal -----------------------------
(***************************************************************************)
(* The journal engine of one owner on one device (storage-journal.js) and  *)
(* the runtime around it (storage-v2-runtime.js): typed edits written to   *)
(* the synchronous emergency log in localStorage and then to IndexedDB by  *)
(* a queue, epoch transitions (a restore replaces the whole state under a  *)
(* new epoch) while edits keep arriving, idle compaction, recovery, and    *)
(* what a page that disappears leaves behind.                              *)
(*                                                                         *)
(* The page is the one that holds the tab lock; a new page load takes a    *)
(* new writer token.  A page that disappears may leave transactions it had *)
(* already issued, which the browser completes or drops at any later time. *)
(* The database refuses or aborts transactions at most MaxAborts times.    *)
(*                                                                         *)
(* An edit is its number: the state of a checkpoint is the set of edits it *)
(* contains, and a restore starts from the empty set.  The cloud records   *)
(* stay empty here; ChecksSync is about them.                              *)
(***************************************************************************)
EXTENDS JournalHead, FiniteSets, FiniteSetsExt, Sequences

CONSTANTS
    MaxEdits,       \* bound on the edits a user makes
    MaxLoads,       \* bound on page loads
    MaxRecoveries,  \* bound on recover() calls of a loaded page
    MaxEpochs,      \* bound on journal epochs, provisioning included
    MaxAborts,      \* bound on aborted IndexedDB transactions
    MaxEmergency    \* maxEmergencyEntries: the entries one page may have in the log

ASSUME BoundsAssumption ==
    {MaxEdits, MaxLoads, MaxRecoveries, MaxEpochs, MaxAborts, MaxEmergency} \subseteq Nat

VARIABLES
    disk,       \* the head in IndexedDB
    emergency,  \* the emergency log: records [epoch, seq, id]
    page,       \* the journal instance and runtime of the page holding the lock
    orphans,    \* transactions issued by pages that are gone
    edits,      \* history: the edits accepted, [id, epoch, durable]
    epochs,     \* epochs drawn so far
    loads,      \* page loads so far, also the writer token of the last one
    aborts      \* aborted transactions so far

vars == <<disk, emergency, page, orphans, edits, epochs, loads, aborts>>

-----------------------------------------------------------------------------
(* Records. *)

Ids == 1..MaxEdits

EpochIds == 1..MaxEpochs

ASSUME NoneAssumption == NoEpoch \notin EpochIds /\ NoWriter \notin 1..MaxLoads

\* phase: where the page is in open(); "stopped" after an open that failed on a
\* transient error, "broken" after one that found invalid data (the runtime then
\* refuses the identity until the page is reloaded).
Phases == {"none", "load", "claim", "reload", "drain", "ready", "stopped", "broken"}

NoPage ==
    [phase |-> "none", epoch |-> NoEpoch, seq |-> 0, failed |-> FALSE,
     transition |-> {}, queue |-> <<>>, pending |-> {}, drain |-> {},
     compaction |-> {}, undurable |-> 0, failure |-> {}, recoveries |-> 0]

\* Jobs of the queue.  An append carries its record, the old-epoch copy when it
\* was made during a transition, and whether both copies reached the log.
AppendJob(rec, fallback, durable, observed) ==
    [kind |-> "append", rec |-> rec, fallback |-> fallback, durable |-> durable,
     observed |-> observed, committed |-> FALSE]

ResetJob(epoch) == [kind |-> "reset", epoch |-> epoch, committed |-> FALSE]

OpOf(rec) == [seq |-> rec.seq, id |-> rec.id]

Key(rec) == [epoch |-> rec.epoch, seq |-> rec.seq]

\* readyForCurrentOwner: open() returned, nothing failed since.
Writable == page.phase = "ready" /\ ~page.failed

-----------------------------------------------------------------------------
(* Replay (recover and replayStorageJournal).  Emergency records of the     *)
(* checkpoint's epoch are replayed with the journal; those of another epoch *)
(* are ignored.                                                             *)

Applicable(h) == {rec \in emergency : rec.epoch = h.epoch}

ReplayOps(h) == h.journal \cup {OpOf(rec) : rec \in Applicable(h)}

Replayed(h) == {op \in ReplayOps(h) : op.seq > h.cp.seq}

RecoveredSeq(h) == h.cp.seq + Cardinality(Replayed(h))

RecoveredState(h) == h.cp.state \cup {op.id : op \in Replayed(h)}

\* No two records for one sequence, no operation twice, no gap, and nothing
\* committed is missing.
Recoverable(h) ==
    /\ \A op1, op2 \in ReplayOps(h) : op1.seq = op2.seq => op1 = op2
    /\ \A op1, op2 \in Replayed(h) : op1.id = op2.id => op1 = op2
    /\ {op.seq : op \in Replayed(h)} = (h.cp.seq + 1)..RecoveredSeq(h)
    /\ RecoveredSeq(h) >= h.seq

-----------------------------------------------------------------------------
(* The emergency log. *)

\* writeEmergency refuses when the page already has MaxEmergency entries in the
\* log or the key holds something else.  Result: the log, the page's keys, and
\* whether the record is in it.
WriteEmergency(log, keys, rec) ==
    IF \/ Cardinality(keys) >= MaxEmergency
       \/ \E old \in log : Key(old) = Key(rec) /\ old # rec
    THEN [log |-> log, keys |-> keys, ok |-> FALSE]
    ELSE [log |-> log \cup {rec}, keys |-> keys \cup {Key(rec)}, ok |-> TRUE]

-----------------------------------------------------------------------------
Init ==
    /\ disk = EmptyHead
    /\ emergency = {}
    /\ page = NoPage
    /\ orphans = {}
    /\ edits = {}
    /\ epochs = 0 /\ loads = 0 /\ aborts = 0

\* A page takes the tab lock and calls open().
Load ==
    /\ page.phase = "none"
    /\ loads < MaxLoads
    /\ loads' = loads + 1
    /\ page' = [NoPage EXCEPT !.phase = "load"]
    /\ UNCHANGED <<disk, emergency, orphans, edits, epochs, aborts>>

\* recover() on a loaded page: a backup, a boundary or a new admission opens the
\* same journal again, after the pending commits settled (its callers wait for a
\* transition to end, so none is in progress).
Recover ==
    /\ page.phase \in {"ready", "stopped"}
    /\ page.queue = <<>>
    /\ page.recoveries < MaxRecoveries
    /\ page' = [page EXCEPT !.phase = "load", !.recoveries = @ + 1]
    /\ UNCHANGED <<disk, emergency, orphans, edits, epochs, loads, aborts>>

\* open(): the first recover().
OpenLoad ==
    /\ page.phase = "load"
    /\ disk.epoch # NoEpoch
    /\ page' = IF Recoverable(disk)
               THEN [page EXCEPT !.phase = "claim", !.epoch = disk.epoch]
               ELSE [page EXCEPT !.phase = "broken"]
    /\ UNCHANGED <<disk, emergency, orphans, edits, epochs, loads, aborts>>

\* Mutant of OpenClaim: a refused claim is tried again and again.
OpenClaimRetrying ==
    /\ page.phase = "claim"
    /\ ClaimOk(disk, page.epoch)
    /\ disk' = Claim(disk, loads)
    /\ page' = [page EXCEPT !.phase = "reload"]
    /\ UNCHANGED <<emergency, orphans, edits, epochs, loads, aborts>>

\* open(): the claim that fences every earlier writer.
OpenClaim ==
    /\ page.phase = "claim"
    /\ IF ClaimOk(disk, page.epoch)
       THEN /\ disk' = Claim(disk, loads)
            /\ page' = [page EXCEPT !.phase = "reload"]
       ELSE /\ page' = [page EXCEPT !.phase = "stopped"]
            /\ UNCHANGED disk
    /\ UNCHANGED <<emergency, orphans, edits, epochs, loads, aborts>>

\* open(): the second recover(), behind the fence, sets the writer's position;
\* verifiedRecovery drops a recorded failure that its sequence has passed.
OpenReload ==
    /\ page.phase = "reload"
    /\ page' = IF Recoverable(disk)
               THEN [page EXCEPT !.phase = "drain", !.epoch = disk.epoch,
                                 !.seq = RecoveredSeq(disk), !.failed = FALSE,
                                 !.drain = Applicable(disk)]
               ELSE [page EXCEPT !.phase = "broken"]
    /\ UNCHANGED <<disk, emergency, orphans, edits, epochs, loads, aborts>>

\* open(): the recovered emergency records commit in order; an entry is removed
\* only when the database has its operation.
OpenDrain ==
    /\ page.phase = "drain" /\ page.drain # {}
    /\ LET rec == CHOOSE r \in page.drain : \A s \in page.drain : r.seq <= s.seq
       IN  \/ /\ rec.seq > disk.seq
              /\ AppendOk(disk, page.epoch, loads, OpOf(rec))
              /\ disk' = AppendOp(disk, OpOf(rec))
              /\ UNCHANGED <<emergency, page>>
           \/ /\ rec.seq <= disk.seq
              /\ emergency' = emergency \ {rec}
              /\ page' = [page EXCEPT !.drain = @ \ {rec}, !.pending = @ \ {Key(rec)}]
              /\ UNCHANGED disk
    /\ UNCHANGED <<orphans, edits, epochs, loads, aborts>>

\* open(): one of those appends aborts and open() throws; the runtime is not
\* authoritative until recover() is called again.
OpenDrainAbort ==
    /\ page.phase = "drain" /\ page.drain # {}
    /\ \E rec \in page.drain : rec.seq > disk.seq
    /\ aborts < MaxAborts
    /\ aborts' = aborts + 1
    /\ page' = [page EXCEPT !.phase = "stopped", !.drain = {}]
    /\ UNCHANGED <<disk, emergency, orphans, edits, epochs, loads>>

\* open(): entries of other epochs are retired and the runtime is authoritative.
OpenDone ==
    /\ page.phase = "drain" /\ page.drain = {}
    /\ emergency' = {rec \in emergency : rec.epoch = page.epoch}
    /\ page' = [page EXCEPT !.phase = "ready",
                   !.pending = {k \in @ : k.epoch = page.epoch},
                   !.failure = {f \in @ : f.epoch # page.epoch \/ f.seq > page.seq}]
    /\ UNCHANGED <<disk, orphans, edits, epochs, loads, aborts>>

\* The owner has nothing stored: recover() returned null and the first install
\* creates its epoch.
Provision ==
    /\ page.phase = "load"
    /\ InstallOk(disk, NoEpoch)
    /\ epochs < MaxEpochs
    /\ epochs' = epochs + 1
    /\ disk' = Install(epochs + 1, loads, {})
    /\ page' = [page EXCEPT !.phase = "ready", !.epoch = epochs + 1]
    /\ UNCHANGED <<emergency, orphans, edits, loads, aborts>>

-----------------------------------------------------------------------------
(* Edits. *)

\* persist and append.  During a transition either epoch may be authoritative
\* after a crash, so the same edit goes to both namespaces of the log; only both
\* copies make it durable.
Edit ==
    /\ Writable
    /\ Cardinality(edits) < MaxEdits
    /\ LET id     == Cardinality(edits) + 1
           moving == page.transition # {}
           t      == CHOOSE x \in page.transition : TRUE
           rec    == IF moving THEN [epoch |-> t.epoch, seq |-> t.seq + 1, id |-> id]
                     ELSE [epoch |-> page.epoch, seq |-> page.seq + 1, id |-> id]
           old    == [epoch |-> t.fallbackEpoch, seq |-> t.fallbackSeq + 1, id |-> id]
           first  == IF moving THEN WriteEmergency(emergency, page.pending, old)
                     ELSE [log |-> emergency, keys |-> page.pending, ok |-> TRUE]
           second == WriteEmergency(first.log, first.keys, rec)
           durable == first.ok /\ second.ok
       IN  /\ emergency' = second.log
           /\ edits' = edits \cup {[id |-> id, epoch |-> rec.epoch, durable |-> durable]}
           /\ page' = [page EXCEPT
                 !.pending = second.keys,
                 !.seq = IF moving THEN @ ELSE rec.seq,
                 !.transition = IF moving
                                THEN {[t EXCEPT !.seq = rec.seq, !.fallbackSeq = @ + 1]}
                                ELSE @,
                 !.queue = Append(@, AppendJob(rec, IF moving THEN {old} ELSE {},
                                                durable, page.epoch)),
                 !.undurable = IF durable THEN @ ELSE @ + 1]
    /\ UNCHANGED <<disk, orphans, epochs, loads, aborts>>

\* replaceAuthoritativeState: one transition at a time; its job waits its turn in
\* the queue while edits already go to the new epoch.
Restore ==
    /\ Writable
    /\ page.transition = {}
    /\ epochs < MaxEpochs
    /\ epochs' = epochs + 1
    /\ page' = [page EXCEPT
          !.transition = {[epoch |-> epochs + 1, seq |-> 0,
                           fallbackEpoch |-> page.epoch, fallbackSeq |-> page.seq]},
          !.queue = Append(@, ResetJob(epochs + 1))]
    /\ UNCHANGED <<disk, emergency, orphans, edits, loads, aborts>>

-----------------------------------------------------------------------------
(* The queue.  Its first job is the transaction in progress; a job that      *)
(* throws marks the journal failed and the next one still runs.             *)

Job == Head(page.queue)

JobOk ==
    IF Job.kind = "append"
    THEN AppendOk(disk, Job.rec.epoch, loads, OpOf(Job.rec))
    ELSE ResetStateOk(disk, page.epoch, loads)

JobCommit ==
    /\ page.queue # <<>> /\ ~Job.committed
    /\ JobOk
    /\ disk' = IF Job.kind = "append" THEN AppendOp(disk, OpOf(Job.rec))
               ELSE ResetState(Job.epoch, loads, {})
    /\ page' = [page EXCEPT !.queue[1].committed = TRUE]
    /\ UNCHANGED <<emergency, orphans, edits, epochs, loads, aborts>>

\* The committed append's entries leave the log.
AppendSettled ==
    /\ page.queue # <<>> /\ Job.kind = "append" /\ Job.committed
    /\ LET copies == {Job.rec} \cup Job.fallback
       IN  /\ emergency' = emergency \ copies
           /\ page' = [page EXCEPT !.queue = Tail(@),
                           !.pending = @ \ {Key(rec) : rec \in copies},
                           !.undurable = IF Job.durable THEN @ ELSE @ - 1]
    /\ UNCHANGED <<disk, orphans, edits, epochs, loads, aborts>>

\* Mutant of ResetSettled: the whole log is cleared.
ResetSettledClearing ==
    /\ page.queue # <<>> /\ Job.kind = "reset" /\ Job.committed
    /\ LET t == CHOOSE x \in page.transition : TRUE
       IN  page' = [page EXCEPT !.queue = Tail(@), !.epoch = t.epoch, !.seq = t.seq,
                       !.failed = FALSE, !.transition = {}, !.pending = {}]
    /\ emergency' = {}
    /\ UNCHANGED <<disk, orphans, edits, epochs, loads, aborts>>

\* The new epoch is durable: the page moves to it with the sequence its edits
\* reached meanwhile, and the log keeps that epoch only.
ResetSettled ==
    /\ page.queue # <<>> /\ Job.kind = "reset" /\ Job.committed
    /\ LET t == CHOOSE x \in page.transition : TRUE
       IN  page' = [page EXCEPT !.queue = Tail(@), !.epoch = t.epoch, !.seq = t.seq,
                       !.failed = FALSE, !.transition = {},
                       !.pending = {k \in @ : k.epoch = t.epoch}]
    /\ emergency' = {rec \in emergency : rec.epoch = Job.epoch}
    /\ UNCHANGED <<disk, orphans, edits, epochs, loads, aborts>>

\* Mutant of QueueAfterFailure: an append that failed stays in front.
QueueStuck == IF Job.kind = "append" THEN page.queue ELSE Tail(page.queue)

\* enqueue: the queue goes on behind a job that failed.
QueueAfterFailure == Tail(page.queue)

\* The job throws: refused by the fence or the sequence check, or aborted by the
\* browser.  Its log entries stay.  An edit that was not durable is recorded as
\* a failure of its sequence; a failed reset matters only to edits that were
\* already made for its epoch.
JobFails ==
    /\ page.queue # <<>> /\ ~Job.committed
    /\ \/ ~JobOk /\ UNCHANGED aborts
       \/ aborts < MaxAborts /\ aborts' = aborts + 1
    /\ page' =
          IF Job.kind = "append"
          THEN [page EXCEPT
                  !.queue = QueueAfterFailure, !.failed = TRUE,
                  !.undurable = IF Job.durable THEN @ ELSE @ - 1,
                  !.failure = IF Job.durable THEN @
                              ELSE {[epoch |-> Job.observed,
                                     seq |-> Max({Job.rec.seq} \cup {f.seq : f \in @})]}]
          ELSE [page EXCEPT
                  !.queue = QueueAfterFailure, !.transition = {},
                  !.failed = @ \/ \E t \in page.transition : t.seq > 0]
    /\ UNCHANGED <<disk, emergency, orphans, edits, epochs, loads>>

-----------------------------------------------------------------------------
(* Compaction: idle work outside the queue, in three steps an edit may come  *)
(* between.                                                                 *)

CompactLoad ==
    /\ Writable
    /\ page.queue = <<>> /\ page.compaction = {}
    /\ page' = [page EXCEPT !.compaction = {[step |-> "loaded", head |-> disk]}]
    /\ UNCHANGED <<disk, emergency, orphans, edits, epochs, loads, aborts>>

\* recover() reads the log after the database; a replay that throws ends this
\* compaction.
CompactReplay ==
    /\ \E c \in page.compaction :
          /\ c.step = "loaded"
          /\ page' = [page EXCEPT !.compaction =
                IF Recoverable(c.head)
                THEN {[step |-> "write", epoch |-> c.head.epoch,
                       cp |-> [seq |-> RecoveredSeq(c.head),
                               state |-> RecoveredState(c.head)]]}
                ELSE {}]
    /\ UNCHANGED <<disk, emergency, orphans, edits, epochs, loads, aborts>>

\* Mutant of CompactWrite: the transaction does not look at the head it meets.
CompactWriteUnchecked ==
    /\ \E c \in page.compaction :
          /\ c.step = "write"
          /\ disk' = Compact(disk, c.cp)
          /\ page' = [page EXCEPT !.compaction = {}]
    /\ UNCHANGED <<emergency, orphans, edits, epochs, loads, aborts>>

CompactWrite ==
    /\ \E c \in page.compaction :
          /\ c.step = "write"
          /\ disk' = IF CompactOk(disk, c.epoch, loads, c.cp) THEN Compact(disk, c.cp)
                     ELSE disk
          /\ page' = [page EXCEPT !.compaction = {}]
    /\ UNCHANGED <<emergency, orphans, edits, epochs, loads, aborts>>

-----------------------------------------------------------------------------
(* A page that disappears. *)

\* The transactions the page has issued and not seen complete.
Issued ==
    {[kind |-> "append", epoch |-> Job.rec.epoch, writer |-> loads, op |-> OpOf(Job.rec)]
        : x \in {y \in {page.queue} : y # <<>> /\ Job.kind = "append" /\ ~Job.committed}}
    \cup
    {[kind |-> "reset", epoch |-> page.epoch, writer |-> loads, next |-> Job.epoch]
        : x \in {y \in {page.queue} : y # <<>> /\ Job.kind = "reset" /\ ~Job.committed}}
    \cup
    {[kind |-> "compact", epoch |-> c.epoch, writer |-> loads, cp |-> c.cp]
        : c \in {x \in page.compaction : x.step = "write"}}

\* A crash, a kill of the tab or a navigation.  The page's memory goes; the log
\* and the database stay.
Disappear ==
    /\ page.phase # "none"
    /\ orphans' = orphans \cup Issued
    /\ page' = NoPage
    /\ UNCHANGED <<disk, emergency, edits, epochs, loads, aborts>>

\* The browser completes an orphan, if the fence lets it, or drops it.
OrphanEnds ==
    \E tx \in orphans :
        /\ orphans' = orphans \ {tx}
        /\ \/ UNCHANGED disk
           \/ /\ tx.kind = "append" /\ AppendOk(disk, tx.epoch, tx.writer, tx.op)
              /\ disk' = AppendOp(disk, tx.op)
           \/ /\ tx.kind = "reset" /\ ResetStateOk(disk, tx.epoch, tx.writer)
              /\ disk' = ResetState(tx.next, tx.writer, {})
           \/ /\ tx.kind = "compact" /\ CompactOk(disk, tx.epoch, tx.writer, tx.cp)
              /\ disk' = Compact(disk, tx.cp)
        /\ UNCHANGED <<emergency, page, edits, epochs, loads, aborts>>

-----------------------------------------------------------------------------
Open == OpenLoad \/ OpenClaim \/ OpenReload \/ OpenDrain \/ OpenDone \/ Provision

QueueStep == JobCommit \/ AppendSettled \/ ResetSettled \/ JobFails

Next ==
    \/ Load \/ Recover
    \/ OpenLoad \/ OpenClaim \/ OpenReload \/ OpenDrain \/ OpenDrainAbort \/ OpenDone
    \/ Provision
    \/ Edit \/ Restore
    \/ JobCommit \/ AppendSettled \/ ResetSettled \/ JobFails
    \/ CompactLoad \/ CompactReplay \/ CompactWrite
    \/ Disappear \/ OrphanEnds

Spec == Init /\ [][Next]_vars

\* A page that stays alive runs its promise jobs and open() to their end.
FairSpec == Spec /\ WF_vars(Open) /\ WF_vars(QueueStep)

-----------------------------------------------------------------------------
(* Properties. *)

\* Type invariant.
TypeOK ==
    /\ disk.epoch \in EpochIds \cup {NoEpoch} /\ disk.seq \in 0..MaxEdits
    /\ disk.base = {} /\ disk.flight = {} /\ disk.control = {}
    /\ emergency \subseteq [epoch : EpochIds, seq : 1..MaxEdits, id : Ids]
    /\ page.phase \in Phases
    /\ page.undurable \in 0..MaxEdits
    /\ Cardinality(page.transition) <= 1 /\ Cardinality(page.failure) <= 1
    /\ edits \subseteq [id : Ids, epoch : EpochIds, durable : BOOLEAN]

\* The owner has a head and the edit was not made for a state that a restore has
\* since replaced.
Current(e) == disk.epoch # NoEpoch /\ e.epoch >= disk.epoch

Survives(e) == e.id \in RecoveredState(disk)

\* ARCHITECTURE.txt: local changes are mirrored before acknowledgement and survive
\* a reload.  At every instant - in the middle of a transition, a compaction, an
\* open() or the death of a page - recovery would succeed and contain every edit
\* that was reported emergencyDurable and that no committed restore replaced, and
\* it would replay each edit once, in the order they were made, whichever of its
\* copies (journal, log, fallback log) it is taken from.
DurableEditsRecoverable ==
    disk.epoch # NoEpoch =>
        /\ Recoverable(disk)
        /\ \A op1, op2 \in ReplayOps(disk) : op1.seq < op2.seq <=> op1.id < op2.id
        /\ \A e \in edits : e.durable /\ Current(e) => Survives(e)

\* A page that considers itself the idle writer agrees with the database: a
\* transaction another page left behind cannot have moved the head under it, and
\* nothing is left in the bounded log, which is only a bridge to the database: its
\* entries cannot add up over many sessions or epochs.
IdleWriterInStep ==
    Writable /\ page.queue = <<>> =>
        /\ disk.epoch = page.epoch /\ disk.seq = page.seq /\ disk.writer = loads
        /\ emergency = {} /\ page.pending = {}

\* Every edit's job leaves the queue: a refused append, a failed transition or an
\* aborted transaction never blocks the edits behind it.
QueueDrains ==
    \A id \in Ids :
        (\E i \in DOMAIN page.queue :
            page.queue[i].kind = "append" /\ page.queue[i].rec.id = id)
        ~> (\A i \in DOMAIN page.queue :
            page.queue[i].kind = "append" => page.queue[i].rec.id # id)

\* open() comes to an end, whatever the log holds and wherever a page died.
OpenEnds ==
    page.phase \in {"claim", "reload", "drain"}
        ~> page.phase \in {"ready", "stopped", "broken", "none"}

\* Every step of the engine is one transaction of the IndexedDB layer, or none.
Store == INSTANCE JournalStore WITH
            head <- disk, Epochs <- EpochIds, Writers <- 1..MaxLoads,
            States <- SUBSET Ids, OpIds <- Ids, FlightIds <- {}, ConflictKinds <- {},
            MaxSeq <- MaxEdits, MaxRevision <- 0

StoreSpec == Store!Spec
=============================================================================
