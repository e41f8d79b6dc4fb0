# Netunim: the storage and synchronization protocols in TLA+

Netunim is a suite of browser applications (orders, kupa) that work offline on
one account's documents, keep them durable in the browser and synchronize them
with a Supabase database. This directory holds TLA+ modules of the protocols on
which everything else stands: the storage journal, the synchronization of the
Shared Checks and of the main document over it, the lock that lets one tab write,
the lease around bank refreshes, the restores and imports that replace both
documents, and the transfer of a device's data to an account. Paths below are
relative to the repository root `src/`; `shared/` is copied into each application
when the sites are built, so only the originals are named.

## 1. Inventory

| Component | State it keeps | Operations | What makes it correct |
| --- | --- | --- | --- |
| **IndexedDB layer** `shared/storage-journal-idb.js`, decisions in `storage-journal-authority.js`, `storage-cloud-{records,ack,recovery}.js` | per owner: metadata (epoch, sequence, writer token), checkpoint, journal, cloud base, flight, control | one read-write transaction each: install, initializeCloudHead, claim, append, compact, replaceCheckpoint, replaceLocalCheckpoint, appendBoundary, beginFlight, acknowledge, rejectFlight, adoptCloudHead, commitCloudRecovery, set/clearControl, resetState, resetCloudHead, setBase | whatever a stale caller asks, the head stays recoverable; nothing unacknowledged is dropped; the cursor only advances |
| **Journal engine** `shared/storage-journal.js`, `storage-journal-model.js`, **runtime** `storage-v2-runtime.js` | emergency log in localStorage; in memory: epoch, sequence, queue, transition, pending log entries, durability risk | open, recover, install, append, compact, replaceAuthoritativeState, cloud operations | an edit reported durable survives any crash; order is kept; a loss is announced; the queue never blocks |
| **Shared Checks** `shared/shared-checks-v2-runtime.js`, `shared-checks-storage-v2.js`, merge in `netunim-orders/site/assets/js/sync/{checks-merge,merge-records}.js` | screen document, journal head, synchronization round | persist, sync (flight, RPC, integrate, adopt), publish, recover | no lost update, no implicit deletion, no edit sent twice or never, screens converge |
| **Server procedure** `supabase/migrations/20260906200304_production_schema_baseline.sql` (`save_shared_checks_document*`, delete guard) | document with revision, backups, ledger of operation ids | save | compare-and-swap, idempotent retries |
| **Main document flow** `.../sync/{save-operation,write-flight,ack-publication,polling,remote-adoption,document,merge}.js`, `shared/cloud-post-ack-recovery.js` | the same head for the orders document, the screen, the round | save round, rebase, publication and its repair, poll, adopt, fence and approve | an edit that gets ahead of a publication is neither lost nor laid over rows nobody saw |
| **Tab lock** `shared/tab-lock.js`, `browser-tab-lock-platform.js` | Web Lock, or a lease in localStorage | acquire, settle, heartbeat, elect, dispose | one writer page; a lone page writes |
| **Finance leases** `finance-lease-*.js`, `finance-fence.js`, `bank-refresh.js`, `bank-snapshot-publication.js`, `claim_/release_/assert_finance_sync_*` in SQL | server row (token, expiry, epoch); owner and heartbeat of each job | claim, renew, fenced write, close, release | refreshes do not interleave; no lease is left behind |
| **Boundaries, restore, import** `storage-v2-boundary.js`, `storage-v2-{restore,local-import}.js`, `restore-server-recovery.js`, `restore-groups.js` | a durable record with a phase, the boundary id in both journals, the durable id of a server restore | run, resume, stage, complete | both documents are replaced or none, across crashes |
| **Owner binding and handoff** `storage-owner-{binding,idb}.js`, `storage-v2-owner-transfer.js`, `storage-v2-{detached-target,bootstrap}.js` | binding (owner, generation), handoff record, bootstrap plan, the account's journal and marker | hydrate, begin, advance, activate, complete | resumable; the source stays frozen; the account is active only with all the data |
| **Error classification** `cloud-sync.js`, `document-write-ack.js` | retry control | classify, believe | a refusal is no acknowledgement |
| **Flight coordinator** `shared-checks-flight.js` | two promise slots | pull, save | exclusion without deadlock |
| **Spreadsheets** `spreadsheet-sync.js`, `spreadsheet-store.js` | draft, flight, base, conflict | edit, flush, send, pull | no lost draft |
| Bank bridge, bank reconciliation, calculators, views, OAuth clients | | | outside this development (section 8) |

How they interact: an application action changes the document on the screen and
calls `persist`, which appends a typed operation to the journal engine; the
engine writes it to localStorage synchronously and to IndexedDB by a queue. A
synchronization round, started by a timer or an event, builds a flight (a
snapshot, the range of operations it contains and an operation id), stores it,
sends it, and commits the answer as a new base and checkpoint. Only the page that
holds the tab lock writes; the epoch and the writer token in the metadata fence
off every other page in the database itself. The owner binding says whose journal that
is: a handoff freezes it and switches to another. A boundary locks both runtimes while it
replaces their journals. Bank data enter the documents through writes that carry the fence
of the server's lease.

What is hard in it: edits never wait, so every `await` of a round is a place where
edits come in; a page may die anywhere and its transactions may still complete;
requests and replies are lost, repeated and late; three copies of an operation
(queue, log, journal) must agree; two devices change the same rows.
`PROJECT.json` lists the hazards with their lines and the properties that cover
them.

## 2. Modules

| Module | What it is |
| --- | --- |
| `JournalHead` | the head of one owner as a record, and for every transaction `X` its guard `XOk` (false exactly where the code throws) and its effect `X`. No variables: the other modules use it for the heads they keep. |
| `JournalStore` | the IndexedDB layer as a specification: any transaction, any arguments, any caller that has the current or an older epoch and token. The abstract specification of `StorageJournal` and `MainSync`. |
| `MCJournalStore` | its instance for TLC |
| `JournalStoreProofs` | theorems about `JournalStore` for all constants |
| `StorageJournal` | the engine and its runtime on one device |
| `ChecksSync`, `MCChecksSync` | several devices synchronizing Shared Checks with the server procedure, and its instance |
| `MainSync` | one device synchronizing the orders document while other computers save it |
| `TabLock` | the tabs of one browser electing a writer |
| `FinanceLease` | refreshes and manual edits competing for one server lease |
| `PairedReplace` | what a boundary promises: two documents replaced in one step. The abstract specification of `Boundary`. |
| `Boundary` | restores and imports of one page over two journals and the server |
| `OwnerTransfer` | pages of one browser transferring the local data to an account |
| `StorageJournalProofs`, `FinanceLeaseProofs`, `TabLockProofs`, `OwnerTransferProofs` | theorems about these four for all constants |
| `BoundaryProofs` | theorems about `Boundary`, and that it implements `PairedReplace` |
| `ChecksSyncProofs` | theorems about `ChecksSync` for all constants |
| `MainSyncProofs` | theorems about `MainSync`, and that it implements `JournalStore` |

The modules compose in two ways. `JournalHead` is used by `JournalStore`, `StorageJournal`,
`ChecksSync` and `MainSync`, so all of them take the same transactions. And the property
`StoreSpec` of `StorageJournal` and `MainSync` says, with a refinement mapping for the head,
that each of their steps is a step of `JournalStore!Next` or leaves the head alone: a property of the
layer proved for every caller holds for these callers (both are theorems too). `AtomicSpec` does the same for
`Boundary` and `PairedReplace`, as a theorem too. `OwnerTransfer` and `Boundary` keep a journal as little more
than its content, its cursor and its fence, which is what the properties of `JournalStore` justify;
`OwnerTransfer` assumes no two primary pages, which is what `TabLock` examines.

### JournalHead and JournalStore

An optional record is a set of at most one element. A transaction of the code
reads all records of the owner, throws or writes, atomically: one action. `append`
checks the metadata alone; all others also demand `CloudHeadOk`, as `readStorageCloudHead`
does. The caller's epoch `e` and token `w` are arbitrary, hence stale pages, pages
that lost the tab lock and orphan transactions are all covered; the other arguments
(checkpoints, cursors, flights) are arbitrary too, hence computed from any earlier
head.

Abstracted: checksums, owners (one per head), generations, audit fields. A
checkpoint's `state` is opaque here. `setBase` is not an action: it can lower the
cursor, and only tests call it (`captureCloudCursor`, `setCloudBase`). An application that
called it would lose `PendingRetained` and `CursorMonotonic`.

### StorageJournal

| Code | Action |
| --- | --- |
| `open`: recover, claim, recover again, drain, clean | `OpenLoad`, `OpenClaim`, `OpenReload`, `OpenDrain`, `OpenDone` (`OpenDrainAbort`: a drained append aborts) |
| first `install` | `Provision` |
| `append` / `persist`, both copies in a transition | `Edit` |
| `replaceAuthoritativeState`, `enqueueEpochTransition` | `Restore` |
| a job of the queue: its transaction, what follows it, its failure | `JobCommit`, `AppendSettled` or `ResetSettled`, `JobFails` |
| `compact` with its own `recover` | `CompactLoad`, `CompactReplay`, `CompactWrite` |
| `recover` on a loaded page | `Recover` |
| the page goes; its transactions end on their own | `Disappear`, `OrphanEnds` |

An edit is its number and a state is a set of numbers: the properties ask which
edits a recovery contains and in which order. `page.phase` is "stopped" after an
`open` that failed on a transient error and "broken" after one that found invalid data,
which the runtime refuses until a reload. `edits` is a history variable; its field
`durable` says what the user was told.

### ChecksSync

A document is a function from checks to rows, a row is the number of the edit that
wrote it. The actions of a device are those of `shared-checks-v2-runtime.js`: `Edit`
(`persist`), `Commit` (the queue), `Upload` / `ServeAndReply` / `ReadRemote` /
`Timeout` (the round up to the answer), `Integrate`, `CommitAck`, `CommitReject`,
`Retry` (`integrate`), `PublishRead`, `PublishApply` (`publish`), `Poll`, `Adopt` (the
round with nothing to send), `Fail` (the catch of `sync`), `Restart` (`recover`). A round
is split at the awaits after which the code uses what it read before. `Save` is the server
procedure. A request may be processed any number of times, at any later time
(`Serve`): that is a lost reply, a duplicate and a delayed duplicate.

Simplifications, and why they are harmless: a round comes back to "idle" in place of the
loop of attempts, since the next round does what the next attempt does; the bound of 8
on checkpoint attempts is left out (`Retry` may repeat; there are fewer edits than
attempts); `save_busy` is a retry of the same request; the journal of a device is one
log and one database without the engine's failures, which `StorageJournal` is about; one
epoch and one token per device. The merge modelled is that of orders; the one of kupa
treats checks alike. The fields `over` and `early` of an edit are history: the row the
user saw, and whether a commit was waiting for its publication.

### MainSync

| Code | Action |
| --- | --- |
| `persist` and the journal's queue | `Insert`, `Replace`, `Delete`; `Commit` |
| `save-operation.js`: flight and request | `Upload` |
| server, answer, error | `Serve`, `ServeAndReply`, `ReadRemote`, `Timeout`, `Fail` |
| `ack-publication.js`: reading, commit, publication | `Ack`, `CommitAck`, `Publish` |
| `write-flight.js`: rebase, commit, new flight, at most `ConflictAttempts` times | `Rebase`, `CommitRebase`, `Materialize` |
| `cloud-post-ack-recovery.js`: evidence, transaction, publication, fence | `RecoverRead`, `RecoverCommit`, `RecoverPublish`, `FenceOff` |
| `document.js`: the user approves a fenced document | `Approve` |
| `polling.js`, `remote-adoption.js` | `Poll`, `Adopt` |
| reload of the page | `Restart` |

In Shared Checks a publication reads the head again; here the screen is set to the checkpoint
that was computed before the commit, and an edit that came in between makes it stale. So a
candidate carries what is to be shown and what was shown (`cp`, `prev`), and the properties relate
screen, journal and server over several of its steps. The merge is that of `merge-records.js`
with a row as a whole. Other computers appear as `RemoteSave`.

### TabLock

One step is one access to localStorage, since tabs are processes: `ReadLease`, `WriteLease` and
`VerifyLease` of two tabs interleave in every order, while the callbacks of one tab never do. Timers
count in ticks; a tick waits until every tab that is not frozen has done what is due, and `Freeze`
lifts this for one tab (a suspended laptop, a throttled background tab). Storage events and channel
messages are a set of letters. A tab that loses or is refused authority stays read-only until it is
reloaded (`browser-tab-lock-platform.js`): a reload is another member of `Tabs`.

### FinanceLease

The server's `ServeClaim`, `ServeRelease`, `ServeWrite` are the SQL functions, one transaction each;
`Acquire` to `ReleaseAnswered` are the owner, with a heartbeat that renews beside the work. The client
judges its lease by no clock, so `Expire` may come at any time. `GiveUp`, `Resend` and `Lose` are the
transport: a request times out, is repeated while the first copy still waits, or is lost. Manual edits
(`finance-fence.js`) claim again when the lease is busy. `Dispose` and `Retire` close the component
or change the account in the middle.

### Boundary and PairedReplace

`Run` is `boundary.run` and `resume` step by step for every caller: the start of the page and each
import. `RecoverPrimary` to `CompleteServerPending` are the start (`lifecycle.js`,
`restore-server-recovery.js`). Ordinary work (`EditDocument`, `BeginUpload`, `EndUpload`, `Adopt`) goes on
when the gate is open, each in one step with the test of the gate. `Crash` forgets everything but the durable records, `StepFails` is a storage or
network step that throws, `Reload` the user's reload of a page that did not start. The refinement maps
the moment the intent becomes durable to the one step of `PairedReplace`: a side the intent has
not reached counts as replaced.

### OwnerTransfer

The handoff record moves through `freezing-source`, `source-settled`, `target-authenticated`,
`target-recovered`, `target-active`, `complete`; `Capture` to `Activate` are what
`execute()` does in each, the bootstrap group inside the third. A page's copy of the durable pair
(`view`) may be old, an owner transaction (`write`) is sent, served and answered in three steps, and in
between the page may crash or lose the tab lock while the transaction still commits. `epoch` is the
writer token of the local journal: a commit on its way from an older page is refused. `obstructed` is
a history variable: the account's document is not the one the chosen transfer is for.

## 3. What the runs check

| Run | Instance | States | Holds |
| --- | --- | --- | --- |
| `store` | 2 epochs, 2 tokens, 2 operation ids, 2 flight ids, sequences to 3, revisions to 2 | 12 001 | `TypeOK`, `HeadReadable`, `PendingRetained`, `UnackedNeverDropped`, `CursorMonotonic`, `FlightSettledOnce` |
| `engine` | 3 edits, 2 page loads, 1 further recovery, 2 epochs, 1 aborted transaction, room in the log | 152 182 | `DurableEditsRecoverable`, `IdleWriterInStep`, `StoreSpec`; under fairness `QueueDrains`, `OpenEnds` |
| `checks_contended` | 2 devices, 1 check, 3 edits, 1 restart | 1 120 833 | `PendingEditKept`, `BaseIsServerVersion`, `AckedEditsStored`, `EditsAppliedOnce`, `NoLostUpdate`, `ConflictHolds` |
| `checks_live` | 2 devices, 2 checks (one new), 2 edits | 167 715 | `FlightDeletesDeclared`; under fairness `Converges` |
| `main_sync` | 2 records (one new), 2 edits, 2 saves of other computers, 1 restart, 2 conflict attempts | 121 327 | `UnackedEditKept`, `ViewIsDurable`, `AckIsEarned`, `NoSilentOverwrite`, `StoreSpec`; under fairness `Converges` |
| `tab_lock` | 2 loads of the page, Web Locks that may throw, 1 freeze, settle 1 < heartbeat 2 < lease 4 ticks | 55 703 | `OneWriter`; under fairness `TwoWritersEnd`, `LoneTabWrites` |
| `finance_lease` | a refresh and a manual edit, 1 expiry, 1 lost or repeated request, 1 closed component or changed account, 1 renewal | 438 378 | `RefreshesDoNotInterleave`, `NoLeaseLeftBehind`, `NothingAfterRelease`; under fairness `JobsEnd` |
| `boundary` | 1 import, 1 group on the server, 2 edits, 1 save of another device, 2 crashes or failing steps | 412 849 | `PairedWhenEditable`, `IntentApplicable`, `AtomicSpec`; under fairness `BoundaryEnds` |
| `owner_transfer` | 2 pages, 1 local edit, 1 save of another device, 2 crashes, lost locks or failed requests | 387 052 | `SourceFrozen`, `NothingLeftBehind`, `WriterKnowsOwner`; under fairness `TransferEnds` |
| `checks_wedged`, `checks_lost_update`, `restore_stuck` | | | violated: section 4 |

Every module states a type invariant `TypeOK`; that of the layer is checked in `store`, those of the
other proved modules are theorems (the engine has a stronger one, `Typed`), and no run spends itself on them. Between them the runs take every action.

What the properties of the newer modules say:

* `main_sync`. `UnackedEditKept`: no merge, publication, repair or adoption takes the last
  unacknowledged edit of a record from the screen or from what a reload recovers.
  `NoSilentOverwrite`: a row another computer wrote is overwritten only by an edit whose user saw
  it, or that its user approved. `AckIsEarned`: every acknowledged edit was in an operation the
  server recorded. `ViewIsDurable`: between rounds the screen is what a reload would show.
* `tab_lock`. `OneWriter` excludes two settled writers by either mechanism unless a tab was frozen;
  `TwoWritersEnd` bounds the exception; `LoneTabWrites`: a tab that starts alone is not locked out.
* `finance_lease`. `RefreshesDoNotInterleave`: the fenced writes the server took are ordered by
  epoch and an epoch belongs to one job. `NothingAfterRelease`: no write of a job is taken
  after its release. `NoLeaseLeftBehind`: a grant that arrives after the close is released too.
* `boundary`. `PairedWhenEditable`: nobody edits one restored document beside one that is not.
  `IntentApplicable`: what a durable import has still to do cannot be refused. `AtomicSpec`: the refinement.
* `owner_transfer`. `SourceFrozen`: once settled, the source's journal never changes, whatever page
  had accepted an edit. `NothingLeftBehind`: an active account has every durable local edit, in its
  journal and on the server. `WriterKnowsOwner`: a page that admits edits is not wrong about the owner.

Why the bounds are enough for the cases that matter. `store`: a cursor behind a checkpoint
behind the head needs three sequences, a rejection and an acknowledgement two revisions, a
replaced epoch two epochs, a fenced page two tokens. `engine`: an edit before, one during
and one after a transition, which commits or fails (the second epoch); an
orphan of one page meeting the claim of the next; `MaxEmergency` = 6, as three edits have at most
six entries. `checks_contended`: two edits of one device and one of the other on the same row give
every order of conflict, rebase and acknowledgement, with an edit during the round. `checks_live`:
deletion and insertion beside a change of another row. `main_sync`: one edit in the flight and one
after it meet a foreign change in each of the gaps, with a second foreign change during the rebase.
`tab_lock`: a holder and a challenger; the second load is also the reload of the first. `finance_lease`:
two jobs are enough for a takeover by epoch, and a repeated request needs its original. `boundary`: a
crash in the boundary and another in its resumption. `owner_transfer`: a page that dies or is
superseded with a write on its way, and the page after it; two faults, so that a resumption is interrupted too.

`CHECK_DEADLOCK FALSE` where the system may stop at its bounds: the last page load has gone
(`engine`, `tab_lock`), the jobs are over (`finance_lease`), all is synchronized and no edits are left
(`main_sync`, `boundary`, `owner_transfer`).

### Fairness

* Engine: weak fairness of `Open` and of `QueueStep`. Both are promise continuations and
  IndexedDB transactions of a page that stays alive; the browser runs them. Nothing is assumed
  about pages dying, edits, compaction or orphans; a page that dies ends `QueueDrains` and
  `OpenEnds` trivially, as it takes its queue along.
* Shared Checks and the main document: weak fairness of the queue (`Commit`) and of a device's own
  steps (`Progress`): the timer of the composition starts rounds for as long as the page lives. Strong
  fairness of the answers (`Answer` or `ServeAndReply`, `ReadRemote`): of infinitely many requests
  waiting for a reply, some get one. Without it a network that is down for ever would refute everything.
* Tab lock: time passes, a tab that runs does what is due, a frozen tab is thawed (or crashes).
* Finance lease: requests are served (losses are bounded and leave a timeout), the provider's
  work ends, a finished job closes, a manual edit asks again.
* Boundary and owner transfer: a page goes on with what it began, requests are answered, and a person
  whose page cannot edit reloads it, or opens another when none has the lock. Crashes are bounded by
  `MaxFaults` and not fair.

The escapes in liveness properties are named. `Converges` excludes a conflict that waits for
its user, a replay that does not fit, and a `Wedged` flight (a finding for Shared Checks).
`AdoptionEnds` excludes a page opened offline, which skips the groups. `TransferEnds` excludes
`obstructed`: a handoff cannot be cancelled, so a person who chose the wrong intent, or whose
account another device saves in the meantime, finds editing locked at every start.

## 4. Where the code differs from its documents

Each has a run whose counterexample shows it.

1. **A flight that changes nothing** (`checks_wedged`, `shared-checks-v2-runtime.js:169`). A check
   inserted and deleted before the next round: the server accepts without a new revision, the
   device demands one, for ever.
2. **An edit between commit and publication** (`checks_lost_update`, `shared-checks-v2-runtime.js:71`).
   It is made on rows that are already replaced in the database and overwrites the other
   device's row with no conflict. For all other edits `NoLostUpdate` holds (`checks_contended`). The main
   document repairs or fences just this case (`NoSilentOverwrite`).
3. **A restore that keeps the page from starting** (`restore_stuck`, `storage-v2-boundary.js:108`). The
   page dies after the boundary of a restore is complete and before `completeServerPending`; another
   device saves. The next start runs the completed boundary with newer heads, which throws
   `storage_boundary_completed_state_changed`, and so does every online start after it.

### Known limits that no run keeps

A dozen runs is what the project affords. These were seen on variants of the modules here:

* **The emergency log at its limit** (`storage-journal.js:91`; `engine` with `MaxEmergency = 1`). A refused
  edit followed by one that fits leaves a gap in the log. A crash before the middle edit commits makes
  recovery refuse the whole replay, against `ARCHITECTURE.txt:51-52`.
* **A risk cleared by the wrong epoch** (`storage-v2-runtime.js:236`). An edit that is only in the
  queue fails with a transition; its failure is recorded as old epoch with new-epoch sequence, so
  recovery of the old epoch to that number clears it.
* **Deletions declared beyond the base** (`storage-journal.js:248`). A flight of Shared Checks that deletes a
  row and inserts and deletes another declares both; the server wants exactly the removed ones.
* **A crash in the gap of the main document.** The page dies between the commit of a checkpoint and
  the fence: the edit made in the gap is replayed over it (`history.torn` in `NoSilentOverwrite`;
  item 7 of `docs/STORAGE_CLOUD_ACK_CONTRACT.md` promises the fence without such a crash). If its row was removed by another computer, the journal
  cannot be replayed.
* **Two imports at once** (`storage-v2-boundary.js:132`). A second run that fails unlocks the one gate while
  the intent of the first is durable; an edit then makes that intent inapplicable for good. The `boundary`
  run has one import.
* **Tab lock.** Two tabs that claim at the same instant may both end read-only; the late event of a lease
  since removed demotes a lone tab; `dispose` may remove the lease of another tab between its read and its
  removal; a tab whose lock request throws falls back to the lease and coexists with a holder of the Web Lock
  (`docs/PRIMARY_TAB_LOCK_OWNERSHIP.md`). `IdleWriterInStep` and `JournalStore` show what the writer token saves then.
* **Finance lease.** A late renewal of a released token gets a new epoch and a lease nobody holds until it
  expires (`tests/finance_fencing_server.sql` documents the epoch); hence `lost` in `NoLeaseLeftBehind`.
* **Restore groups.** A group staged at a revision that is no longer current, and a device with unsent edits,
  also make an online start fail until the group or the edits are gone.

## 5. What is proved

Eight modules of theorems, checked by TLAPS, for every value of the constants: any sets of epochs,
tokens, tabs, jobs, devices, checks and edits, any bounds. The assumptions are those the modules declare and the code
justifies: bounds are naturals, the names of "nothing" (`NoEpoch`, `NoWriter`, `NoTab`, `NoJob`)
are not names of something, ids that are drawn are different (`IdsAssumption` of `Boundary`), `Manual` is a part of `Jobs`, the records of the main document
are finitely many (`RecordsAssumption`; `Merge3` counts rows), and so are the checks (`ChecksAssumption`; an insertion
goes to a place among the rows), and, for `TabLock`, the three periods are in
the order the platform has them (`TimesAssumption`).

| Module | Theorem | Says |
| --- | --- | --- |
| `JournalStoreProofs` | `HeadAlwaysCorrect` | `HeadInv` always holds |
| | `TypeCorrect`, `HeadReadableCorrect`, `PendingRetainedCorrect` | `TypeOK`, `HeadReadable`, `PendingRetained` always hold |
| | `UnackedNeverDroppedCorrect`, `CursorMonotonicCorrect`, `FlightSettledOnceCorrect` | the three action properties hold of every step |
| `StorageJournalProofs` | `EngineInvariant` | the inductive invariant `IInv` always holds |
| | `IdleWriterAgrees` | `IdleWriterInStep` always holds |
| | `EngineImplementsStore` | `StoreSpec`: the engine implements `JournalStore` |
| | `DurableEditsSurvive` | `DurableEditsRecoverable` always holds while every edit so far was durable |
| | `DurableWithRoom` | with room for twice as many entries as edits, `DurableEditsRecoverable` always holds |
| `FinanceLeaseProofs` | `LeaseTypes`, `WritesInOrder`, `LeaseIsGivenBack` | `TypeOK`, `RefreshesDoNotInterleave`, `NoLeaseLeftBehind` always hold |
| | `ReleaseIsFinal` | `NothingAfterRelease` holds of every step |
| `TabLockProofs` | `LockTypes`, `OneWriterOnly` | `TypeOK`, `OneWriter` always hold |
| `OwnerTransferProofs` | `TransferTypes`, `SourceStaysFrozen`, `NothingIsLeftBehind`, `EditorKnowsOwner` | `TypeOK`, `SourceFrozen`, `NothingLeftBehind`, `WriterKnowsOwner` always hold |
| `BoundaryProofs` | `DocumentsStayPaired`, `ImportStaysApplicable`, `BoundaryIsAtomic` | `PairedWhenEditable`, `IntentApplicable` and `AtomicSpec` hold as long as imports do not overlap |
| | `OneImportIsSafe` | the three hold with no hypothesis when there is one import |
| `ChecksSyncProofs` | `SyncInvariant` | the inductive invariant `IInv` always holds |
| | `EditsLandOnce`, `BasesAreVersions`, `AcksAreEarned`, `DeletesAreDeclared` | `EditsAppliedOnce`, `BaseIsServerVersion`, `AckedEditsStored`, `FlightDeletesDeclared` always hold |
| | `ConflictsWait` | `ConflictHolds` holds of every step |
| | `RowsInvariant` | `RowsInv`, the invariant on where each row is from, always holds |
| | `UnackedEditsSurvive`, `UpdatesAreSeen` | `PendingEditKept`, `NoLostUpdate` always hold |
| `MainSyncProofs` | `DocumentInvariant`, `TypeCorrect` | the inductive invariant `IInv`, and `TypeOK`, always hold |
| | `AcknowledgementsEarned`, `UnackedEditsKept`, `ScreenIsDurable`, `OverwritesSeen` | `AckIsEarned`, `UnackedEditKept`, `ViewIsDurable`, `NoSilentOverwrite` always hold |
| | `DeviceImplementsStore` | `StoreSpec`: the device implements `JournalStore` |

**JournalStore.** The inductive invariant is
`HeadInv == head \in Heads /\ CloudHeadOk /\ ReplayOk /\ PendingOk /\ JournalKeysOk`.
No conjunct is inductive alone. An acknowledgement keeps `PendingOk` only because the flight it
settles starts after the cursor and ends within the head (`CloudHeadOk`); compaction keeps
`ReplayOk` because what it removes lies under the new checkpoint, and `PendingOk` because
`CompactedThrough` is bounded by the cursor; appending keeps both because keys are unique and
committed (`JournalKeysOk`). The proof has one lemma per transaction; the six that rewrite cursor
and checkpoint without touching the journal share `HeadUpdateCorrect`, those that start an epoch
`FreshHeadCorrect`. The action properties use `SameEpochStep` (inside an epoch the transactions
that start one are excluded), `CursorStep` (the three that move the cursor) and `QuietStep` (all
others keep it).

**StorageJournal.** `IInv == Typed /\ Untouched /\ HeadOk /\ Fence /\ Shape /\ Line /\ LogOwned /\ Draining`.
`Typed` bounds every sequence, id and epoch by the history, not by the constants, which is what makes
the bounds of `JournalStore` hold: with `n` edits made no sequence exceeds `n`. Why an idle writer agrees
with the database:

* `Fence`. From the claim on, all orphans carry an older writer token, so no transaction of another page
  passes the fence: the head moves by the page's own jobs only. A reset goes to a later epoch than its own.
* `Shape`. At most the first job is committed; a transition has one reset in the queue, the edits made since
  are exactly the jobs behind it, and they are numbered from 1 in its epoch.
* `Line`. While nothing failed, the jobs before the reset are consecutive sequences that start where
  the database ends and end at the page's sequence. An append that fails breaks the line, but it also makes
  the page read-only until a reload or the reset behind it, which starts a line of its own.
* `LogOwned`. Every entry of the log is that of a job in the queue; hence an empty queue means an empty log.
  Retirement (`OpenDone`, `ResetSettled`) needs that entries of an epoch to come belong to jobs behind its reset.
* `Draining`. What `open` recovered covers all sequences from the database's to the page's, so that when
  the drain is empty the two are equal: this starts `Line`.

The refinement uses the same invariant: a claim, an append, a reset and a compaction, of the page or of an
orphan, are the layer's transactions with arguments in its sets (`SameTransactions` and the lemmas before
it), every other step stutters. So the six properties of the layer hold of every engine.

**Durable edits.** `DurableEditsSurvive` has the hypothesis `AllDurable`: the log had room for every edit
so far. It cannot be dropped, since one edit without room leaves a gap that stops the replay of those
behind it (section 4, known limits); it speaks of the history, not of crashes or schedules, and every
instance in which the log is large enough satisfies it (`DurableWithRoom`, below). On top of `IInv` the proof needs
`Durable`, which says what each place an edit may be in is good for:

* `DiskSound`. In the replay of the head sequences and ids grow together (`Ordered`), the log goes on where
  the journal ends (`Gapless`), what is skipped is in the checkpoint (`Contained`), and no edit of the head's
  epoch or of a later one is missing (`Kept`). A sound head is recoverable (`SoundIsRecoverable`): the replay
  is an interval, so counting its operations gives its last sequence.
* `QueueLogged`. What the queue has yet to commit is in the log, in the order it was made, and during a
  transition twice: the second copies continue the line of the old epoch (`Copies`). So the head the reset
  creates is sound before it exists (`FreshSound`), and the old one stays sound when the reset never comes.
* `Compacting`. A compaction works on an earlier look at head and log. Within the epoch it was taken
  in, the checkpoint covers what it removes (`Covers`), however far the head has moved since.
* `OrphansSound`. A dead page leaves at most one transaction of its queue and one compaction; whichever
  still passes the fence is harmless, in either order.

Every step is one of four moves of the head and the log: the database catches up with its own log (`Grows`), the
log drops what the database has (`Shrinks`), an edit joins both (`Joins`), or a checkpoint takes the place of
operations (`CompactSound`). Each keeps soundness and every `Covers`; the lemmas per action show
which move it is.

`DurableWithRoom` discharges the hypothesis from the constants alone: when `2 * MaxEdits <= MaxEmergency`, as in
`engine`, no edit is ever refused. A page has at most two keys in the log per edit (`Roomy`; only an edit
adds keys, `KeysShrink`), and the key an edit needs is free in the log in either epoch (`PlainKeyFree`,
`MovingKeysFree`), which follows from `Durable` itself: the log ends where the queue does.

**FinanceLease.** `BehindRow`, what was published is behind the row, and of the row's epoch only from the
row's token, carries the order of the writes. The release needs the calls: `CallsMatch` (a call that is heard
has one copy and its job waits for it), `BeatsMatch` (a heartbeat beats only under a grant that is held, and is
joined by the release), `EpochsBehind` (nobody knows an epoch the server has not reached), `FreedInv`
(after a processed release no write of the job passes the fence again) and `LeaseInv` (a job without lost
calls that does not hold the lease does not own the row).

**TabLock.** `LockInv` says that a primary page of the native mechanism holds the Web Lock. For the lease, which is
read and written without a lock, `RivalsTold` says that of two tabs that wrote it, one has a storage event on its
way that demotes it, and `OneAged` that no two primaries have outlived a tick: the event arrives before the
settle period is over, so only one of two becomes a settled writer. Both need `freezes = 0`.

**OwnerTransfer.** A device begins one transfer in its life: once a handoff is recorded the owner is local until
it is activated, and after that none can begin (`DurableOk`). What a page knows of a pending handoff is the
durable one (`Known`), also in a write that is on its way (`WriteOk`). From the capture on `epoch = NoTab`:
the source's journal has no writer, so no page can add to it (`Closing`, `WorkOk`), which is `SourceFrozen`.
`EditorOk`: a page that may edit knows the owner and no settling write is on its way. `HeadOk` and `CloudOk`:
what the transfer put into the account's journal is the source, and what it uploaded stays
on the server, since later saves only add to it; a phase that says so is only written after the fact.

**Boundary.** The hypothesis `[]Alone` of the first three theorems: no import runs while another one runs or while the
durable intent of another one waits. The code does not enforce it, and without it the properties fail (section 4, two
imports at once); restores, restarts and any number of later imports are inside it. The invariant is `Typed /\ Safe`:

* `Turns` and `Gate`. The start of the page and the imports never run together, and an intent that is durable keeps
  the gate closed from the moment it is, over crashes, until it is completed.
* `RecordOk`. The phase of the record is what the journals show: the sides it calls applied carry the id of the
  boundary, and when nothing is pending both do. With `Gate` this is `PairedWhenEditable`.
* `StepOk`. What a run has checked is still true when it uses it: the versions compared before `begin` are those
  the intent is written over, because in the model nothing but the run touches the journals under the gate. This gives
  `IntentApplicable`. (The code comes to it in two parts: the gate refuses what starts later, and an adoption that passed
  `guardCloudMutation` just before has, in practice, its transaction requested before the last look the run takes at that journal,
  `cloudState`, which then refuses the plan. The second part rests on the order in which IndexedDB runs transactions and
  is not in the model, where a test of the gate and its transaction are one step.)
* `JournalOk`. A journal with nothing to send is what the cloud has, and a flight carries whatever of the base
  is still in the document: so a clean document has no unsent edit, and a settled flight drops none.

For the refinement every action is one step of `PairedReplace` or none: `Begin` replaces (`BeginRefined`; both journals are
clean by `StepOk`, so nothing unsent is lost), and applying, repeating after a crash, advancing and completing change
nothing, since a side that the intent awaits already counts as replaced (`ApplyRefined`).

**ChecksSync.** `IInv == Typed /\ Safe`, and `Safe` says what each place knows of the others:

* `LandedInPlace`, `LandedInOrder`. The version a request made comes right after the one it was made on and its
  operation is in the ledger; of two requests of one device, a landed one ends before the later one starts.
* `RequestOk`. A request stays on the network for ever, so the invariant ties each to the head of its device: it was
  made on a revision no later than the base, on the base's own only if it is the flight still stored, and when it
  landed it is acknowledged or that flight. So only the stored flight can still land (`SavedIsCurrent`): an older one
  finds the revision moved on.
* `BaseOk`, `Earned`, `FlightOk`. The base is a version; the checkpoint lies between cursor and head; whatever rows the
  base has and the checkpoint or the flight lacks were deleted by operations of their range; without edits behind the
  cursor the checkpoint is the base.
* `RoundOk`. What a round carries across its awaits is still true: the flight is the stored one, the row is a version,
  an accepted operation is in the ledger, and a refused one has not landed and cannot, because the server has moved past
  its revision. The ledger is read before the revisions are compared, without which a repeated request that
  had landed would be refused (`ReplyRound`).
* `MergeOk`. The checkpoint a merge proposes lacks only rows an intent names (`MergeDeclares`), and is the server's row
  when nothing was edited since the flight.
* `ConflictOk`. A conflict leaves no flight, and no round is past its start.

The proof has one lemma per action. The server's two are about all devices at once (`ServeGlobal`, `ServeRequests`,
`ServeDevices`: versions and ledger only grow); a device's are reduced to that device (`StepSafe`), the ones
that leave its head alone to its round (`RoundInvariant`), and the three that settle a head (acknowledge, reject,
adopt) to one (`SettleInvariant`). That a replay removes only rows some operation deletes (`RecoveredDeclared`) needs the
last change of a check to exist, for which the library's minimum principle is enough (`LastExists`): `Replay` is
defined by what the last change leaves of each check, not by recursion. A replay that goes on past
a change that does not fit is never used: `ok` is false then, and publication and restart end the runtime.

`PendingEditKept` and `NoLostUpdate` compare rows, and `IInv` does not say where a row is from. `RowsInv`, proved on top
of it, does. The operations of a device are a line: those in the journal, then those in the log at the places they
will have. `Made(line, from, to, base, doc)` says three things of a document: each check has what the last operation in
`from..to` left of it or else the row of `base` (`Overlays`), a check `base` lacks was inserted in that range (`Inserts`),
and where the two differ, the first operation from `from` on was made on the row of `base` or on a screen that was behind
a publication (`Sees`, the `early` of `NoLostUpdate`). `Keeps` is the half of it that is left while a conflict holds.

* `Edits`. Every number is used once and later operations of a device have larger ones; a check is inserted once, before
  any other operation on it on any device.
* `Introduced`, `KnownOk`. A check enters the server's document with the request that inserts it, and a device has rows
  only of checks it inserted or a version up to its own base had. So an insertion never meets the check in the
  document it is replayed on.
* `RowsLanded`, `OperationsSent`. A row of a version that an edit wrote was carried by a request that landed by then. So no
  row of the base is of an operation after the cursor (`Apart`), which is what lets the merge tell own rows from others'.
* `AcceptedOk`. If the ledger has a stored flight, or a round was told that its flight is accepted, there is a version with
  exactly the flight's rows, not before the one it saved and not after the one that was answered.
* `CpMade`, `FlightMade`, `ViewMade`, `MergeMade`. The checkpoint is made of the base, the flight of the base, the screen of
  the flight and of the base, the checkpoint of a merge of the server's row. When a flight is accepted, what was
  made of it is from then on made of the row the server answered: rows others changed meanwhile come with it, and
  `Sees` survives because a row both sides changed is a conflict.
* `SavedSeen`. Of every version and the one before it, what `Sees` says of the flight that made it. The theorem follows.

A replay needs an argument of its own: the operations behind the checkpoint fit it, since an insertion is of a
check it lacks and every other operation was made on a screen that had the check.
TLC checked `RowsInv` on small instances before the proofs were written.

**MainSync.** A row is the number of the edit that wrote it, so a document says which edits are in it. `Overlays(E,
from, to, base, doc)`: `doc` is `base` with the last edit of each record in `from..to` on it, and nothing else;
`Keeps` is the half of it about edited records, which is all that is left where a conflict holds. `IInv == Typed
/\ Safe`, and `Safe` says of every document of the device which base and which edits it is made of:

* `EditsOk`. Journal and queue are the edits in order, without a gap.
* `ServerOk`. As in `ChecksSync` a landed save comes right after the version it was made on, and the ledger has one
  entry per operation (`LandedInPlace`, `LedgerOk`). A row that is gone from the server does not come back except by this
  device (`GoneForGood`), and there are no more revisions than saves (`Counted`, which bounds the types).
* `RequestOk`, `SameFlight`. Only the stored flight can still land; a flight's id is its base revision and first
  sequence, and one id means one flight.
* `BaseOk`, `FlightOk`. The base is a version of the server; checkpoint and flight are the base with their ranges on it.
* `Earned`. Every sequence up to the cursor is in the range of a recorded request whose snapshot keeps the edits of
  that range. This is `AckIsEarned`.
* `ViewOk`. The screen keeps every unacknowledged edit; unless something is unpublished or in conflict, it is
  what `Recovered` gives.
* `RoundOk`, `MergeOk`, `NextOk`. What a round holds across its awaits: the fetched row is a version, a refused flight
  has not landed; the checkpoint to commit is the fetched row with the edits up to `cp.seq` on it, and the screen it
  was computed from has not changed unless an edit was made, which is what `CommitAck` and `CommitRebase` test.
* `CandOk`. An unpublished candidate is the base with the edits up to `cp.seq` on it, while the screen is the one shown
  before (`prev`) with the later edits on it. The repair computes from the second what belongs on the first.
* `ConflictOk`. A fenced document has no flight and no round past its start.

The proof has one lemma per action; merges are reduced to what `Merge3` does to a document that `Overlays` another
one. `DeviceImplementsStore` uses the same invariant: the steps that write the head take one transaction of
`JournalStore` each, on the heads without their documents.

`NoSilentOverwrite` compares the row an edit was made on with the row it replaced on the server, possibly many
steps later, and needs two more layers:

* `Deletes`. A record is not edited after its deletion (its id is not used again), and what the acknowledged
  deletions removed stays removed in base, checkpoint and screen. Without it a merge could
  bring a row back under a later edit.
* `SeenOk`. Where a document differs from the one below it, the first edit of the record in the range was made on the row
  below (`over`), or its user approved it, or a restart replayed it over a checkpoint nobody had seen (`torn`). It says so
  of checkpoint and screen over the base (`HeadSeen`), of the flight over the base and the screen over the flight
  (`FlightSeen`), of the two halves of a merge (`MergeSeen`), of a candidate (`CandSeen`), of what goes out next
  (`NextSeen`), and of every save on the server (`SavedSeen`), from which the theorem follows. The step where it could
  fail is an edit made before a candidate is on the screen: the repair's three-way merge lets it through only
  where the row below is the one it was made on, and fences everything else.

TLC checked `IInv`, `Deletes` and `SeenOk` on the instance of `main_sync` before the proofs were written.

## 6. What is only model-checked

* `DurableEditsRecoverable` after an edit the log had no room for: what the property still promises the durable edits
  before it is outside `DurableEditsSurvive`, and no run has so small a log with that property.
* Every liveness property: liveness under fairness, and the `ENABLED` in it, is outside what the installed
  provers can do.

## 7. Plan

1. In `ChecksSync`: resolving conflicts, the bulk-delete threshold, uploading a local head. In `MainSync`:
   choosing a side of an entity conflict.
2. `SpreadsheetSync` and `ChecksFlight`: small modules of their own.

## 8. Not modelled

* Checksums, canonical JSON and schema validation: a record is what it says; corruption is outside.
* `setBase`, the byte limit of the log, normalization, read-only recovery in secondary tabs.
* Bank events, deposit fields and manual deposit numbers, which the server alone changes.
* Delays and rate limits (`cloud-sync.js`): a round may start at any time.
* The transfers account-switch and logout-to-local and the adoption of a reserved owner, and the local half of
  `restore-groups.js`: no screen starts them. Imports of an account that has no cloud head.
* `spreadsheet-sync.js` and `shared-checks-flight.js`: see the plan.
* Bank bridge, bank reconciliation in SQL, calculators, views, documents and search, OAuth clients,
  service workers, build and deployment tools, vendored code: external I/O, pure calculation or presentation. They
  are most of the repository's lines.

## 9. Running it

    tlc -workers 2 -config StorageJournal.cfg StorageJournal.tla
    tlapm StorageJournalProofs.tla
    tlapm BoundaryProofs.tla
    tlapm ChecksSyncProofs.tla
    tlapm MainSyncProofs.tla

Each run's module, configuration and expected result is in `PROJECT.json`, with, for each property, a
mutated definition under which TLC finds the property violated. The mutated forms stand before the
definitions they replace and nothing uses them otherwise.
