----------------------------- MODULE OwnerTransfer -----------------------------
(***************************************************************************)
(* The transfer of a device's local data to an account                     *)
(* (storage-v2-owner-transfer.js), over the durable owner binding          *)
(* (storage-owner-binding.js, storage-owner-idb.js) and the detached       *)
(* target (storage-v2-detached-target.js, storage-v2-bootstrap.js).        *)
(*                                                                         *)
(* The handoff record closes admission of edits first, then moves through  *)
(* its phases while the account's journal is built aside: the person chose *)
(* to upload the local data to an account without a document, or to load   *)
(* the account's document.  Pages may crash, lose the tab lock while a     *)
(* write of theirs is on its way, and be reopened; any request may fail,   *)
(* its effect done or not; another device may save the account's document. *)
(*                                                                         *)
(* An edit is a model value and a document is the set of edits it holds.   *)
(* Only the main document is kept: Shared Checks has the same phases.  The *)
(* intents account-switch and logout-to-local, and reserved adoptions, are *)
(* left out: no screen starts them.  Sign-in and connectivity, read by     *)
(* every guard, appear as the failure of a step.                           *)
(***************************************************************************)
EXTENDS Naturals

CONSTANTS
    Tabs,
    Edits,          \* edits of the local document
    Others,         \* edits of other devices to the account's document
    NoTab,
    MaxFaults       \* bound on crashes, lost locks and failed requests

ASSUME TabsAssumption == NoTab \notin Tabs
ASSUME MaxFaultsAssumption == MaxFaults \in Nat

VARIABLES
    binding,    \* durable: [owner, generation]
    handoff,    \* durable: the handoff record
    saved,      \* durable: the edits in the journal of the local owner
    epoch,      \* durable: who opened that journal last, a page or a transfer
    group,      \* durable: the bootstrap plan of the account
    head,       \* durable: the journal of the account
    marker,     \* durable: the account's journal is verified
    cloud,      \* the account's document on the server
    primary,    \* the page that has the tab lock
    view,       \* [page -> its copy of the binding and the handoff]
    accepted,   \* [page -> edits shown to the person and not yet durable]
    commit,     \* [page -> edits of a journal transaction on its way]
    write,      \* [page -> the owner transaction on its way]
    work,       \* [page -> where its transfer is]
    obstructed, \* history: the document is not the one the transfer is for
    faults

ownerdb == <<binding, handoff>>
target == <<group, head, marker>>
pages == <<view, accepted, commit, write, work>>
vars == <<binding, handoff, saved, epoch, target, cloud, primary, pages, obstructed, faults>>

Local == "local"
Account == "account"
Intents == {"upload-local", "load-account"}
SourcePhases == {"freezing-source", "source-settled", "target-authenticated"}
Phases == SourcePhases \cup {"target-recovered", "target-active"}

NoProof == [revision |-> 0, content |-> {}]
NoHandoff == [id |-> NoTab, intent |-> "none", phase |-> "complete", source |-> {}, target |-> NoProof]
NoGroup == [id |-> NoTab, phase |-> "none", revision |-> 0, content |-> {}]
NoHead == [revision |-> 0, base |-> {}, state |-> {}, known |-> FALSE, flight |-> FALSE]
NoWrite == [kind |-> "none", record |-> NoHandoff, generation |-> 0, outcome |-> "none"]
Closed == [open |-> FALSE, owner |-> Local, generation |-> 0, handoff |-> NoHandoff, blocked |-> TRUE]
Idle == [at |-> "idle", source |-> {}, proof |-> NoProof]

Pending(record) == record.phase # "complete"
Primary(t) == primary = t

(***************************************************************************)
(* assertReady() and the getter writable of the binding.                   *)
(***************************************************************************)
Ready(t) == ~view[t].blocked /\ write[t] = NoWrite
Writable(t) == Primary(t) /\ Ready(t) /\ ~Pending(view[t].handoff)

(***************************************************************************)
(* captureCommitAuthority(): closing admission does not revoke it.         *)
(***************************************************************************)
CommitAuthority(t) ==
    Primary(t) /\ ~view[t].blocked /\ view[t].owner = Local

(***************************************************************************)
(* write(): the transaction is sent and until it answers nothing of this   *)
(* binding is admitted.                                                    *)
(***************************************************************************)
SendWrite(t, kind, record) ==
    /\ Ready(t)
    /\ write' = [write EXCEPT ![t] = [kind |-> kind, record |-> record,
                     generation |-> view[t].generation, outcome |-> "sent"]]

Init ==
    /\ binding = [owner |-> Local, generation |-> 1]
    /\ handoff = NoHandoff
    /\ saved = {}
    /\ epoch = NoTab
    /\ group = NoGroup
    /\ head = NoHead
    /\ marker = FALSE
    /\ cloud \in [revision : {0, 1}, content : {{}}, op : {NoTab}]
    /\ primary = NoTab
    /\ view = [t \in Tabs |-> Closed]
    /\ accepted = [t \in Tabs |-> {}]
    /\ commit = [t \in Tabs |-> {}]
    /\ write = [t \in Tabs |-> NoWrite]
    /\ work = [t \in Tabs |-> Idle]
    /\ obstructed = FALSE
    /\ faults = 0

Fault == faults < MaxFaults /\ faults' = faults + 1

(***************************************************************************)
(* Pages.  A page asks for the tab lock when it opens and never again.     *)
(* hydrate() reads the durable pair; without a handoff the start goes on   *)
(* to open the journal, with one it resumes the transfer.                  *)
(***************************************************************************)
Open(t) ==
    /\ primary = NoTab
    /\ ~view[t].open
    /\ primary' = t
    /\ view' = [view EXCEPT ![t].open = TRUE]
    /\ UNCHANGED <<ownerdb, saved, epoch, target, cloud, accepted, commit, write, work, obstructed, faults>>

\* Mutant: the start reads the binding and forgets the handoff.
HydrateBindingOnly(t) ==
    /\ Primary(t)
    /\ view[t].generation = 0
    /\ view' = [view EXCEPT ![t] = [open |-> TRUE, owner |-> binding.owner,
                    generation |-> binding.generation, handoff |-> NoHandoff, blocked |-> FALSE]]
    /\ epoch' = IF binding.owner = Local THEN t ELSE epoch
    /\ UNCHANGED <<ownerdb, saved, target, cloud, primary, accepted, commit, write, work, obstructed, faults>>

Hydrate(t) ==
    /\ Primary(t)
    /\ view[t].generation = 0
    /\ view' = [view EXCEPT ![t] = [open |-> TRUE, owner |-> binding.owner,
                    generation |-> binding.generation, handoff |-> handoff, blocked |-> FALSE]]
    /\ IF Pending(handoff)
       THEN work' = [work EXCEPT ![t].at = "loop"] /\ UNCHANGED epoch
       ELSE epoch' = (IF binding.owner = Local THEN t ELSE epoch) /\ UNCHANGED work
    /\ UNCHANGED <<ownerdb, saved, target, cloud, primary, accepted, commit, write, obstructed, faults>>

Leave(t) ==
    /\ view' = [view EXCEPT ![t] = Closed]
    /\ accepted' = [accepted EXCEPT ![t] = {}]
    /\ commit' = [commit EXCEPT ![t] = {}]
    /\ write' = [write EXCEPT ![t] = NoWrite]
    /\ work' = [work EXCEPT ![t] = Idle]
    /\ primary' = IF Primary(t) THEN NoTab ELSE primary
    /\ UNCHANGED <<ownerdb, saved, epoch, target, cloud, obstructed>>

Crash(t) == Fault /\ view[t].open /\ Leave(t)

(***************************************************************************)
(* The person reloads a page that cannot edit, or that does not know of a  *)
(* handoff.                                                                *)
(***************************************************************************)
Reload(t) ==
    /\ view[t].open
    /\ work[t] = Idle
    /\ write[t] = NoWrite
    /\ \/ ~Primary(t)
       \/ view[t].generation > 0 /\ (view[t].blocked \/ Pending(view[t].handoff) \/ Pending(handoff))
    /\ Leave(t)
    /\ UNCHANGED faults

LoseLock(t) ==
    /\ Fault
    /\ Primary(t)
    /\ primary' = NoTab
    /\ UNCHANGED <<ownerdb, saved, epoch, target, cloud, pages, obstructed>>

(***************************************************************************)
(* Edits of the local document.  A journal transaction whose page is no    *)
(* longer the last that opened the journal is refused (JournalStore).      *)
(***************************************************************************)
AcceptEdit(t, e) ==
    /\ Writable(t)
    /\ view[t].owner = Local
    /\ e \notin saved
    /\ \A other \in Tabs : e \notin accepted[other]
    /\ accepted' = [accepted EXCEPT ![t] = @ \cup {e}]
    /\ UNCHANGED <<ownerdb, saved, epoch, target, cloud, primary, view, commit, write, work, obstructed, faults>>

Commit(t) ==
    /\ CommitAuthority(t)
    /\ commit[t] = {}
    /\ accepted[t] # {}
    /\ commit' = [commit EXCEPT ![t] = accepted[t]]
    /\ UNCHANGED <<ownerdb, saved, epoch, target, cloud, primary, view, accepted, write, work, obstructed, faults>>

\* Mutant: a journal transaction of an older opening is accepted.
CommitAnsweredUnfenced(t) ==
    /\ commit[t] # {}
    /\ saved' = saved \cup commit[t]
    /\ accepted' = [accepted EXCEPT ![t] = @ \ commit[t]]
    /\ commit' = [commit EXCEPT ![t] = {}]
    /\ UNCHANGED <<ownerdb, epoch, target, cloud, primary, view, write, work, obstructed, faults>>

CommitAnswered(t) ==
    /\ commit[t] # {}
    /\ IF epoch = t
       THEN /\ saved' = saved \cup commit[t]
            /\ accepted' = [accepted EXCEPT ![t] = @ \ commit[t]]
       ELSE UNCHANGED <<saved, accepted>>
    /\ commit' = [commit EXCEPT ![t] = {}]
    /\ UNCHANGED <<ownerdb, epoch, target, cloud, primary, view, write, work, obstructed, faults>>

(***************************************************************************)
(* Owner transactions.  Each compares the generation and the phase it      *)
(* starts from; a begin only needs that no handoff is pending.             *)
(***************************************************************************)
Admitted(w) ==
    /\ binding.generation = w.generation
    /\ IF w.kind = "begin"
       THEN ~Pending(handoff) /\ binding.owner = Local
       ELSE /\ handoff.id = w.record.id
            /\ handoff.phase = w.kind
            /\ binding.owner = IF w.kind = "target-active" THEN Account ELSE Local

Activated(b) == [owner |-> Account, generation |-> b.generation + 1]

ServeWrite(t) ==
    /\ write[t].outcome = "sent"
    /\ LET w == write[t]
       IN IF Admitted(w)
          THEN /\ handoff' = w.record
               /\ binding' = IF w.kind = "target-recovered" THEN Activated(binding) ELSE binding
               /\ write' = [write EXCEPT ![t].outcome = "done"]
          ELSE write' = [write EXCEPT ![t].outcome = "failed"] /\ UNCHANGED ownerdb
    /\ UNCHANGED <<saved, epoch, target, cloud, primary, view, accepted, commit, work, obstructed, faults>>

(***************************************************************************)
(* The transaction fails, or it is done and its answer is an error: the    *)
(* cache of the owner was not published, or the reply was not decoded.     *)
(***************************************************************************)
FailWrite(t) ==
    /\ Fault
    /\ write[t].outcome \in {"sent", "done"}
    /\ write' = [write EXCEPT ![t].outcome = "failed"]
    /\ UNCHANGED <<ownerdb, saved, epoch, target, cloud, primary, view, accepted, commit, work, obstructed>>

(***************************************************************************)
(* An error, or an answer to a page that lost the lock, blocks the binding *)
(* until the durable pair is read again.                                   *)
(***************************************************************************)
Published(v, w) ==
    LET b == IF w.kind = "target-recovered" THEN Activated(v) ELSE v
    IN [v EXCEPT !.handoff = w.record, !.owner = b.owner, !.generation = b.generation]

WriteAnswered(t) ==
    /\ write[t].outcome \in {"done", "failed"}
    /\ LET trusted == write[t].outcome = "done" /\ Primary(t)
           finished == ~Pending(write[t].record)
       IN /\ view' = [view EXCEPT ![t] = IF trusted THEN Published(@, write[t])
                                                    ELSE [@ EXCEPT !.blocked = TRUE]]
          /\ work' = [work EXCEPT ![t] = IF trusted /\ ~finished THEN [Idle EXCEPT !.at = "loop"]
                                                               ELSE Idle]
    /\ write' = [write EXCEPT ![t] = NoWrite]
    /\ UNCHANGED <<ownerdb, saved, epoch, target, cloud, primary, accepted, commit, obstructed, faults>>

(***************************************************************************)
(* start(): the intent is the person's, whatever the account holds.        *)
(***************************************************************************)
Begin(t, intent) ==
    /\ Writable(t)
    /\ view[t].owner = Local
    /\ work[t] = Idle
    /\ SendWrite(t, "begin", [NoHandoff EXCEPT !.id = t, !.intent = intent, !.phase = "freezing-source"])
    /\ obstructed' = (obstructed \/ (intent = "upload-local") # (cloud.revision = 0))
    /\ UNCHANGED <<ownerdb, saved, epoch, target, cloud, primary, view, accepted, commit, work, faults>>

(***************************************************************************)
(* execute(): the phase decides what a page does next.                     *)
(***************************************************************************)
At(t, stage, inPhases) ==
    /\ Primary(t)
    /\ Ready(t)
    /\ work[t].at = stage
    /\ view[t].handoff.phase \in inPhases

Move(t, stage) == work' = [work EXCEPT ![t].at = stage]
Abandon(t) == work' = [work EXCEPT ![t] = Idle]

\* Mutant: the source is read without opening its journal.
CaptureUnfenced(t) ==
    /\ At(t, "loop", SourcePhases)
    /\ accepted[t] = {}
    /\ UNCHANGED epoch
    /\ IF view[t].handoff.phase = "freezing-source" \/ view[t].handoff.source = saved
       THEN work' = [work EXCEPT ![t].at = "captured", ![t].source = saved]
       ELSE Abandon(t)
    /\ UNCHANGED <<ownerdb, saved, target, cloud, primary, view, accepted, commit, write, obstructed, faults>>

(***************************************************************************)
(* captureSource(): accepted edits are drained, then a runtime of the      *)
(* transfer opens the source journal and reads it.                         *)
(***************************************************************************)
Capture(t) ==
    /\ At(t, "loop", SourcePhases)
    /\ accepted[t] = {}
    /\ epoch' = NoTab
    /\ IF view[t].handoff.phase = "freezing-source" \/ view[t].handoff.source = saved
       THEN work' = [work EXCEPT ![t].at = "captured", ![t].source = saved]
       ELSE Abandon(t)
    /\ UNCHANGED <<ownerdb, saved, target, cloud, primary, view, accepted, commit, write, obstructed, faults>>

Settled(t) ==
    /\ At(t, "captured", {"freezing-source"})
    /\ SendWrite(t, "freezing-source",
           [view[t].handoff EXCEPT !.phase = "source-settled", !.source = work[t].source])
    /\ UNCHANGED <<ownerdb, saved, epoch, target, cloud, primary, view, accepted, commit, work, obstructed, faults>>

Authenticated(t) ==
    /\ At(t, "captured", {"source-settled"})
    /\ SendWrite(t, "source-settled", [view[t].handoff EXCEPT !.phase = "target-authenticated"])
    /\ UNCHANGED <<ownerdb, saved, epoch, target, cloud, primary, view, accepted, commit, work, obstructed, faults>>

(***************************************************************************)
(* The bootstrap plan.  A plan of this transfer is resumed; a new one      *)
(* freezes what the server holds, which must fit the intent.               *)
(***************************************************************************)
Fitting(record) ==
    (record.intent = "upload-local") = (cloud.revision = 0)

Prepare(t) ==
    /\ At(t, "captured", {"target-authenticated"})
    /\ LET record == view[t].handoff
       IN IF group.id = record.id
          THEN Move(t, "group") /\ UNCHANGED group
          ELSE IF Fitting(record)
          THEN /\ group' = [id |-> record.id, phase |-> "prepared",
                            revision |-> cloud.revision, content |-> cloud.content]
               /\ Move(t, "group")
          ELSE Abandon(t) /\ UNCHANGED group
    /\ UNCHANGED <<ownerdb, saved, epoch, head, marker, cloud, primary, view, accepted, commit, write, obstructed, faults>>

CleanHead(content, revision) ==
    [revision |-> revision, base |-> content, state |-> content, known |-> TRUE, flight |-> FALSE]

(***************************************************************************)
(* initializeMain: the journal is created once; a repetition must find the *)
(* journal this plan creates.                                              *)
(***************************************************************************)
PlannedHead(t) ==
    IF view[t].handoff.intent = "upload-local"
    THEN [NoHead EXCEPT !.state = work[t].source, !.known = TRUE]
    ELSE CleanHead(group.content, group.revision)

\* Mutant: a repetition refuses the journal the plan created.
InitializeHeadOnce(t) ==
    /\ At(t, "group", {"target-authenticated"})
    /\ group.phase = "prepared"
    /\ IF /\ cloud.revision = group.revision
          /\ cloud.content = group.content
          /\ head = NoHead
       THEN head' = PlannedHead(t) /\ Move(t, "effect")
       ELSE Abandon(t) /\ UNCHANGED head
    /\ UNCHANGED <<ownerdb, saved, epoch, group, marker, cloud, primary, view, accepted, commit, write, obstructed, faults>>

InitializeHead(t) ==
    /\ At(t, "group", {"target-authenticated"})
    /\ group.phase = "prepared"
    /\ IF /\ cloud.revision = group.revision
          /\ cloud.content = group.content
          /\ head \in {NoHead, PlannedHead(t)}
       THEN head' = PlannedHead(t) /\ Move(t, "effect")
       ELSE Abandon(t) /\ UNCHANGED head
    /\ UNCHANGED <<ownerdb, saved, epoch, group, marker, cloud, primary, view, accepted, commit, write, obstructed, faults>>

(***************************************************************************)
(* syncMain: what is to upload goes out as one flight under the plan's     *)
(* operation id; the server answers a repetition with the stored document. *)
(***************************************************************************)
Unsent == head.flight \/ head.state # head.base \/ head.revision = 0

AfterSave(op, content) ==
    IF cloud.revision = 0 THEN [revision |-> 1, content |-> content, op |-> op] ELSE cloud

SyncHead(t) ==
    /\ At(t, "group", {"target-authenticated"})
    /\ group.phase = "initialized"
    /\ IF Unsent
       THEN /\ head' = [head EXCEPT !.flight = TRUE]
            /\ cloud' = AfterSave(group.id, head.state)
            /\ work' = [work EXCEPT ![t] =
                   IF cloud'.op = group.id
                   THEN [@ EXCEPT !.at = "sent", !.proof = [revision |-> cloud'.revision, content |-> cloud'.content]]
                   ELSE Idle]
       ELSE Move(t, "effect") /\ UNCHANGED <<head, cloud>>
    /\ UNCHANGED <<ownerdb, saved, epoch, group, marker, primary, view, accepted, commit, write, obstructed, faults>>

AckHead(t) ==
    /\ At(t, "sent", {"target-authenticated"})
    /\ IF work[t].proof.content = head.state
       THEN head' = CleanHead(head.state, work[t].proof.revision) /\ Move(t, "effect")
       ELSE Abandon(t) /\ UNCHANGED head
    /\ UNCHANGED <<ownerdb, saved, epoch, group, marker, cloud, primary, view, accepted, commit, write, obstructed, faults>>

VerifiedHead ==
    /\ head.known
    /\ ~head.flight
    /\ head.state = head.base
    /\ cloud.revision > 0
    /\ head.revision = cloud.revision
    /\ head.base = cloud.content

TargetProof == [revision |-> head.revision, content |-> head.state]

VerifyGroup(t) ==
    /\ At(t, "group", {"target-authenticated"})
    /\ group.phase = "synced"
    /\ IF VerifiedHead THEN Move(t, "effect") ELSE Abandon(t)
    /\ UNCHANGED <<ownerdb, saved, epoch, target, cloud, primary, view, accepted, commit, write, obstructed, faults>>

NextGroupPhase ==
    [prepared |-> "initialized", initialized |-> "synced", synced |-> "complete"]

AdvanceGroup(t) ==
    /\ At(t, "effect", {"target-authenticated"})
    /\ IF group.id = view[t].handoff.id /\ Pending(group)
       THEN group' = [group EXCEPT !.phase = NextGroupPhase[@]] /\ Move(t, "group")
       ELSE Abandon(t) /\ UNCHANGED group
    /\ UNCHANGED <<ownerdb, saved, epoch, head, marker, cloud, primary, view, accepted, commit, write, obstructed, faults>>

(***************************************************************************)
(* verifyTarget, mark, verifyTarget: the marker is written between two     *)
(* equal proofs, and the second one is recorded.                           *)
(***************************************************************************)
Mark(t) ==
    /\ At(t, "group", {"target-authenticated"})
    /\ group.phase = "complete"
    /\ IF VerifiedHead
       THEN /\ marker' = TRUE
            /\ work' = [work EXCEPT ![t].at = "marked", ![t].proof = TargetProof]
       ELSE Abandon(t) /\ UNCHANGED marker
    /\ UNCHANGED <<ownerdb, saved, epoch, group, head, cloud, primary, view, accepted, commit, write, obstructed, faults>>

Recovered(t) ==
    /\ At(t, "marked", {"target-authenticated"})
    /\ IF VerifiedHead /\ TargetProof = work[t].proof
       THEN /\ SendWrite(t, "target-authenticated",
                   [view[t].handoff EXCEPT !.phase = "target-recovered", !.target = TargetProof])
            /\ UNCHANGED work
       ELSE Abandon(t) /\ UNCHANGED write
    /\ UNCHANGED <<ownerdb, saved, epoch, target, cloud, primary, view, accepted, commit, obstructed, faults>>

(***************************************************************************)
(* The target is verified against the recorded proof before the owner      *)
(* changes, and again before the handoff is closed.                        *)
(***************************************************************************)
FinishPhase(phase) ==
    IF phase = "target-recovered" THEN "target-active" ELSE "complete"

Proven(t) ==
    marker /\ VerifiedHead /\ TargetProof = view[t].handoff.target

Finish(t) ==
    /\ At(t, "loop", {"target-recovered", "target-active"})
    /\ IF Proven(t)
       THEN Move(t, "verified")
       ELSE Abandon(t)
    /\ UNCHANGED <<ownerdb, saved, epoch, target, cloud, primary, view, accepted, commit, write, obstructed, faults>>

Activate(t) ==
    /\ At(t, "verified", {"target-recovered", "target-active"})
    /\ LET phase == view[t].handoff.phase
       IN SendWrite(t, phase, [view[t].handoff EXCEPT !.phase = FinishPhase(phase)])
    /\ UNCHANGED <<ownerdb, saved, epoch, target, cloud, primary, view, accepted, commit, work, obstructed, faults>>

(***************************************************************************)
(* Any await may fail, and a page that lost the lock stops at its guard.   *)
(***************************************************************************)
Fail(t) ==
    /\ work[t] # Idle
    /\ write[t] = NoWrite
    /\ IF Primary(t) THEN Fault ELSE UNCHANGED faults
    /\ Abandon(t)
    /\ UNCHANGED <<ownerdb, saved, epoch, target, cloud, primary, view, accepted, commit, write, obstructed>>

(***************************************************************************)
(* Another device saves the account's document.                            *)
(***************************************************************************)
Remote(o) ==
    /\ o \notin cloud.content
    /\ cloud' = [revision |-> cloud.revision + 1, content |-> cloud.content \cup {o}, op |-> cloud.op]
    /\ obstructed' = (obstructed \/ Pending(handoff) \/ \E t \in Tabs : write[t] # NoWrite)
    /\ UNCHANGED <<ownerdb, saved, epoch, target, primary, pages, faults>>

Step(t) ==
    \/ Capture(t) \/ Settled(t) \/ Authenticated(t)
    \/ Prepare(t) \/ InitializeHead(t) \/ SyncHead(t) \/ AckHead(t) \/ VerifyGroup(t)
    \/ AdvanceGroup(t) \/ Mark(t) \/ Recovered(t) \/ Finish(t) \/ Activate(t)

Next ==
    \/ \E t \in Tabs :
          \/ Open(t) \/ Hydrate(t) \/ Crash(t) \/ Reload(t) \/ LoseLock(t)
          \/ \E e \in Edits : AcceptEdit(t, e)
          \/ Commit(t) \/ CommitAnswered(t)
          \/ ServeWrite(t) \/ FailWrite(t) \/ WriteAnswered(t)
          \/ \E intent \in Intents : Begin(t, intent)
          \/ Step(t) \/ Fail(t)
    \/ \E o \in Others : Remote(o)

Spec == Init /\ [][Next]_vars

(***************************************************************************)
(* The browser answers, a page that stopped is reloaded, one without the   *)
(* lock is opened again, and a running transfer goes on.                   *)
(***************************************************************************)
Fairness ==
    /\ \A t \in Tabs :
          /\ WF_vars(Hydrate(t)) /\ WF_vars(Reload(t))
          /\ WF_vars(Commit(t)) /\ WF_vars(CommitAnswered(t))
          /\ WF_vars(ServeWrite(t)) /\ WF_vars(WriteAnswered(t))
          /\ WF_vars(Step(t))
          /\ WF_vars(~Primary(t) /\ Fail(t))
    /\ WF_vars(\E t \in Tabs : Open(t))

FairSpec == Spec /\ Fairness

(***************************************************************************)
(* Properties.                                                             *)
(***************************************************************************)
Contents == SUBSET (Edits \cup Others)
Documents == [revision : Nat, content : Contents]
HandoffRecords ==
    [id : Tabs \cup {NoTab}, intent : Intents \cup {"none"}, phase : Phases \cup {"complete"},
     source : SUBSET Edits, target : Documents]
Bindings == [owner : {Local, Account}, generation : Nat]
Groups == [id : Tabs \cup {NoTab}, revision : Nat, content : Contents,
           phase : {"none", "prepared", "initialized", "synced", "complete"}]
Heads == [revision : Nat, base : Contents, state : Contents, known : BOOLEAN, flight : BOOLEAN]
Clouds == [revision : Nat, content : Contents, op : Tabs \cup {NoTab}]
Views == [open : BOOLEAN, owner : {Local, Account}, generation : Nat,
          handoff : HandoffRecords, blocked : BOOLEAN]
OwnerWrites == [kind : Phases \cup {"begin", "none"}, record : HandoffRecords,
                generation : Nat, outcome : {"none", "sent", "done", "failed"}]
Works == [at : {"idle", "loop", "captured", "group", "effect", "sent", "marked", "verified"},
          source : SUBSET Edits, proof : Documents]

(* The shape of every variable.                                            *)
TypeOK ==
    /\ binding \in Bindings /\ handoff \in HandoffRecords
    /\ saved \subseteq Edits /\ epoch \in Tabs \cup {NoTab}
    /\ group \in Groups /\ head \in Heads /\ marker \in BOOLEAN
    /\ cloud \in Clouds
    /\ primary \in Tabs \cup {NoTab}
    /\ view \in [Tabs -> Views]
    /\ accepted \in [Tabs -> SUBSET Edits] /\ commit \in [Tabs -> SUBSET Edits]
    /\ write \in [Tabs -> OwnerWrites]
    /\ work \in [Tabs -> Works]
    /\ obstructed \in BOOLEAN /\ faults \in 0..MaxFaults

(* Once the source is recorded as settled nothing is added to its journal: *)
(* the proof of captureSource stays true, whichever page accepted an edit  *)
(* before the handoff closed admission.                                    *)
SourceFrozen ==
    handoff.id # NoTab /\ handoff.phase # "freezing-source" => saved = handoff.source

(* After an upload the account is active only with every edit that was     *)
(* durable on this device, in its journal and on the server.               *)
NothingLeftBehind ==
    binding.owner = Account /\ handoff.intent = "upload-local" =>
        saved \subseteq head.state /\ saved \subseteq cloud.content

(* A page that admits edits knows the active owner, and no handoff has     *)
(* settled a source or activated a target under it.                        *)
WriterKnowsOwner ==
    \A t \in Tabs : Writable(t) =>
        /\ view[t].owner = binding.owner
        /\ ~Pending(handoff) \/ handoff.phase = "freezing-source"

(* A transfer that is begun is completed, through crashes, lost locks and  *)
(* failed requests, unless the account's document is not the one it is for.*)
TransferEnds ==
    Pending(handoff) ~> (~Pending(handoff) \/ obstructed)
=============================================================================
