-------------------------------- MODULE Boundary --------------------------------
(***************************************************************************)
(* Restores and imports of one page (storage-v2-boundary.js).  Each        *)
(* replaces two independent journals, Shared Checks and main, through one  *)
(* durable record whose phases are prepared, shared-applied, main-applied  *)
(* and complete; the journals carry the id of the last boundary applied to *)
(* them.  An import (storage-v2-local-import.js) is started by the user    *)
(* and leaves both documents to upload; a group the server restored        *)
(* (restore-server-recovery.js) is adopted while the page starts.          *)
(*                                                                         *)
(* The page may end between any two steps and a storage step may fail.     *)
(* Ordinary edits, uploads and adoptions go on around the boundary, and    *)
(* the content of a document is a set of marks.  Building a flight,        *)
(* settling it and adopting a row are one step each, the test of the gate  *)
(* (guardCloudMutation) included.  In the code awaits lie between that     *)
(* test and the transaction, so one that passed it just before the gate    *)
(* closed may commit a moment later; in practice its transaction precedes  *)
(* the last look the run takes at the same journal, which then sees        *)
(* it and refuses the plan.  The imports of an account without a cloud     *)
(* head, and the local half of restore-groups.js, which no caller starts   *)
(* any more, are left out.                                                 *)
(***************************************************************************)
EXTENDS Naturals, FiniteSets

CONSTANTS
    Imports,        \* imports, each with the id of its boundary
    Groups,         \* restore groups an older client staged on the server
    Edits,          \* marks of local edits
    Remotes,        \* marks of other devices' saves
    NoId,
    MaxFaults       \* bound on crashes and failed storage steps

Starter == "start"          \* the caller of a boundary that is not an import

\* An import draws an id of its own, and so did the groups.
ASSUME IdsAssumption ==
    /\ NoId \notin Imports \cup Groups
    /\ Imports \cap Groups = {}
    /\ Starter \notin Imports

ASSUME MaxFaultsAssumption == MaxFaults \in Nat

VARIABLES
    server,     \* [side -> [revision, content]]
    group,      \* restore groups on the server: "absent", "staged", "completed"
    journal,    \* [side -> [seq, ack, content, base, flight, boundary]]
    record,     \* the durable boundary record
    staged,     \* the durable server-restore record: the group being adopted
    boot,       \* where the start of the page is
    current,    \* the group this start is working on
    locked,     \* lockedOwner: ordinary edits and cloud mutations are refused
    job,        \* the run of the start and of each import
    unused,     \* marks not yet used by an edit or by another device
    faults

durables == <<server, group, journal, record, staged, unused>>
vars == <<server, group, journal, record, staged, boot, current, locked, job, unused, faults>>

Sides == {"main", "shared"}
Ids == Imports \cup Groups
Callers == {Starter} \cup Imports
Marks == Ids \cup Edits \cup Remotes

Clean(s) ==
    journal[s].seq = journal[s].ack /\ journal[s].flight = {}

Pending == record.phase \in {"prepared", "shared-applied", "main-applied"}

Head(s) == [seq |-> journal[s].seq, revision |-> journal[s].base.revision]

\* The side the phase of the record leaves to apply next.
SideOf(phase) == IF phase = "prepared" THEN "shared" ELSE "main"

StagedAt == 0   \* the revisions the groups were staged at

NoPlan ==
    [id |-> NoId, source |-> [s \in Sides |-> [seq |-> 0, revision |-> 0]],
     target |-> [s \in Sides |-> [revision |-> 0, content |-> {}]]]

Idle == [step |-> "off", plan |-> NoPlan]

\* An import uploads its content later; a restore is what the server holds.
ImportPlan(i, source) ==
    [id |-> i, source |-> source,
     target |-> [s \in Sides |-> [revision |-> source[s].revision, content |-> {i}]]]

RestorePlan(g, source, heads) == [id |-> g, source |-> source, target |-> heads]

\* Nothing of a run survives the page.
Fresh == [c \in Callers |-> IF c = Starter THEN [Idle EXCEPT !.step = "pending"] ELSE Idle]

Init ==
    /\ server = [s \in Sides |-> [revision |-> 0, content |-> {}]]
    /\ group \in [Groups -> {"absent", "staged"}]
    /\ journal = [s \in Sides |->
          [seq |-> 0, ack |-> 0, content |-> {}, flight |-> {}, boundary |-> NoId,
           base |-> server[s]]]
    /\ record = [phase |-> "none", plan |-> NoPlan]
    /\ staged = {}
    /\ boot = "recover"
    /\ current = NoId
    /\ locked = FALSE
    /\ job = Fresh
    /\ unused = Marks \ Groups
    /\ faults = 0

-----------------------------------------------------------------------------
(* One run of a boundary, by the start of the page or by an import.        *)

At(c, step) == job[c].step = step

Goto(c, step) == job' = [job EXCEPT ![c].step = step]

\* The run threw: the gate stays closed if the intent is known to be durable.
Fail(c, held) ==
    /\ job' = [job EXCEPT ![c] = Idle]
    /\ locked' = held
    /\ boot' = IF c = Starter THEN "failed" ELSE boot

Return(c) ==
    /\ job' = [job EXCEPT ![c] = Idle]
    /\ locked' = FALSE
    /\ boot' = CASE c # Starter -> boot
                 [] boot = "recover" -> "list"
                 [] OTHER -> "clear"

Continue(c, step) == Goto(c, step) /\ locked' = TRUE /\ UNCHANGED boot

\* A boundary that is complete is not applied again: both journals must show it.
AlreadyApplied(plan) ==
    \A s \in Sides :
        /\ journal[s].boundary = plan.id
        /\ journal[s].seq = 0
        /\ journal[s].content = plan.target[s].content

\* Mutant: only the main document is compared.
LockCheckingMain(c) ==
    /\ At(c, "lock")
    /\ Continue(c, "check-main")
    /\ UNCHANGED <<durables, current, faults>>

\* run: the gate closes, then the record is read.
Lock(c) ==
    /\ At(c, "lock")
    /\ LET plan == job[c].plan
           same == record.plan.id = plan.id IN
       CASE record.phase = "complete" /\ same ->
               IF AlreadyApplied(plan) THEN Return(c) ELSE Fail(c, FALSE)
         [] Pending /\ ~same -> Fail(c, TRUE)
         [] Pending /\ same  -> Continue(c, "read")
         [] OTHER            -> Continue(c, "check-shared")
    /\ UNCHANGED <<durables, current, faults>>

\* The versions the plan was made from are compared under the gate.
Unchanged(s, source) == Head(s) = source[s] /\ Clean(s)

\* Mutant: the cloud revision stands for the version of the journal.
CheckRevision(c, s, step, next) ==
    /\ At(c, step)
    /\ IF Head(s).revision = job[c].plan.source[s].revision
       THEN Continue(c, next) ELSE Fail(c, FALSE)
    /\ UNCHANGED <<durables, current, faults>>

Check(c, s, step, next) ==
    /\ At(c, step)
    /\ IF Unchanged(s, job[c].plan.source) THEN Continue(c, next) ELSE Fail(c, FALSE)
    /\ UNCHANGED <<durables, current, faults>>

\* beginBoundary: the intent becomes durable unless another one is.
Begin(c) ==
    /\ At(c, "begin")
    /\ IF Pending
       THEN Fail(c, FALSE) /\ UNCHANGED record
       ELSE Continue(c, "read") /\ record' = [phase |-> "prepared", plan |-> job[c].plan]
    /\ UNCHANGED <<server, group, journal, staged, unused, current, faults>>

\* resume: the phase of the record says where to go on.
ReadRecord(c) ==
    /\ At(c, "read")
    /\ CASE ~Pending -> Return(c)
         [] record.phase = "main-applied" -> Continue(c, "complete")
         [] OTHER -> Continue(c, "apply")
    /\ UNCHANGED <<durables, current, faults>>

\* resetCloudHead: a new epoch at the restored head.
Reset(j, id, head) ==
    [j EXCEPT !.seq = 0, !.ack = 0, !.content = head.content, !.flight = {},
              !.boundary = id, !.base = head]

\* replaceLocalWithPending: one operation that replaces the state and waits
\* for its upload.
ReplaceWithPending(j, id, head) ==
    [j EXCEPT !.seq = @ + 1, !.content = head.content, !.boundary = id]

\* Mutant: a side is applied again after a crash before its phase was written.
ApplyAgain(c) ==
    /\ At(c, "apply")
    /\ LET s == SideOf(record.phase)
           plan == record.plan IN
       CASE plan.id \in Groups ->
               Continue(c, "advance")
               /\ journal' = [journal EXCEPT ![s] = Reset(@, plan.id, plan.target[s])]
         [] plan.id \in Imports ->
               IF Unchanged(s, plan.source)
               THEN Continue(c, "advance")
                    /\ journal' = [journal EXCEPT ![s] =
                                      ReplaceWithPending(@, plan.id, plan.target[s])]
               ELSE Fail(c, TRUE) /\ UNCHANGED journal
    /\ UNCHANGED <<server, group, record, staged, unused, current, faults>>

\* apply: a journal that carries the id has been through this boundary.
Apply(c) ==
    /\ At(c, "apply")
    /\ LET s == SideOf(record.phase)
           plan == record.plan IN
       CASE journal[s].boundary = plan.id ->
               Continue(c, "advance") /\ UNCHANGED journal
         [] plan.id \in Groups /\ journal[s].boundary # plan.id ->
               Continue(c, "advance")
               /\ journal' = [journal EXCEPT ![s] = Reset(@, plan.id, plan.target[s])]
         [] plan.id \in Imports /\ journal[s].boundary # plan.id ->
               IF Unchanged(s, plan.source)
               THEN Continue(c, "advance")
                    /\ journal' = [journal EXCEPT ![s] =
                                      ReplaceWithPending(@, plan.id, plan.target[s])]
               ELSE Fail(c, TRUE) /\ UNCHANGED journal
    /\ UNCHANGED <<server, group, record, staged, unused, current, faults>>

\* Mutant: one phase for both sides.
AdvanceOnce(c) ==
    /\ At(c, "advance")
    /\ Continue(c, "complete") /\ record' = [record EXCEPT !.phase = "main-applied"]
    /\ UNCHANGED <<server, group, journal, staged, unused, current, faults>>

Advance(c) ==
    /\ At(c, "advance")
    /\ IF record.phase = "prepared"
       THEN Continue(c, "apply") /\ record' = [record EXCEPT !.phase = "shared-applied"]
       ELSE Continue(c, "complete") /\ record' = [record EXCEPT !.phase = "main-applied"]
    /\ UNCHANGED <<server, group, journal, staged, unused, current, faults>>

\* completeBoundary keeps the id and drops the states.
Complete(c) ==
    /\ At(c, "complete")
    /\ record' = [phase |-> "complete", plan |-> [NoPlan EXCEPT !.id = record.plan.id]]
    /\ Continue(c, "confirm")
    /\ UNCHANGED <<server, group, journal, staged, unused, current, faults>>

Confirm(c) ==
    /\ At(c, "confirm")
    /\ Return(c)
    /\ UNCHANGED <<durables, current, faults>>

Run(c) ==
    \/ Lock(c)
    \/ Check(c, "shared", "check-shared", "check-main")
    \/ Check(c, "main", "check-main", "begin")
    \/ Begin(c) \/ ReadRecord(c) \/ Apply(c) \/ Advance(c) \/ Complete(c) \/ Confirm(c)

-----------------------------------------------------------------------------
(* The start of the page: recoverPrimary, then the groups of the server.   *)

Volatile == <<locked, job>>

\* boundary.pending closes the gate before anything can be edited.
RecoverPrimary ==
    /\ At(Starter, "pending")
    /\ Goto(Starter, "read")
    /\ locked' = Pending
    /\ UNCHANGED <<durables, boot, current, faults>>

\* resumeServerRestoreGroups: the group on record first, then the server's
\* list; a page that starts offline skips them all.
ListGroups ==
    /\ boot = "list"
    /\ LET queue == IF staged # {} THEN staged ELSE {g \in Groups : group[g] = "staged"} IN
       \/ \E g \in queue : current' = g /\ boot' = "source"
       \/ queue = {} /\ boot' = "ready" /\ UNCHANGED current
    /\ UNCHANGED <<durables, Volatile, faults>>

StartOffline ==
    /\ boot = "list"
    /\ boot' = "ready"
    /\ UNCHANGED <<durables, Volatile, current, faults>>

\* captureStorageV2RestoreSource wants both heads clean.
ReadSource ==
    /\ boot = "source"
    /\ IF \A s \in Sides : Clean(s)
       THEN /\ boot' = "stage"
            /\ job' = [job EXCEPT ![Starter].plan =
                          RestorePlan(current, [s \in Sides |-> Head(s)], NoPlan.target)]
       ELSE boot' = "failed" /\ UNCHANGED job
    /\ UNCHANGED <<durables, locked, current, faults>>

StageServerPending ==
    /\ boot = "stage"
    /\ staged' = {current}
    /\ boot' = "serve"
    /\ UNCHANGED <<server, group, journal, record, unused, Volatile, current, faults>>

\* apply_restore_group_current: both documents in one transaction, each against
\* the revision the group was staged at; a completed group is answered from its
\* receipts.
ApplyRestoreGroup ==
    /\ boot = "serve"
    /\ CASE group[current] = "completed" ->
               boot' = "heads" /\ UNCHANGED <<server, group>>
         [] group[current] = "staged" /\ \A s \in Sides : server[s].revision = StagedAt ->
               /\ server' = [s \in Sides |-> [revision |-> StagedAt + 1, content |-> {current}]]
               /\ group' = [group EXCEPT ![current] = "completed"]
               /\ boot' = "heads"
         [] OTHER -> boot' = "failed" /\ UNCHANGED <<server, group>>
    /\ UNCHANGED <<journal, record, staged, unused, Volatile, current, faults>>

\* readHeads, then the boundary with what they hold by now.
ReadHeads ==
    /\ boot = "heads"
    /\ boot' = "run"
    /\ job' = [job EXCEPT ![Starter] =
                  [step |-> "lock", plan |-> [@.plan EXCEPT !.target = server]]]
    /\ UNCHANGED <<durables, locked, current, faults>>

CompleteServerPending ==
    /\ boot = "clear"
    /\ staged' = {}
    /\ boot' = "list"
    /\ UNCHANGED <<server, group, journal, record, unused, Volatile, current, faults>>

Start ==
    \/ RecoverPrimary \/ ListGroups \/ StartOffline \/ ReadSource \/ StageServerPending
    \/ ApplyRestoreGroup \/ ReadHeads \/ CompleteServerPending

-----------------------------------------------------------------------------
(* Imports, and the ordinary work the gate keeps out.                      *)

Ready == boot = "ready"

\* restoreNormalizedState takes both versions before the user confirms.
BeginImport(i) ==
    /\ Ready /\ At(i, "off") /\ \A s \in Sides : Clean(s)
    /\ i \in unused
    /\ unused' = unused \ {i}
    /\ job' = [job EXCEPT ![i] =
                  [step |-> "lock", plan |-> ImportPlan(i, [s \in Sides |-> Head(s)])]]
    /\ UNCHANGED <<server, group, journal, record, staged, boot, current, locked, faults>>

EditDocument(s) ==
    /\ Ready /\ ~locked
    /\ \E e \in unused \cap Edits :
          /\ unused' = unused \ {e}
          /\ journal' = [journal EXCEPT ![s].seq = @ + 1, ![s].content = @ \cup {e}]
    /\ UNCHANGED <<server, group, record, staged, boot, current, Volatile, faults>>

BeginUpload(s) ==
    /\ Ready /\ ~locked
    /\ journal[s].seq > journal[s].ack /\ journal[s].flight = {}
    /\ journal' = [journal EXCEPT ![s].flight =
                      {[seq |-> journal[s].seq, content |-> journal[s].content]}]
    /\ UNCHANGED <<server, group, record, staged, unused, boot, current, Volatile, faults>>

\* The server takes the flight at the base it was made from, or it is rejected
\* and the edits are put on top of what the server holds.
EndUpload(s) ==
    /\ Ready /\ ~locked
    /\ \E f \in journal[s].flight :
          IF server[s].revision = journal[s].base.revision
          THEN LET next == [revision |-> server[s].revision + 1, content |-> f.content] IN
               /\ server' = [server EXCEPT ![s] = next]
               /\ journal' = [journal EXCEPT ![s].flight = {}, ![s].ack = f.seq, ![s].base = next]
          ELSE /\ journal' = [journal EXCEPT ![s].flight = {}, ![s].base = server[s],
                                 ![s].content = server[s].content
                                                \cup (@ \ journal[s].base.content)]
               /\ UNCHANGED server
    /\ UNCHANGED <<group, record, staged, unused, boot, current, Volatile, faults>>

Adopt(s) ==
    /\ Ready /\ ~locked /\ Clean(s)
    /\ server[s].revision > journal[s].base.revision
    /\ journal' = [journal EXCEPT ![s].base = server[s], ![s].content = server[s].content]
    /\ UNCHANGED <<server, group, record, staged, unused, boot, current, Volatile, faults>>

RemoteSave(s) ==
    /\ \E m \in unused \cap Remotes :
          /\ unused' = unused \ {m}
          /\ server' = [server EXCEPT ![s].revision = @ + 1, ![s].content = @ \cup {m}]
    /\ UNCHANGED <<group, journal, record, staged, boot, current, Volatile, faults>>

-----------------------------------------------------------------------------
(* Failures. *)

Reopen ==
    /\ boot' = "recover"
    /\ current' = NoId
    /\ locked' = FALSE
    /\ job' = Fresh

Crash ==
    /\ faults < MaxFaults
    /\ faults' = faults + 1
    /\ Reopen
    /\ UNCHANGED durables

\* A storage or network step throws.  run knows of a durable intent once it has
\* read or written one.
StepFails(c) ==
    /\ faults < MaxFaults
    /\ faults' = faults + 1
    /\ IF c = Starter THEN boot \notin {"ready", "failed"} ELSE ~At(c, "off")
    /\ Fail(c, locked /\ job[c].step \in {"read", "apply", "advance", "complete", "confirm"})
    /\ UNCHANGED <<durables, current>>

\* The user reloads a page that did not start or whose gate stays closed.
Reload ==
    /\ \/ boot = "failed"
       \/ Ready /\ locked /\ \A c \in Callers : At(c, "off")
    /\ Reopen
    /\ UNCHANGED <<durables, faults>>

Next ==
    \/ Start
    \/ \E c \in Callers : Run(c) \/ StepFails(c)
    \/ \E i \in Imports : BeginImport(i)
    \/ \E s \in Sides :
          EditDocument(s) \/ BeginUpload(s) \/ EndUpload(s) \/ Adopt(s) \/ RemoteSave(s)
    \/ Crash \/ Reload

Spec == Init /\ [][Next]_vars

\* The page goes on with what it began unless something fails, and a user who
\* cannot edit reloads it.
Fairness ==
    /\ \A c \in Callers : WF_vars(Run(c))
    /\ WF_vars(RecoverPrimary) /\ WF_vars(ListGroups) /\ WF_vars(ReadSource)
    /\ WF_vars(StageServerPending) /\ WF_vars(ApplyRestoreGroup) /\ WF_vars(ReadHeads)
    /\ WF_vars(CompleteServerPending) /\ WF_vars(Reload)

FairSpec == Spec /\ Fairness

-----------------------------------------------------------------------------
(* Properties. *)

Contents == SUBSET Marks
Revisions == 0..(Cardinality(Marks) + 1)
ServerHeads == [revision : Revisions, content : Contents]
Plans == [id : Ids \cup {NoId},
          source : [Sides -> [seq : 0..Cardinality(Marks), revision : Revisions]],
          target : [Sides -> ServerHeads]]
Steps == {"off", "pending", "lock", "check-shared", "check-main", "begin", "read", "apply",
          "advance", "complete", "confirm"}

TypeOK ==
    /\ server \in [Sides -> ServerHeads]
    /\ group \in [Groups -> {"absent", "staged", "completed"}]
    /\ journal \in [Sides -> [seq : 0..Cardinality(Marks), ack : 0..Cardinality(Marks),
                              content : Contents, base : ServerHeads,
                              flight : SUBSET [seq : 0..Cardinality(Marks), content : Contents],
                              boundary : Ids \cup {NoId}]]
    /\ record \in [phase : {"none", "prepared", "shared-applied", "main-applied", "complete"},
                   plan : Plans]
    /\ staged \in SUBSET Groups
    /\ boot \in {"recover", "list", "source", "stage", "serve", "heads", "run", "clear",
                 "ready", "failed"}
    /\ current \in Groups \cup {NoId}
    /\ locked \in BOOLEAN
    /\ job \in [Callers -> [step : Steps, plan : Plans]]
    /\ unused \in SUBSET Marks
    /\ faults \in 0..MaxFaults

\* The two documents a user can edit went through the same boundary: nobody
\* works on one restored document beside one that is not.
PairedWhenEditable ==
    Ready /\ ~locked => journal["main"].boundary = journal["shared"].boundary

\* The journal a durable import has still to replace is at the version the
\* import was made for, so that the remaining steps cannot be refused.
IntentApplicable ==
    Pending /\ record.plan.id \in Imports =>
        \A s \in Sides :
            journal[s].boundary = record.plan.id \/ Unchanged(s, record.plan.source)

\* A boundary that became durable is completed, by this page or a later one.
BoundaryEnds == Pending ~> ~Pending

\* A restore the server has applied and this device has recorded is adopted
\* and then forgotten, unless the page opens without it, offline.
AdoptionEnds ==
    (\E g \in staged : group[g] = "completed") ~> (staged = {} \/ Ready)

\* A side the durable intent has not reached counts as replaced.
Awaited(s) == Pending /\ journal[s].boundary # record.plan.id

Document(s) == IF Awaited(s) THEN record.plan.target[s].content ELSE journal[s].content

Unsent(s) ==
    CASE Awaited(s) /\ record.plan.id \in Groups -> {}
      [] OTHER -> Document(s) \ journal[s].base.content

Atomic == INSTANCE PairedReplace WITH
    Ids <- Ids \cup {NoId},
    doc <- [s \in Sides |-> Document(s)],
    unsent <- [s \in Sides |-> Unsent(s)],
    cloud <- [s \in Sides |-> server[s].content],
    pair <- [s \in Sides |-> IF Awaited(s) THEN record.plan.id ELSE journal[s].boundary]

\* The steps of a boundary, its crashes and its repetitions together replace
\* both documents once, at the moment the intent becomes durable, and lose no
\* edit the cloud lacks.
AtomicSpec == Atomic!Spec
=================================================================================
