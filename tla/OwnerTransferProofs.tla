-------------------------- MODULE OwnerTransferProofs --------------------------
(***************************************************************************)
(* The safety of the owner transfer, for every set of pages and edits and  *)
(* every number of faults.                                                 *)
(***************************************************************************)
EXTENDS OwnerTransfer, TLAPS

(***************************************************************************)
(* The inductive invariant.  A device begins one transfer in its life: once *)
(* a handoff is recorded the owner is local until it is activated, and     *)
(* after that no handoff can begin.                                        *)
(***************************************************************************)
Begun == handoff.id # NoTab

\* The journal of the source is closed: no page can add to it any more.
Closing == Begun /\ epoch = NoTab

(* The handoff and the owner agree.                                        *)
DurableOk ==
    /\ binding.generation > 0
    /\ ~Begun => handoff.phase = "complete" /\ binding.owner = Local
    /\ Begun => (binding.owner = Account <=> handoff.phase \in {"target-active", "complete"})
    /\ Begun /\ handoff.phase # "freezing-source" => epoch = NoTab /\ handoff.source = saved

(* A pending handoff that a page knows is the durable one; its source, once *)
(* settled, is the journal.                                                *)
Known(record) ==
    /\ Begun
    /\ record.id = handoff.id /\ record.intent = handoff.intent
    /\ record.phase # "freezing-source" => epoch = NoTab /\ record.source = saved

ViewOk(t) ==
    /\ ~view[t].open => view[t].blocked
    /\ ~view[t].blocked => view[t].generation > 0
    /\ Pending(view[t].handoff) => Known(view[t].handoff)
    /\ view[t].handoff.phase = "target-active" => view[t].owner = Account

(* The phase that an owner transaction writes over the phase it compares.  *)
NextPhase ==
    [kind \in Phases \cup {"begin"} |->
        CASE kind = "begin" -> "freezing-source"
          [] kind = "freezing-source" -> "source-settled"
          [] kind = "source-settled" -> "target-authenticated"
          [] kind = "target-authenticated" -> "target-recovered"
          [] kind = "target-recovered" -> "target-active"
          [] kind = "target-active" -> "complete"]

WriteOk(t) ==
    write[t] # NoWrite =>
        /\ ~view[t].blocked
        /\ write[t].kind # "none"
        /\ write[t].record.id # NoTab
        /\ write[t].record.phase = NextPhase[write[t].kind]
        /\ write[t].kind = "target-active" => view[t].owner = Account
        /\ write[t].kind # "begin" \/ write[t].outcome = "done" => Known(write[t].record)
        /\ write[t].kind = "target-active" /\ write[t].outcome = "done" =>
              handoff.phase = "complete"

(* Past the capture the page holds the journal as it stays.                *)
WorkOk(t) ==
    work[t].at \in {"captured", "group", "effect", "sent", "marked"} =>
        Closing /\ work[t].source = saved

PagesOk == \A t \in Tabs : ViewOk(t) /\ WriteOk(t) /\ WorkOk(t)

(* A page that may edit knows the owner, and nothing on its way will settle *)
(* the source under it.                                                    *)
Editor(t) == Primary(t) /\ ~view[t].blocked /\ ~Pending(view[t].handoff)

EditorOk ==
    \A t \in Tabs : Editor(t) =>
        \/ /\ view[t].owner = Account /\ binding.owner = Account
           /\ handoff.phase = "complete"
        \/ /\ view[t].owner = Local /\ binding.owner = Local
           /\ ~Begun \/ handoff.phase = "freezing-source"
           /\ \A u \in Tabs : write[u].outcome = "sent" => write[u].kind = "begin"

(* The document of the account: what was uploaded stays.                   *)
Uploaded ==
    head.known /\ (handoff.intent = "upload-local" => saved \subseteq cloud.content)

(* A page that records the target as recovered, done or on its way.        *)
Recovering(t) ==
    write[t].kind = "target-authenticated" /\ write[t].outcome \in {"sent", "done"}

HeadOk ==
    /\ ~head.known => head = NoHead
    /\ head.known => Closing
    /\ head.known /\ handoff.intent = "upload-local" => head.state = saved
    /\ group.phase = "none" => group.id = NoTab
    /\ group.phase \notin {"none", "prepared"} => head.known
    /\ \A t \in Tabs : work[t].at \in {"effect", "sent"} => head.known

CloudOk ==
    /\ cloud.revision = 0 => cloud.content = {}
    /\ \A t \in Tabs : Recovering(t) => Uploaded
    /\ Begun /\ handoff.phase \in {"target-recovered", "target-active", "complete"} => Uploaded

Safe == DurableOk /\ PagesOk /\ EditorOk /\ HeadOk /\ CloudOk

IInv == TypeOK /\ Safe

-----------------------------------------------------------------------------
(* Types *)

LEMMA RecordTypes ==
    /\ NoProof \in Documents /\ NoHandoff \in HandoffRecords
    /\ NoGroup \in Groups /\ NoHead \in Heads
    /\ NoWrite \in OwnerWrites /\ Closed \in Views /\ Idle \in Works
<1>1. NoProof \in Documents
  BY DEF NoProof, Documents, Contents
<1>2. NoHandoff \in HandoffRecords
  BY <1>1 DEF NoHandoff, HandoffRecords
<1>3. NoGroup \in Groups /\ NoHead \in Heads
  BY DEF NoGroup, NoHead, Groups, Heads, Contents
<1>4. NoWrite \in OwnerWrites /\ Closed \in Views
  BY <1>2 DEF NoWrite, OwnerWrites, Closed, Views
<1>5. Idle \in Works
  BY <1>1 DEF Idle, Works
<1> QED BY <1>1, <1>2, <1>3, <1>4, <1>5

LEMMA TypeInit == Init => TypeOK
<1> SUFFICES ASSUME Init PROVE TypeOK
  OBVIOUS
<1>1. binding \in Bindings /\ cloud \in Clouds
  BY DEF Init, Bindings, Clouds, Contents
<1>2. faults \in 0..MaxFaults
  BY MaxFaultsAssumption DEF Init
<1> QED BY <1>1, <1>2, RecordTypes DEF Init, TypeOK

\* The durable records of a typed state.
LEMMA Typed ==
    ASSUME TypeOK
    PROVE  /\ binding \in Bindings /\ handoff \in HandoffRecords
           /\ saved \in SUBSET Edits /\ saved \in Contents /\ epoch \in Tabs \cup {NoTab}
           /\ group \in Groups /\ head \in Heads /\ cloud \in Clouds
           /\ head.state \in Contents /\ cloud.content \in Contents
           /\ \A t \in Tabs : /\ view[t] \in Views /\ write[t] \in OwnerWrites
                              /\ work[t] \in Works /\ view[t].handoff \in HandoffRecords
                              /\ work[t].source \in SUBSET Edits
                              /\ accepted[t] \in SUBSET Edits /\ commit[t] \in SUBSET Edits
<1>1. head \in Heads /\ cloud \in Clouds
  BY DEF TypeOK
<1>2. head.state \in Contents /\ cloud.content \in Contents
  BY <1>1 DEF Heads, Clouds
<1>3. \A t \in Tabs : view[t] \in Views /\ write[t] \in OwnerWrites /\ work[t] \in Works
  BY DEF TypeOK
<1>4. \A t \in Tabs : view[t].handoff \in HandoffRecords
  BY <1>3 DEF Views
<1>5. \A t \in Tabs : work[t].source \in SUBSET Edits
  BY <1>3 DEF Works
<1>6. saved \in SUBSET Edits /\ saved \in Contents
  BY DEF TypeOK, Contents
<1> QED BY <1>1, <1>2, <1>3, <1>4, <1>5, <1>6 DEF TypeOK

\* Where the work of a page goes.
LEMMA WorkTypes ==
    ASSUME NEW w \in Works
    PROVE  /\ \A stage \in {"idle", "loop", "captured", "group", "effect", "sent", "marked",
                            "verified"} :
                 [w EXCEPT !.at = stage] \in Works
           /\ \A stage \in {"sent", "marked"}, proof \in Documents :
                 [w EXCEPT !.at = stage, !.proof = proof] \in Works
           /\ \A source \in SUBSET Edits :
                 [w EXCEPT !.at = "captured", !.source = source] \in Works
<1>1. \A stage \in {"idle", "loop", "captured", "group", "effect", "sent", "marked", "verified"} :
         [w EXCEPT !.at = stage] \in Works
  BY DEF Works
<1>2. \A stage \in {"sent", "marked"}, proof \in Documents :
         [w EXCEPT !.at = stage, !.proof = proof] \in Works
  BY DEF Works
<1>3. \A source \in SUBSET Edits : [w EXCEPT !.at = "captured", !.source = source] \in Works
  BY DEF Works
<1> QED BY <1>1, <1>2, <1>3

LEMMA HandoffTypes ==
    ASSUME NEW r \in HandoffRecords
    PROVE  /\ \A phase \in Phases \cup {"complete"} : [r EXCEPT !.phase = phase] \in HandoffRecords
           /\ \A source \in SUBSET Edits :
                 [r EXCEPT !.phase = "source-settled", !.source = source] \in HandoffRecords
           /\ \A proof \in Documents :
                 [r EXCEPT !.phase = "target-recovered", !.target = proof] \in HandoffRecords
           /\ \A t \in Tabs, intent \in Intents :
                 [r EXCEPT !.id = t, !.intent = intent, !.phase = "freezing-source"]
                     \in HandoffRecords
<1>1. \A phase \in Phases \cup {"complete"} : [r EXCEPT !.phase = phase] \in HandoffRecords
  BY DEF HandoffRecords
<1>2. \A source \in SUBSET Edits :
         [r EXCEPT !.phase = "source-settled", !.source = source] \in HandoffRecords
  BY DEF HandoffRecords, Phases, SourcePhases
<1>3. \A proof \in Documents :
         [r EXCEPT !.phase = "target-recovered", !.target = proof] \in HandoffRecords
  BY DEF HandoffRecords, Phases, SourcePhases
<1>4. \A t \in Tabs, intent \in Intents :
         [r EXCEPT !.id = t, !.intent = intent, !.phase = "freezing-source"] \in HandoffRecords
  BY DEF HandoffRecords, Phases, SourcePhases
<1> QED BY <1>1, <1>2, <1>3, <1>4

\* What a page sends.
LEMMA SendTypes ==
    ASSUME TypeOK, NEW t \in Tabs, NEW kind \in Phases \cup {"begin"},
           NEW record \in HandoffRecords, SendWrite(t, kind, record)
    PROVE  write' \in [Tabs -> OwnerWrites]
<1>1. view[t].generation \in Nat
  BY DEF TypeOK, Views
<1>2. [kind |-> kind, record |-> record, generation |-> view[t].generation, outcome |-> "sent"]
          \in OwnerWrites
  BY <1>1 DEF OwnerWrites
<1> QED BY <1>2 DEF SendWrite, TypeOK

LEMMA HeadTypes ==
    ASSUME TypeOK, NEW content \in Contents, NEW revision \in Nat
    PROVE  CleanHead(content, revision) \in Heads
BY DEF CleanHead, Heads

\* A step of a page that leaves the durable records alone.
PageStepType(t) ==
    /\ UNCHANGED <<ownerdb, saved, target, cloud>>
    /\ epoch' \in {epoch, t, NoTab}
    /\ primary' \in {primary, t, NoTab}
    /\ faults' = faults \/ Fault

LEMMA PageType ==
    ASSUME TypeOK, NEW t \in Tabs, PageStepType(t),
           view' \in [Tabs -> Views], accepted' \in [Tabs -> SUBSET Edits],
           commit' \in [Tabs -> SUBSET Edits], write' \in [Tabs -> OwnerWrites],
           work' \in [Tabs -> Works], obstructed' \in BOOLEAN
    PROVE  TypeOK'
<1>1. faults' \in 0..MaxFaults
  BY MaxFaultsAssumption DEF TypeOK, PageStepType, Fault
<1> QED BY <1>1 DEF TypeOK, PageStepType, ownerdb, target

LEMMA PhaseKinds ==
    Phases = {"freezing-source", "source-settled", "target-authenticated", "target-recovered",
              "target-active"}
BY DEF Phases, SourcePhases

LEMMA MoveTypes ==
    ASSUME TypeOK, NEW t \in Tabs
    PROVE  /\ \A stage \in {"loop", "captured", "group", "effect", "verified"} :
                 Move(t, stage) => work' \in [Tabs -> Works]
           /\ Abandon(t) => work' \in [Tabs -> Works]
<1>1. Idle \in Works /\ work \in [Tabs -> Works] /\ work[t] \in Works
  BY RecordTypes DEF TypeOK
<1>2. \A stage \in {"loop", "captured", "group", "effect", "verified"} :
         [work[t] EXCEPT !.at = stage] \in Works
  BY <1>1, WorkTypes
<1>3. \A w \in Works : [work EXCEPT ![t] = w] \in [Tabs -> Works]
  BY <1>1
<1> QED BY <1>1, <1>2, <1>3 DEF Move, Abandon

LEMMA PublishedType ==
    ASSUME NEW v \in Views, NEW w \in OwnerWrites
    PROVE  Published(v, w) \in Views
<1> DEFINE b == IF w.kind = "target-recovered" THEN Activated(v) ELSE v
<1>1. w.record \in HandoffRecords
  BY DEF OwnerWrites
<1>2. b.owner \in {Local, Account} /\ b.generation \in Nat
  BY DEF Activated, Views
<1> HIDE DEF b
<1>3. [v EXCEPT !.handoff = w.record, !.owner = b.owner, !.generation = b.generation] \in Views
  BY <1>1, <1>2 DEF Views
<1> QED BY <1>3 DEF Published, b

\* The actions of a page that leave the durable records alone.
LEMMA OpenType ==
    ASSUME TypeOK, NEW t \in Tabs, Open(t) \/ Hydrate(t) \/ Crash(t) \/ Reload(t) \/ LoseLock(t)
    PROVE  TypeOK'
<1>1. CASE Open(t)
  <2>1. [view[t] EXCEPT !.open = TRUE] \in Views
    BY Typed DEF Views
  <2> QED BY <1>1, <2>1, PageType DEF Open, PageStepType, TypeOK
<1>2. CASE Hydrate(t)
  <2>1. [open |-> TRUE, owner |-> binding.owner, generation |-> binding.generation,
         handoff |-> handoff, blocked |-> FALSE] \in Views
    BY Typed DEF Bindings, Views
  <2>2. [work[t] EXCEPT !.at = "loop"] \in Works
    BY Typed, WorkTypes
  <2>3. view' \in [Tabs -> Views] /\ work' \in [Tabs -> Works]
    BY <1>2, <2>1, <2>2 DEF Hydrate, TypeOK
  <2> QED BY <1>2, <2>3, PageType DEF Hydrate, PageStepType, TypeOK
<1>3. CASE Crash(t) \/ Reload(t)
  <2>1. /\ view' \in [Tabs -> Views] /\ accepted' \in [Tabs -> SUBSET Edits]
        /\ commit' \in [Tabs -> SUBSET Edits] /\ write' \in [Tabs -> OwnerWrites]
        /\ work' \in [Tabs -> Works]
    BY <1>3, RecordTypes DEF Crash, Reload, Leave, TypeOK
  <2> QED BY <1>3, <2>1, PageType DEF Crash, Reload, Leave, PageStepType, TypeOK
<1>4. CASE LoseLock(t)
  BY <1>4, PageType DEF LoseLock, PageStepType, TypeOK, pages
<1> QED BY <1>1, <1>2, <1>3, <1>4

LEMMA EditType ==
    ASSUME TypeOK, NEW t \in Tabs,
           (\E e \in Edits : AcceptEdit(t, e)) \/ Commit(t) \/ CommitAnswered(t)
    PROVE  TypeOK'
<1>1. CASE \E e \in Edits : AcceptEdit(t, e)
  BY <1>1, PageType DEF AcceptEdit, PageStepType, TypeOK
<1>2. CASE Commit(t)
  BY <1>2, PageType DEF Commit, PageStepType, TypeOK
<1>3. CASE CommitAnswered(t)
  <2>1. saved' \subseteq Edits
    BY <1>3, Typed DEF CommitAnswered
  <2>2. accepted' \in [Tabs -> SUBSET Edits] /\ commit' \in [Tabs -> SUBSET Edits]
    BY <1>3 DEF CommitAnswered, TypeOK
  <2> QED BY <1>3, <2>1, <2>2 DEF CommitAnswered, TypeOK, ownerdb, target
<1> QED BY <1>1, <1>2, <1>3

LEMMA ServeType ==
    ASSUME TypeOK, NEW t \in Tabs, ServeWrite(t) \/ FailWrite(t)
    PROVE  TypeOK'
<1>1. write[t] \in OwnerWrites /\ write[t].record \in HandoffRecords
  BY Typed DEF OwnerWrites
<1>2. \A outcome \in {"done", "failed"} : [write[t] EXCEPT !.outcome = outcome] \in OwnerWrites
  BY <1>1 DEF OwnerWrites
<1>3. write' \in [Tabs -> OwnerWrites]
  BY <1>2 DEF ServeWrite, FailWrite, TypeOK
<1>4. Activated(binding) \in Bindings
  BY Typed DEF Activated, Bindings
<1>5. CASE ServeWrite(t)
  BY <1>1, <1>3, <1>4, <1>5 DEF ServeWrite, TypeOK, ownerdb, target
<1>6. CASE FailWrite(t)
  BY <1>3, <1>6, PageType DEF FailWrite, PageStepType, TypeOK
<1> QED BY <1>5, <1>6

LEMMA AnswerType ==
    ASSUME TypeOK, NEW t \in Tabs, WriteAnswered(t)
    PROVE  TypeOK'
<1>1. Published(view[t], write[t]) \in Views
  BY PublishedType, Typed
<1>2. [view[t] EXCEPT !.blocked = TRUE] \in Views
  BY Typed DEF Views
<1>3. [Idle EXCEPT !.at = "loop"] \in Works /\ Idle \in Works
  BY RecordTypes, WorkTypes
<1>4. view' \in [Tabs -> Views]
  BY <1>1, <1>2 DEF WriteAnswered, TypeOK
<1>5. work' \in [Tabs -> Works]
  BY <1>3 DEF WriteAnswered, TypeOK
<1>6. write' \in [Tabs -> OwnerWrites]
  BY RecordTypes DEF WriteAnswered, TypeOK
<1> QED BY <1>4, <1>5, <1>6, PageType DEF WriteAnswered, PageStepType, TypeOK

LEMMA ProofType == TypeOK => TargetProof \in Documents
BY Typed DEF TargetProof, Documents, Heads

LEMMA SendType ==
    ASSUME TypeOK, NEW t \in Tabs,
           \/ \E intent \in Intents : Begin(t, intent)
           \/ Settled(t) \/ Authenticated(t) \/ Recovered(t) \/ Activate(t)
    PROVE  TypeOK'
<1>1. view[t].handoff \in HandoffRecords /\ work[t].source \in SUBSET Edits
  BY Typed
<1>2. ASSUME NEW intent \in Intents, Begin(t, intent) PROVE TypeOK'
  <2>1. [NoHandoff EXCEPT !.id = t, !.intent = intent, !.phase = "freezing-source"]
            \in HandoffRecords
    BY HandoffTypes, RecordTypes
  <2>2. write' \in [Tabs -> OwnerWrites]
    BY <1>2, <2>1, SendTypes DEF Begin
  <2>3. obstructed' \in BOOLEAN
    BY <1>2 DEF Begin, TypeOK
  <2> QED BY <1>2, <2>2, <2>3, PageType DEF Begin, PageStepType, TypeOK
<1>3. CASE Settled(t)
  <2>1. write' \in [Tabs -> OwnerWrites]
    BY <1>1, <1>3, HandoffTypes, SendTypes, PhaseKinds DEF Settled
  <2> QED BY <1>3, <2>1, PageType DEF Settled, PageStepType, TypeOK
<1>4. CASE Authenticated(t)
  <2>1. write' \in [Tabs -> OwnerWrites]
    BY <1>1, <1>4, HandoffTypes, SendTypes, PhaseKinds DEF Authenticated
  <2> QED BY <1>4, <2>1, PageType DEF Authenticated, PageStepType, TypeOK
<1>5. CASE Recovered(t)
  <2>1. write' \in [Tabs -> OwnerWrites] /\ work' \in [Tabs -> Works]
    <3>1. CASE Abandon(t) /\ UNCHANGED write
      BY <3>1, MoveTypes DEF TypeOK
    <3>2. CASE /\ SendWrite(t, "target-authenticated",
                     [view[t].handoff EXCEPT !.phase = "target-recovered", !.target = TargetProof])
               /\ UNCHANGED work
      <4>1. [view[t].handoff EXCEPT !.phase = "target-recovered", !.target = TargetProof]
                \in HandoffRecords
        BY <1>1, HandoffTypes, ProofType
      <4> QED BY <3>2, <4>1, SendTypes, PhaseKinds DEF TypeOK
    <3> QED BY <1>5, <3>1, <3>2 DEF Recovered
  <2> QED BY <1>5, <2>1, PageType DEF Recovered, PageStepType, TypeOK
<1>6. CASE Activate(t)
  <2>1. /\ view[t].handoff.phase \in Phases
        /\ FinishPhase(view[t].handoff.phase) \in Phases \cup {"complete"}
    BY <1>6, PhaseKinds DEF Activate, At, FinishPhase
  <2>2. write' \in [Tabs -> OwnerWrites]
    BY <1>1, <1>6, <2>1, HandoffTypes, SendTypes DEF Activate
  <2> QED BY <1>6, <2>2, PageType DEF Activate, PageStepType, TypeOK
<1> QED BY <1>2, <1>3, <1>4, <1>5, <1>6

LEMMA WorkType ==
    ASSUME TypeOK, NEW t \in Tabs, Capture(t) \/ VerifyGroup(t) \/ Finish(t) \/ Fail(t)
    PROVE  TypeOK'
<1>1. work' \in [Tabs -> Works]
  <2>1. CASE Capture(t)
    <3>1. [work[t] EXCEPT !.at = "captured", !.source = saved] \in Works
      BY Typed, WorkTypes
    <3>2. work' = [work EXCEPT ![t] = [work[t] EXCEPT !.at = "captured", !.source = saved]]
          \/ Abandon(t)
      BY <2>1 DEF Capture
    <3> QED BY <3>1, <3>2, MoveTypes DEF TypeOK
  <2>2. CASE VerifyGroup(t) \/ Finish(t) \/ Fail(t)
    BY <2>2, MoveTypes DEF VerifyGroup, Finish, Fail
  <2> QED BY <2>1, <2>2
<1>2. PageStepType(t)
  BY DEF Capture, VerifyGroup, Finish, Fail, PageStepType
<1> QED BY <1>1, <1>2, PageType DEF Capture, VerifyGroup, Finish, Fail, TypeOK

LEMMA TargetType ==
    ASSUME TypeOK, HeadOk, PagesOk, NEW t \in Tabs,
           \/ Prepare(t) \/ InitializeHead(t) \/ SyncHead(t) \/ AckHead(t)
           \/ AdvanceGroup(t) \/ Mark(t)
    PROVE  TypeOK'
<1>0. /\ UNCHANGED <<ownerdb, saved, epoch, primary, view, accepted, commit, write, obstructed,
                     faults>>
  BY DEF Prepare, InitializeHead, SyncHead, AckHead, AdvanceGroup, Mark
<1>1. CASE Prepare(t)
  <2>1. work' \in [Tabs -> Works]
    BY <1>1, MoveTypes DEF Prepare
  <2>2. [id |-> view[t].handoff.id, phase |-> "prepared", revision |-> cloud.revision,
         content |-> cloud.content] \in Groups
    BY Typed DEF HandoffRecords, Clouds, Groups
  <2> QED BY <1>0, <1>1, <2>1, <2>2 DEF Prepare, TypeOK, ownerdb
<1>2. CASE InitializeHead(t)
  <2>1. work' \in [Tabs -> Works]
    BY <1>2, MoveTypes DEF InitializeHead
  <2>2. group.content \in Contents /\ group.revision \in Nat
    BY Typed DEF Groups
  <2>3. work[t].source \in Contents
    BY Typed DEF Contents
  <2>4. [NoHead EXCEPT !.state = work[t].source, !.known = TRUE] \in Heads
    BY <2>3, RecordTypes DEF Heads
  <2>5. PlannedHead(t) \in Heads
    BY <2>2, <2>4, HeadTypes DEF PlannedHead
  <2> QED BY <1>0, <1>2, <2>1, <2>5 DEF InitializeHead, TypeOK, ownerdb
<1>3. CASE SyncHead(t)
  <2>1. group.id \in Tabs \cup {NoTab}
    BY Typed DEF Groups
  <2>2. AfterSave(group.id, head.state) \in Clouds
    BY <2>1, Typed DEF AfterSave, Clouds
  <2>3. cloud' \in Clouds
    BY <1>3, <2>2, Typed DEF SyncHead
  <2>4. [revision |-> cloud'.revision, content |-> cloud'.content] \in Documents
    BY <2>3 DEF Clouds, Documents
  <2>5. [work[t] EXCEPT !.at = "sent", !.proof = [revision |-> cloud'.revision,
                                                  content |-> cloud'.content]] \in Works
    BY <2>4, Typed, WorkTypes
  <2>6. work' \in [Tabs -> Works]
    <3>1. \/ work' = [work EXCEPT ![t] = [work[t] EXCEPT !.at = "sent",
                          !.proof = [revision |-> cloud'.revision, content |-> cloud'.content]]]
          \/ Abandon(t) \/ Move(t, "effect")
      BY <1>3 DEF SyncHead, Abandon
    <3> QED BY <2>5, <3>1, MoveTypes DEF TypeOK
  <2>7. [head EXCEPT !.flight = TRUE] \in Heads
    BY Typed DEF Heads
  <2>8. head' \in Heads
    BY <1>3, <2>7, Typed DEF SyncHead
  <2> QED BY <1>0, <1>3, <2>3, <2>6, <2>8 DEF SyncHead, TypeOK, ownerdb
<1>4. CASE AckHead(t)
  <2>1. work' \in [Tabs -> Works]
    BY <1>4, MoveTypes DEF AckHead
  <2>2. work[t].proof.revision \in Nat
    BY Typed DEF Works, Documents
  <2>3. CleanHead(head.state, work[t].proof.revision) \in Heads
    BY <2>2, HeadTypes, Typed
  <2> QED BY <1>0, <1>4, <2>1, <2>3 DEF AckHead, TypeOK, ownerdb
<1>5. CASE AdvanceGroup(t)
  <2>1. work' \in [Tabs -> Works]
    BY <1>5, MoveTypes DEF AdvanceGroup
  <2>2. Known(view[t].handoff)
    BY <1>5 DEF PagesOk, ViewOk, AdvanceGroup, At, Pending
  <2>3. group' = group
        \/ /\ group.phase \in {"prepared", "initialized", "synced"}
           /\ group' = [group EXCEPT !.phase = NextGroupPhase[group.phase]]
    BY <1>5, <2>2, Typed DEF AdvanceGroup, Known, Begun, HeadOk, Groups, Pending
  <2>4. \A phase \in {"prepared", "initialized", "synced"} :
           NextGroupPhase[phase] \in {"none", "prepared", "initialized", "synced", "complete"}
    BY DEF NextGroupPhase
  <2>5. \A phase \in {"none", "prepared", "initialized", "synced", "complete"} :
           [group EXCEPT !.phase = phase] \in Groups
    BY Typed DEF Groups
  <2>6. group' \in Groups
    BY <2>3, <2>4, <2>5, Typed
  <2> QED BY <1>0, <1>5, <2>1, <2>6 DEF AdvanceGroup, TypeOK, ownerdb
<1>6. CASE Mark(t)
  <2>1. [work[t] EXCEPT !.at = "marked", !.proof = TargetProof] \in Works
    BY ProofType, Typed, WorkTypes
  <2>2. \/ work' = [work EXCEPT ![t] = [work[t] EXCEPT !.at = "marked", !.proof = TargetProof]]
        \/ Abandon(t)
    BY <1>6 DEF Mark
  <2>3. work' \in [Tabs -> Works]
    BY <2>1, <2>2, MoveTypes DEF TypeOK
  <2>4. marker' \in BOOLEAN
    BY <1>6 DEF Mark, TypeOK
  <2> QED BY <1>0, <1>6, <2>3, <2>4 DEF Mark, TypeOK, ownerdb
<1> QED BY <1>1, <1>2, <1>3, <1>4, <1>5, <1>6

LEMMA RemoteType ==
    ASSUME TypeOK, NEW o \in Others, Remote(o)
    PROVE  TypeOK'
<1>1. cloud' \in Clouds
  BY Typed DEF Remote, Clouds, Contents
<1>2. obstructed' \in BOOLEAN
  BY DEF Remote, TypeOK
<1> QED BY <1>1, <1>2 DEF Remote, TypeOK, ownerdb, target, pages

LEMMA TypeNext ==
    ASSUME TypeOK, HeadOk, PagesOk, [Next]_vars
    PROVE  TypeOK'
<1>1. CASE UNCHANGED vars
  BY <1>1 DEF vars, TypeOK, ownerdb, target, pages
<1> QED BY <1>1, OpenType, EditType, ServeType, AnswerType, SendType, WorkType, TargetType,
           RemoteType
        DEF Next, Step

-----------------------------------------------------------------------------
(* What a step of one page leaves alone *)

\* Only page t moves, and of the durable state at most the epoch is closed.
Alone(t) ==
    /\ UNCHANGED <<ownerdb, saved>>
    /\ epoch' \in {epoch, NoTab}
    /\ \A u \in Tabs \ {t} : view'[u] = view[u] /\ write'[u] = write[u] /\ work'[u] = work[u]

LEMMA AloneKeeps ==
    ASSUME DurableOk, PagesOk, NEW t \in Tabs, Alone(t), ViewOk(t)', WriteOk(t)', WorkOk(t)'
    PROVE  DurableOk' /\ PagesOk'
<1>1. /\ UNCHANGED <<binding, handoff, saved>> /\ epoch' \in {epoch, NoTab}
      /\ \A u \in Tabs \ {t} : view'[u] = view[u] /\ write'[u] = write[u] /\ work'[u] = work[u]
  BY DEF Alone, ownerdb
<1>2. DurableOk'
  BY <1>1 DEF DurableOk, Begun
<1>3. \A record : Known(record) => Known(record)'
  BY <1>1 DEF Known, Begun
<1>4. Closing => Closing'
  BY <1>1 DEF Closing, Begun
<1>5. ASSUME NEW u \in Tabs \ {t} PROVE ViewOk(u)' /\ WriteOk(u)' /\ WorkOk(u)'
  <2>1. ViewOk(u) /\ WriteOk(u) /\ WorkOk(u)
    BY DEF PagesOk
  <2>2. ViewOk(u)'
    BY <1>1, <1>3, <2>1 DEF ViewOk, Pending, Known, Begun
  <2>3. WriteOk(u)'
    BY <1>1, <1>3, <2>1 DEF WriteOk, Known, Begun
  <2>4. WorkOk(u)'
    BY <1>1, <1>4, <2>1 DEF WorkOk
  <2> QED BY <2>2, <2>3, <2>4
<1> QED BY <1>2, <1>5 DEF PagesOk

\* No page becomes an editor, and an editor sees no new transaction but a begin.
LEMMA EditorKept ==
    ASSUME EditorOk, UNCHANGED ownerdb,
           \A t \in Tabs : Editor(t)' => Editor(t) /\ view'[t] = view[t],
           \A t \in Tabs : Editor(t)' => \A u \in Tabs :
               write'[u].outcome = "sent" => write'[u].kind = "begin" \/ write'[u] = write[u]
    PROVE  EditorOk'
<1>1. UNCHANGED <<binding, handoff>>
  BY DEF ownerdb
<1> QED BY <1>1 DEF EditorOk, Begun

LEMMA HeadKept ==
    ASSUME HeadOk, UNCHANGED <<ownerdb, saved, group, head>>, epoch' \in {epoch, NoTab},
           \A t \in Tabs : work'[t].at \in {"effect", "sent"} =>
               work[t].at \in {"effect", "sent"} \/ head.known
    PROVE  HeadOk'
<1>1. UNCHANGED handoff
  BY DEF ownerdb
<1> QED BY <1>1 DEF HeadOk, Closing, Begun

LEMMA CloudKept ==
    ASSUME CloudOk, UNCHANGED <<handoff, saved, head, cloud>>,
           \A t \in Tabs : Recovering(t)' => Recovering(t) \/ Uploaded
    PROVE  CloudOk'
<1>1. Uploaded' <=> Uploaded
  BY DEF Uploaded
<1> QED BY <1>1 DEF CloudOk, Begun

\* The variables the invariant is about, and the actions of which it says nothing.
LEMMA UnchangedKeeps ==
    ASSUME Safe,
           UNCHANGED <<ownerdb, saved, epoch, group, head, cloud, primary, view, write, work>>
    PROVE  Safe'
<1>1. UNCHANGED <<binding, handoff, saved, epoch, group, head, cloud, primary, view, write, work>>
  BY DEF ownerdb
<1>2. DurableOk' /\ HeadOk' /\ CloudOk'
  BY <1>1 DEF Safe, DurableOk, HeadOk, CloudOk, Begun, Closing, Uploaded, Recovering
<1>3. PagesOk'
  BY <1>1 DEF Safe, PagesOk, ViewOk, WriteOk, WorkOk, Known, Pending, Begun, Closing
<1>4. EditorOk'
  BY <1>1 DEF Safe, EditorOk, Editor, Primary, Pending, Begun
<1> QED BY <1>2, <1>3, <1>4 DEF Safe

-----------------------------------------------------------------------------
(* Pages *)

\* A page leaves, or the lock goes.
LEMMA LeaveStep ==
    ASSUME IInv, NEW t \in Tabs, Crash(t) \/ Reload(t) \/ LoseLock(t)
    PROVE  Safe'
<1>1. CASE LoseLock(t)
  <2>1. UNCHANGED <<ownerdb, saved, epoch, group, head, cloud, view, write, work>> /\ primary' = NoTab
    BY <1>1 DEF LoseLock, target, pages
  <2>2. DurableOk' /\ PagesOk' /\ HeadOk' /\ CloudOk'
    BY <2>1 DEF IInv, Safe, ownerdb, DurableOk, PagesOk, HeadOk, CloudOk, ViewOk, WriteOk,
                WorkOk, Known, Pending, Begun, Closing, Uploaded, Recovering
  <2>3. EditorOk'
    BY <2>1, TabsAssumption DEF EditorOk, Editor, Primary
  <2> QED BY <2>2, <2>3 DEF Safe
<1>2. CASE Crash(t) \/ Reload(t)
  <2>0. /\ UNCHANGED <<ownerdb, saved, epoch, group, head, cloud>>
        /\ view' = [view EXCEPT ![t] = Closed] /\ write' = [write EXCEPT ![t] = NoWrite]
        /\ work' = [work EXCEPT ![t] = Idle]
        /\ primary' \in {primary, NoTab}
    BY <1>2 DEF Crash, Reload, Leave, target
  <2>1. view'[t] = Closed /\ write'[t] = NoWrite /\ work'[t] = Idle
    BY <2>0 DEF IInv, TypeOK
  <2>2. \A u \in Tabs \ {t} : view'[u] = view[u] /\ write'[u] = write[u] /\ work'[u] = work[u]
    BY <2>0 DEF IInv, TypeOK
  <2>3. Alone(t)
    BY <2>0, <2>2 DEF Alone
  <2>4. ViewOk(t)' /\ WriteOk(t)' /\ WorkOk(t)'
    <3>1. ViewOk(t)'
      BY <2>1 DEF ViewOk, Closed, NoHandoff, Pending
    <3>2. WriteOk(t)' /\ WorkOk(t)'
      BY <2>1 DEF WriteOk, WorkOk, Idle
    <3> QED BY <3>1, <3>2
  <2>5. DurableOk' /\ PagesOk'
    BY <2>3, <2>4, AloneKeeps DEF IInv, Safe
  <2>6. EditorOk'
    <3>1. \A u \in Tabs : Editor(u)' => u # t /\ Editor(u)
      BY <2>0, <2>1, <2>2, TabsAssumption DEF Editor, Primary, Closed, Pending
    <3>2. \A u \in Tabs : write'[u].outcome = "sent" => write'[u] = write[u]
      BY <2>1, <2>2 DEF NoWrite
    <3> QED BY <2>0, <2>2, <3>1, <3>2, EditorKept DEF IInv, Safe
  <2>7. HeadOk'
    BY <2>0, <2>1, <2>2, HeadKept DEF IInv, Safe, Idle
  <2>8. CloudOk'
    BY <2>0, <2>1, <2>2, CloudKept DEF IInv, Safe, ownerdb, Recovering, NoWrite
  <2> QED BY <2>5, <2>6, <2>7, <2>8 DEF Safe
<1> QED BY <1>1, <1>2

LEMMA OpenStep ==
    ASSUME IInv, NEW t \in Tabs, Open(t)
    PROVE  Safe'
<1>1. /\ UNCHANGED <<ownerdb, saved, epoch, group, head, cloud, write, work>>
      /\ view[t].blocked /\ view[t] \in Views
      /\ primary' = t
      /\ view'[t] = [view[t] EXCEPT !.open = TRUE]
      /\ \A u \in Tabs \ {t} : view'[u] = view[u]
  BY DEF Open, IInv, Safe, TypeOK, PagesOk, ViewOk, target
<1>2. view'[t].blocked /\ view'[t].handoff = view[t].handoff /\ view'[t].owner = view[t].owner
  BY <1>1 DEF Views
<1>3. ViewOk(t) /\ WriteOk(t) /\ WorkOk(t)
  BY DEF IInv, Safe, PagesOk
<1>4. ViewOk(t)' /\ WriteOk(t)' /\ WorkOk(t)'
  BY <1>1, <1>2, <1>3 DEF ownerdb, ViewOk, WriteOk, WorkOk, Known, Pending, Begun, Closing
<1>5. DurableOk' /\ PagesOk'
  BY <1>1, <1>4, AloneKeeps DEF Alone, IInv, Safe
<1>6. EditorOk'
  BY <1>1, <1>2 DEF EditorOk, Editor, Primary
<1>7. HeadOk' /\ CloudOk'
  BY <1>1, HeadKept, CloudKept DEF IInv, Safe, ownerdb, Recovering
<1> QED BY <1>5, <1>6, <1>7 DEF Safe

\* A page that reads the durable pair knows it; only a device that never began
\* a transfer opens the journal of the local owner.
LEMMA HydrateStep ==
    ASSUME IInv, NEW t \in Tabs, Hydrate(t)
    PROVE  Safe'
<1>1. /\ UNCHANGED <<binding, handoff, saved, group, head, cloud, write, primary>>
      /\ view'[t] = [open |-> TRUE, owner |-> binding.owner, generation |-> binding.generation,
                     handoff |-> handoff, blocked |-> FALSE]
      /\ \A u \in Tabs \ {t} : view'[u] = view[u] /\ work'[u] = work[u]
      /\ Primary(t) /\ view[t].generation = 0
  BY DEF Hydrate, IInv, TypeOK, ownerdb, target
<1>2. work'[t].at = work[t].at \/ work'[t].at = "loop"
  BY Typed DEF IInv, TypeOK, Hydrate, Works
<1>3. work'[t].source = work[t].source
  BY Typed DEF IInv, TypeOK, Hydrate, Works
<1>4. epoch' # epoch => ~Pending(handoff) /\ binding.owner = Local
  BY DEF Hydrate
<1>5. DurableOk /\ PagesOk /\ EditorOk /\ HeadOk /\ CloudOk
  BY DEF IInv, Safe
<1>6. epoch' # epoch => ~Begun
  BY <1>4, <1>5 DEF DurableOk, Pending, Local, Account
<1>7. write[t] = NoWrite
  BY <1>1, <1>5 DEF PagesOk, ViewOk, WriteOk
<1>8. \A record : Known(record) => Known(record)'
  BY <1>1, <1>6 DEF Known, Begun
<1>9. Closing => Closing'
  BY <1>1, <1>6 DEF Closing, Begun
<1>10. DurableOk'
  BY <1>1, <1>5, <1>6 DEF DurableOk, Begun
<1>11. ViewOk(t)'
  <2>1. Pending(handoff) => Known(handoff)
    BY <1>5 DEF DurableOk, Known, Pending, Begun
  <2>2. handoff.phase = "target-active" => binding.owner = Account
    BY <1>5 DEF DurableOk
  <2> QED BY <1>1, <1>5, <1>8, <2>1, <2>2 DEF ViewOk, Pending, Known, Begun, DurableOk
<1>12. PagesOk'
  <2>1. WriteOk(t)'
    BY <1>1, <1>7 DEF WriteOk
  <2>2. WorkOk(t)'
    BY <1>1, <1>2, <1>3, <1>5, <1>9 DEF PagesOk, WorkOk
  <2>3. ASSUME NEW u \in Tabs \ {t} PROVE ViewOk(u)' /\ WriteOk(u)' /\ WorkOk(u)'
    <3>1. ViewOk(u) /\ WriteOk(u) /\ WorkOk(u)
      BY <1>5 DEF PagesOk
    <3>2. ViewOk(u)'
      BY <1>1, <1>8, <3>1 DEF ViewOk, Pending, Known, Begun
    <3>3. WriteOk(u)'
      BY <1>1, <1>8, <3>1 DEF WriteOk, Known, Begun
    <3>4. WorkOk(u)'
      BY <1>1, <1>9, <3>1 DEF WorkOk
    <3> QED BY <3>2, <3>3, <3>4
  <2> QED BY <1>11, <2>1, <2>2, <2>3 DEF PagesOk
<1>13. EditorOk'
  <2> SUFFICES ASSUME NEW u \in Tabs, Editor(u)'
               PROVE  \/ /\ view'[u].owner = Account /\ binding.owner = Account
                         /\ handoff.phase = "complete"
                      \/ /\ view'[u].owner = Local /\ binding.owner = Local
                         /\ ~Begun \/ handoff.phase = "freezing-source"
                         /\ \A v \in Tabs : write[v].outcome = "sent" => write[v].kind = "begin"
    BY <1>1 DEF EditorOk, Begun
  <2>1. u = t /\ handoff.phase = "complete" /\ view'[u].owner = binding.owner
    BY <1>1 DEF Editor, Primary, Pending
  <2>2. CASE Begun
    BY <1>5, <2>1, <2>2 DEF DurableOk
  <2>3. CASE ~Begun
    <3>1. binding.owner = Local
      BY <1>5, <2>3 DEF DurableOk
    <3>2. \A v \in Tabs : write[v].outcome = "sent" => write[v].kind = "begin"
      BY <1>5, <2>3 DEF PagesOk, WriteOk, Known, NoWrite
    <3> QED BY <2>1, <2>3, <3>1, <3>2
  <2> QED BY <2>2, <2>3
<1>14. HeadOk'
  <2>1. head.known => epoch' = epoch
    BY <1>5, <1>6 DEF HeadOk, Closing
  <2>2. \A u \in Tabs : work'[u].at \in {"effect", "sent"} => work[u].at \in {"effect", "sent"}
    BY <1>1, <1>2
  <2> QED BY <1>1, <1>5, <2>1, <2>2 DEF HeadOk, Closing, Begun
<1>15. CloudOk'
  BY <1>1, <1>5, CloudKept DEF Recovering
<1> QED BY <1>10, <1>12, <1>13, <1>14, <1>15 DEF Safe

LEMMA EditStep ==
    ASSUME IInv, NEW t \in Tabs,
           (\E e \in Edits : AcceptEdit(t, e)) \/ Commit(t) \/ CommitAnswered(t)
    PROVE  Safe'
<1>1. CASE saved' = saved
  BY <1>1, UnchangedKeeps DEF AcceptEdit, Commit, CommitAnswered, IInv, target
<1>2. CASE saved' # saved
  <2>1. epoch = t /\ UNCHANGED <<binding, handoff, epoch, group, head, cloud, primary, view,
                                 write, work>>
    BY <1>2 DEF AcceptEdit, Commit, CommitAnswered, ownerdb, target
  <2>2. epoch # NoTab /\ ~Closing
    BY <2>1, TabsAssumption DEF Closing
  <2>3. DurableOk'
    BY <2>1, <2>2 DEF IInv, Safe, DurableOk, Begun
  <2>4. PagesOk'
    BY <2>1, <2>2 DEF IInv, Safe, PagesOk, ViewOk, WriteOk, WorkOk, Known, Pending, Begun, Closing
  <2>5. EditorOk'
    BY <2>1 DEF IInv, Safe, EditorOk, Editor, Primary, Pending, Begun
  <2>6. ~head.known
    BY <2>2 DEF IInv, Safe, HeadOk
  <2>7. HeadOk' /\ CloudOk'
    BY <2>1, <2>6 DEF IInv, Safe, HeadOk, CloudOk, Uploaded, Recovering, Begun, Closing
  <2> QED BY <2>3, <2>4, <2>5, <2>7 DEF Safe
<1> QED BY <1>1, <1>2

-----------------------------------------------------------------------------
(* Owner transactions *)

LEMMA Order ==
    /\ NextPhase["begin"] = "freezing-source"
    /\ NextPhase["freezing-source"] = "source-settled"
    /\ NextPhase["source-settled"] = "target-authenticated"
    /\ NextPhase["target-authenticated"] = "target-recovered"
    /\ NextPhase["target-recovered"] = "target-active"
    /\ NextPhase["target-active"] = "complete"
BY PhaseKinds DEF NextPhase

\* A page sends a transaction; its view and the durable pair stay.
Sends(t, kind, record) ==
    /\ UNCHANGED <<ownerdb, saved, epoch, group, head, cloud, primary, view, work>>
    /\ SendWrite(t, kind, record)

LEMMA SendStep ==
    ASSUME IInv, NEW t \in Tabs, NEW kind \in Phases \cup {"begin"}, NEW record,
           Sends(t, kind, record),
           record.id # NoTab, record.phase = NextPhase[kind],
           kind = "target-active" => view[t].owner = Account,
           kind # "begin" => Primary(t) /\ Pending(view[t].handoff) /\ Known(record),
           kind = "target-authenticated" => Uploaded
    PROVE  Safe'
<1>1. /\ UNCHANGED <<binding, handoff, saved, epoch, group, head, cloud, primary, view, work>>
      /\ write'[t].kind = kind /\ write'[t].record = record /\ write'[t].outcome = "sent"
      /\ \A u \in Tabs \ {t} : write'[u] = write[u]
      /\ ~view[t].blocked
  BY DEF Sends, SendWrite, Ready, IInv, TypeOK, ownerdb
<1>2. ViewOk(t) /\ WorkOk(t)
  BY DEF IInv, Safe, PagesOk
<1>3. WriteOk(t)'
  BY <1>1, PhaseKinds DEF WriteOk, Known, Begun
<1>4. ViewOk(t)' /\ WorkOk(t)'
  BY <1>1, <1>2 DEF ViewOk, WorkOk, Pending, Known, Begun, Closing
<1>5. DurableOk' /\ PagesOk'
  BY <1>1, <1>3, <1>4, AloneKeeps DEF Alone, IInv, Safe, ownerdb
<1>6. EditorOk'
  <2>1. \A u \in Tabs : Editor(u)' => Editor(u) /\ view'[u] = view[u]
    BY <1>1 DEF Editor, Primary, Pending
  <2>2. \A u \in Tabs : Editor(u)' => kind = "begin"
    BY <1>1 DEF Editor, Primary
  <2> QED BY <1>1, <2>1, <2>2, EditorKept DEF IInv, Safe, ownerdb
<1>7. HeadOk' /\ CloudOk'
  BY <1>1, HeadKept, CloudKept DEF IInv, Safe, ownerdb, Recovering
<1> QED BY <1>5, <1>6, <1>7 DEF Safe

LEMMA PhaseStep ==
    ASSUME IInv, NEW t \in Tabs,
           \/ \E intent \in Intents : Begin(t, intent)
           \/ Settled(t) \/ Authenticated(t) \/ Activate(t)
    PROVE  Safe'
<1>1. view[t].handoff \in HandoffRecords /\ ViewOk(t) /\ WorkOk(t)
  BY Typed DEF IInv, Safe, PagesOk
<1>2. ASSUME NEW intent \in Intents, Begin(t, intent) PROVE Safe'
  <2> DEFINE r == [NoHandoff EXCEPT !.id = t, !.intent = intent, !.phase = "freezing-source"]
  <2>1. r.id # NoTab /\ r.phase = "freezing-source"
    BY TabsAssumption DEF NoHandoff
  <2>2. Sends(t, "begin", r)
    BY <1>2 DEF Begin, Sends, target
  <2> HIDE DEF r
  <2> QED BY <2>1, <2>2, Order, PhaseKinds, SendStep
<1>3. CASE Settled(t)
  <2> DEFINE r == [view[t].handoff EXCEPT !.phase = "source-settled", !.source = work[t].source]
  <2>1. Known(view[t].handoff) /\ Primary(t) /\ Pending(view[t].handoff)
    BY <1>1, <1>3 DEF Settled, At, ViewOk, Pending
  <2>2. epoch = NoTab /\ work[t].source = saved
    BY <1>1, <1>3 DEF Settled, At, WorkOk, Closing
  <2>3. /\ r.id = view[t].handoff.id /\ r.intent = view[t].handoff.intent
        /\ r.source = work[t].source /\ r.phase = "source-settled"
    BY <1>1 DEF HandoffRecords
  <2>4. Sends(t, "freezing-source", r)
    BY <1>3 DEF Settled, Sends, target
  <2> HIDE DEF r
  <2>5. Known(r) /\ r.id # NoTab
    BY <2>1, <2>2, <2>3 DEF Known, Begun
  <2> QED BY <2>1, <2>3, <2>4, <2>5, Order, PhaseKinds, SendStep
<1>4. CASE Authenticated(t)
  <2> DEFINE r == [view[t].handoff EXCEPT !.phase = "target-authenticated"]
  <2>1. Known(view[t].handoff) /\ Primary(t) /\ Pending(view[t].handoff)
        /\ view[t].handoff.phase = "source-settled"
    BY <1>1, <1>4 DEF Authenticated, At, ViewOk, Pending
  <2>2. /\ r.id = view[t].handoff.id /\ r.intent = view[t].handoff.intent
        /\ r.source = view[t].handoff.source /\ r.phase = "target-authenticated"
    BY <1>1 DEF HandoffRecords
  <2>3. Sends(t, "source-settled", r)
    BY <1>4 DEF Authenticated, Sends, target
  <2> HIDE DEF r
  <2>4. Known(r) /\ r.id # NoTab
    BY <2>1, <2>2 DEF Known, Begun
  <2> QED BY <2>1, <2>2, <2>3, <2>4, Order, PhaseKinds, SendStep
<1>5. CASE Activate(t)
  <2> DEFINE phase == view[t].handoff.phase
             r == [view[t].handoff EXCEPT !.phase = FinishPhase(phase)]
  <2>1. Known(view[t].handoff) /\ Primary(t) /\ Pending(view[t].handoff)
        /\ phase \in {"target-recovered", "target-active"}
    BY <1>1, <1>5 DEF Activate, At, ViewOk, Pending
  <2>2. /\ r.id = view[t].handoff.id /\ r.intent = view[t].handoff.intent
        /\ r.source = view[t].handoff.source /\ r.phase = FinishPhase(phase)
    BY <1>1 DEF HandoffRecords
  <2>3. Sends(t, phase, r)
    BY <1>5 DEF Activate, Sends, target
  <2>4. FinishPhase(phase) = NextPhase[phase]
    BY <2>1, Order DEF FinishPhase
  <2>5. phase = "target-active" => view[t].owner = Account
    BY <1>1 DEF ViewOk
  <2> HIDE DEF r, phase
  <2>6. Known(r) /\ r.id # NoTab
    BY <2>1, <2>2 DEF Known, Begun, phase
  <2> QED BY <2>1, <2>2, <2>3, <2>4, <2>5, <2>6, PhaseKinds, SendStep
<1> QED BY <1>2, <1>3, <1>4, <1>5

\* A page stops or goes on; nothing else moves but its work, and Capture's epoch.
WorkStep(t) ==
    /\ UNCHANGED <<ownerdb, saved, group, head, cloud, primary, view, write>>
    /\ epoch' \in {epoch, NoTab}
    /\ \A u \in Tabs \ {t} : work'[u] = work[u]
    /\ WorkOk(t)'
    /\ work'[t].at \in {"effect", "sent"} => head.known

LEMMA WorkKeeps ==
    ASSUME IInv, NEW t \in Tabs, WorkStep(t)
    PROVE  Safe'
<1>1. /\ UNCHANGED <<binding, handoff, saved, group, head, cloud, primary, view, write>>
      /\ epoch' \in {epoch, NoTab}
      /\ \A u \in Tabs \ {t} : work'[u] = work[u]
      /\ WorkOk(t)' /\ (work'[t].at \in {"effect", "sent"} => head.known)
  BY DEF WorkStep, ownerdb
<1>2. ViewOk(t) /\ WriteOk(t)
  BY DEF IInv, Safe, PagesOk
<1>3. ViewOk(t)' /\ WriteOk(t)'
  BY <1>1, <1>2 DEF ViewOk, WriteOk, Pending, Known, Begun
<1>4. DurableOk' /\ PagesOk'
  BY <1>1, <1>3, AloneKeeps DEF Alone, IInv, Safe, ownerdb
<1>5. EditorOk'
  BY <1>1, EditorKept DEF IInv, Safe, ownerdb, Editor, Primary, Pending
<1>6. HeadOk' /\ CloudOk'
  BY <1>1, HeadKept, CloudKept DEF IInv, Safe, ownerdb, Recovering
<1> QED BY <1>4, <1>5, <1>6 DEF Safe

\* A page that stops.
LEMMA Stops ==
    ASSUME TypeOK, NEW t \in Tabs, Abandon(t)
    PROVE  WorkOk(t)' /\ work'[t].at = "idle" /\ \A u \in Tabs \ {t} : work'[u] = work[u]
BY DEF Abandon, WorkOk, Idle, TypeOK

\* A page that goes on holds what it captured.
LEMMA Moves ==
    ASSUME TypeOK, NEW t \in Tabs, NEW stage, Move(t, stage)
    PROVE  /\ work'[t].at = stage /\ work'[t].source = work[t].source
           /\ \A u \in Tabs \ {t} : work'[u] = work[u]
<1>1. work[t] \in Works /\ work'[t] = [work[t] EXCEPT !.at = stage]
  BY DEF Move, TypeOK
<1>2. work'[t].at = stage /\ work'[t].source = work[t].source
  BY <1>1 DEF Works
<1> QED BY <1>2 DEF Move, TypeOK

LEMMA ProgressStep ==
    ASSUME IInv, NEW t \in Tabs, Capture(t) \/ VerifyGroup(t) \/ Finish(t) \/ Fail(t) \/ Mark(t)
    PROVE  Safe'
<1>1. TypeOK /\ ViewOk(t) /\ WorkOk(t)
  BY DEF IInv, Safe, PagesOk
<1>2. CASE Capture(t)
  <2>1. Pending(view[t].handoff)
    BY <1>2 DEF Capture, At, SourcePhases, Pending
  <2>2. Begun /\ UNCHANGED <<handoff, saved>> /\ epoch' = NoTab
    BY <1>1, <1>2, <2>1 DEF ViewOk, Known, Capture, ownerdb
  <2>3. CASE Abandon(t)
    BY <1>1, <1>2, <2>3, Stops, WorkKeeps DEF WorkStep, Capture, target
  <2>4. CASE work' = [work EXCEPT ![t].at = "captured", ![t].source = saved]
    <3>1. work'[t].at = "captured" /\ work'[t].source = saved
      BY <1>1, <2>4, Typed DEF TypeOK, Works
    <3>2. WorkOk(t)'
      BY <2>2, <3>1 DEF WorkOk, Closing, Begun
    <3> QED BY <1>1, <1>2, <2>4, <3>1, <3>2, WorkKeeps DEF WorkStep, Capture, target, TypeOK
  <2> QED BY <1>2, <2>3, <2>4 DEF Capture
<1>3. CASE Fail(t)
  BY <1>1, <1>3, Stops, WorkKeeps DEF WorkStep, Fail, target
<1>4. CASE VerifyGroup(t)
  <2>1. CASE Abandon(t)
    BY <1>1, <1>4, <2>1, Stops, WorkKeeps DEF WorkStep, VerifyGroup, target
  <2>2. CASE VerifiedHead /\ Move(t, "effect")
    <3>1. WorkOk(t)'
      BY <1>1, <1>4, <2>2, Moves DEF VerifyGroup, At, WorkOk, Closing, Begun, ownerdb
    <3> QED BY <1>1, <1>4, <2>2, <3>1, Moves, WorkKeeps
            DEF WorkStep, VerifyGroup, target, VerifiedHead
  <2> QED BY <1>4, <2>1, <2>2 DEF VerifyGroup
<1>5. CASE Finish(t)
  <2>1. CASE Abandon(t)
    BY <1>1, <1>5, <2>1, Stops, WorkKeeps DEF WorkStep, Finish, target
  <2>2. CASE Move(t, "verified")
    BY <1>1, <1>5, <2>2, Moves, WorkKeeps DEF WorkStep, WorkOk, Finish, target
  <2> QED BY <1>5, <2>1, <2>2 DEF Finish
<1>6. CASE Mark(t)
  <2>1. CASE Abandon(t)
    BY <1>1, <1>6, <2>1, Stops, WorkKeeps DEF WorkStep, Mark
  <2>2. CASE work' = [work EXCEPT ![t].at = "marked", ![t].proof = TargetProof]
    <3>1. work'[t].at = "marked" /\ work'[t].source = work[t].source
      BY <1>1, <2>2, Typed DEF TypeOK, Works
    <3>2. WorkOk(t)'
      BY <1>1, <1>6, <3>1 DEF WorkOk, Mark, At, Closing, Begun, ownerdb
    <3> QED BY <1>1, <1>6, <2>2, <3>1, <3>2, WorkKeeps DEF WorkStep, Mark, TypeOK
  <2> QED BY <1>6, <2>1, <2>2 DEF Mark
<1> QED BY <1>2, <1>3, <1>4, <1>5, <1>6

\* The target is recorded as recovered only when the server holds what was saved.
LEMMA RecoveredStep ==
    ASSUME IInv, NEW t \in Tabs, Recovered(t)
    PROVE  Safe'
<1>1. TypeOK /\ ViewOk(t) /\ WorkOk(t) /\ HeadOk
  BY DEF IInv, Safe, PagesOk
<1>2. CASE Abandon(t) /\ UNCHANGED write
  BY <1>1, <1>2, Stops, WorkKeeps DEF WorkStep, Recovered, target
<1>3. CASE /\ VerifiedHead /\ UNCHANGED work
           /\ SendWrite(t, "target-authenticated",
                  [view[t].handoff EXCEPT !.phase = "target-recovered", !.target = TargetProof])
  <2> DEFINE r == [view[t].handoff EXCEPT !.phase = "target-recovered", !.target = TargetProof]
  <2>1. Known(view[t].handoff) /\ Primary(t) /\ Pending(view[t].handoff)
        /\ view[t].handoff.phase = "target-authenticated"
    BY <1>1 DEF Recovered, At, ViewOk, Pending
  <2>2. /\ r.id = view[t].handoff.id /\ r.intent = view[t].handoff.intent
        /\ r.source = view[t].handoff.source /\ r.phase = "target-recovered"
    BY <1>1, Typed DEF HandoffRecords
  <2>3. Sends(t, "target-authenticated", r)
    BY <1>3 DEF Recovered, Sends, target
  <2>4. Uploaded
    BY <1>1, <1>3 DEF VerifiedHead, HeadOk, Uploaded
  <2> HIDE DEF r
  <2>5. Known(r) /\ r.id # NoTab
    BY <2>1, <2>2 DEF Known, Begun
  <2> QED BY <2>1, <2>2, <2>3, <2>4, <2>5, Order, PhaseKinds, SendStep
<1> QED BY <1>2, <1>3 DEF Recovered

\* An answer: a page with the lock learns the new pair, another is blocked.
LEMMA AnswerStep ==
    ASSUME IInv, NEW t \in Tabs, WriteAnswered(t)
    PROVE  Safe'
<1>1. TypeOK /\ DurableOk /\ EditorOk /\ HeadOk /\ CloudOk /\ ViewOk(t) /\ WriteOk(t)
  BY DEF IInv, Safe, PagesOk
<1>2. /\ UNCHANGED <<binding, handoff, saved, epoch, group, head, cloud, primary>>
      /\ write'[t] = NoWrite /\ write[t].outcome \in {"done", "failed"}
      /\ work'[t].at \in {"idle", "loop"}
      /\ \A u \in Tabs \ {t} : view'[u] = view[u] /\ write'[u] = write[u] /\ work'[u] = work[u]
  <2>1. work'[t] \in {Idle, [Idle EXCEPT !.at = "loop"]}
    BY <1>1 DEF WriteAnswered, TypeOK
  <2>2. work'[t].at \in {"idle", "loop"}
    BY <2>1 DEF Idle
  <2> QED BY <1>1, <2>2 DEF WriteAnswered, TypeOK, ownerdb, target
<1>3. /\ write[t] # NoWrite /\ ~view[t].blocked /\ view[t] \in Views /\ view[t].generation > 0
      /\ write[t] \in OwnerWrites /\ write[t].record \in HandoffRecords
      /\ write[t].kind \in Phases \cup {"begin"}
      /\ write[t].record.phase = NextPhase[write[t].kind]
      /\ view[t].open
  <2>1. write[t] # NoWrite
    BY <1>2 DEF NoWrite
  <2>2. view[t] \in Views /\ write[t] \in OwnerWrites
    BY <1>1, Typed
  <2> QED BY <1>1, <2>1, <2>2 DEF WriteOk, ViewOk, OwnerWrites
<1>4. \/ view'[t] = [view[t] EXCEPT !.blocked = TRUE]
      \/ /\ write[t].outcome = "done" /\ Known(write[t].record)
         /\ view'[t] = Published(view[t], write[t])
  BY <1>1, <1>3 DEF WriteAnswered, WriteOk, TypeOK
<1>5. WriteOk(t)' /\ WorkOk(t)'
  BY <1>2 DEF WriteOk, WorkOk
<1>6. /\ \A u \in Tabs : write'[u].outcome = "sent" => write'[u] = write[u]
      /\ \A u \in Tabs : Recovering(u)' => Recovering(u)
  BY <1>2 DEF NoWrite, Recovering
<1>7. HeadOk' /\ CloudOk'
  BY <1>1, <1>2, <1>6, HeadKept, CloudKept DEF ownerdb
<1>8. CASE view'[t] = [view[t] EXCEPT !.blocked = TRUE]
  <2>1. /\ view'[t].blocked /\ view'[t].handoff = view[t].handoff
        /\ view'[t].owner = view[t].owner /\ view'[t].open = view[t].open
    BY <1>3, <1>8 DEF Views
  <2>2. ViewOk(t)'
    BY <1>1, <1>2, <2>1 DEF ViewOk, Pending, Known, Begun
  <2>3. DurableOk' /\ PagesOk'
    BY <1>2, <1>5, <2>2, AloneKeeps DEF Alone, IInv, Safe, ownerdb
  <2>4. \A u \in Tabs : Editor(u)' => u # t /\ Editor(u)
    BY <1>2, <2>1 DEF Editor, Primary, Pending
  <2>5. EditorOk'
    BY <1>1, <1>2, <1>6, <2>4, EditorKept DEF ownerdb
  <2> QED BY <1>7, <2>3, <2>5 DEF Safe
<1>9. CASE /\ write[t].outcome = "done" /\ Known(write[t].record)
           /\ view'[t] = Published(view[t], write[t])
  <2>1. Published(view[t], write[t]).handoff = write[t].record
    BY <1>3 DEF Published, Views
  <2>2. /\ Published(view[t], write[t]).blocked = view[t].blocked
        /\ Published(view[t], write[t]).open = view[t].open
    BY <1>3 DEF Published, Views
  <2>3. Published(view[t], write[t]).generation > 0
    BY <1>3 DEF Published, Activated, Views
  <2>4. /\ write[t].kind = "target-recovered" => Published(view[t], write[t]).owner = Account
        /\ write[t].kind # "target-recovered" =>
              Published(view[t], write[t]).owner = view[t].owner
    BY <1>3 DEF Published, Activated, Views
  <2>5. /\ write[t].record.phase = "target-active" => write[t].kind = "target-recovered"
        /\ write[t].record.phase = "complete" => write[t].kind = "target-active"
    BY <1>3, Order, PhaseKinds
  <2>6. ViewOk(t)'
    <3>1. Known(view'[t].handoff)
      BY <1>9, <2>1
    <3> QED BY <1>2, <1>3, <1>9, <2>1, <2>2, <2>3, <2>4, <2>5, <3>1
            DEF ViewOk, Pending, Known, Begun
  <2>7. DurableOk' /\ PagesOk'
    BY <1>2, <1>5, <2>6, AloneKeeps DEF Alone, IInv, Safe, ownerdb
  <2>8. EditorOk'
    <3>1. ASSUME Editor(t)' PROVE /\ view'[t].owner = Account /\ binding.owner = Account
                                  /\ handoff.phase = "complete"
      <4>1. write[t].kind = "target-active"
        BY <1>9, <2>1, <2>5, <3>1 DEF Editor, Pending
      <4>2. view'[t].owner = Account /\ handoff.phase = "complete"
        BY <1>1, <1>3, <1>9, <2>4, <4>1 DEF WriteOk
      <4> QED BY <1>1, <1>9, <4>2 DEF DurableOk, Known
    <3>2. ASSUME NEW u \in Tabs \ {t}, Editor(u)' PROVE Editor(u)
      BY <1>2, <3>2 DEF Editor, Primary, Pending
    <3> QED BY <1>1, <1>2, <1>6, <3>1, <3>2 DEF EditorOk, Begun
  <2> QED BY <1>7, <2>7, <2>8 DEF Safe
<1> QED BY <1>4, <1>8, <1>9

\* A transaction that fails or is refused.
LEMMA FailedStep ==
    ASSUME IInv, NEW t \in Tabs, FailWrite(t) \/ (ServeWrite(t) /\ ~Admitted(write[t]))
    PROVE  Safe'
<1>1. TypeOK /\ ViewOk(t) /\ WriteOk(t) /\ WorkOk(t) /\ write[t] \in OwnerWrites
  BY Typed DEF IInv, Safe, PagesOk
<1>2. /\ UNCHANGED <<binding, handoff, saved, epoch, group, head, cloud, primary, view, work>>
      /\ write'[t] = [write[t] EXCEPT !.outcome = "failed"]
      /\ write[t] # NoWrite
      /\ \A u \in Tabs \ {t} : write'[u] = write[u]
  BY <1>1 DEF FailWrite, ServeWrite, TypeOK, ownerdb, target, NoWrite
<1>3. /\ write'[t].outcome = "failed" /\ write'[t].kind = write[t].kind
      /\ write'[t].record = write[t].record
  BY <1>1, <1>2 DEF OwnerWrites
<1>4. WriteOk(t)'
  BY <1>1, <1>2, <1>3 DEF WriteOk, Known, Begun
<1>5. ViewOk(t)' /\ WorkOk(t)'
  BY <1>1, <1>2 DEF ViewOk, WorkOk, Pending, Known, Begun, Closing
<1>6. DurableOk' /\ PagesOk'
  BY <1>2, <1>4, <1>5, AloneKeeps DEF Alone, IInv, Safe, ownerdb
<1>7. EditorOk'
  BY <1>2, <1>3, EditorKept DEF IInv, Safe, ownerdb, Editor, Primary, Pending
<1>8. HeadOk' /\ CloudOk'
  BY <1>2, <1>3, HeadKept, CloudKept DEF IInv, Safe, ownerdb, Recovering
<1> QED BY <1>6, <1>7, <1>8 DEF Safe

\* What every admitted transaction does.
LEMMA AdmittedOnly ==
    ASSUME IInv, NEW t \in Tabs, ServeWrite(t), Admitted(write[t])
    PROVE  /\ UNCHANGED <<saved, epoch, group, head, cloud, primary, view, work>>
           /\ handoff' = write[t].record
           /\ binding' = IF write[t].kind = "target-recovered" THEN Activated(binding) ELSE binding
           /\ write[t].outcome = "sent" /\ write[t] # NoWrite
           /\ write'[t] # NoWrite /\ write'[t].outcome = "done"
           /\ write'[t].kind = write[t].kind /\ write'[t].record = write[t].record
           /\ \A u \in Tabs \ {t} : write'[u] = write[u]
<1>1. TypeOK /\ write[t] \in OwnerWrites
  BY Typed DEF IInv
<1>2. write'[t] = [write[t] EXCEPT !.outcome = "done"]
  BY <1>1 DEF ServeWrite, TypeOK
<1>3. /\ write'[t].outcome = "done" /\ write'[t].kind = write[t].kind
      /\ write'[t].record = write[t].record
  BY <1>1, <1>2 DEF OwnerWrites
<1>4. write[t] # NoWrite /\ write'[t] # NoWrite /\ write[t].outcome = "sent"
  BY <1>3 DEF ServeWrite, NoWrite
<1> QED BY <1>1, <1>3, <1>4 DEF ServeWrite, TypeOK, target

\* The first transaction of a transfer is the last one that can begin one: no
\* page knows of a handoff, and nothing else is on its way.
LEMMA BeginServed ==
    ASSUME IInv, NEW t \in Tabs, ServeWrite(t), Admitted(write[t]), write[t].kind = "begin"
    PROVE  Safe'
<1>1. DurableOk /\ PagesOk /\ EditorOk /\ HeadOk /\ CloudOk
  BY DEF IInv, Safe
<1>2. /\ UNCHANGED <<saved, epoch, group, head, cloud, primary, view, work>>
      /\ handoff' = write[t].record /\ binding' = binding
      /\ write[t].outcome = "sent" /\ write[t] # NoWrite
      /\ write'[t] # NoWrite /\ write'[t].outcome = "done"
      /\ write'[t].kind = write[t].kind /\ write'[t].record = write[t].record
      /\ \A u \in Tabs \ {t} : write'[u] = write[u]
  BY AdmittedOnly
<1>3. ~Begun
  BY <1>1 DEF Admitted, DurableOk, Pending, Local, Account
<1>4. \A record : ~Known(record)
  BY <1>3 DEF Known
<1>5. Begun' /\ handoff'.phase = "freezing-source" /\ binding.owner = Local
  BY <1>1, <1>2, Order DEF PagesOk, WriteOk, Begun, Admitted
<1>7. \A u \in Tabs :
         /\ ~Pending(view[u].handoff)
         /\ work[u].at \notin {"captured", "group", "effect", "sent", "marked"}
         /\ write[u] # NoWrite => write[u].kind = "begin" /\ write[u].outcome # "done"
  BY <1>1, <1>3, <1>4 DEF PagesOk, ViewOk, WorkOk, WriteOk, Closing
<1>8. DurableOk'
  BY <1>1, <1>2, <1>5 DEF DurableOk, Local, Account
<1>9. PagesOk'
  <2> SUFFICES ASSUME NEW u \in Tabs PROVE ViewOk(u)' /\ WriteOk(u)' /\ WorkOk(u)'
    BY DEF PagesOk
  <2>1. ViewOk(u) /\ WriteOk(u)
    BY <1>1 DEF PagesOk
  <2>2. ViewOk(u)'
    BY <1>2, <1>7, <2>1 DEF ViewOk, Pending
  <2>3. WorkOk(u)'
    BY <1>2, <1>7 DEF WorkOk
  <2>4. CASE u = t
    <3>1. Known(write[t].record)'
      BY <1>2, <1>5, <1>1, Order DEF PagesOk, WriteOk, Known
    <3> QED BY <1>2, <2>1, <2>2, <2>3, <2>4, <3>1 DEF WriteOk
  <2>5. CASE u # t
    BY <1>2, <1>7, <2>1, <2>2, <2>3, <2>5 DEF WriteOk
  <2> QED BY <2>4, <2>5
<1>10. EditorOk'
  <2> SUFFICES ASSUME NEW u \in Tabs, Editor(u)'
               PROVE  /\ view[u].owner = Local
                      /\ \A v \in Tabs : write'[v].outcome = "sent" => write'[v].kind = "begin"
    BY <1>2, <1>5 DEF EditorOk
  <2>1. Editor(u)
    BY <1>2 DEF Editor, Primary, Pending
  <2>2. view[u].owner = Local
    BY <1>1, <1>5, <2>1 DEF EditorOk, Local, Account
  <2>3. \A v \in Tabs : write'[v].outcome = "sent" => write'[v].kind = "begin"
    BY <1>2, <1>7 DEF NoWrite
  <2> QED BY <2>2, <2>3
<1>11. HeadOk'
  <2>1. ~head.known
    BY <1>1, <1>3 DEF HeadOk, Closing
  <2> QED BY <1>1, <1>2, <1>7, <2>1 DEF HeadOk
<1>12. CloudOk'
  <2>1. \A u \in Tabs : ~Recovering(u)'
    BY <1>2, <1>7 DEF Recovering, NoWrite
  <2> QED BY <1>1, <1>2, <1>5, <2>1 DEF CloudOk
<1> QED BY <1>8, <1>9, <1>10, <1>11, <1>12 DEF Safe

\* A transaction that moves a transfer on: no page may edit any more.
LEMMA PhaseServed ==
    ASSUME IInv, NEW t \in Tabs, ServeWrite(t), Admitted(write[t]), write[t].kind # "begin"
    PROVE  Safe'
<1>1. TypeOK /\ DurableOk /\ PagesOk /\ EditorOk /\ HeadOk /\ CloudOk
  BY DEF IInv, Safe
<1> DEFINE kind == write[t].kind
           record == write[t].record
<1>2. /\ UNCHANGED <<saved, epoch, group, head, cloud, primary, view, work>>
      /\ handoff' = record
      /\ binding' = IF kind = "target-recovered" THEN Activated(binding) ELSE binding
      /\ write[t].outcome = "sent" /\ write[t] # NoWrite
      /\ write'[t] # NoWrite /\ write'[t].outcome = "done"
      /\ write'[t].kind = kind /\ write'[t].record = record
      /\ \A u \in Tabs \ {t} : write'[u] = write[u]
  BY AdmittedOnly
<1>3. /\ kind \in Phases /\ handoff.phase = kind
      /\ record.phase = NextPhase[kind]
      /\ binding.owner = IF kind = "target-active" THEN Account ELSE Local
  <2>1. kind \in Phases
    BY <1>1, <1>2, Typed DEF PagesOk, WriteOk, OwnerWrites
  <2> QED BY <1>1, <1>2, <2>1 DEF PagesOk, WriteOk, Admitted
<1>4. Begun /\ Known(record)
  BY <1>1, <1>2 DEF PagesOk, WriteOk, Known
<1>5. /\ Begun' /\ handoff'.id = handoff.id /\ handoff'.intent = handoff.intent
      /\ handoff'.phase = NextPhase[kind] /\ handoff'.phase # "freezing-source"
      /\ epoch = NoTab /\ handoff'.source = saved
  <2>1. record.phase # "freezing-source"
    BY <1>3, Order, PhaseKinds
  <2> QED BY <1>2, <1>3, <1>4, <2>1 DEF Known, Begun
<1>6. \A r : Known(r) => Known(r)'
  BY <1>2, <1>4, <1>5 DEF Known
<1>7. \A u \in Tabs : ~Editor(u)
  BY <1>1, <1>2, <1>3, PhaseKinds DEF EditorOk
<1>8. DurableOk'
  <2>1. binding'.generation > 0
    BY <1>1, <1>2, Typed DEF DurableOk, Bindings, Activated
  <2>2. binding'.owner = Account <=> kind \in {"target-recovered", "target-active"}
    BY <1>2, <1>3 DEF Activated, Local, Account
  <2>3. kind \in {"target-recovered", "target-active"}
          <=> handoff'.phase \in {"target-active", "complete"}
    BY <1>3, <1>5, Order, PhaseKinds
  <2> QED BY <1>2, <1>5, <2>1, <2>2, <2>3 DEF DurableOk
<1>9. PagesOk'
  <2> SUFFICES ASSUME NEW u \in Tabs PROVE ViewOk(u)' /\ WriteOk(u)' /\ WorkOk(u)'
    BY DEF PagesOk
  <2>1. ViewOk(u) /\ WriteOk(u) /\ WorkOk(u)
    BY <1>1 DEF PagesOk
  <2>2. ViewOk(u)'
    <3>1. Known(view[u].handoff) => Known(view[u].handoff)'
      BY <1>2, <1>5 DEF Known
    <3> QED BY <1>2, <2>1, <3>1 DEF ViewOk, Pending
  <2>3. WorkOk(u)'
    BY <1>2, <1>5, <2>1 DEF WorkOk, Closing
  <2>4. CASE u = t
    <3>1. Known(write[t].record)'
      BY <1>2, <1>4, <1>5 DEF Known
    <3>2. kind = "target-active" => handoff'.phase = "complete"
      BY <1>5, Order
    <3> QED BY <1>2, <2>1, <2>2, <2>3, <2>4, <3>1, <3>2 DEF WriteOk
  <2>5. CASE u # t
    <3>1. write'[u] = write[u] /\ view'[u] = view[u]
      BY <1>2, <2>5
    <3>2. Known(write[u].record) => Known(write[u].record)'
      BY <1>2, <1>5, <3>1 DEF Known
    <3>3. handoff.phase # "complete"
      BY <1>3, PhaseKinds
    <3> QED BY <2>1, <2>2, <2>3, <3>1, <3>2, <3>3 DEF WriteOk
  <2> QED BY <2>4, <2>5
<1>10. EditorOk'
  BY <1>2, <1>7 DEF EditorOk, Editor, Primary, Pending
<1>11. HeadOk'
  BY <1>1, <1>2, <1>5 DEF HeadOk, Closing
<1>12. CloudOk'
  <2>1. Uploaded' <=> Uploaded
    BY <1>2, <1>5 DEF Uploaded
  <2>2. \A u \in Tabs : Recovering(u)' => Recovering(u)
    BY <1>2 DEF Recovering
  <2>3. handoff'.phase \in {"target-recovered", "target-active", "complete"} =>
           kind \in {"target-authenticated", "target-recovered", "target-active"}
    BY <1>3, <1>5, Order, PhaseKinds
  <2>4. kind \in {"target-authenticated", "target-recovered", "target-active"} => Uploaded
    BY <1>1, <1>2, <1>3, <1>4 DEF CloudOk, Recovering
  <2> QED BY <1>1, <1>2, <2>1, <2>2, <2>3, <2>4 DEF CloudOk
<1> QED BY <1>8, <1>9, <1>10, <1>11, <1>12 DEF Safe

-----------------------------------------------------------------------------
(* The target *)

\* A page works on the account's journal: the source is closed, and what the
\* server holds is not taken away.
TargetStep(t) ==
    /\ UNCHANGED <<binding, handoff, saved, epoch, primary, view, write>>
    /\ \A u \in Tabs \ {t} : work'[u] = work[u]
    /\ WorkOk(t)'
    /\ head.known => head'.known
    /\ work'[t].at \in {"effect", "sent"} => head'.known
    /\ ~head'.known => head' = NoHead
    /\ head'.known => Closing
    /\ head'.known /\ handoff.intent = "upload-local" => head'.state = saved
    /\ group'.phase = "none" => group'.id = NoTab
    /\ group'.phase \notin {"none", "prepared"} => head'.known
    /\ cloud' = cloud \/ cloud.revision = 0
    /\ cloud'.revision = 0 => cloud'.content = {}

LEMMA TargetKeeps ==
    ASSUME IInv, NEW t \in Tabs, TargetStep(t)
    PROVE  Safe'
<1>1. /\ UNCHANGED <<binding, handoff, saved, epoch, primary, view, write>>
      /\ \A u \in Tabs \ {t} : work'[u] = work[u]
  BY DEF TargetStep
<1>2. DurableOk /\ PagesOk /\ EditorOk /\ HeadOk /\ CloudOk
  BY DEF IInv, Safe
<1>3. ViewOk(t)' /\ WriteOk(t)' /\ WorkOk(t)'
  BY <1>1, <1>2 DEF TargetStep, PagesOk, ViewOk, WriteOk, Pending, Known, Begun
<1>4. DurableOk' /\ PagesOk'
  BY <1>1, <1>2, <1>3, AloneKeeps DEF Alone, ownerdb
<1>5. EditorOk'
  BY <1>1, <1>2 DEF EditorOk, Editor, Primary, Pending, Begun
<1>6. HeadOk'
  BY <1>1, <1>2 DEF TargetStep, HeadOk, Closing, Begun
<1>7. CloudOk'
  <2>1. Uploaded => Uploaded'
    BY <1>1, <1>2 DEF TargetStep, Uploaded, CloudOk
  <2> QED BY <1>1, <1>2, <2>1 DEF TargetStep, CloudOk, Recovering, Begun
<1> QED BY <1>4, <1>5, <1>6, <1>7 DEF Safe

LEMMA TargetSteps ==
    ASSUME IInv, NEW t \in Tabs,
           Prepare(t) \/ InitializeHead(t) \/ SyncHead(t) \/ AckHead(t) \/ AdvanceGroup(t)
    PROVE  Safe'
<1>1. TypeOK /\ ViewOk(t) /\ WorkOk(t) /\ HeadOk /\ CloudOk
  BY DEF IInv, Safe, PagesOk
<1>2. /\ UNCHANGED <<binding, handoff, saved, epoch, primary, view, write>>
      /\ work[t].at \in {"captured", "group", "effect", "sent"}
      /\ view[t].handoff.phase = "target-authenticated"
  BY DEF Prepare, InitializeHead, SyncHead, AckHead, AdvanceGroup, At, ownerdb
<1>3. Closing /\ work[t].source = saved /\ Known(view[t].handoff) /\ Closing'
  BY <1>1, <1>2 DEF WorkOk, ViewOk, Pending, Closing, Begun
<1>4. ASSUME NEW stage, Move(t, stage) PROVE WorkOk(t)'
  BY <1>1, <1>2, <1>3, <1>4, Moves DEF WorkOk
<1>5. CASE Prepare(t)
  <2>1. /\ UNCHANGED <<head, cloud>>
        /\ group' = group \/ group'.phase = "prepared"
        /\ Move(t, "group") \/ Abandon(t)
    BY <1>5 DEF Prepare
  <2>2. TargetStep(t)
    BY <1>1, <1>2, <1>3, <1>4, <2>1, Moves, Stops DEF TargetStep, HeadOk, CloudOk
  <2> QED BY <2>2, TargetKeeps
<1>6. CASE InitializeHead(t)
  <2>1. CASE UNCHANGED head /\ Abandon(t)
    <3>1. TargetStep(t)
      BY <1>1, <1>2, <1>3, <1>6, <2>1, Stops DEF InitializeHead, TargetStep, HeadOk, CloudOk
    <3> QED BY <3>1, TargetKeeps
  <2>2. CASE head' = PlannedHead(t) /\ Move(t, "effect")
    <3>1. PlannedHead(t).known
      BY DEF PlannedHead, CleanHead, NoHead
    <3>2. handoff.intent = "upload-local" => PlannedHead(t).state = saved
      BY <1>3 DEF PlannedHead, NoHead, Known
    <3>3. TargetStep(t)
      BY <1>1, <1>2, <1>3, <1>4, <1>6, <2>2, <3>1, <3>2, Moves
         DEF InitializeHead, TargetStep, HeadOk, CloudOk
    <3> QED BY <3>3, TargetKeeps
  <2> QED BY <1>6, <2>1, <2>2 DEF InitializeHead
<1>7. CASE SyncHead(t)
  <2>1. head.known
    BY <1>1, <1>7 DEF SyncHead, HeadOk
  <2>2. head'.known /\ head'.state = head.state
    BY <1>7, <2>1, Typed, <1>1 DEF SyncHead, Heads
  <2>3. /\ cloud' = cloud \/ cloud.revision = 0
        /\ cloud'.revision = 0 => cloud'.content = {}
    BY <1>1, <1>7 DEF SyncHead, AfterSave, CloudOk
  <2>4. WorkOk(t)' /\ \A u \in Tabs \ {t} : work'[u] = work[u]
    <3>1. CASE Move(t, "effect")
      BY <1>1, <1>4, <3>1, Moves
    <3>2. CASE Abandon(t)
      BY <1>1, <3>2, Stops
    <3>3. CASE work' = [work EXCEPT ![t] = [work[t] EXCEPT !.at = "sent",
                           !.proof = [revision |-> cloud'.revision, content |-> cloud'.content]]]
      <4>1. work'[t].source = work[t].source
        BY <1>1, <3>3, Typed DEF TypeOK, Works
      <4>2. \A u \in Tabs \ {t} : work'[u] = work[u]
        BY <1>1, <3>3 DEF TypeOK
      <4> QED BY <1>2, <1>3, <4>1, <4>2 DEF WorkOk
    <3> QED BY <1>7, <3>1, <3>2, <3>3 DEF SyncHead, Abandon
  <2>5. group' = group
    BY <1>7 DEF SyncHead
  <2>6. TargetStep(t)
    BY <1>1, <1>2, <1>3, <2>1, <2>2, <2>3, <2>4, <2>5 DEF TargetStep, HeadOk
  <2> QED BY <2>6, TargetKeeps
<1>8. CASE AckHead(t)
  <2>1. head.known
    BY <1>1, <1>8 DEF AckHead, At, HeadOk
  <2>2. head'.known /\ head'.state = head.state
    BY <1>8, <2>1 DEF AckHead, CleanHead
  <2>3. WorkOk(t)' /\ \A u \in Tabs \ {t} : work'[u] = work[u]
    BY <1>1, <1>4, <1>8, Moves, Stops DEF AckHead
  <2>4. UNCHANGED <<group, cloud>>
    BY <1>8 DEF AckHead
  <2>5. TargetStep(t)
    BY <1>1, <1>2, <1>3, <2>1, <2>2, <2>3, <2>4 DEF TargetStep, HeadOk, CloudOk
  <2> QED BY <2>5, TargetKeeps
<1>9. CASE AdvanceGroup(t)
  <2>1. head.known /\ UNCHANGED <<head, cloud>>
    BY <1>1, <1>9 DEF AdvanceGroup, At, HeadOk
  <2>2. group.phase \in {"none", "prepared", "initialized", "synced", "complete"} /\ group \in Groups
    BY <1>1, Typed DEF Groups
  <2>3. group' = group \/ group'.phase # "none"
    <3>1. group.id = view[t].handoff.id => group.phase # "none"
      BY <1>1, <1>3 DEF HeadOk, Known, Begun
    <3>2. \A phase \in {"prepared", "initialized", "synced"} : NextGroupPhase[phase] # "none"
      BY DEF NextGroupPhase
    <3>3. group' = [group EXCEPT !.phase = NextGroupPhase[group.phase]] =>
             group'.phase = NextGroupPhase[group.phase]
      BY <2>2 DEF Groups
    <3> QED BY <1>9, <2>2, <3>1, <3>2, <3>3 DEF AdvanceGroup, Pending
  <2>4. WorkOk(t)' /\ \A u \in Tabs \ {t} : work'[u] = work[u]
    BY <1>1, <1>4, <1>9, Moves, Stops DEF AdvanceGroup
  <2>5. TargetStep(t)
    BY <1>1, <1>2, <1>3, <2>1, <2>3, <2>4 DEF TargetStep, HeadOk, CloudOk
  <2> QED BY <2>5, TargetKeeps
<1> QED BY <1>5, <1>6, <1>7, <1>8, <1>9

LEMMA RemoteStep ==
    ASSUME IInv, NEW o \in Others, Remote(o)
    PROVE  Safe'
<1>1. /\ UNCHANGED <<binding, handoff, saved, epoch, group, head, primary, view, write, work>>
      /\ cloud'.revision = cloud.revision + 1 /\ cloud.content \subseteq cloud'.content
  BY DEF Remote, ownerdb, target, pages
<1>2. DurableOk /\ PagesOk /\ EditorOk /\ HeadOk /\ CloudOk /\ cloud \in Clouds
  BY Typed DEF IInv, Safe
<1>3. CloudOk'
  <2>1. Uploaded => Uploaded'
    BY <1>1 DEF Uploaded
  <2>2. cloud'.revision # 0
    BY <1>1, <1>2 DEF Clouds
  <2> QED BY <1>1, <1>2, <2>1, <2>2 DEF CloudOk, Recovering, Begun
<1>4. DurableOk' /\ HeadOk'
  BY <1>1, <1>2 DEF DurableOk, HeadOk, Begun, Closing
<1>5. PagesOk'
  BY <1>1, <1>2 DEF PagesOk, ViewOk, WriteOk, WorkOk, Known, Pending, Begun, Closing
<1>6. EditorOk'
  BY <1>1, <1>2 DEF EditorOk, Editor, Primary, Pending, Begun
<1> QED BY <1>3, <1>4, <1>5, <1>6 DEF Safe

-----------------------------------------------------------------------------
(* The theorems *)

LEMMA IInvInit == Init => IInv
<1> SUFFICES ASSUME Init PROVE IInv
  OBVIOUS
<1>1. TypeOK
  BY TypeInit
<1>2. handoff.id = NoTab /\ handoff.phase = "complete" /\ ~Begun
  BY DEF Init, NoHandoff, Begun
<1>3. \A t \in Tabs :
         /\ view[t].blocked /\ view[t].handoff.phase = "complete"
         /\ write[t] = NoWrite /\ work[t].at = "idle"
  BY DEF Init, Closed, NoHandoff, Idle
<1>4. DurableOk
  BY <1>2 DEF Init, DurableOk
<1>5. PagesOk
  BY <1>3 DEF PagesOk, ViewOk, WriteOk, WorkOk, Pending
<1>6. EditorOk
  BY <1>3 DEF EditorOk, Editor
<1>7. HeadOk
  <2>1. ~NoHead.known /\ NoGroup.phase = "none" /\ NoGroup.id = NoTab
    BY DEF NoHead, NoGroup
  <2> QED BY <1>3, <2>1 DEF Init, HeadOk
<1>8. CloudOk
  BY <1>2, <1>3 DEF Init, CloudOk, Recovering, NoWrite
<1> QED BY <1>1, <1>4, <1>5, <1>6, <1>7, <1>8 DEF IInv, Safe

LEMMA IInvNext == IInv /\ [Next]_vars => IInv'
<1> SUFFICES ASSUME IInv, [Next]_vars PROVE IInv'
  OBVIOUS
<1>1. TypeOK'
  BY TypeNext DEF IInv, Safe
<1>2. Safe'
  <2>1. ASSUME NEW t \in Tabs, ServeWrite(t) PROVE Safe'
    BY <2>1, FailedStep, BeginServed, PhaseServed
  <2>2. CASE UNCHANGED vars
    BY <2>2, UnchangedKeeps DEF vars, ownerdb, target, pages, IInv
  <2>3. ASSUME NEW t \in Tabs,
               Open(t) \/ Hydrate(t) \/ Crash(t) \/ Reload(t) \/ LoseLock(t)
        PROVE  Safe'
    BY <2>3, OpenStep, HydrateStep, LeaveStep
  <2>4. ASSUME NEW t \in Tabs,
               \/ \E e \in Edits : AcceptEdit(t, e)
               \/ Commit(t) \/ CommitAnswered(t)
        PROVE  Safe'
    BY <2>4, EditStep
  <2>5. ASSUME NEW t \in Tabs,
               \/ \E intent \in Intents : Begin(t, intent)
               \/ Settled(t) \/ Authenticated(t) \/ Activate(t)
        PROVE  Safe'
    BY <2>5, PhaseStep
  <2>6. ASSUME NEW t \in Tabs, FailWrite(t) \/ WriteAnswered(t) \/ Recovered(t) PROVE Safe'
    <3>1. FailWrite(t) => Safe'
      BY FailedStep
    <3> QED BY <2>6, <3>1, AnswerStep, RecoveredStep
  <2>7. ASSUME NEW t \in Tabs,
               Capture(t) \/ VerifyGroup(t) \/ Finish(t) \/ Fail(t) \/ Mark(t)
        PROVE  Safe'
    BY <2>7, ProgressStep
  <2>8. ASSUME NEW t \in Tabs,
               Prepare(t) \/ InitializeHead(t) \/ SyncHead(t) \/ AckHead(t) \/ AdvanceGroup(t)
        PROVE  Safe'
    BY <2>8, TargetSteps
  <2>9. ASSUME NEW o \in Others, Remote(o) PROVE Safe'
    BY <2>9, RemoteStep
  <2> QED BY <2>1, <2>2, <2>3, <2>4, <2>5, <2>6, <2>7, <2>8, <2>9 DEF Next, Step
<1> QED BY <1>1, <1>2 DEF IInv

\* Every variable keeps its type.
THEOREM TransferTypes == Spec => []TypeOK
<1>1. IInv => TypeOK
  BY DEF IInv
<1> QED BY <1>1, IInvInit, IInvNext, PTL DEF Spec

\* The source journal is what the transfer recorded, from the phase on in which
\* it is recorded: captureSource opened the journal, and nobody opens it after.
THEOREM SourceStaysFrozen == Spec => []SourceFrozen
<1>1. IInv => SourceFrozen
  BY DEF IInv, Safe, DurableOk, Begun, SourceFrozen
<1> QED BY <1>1, IInvInit, IInvNext, PTL DEF Spec

\* No edit is lost by an upload: the owner changes only when the account's
\* journal and the server hold every edit that was durable on the device.
THEOREM NothingIsLeftBehind == Spec => []NothingLeftBehind
<1>1. IInv => NothingLeftBehind
  BY DEF IInv, Safe, DurableOk, HeadOk, CloudOk, Uploaded, NothingLeftBehind, Local, Account
<1> QED BY <1>1, IInvInit, IInvNext, PTL DEF Spec

\* A page that admits edits has the owner that is durable, and no transfer has
\* settled a source under it.
THEOREM EditorKnowsOwner == Spec => []WriterKnowsOwner
<1>1. IInv => WriterKnowsOwner
  <2> SUFFICES ASSUME IInv, NEW t \in Tabs, Writable(t)
               PROVE  /\ view[t].owner = binding.owner
                      /\ ~Pending(handoff) \/ handoff.phase = "freezing-source"
    BY DEF WriterKnowsOwner
  <2>1. Editor(t)
    BY DEF Writable, Ready, Editor
  <2> QED BY <2>1 DEF IInv, Safe, EditorOk, DurableOk, Pending
<1> QED BY <1>1, IInvInit, IInvNext, PTL DEF Spec

=============================================================================
