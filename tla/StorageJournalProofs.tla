-------------------------- MODULE StorageJournalProofs --------------------------
(***************************************************************************)
(* The journal engine keeps the promises of the IndexedDB layer, and an    *)
(* idle writer agrees with the database, for every number of edits, loads, *)
(* recoveries, epochs and aborts and every capacity of the log.  Edits     *)
(* that were reported durable are recovered, whatever happens, as long as  *)
(* the log had room for every edit; and a log twice as large as the number *)
(* of edits always has it.                                                 *)
(***************************************************************************)
EXTENDS StorageJournal, FiniteSetTheorems, SequenceTheorems, TLAPS

-----------------------------------------------------------------------------
(* Types.  They grow with the history: a sequence or an id is at most the   *)
(* number of edits made so far, an epoch at most the number drawn.          *)

Count == Cardinality(edits)

Numbers == 1..Count

Seen == 1..epochs

AtMostOne(S) == {m \in SUBSET S : \A x, y \in m : x = y}

Operations == [seq : Numbers, id : Numbers]

Records == [epoch : Seen, seq : Numbers, id : Numbers]

Keys == [epoch : Seen, seq : Numbers]

Edits == [id : Numbers, epoch : Seen, durable : BOOLEAN]

Checkpoints == [seq : 0..Count, state : SUBSET Numbers]

Heads == [epoch : Seen, seq : 0..Count, writer : 1..loads, cp : Checkpoints,
          journal : SUBSET Operations, base : {{}}, flight : {{}}, control : {{}}]

Appends == [kind : {"append"}, rec : Records, fallback : SUBSET Records,
            durable : BOOLEAN, observed : Seen, committed : BOOLEAN]

Resets == [kind : {"reset"}, epoch : Seen, committed : BOOLEAN]

Jobs == Appends \cup Resets

Transitions == [epoch : Seen, seq : 0..Count, fallbackEpoch : Seen, fallbackSeq : 0..Count]

Loaded == [step : {"loaded"}, head : Heads]

Writes == [step : {"write"}, epoch : Seen, cp : Checkpoints]

Failures == [epoch : Seen, seq : Numbers]

Pages == [phase : Phases, epoch : Seen \cup {NoEpoch}, seq : 0..Count, failed : BOOLEAN,
          transition : AtMostOne(Transitions), queue : Seq(Jobs), pending : SUBSET Keys,
          drain : SUBSET Records, compaction : AtMostOne(Loaded \cup Writes),
          undurable : Int, failure : AtMostOne(Failures), recoveries : Nat]

AppendTxs == [kind : {"append"}, epoch : Seen, writer : 1..loads, op : Operations]

ResetTxs == [kind : {"reset"}, epoch : Seen, writer : 1..loads, next : Seen]

CompactTxs == [kind : {"compact"}, epoch : Seen, writer : 1..loads, cp : Checkpoints]

Txs == AppendTxs \cup ResetTxs \cup CompactTxs

Bounded ==
    /\ IsFiniteSet(edits) /\ Count \in 0..MaxEdits
    /\ epochs \in 0..MaxEpochs /\ loads \in 0..MaxLoads

Typed ==
    /\ Bounded
    /\ disk \in Heads \/ disk = EmptyHead
    /\ emergency \subseteq Records
    /\ page \in Pages
    /\ orphans \subseteq Txs
    /\ edits \subseteq Edits

-----------------------------------------------------------------------------
(* The inductive invariant. *)

\* An owner without a head has nothing else.
Untouched ==
    disk = EmptyHead =>
        /\ page \in {NoPage, [NoPage EXCEPT !.phase = "load"]}
        /\ emergency = {} /\ orphans = {} /\ edits = {}

HeadOk == JournalKeysOk(disk) /\ ReplayOk(disk)

Opened == page.phase \in {"claim", "reload", "drain", "ready", "stopped"}

Owning == page.phase \in {"reload", "drain", "ready"}

\* The reset of the transition in progress is committed and not yet settled.
ResetCommitted == page.queue # <<>> /\ Job.kind = "reset" /\ Job.committed

\* Behind the claim nobody but the page moves the head: what older pages left
\* has an older writer token.
Fence ==
    /\ page.phase # "none" =>
          /\ loads >= 1
          /\ \A tx \in orphans : tx.writer < loads
    /\ \A tx \in orphans : tx.kind = "reset" => tx.epoch < tx.next
    /\ Opened => page.epoch \in Seen
    /\ Owning =>
          /\ disk \in Heads /\ disk.writer = loads
          /\ ~ResetCommitted => disk.epoch = page.epoch
          /\ ResetCommitted => disk.epoch = Job.epoch /\ disk.seq = 0

\* The place of the reset job: the edits of its transition are behind it.
ResetAt(t) == Len(page.queue) - t.seq

Shape ==
    /\ page.phase # "ready" => page.queue = <<>> /\ page.transition = {}
    /\ \A i \in 2..Len(page.queue) : ~page.queue[i].committed
    /\ page.transition = {} => \A i \in 1..Len(page.queue) : page.queue[i].kind = "append"
    /\ \A t \in page.transition :
          /\ t.fallbackEpoch = page.epoch /\ page.epoch < t.epoch
          /\ t.seq < Len(page.queue)
          /\ page.queue[ResetAt(t)].kind = "reset" /\ page.queue[ResetAt(t)].epoch = t.epoch
          /\ \A i \in 1..Len(page.queue) : i # ResetAt(t) => page.queue[i].kind = "append"
          /\ \A i \in 1..Len(page.queue) : i > ResetAt(t) =>
                /\ page.queue[i].rec.epoch = t.epoch
                /\ page.queue[i].rec.seq = i - ResetAt(t)

\* The first m jobs are appends of the page's epoch that end at its sequence, and
\* the database is where they begin.
InLine(m) ==
    /\ \A i \in 1..m :
          /\ page.queue[i].rec.epoch = page.epoch
          /\ page.queue[i].rec.seq = page.seq - m + i
    /\ ~ResetCommitted =>
          disk.seq = page.seq - m + IF m > 0 /\ Job.committed THEN 1 ELSE 0

Line ==
    Writable =>
        /\ page.transition = {} => InLine(Len(page.queue))
        /\ \A t \in page.transition : InLine(ResetAt(t) - 1)

\* While nothing failed the log holds what the queue has yet to write; the
\* entries of an epoch to come belong to the edits behind its reset.
LogOwned ==
    /\ Writable =>
          \A r \in emergency : \E i \in 1..Len(page.queue) :
              /\ page.queue[i].kind = "append"
              /\ r \in {page.queue[i].rec} \cup page.queue[i].fallback
    /\ \A t \in page.transition : \A r \in emergency :
          r.epoch = t.epoch =>
              \E i \in 1..Len(page.queue) : i > ResetAt(t) /\ r = page.queue[i].rec
    /\ page.pending \subseteq {Key(r) : r \in emergency}

\* open() has yet to commit or retire the recovered entries, and they reach
\* from the database to the page's sequence.
Draining ==
    page.phase = "drain" =>
        /\ page.drain = Applicable(disk)
        /\ disk.seq <= page.seq
        /\ \A r \in page.drain : r.seq <= page.seq
        /\ \A n \in (disk.seq + 1)..page.seq : \E r \in page.drain : r.seq = n

Safe == Untouched /\ HeadOk /\ Fence /\ Shape /\ Line /\ LogOwned /\ Draining

IInv == Typed /\ Safe

-----------------------------------------------------------------------------
(* Sets and types. *)

LEMMA OperationsFinite ==
    ASSUME NEW n \in Nat, NEW m \in Nat, NEW S \in SUBSET [seq : 1..n, id : 1..m]
    PROVE  IsFiniteSet(S)
<1> DEFINE All == [seq : 1..n, id : 1..m]
           f == [op \in All |-> <<op.seq, op.id>>]
<1>1. IsFiniteSet(1..n) /\ IsFiniteSet(1..m)
  BY FS_Interval
<1>2. IsFiniteSet((1..n) \X (1..m))
  BY <1>1, FS_Product
<1>3. f \in Injection(All, (1..n) \X (1..m))
  BY DEF Injection, IsInjective
<1>4. IsFiniteSet(All)
  BY <1>2, <1>3, FS_Injection
<1> QED BY <1>4, FS_Subset

\* Among records with sequences one comes first.
LEMMA FirstRecord ==
    ASSUME NEW S, S # {}, \A r \in S : r.seq \in Nat
    PROVE  \E r \in S : \A s \in S : r.seq <= s.seq
<1> DEFINE T == {0..r.seq : r \in S}
           R == StrictSubsetOrdering(Nat)
<1>1. T \subseteq FiniteSubsetsOf(Nat) /\ T # {}
  <2>1. ASSUME NEW n \in Nat PROVE IsFiniteSet(0..n) /\ 0..n \in SUBSET Nat
    BY FS_Interval
  <2> QED BY <2>1 DEF FiniteSubsetsOf
<1>2. PICK x \in T : \A y \in T : ~ (<<y, x>> \in R)
  BY <1>1, FS_StrictSubsetOrderingWellFounded, WFMin, Zenon
<1>3. PICK r \in S : x = 0..r.seq
  BY <1>2
<1>4. ASSUME NEW s \in S, s.seq < r.seq
      PROVE  FALSE
  <2>1. 0..s.seq \subseteq 0..r.seq /\ 0..s.seq # 0..r.seq
    <3>1. r.seq \in 0..r.seq /\ r.seq \notin 0..s.seq
      BY <1>4
    <3>2. 0..s.seq \subseteq 0..r.seq
      BY <1>4
    <3> QED BY <3>1, <3>2
  <2>2. <<0..s.seq, 0..r.seq>> \in R
    <3>1. (0..s.seq) \in SUBSET Nat /\ (0..r.seq) \in SUBSET Nat
      OBVIOUS
    <3> QED BY <2>1, <3>1 DEF StrictSubsetOrdering
  <2> QED BY <1>2, <1>3, <2>2
<1>5. \A s \in S : r.seq <= s.seq
  <2>1. \A s \in S : ~ (s.seq < r.seq)
    BY <1>4
  <2> HIDE DEF T, R
  <2> QED BY <2>1
<1> HIDE DEF T, R
<1> QED BY <1>5

LEMMA Small ==
    /\ MaxEdits \in Nat /\ MaxLoads \in Nat /\ MaxEpochs \in Nat
    /\ NoEpoch \notin 1..MaxEpochs /\ NoWriter \notin 1..MaxLoads
BY BoundsAssumption, NoneAssumption DEF EpochIds

LEMMA Naturals ==
    ASSUME Bounded
    PROVE  /\ Count \in Nat /\ Count <= MaxEdits
           /\ epochs \in Nat /\ epochs <= MaxEpochs
           /\ loads \in Nat /\ loads <= MaxLoads
           /\ NoEpoch \notin Seen
BY Small DEF Bounded, Seen

LEMMA HeadIsNotEmpty ==
    ASSUME Bounded, NEW h \in Heads
    PROVE  h # EmptyHead /\ h.epoch # NoEpoch /\ h.epoch \in Seen
BY Naturals DEF Heads, EmptyHead

LEMMA DiskIsHead ==
    ASSUME Typed, disk.epoch # NoEpoch
    PROVE  disk \in Heads
BY DEF Typed, EmptyHead

LEMMA OneMember ==
    ASSUME NEW S, NEW m \in AtMostOne(S), NEW x \in m
    PROVE  m = {x} /\ x \in S /\ (CHOOSE y \in m : TRUE) = x
BY DEF AtMostOne

LEMMA FewerMembers ==
    ASSUME NEW S, NEW m \in AtMostOne(S), NEW n \in SUBSET m
    PROVE  n \in AtMostOne(S)
BY DEF AtMostOne

LEMMA NoneOrOne ==
    ASSUME NEW S
    PROVE  {} \in AtMostOne(S) /\ \A x \in S : {x} \in AtMostOne(S)
BY DEF AtMostOne

LEMMA NoPageTyped == ASSUME Bounded PROVE NoPage \in Pages
<1>1. <<>> \in Seq(Jobs)
  BY EmptySeq
<1>2. 0 \in 0..Count
  BY Naturals
<1> QED BY <1>1, <1>2, NoneOrOne DEF NoPage, Pages, Phases

LEMMA JobTyped ==
    ASSUME NEW j \in Jobs
    PROVE  /\ j.kind = "append" => j \in Appends
           /\ j.kind = "reset" => j \in Resets
           /\ j.kind \in {"append", "reset"} /\ j.committed \in BOOLEAN
BY DEF Jobs, Appends, Resets

LEMMA HeadJob ==
    ASSUME Typed, page.queue # <<>>
    PROVE  /\ Job \in Jobs /\ Job = page.queue[1]
           /\ Len(page.queue) \in Nat \ {0}
           /\ Tail(page.queue) \in Seq(Jobs)
           /\ Len(Tail(page.queue)) = Len(page.queue) - 1
           /\ \A i \in 1..(Len(page.queue) - 1) : Tail(page.queue)[i] = page.queue[i + 1]
<1>1. page.queue \in Seq(Jobs)
  BY DEF Typed, Pages
<1>2. Job = page.queue[1]
  BY DEF Job
<1> QED BY <1>1, <1>2, HeadTailProperties, EmptySeq DEF Job

LEMMA SomeJob ==
    ASSUME Typed, NEW i \in 1..Len(page.queue)
    PROVE  page.queue[i] \in Jobs
BY ElementOfSeq DEF Typed, Pages

\* The types depend on the history alone.
LEMMA Steady ==
    ASSUME UNCHANGED <<edits, epochs, loads>>
    PROVE  /\ Heads' = Heads /\ Records' = Records /\ Pages' = Pages /\ Txs' = Txs
           /\ Edits' = Edits /\ Bounded' = Bounded
BY DEF Heads, Records, Pages, Txs, Edits, Bounded, Count, Numbers, Seen, Checkpoints,
       Operations, Appends, Resets, Jobs, Transitions, Loaded, Writes, Keys, Failures,
       AppendTxs, ResetTxs, CompactTxs

LEMMA Monotone ==
    ASSUME NEW S, NEW T, S \subseteq T
    PROVE  AtMostOne(S) \subseteq AtMostOne(T) /\ Seq(S) \subseteq Seq(T)
<1>1. AtMostOne(S) \subseteq AtMostOne(T)
  BY DEF AtMostOne
<1> QED BY <1>1, SeqMonotonic

\* They grow with it.
LEMMA Growing ==
    ASSUME Bounded, Bounded', Count <= Count', epochs <= epochs', loads <= loads'
    PROVE  /\ Heads \subseteq Heads' /\ Records \subseteq Records'
           /\ Jobs \subseteq Jobs' /\ Pages \subseteq Pages'
           /\ Txs \subseteq Txs' /\ Edits \subseteq Edits'
           /\ Keys \subseteq Keys' /\ Transitions \subseteq Transitions'
           /\ 0..Count \subseteq 0..Count' /\ Seen \subseteq Seen' /\ Numbers \subseteq Numbers'
<1>1. /\ Count \in Nat /\ Count' \in Nat /\ epochs \in Nat /\ epochs' \in Nat
      /\ loads \in Nat /\ loads' \in Nat
  BY Small DEF Bounded
<1>2. /\ 0..Count \subseteq 0..Count' /\ Numbers \subseteq Numbers' /\ Seen \subseteq Seen'
      /\ 1..loads \subseteq (1..loads)'
  BY <1>1 DEF Numbers, Seen
<1>3. /\ Operations \subseteq Operations' /\ Records \subseteq Records' /\ Keys \subseteq Keys'
      /\ Edits \subseteq Edits' /\ Resets \subseteq Resets' /\ Failures \subseteq Failures'
      /\ Transitions \subseteq Transitions'
  BY <1>2 DEF Operations, Records, Keys, Edits, Resets, Failures, Transitions
<1>4. Checkpoints \subseteq Checkpoints'
  BY <1>2 DEF Checkpoints
<1>5. Heads \subseteq Heads' /\ Appends \subseteq Appends' /\ Writes \subseteq Writes'
  BY <1>2, <1>3, <1>4 DEF Heads, Appends, Writes
<1>6. Loaded \subseteq Loaded' /\ Jobs \subseteq Jobs' /\ Txs \subseteq Txs'
  BY <1>2, <1>3, <1>4, <1>5 DEF Loaded, Jobs, Txs, AppendTxs, ResetTxs, CompactTxs
<1>7. /\ AtMostOne(Transitions) \subseteq AtMostOne(Transitions')
      /\ AtMostOne(Loaded \cup Writes) \subseteq AtMostOne(Loaded' \cup Writes')
      /\ AtMostOne(Failures) \subseteq AtMostOne(Failures')
      /\ Seq(Jobs) \subseteq Seq(Jobs')
  BY <1>3, <1>5, <1>6, Monotone
<1>8. Pages \subseteq Pages'
  BY <1>2, <1>3, <1>7 DEF Pages, AtMostOne
<1> QED BY <1>2, <1>3, <1>5, <1>6, <1>8

-----------------------------------------------------------------------------
(* What recovery finds is in the range of the history. *)

LEMMA ReplayTyped ==
    ASSUME Typed, NEW h \in Heads
    PROVE  /\ Applicable(h) \subseteq Records /\ ReplayOps(h) \subseteq Operations
           /\ Replayed(h) \subseteq ReplayOps(h) /\ IsFiniteSet(Replayed(h))
           /\ h.cp.seq \in 0..Count /\ RecoveredSeq(h) \in Nat
           /\ RecoveredState(h) \in SUBSET Numbers
<1>1. Count \in Nat /\ epochs \in Nat
  BY Naturals DEF Typed
<1>2. Applicable(h) \subseteq Records
  BY DEF Applicable, Typed
<1>3. \A r \in Records : OpOf(r) \in Operations
  BY DEF OpOf, Operations, Records
<1>4. h.journal \subseteq Operations /\ h.cp.seq \in 0..Count /\ h.cp.state \in SUBSET Numbers
  BY DEF Heads, Checkpoints
<1>5. ReplayOps(h) \subseteq Operations
  BY <1>2, <1>3, <1>4 DEF ReplayOps
<1>6. Replayed(h) \subseteq ReplayOps(h)
  BY DEF Replayed
<1>7. IsFiniteSet(Replayed(h))
  BY <1>1, <1>5, <1>6, OperationsFinite DEF Operations, Numbers
<1>8. RecoveredSeq(h) \in Nat
  BY <1>1, <1>4, <1>7, FS_CardinalityType DEF RecoveredSeq
<1>9. RecoveredState(h) \in SUBSET Numbers
  BY <1>4, <1>5, <1>6 DEF RecoveredState, Operations
<1> QED BY <1>2, <1>4, <1>5, <1>6, <1>7, <1>8, <1>9

LEMMA RecoveredTyped ==
    ASSUME Typed, NEW h \in Heads, Recoverable(h)
    PROVE  /\ RecoveredSeq(h) \in 0..Count /\ h.seq <= RecoveredSeq(h)
           /\ [seq |-> RecoveredSeq(h), state |-> RecoveredState(h)] \in Checkpoints
<1>1. Count \in Nat
  BY Naturals DEF Typed
<1>2. /\ h.cp.seq \in 0..Count /\ RecoveredSeq(h) \in Nat
      /\ Replayed(h) \subseteq Operations /\ RecoveredState(h) \in SUBSET Numbers
  BY ReplayTyped
<1>3. {op.seq : op \in Replayed(h)} = (h.cp.seq + 1)..RecoveredSeq(h)
  BY DEF Recoverable
<1>4. CASE RecoveredSeq(h) <= h.cp.seq
  BY <1>1, <1>2, <1>4 DEF Recoverable, Checkpoints
<1>5. CASE RecoveredSeq(h) > h.cp.seq
  <2>1. RecoveredSeq(h) \in (h.cp.seq + 1)..RecoveredSeq(h)
    BY <1>2, <1>5
  <2>2. PICK op \in Replayed(h) : op.seq = RecoveredSeq(h)
    BY <1>3, <2>1
  <2>3. RecoveredSeq(h) \in Numbers
    BY <1>2, <2>2 DEF Operations
  <2> QED BY <1>1, <1>2, <2>3 DEF Recoverable, Checkpoints, Numbers
<1> QED BY <1>1, <1>2, <1>4, <1>5

LEMMA MaxOfTwo ==
    ASSUME NEW m \in Nat, NEW n \in Nat
    PROVE  Max({m, n}) \in {m, n}
<1>1. \E x \in {m, n} : \A y \in {m, n} : x >= y
  OBVIOUS
<1> QED BY <1>1 DEF Max

LEMMA LatestFailure ==
    ASSUME Bounded, NEW m \in Numbers, NEW failure \in AtMostOne(Failures)
    PROVE  Max({m} \cup {f.seq : f \in failure}) \in Numbers
<1>1. Numbers \subseteq Nat
  BY Naturals DEF Numbers
<1>2. CASE failure = {}
  <2>1. {m} \cup {f.seq : f \in failure} = {m, m}
    BY <1>2
  <2> QED BY <1>1, <2>1, MaxOfTwo
<1>3. ASSUME NEW f \in failure
      PROVE  Max({m} \cup {x.seq : x \in failure}) \in Numbers
  <2>1. failure = {f} /\ f \in Failures
    BY <1>3, OneMember
  <2>2. f.seq \in Numbers
    BY <2>1 DEF Failures
  <2>3. {m} \cup {x.seq : x \in failure} = {m, f.seq}
    BY <2>1
  <2> QED BY <1>1, <2>2, <2>3, MaxOfTwo
<1> QED BY <1>2, <1>3

-----------------------------------------------------------------------------
(* The types, step by step. *)

\* A step that adds nothing to the history.
LEMMA QuietTyped ==
    ASSUME Typed, UNCHANGED <<edits, epochs, loads>>,
           disk' \in Heads \/ UNCHANGED disk,
           page' \in Pages,
           emergency' \subseteq Records,
           orphans' \subseteq Txs
    PROVE  Typed'
BY Steady DEF Typed

LEMMA OpenTyped ==
    ASSUME IInv,
           \/ OpenLoad \/ OpenClaim \/ OpenReload \/ OpenDrain \/ OpenDrainAbort \/ OpenDone
           \/ Recover
    PROVE  Typed'
<1>0. /\ Typed /\ Fence /\ Bounded /\ page \in Pages /\ emergency \subseteq Records
      /\ orphans \subseteq Txs /\ page.drain \subseteq Records
      /\ page.pending \subseteq Keys /\ page.failure \in AtMostOne(Failures)
      /\ page.recoveries \in Nat /\ page.seq \in 0..Count
  BY DEF IInv, Safe, Typed, Pages
<1>1. CASE Recover
  <2>1. page.recoveries + 1 \in Nat
    BY <1>0
  <2>2. page' \in Pages
    BY <1>0, <1>1, <2>1 DEF Recover, Pages, Phases
  <2> QED BY <1>0, <1>1, <2>2, QuietTyped DEF Recover
<1>2. CASE OpenLoad
  <2>1. disk \in Heads /\ disk.epoch \in Seen
    BY <1>0, <1>2, DiskIsHead, HeadIsNotEmpty DEF OpenLoad
  <2>2. page' \in Pages
    BY <1>0, <1>2, <2>1 DEF OpenLoad, Pages, Phases
  <2> QED BY <1>0, <1>2, <2>2, QuietTyped DEF OpenLoad
<1>3. CASE OpenClaim
  <2>1. page' \in Pages
    BY <1>0, <1>3 DEF OpenClaim, Pages, Phases
  <2>2. ClaimOk(disk, page.epoch) => disk \in Heads
    <3>1. page.epoch \in Seen
      BY <1>0, <1>3 DEF OpenClaim, Fence, Opened
    <3> QED BY <1>0, <3>1, DiskIsHead, Naturals DEF ClaimOk
  <2>3. disk \in Heads => Claim(disk, loads) \in Heads
    <3>1. loads \in 1..loads
      BY <1>0, <1>3, Naturals DEF OpenClaim, Fence
    <3> QED BY <3>1 DEF Claim, Heads
  <2>4. disk' \in Heads \/ UNCHANGED disk
    BY <1>3, <2>2, <2>3 DEF OpenClaim
  <2> QED BY <1>0, <1>3, <2>1, <2>4, QuietTyped DEF OpenClaim
<1>4. CASE OpenReload
  <2>1. disk \in Heads
    BY <1>0, <1>4 DEF OpenReload, Fence, Owning
  <2>2. disk.epoch \in Seen /\ Applicable(disk) \subseteq Records
        /\ (Recoverable(disk) => RecoveredSeq(disk) \in 0..Count)
    BY <1>0, <2>1, HeadIsNotEmpty, ReplayTyped, RecoveredTyped
  <2>3. page' \in Pages
    BY <1>0, <1>4, <2>2 DEF OpenReload, Pages, Phases
  <2> QED BY <1>0, <1>4, <2>3, QuietTyped DEF OpenReload
<1>5. CASE OpenDrain
  <2> DEFINE rec == CHOOSE r \in page.drain : \A s \in page.drain : r.seq <= s.seq
  <2>1. \A r \in page.drain : r.seq \in Nat
    BY <1>0, Naturals DEF Records, Numbers
  <2>2. \E r \in page.drain : \A s \in page.drain : r.seq <= s.seq
    BY <1>5, <2>1, FirstRecord DEF OpenDrain
  <2>3. rec \in page.drain
    BY <2>2
  <2> HIDE DEF rec
  <2>4. rec \in Records
    BY <1>0, <2>3
  <2>5. disk \in Heads
    BY <1>0, <1>5 DEF OpenDrain, Fence, Owning
  <2>6. CASE disk' = AppendOp(disk, OpOf(rec)) /\ UNCHANGED <<emergency, page>>
    <3>1. OpOf(rec) \in Operations /\ rec.seq \in 0..Count
      BY <1>0, <2>4, Naturals DEF Records, OpOf, Operations, Numbers
    <3>2. disk' \in Heads
      BY <2>5, <2>6, <3>1 DEF AppendOp, OpOf, Heads
    <3> QED BY <1>0, <1>5, <2>6, <3>2, QuietTyped DEF OpenDrain
  <2>7. CASE /\ emergency' = emergency \ {rec}
             /\ page' = [page EXCEPT !.drain = @ \ {rec}, !.pending = @ \ {Key(rec)}]
             /\ UNCHANGED disk
    <3>1. page' \in Pages
      BY <1>0, <2>7 DEF Pages
    <3> QED BY <1>0, <1>5, <2>7, <3>1, QuietTyped DEF OpenDrain
  <2> QED BY <1>5, <2>6, <2>7 DEF OpenDrain, rec
<1>6. CASE OpenDrainAbort
  <2>1. page' \in Pages
    BY <1>0, <1>6 DEF OpenDrainAbort, Pages, Phases
  <2> QED BY <1>0, <1>6, <2>1, QuietTyped DEF OpenDrainAbort
<1>7. CASE OpenDone
  <2> DEFINE kept == {f \in page.failure : f.epoch # page.epoch \/ f.seq > page.seq}
             keys == {k \in page.pending : k.epoch = page.epoch}
  <2>1. kept \in AtMostOne(Failures) /\ keys \subseteq Keys
    <3>1. kept \subseteq page.failure
      OBVIOUS
    <3> QED BY <1>0, <3>1, FewerMembers
  <2>2. page' = [page EXCEPT !.phase = "ready", !.pending = keys, !.failure = kept]
    BY <1>7 DEF OpenDone
  <2> HIDE DEF kept, keys
  <2>3. page' \in Pages
    BY <1>0, <2>1, <2>2 DEF Pages, Phases
  <2> QED BY <1>0, <1>7, <2>3, QuietTyped DEF OpenDone
<1> QED BY <1>1, <1>2, <1>3, <1>4, <1>5, <1>6, <1>7

LEMMA LoadTyped == ASSUME IInv, Load PROVE Typed'
<1>0. /\ Typed /\ Bounded /\ loads \in Nat /\ loads < MaxLoads /\ loads' = loads + 1
      /\ UNCHANGED <<disk, emergency, orphans, edits, epochs>>
  BY Naturals DEF IInv, Typed, Load
<1>1. Bounded' /\ Count' = Count /\ epochs' = epochs /\ loads <= loads'
  BY <1>0, Small DEF Bounded, Count
<1>2. /\ Heads \subseteq Heads' /\ Records \subseteq Records' /\ Txs \subseteq Txs'
      /\ Edits \subseteq Edits' /\ Pages \subseteq Pages'
  <2>1. Count <= Count' /\ epochs <= epochs'
    BY <1>0, <1>1, Naturals
  <2> QED BY <1>0, <1>1, <2>1, Growing
<1>3. NoPage \in Pages
  BY <1>0, NoPageTyped
<1>4. [NoPage EXCEPT !.phase = "load"] \in Pages
  BY <1>3 DEF Pages, Phases
<1>5. page' \in Pages'
  BY <1>2, <1>4 DEF Load
<1> QED BY <1>0, <1>1, <1>2, <1>5 DEF Typed

LEMMA FreshTyped ==
    ASSUME NEW e \in Seen, NEW w \in 1..loads, Bounded
    PROVE  FreshHead(e, w, {}, {}) \in Heads
BY Naturals DEF FreshHead, Heads, Checkpoints

\* A new epoch is drawn.
LEMMA DrawnEpoch ==
    ASSUME Typed, epochs < MaxEpochs, epochs' = epochs + 1, UNCHANGED <<edits, loads>>
    PROVE  /\ Bounded' /\ Count' = Count /\ epochs + 1 \in Seen'
           /\ Heads \subseteq Heads' /\ Records \subseteq Records'
           /\ Jobs \subseteq Jobs' /\ Pages \subseteq Pages'
           /\ Txs \subseteq Txs' /\ Edits \subseteq Edits' /\ Seen \subseteq Seen'
<1>1. Bounded' /\ Count' = Count /\ epochs \in Nat /\ loads' = loads
  BY Small, Naturals DEF Typed, Bounded, Count
<1>2. Count <= Count' /\ epochs <= epochs' /\ loads <= loads'
  BY <1>1, Naturals DEF Typed
<1>3. epochs + 1 \in Seen'
  BY <1>1 DEF Seen
<1> QED BY <1>1, <1>2, <1>3, Growing DEF Typed

LEMMA ProvisionTyped == ASSUME IInv, Provision PROVE Typed'
<1>0. /\ Typed /\ Fence /\ page.phase = "load"
      /\ epochs < MaxEpochs /\ epochs' = epochs + 1
      /\ disk' = FreshHead(epochs + 1, loads, {}, {})
      /\ page' = [page EXCEPT !.phase = "ready", !.epoch = epochs + 1]
      /\ UNCHANGED <<emergency, orphans, edits, loads, aborts>>
  BY DEF IInv, Safe, Provision, Install
<1>1. /\ Bounded' /\ Count' = Count /\ epochs + 1 \in Seen' /\ Records \subseteq Records'
      /\ Pages \subseteq Pages' /\ Txs \subseteq Txs' /\ Edits \subseteq Edits'
  BY <1>0, DrawnEpoch
<1>2. (loads \in 1..loads)'
  BY <1>0, Naturals DEF Fence, Typed
<1>3. disk' \in Heads'
  <2>1. 0 \in 0..Count'
    BY <1>0, <1>1, Naturals DEF Typed
  <2> QED BY <1>0, <1>1, <1>2, <2>1 DEF FreshHead, Heads, Checkpoints
<1>4. page' \in Pages'
  <2>1. page \in Pages'
    BY <1>0, <1>1 DEF Typed
  <2> QED BY <1>0, <1>1, <2>1 DEF Pages, Phases
<1> QED BY <1>0, <1>1, <1>3, <1>4 DEF Typed

LEMMA RestoreTyped == ASSUME IInv, Restore PROVE Typed'
<1> DEFINE t == [epoch |-> epochs + 1, seq |-> 0,
                 fallbackEpoch |-> page.epoch, fallbackSeq |-> page.seq]
<1>0. /\ Typed /\ Fence /\ page \in Pages /\ page.phase = "ready" /\ page.transition = {}
      /\ epochs < MaxEpochs /\ epochs' = epochs + 1
      /\ page' = [page EXCEPT !.transition = {t},
                              !.queue = Append(@, ResetJob(epochs + 1))]
      /\ UNCHANGED <<disk, emergency, orphans, edits, loads, aborts>>
  BY DEF IInv, Safe, Typed, Restore, Writable
<1>1. /\ Bounded' /\ Count' = Count /\ epochs + 1 \in Seen' /\ Records \subseteq Records'
      /\ Heads \subseteq Heads' /\ Jobs \subseteq Jobs' /\ Seen \subseteq Seen'
      /\ Pages \subseteq Pages' /\ Txs \subseteq Txs' /\ Edits \subseteq Edits'
  BY <1>0, DrawnEpoch
<1>2. page.epoch \in Seen /\ page.seq \in 0..Count /\ 0 \in 0..Count /\ page \in Pages'
  <2>1. page.epoch \in Seen
    BY <1>0 DEF Fence, Opened
  <2>2. page.seq \in 0..Count /\ Count \in Nat
    BY <1>0, Naturals DEF Pages, Typed
  <2> QED BY <1>0, <1>1, <2>1, <2>2
<1>3. t \in Transitions'
  BY <1>1, <1>2 DEF Transitions
<1>4. ResetJob(epochs + 1) \in Jobs'
  BY <1>1 DEF ResetJob, Jobs, Resets
<1>5. Append(page.queue, ResetJob(epochs + 1)) \in Seq(Jobs')
  <2>1. page.queue \in Seq(Jobs')
    BY <1>2 DEF Pages
  <2> QED BY <1>4, <2>1, AppendProperties
<1>6. {t} \in AtMostOne(Transitions')
  BY <1>3, NoneOrOne
<1> HIDE DEF t
<1>7. page' \in Pages'
  BY <1>0, <1>2, <1>5, <1>6 DEF Pages
<1> QED BY <1>0, <1>1, <1>7 DEF Typed


LEMMA CommitTyped == ASSUME IInv, JobCommit PROVE Typed'
<1>0. /\ Typed /\ Bounded /\ page \in Pages /\ emergency \subseteq Records
      /\ orphans \subseteq Txs /\ page.phase = "ready" /\ page.queue # <<>>
      /\ disk \in Heads /\ JobOk
      /\ disk' = IF Job.kind = "append" THEN AppendOp(disk, OpOf(Job.rec))
                 ELSE ResetState(Job.epoch, loads, {})
      /\ page' = [page EXCEPT !.queue[1].committed = TRUE]
      /\ UNCHANGED <<emergency, orphans, edits, epochs, loads, aborts>>
  BY DEF IInv, Safe, Typed, JobCommit, Shape, Fence, Owning
<1>1. Job \in Jobs /\ Job = page.queue[1] /\ 1 \in 1..Len(page.queue) /\ page.queue \in Seq(Jobs)
  BY <1>0, HeadJob DEF Pages
<1>2. disk' \in Heads
  <2>1. CASE Job.kind = "append"
    <3>1. Job.rec \in Records
      BY <1>1, <2>1, JobTyped DEF Appends
    <3>2. OpOf(Job.rec) \in Operations /\ Job.rec.seq \in 0..Count
      BY <1>0, <3>1, Naturals DEF Records, OpOf, Operations, Numbers
    <3> QED BY <1>0, <2>1, <3>2 DEF AppendOp, OpOf, Heads
  <2>2. CASE Job.kind = "reset"
    <3>1. Job.epoch \in Seen
      BY <1>1, <2>2, JobTyped DEF Resets
    <3>2. loads \in 1..loads
      BY <1>0, Naturals DEF IInv, Safe, Fence
    <3> QED BY <1>0, <2>2, <3>1, <3>2, FreshTyped DEF ResetState
  <2> QED BY <1>1, <2>1, <2>2, JobTyped
<1>3. [page.queue[1] EXCEPT !.committed = TRUE] \in Jobs
  BY <1>1 DEF Jobs, Appends, Resets
<1>4. [page.queue EXCEPT ![1].committed = TRUE] \in Seq(Jobs)
  BY <1>1, <1>3, ExceptSeq
<1>5. page' \in Pages
  BY <1>0, <1>4 DEF Pages
<1> QED BY <1>0, <1>2, <1>5, QuietTyped

LEMMA SettledTyped ==
    ASSUME IInv, AppendSettled \/ ResetSettled \/ JobFails
    PROVE  Typed'
<1>0. /\ Typed /\ Bounded /\ page \in Pages /\ emergency \subseteq Records
      /\ orphans \subseteq Txs /\ page.queue # <<>> /\ page.phase = "ready"
      /\ UNCHANGED <<disk, orphans, edits, epochs, loads>>
  BY DEF IInv, Safe, Typed, AppendSettled, ResetSettled, JobFails, Shape
<1>1. /\ page.epoch \in Seen /\ page.seq \in 0..Count /\ page.failed \in BOOLEAN
      /\ page.transition \in AtMostOne(Transitions) /\ page.pending \in SUBSET Keys
      /\ page.undurable \in Int /\ page.undurable - 1 \in Int
      /\ page.failure \in AtMostOne(Failures)
  BY <1>0 DEF Pages, IInv, Safe, Fence, Opened
<1>2. CASE AppendSettled
  <2> DEFINE copies == {Job.rec} \cup Job.fallback
             u == IF Job.durable THEN page.undurable ELSE page.undurable - 1
             pending == page.pending \ {Key(rec) : rec \in copies}
  <2>1. page' = [page EXCEPT !.queue = Tail(@), !.pending = pending, !.undurable = u]
    BY <1>2 DEF AppendSettled
  <2>2. pending \in SUBSET Keys /\ u \in Int
    BY <1>1
  <2> HIDE DEF pending, u
  <2>3. page' \in Pages
    BY <1>0, <2>1, <2>2, HeadJob DEF Pages
  <2> QED BY <1>0, <1>2, <2>3, QuietTyped DEF AppendSettled
<1>3. CASE ResetSettled
  <2> DEFINE t == CHOOSE x \in page.transition : TRUE
             pending == {k \in page.pending : k.epoch = t.epoch}
  <2>1. t \in Transitions
    <3>1. page.transition # {}
      <4>1. page.queue[1].kind = "reset" /\ 1 \in 1..Len(page.queue)
        BY <1>0, <1>3, HeadJob DEF ResetSettled
      <4> QED BY <4>1 DEF IInv, Safe, Shape
    <3> QED BY <1>1, <3>1, OneMember
  <2>2. t.epoch \in Seen /\ t.seq \in 0..Count /\ pending \in SUBSET Keys
    BY <1>1, <2>1 DEF Transitions
  <2>3. page' = [page EXCEPT !.queue = Tail(@), !.epoch = t.epoch, !.seq = t.seq,
                       !.failed = FALSE, !.transition = {}, !.pending = pending]
    BY <1>3 DEF ResetSettled
  <2> HIDE DEF pending, t
  <2>4. page' \in Pages
    BY <1>0, <2>2, <2>3, HeadJob, NoneOrOne DEF Pages
  <2> QED BY <1>0, <1>3, <2>4, QuietTyped DEF ResetSettled
<1>4. CASE JobFails /\ Job.kind = "append"
  <2> DEFINE u == IF Job.durable THEN page.undurable ELSE page.undurable - 1
             failure == IF Job.durable THEN page.failure
                        ELSE {[epoch |-> Job.observed,
                               seq |-> Max({Job.rec.seq} \cup {f.seq : f \in page.failure})]}
  <2>1. page' = [page EXCEPT !.queue = Tail(@), !.failed = TRUE,
                             !.undurable = u, !.failure = failure]
    BY <1>4 DEF JobFails, QueueAfterFailure
  <2>2. Job.rec.seq \in Numbers /\ Job.observed \in Seen
    BY <1>0, <1>4, HeadJob, JobTyped DEF Appends, Records
  <2>3. failure \in AtMostOne(Failures)
    <3>1. Max({Job.rec.seq} \cup {f.seq : f \in page.failure}) \in Numbers
      BY <1>0, <1>1, <2>2, LatestFailure
    <3>2. [epoch |-> Job.observed,
           seq |-> Max({Job.rec.seq} \cup {f.seq : f \in page.failure})] \in Failures
      BY <2>2, <3>1 DEF Failures
    <3> QED BY <1>1, <3>2, NoneOrOne
  <2>4. u \in Int
    BY <1>1
  <2> HIDE DEF u, failure
  <2>5. page' \in Pages
    BY <1>0, <2>1, <2>3, <2>4, HeadJob DEF Pages
  <2> QED BY <1>0, <1>4, <2>5, QuietTyped DEF JobFails
<1>5. CASE JobFails /\ Job.kind # "append"
  <2> DEFINE failed == page.failed \/ \E t \in page.transition : t.seq > 0
  <2>1. page' = [page EXCEPT !.queue = Tail(@), !.transition = {}, !.failed = failed]
    BY <1>5 DEF JobFails, QueueAfterFailure
  <2>2. failed \in BOOLEAN
    BY <1>1
  <2> HIDE DEF failed
  <2>3. page' \in Pages
    BY <1>0, <2>1, <2>2, HeadJob, NoneOrOne DEF Pages
  <2> QED BY <1>0, <1>5, <2>3, QuietTyped DEF JobFails
<1> QED BY <1>2, <1>3, <1>4, <1>5

-----------------------------------------------------------------------------
(* What an edit does. *)

Entry(epoch, seq) == [epoch |-> epoch, seq |-> seq, id |-> Count + 1]

\* The log and its keys after some of the entries were written to it.
Logged(entries, keys) ==
    /\ emergency \subseteq emergency' /\ emergency' \subseteq emergency \cup entries
    /\ \A k \in keys : k \in page.pending \/ \E r \in entries : r \in emergency' /\ k = Key(r)

\* An edit of the page's epoch.
PlainEdited(durable, keys, u) ==
    LET rec == Entry(page.epoch, page.seq + 1)
    IN  /\ Logged({rec}, keys) /\ (durable => rec \in emergency')
        /\ edits' = edits \cup {[id |-> Count + 1, epoch |-> page.epoch, durable |-> durable]}
        /\ page' = [page EXCEPT
              !.pending = keys, !.seq = page.seq + 1, !.transition = page.transition,
              !.queue = Append(page.queue, AppendJob(rec, {}, durable, page.epoch)),
              !.undurable = u]

\* An edit during the transition t.
MovingEdited(t, durable, keys, u) ==
    LET rec == Entry(t.epoch, t.seq + 1)
        old == Entry(t.fallbackEpoch, t.fallbackSeq + 1)
    IN  /\ Logged({old, rec}, keys) /\ (durable => {old, rec} \subseteq emergency')
        /\ edits' = edits \cup {[id |-> Count + 1, epoch |-> t.epoch, durable |-> durable]}
        /\ page' = [page EXCEPT
              !.pending = keys, !.seq = page.seq,
              !.transition = {[t EXCEPT !.seq = t.seq + 1, !.fallbackSeq = @ + 1]},
              !.queue = Append(page.queue, AppendJob(rec, {old}, durable, page.epoch)),
              !.undurable = u]

LEMMA PlainEdit ==
    ASSUME Typed, Edit, page.transition = {}
    PROVE  \E durable \in BOOLEAN, u \in Int : \E keys : PlainEdited(durable, keys, u)
<1> DEFINE rec == Entry(page.epoch, page.seq + 1)
           second == WriteEmergency(emergency, page.pending, rec)
           u == IF second.ok THEN page.undurable ELSE page.undurable + 1
<1>1. \/ second.ok = FALSE /\ second.log = emergency /\ second.keys = page.pending
      \/ /\ second.ok = TRUE /\ second.log = emergency \cup {rec}
         /\ second.keys = page.pending \cup {Key(rec)}
  BY DEF WriteEmergency
<1>2. second.ok \in BOOLEAN /\ (TRUE /\ second.ok) = second.ok
  BY <1>1
<1>3. /\ emergency' = second.log
      /\ edits' = edits \cup {[id |-> Count + 1, epoch |-> rec.epoch, durable |-> second.ok]}
      /\ page' = [page EXCEPT !.pending = second.keys, !.seq = rec.seq,
                    !.transition = page.transition,
                    !.queue = Append(@, AppendJob(rec, {}, second.ok, page.epoch)),
                    !.undurable = u]
  <2> HIDE DEF second
  <2> QED BY <1>2 DEF Edit, Entry, Count, second
<1>4. rec.seq = page.seq + 1 /\ rec.epoch = page.epoch /\ u \in Int
  BY DEF Entry, Typed, Pages
<1> HIDE DEF second, u
<1>5. PlainEdited(second.ok, second.keys, u)
  BY <1>1, <1>3, <1>4 DEF PlainEdited, Logged
<1> QED BY <1>2, <1>4, <1>5

LEMMA MovingEdit ==
    ASSUME Typed, Edit, NEW t \in page.transition
    PROVE  \E durable \in BOOLEAN, u \in Int : \E keys : MovingEdited(t, durable, keys, u)
<1> DEFINE rec == Entry(t.epoch, t.seq + 1)
           old == Entry(t.fallbackEpoch, t.fallbackSeq + 1)
           first == WriteEmergency(emergency, page.pending, old)
           second == WriteEmergency(first.log, first.keys, rec)
           durable == first.ok /\ second.ok
           u == IF durable THEN page.undurable ELSE page.undurable + 1
<1>0. page.transition = {t} /\ page.transition # {} /\ (CHOOSE x \in page.transition : TRUE) = t
      /\ page.undurable \in Int
  BY OneMember DEF Typed, Pages
<1>1. rec.seq = t.seq + 1 /\ rec.epoch = t.epoch
  BY DEF Entry
<1>2. /\ emergency' = second.log
      /\ edits' = edits \cup {[id |-> Count + 1, epoch |-> t.epoch, durable |-> durable]}
      /\ page' = [page EXCEPT !.pending = second.keys, !.seq = page.seq,
                    !.transition = {[t EXCEPT !.seq = t.seq + 1, !.fallbackSeq = @ + 1]},
                    !.queue = Append(page.queue, AppendJob(rec, {old}, durable, page.epoch)),
                    !.undurable = u]
  BY <1>0 DEF Edit, Entry, Count
<1>3. \/ first.ok = FALSE /\ first.log = emergency /\ first.keys = page.pending
      \/ /\ first.ok = TRUE /\ first.log = emergency \cup {old}
         /\ first.keys = page.pending \cup {Key(old)}
  BY DEF WriteEmergency
<1> HIDE DEF first
<1>4. \/ second.ok = FALSE /\ second.log = first.log /\ second.keys = first.keys
      \/ /\ second.ok = TRUE /\ second.log = first.log \cup {rec}
         /\ second.keys = first.keys \cup {Key(rec)}
  BY DEF WriteEmergency
<1> HIDE DEF second
<1>5. u \in Int /\ durable \in BOOLEAN /\ (durable => first.ok /\ second.ok)
  BY <1>0, <1>3, <1>4
<1> HIDE DEF u, durable
<1>6. Logged({old, rec}, second.keys) /\ (durable => {old, rec} \subseteq emergency')
  <2> HIDE DEF old, rec
  <2> QED BY <1>2, <1>3, <1>4, <1>5 DEF Logged
<1>7. MovingEdited(t, durable, second.keys, u)
  BY <1>2, <1>6 DEF MovingEdited
<1> QED BY <1>5, <1>7

\* An edit has a new number.
LEMMA EditCounted ==
    ASSUME Typed, Edit, NEW e, edits' = edits \cup {e}, e.id = Count + 1
    PROVE  /\ Count' = Count + 1 /\ Bounded' /\ epochs' = epochs /\ loads' = loads
           /\ Count \in Nat /\ Count + 1 \in Numbers'
<1>0. IsFiniteSet(edits) /\ Count \in Nat /\ Count < MaxEdits
      /\ UNCHANGED <<epochs, loads>>
  BY Naturals DEF Typed, Bounded, Edit, Count
<1>1. e \notin edits
  <2>1. \A x \in edits : x.id \in 1..Count
    BY DEF Typed, Edits, Numbers
  <2> QED BY <1>0, <2>1
<1>2. IsFiniteSet(edits') /\ Count' = Count + 1
  BY <1>0, <1>1, FS_AddElement DEF Count
<1> QED BY <1>0, <1>2, Small DEF Bounded, Typed, Numbers

LEMMA EditTyped == ASSUME IInv, Edit PROVE Typed'
<1>0. /\ Typed /\ Bounded /\ page \in Pages /\ emergency \subseteq Records
      /\ page.phase = "ready" /\ page.epoch \in Seen /\ page.seq \in 0..Count
      /\ page.pending \subseteq Keys /\ page.transition \in AtMostOne(Transitions)
      /\ UNCHANGED <<disk, orphans, epochs, loads>>
  <2>1. Typed /\ Fence /\ page.phase = "ready"
    BY DEF IInv, Safe, Edit, Writable
  <2>2. page.epoch \in Seen
    BY <2>1 DEF Fence, Opened
  <2> QED BY <2>1, <2>2 DEF Typed, Pages, Edit
<1>1. ASSUME NEW e, edits' = edits \cup {e}, e.id = Count + 1
      PROVE  /\ Count' = Count + 1 /\ Bounded' /\ Count \in Nat /\ Count + 1 \in Numbers'
             /\ Heads \subseteq Heads' /\ Records \subseteq Records'
             /\ Jobs \subseteq Jobs' /\ Pages \subseteq Pages' /\ Keys \subseteq Keys'
             /\ Txs \subseteq Txs' /\ Edits \subseteq Edits' /\ Seen' = Seen
             /\ Transitions \subseteq Transitions'
  <2>1. /\ Count' = Count + 1 /\ Bounded' /\ epochs' = epochs /\ loads' = loads
        /\ Count \in Nat /\ Count + 1 \in Numbers'
    BY <1>0, <1>1, EditCounted
  <2>2. Count <= Count' /\ epochs <= epochs' /\ loads <= loads'
    BY <1>0, <2>1, Naturals
  <2> QED BY <1>0, <2>1, <2>2, Growing DEF Seen
<1>2. CASE page.transition = {}
  <2> DEFINE rec == Entry(page.epoch, page.seq + 1)
  <2>0. PICK durable \in BOOLEAN, u \in Int : \E keys : PlainEdited(durable, keys, u)
    BY <1>0, <1>2, PlainEdit
  <2>1. PICK keys :
              /\ Logged({rec}, keys)
              /\ edits' = edits \cup {[id |-> Count + 1, epoch |-> page.epoch,
                                       durable |-> durable]}
              /\ page' = [page EXCEPT
                    !.pending = keys, !.seq = page.seq + 1,
                    !.transition = page.transition,
                    !.queue = Append(page.queue, AppendJob(rec, {}, durable, page.epoch)),
                    !.undurable = u]
    BY <2>0 DEF PlainEdited
  <2>2. /\ Count' = Count + 1 /\ Bounded' /\ Count \in Nat /\ Count + 1 \in Numbers'
        /\ Heads \subseteq Heads' /\ Records \subseteq Records'
        /\ Jobs \subseteq Jobs' /\ Pages \subseteq Pages' /\ Keys \subseteq Keys'
        /\ Txs \subseteq Txs' /\ Edits \subseteq Edits' /\ Seen' = Seen
    BY <1>1, <2>1
  <2>3. rec \in Records' /\ page.seq + 1 \in 0..Count'
    BY <1>0, <2>2 DEF Entry, Records, Numbers
  <2>4. AppendJob(rec, {}, durable, page.epoch) \in Jobs'
    BY <1>0, <2>2, <2>3 DEF AppendJob, Jobs, Appends
  <2>5. page \in Pages' /\ page.queue \in Seq(Jobs')
    BY <1>0, <2>2 DEF Pages
  <2>6. Append(page.queue, AppendJob(rec, {}, durable, page.epoch)) \in Seq(Jobs')
    BY <2>4, <2>5, AppendProperties
  <2>7. keys \subseteq Keys'
    <3>1. Key(rec) \in Keys'
      BY <2>3 DEF Key, Keys, Records
    <3> QED BY <1>0, <2>1, <2>2, <3>1 DEF Logged
  <2>8. emergency' \subseteq Records'
    BY <1>0, <2>1, <2>2, <2>3 DEF Logged
  <2>9. edits' \subseteq Edits'
    <3>1. [id |-> Count + 1, epoch |-> page.epoch, durable |-> durable] \in Edits'
      BY <1>0, <2>2 DEF Edits
    <3> QED BY <1>0, <2>1, <2>2, <3>1 DEF Typed
  <2> HIDE DEF rec
  <2>10. page' \in Pages'
    <3>1. (page.transition \in AtMostOne(Transitions))'
      BY <2>1, <2>5 DEF Pages
    <3> QED BY <2>1, <2>3, <2>5, <2>6, <2>7, <3>1 DEF Pages
  <2> QED BY <1>0, <2>2, <2>8, <2>9, <2>10 DEF Typed
<1>3. ASSUME NEW t \in page.transition PROVE Typed'
  <2> DEFINE rec == Entry(t.epoch, t.seq + 1)
             old == Entry(t.fallbackEpoch, t.fallbackSeq + 1)
             T == {[t EXCEPT !.seq = t.seq + 1, !.fallbackSeq = @ + 1]}
  <2>0. PICK durable \in BOOLEAN, u \in Int : \E keys : MovingEdited(t, durable, keys, u)
    BY <1>0, MovingEdit
  <2>1. PICK keys :
              /\ Logged({old, rec}, keys)
              /\ edits' = edits \cup {[id |-> Count + 1, epoch |-> t.epoch,
                                       durable |-> durable]}
              /\ page' = [page EXCEPT
                    !.pending = keys, !.seq = page.seq, !.transition = T,
                    !.queue = Append(page.queue, AppendJob(rec, {old}, durable, page.epoch)),
                    !.undurable = u]
    BY <2>0 DEF MovingEdited
  <2>2. /\ Count' = Count + 1 /\ Bounded' /\ Count \in Nat /\ Count + 1 \in Numbers'
        /\ Heads \subseteq Heads' /\ Records \subseteq Records'
        /\ Jobs \subseteq Jobs' /\ Pages \subseteq Pages' /\ Keys \subseteq Keys'
        /\ Txs \subseteq Txs' /\ Edits \subseteq Edits' /\ Seen' = Seen
    BY <1>1, <2>1
  <2>3. t \in Transitions
    BY <1>0, OneMember
  <2>4. t.seq + 1 \in 0..Count' /\ t.fallbackSeq + 1 \in 0..Count'
        /\ t.seq + 1 \in Numbers' /\ t.fallbackSeq + 1 \in Numbers'
        /\ t.epoch \in Seen' /\ t.fallbackEpoch \in Seen'
    BY <2>2, <2>3 DEF Transitions, Numbers
  <2>5. rec \in Records' /\ old \in Records'
    BY <2>2, <2>4 DEF Entry, Records
  <2>6. T \in AtMostOne(Transitions')
    <3>1. [t EXCEPT !.seq = t.seq + 1, !.fallbackSeq = @ + 1] \in Transitions'
      BY <2>3, <2>4 DEF Transitions
    <3> QED BY <3>1, NoneOrOne
  <2>7. AppendJob(rec, {old}, durable, page.epoch) \in Jobs'
    BY <1>0, <2>2, <2>5 DEF AppendJob, Jobs, Appends
  <2>8. page \in Pages' /\ page.queue \in Seq(Jobs')
    BY <1>0, <2>2 DEF Pages
  <2>9. Append(page.queue, AppendJob(rec, {old}, durable, page.epoch)) \in Seq(Jobs')
    BY <2>7, <2>8, AppendProperties
  <2>10. keys \subseteq Keys'
    <3>1. Key(rec) \in Keys' /\ Key(old) \in Keys'
      BY <2>5 DEF Key, Keys, Records
    <3> QED BY <1>0, <2>1, <2>2, <3>1 DEF Logged
  <2>11. emergency' \subseteq Records'
    BY <1>0, <2>1, <2>2, <2>5 DEF Logged
  <2>12. edits' \subseteq Edits'
    <3>1. [id |-> Count + 1, epoch |-> t.epoch, durable |-> durable] \in Edits'
      BY <2>2, <2>4 DEF Edits
    <3> QED BY <1>0, <2>1, <2>2, <3>1 DEF Typed
  <2> HIDE DEF rec, old, T
  <2>13. page' \in Pages'
    BY <2>1, <2>6, <2>8, <2>9, <2>10 DEF Pages
  <2> QED BY <1>0, <2>2, <2>11, <2>12, <2>13 DEF Typed
<1> QED BY <1>2, <1>3

LEMMA CompactedTyped ==
    ASSUME NEW h \in Heads, NEW cp \in Checkpoints
    PROVE  Compact(h, cp) \in Heads
<1>1. {op \in h.journal : op.seq > CompactedThrough(h, cp)} \in SUBSET Operations
  BY DEF Heads
<1> HIDE DEF CompactedThrough
<1> QED BY <1>1 DEF Compact, Heads

LEMMA CompactTyped ==
    ASSUME IInv, CompactLoad \/ CompactReplay \/ CompactWrite
    PROVE  Typed'
<1>0. /\ Typed /\ Fence /\ Bounded /\ page \in Pages /\ emergency \subseteq Records
      /\ orphans \subseteq Txs /\ page.compaction \in AtMostOne(Loaded \cup Writes)
  BY DEF IInv, Safe, Typed, Pages
<1>1. CASE CompactLoad
  <2>1. disk \in Heads
    BY <1>0, <1>1 DEF CompactLoad, Writable, Fence, Owning
  <2>2. {[step |-> "loaded", head |-> disk]} \in AtMostOne(Loaded \cup Writes)
    BY <2>1, NoneOrOne DEF Loaded
  <2>3. page' \in Pages
    BY <1>0, <1>1, <2>2 DEF CompactLoad, Pages
  <2> QED BY <1>0, <1>1, <2>3, QuietTyped DEF CompactLoad
<1>2. CASE CompactReplay
  <2>1. PICK c \in page.compaction :
            /\ c.step = "loaded"
            /\ page' = [page EXCEPT !.compaction =
                  IF Recoverable(c.head)
                  THEN {[step |-> "write", epoch |-> c.head.epoch,
                         cp |-> [seq |-> RecoveredSeq(c.head),
                                 state |-> RecoveredState(c.head)]]}
                  ELSE {}]
    BY <1>2 DEF CompactReplay
  <2>2. c.head \in Heads
    BY <1>0, <2>1, OneMember DEF Loaded, Writes
  <2>3. (IF Recoverable(c.head)
         THEN {[step |-> "write", epoch |-> c.head.epoch,
                cp |-> [seq |-> RecoveredSeq(c.head), state |-> RecoveredState(c.head)]]}
         ELSE {}) \in AtMostOne(Loaded \cup Writes)
    <3>1. CASE Recoverable(c.head)
      <4>1. [step |-> "write", epoch |-> c.head.epoch,
             cp |-> [seq |-> RecoveredSeq(c.head), state |-> RecoveredState(c.head)]] \in Writes
        BY <1>0, <2>2, <3>1, RecoveredTyped, HeadIsNotEmpty DEF Writes
      <4> QED BY <3>1, <4>1, NoneOrOne
    <3> QED BY <3>1, NoneOrOne
  <2>4. page' \in Pages
    BY <1>0, <2>1, <2>3 DEF Pages
  <2> QED BY <1>0, <1>2, <2>4, QuietTyped DEF CompactReplay
<1>3. CASE CompactWrite
  <2>1. PICK c \in page.compaction :
            /\ c.step = "write"
            /\ disk' = IF CompactOk(disk, c.epoch, loads, c.cp) THEN Compact(disk, c.cp)
                       ELSE disk
            /\ page' = [page EXCEPT !.compaction = {}]
    BY <1>3 DEF CompactWrite
  <2>2. c.epoch \in Seen /\ c.cp \in Checkpoints
    BY <1>0, <2>1, OneMember DEF Loaded, Writes
  <2>3. disk' \in Heads \/ UNCHANGED disk
    <3>1. CompactOk(disk, c.epoch, loads, c.cp) => disk \in Heads
      BY <1>0, <2>2, DiskIsHead, Naturals DEF CompactOk, FullFence, Fenced
    <3> QED BY <2>1, <2>2, <3>1, CompactedTyped
  <2>4. page' \in Pages
    BY <1>0, <2>1, NoneOrOne DEF Pages
  <2> QED BY <1>0, <1>3, <2>3, <2>4, QuietTyped DEF CompactWrite
<1> QED BY <1>1, <1>2, <1>3

\* What a page that goes leaves to the browser.
LEMMA IssuedTx ==
    ASSUME NEW tx \in Issued
    PROVE  \/ /\ page.queue # <<>> /\ Job.kind = "append" /\ ~Job.committed
              /\ tx = [kind |-> "append", epoch |-> Job.rec.epoch, writer |-> loads,
                       op |-> OpOf(Job.rec)]
           \/ /\ page.queue # <<>> /\ Job.kind = "reset" /\ ~Job.committed
              /\ tx = [kind |-> "reset", epoch |-> page.epoch, writer |-> loads,
                       next |-> Job.epoch]
           \/ \E c \in page.compaction :
                 /\ c.step = "write"
                 /\ tx = [kind |-> "compact", epoch |-> c.epoch, writer |-> loads, cp |-> c.cp]
BY DEF Issued

LEMMA DisappearTyped == ASSUME IInv, Disappear PROVE Typed'
<1>0. /\ Typed /\ Fence /\ Bounded /\ page \in Pages /\ emergency \subseteq Records
      /\ orphans \subseteq Txs /\ page.compaction \in AtMostOne(Loaded \cup Writes)
      /\ loads \in 1..loads
  BY Naturals DEF IInv, Safe, Typed, Pages, Fence, Disappear
<1>1. ASSUME NEW tx \in Issued PROVE tx \in Txs
  <2>1. CASE /\ page.queue # <<>> /\ Job.kind = "append"
             /\ tx = [kind |-> "append", epoch |-> Job.rec.epoch, writer |-> loads,
                      op |-> OpOf(Job.rec)]
    <3>1. Job.rec \in Records
      BY <1>0, <2>1, HeadJob, JobTyped DEF Appends
    <3>2. Job.rec.epoch \in Seen /\ OpOf(Job.rec) \in Operations
      BY <3>1 DEF Records, OpOf, Operations
    <3> QED BY <1>0, <2>1, <3>2 DEF Txs, AppendTxs
  <2>2. CASE /\ page.queue # <<>> /\ Job.kind = "reset"
             /\ tx = [kind |-> "reset", epoch |-> page.epoch, writer |-> loads,
                      next |-> Job.epoch]
    <3>1. Job.epoch \in Seen
      BY <1>0, <2>2, HeadJob, JobTyped DEF Resets
    <3>2. page.epoch \in Seen
      BY <1>0, <2>2 DEF IInv, Safe, Shape, Fence, Opened
    <3> QED BY <1>0, <2>2, <3>1, <3>2 DEF Txs, ResetTxs
  <2>3. ASSUME NEW c \in page.compaction, c.step = "write",
               tx = [kind |-> "compact", epoch |-> c.epoch, writer |-> loads, cp |-> c.cp]
        PROVE  tx \in Txs
    <3>1. c.epoch \in Seen /\ c.cp \in Checkpoints
      BY <1>0, <2>3, OneMember DEF Loaded, Writes
    <3> QED BY <1>0, <2>3, <3>1 DEF Txs, CompactTxs
  <2> QED BY <2>1, <2>2, <2>3, IssuedTx
<1>2. NoPage \in Pages
  BY <1>0, NoPageTyped
<1> QED BY <1>0, <1>1, <1>2, QuietTyped DEF Disappear

LEMMA TxTyped ==
    ASSUME NEW tx \in Txs
    PROVE  /\ tx.kind = "append" => tx \in AppendTxs
           /\ tx.kind = "reset" => tx \in ResetTxs
           /\ tx.kind = "compact" => tx \in CompactTxs
           /\ tx.epoch \in Seen /\ tx.writer \in 1..loads
BY DEF Txs, AppendTxs, ResetTxs, CompactTxs

\* How the browser ends what a page left.
Ended(tx) ==
    /\ orphans' = orphans \ {tx}
    /\ \/ UNCHANGED disk
       \/ /\ tx.kind = "append" /\ AppendOk(disk, tx.epoch, tx.writer, tx.op)
          /\ disk' = AppendOp(disk, tx.op)
       \/ /\ tx.kind = "reset" /\ ResetStateOk(disk, tx.epoch, tx.writer)
          /\ disk' = ResetState(tx.next, tx.writer, {})
       \/ /\ tx.kind = "compact" /\ CompactOk(disk, tx.epoch, tx.writer, tx.cp)
          /\ disk' = Compact(disk, tx.cp)
    /\ UNCHANGED <<emergency, page, edits, epochs, loads, aborts>>

LEMMA OrphanTyped ==
    ASSUME IInv, NEW tx \in orphans, Ended(tx)
    PROVE  Typed'
<1>0. Typed /\ Bounded /\ page \in Pages /\ emergency \subseteq Records /\ orphans \subseteq Txs
  BY DEF IInv, Typed
<1>1. tx.epoch \in Seen /\ tx.writer \in 1..loads
  BY <1>0, TxTyped
<1>2. disk.epoch = tx.epoch => disk \in Heads
  BY <1>0, <1>1, DiskIsHead, Naturals
<1>3. CASE tx.kind = "append" /\ AppendOk(disk, tx.epoch, tx.writer, tx.op)
           /\ disk' = AppendOp(disk, tx.op)
  <2>1. tx.op \in Operations /\ disk \in Heads
    BY <1>0, <1>2, <1>3, TxTyped DEF AppendTxs, AppendOk, Fenced
  <2>2. tx.op.seq \in 0..Count
    BY <1>0, <2>1, Naturals DEF Operations, Numbers
  <2>3. disk' \in Heads
    BY <1>3, <2>1, <2>2 DEF AppendOp, Heads
  <2> QED BY <1>0, <2>3, QuietTyped DEF Ended
<1>4. CASE tx.kind = "reset" /\ ResetStateOk(disk, tx.epoch, tx.writer)
           /\ disk' = ResetState(tx.next, tx.writer, {})
  <2>1. tx.next \in Seen
    BY <1>0, <1>4, TxTyped DEF ResetTxs
  <2>2. disk' \in Heads
    BY <1>0, <1>1, <1>4, <2>1, FreshTyped DEF ResetState
  <2> QED BY <1>0, <2>2, QuietTyped DEF Ended
<1>5. CASE tx.kind = "compact" /\ CompactOk(disk, tx.epoch, tx.writer, tx.cp)
           /\ disk' = Compact(disk, tx.cp)
  <2>1. tx.cp \in Checkpoints /\ disk \in Heads
    BY <1>0, <1>2, <1>5, TxTyped DEF CompactTxs, CompactOk, FullFence, Fenced
  <2>2. disk' \in Heads
    BY <1>5, <2>1, CompactedTyped
  <2> QED BY <1>0, <2>2, QuietTyped DEF Ended
<1>6. CASE UNCHANGED disk
  BY <1>0, <1>6, QuietTyped DEF Ended
<1> QED BY <1>3, <1>4, <1>5, <1>6 DEF Ended

LEMMA OrphanStep ==
    ASSUME OrphanEnds
    PROVE  \E tx \in orphans : Ended(tx)
BY DEF OrphanEnds, Ended

-----------------------------------------------------------------------------
(* What a step does to the head. *)

\* A reset in front of the queue is the one of the transition; what is behind
\* it are the edits of its epoch.
LEMMA HeadReset ==
    ASSUME Typed, Shape, page.queue # <<>>, Job.kind = "reset"
    PROVE  \E t \in Transitions :
              /\ page.transition = {t} /\ ResetAt(t) = 1 /\ t.seq = Len(page.queue) - 1
              /\ (CHOOSE x \in page.transition : TRUE) = t
              /\ Job.epoch = t.epoch /\ page.epoch < t.epoch /\ page.epoch = t.fallbackEpoch
<1>1. Job = page.queue[1] /\ Len(page.queue) \in Nat \ {0} /\ 1 \in 1..Len(page.queue)
  BY HeadJob
<1>2. page.transition # {}
  BY <1>1 DEF Shape
<1>3. PICK t \in page.transition : TRUE
  BY <1>2
<1>4. page.transition = {t} /\ t \in Transitions /\ (CHOOSE x \in page.transition : TRUE) = t
  BY OneMember DEF Typed, Pages
<1>5. ResetAt(t) = 1
  BY <1>1, <1>4 DEF Shape
<1>6. t.seq \in Int
  BY <1>4 DEF Transitions
<1> QED BY <1>1, <1>4, <1>5, <1>6 DEF Shape, ResetAt

Claimed ==
    \E e \in Seen, w \in 1..loads : ClaimOk(disk, e) /\ disk' = Claim(disk, w)

Appended ==
    \E e \in Seen, w \in 1..loads, op \in Operations :
        AppendOk(disk, e, w, op) /\ disk' = AppendOp(disk, op)

Replaced ==
    \E e, next \in Seen, w \in 1..loads :
        e < next /\ ResetStateOk(disk, e, w) /\ disk' = ResetState(next, w, {})

Compacted ==
    \E e \in Seen, w \in 1..loads, cp \in Checkpoints :
        CompactOk(disk, e, w, cp) /\ disk' = Compact(disk, cp)

Installed ==
    /\ disk = EmptyHead /\ epochs < MaxEpochs /\ loads >= 1
    /\ disk' = Install(epochs + 1, loads, {})

HeadMoves == disk \in Heads /\ (Claimed \/ Appended \/ Replaced \/ Compacted)

LEMMA FirstToDrain ==
    ASSUME Typed, page.drain # {}
    PROVE  LET rec == CHOOSE r \in page.drain : \A s \in page.drain : r.seq <= s.seq
           IN  rec \in page.drain /\ rec \in Records /\ \A s \in page.drain : rec.seq <= s.seq
<1>1. page.drain \subseteq Records
  BY DEF Typed, Pages
<1>2. \A r \in page.drain : r.seq \in Nat
  BY <1>1, Naturals DEF Typed, Records, Numbers
<1>3. \E r \in page.drain : \A s \in page.drain : r.seq <= s.seq
  BY <1>2, FirstRecord
<1> QED BY <1>1, <1>3

LEMMA OpTyped ==
    ASSUME NEW r \in Records
    PROVE  OpOf(r) \in Operations
BY DEF OpOf, Operations, Records

LEMMA HeadStep ==
    ASSUME IInv, [Next]_vars
    PROVE  UNCHANGED disk \/ Installed \/ HeadMoves
<1>0. /\ Typed /\ Fence /\ Shape /\ Bounded
  BY DEF IInv, Safe, Typed
<1>1. \A e \in Seen : disk.epoch = e => disk \in Heads
  BY <1>0, DiskIsHead, Naturals
<1>2. CASE OpenClaim
  <2>1. page.epoch \in Seen /\ loads \in 1..loads
    BY <1>0, <1>2, Naturals DEF OpenClaim, Fence, Opened
  <2> QED BY <1>1, <1>2, <2>1 DEF OpenClaim, ClaimOk, HeadMoves, Claimed
<1>3. CASE OpenDrain
  <2> DEFINE rec == CHOOSE r \in page.drain : \A s \in page.drain : r.seq <= s.seq
  <2>1. rec \in Records
    BY <1>0, <1>3, FirstToDrain DEF OpenDrain
  <2>2. \/ UNCHANGED disk
        \/ AppendOk(disk, page.epoch, loads, OpOf(rec)) /\ disk' = AppendOp(disk, OpOf(rec))
    BY <1>3 DEF OpenDrain
  <2> HIDE DEF rec
  <2>3. page.epoch \in Seen /\ loads \in 1..loads
    BY <1>0, <1>3, Naturals DEF OpenDrain, Fence, Opened
  <2>4. OpOf(rec) \in Operations
    BY <2>1, OpTyped
  <2> QED BY <1>1, <2>2, <2>3, <2>4 DEF AppendOk, Fenced, HeadMoves, Appended
<1>4. CASE Provision
  <2>1. disk = EmptyHead
    BY <1>0, <1>4, HeadIsNotEmpty DEF Provision, InstallOk, Typed
  <2>2. loads >= 1
    BY <1>0, <1>4 DEF Provision, Fence
  <2> QED BY <1>4, <2>1, <2>2 DEF Provision, Installed
<1>5. CASE JobCommit
  <2>0. page.queue # <<>> /\ page.phase = "ready" /\ JobOk
        /\ disk' = IF Job.kind = "append" THEN AppendOp(disk, OpOf(Job.rec))
                   ELSE ResetState(Job.epoch, loads, {})
    BY <1>0, <1>5 DEF JobCommit, Shape
  <2>1. page.epoch \in Seen /\ loads \in 1..loads /\ disk \in Heads
    BY <1>0, <2>0, Naturals DEF Fence, Opened, Owning
  <2>2. CASE Job.kind = "append"
    <3>1. Job.rec \in Records
      BY <1>0, <2>0, <2>2, HeadJob, JobTyped DEF Appends
    <3>2. OpOf(Job.rec) \in Operations /\ Job.rec.epoch \in Seen
      BY <3>1, OpTyped DEF Records
    <3> QED BY <2>0, <2>1, <2>2, <3>2 DEF JobOk, HeadMoves, Appended
  <2>3. CASE Job.kind = "reset"
    <3>1. page.epoch < Job.epoch
      BY <1>0, <2>0, <2>3, HeadReset
    <3>2. Job.epoch \in Seen
      BY <1>0, <2>0, <2>3, HeadJob, JobTyped DEF Resets
    <3> QED BY <2>0, <2>1, <2>3, <3>1, <3>2 DEF JobOk, HeadMoves, Replaced
  <2> QED BY <1>0, <2>0, <2>2, <2>3, HeadJob, JobTyped
<1>6. CASE CompactWrite
  <2>1. PICK c \in page.compaction :
            /\ c.step = "write"
            /\ disk' = IF CompactOk(disk, c.epoch, loads, c.cp) THEN Compact(disk, c.cp)
                       ELSE disk
    BY <1>6 DEF CompactWrite
  <2>2. c.epoch \in Seen /\ c.cp \in Checkpoints
    BY <1>0, <2>1, OneMember DEF Typed, Pages, Loaded, Writes
  <2>3. CompactOk(disk, c.epoch, loads, c.cp) => disk \in Heads /\ loads \in 1..loads
    <3>1. CompactOk(disk, c.epoch, loads, c.cp) => disk \in Heads
      BY <1>1, <2>2 DEF CompactOk, FullFence, Fenced
    <3>2. CompactOk(disk, c.epoch, loads, c.cp) => disk.writer = loads
      BY DEF CompactOk, FullFence, Fenced
    <3> QED BY <3>1, <3>2 DEF Heads
  <2> QED BY <2>1, <2>2, <2>3 DEF HeadMoves, Compacted
<1>7. CASE OrphanEnds
  <2>1. PICK tx \in orphans : Ended(tx)
    BY <1>7, OrphanStep
  <2>2. tx \in Txs /\ tx.epoch \in Seen /\ tx.writer \in 1..loads
    BY <1>0, TxTyped DEF Typed
  <2>3. CASE tx.kind = "append" /\ AppendOk(disk, tx.epoch, tx.writer, tx.op)
             /\ disk' = AppendOp(disk, tx.op)
    <3>1. tx.op \in Operations
      BY <2>2, <2>3, TxTyped DEF AppendTxs
    <3> QED BY <1>1, <2>2, <2>3, <3>1 DEF HeadMoves, Appended, AppendOk, Fenced
  <2>4. CASE tx.kind = "reset" /\ ResetStateOk(disk, tx.epoch, tx.writer)
             /\ disk' = ResetState(tx.next, tx.writer, {})
    <3>1. tx.next \in Seen /\ tx.epoch < tx.next
      BY <1>0, <2>2, <2>4, TxTyped DEF ResetTxs, Fence
    <3> QED BY <1>1, <2>2, <2>4, <3>1 DEF HeadMoves, Replaced, ResetStateOk, FullFence, Fenced
  <2>5. CASE tx.kind = "compact" /\ CompactOk(disk, tx.epoch, tx.writer, tx.cp)
             /\ disk' = Compact(disk, tx.cp)
    <3>1. tx.cp \in Checkpoints
      BY <2>2, <2>5, TxTyped DEF CompactTxs
    <3> QED BY <1>1, <2>2, <2>5, <3>1 DEF HeadMoves, Compacted, CompactOk, FullFence, Fenced
  <2> QED BY <2>1, <2>3, <2>4, <2>5 DEF Ended
<1>8. ASSUME \/ Load \/ Recover \/ OpenLoad \/ OpenReload \/ OpenDrainAbort \/ OpenDone
             \/ Edit \/ Restore \/ AppendSettled \/ ResetSettled \/ JobFails
             \/ CompactLoad \/ CompactReplay \/ Disappear \/ UNCHANGED vars
      PROVE  UNCHANGED disk
  BY <1>8 DEF Load, Recover, OpenLoad, OpenReload, OpenDrainAbort, OpenDone, Edit, Restore,
              AppendSettled, ResetSettled, JobFails, CompactLoad, CompactReplay, Disappear, vars
<1> QED BY <1>2, <1>3, <1>4, <1>5, <1>6, <1>7, <1>8 DEF Next

LEMMA TypedNext == ASSUME IInv, [Next]_vars PROVE Typed'
<1>1. CASE UNCHANGED vars
  <2>1. Typed /\ disk' = disk /\ page \in Pages /\ emergency' = emergency
        /\ orphans' = orphans /\ page' = page /\ UNCHANGED <<edits, epochs, loads>>
    BY <1>1 DEF IInv, Typed, vars
  <2> QED BY <2>1, QuietTyped DEF Typed
<1>2. CASE OrphanEnds
  BY <1>2, OrphanStep, OrphanTyped
<1> QED BY <1>1, <1>2, LoadTyped, OpenTyped, ProvisionTyped, EditTyped, RestoreTyped,
           CommitTyped, SettledTyped, CompactTyped, DisappearTyped DEF Next

-----------------------------------------------------------------------------
(* The engine implements the store. *)

\* The transactions of the store are those of JournalHead.
LEMMA SameTransactions ==
    /\ Store!EmptyHead = EmptyHead
    /\ \A h, e, w : Store!Fenced(h, e, w) = Fenced(h, e, w)
    /\ \A h, e : Store!InstallOk(h, e) = InstallOk(h, e) /\ Store!ClaimOk(h, e) = ClaimOk(h, e)
    /\ \A e, w, s : /\ Store!Install(e, w, s) = Install(e, w, s)
                    /\ Store!ResetState(e, w, s) = ResetState(e, w, s)
    /\ \A h, w : Store!Claim(h, w) = Claim(h, w)
    /\ \A h, e, w : Store!ResetStateOk(h, e, w) = ResetStateOk(h, e, w)
    /\ \A h, e, w, op : Store!AppendOk(h, e, w, op) = AppendOk(h, e, w, op)
    /\ \A h, op : Store!AppendOp(h, op) = AppendOp(h, op)
    /\ \A h, e, w, cp : Store!CompactOk(h, e, w, cp) = CompactOk(h, e, w, cp)
    /\ \A h, cp : Store!Compact(h, cp) = Compact(h, cp)
<1>1. \A h, e, w : /\ Store!Fenced(h, e, w) = Fenced(h, e, w)
                   /\ Store!CloudHeadOk(h) = CloudHeadOk(h)
                   /\ Store!FullFence(h, e, w) = FullFence(h, e, w)
  BY DEF Store!Fenced, Fenced, Store!CloudHeadOk, CloudHeadOk, Store!FullFence, FullFence
<1>2. \A e, w, s, b : Store!FreshHead(e, w, s, b) = FreshHead(e, w, s, b)
  BY DEF Store!FreshHead, FreshHead
<1>3. \A e, w, s : /\ Store!Install(e, w, s) = Install(e, w, s)
                   /\ Store!ResetState(e, w, s) = ResetState(e, w, s)
  BY <1>2 DEF Store!Install, Install, Store!ResetState, ResetState
<1>4. /\ \A h, e : Store!InstallOk(h, e) = InstallOk(h, e) /\ Store!ClaimOk(h, e) = ClaimOk(h, e)
      /\ \A h, e, w : Store!ResetStateOk(h, e, w) = ResetStateOk(h, e, w)
      /\ \A h, e, w, cp : Store!CompactOk(h, e, w, cp) = CompactOk(h, e, w, cp)
  BY <1>1 DEF Store!InstallOk, InstallOk, Store!ClaimOk, ClaimOk, Store!ResetStateOk,
              ResetStateOk, Store!CompactOk, CompactOk
<1>5. \A h, w : Store!Claim(h, w) = Claim(h, w)
  BY DEF Store!Claim, Claim
<1>6. \A h, e, w, op : Store!AppendOk(h, e, w, op) = AppendOk(h, e, w, op)
  BY <1>1 DEF Store!AppendOk, AppendOk
<1>7. \A h, op : Store!AppendOp(h, op) = AppendOp(h, op)
  BY DEF Store!AppendOp, AppendOp
<1>8. \A h, cp : Store!Compact(h, cp) = Compact(h, cp)
  <2>1. \A h, cp : Store!CompactedThrough(h, cp) = CompactedThrough(h, cp)
    BY DEF Store!CompactedThrough, CompactedThrough, Store!Min2, Min2
  <2> QED BY <2>1 DEF Store!Compact, Compact
<1>9. Store!EmptyHead = EmptyHead
  BY DEF Store!EmptyHead, EmptyHead
<1> QED BY <1>1, <1>3, <1>4, <1>5, <1>6, <1>7, <1>8, <1>9

LEMMA StoreStep ==
    ASSUME IInv, [Next]_vars
    PROVE  [Store!Next]_disk
<1>0. /\ Bounded /\ Count \in Nat /\ Count <= MaxEdits /\ epochs \in Nat /\ epochs <= MaxEpochs
      /\ loads \in Nat /\ loads <= MaxLoads /\ MaxEdits \in Nat /\ MaxEpochs \in Nat
      /\ MaxLoads \in Nat
  BY Small, Naturals DEF IInv, Typed
<1>1. /\ Seen \subseteq EpochIds /\ 1..loads \subseteq 1..MaxLoads /\ Numbers \subseteq 1..MaxEdits
      /\ SUBSET Numbers \subseteq SUBSET Ids /\ Numbers \subseteq Ids
      /\ 0..Count \subseteq 0..MaxEdits
  BY <1>0 DEF Seen, EpochIds, Numbers, Ids
<1>2. Operations \subseteq Store!Operations /\ Checkpoints \subseteq Store!Checkpoints
  BY <1>1 DEF Operations, Checkpoints, Store!Operations, Store!Checkpoints, Store!Seqs
<1>3. CASE Installed
  <2>1. epochs + 1 \in EpochIds /\ epochs + 1 # NoEpoch /\ loads \in 1..MaxLoads
    BY <1>0, <1>3, Small DEF Installed, EpochIds
  <2>2. {} \in SUBSET Ids /\ InstallOk(disk, NoEpoch)
    BY <1>3 DEF Installed, InstallOk, EmptyHead
  <2>3. Store!InstallTx(NoEpoch, loads)
    BY <1>3, <2>1, <2>2, SameTransactions DEF Installed, Store!InstallTx
  <2> QED BY <2>1, <2>3 DEF Store!Next
<1>4. CASE HeadMoves /\ Claimed
  BY <1>1, <1>4, SameTransactions DEF Claimed, Store!Next, Store!ClaimTx
<1>5. CASE HeadMoves /\ Appended
  <2>1. PICK e \in Seen, w \in 1..loads, op \in Operations :
            AppendOk(disk, e, w, op) /\ disk' = AppendOp(disk, op)
    BY <1>5 DEF Appended
  <2>2. Store!AppendTx(e, w) /\ Store!Fenced(disk, e, w)
    BY <1>2, <2>1, SameTransactions DEF Store!AppendTx, AppendOk
  <2> QED BY <1>1, <2>2 DEF Store!Next, Store!FencedTx
<1>6. CASE HeadMoves /\ Replaced
  <2>1. PICK e \in Seen, next \in Seen, w \in 1..loads :
            e < next /\ ResetStateOk(disk, e, w) /\ disk' = ResetState(next, w, {})
    BY <1>6 DEF Replaced
  <2>2. next \in EpochIds \ {e} /\ {} \in SUBSET Ids
    BY <1>0, <1>1, <2>1 DEF Seen
  <2>3. Store!ResetStateTx(e, w) /\ Store!Fenced(disk, e, w)
    BY <2>1, <2>2, SameTransactions DEF Store!ResetStateTx, ResetStateOk, FullFence
  <2> QED BY <1>1, <2>3 DEF Store!Next, Store!FencedTx
<1>7. CASE HeadMoves /\ Compacted
  <2>1. PICK e \in Seen, w \in 1..loads, cp \in Checkpoints :
            CompactOk(disk, e, w, cp) /\ disk' = Compact(disk, cp)
    BY <1>7 DEF Compacted
  <2>2. Store!CompactTx(e, w) /\ Store!Fenced(disk, e, w)
    BY <1>2, <2>1, SameTransactions DEF Store!CompactTx, CompactOk, FullFence
  <2> QED BY <1>1, <2>2 DEF Store!Next, Store!FencedTx
<1> QED BY <1>3, <1>4, <1>5, <1>6, <1>7, HeadStep DEF HeadMoves

-----------------------------------------------------------------------------
(* The head keeps its form. *)

LEMMA StillHead ==
    ASSUME IInv, Typed', [Next]_vars, disk \in Heads
    PROVE  disk' \in Heads' /\ disk' # EmptyHead
<1>1. Bounded /\ disk # EmptyHead /\ disk.epoch \in Seen /\ NoEpoch \notin Seen
  BY HeadIsNotEmpty, Naturals DEF IInv, Typed
<1>2. disk' # EmptyHead
  <2>1. CASE Claimed
    <3>1. disk'.epoch = disk.epoch
      BY <2>1 DEF Claimed, Claim, Heads
    <3> QED BY <1>1, <3>1 DEF EmptyHead
  <2>2. CASE Appended
    <3>1. disk'.epoch = disk.epoch
      BY <2>2 DEF Appended, AppendOp, Heads
    <3> QED BY <1>1, <3>1 DEF EmptyHead
  <2>3. CASE Replaced
    BY <1>1, <2>3 DEF Replaced, ResetState, FreshHead, EmptyHead
  <2>4. CASE Compacted
    <3>1. disk'.epoch = disk.epoch
      BY <2>4 DEF Compacted, Compact, Heads
    <3> QED BY <1>1, <3>1 DEF EmptyHead
  <2> QED BY <1>1, <2>1, <2>2, <2>3, <2>4, HeadStep DEF Installed, HeadMoves
<1> QED BY <1>2 DEF Typed

LEMMA HeadOkNext ==
    ASSUME IInv, [Next]_vars
    PROVE  HeadOk'
<1>0. HeadOk /\ Count \in Nat
  BY Naturals DEF IInv, Safe, Typed
<1>1. CASE UNCHANGED disk
  BY <1>0, <1>1 DEF HeadOk, JournalKeysOk, ReplayOk
<1>2. ASSUME NEW e, NEW w, disk' = FreshHead(e, w, {}, {}) PROVE HeadOk'
  BY <1>2 DEF HeadOk, JournalKeysOk, ReplayOk, FreshHead
<1>3. CASE HeadMoves /\ Claimed
  <2>1. /\ disk'.journal = disk.journal /\ disk'.seq = disk.seq /\ disk'.cp = disk.cp
    BY <1>3 DEF HeadMoves, Claimed, Claim, Heads
  <2> QED BY <1>0, <2>1 DEF HeadOk, JournalKeysOk, ReplayOk
<1>4. CASE HeadMoves /\ Appended
  <2>1. PICK e \in Seen, w \in 1..loads, op \in Operations :
            AppendOk(disk, e, w, op) /\ disk' = AppendOp(disk, op)
    BY <1>4 DEF Appended
  <2>2. /\ disk.seq \in Nat /\ disk.cp.seq \in Nat /\ disk.journal \subseteq Operations
        /\ op.seq \in Nat
    BY <1>0, <1>4 DEF HeadMoves, Heads, Checkpoints, Operations, Numbers
  <2>3. CASE op \in disk.journal
    BY <1>1, <2>1, <2>3 DEF AppendOp
  <2>4. CASE op \notin disk.journal
    <3>1. /\ disk'.journal = disk.journal \cup {op} /\ disk'.seq = disk.seq + 1
          /\ disk'.cp = disk.cp /\ op.seq = disk.seq + 1
      BY <1>4, <2>1, <2>4 DEF AppendOp, AppendOk, HeadMoves, Heads
    <3>2. JournalKeysOk(disk)'
      BY <1>0, <2>1, <2>2, <2>4, <3>1 DEF HeadOk, JournalKeysOk
    <3>3. ReplayOk(disk)'
      <4>1. disk'.cp.seq <= disk'.seq
        BY <1>0, <2>2, <3>1 DEF HeadOk, ReplayOk
      <4>2. ASSUME NEW n \in (disk'.cp.seq + 1)..disk'.seq
            PROVE  \E x \in disk'.journal : x.seq = n
        BY <1>0, <2>2, <3>1, <4>2 DEF HeadOk, ReplayOk
      <4> QED BY <4>1, <4>2 DEF ReplayOk
    <3> QED BY <3>2, <3>3 DEF HeadOk
  <2> QED BY <2>3, <2>4
<1>5. CASE HeadMoves /\ Compacted
  <2>1. PICK e \in Seen, w \in 1..loads, cp \in Checkpoints :
            CompactOk(disk, e, w, cp) /\ disk' = Compact(disk, cp)
    BY <1>5 DEF Compacted
  <2>2. /\ disk'.journal = {op \in disk.journal : op.seq > cp.seq} /\ disk'.seq = disk.seq
        /\ disk'.cp = cp /\ disk.seq \in Nat /\ disk.cp.seq \in Nat /\ cp.seq \in Nat
        /\ disk.journal \subseteq Operations
    BY <1>0, <1>5, <2>1 DEF HeadMoves, Heads, Compact, CompactedThrough, Checkpoints
  <2>3. disk.cp.seq <= cp.seq /\ cp.seq <= disk.seq
    BY <2>1 DEF CompactOk
  <2>4. JournalKeysOk(disk)'
    BY <1>0, <2>2, <2>3 DEF HeadOk, JournalKeysOk
  <2>5. ReplayOk(disk)'
    <3>1. ASSUME NEW n \in (cp.seq + 1)..disk.seq
          PROVE  \E x \in disk'.journal : x.seq = n
      <4>1. n \in (disk.cp.seq + 1)..disk.seq /\ n > cp.seq
        BY <2>2, <2>3, <3>1
      <4> QED BY <1>0, <2>2, <4>1 DEF HeadOk, ReplayOk
    <3> QED BY <2>2, <2>3, <3>1 DEF ReplayOk
  <2> QED BY <2>4, <2>5 DEF HeadOk
<1>6. CASE Installed \/ Replaced
  BY <1>2, <1>6 DEF Installed, Replaced, Install, ResetState
<1> QED BY <1>1, <1>3, <1>4, <1>5, <1>6, HeadStep DEF HeadMoves

LEMMA UntouchedNext ==
    ASSUME IInv, Typed', [Next]_vars
    PROVE  Untouched'
<1>1. CASE disk' # EmptyHead
  BY <1>1 DEF Untouched, EmptyHead
<1>2. CASE disk' = EmptyHead
  <2>1. disk = EmptyHead
    BY <1>2, StillHead DEF IInv, Typed
  <2>2. /\ page \in {NoPage, [NoPage EXCEPT !.phase = "load"]}
        /\ emergency = {} /\ orphans = {} /\ edits = {}
    BY <2>1 DEF IInv, Safe, Untouched
  <2>3. /\ page.phase \in {"none", "load"} /\ page.queue = <<>> /\ page.compaction = {}
        /\ disk.epoch = NoEpoch
    BY <2>1, <2>2 DEF NoPage, EmptyHead
  <2>4. ~Provision
    <3>1. ASSUME Provision PROVE disk'.epoch = epochs' /\ epochs' \in 1..MaxEpochs
      BY <3>1, Small, Naturals DEF Provision, Install, FreshHead, IInv, Typed
    <3> QED BY <1>2, <3>1, Small DEF EmptyHead
  <2>5. \/ Load \/ Disappear \/ UNCHANGED vars
    BY <2>2, <2>3, <2>4
       DEF Next, Recover, OpenLoad, OpenClaim, OpenReload, OpenDrain, OpenDrainAbort, OpenDone,
           Edit, Restore, Writable, JobCommit, AppendSettled, ResetSettled, JobFails,
           CompactLoad, CompactReplay, CompactWrite, OrphanEnds
  <2>6. Disappear => orphans' = {}
    BY <2>2, <2>3 DEF Disappear, Issued
  <2> QED BY <2>2, <2>5, <2>6 DEF Load, Disappear, vars, Untouched
<1> QED BY <1>1, <1>2

-----------------------------------------------------------------------------
(* The fence, the queue and the log: a page that opens the journal, or goes. *)

Owned == Fence /\ Shape /\ Line /\ LogOwned /\ Draining

\* A page that is not the writer has nothing in the queue.
LEMMA AwayOwned ==
    ASSUME page'.phase # "ready", page'.queue = <<>>, page'.transition = {},
           page'.pending \subseteq {Key(r) : r \in emergency'}
    PROVE  Shape' /\ Line' /\ LogOwned' /\ ~ResetCommitted'
<1>1. Len(page'.queue) = 0 /\ ~Writable'
  BY EmptySeq DEF Writable
<1>2. Shape' /\ ~ResetCommitted'
  BY <1>1 DEF Shape, ResetCommitted
<1>3. (page.pending \subseteq {Key(r) : r \in emergency})'
  OBVIOUS
<1>4. LogOwned'
  BY <1>1, <1>3 DEF LogOwned
<1> QED BY <1>1, <1>2, <1>4 DEF Line

LEMMA NoPageIs ==
    /\ NoPage.phase = "none" /\ NoPage.queue = <<>> /\ NoPage.transition = {}
    /\ NoPage.pending = {} /\ NoPage.epoch = NoEpoch /\ NoPage.seq = 0 /\ NoPage.failed = FALSE
BY DEF NoPage

\* The transition in progress, and its reset in the queue.
LEMMA Moving ==
    ASSUME Typed, Shape, NEW t \in page.transition
    PROVE  /\ page.transition = {t} /\ (CHOOSE x \in page.transition : TRUE) = t
           /\ t \in Transitions /\ t.seq \in Nat /\ t.seq \in 0..Count
           /\ t.epoch \in Seen /\ t.fallbackEpoch \in Seen /\ t.fallbackSeq \in 0..Count
           /\ Len(page.queue) \in Nat /\ ResetAt(t) \in 1..Len(page.queue)
<1>1. page.transition \in AtMostOne(Transitions) /\ page.queue \in Seq(Jobs)
  BY DEF Typed, Pages
<1>2. page.transition = {t} /\ t \in Transitions /\ (CHOOSE x \in page.transition : TRUE) = t
  BY <1>1, OneMember
<1>3. /\ t.seq \in 0..Count /\ Count \in Nat /\ t.epoch \in Seen /\ t.fallbackEpoch \in Seen
      /\ t.fallbackSeq \in 0..Count
  BY <1>2, Naturals DEF Transitions, Typed
<1>4. Len(page.queue) \in Nat
  BY <1>1, LenProperties
<1>5. t.seq < Len(page.queue)
  BY DEF Shape
<1> QED BY <1>2, <1>3, <1>4, <1>5 DEF ResetAt

LEMMA EmptyQueue ==
    ASSUME Typed, Shape, page.queue = <<>>
    PROVE  page.transition = {} /\ Len(page.queue) = 0 /\ ~ResetCommitted
<1>1. Len(page.queue) = 0
  BY EmptySeq
<1>2. ASSUME NEW t \in page.transition PROVE FALSE
  BY <1>1, Moving
<1> QED BY <1>1, <1>2 DEF ResetCommitted

LEMMA LoadOwned == ASSUME IInv, Load PROVE Owned'
<1>0. /\ Typed /\ loads \in Nat /\ loads' = loads + 1 /\ UNCHANGED <<disk, emergency, orphans>>
      /\ page' = [NoPage EXCEPT !.phase = "load"]
  BY Naturals DEF IInv, Typed, Load
<1>1. /\ page'.phase = "load" /\ page'.queue = <<>> /\ page'.transition = {} /\ page'.pending = {}
  BY <1>0 DEF NoPage
<1>2. Fence'
  <2>1. \A tx \in orphans : tx.writer \in 1..loads
    BY <1>0, TxTyped DEF Typed
  <2>2. \A tx \in orphans' : tx.writer < loads'
    BY <1>0, <2>1
  <2>3. \A tx \in orphans' : tx.kind = "reset" => tx.epoch < tx.next
    BY <1>0 DEF IInv, Safe, Fence
  <2> QED BY <1>0, <1>1, <2>2, <2>3 DEF Fence, Opened, Owning
<1>3. Draining'
  BY <1>1 DEF Draining
<1> QED BY <1>1, <1>2, <1>3, AwayOwned DEF Owned

LEMMA DisappearOwned == ASSUME IInv, Disappear PROVE Owned'
<1>0. /\ Typed /\ Shape /\ Fence /\ UNCHANGED <<disk, emergency, loads>>
      /\ page' = NoPage /\ orphans' = orphans \cup Issued
  BY DEF IInv, Safe, Disappear
<1>1. \A tx \in Issued : tx.kind = "reset" => tx.epoch < tx.next
  BY <1>0, IssuedTx, HeadReset
<1>2. Fence'
  <2>1. \A tx \in orphans' : tx.kind = "reset" => tx.epoch < tx.next
    BY <1>0, <1>1 DEF Fence
  <2> QED BY <1>0, <2>1, NoPageIs DEF Fence, Opened, Owning
<1>3. Draining'
  BY <1>0, NoPageIs DEF Draining
<1>4. /\ page'.phase # "ready" /\ page'.queue = <<>> /\ page'.transition = {}
      /\ page'.pending \subseteq {Key(r) : r \in emergency'}
  BY <1>0, NoPageIs
<1> QED BY <1>2, <1>3, <1>4, AwayOwned DEF Owned

LEMMA OpenOwned ==
    ASSUME IInv,
           Recover \/ OpenLoad \/ OpenClaim \/ OpenDrainAbort
    PROVE  Owned'
<1>0. /\ Typed /\ Fence /\ page \in Pages /\ UNCHANGED <<emergency, orphans, epochs, loads>>
      /\ page.queue = <<>> /\ page.transition = {} /\ page.phase # "none"
      /\ page.pending \subseteq {Key(r) : r \in emergency}
  <2>1. page.queue = <<>> /\ page.transition = {}
    <3>1. page.phase = "ready" => Recover
      BY DEF OpenLoad, OpenClaim, OpenDrainAbort
    <3>2. CASE page.phase # "ready"
      BY <3>2 DEF IInv, Safe, Shape
    <3>3. CASE Recover
      BY <3>3, EmptyQueue DEF Recover, IInv, Safe
    <3> QED BY <3>1, <3>2, <3>3
  <2> QED BY <2>1 DEF IInv, Safe, Typed, LogOwned, Recover, OpenLoad, OpenClaim, OpenDrainAbort
<1>1. /\ page'.queue = <<>> /\ page'.transition = {} /\ page'.pending = page.pending
      /\ page'.phase \in {"load", "claim", "broken", "reload", "stopped"}
  <2>1. CASE Recover
    BY <1>0, <2>1 DEF Recover, Pages
  <2>2. CASE OpenLoad
    BY <1>0, <2>2 DEF OpenLoad, Pages
  <2>3. CASE OpenClaim
    BY <1>0, <2>3 DEF OpenClaim, Pages
  <2>4. CASE OpenDrainAbort
    BY <1>0, <2>4 DEF OpenDrainAbort, Pages
  <2> QED BY <2>1, <2>2, <2>3, <2>4
<1>2. Shape' /\ Line' /\ LogOwned' /\ ~ResetCommitted'
  BY <1>0, <1>1, AwayOwned
<1>3. Draining'
  BY <1>1 DEF Draining
<1>4. (Opened => page.epoch \in Seen)' /\ (Owning => disk \in Heads /\ disk.writer = loads /\ disk.epoch = page.epoch)'
  <2>1. CASE Recover
    <3>1. page'.phase = "load"
      BY <1>0, <2>1 DEF Recover, Pages
    <3> QED BY <3>1 DEF Opened, Owning
  <2>2. CASE OpenLoad
    <3>1. disk.epoch \in Seen
      BY <1>0, <2>2, DiskIsHead, HeadIsNotEmpty DEF OpenLoad, Typed
    <3>2. \/ page'.phase = "broken"
          \/ page'.phase = "claim" /\ page'.epoch = disk.epoch
      BY <1>0, <2>2 DEF OpenLoad, Pages
    <3> QED BY <1>0, <3>1, <3>2 DEF Opened, Owning, Seen
  <2>3. CASE OpenClaim
    <3>1. page.epoch \in Seen /\ page'.epoch = page.epoch
      BY <1>0, <2>3 DEF OpenClaim, Fence, Opened, Pages
    <3>2. CASE ~ClaimOk(disk, page.epoch)
      <4>1. page'.phase = "stopped"
        BY <1>0, <2>3, <3>2 DEF OpenClaim, Pages
      <4> QED BY <1>0, <3>1, <4>1 DEF Owning, Seen
    <3>3. CASE ClaimOk(disk, page.epoch)
      <4>1. disk \in Heads /\ disk.epoch = page.epoch
        BY <1>0, <3>1, <3>3, DiskIsHead, Naturals DEF ClaimOk, Typed
      <4>2. disk' = [disk EXCEPT !.writer = loads]
        BY <2>3, <3>3 DEF OpenClaim, Claim
      <4>3. disk'.writer = loads /\ disk'.epoch = disk.epoch
        BY <4>1, <4>2 DEF Heads
      <4>4. disk' \in Heads'
        <5>1. Heads' = Heads
          BY <1>0, <2>3, Steady DEF OpenClaim
        <5>2. loads \in 1..loads
          BY <1>0, Naturals DEF Fence, Typed
        <5> QED BY <4>1, <4>2, <5>1, <5>2 DEF Heads
      <4> QED BY <1>0, <3>1, <4>1, <4>3, <4>4 DEF Seen
    <3> QED BY <3>2, <3>3
  <2>4. CASE OpenDrainAbort
    <3>1. page'.phase = "stopped" /\ page'.epoch = page.epoch /\ page.epoch \in Seen
      BY <1>0, <2>4 DEF OpenDrainAbort, Pages, Fence, Opened
    <3> QED BY <1>0, <3>1 DEF Opened, Owning, Seen
  <2> QED BY <2>1, <2>2, <2>3, <2>4
<1>5. Fence'
  BY <1>0, <1>2, <1>4 DEF Fence
<1> QED BY <1>2, <1>3, <1>5 DEF Owned

\* Behind the claim the journal ends at the database's sequence and the log goes
\* on from there.
LEMMA ReloadOwned == ASSUME IInv, OpenReload PROVE Owned'
<1>0. /\ Typed /\ Fence /\ Shape /\ page \in Pages /\ UNCHANGED <<disk, emergency, orphans, loads>>
      /\ page.phase = "reload" /\ page.queue = <<>> /\ page.transition = {}
      /\ page.pending \subseteq {Key(r) : r \in emergency} /\ disk \in Heads /\ HeadOk
      /\ Heads' = Heads /\ Seen' = Seen
  <2>1. Heads' = Heads
    BY Steady DEF OpenReload
  <2>2. Seen' = Seen
    BY DEF OpenReload, Seen
  <2> QED BY <2>1, <2>2 DEF IInv, Safe, Typed, OpenReload, Shape, LogOwned, Fence, Owning
<1>1. CASE ~Recoverable(disk)
  <2>1. page' = [page EXCEPT !.phase = "broken"]
    BY <1>1 DEF OpenReload
  <2>2. /\ page'.queue = <<>> /\ page'.transition = {} /\ page'.pending = page.pending
        /\ page'.phase = "broken"
    BY <1>0, <2>1 DEF Pages
  <2>3. Shape' /\ Line' /\ LogOwned' /\ Draining'
    BY <1>0, <2>2, AwayOwned DEF Draining
  <2>4. Fence'
    BY <1>0, <2>2 DEF Fence, Opened, Owning
  <2> QED BY <2>3, <2>4 DEF Owned
<1>2. CASE Recoverable(disk)
  <2>1. page' = [page EXCEPT !.phase = "drain", !.epoch = disk.epoch,
                             !.seq = RecoveredSeq(disk), !.failed = FALSE,
                             !.drain = Applicable(disk)]
    BY <1>2 DEF OpenReload
  <2>2. /\ page'.queue = <<>> /\ page'.transition = {} /\ page'.pending = page.pending
        /\ page'.phase = "drain" /\ page'.epoch = disk.epoch
        /\ page'.seq = RecoveredSeq(disk) /\ page'.drain = Applicable(disk)
    BY <1>0, <2>1 DEF Pages
  <2>3. Shape' /\ Line' /\ LogOwned' /\ ~ResetCommitted'
    BY <1>0, <2>2, AwayOwned
  <2>4. Fence'
    <3>1. disk.epoch \in Seen /\ disk.writer = loads
      BY <1>0, HeadIsNotEmpty DEF Fence, Owning, Typed
    <3> QED BY <1>0, <2>2, <2>3, <3>1 DEF Fence, Opened, Owning
  <2>5. Draining'
    <3>1. /\ RecoveredSeq(disk) \in Nat /\ disk.seq \in Nat /\ disk.cp.seq \in Nat
          /\ disk.seq <= RecoveredSeq(disk) /\ disk.cp.seq <= disk.seq
          /\ ReplayOps(disk) \subseteq Operations /\ Applicable(disk) \subseteq Records
      <4>1. disk.seq \in Nat /\ disk.cp.seq \in Nat
        BY <1>0, Naturals DEF Heads, Checkpoints, Typed
      <4> QED BY <1>0, <1>2, <4>1, ReplayTyped DEF Recoverable, HeadOk, ReplayOk
    <3>2. \A op \in Operations : op.seq \in Nat
      BY <1>0, Naturals DEF Operations, Numbers, Typed
    <3>3. {op.seq : op \in Replayed(disk)} = (disk.cp.seq + 1)..RecoveredSeq(disk)
      BY <1>2 DEF Recoverable
    <3>4. ASSUME NEW r \in Applicable(disk) PROVE r.seq <= RecoveredSeq(disk)
      <4>1. OpOf(r) \in ReplayOps(disk) /\ OpOf(r).seq = r.seq
        BY <3>4 DEF ReplayOps, OpOf
      <4>2. r.seq \in Nat
        BY <3>1, <3>2, <4>1
      <4>3. CASE r.seq > disk.cp.seq
        <5>1. OpOf(r) \in Replayed(disk)
          BY <4>1, <4>3 DEF Replayed
        <5> QED BY <3>1, <3>3, <4>1, <5>1
      <4> QED BY <3>1, <4>2, <4>3
    <3>5. ASSUME NEW n \in (disk.seq + 1)..RecoveredSeq(disk)
          PROVE  \E r \in Applicable(disk) : r.seq = n
      <4>1. n \in (disk.cp.seq + 1)..RecoveredSeq(disk) /\ n > disk.seq
        BY <3>1, <3>5
      <4>2. PICK op \in Replayed(disk) : op.seq = n
        BY <3>3, <4>1
      <4>3. op \notin disk.journal
        BY <1>0, <3>1, <4>1, <4>2 DEF HeadOk, JournalKeysOk
      <4> QED BY <4>2, <4>3 DEF Replayed, ReplayOps, OpOf
    <3>6. Applicable(disk)' = Applicable(disk)
      BY <1>0 DEF Applicable
    <3> QED BY <1>0, <2>2, <3>1, <3>4, <3>5, <3>6 DEF Draining
  <2> QED BY <2>3, <2>4, <2>5 DEF Owned
<1> QED BY <1>1, <1>2

\* The first recovered record is committed, or retired when the database has it.
LEMMA DrainOwned == ASSUME IInv, OpenDrain PROVE Owned'
<1> DEFINE rec == CHOOSE r \in page.drain : \A s \in page.drain : r.seq <= s.seq
<1>0. /\ Typed /\ Fence /\ Shape /\ page \in Pages /\ UNCHANGED <<orphans, loads>>
      /\ page.phase = "drain" /\ page.queue = <<>> /\ page.transition = {}
      /\ page.pending \subseteq {Key(r) : r \in emergency} /\ disk \in Heads /\ HeadOk
      /\ Heads' = Heads /\ Seen' = Seen /\ page.epoch \in Seen /\ ~ResetCommitted
      /\ disk.writer = loads /\ disk.epoch = page.epoch
      /\ page.drain \subseteq Records /\ page.drain = Applicable(disk)
  <2>1. Heads' = Heads
    BY Steady DEF OpenDrain
  <2>2. Seen' = Seen
    BY DEF OpenDrain, Seen
  <2>3. Typed /\ Fence /\ Shape /\ Draining /\ HeadOk /\ LogOwned /\ page.phase = "drain"
    BY DEF IInv, Safe, OpenDrain
  <2>4. page.queue = <<>> /\ page.transition = {} /\ ~ResetCommitted
    BY <2>3 DEF Shape, ResetCommitted
  <2>5. page \in Pages /\ page.drain \subseteq Records
    BY <2>3 DEF Typed, Pages
  <2>6. page.epoch \in Seen /\ disk \in Heads /\ disk.writer = loads /\ disk.epoch = page.epoch
    BY <2>3, <2>4 DEF Fence, Opened, Owning
  <2> QED BY <2>1, <2>2, <2>3, <2>4, <2>5, <2>6 DEF OpenDrain, LogOwned, Draining
<1>1. rec \in page.drain /\ rec \in Records /\ \A s \in page.drain : rec.seq <= s.seq
  BY <1>0, FirstToDrain DEF OpenDrain
<1>2. /\ page.seq \in Nat /\ disk.seq \in Nat /\ \A r \in page.drain : r.seq \in Nat
      /\ disk.seq <= page.seq /\ \A r \in page.drain : r.seq <= page.seq
      /\ \A n \in (disk.seq + 1)..page.seq : \E r \in page.drain : r.seq = n
  <2>1. page.seq \in Nat /\ disk.seq \in Nat
    BY <1>0, Naturals DEF Typed, Pages, Heads
  <2>2. \A r \in Records : r.seq \in Nat
    BY <1>0, Naturals DEF Typed, Records, Numbers
  <2> QED BY <1>0, <2>1, <2>2 DEF IInv, Safe, Draining
<1>3. \/ /\ rec.seq > disk.seq
         /\ AppendOk(disk, page.epoch, loads, OpOf(rec))
         /\ disk' = AppendOp(disk, OpOf(rec))
         /\ UNCHANGED <<emergency, page>>
      \/ /\ rec.seq <= disk.seq
         /\ emergency' = emergency \ {rec}
         /\ page' = [page EXCEPT !.drain = @ \ {rec}, !.pending = @ \ {Key(rec)}]
         /\ UNCHANGED disk
  BY DEF OpenDrain
<1> HIDE DEF rec
<1>4. CASE /\ rec.seq > disk.seq
           /\ AppendOk(disk, page.epoch, loads, OpOf(rec))
           /\ disk' = AppendOp(disk, OpOf(rec))
           /\ UNCHANGED <<emergency, page>>
  <2>1. OpOf(rec) \notin disk.journal /\ OpOf(rec).seq = rec.seq
    BY <1>0, <1>2, <1>4, <1>1 DEF HeadOk, JournalKeysOk, OpOf
  <2>2. /\ disk' = [disk EXCEPT !.journal = @ \cup {OpOf(rec)}, !.seq = rec.seq]
        /\ rec.seq = disk.seq + 1
    BY <1>4, <2>1 DEF AppendOp, AppendOk
  <2>3. disk'.seq = rec.seq /\ disk'.epoch = disk.epoch /\ disk'.writer = disk.writer
    BY <1>0, <2>2 DEF Heads
  <2>4. Shape' /\ Line' /\ LogOwned' /\ ~ResetCommitted'
    BY <1>0, <1>4, AwayOwned
  <2>5. disk' \in Heads'
    BY TypedNext, <2>3, <1>0, HeadIsNotEmpty, StillHead DEF Next
  <2>6. Fence'
    BY <1>0, <1>4, <2>3, <2>4, <2>5 DEF Fence, Opened, Owning
  <2>7. Draining'
    <3>1. Applicable(disk)' = Applicable(disk)
      BY <1>4, <2>3 DEF Applicable
    <3> QED BY <1>0, <1>1, <1>2, <1>4, <2>2, <2>3, <3>1 DEF Draining
  <2> QED BY <2>4, <2>6, <2>7 DEF Owned
<1>5. CASE /\ rec.seq <= disk.seq
           /\ emergency' = emergency \ {rec}
           /\ page' = [page EXCEPT !.drain = @ \ {rec}, !.pending = @ \ {Key(rec)}]
           /\ UNCHANGED disk
  <2>1. /\ page'.queue = <<>> /\ page'.transition = {} /\ page'.phase = "drain"
        /\ page'.pending = page.pending \ {Key(rec)} /\ page'.drain = page.drain \ {rec}
        /\ page'.epoch = page.epoch /\ page'.seq = page.seq
    BY <1>0, <1>5 DEF Pages
  <2>2. page'.pending \subseteq {Key(r) : r \in emergency'}
    BY <1>0, <1>5, <2>1
  <2>3. Shape' /\ Line' /\ LogOwned' /\ ~ResetCommitted'
    BY <2>1, <2>2, AwayOwned
  <2>4. Fence'
    BY <1>0, <1>5, <2>1, <2>3 DEF Fence, Opened, Owning
  <2>5. Draining'
    <3>1. Applicable(disk)' = Applicable(disk) \ {rec}
      BY <1>5 DEF Applicable
    <3>2. ASSUME NEW n \in (disk.seq + 1)..page.seq
          PROVE  \E r \in page'.drain : r.seq = n
      BY <1>1, <1>2, <1>5, <2>1, <3>2
    <3> QED BY <1>0, <1>2, <1>5, <2>1, <3>1, <3>2 DEF Draining
  <2> QED BY <2>3, <2>4, <2>5 DEF Owned
<1> QED BY <1>3, <1>4, <1>5

\* A writer with an empty queue and an empty log is in step with the database.
LEMMA IdleOwned ==
    ASSUME page'.queue = <<>>, page'.transition = {}, page'.phase = "ready",
           emergency' = {}, page'.pending = {}, page'.seq \in Nat, disk'.seq = page'.seq
    PROVE  Shape' /\ Line' /\ LogOwned' /\ Draining' /\ ~ResetCommitted'
<1>1. Len(page'.queue) = 0
  BY EmptySeq
<1>2. Shape' /\ ~ResetCommitted'
  BY <1>1 DEF Shape, ResetCommitted
<1>3. LogOwned'
  BY <1>1 DEF LogOwned
<1>4. Line'
  <2>1. InLine(0)'
    BY <1>1 DEF InLine
  <2>2. InLine(Len(page.queue))'
    BY <1>1, <2>1
  <2> QED BY <2>2 DEF Line
<1> QED BY <1>2, <1>3, <1>4 DEF Draining

LEMMA DoneOwned == ASSUME IInv, OpenDone PROVE Owned'
<1> DEFINE kept == {f \in page.failure : f.epoch # page.epoch \/ f.seq > page.seq}
           keys == {k \in page.pending : k.epoch = page.epoch}
<1>0. /\ Typed /\ Fence /\ page \in Pages /\ UNCHANGED <<disk, orphans, loads>>
      /\ page.phase = "drain" /\ page.queue = <<>> /\ page.transition = {}
      /\ page.pending \subseteq {Key(r) : r \in emergency} /\ disk \in Heads
      /\ Heads' = Heads /\ Seen' = Seen /\ page.epoch \in Seen
      /\ disk.writer = loads /\ disk.epoch = page.epoch
      /\ Applicable(disk) = {} /\ disk.seq <= page.seq
      /\ \A n \in (disk.seq + 1)..page.seq : FALSE
  <2>1. Heads' = Heads
    BY Steady DEF OpenDone
  <2>2. Seen' = Seen
    BY DEF OpenDone, Seen
  <2>3. /\ Typed /\ Fence /\ Shape /\ Draining /\ LogOwned
        /\ page.phase = "drain" /\ page.drain = {}
    BY DEF IInv, Safe, OpenDone
  <2>4. page.queue = <<>> /\ page.transition = {} /\ ~ResetCommitted
    BY <2>3 DEF Shape, ResetCommitted
  <2>5. page \in Pages
    BY <2>3 DEF Typed
  <2>6. page.epoch \in Seen /\ disk \in Heads /\ disk.writer = loads /\ disk.epoch = page.epoch
    BY <2>3, <2>4 DEF Fence, Opened, Owning
  <2>7. /\ Applicable(disk) = {} /\ disk.seq <= page.seq
        /\ \A n \in (disk.seq + 1)..page.seq : FALSE
    BY <2>3 DEF Draining
  <2> QED BY <2>1, <2>2, <2>3, <2>4, <2>5, <2>6, <2>7 DEF OpenDone, LogOwned
<1>1. /\ page' = [page EXCEPT !.phase = "ready", !.pending = keys, !.failure = kept]
      /\ emergency' = {r \in emergency : r.epoch = page.epoch}
  BY DEF OpenDone
<1>2. emergency' = {} /\ keys = {}
  <2>1. \A r \in emergency : r.epoch # page.epoch
    BY <1>0 DEF Applicable
  <2>2. \A k \in keys : FALSE
    BY <1>0, <2>1 DEF Key
  <2> QED BY <1>1, <2>1, <2>2
<1>3. disk.seq = page.seq /\ page.seq \in Nat
  <2>1. disk.seq \in Nat /\ page.seq \in Nat
    BY <1>0, Naturals DEF Typed, Heads, Pages
  <2>2. ~(disk.seq < page.seq)
    BY <1>0, <2>1
  <2> QED BY <1>0, <2>1, <2>2
<1> HIDE DEF kept, keys
<1>4. /\ page'.phase = "ready" /\ page'.queue = <<>> /\ page'.transition = {}
      /\ page'.pending = {} /\ page'.epoch = page.epoch /\ page'.seq = page.seq
  BY <1>0, <1>1, <1>2 DEF Pages
<1>5. Shape' /\ Line' /\ LogOwned' /\ Draining' /\ ~ResetCommitted'
  BY <1>0, <1>2, <1>3, <1>4, IdleOwned
<1>6. Fence'
  BY <1>0, <1>4, <1>5 DEF Fence, Opened, Owning
<1> QED BY <1>5, <1>6 DEF Owned

LEMMA ProvisionOwned == ASSUME IInv, Provision PROVE Owned'
<1>0. /\ Typed /\ Fence /\ Untouched /\ page.phase = "load"
      /\ epochs \in Nat /\ epochs' = epochs + 1
      /\ disk' = FreshHead(epochs + 1, loads, {}, {})
      /\ page' = [page EXCEPT !.phase = "ready", !.epoch = epochs + 1]
      /\ UNCHANGED <<emergency, orphans, loads>> /\ disk.epoch = NoEpoch
  BY Naturals DEF IInv, Safe, Typed, Provision, Install, InstallOk
<1>1. disk = EmptyHead /\ disk' \in Heads'
  <2>1. disk = EmptyHead
    BY <1>0, HeadIsNotEmpty DEF Typed
  <2>2. Typed' /\ disk'.epoch = epochs'
    BY <1>0, TypedNext DEF Next, FreshHead
  <2>3. disk' # EmptyHead
    <3>1. epochs' # NoEpoch
      <4>1. epochs' \in 1..MaxEpochs
        BY <1>0, Small DEF Provision
      <4> QED BY <4>1, Small
    <3> QED BY <2>2, <3>1 DEF EmptyHead
  <2> QED BY <2>1, <2>2, <2>3 DEF Typed
<1>2. page = [NoPage EXCEPT !.phase = "load"] /\ emergency = {}
  BY <1>0, <1>1, NoPageIs DEF Untouched
<1>3. /\ page'.phase = "ready" /\ page'.queue = <<>> /\ page'.transition = {}
      /\ page'.pending = {} /\ page'.epoch = epochs + 1 /\ page'.seq = 0
  BY <1>0, <1>2 DEF NoPage
<1>4. disk'.seq = 0 /\ disk'.epoch = epochs + 1 /\ disk'.writer = loads
  BY <1>0 DEF FreshHead
<1>5. Shape' /\ Line' /\ LogOwned' /\ Draining' /\ ~ResetCommitted'
  BY <1>0, <1>2, <1>3, <1>4, IdleOwned
<1>6. Fence'
  <2>1. epochs + 1 \in Seen'
    BY <1>0 DEF Seen
  <2> QED BY <1>0, <1>1, <1>3, <1>4, <1>5, <2>1 DEF Fence, Opened, Owning
<1> QED BY <1>5, <1>6 DEF Owned

\* The position of the writer and of the database stay what they are.
SamePlace ==
    /\ page'.phase = page.phase /\ page'.epoch = page.epoch /\ page'.seq = page.seq
    /\ page'.failed = page.failed /\ page'.transition = page.transition
    /\ page'.queue = page.queue /\ page'.pending = page.pending /\ page'.drain = page.drain
    /\ UNCHANGED <<emergency, epochs, loads>> /\ orphans' \subseteq orphans

LEMMA KeptOwned ==
    ASSUME Owned, SamePlace,
           Owning => /\ disk' \in Heads' /\ disk'.epoch = disk.epoch /\ disk'.seq = disk.seq
                     /\ disk'.writer = disk.writer
    PROVE  Owned'
<1>1. /\ Job' = Job /\ ResetCommitted' = ResetCommitted /\ Writable' = Writable
      /\ Opened' = Opened /\ Owning' = Owning /\ Seen' = Seen
      /\ \A t : ResetAt(t)' = ResetAt(t)
  BY DEF SamePlace, Job, ResetCommitted, Writable, Opened, Owning, Seen, ResetAt
<1>2. Fence'
  BY <1>1 DEF Owned, Fence, SamePlace
<1>3. Shape'
  BY <1>1 DEF Owned, Shape, SamePlace
<1>4. Line'
  <2>1. ASSUME NEW m, Owning, InLine(m) PROVE InLine(m)'
    BY <1>1, <2>1 DEF InLine, SamePlace
  <2>2. Writable => Owning
    BY DEF Writable, Owning
  <2> QED BY <1>1, <2>1, <2>2 DEF Owned, Line, SamePlace
<1>5. LogOwned'
  BY <1>1 DEF Owned, LogOwned, SamePlace
<1>6. Draining'
  <2>1. CASE page.phase = "drain"
    <3>1. disk'.epoch = disk.epoch /\ disk'.seq = disk.seq
      BY <2>1 DEF Owning
    <3>2. Applicable(disk)' = Applicable(disk)
      BY <3>1 DEF Applicable, SamePlace
    <3> QED BY <3>1, <3>2 DEF Owned, Draining, SamePlace
  <2>2. CASE page.phase # "drain"
    BY <2>2 DEF Draining, SamePlace
  <2> QED BY <2>1, <2>2
<1> QED BY <1>2, <1>3, <1>4, <1>5, <1>6 DEF Owned

LEMMA CompactOwned ==
    ASSUME IInv, CompactLoad \/ CompactReplay \/ CompactWrite
    PROVE  Owned'
<1>0. /\ Owned /\ page \in Pages /\ Typed /\ UNCHANGED <<emergency, orphans, epochs, loads>>
      /\ Heads' = Heads
  <2>1. UNCHANGED <<emergency, orphans, edits, epochs, loads>>
    BY DEF CompactLoad, CompactReplay, CompactWrite
  <2> QED BY <2>1, Steady DEF IInv, Safe, Owned, Typed
<1>1. \E x : page' = [page EXCEPT !.compaction = x]
  BY DEF CompactLoad, CompactReplay, CompactWrite
<1>2. SamePlace
  BY <1>0, <1>1 DEF SamePlace, Pages
<1>3. Owning => disk \in Heads
  BY <1>0 DEF Owned, Fence
<1>4. CASE CompactLoad \/ CompactReplay
  <2>1. UNCHANGED disk
    BY <1>4 DEF CompactLoad, CompactReplay
  <2> QED BY <1>0, <1>2, <1>3, <2>1, KeptOwned
<1>5. CASE CompactWrite
  <2>1. PICK c \in page.compaction :
            /\ c.step = "write"
            /\ disk' = IF CompactOk(disk, c.epoch, loads, c.cp) THEN Compact(disk, c.cp)
                       ELSE disk
    BY <1>5 DEF CompactWrite
  <2>2. c.cp \in Checkpoints
    BY <1>0, <2>1, OneMember DEF Pages, Loaded, Writes
  <2>3. disk \in Heads =>
            /\ disk' \in Heads /\ disk'.epoch = disk.epoch /\ disk'.seq = disk.seq
            /\ disk'.writer = disk.writer
    <3>1. disk \in Heads => Compact(disk, c.cp) \in Heads
      BY <2>2, CompactedTyped
    <3>2. disk \in Heads =>
            LET h == Compact(disk, c.cp)
            IN  h.epoch = disk.epoch /\ h.seq = disk.seq /\ h.writer = disk.writer
      BY DEF Compact, Heads
    <3> QED BY <2>1, <3>1, <3>2
  <2> QED BY <1>0, <1>2, <1>3, <2>3, KeptOwned
<1> QED BY <1>4, <1>5

\* What older pages left cannot pass the fence of the page that owns the journal.
LEMMA OrphanOwned ==
    ASSUME IInv, NEW tx \in orphans, Ended(tx)
    PROVE  Owned'
<1>0. /\ Owned /\ Typed /\ UNCHANGED <<emergency, page, epochs, loads>> /\ orphans' \subseteq orphans
      /\ Heads' = Heads
  <2>1. UNCHANGED <<edits, epochs, loads>> /\ orphans' \subseteq orphans
    BY DEF Ended
  <2> QED BY <2>1, Steady DEF IInv, Safe, Owned, Ended
<1>1. SamePlace
  BY <1>0 DEF SamePlace
<1>2. ASSUME Owning PROVE UNCHANGED disk /\ disk \in Heads
  <2>1. disk \in Heads /\ disk.writer = loads /\ tx.writer < loads /\ loads \in Nat
    BY <1>0, <1>2, Naturals DEF Owned, Fence, Owning, Typed
  <2>2. disk.writer # tx.writer
    <3>1. tx.writer \in 1..loads
      BY <1>0, TxTyped DEF Typed
    <3> QED BY <2>1, <3>1
  <2> QED BY <2>1, <2>2
       DEF Ended, AppendOk, ResetStateOk, CompactOk, FullFence, Fenced
<1> QED BY <1>0, <1>1, <1>2, KeptOwned

-----------------------------------------------------------------------------
(* The queue. *)

LEMMA FirstOf ==
    ASSUME NEW S, NEW s \in Seq(S), s # <<>>
    PROVE  Head(s) = s[1] /\ Len(s) \in Nat \ {0}
BY HeadTailProperties, EmptySeq

LEMMA QueueTail ==
    ASSUME Typed, page.queue # <<>>, page'.queue = Tail(page.queue)
    PROVE  /\ Len(page.queue) \in Nat \ {0} /\ Len(page'.queue) = Len(page.queue) - 1
           /\ \A i \in 1..(Len(page.queue) - 1) : page'.queue[i] = page.queue[i + 1]
           /\ page'.queue # <<>> => Len(page.queue) > 1 /\ Job' = page.queue[2]
<1>1. /\ Len(page.queue) \in Nat \ {0} /\ Len(page'.queue) = Len(page.queue) - 1
      /\ \A i \in 1..(Len(page.queue) - 1) : page'.queue[i] = page.queue[i + 1]
      /\ page'.queue \in Seq(Jobs)
  BY HeadJob
<1>2. ASSUME page'.queue # <<>> PROVE Len(page.queue) > 1 /\ Job' = page.queue[2]
  <2>1. Len(page'.queue) # 0 /\ Job' = page'.queue[1]
    <3>1. Head(page'.queue) = page'.queue[1] /\ Len(page'.queue) \in Nat \ {0}
      BY <1>1, <1>2, FirstOf
    <3> QED BY <3>1 DEF Job
  <2>2. Len(page.queue) > 1
    <3>1. \A n \in Nat \ {0} : n - 1 # 0 => n > 1
      OBVIOUS
    <3> QED BY <1>1, <2>1, <3>1
  <2>3. 1 \in 1..(Len(page.queue) - 1)
    BY <1>1, <2>2
  <2>4. page'.queue[1] = page.queue[1 + 1] /\ 1 + 1 = 2
    BY <1>1, <2>3
  <2> QED BY <2>1, <2>2, <2>4
<1> QED BY <1>1, <1>2

LEMMA QueueAppend ==
    ASSUME Typed, NEW j, page'.queue = Append(page.queue, j)
    PROVE  /\ Len(page.queue) \in Nat /\ Len(page'.queue) = Len(page.queue) + 1
           /\ \A i \in 1..Len(page.queue) : page'.queue[i] = page.queue[i]
           /\ page'.queue[Len(page.queue) + 1] = j
           /\ page'.queue # <<>>
           /\ page.queue # <<>> => Job' = Job /\ Len(page.queue) > 0
           /\ page.queue = <<>> => Job' = j /\ Len(page.queue) = 0
<1> DEFINE S == Jobs \cup {j}
<1>1. page.queue \in Seq(Jobs)
  BY DEF Typed, Pages
<1>2. page.queue \in Seq(S) /\ j \in S
  BY <1>1, Monotone
<1> HIDE DEF S
<1>3. /\ Len(page.queue) \in Nat /\ Len(page'.queue) = Len(page.queue) + 1
      /\ \A i \in 1..Len(page.queue) : page'.queue[i] = page.queue[i]
      /\ page'.queue[Len(page.queue) + 1] = j /\ page'.queue # <<>> /\ page'.queue \in Seq(S)
  BY <1>2, AppendProperties, LenProperties
<1>4. Job' = page'.queue[1]
  BY <1>3, FirstOf DEF Job
<1>5. page.queue # <<>> => Job = page.queue[1] /\ Len(page.queue) \in Nat \ {0}
  BY HeadJob
<1>6. page.queue = <<>> => Len(page.queue) = 0
  BY EmptySeq
<1> QED BY <1>3, <1>4, <1>5, <1>6

\* The job in front is marked as committed.
LEMMA QueueCommit ==
    ASSUME Typed, page.queue # <<>>,
           page'.queue = [page.queue EXCEPT ![1].committed = TRUE]
    PROVE  /\ Len(page.queue) \in Nat \ {0} /\ Len(page'.queue) = Len(page.queue)
           /\ \A i \in 2..Len(page.queue) : page'.queue[i] = page.queue[i]
           /\ page'.queue # <<>> /\ Job' = [Job EXCEPT !.committed = TRUE] /\ Job'.committed = TRUE
           /\ page'.queue[1] = [Job EXCEPT !.committed = TRUE]
<1>1. /\ Job \in Jobs /\ Job = page.queue[1] /\ Len(page.queue) \in Nat \ {0}
      /\ page.queue \in Seq(Jobs)
  BY HeadJob DEF Typed, Pages
<1>2. [Job EXCEPT !.committed = TRUE] \in Jobs /\ [Job EXCEPT !.committed = TRUE].committed = TRUE
  BY <1>1 DEF Jobs, Appends, Resets
<1>3. page'.queue = [page.queue EXCEPT ![1] = [Job EXCEPT !.committed = TRUE]]
  BY <1>1
<1>4. /\ page'.queue \in Seq(Jobs) /\ Len(page'.queue) = Len(page.queue)
      /\ \A i \in 1..Len(page.queue) :
            page'.queue[i] = IF i = 1 THEN [Job EXCEPT !.committed = TRUE] ELSE page.queue[i]
  BY <1>1, <1>2, <1>3, ExceptSeq
<1>5. page'.queue # <<>>
  BY <1>1, <1>4, EmptySeq
<1>6. Job' = page'.queue[1]
  BY <1>4, <1>5, FirstOf DEF Job
<1>7. /\ page'.queue[1] = [Job EXCEPT !.committed = TRUE]
      /\ \A i \in 2..Len(page.queue) : page'.queue[i] = page.queue[i]
  BY <1>1, <1>4
<1> QED BY <1>1, <1>2, <1>4, <1>5, <1>6, <1>7

\* An append leaves the front: what is behind it moves up one place.
LEMMA FrontLeaves ==
    ASSUME Typed, Shape, page.queue # <<>>, Job.kind = "append",
           page'.queue = Tail(page.queue), page'.transition = page.transition,
           page'.epoch = page.epoch, page'.phase = page.phase
    PROVE  /\ Shape' /\ ~ResetCommitted' /\ (page'.queue # <<>> => ~Job'.committed)
           /\ \A t \in page.transition : ResetAt(t)' = ResetAt(t) - 1 /\ ResetAt(t) >= 2
<1>1. /\ Len(page.queue) \in Nat \ {0} /\ Len(page'.queue) = Len(page.queue) - 1
      /\ \A i \in 1..(Len(page.queue) - 1) : page'.queue[i] = page.queue[i + 1]
      /\ page'.queue # <<>> => Len(page.queue) > 1 /\ Job' = page.queue[2]
      /\ Job = page.queue[1]
  BY QueueTail, HeadJob
<1>2. page'.queue # <<>> => ~Job'.committed
  BY <1>1 DEF Shape
<1>3. ASSUME NEW t \in page.transition
      PROVE  ResetAt(t)' = ResetAt(t) - 1 /\ ResetAt(t) >= 2 /\ t.seq < Len(page'.queue)
             /\ t.seq \in Nat
  <2>1. t.seq \in Nat /\ ResetAt(t) \in 1..Len(page.queue)
    BY Moving
  <2>2. ResetAt(t) # 1
    BY <1>1 DEF Shape
  <2> QED BY <1>1, <2>1, <2>2 DEF ResetAt
<1>4. Shape'
  <2>1. page.phase = "ready"
    BY DEF Shape
  <2>2. ASSUME NEW i \in 2..Len(page'.queue) PROVE ~page'.queue[i].committed
    <3>1. i + 1 \in 2..Len(page.queue) /\ page'.queue[i] = page.queue[i + 1]
      BY <1>1
    <3> QED BY <3>1 DEF Shape
  <2>3. ASSUME page.transition = {}, NEW i \in 1..Len(page'.queue)
        PROVE  page'.queue[i].kind = "append"
    <3>1. i + 1 \in 1..Len(page.queue) /\ page'.queue[i] = page.queue[i + 1]
      BY <1>1
    <3> QED BY <2>3, <3>1 DEF Shape
  <2>4. ASSUME NEW t \in page.transition
        PROVE  /\ t.fallbackEpoch = page.epoch /\ page.epoch < t.epoch
               /\ t.seq < Len(page'.queue)
               /\ page'.queue[ResetAt(t)'].kind = "reset"
               /\ page'.queue[ResetAt(t)'].epoch = t.epoch
               /\ \A i \in 1..Len(page'.queue) :
                     i # ResetAt(t)' => page'.queue[i].kind = "append"
               /\ \A i \in 1..Len(page'.queue) : i > ResetAt(t)' =>
                     /\ page'.queue[i].rec.epoch = t.epoch
                     /\ page'.queue[i].rec.seq = i - ResetAt(t)'
    <3>1. /\ t.fallbackEpoch = page.epoch /\ page.epoch < t.epoch
          /\ page.queue[ResetAt(t)].kind = "reset" /\ page.queue[ResetAt(t)].epoch = t.epoch
          /\ \A i \in 1..Len(page.queue) : i # ResetAt(t) => page.queue[i].kind = "append"
          /\ \A i \in 1..Len(page.queue) : i > ResetAt(t) =>
                /\ page.queue[i].rec.epoch = t.epoch
                /\ page.queue[i].rec.seq = i - ResetAt(t)
      BY DEF Shape
    <3>2. /\ ResetAt(t) \in 1..Len(page.queue) /\ ResetAt(t)' = ResetAt(t) - 1 /\ ResetAt(t) >= 2
          /\ t.seq < Len(page'.queue)
      BY <1>3, Moving
    <3>3. page'.queue[ResetAt(t)'] = page.queue[ResetAt(t)]
      BY <1>1, <3>2
    <3>4. ASSUME NEW i \in 1..Len(page'.queue)
          PROVE  /\ i # ResetAt(t)' => page'.queue[i].kind = "append"
                 /\ i > ResetAt(t)' =>
                       /\ page'.queue[i].rec.epoch = t.epoch
                       /\ page'.queue[i].rec.seq = i - ResetAt(t)'
      <4>1. i + 1 \in 1..Len(page.queue) /\ page'.queue[i] = page.queue[i + 1]
        BY <1>1
      <4>2. (i # ResetAt(t)' => i + 1 # ResetAt(t)) /\ (i > ResetAt(t)' => i + 1 > ResetAt(t))
            /\ i - ResetAt(t)' = (i + 1) - ResetAt(t)
        BY <3>2
      <4> QED BY <3>1, <4>1, <4>2
    <3> QED BY <3>1, <3>2, <3>3, <3>4
  <2> QED BY <2>1, <2>2, <2>3, <2>4 DEF Shape
<1> QED BY <1>2, <1>3, <1>4 DEF ResetCommitted

\* The committed append's entries leave the log, and nothing else does.
LEMMA AppendSettledOwned == ASSUME IInv, AppendSettled PROVE Owned'
<1> DEFINE copies == {Job.rec} \cup Job.fallback
           u == IF Job.durable THEN page.undurable ELSE page.undurable - 1
           keys == {Key(r) : r \in copies}
<1>0. /\ Typed /\ Fence /\ Shape /\ Line /\ LogOwned /\ page \in Pages
      /\ page.queue # <<>> /\ Job.kind = "append" /\ Job.committed
      /\ page.phase = "ready" /\ ~ResetCommitted
      /\ UNCHANGED <<disk, orphans, loads, epochs>> /\ Heads' = Heads
  <2>1. Heads' = Heads
    BY Steady DEF AppendSettled
  <2>2. page.queue # <<>> /\ Job.kind = "append" /\ Job.committed
    BY DEF AppendSettled
  <2> QED BY <2>1, <2>2 DEF IInv, Safe, Typed, AppendSettled, Shape, ResetCommitted
<1>1. /\ page' = [page EXCEPT !.queue = Tail(page.queue), !.pending = page.pending \ keys,
                              !.undurable = u]
      /\ emergency' = emergency \ copies
  BY DEF AppendSettled
<1> HIDE DEF u, keys
<1>2. /\ page'.queue = Tail(page.queue) /\ page'.pending = page.pending \ keys
      /\ page'.transition = page.transition /\ page'.epoch = page.epoch
      /\ page'.phase = page.phase /\ page'.seq = page.seq /\ page'.failed = page.failed
  BY <1>0, <1>1 DEF Pages
<1>3. /\ Shape' /\ ~ResetCommitted' /\ (page'.queue # <<>> => ~Job'.committed)
      /\ \A t \in page.transition : ResetAt(t)' = ResetAt(t) - 1 /\ ResetAt(t) >= 2
  BY <1>0, <1>2, FrontLeaves
<1>4. /\ Len(page.queue) \in Nat \ {0} /\ Len(page'.queue) = Len(page.queue) - 1
      /\ \A i \in 1..(Len(page.queue) - 1) : page'.queue[i] = page.queue[i + 1]
      /\ page.seq \in Nat /\ disk.seq \in Nat /\ disk \in Heads
  <2>1. disk \in Heads
    BY <1>0 DEF Fence, Owning
  <2>2. page.seq \in Nat /\ disk.seq \in Nat
    BY <1>0, <2>1, Naturals DEF Pages, Heads, Typed
  <2> QED BY <1>0, <1>2, <2>1, <2>2, QueueTail
<1>5. Fence'
  BY <1>0, <1>2, <1>3 DEF Fence, Opened, Owning, Seen
<1>6. Line'
  <2>1. ASSUME NEW m \in 1..Len(page.queue), InLine(m)
        PROVE  InLine(m - 1)'
    <3>1. disk.seq = page.seq - m + 1
      BY <1>0, <2>1 DEF InLine
    <3>2. ASSUME NEW i \in 1..(m - 1)
          PROVE  /\ page'.queue[i].rec.epoch = page.epoch
                 /\ page'.queue[i].rec.seq = page.seq - (m - 1) + i
      <4>1. i + 1 \in 1..m /\ i \in 1..(Len(page.queue) - 1)
        BY <1>4, <2>1, <3>2
      <4>2. page'.queue[i] = page.queue[i + 1]
        BY <1>4, <4>1
      <4>3. page.queue[i + 1].rec.epoch = page.epoch /\ page.queue[i + 1].rec.seq = page.seq - m + (i + 1)
        BY <2>1, <4>1 DEF InLine
      <4>4. page.seq - m + (i + 1) = page.seq - (m - 1) + i
        BY <1>4, <2>1, <4>1
      <4> QED BY <4>2, <4>3, <4>4
    <3>3. (IF m - 1 > 0 /\ Job.committed THEN 1 ELSE 0)' = 0
      <4>1. CASE page'.queue = <<>>
        <5>1. Len(page'.queue) = 0
          BY <4>1, EmptySeq
        <5>2. m = 1
          BY <1>4, <2>1, <5>1
        <5> QED BY <5>2
      <4> QED BY <1>3, <4>1
    <3>4. disk.seq = page.seq - (m - 1) + 0
      BY <1>4, <2>1, <3>1
    <3> QED BY <1>0, <1>2, <3>2, <3>3, <3>4 DEF InLine
  <2>2. ASSUME Writable', page.transition = {} PROVE InLine(Len(page.queue))'
    <3>1. InLine(Len(page.queue)) /\ Len(page.queue) \in 1..Len(page.queue)
      BY <1>0, <1>2, <1>4, <2>2 DEF Line, Writable
    <3>2. PICK n \in 1..Len(page.queue) : n = Len(page.queue) /\ InLine(n)
      BY <3>1
    <3>3. InLine(n - 1)' /\ Len(page'.queue) = n - 1
      BY <1>4, <2>1, <3>2
    <3> QED BY <3>3 DEF InLine
  <2>3. ASSUME Writable', NEW t \in page.transition PROVE InLine(ResetAt(t) - 1)'
    <3>1. InLine(ResetAt(t) - 1) /\ ResetAt(t) \in 1..Len(page.queue) /\ ResetAt(t) >= 2
          /\ ResetAt(t)' = ResetAt(t) - 1
      BY <1>0, <1>2, <1>3, <2>3, Moving DEF Line, Writable
    <3>2. ResetAt(t) - 1 \in 1..Len(page.queue)
      BY <1>4, <3>1
    <3>3. PICK n \in 1..Len(page.queue) : n = ResetAt(t) - 1 /\ InLine(n)
      BY <3>1, <3>2
    <3>4. InLine(n - 1)' /\ ResetAt(t)' = n
      BY <2>1, <3>1, <3>3
    <3> QED BY <3>4 DEF InLine
  <2> QED BY <1>2, <2>2, <2>3 DEF Line
<1>7. LogOwned'
  <2>1. ASSUME NEW r \in emergency', NEW i \in 1..Len(page.queue),
               r \in {page.queue[i].rec} \cup page.queue[i].fallback
        PROVE  i - 1 \in 1..Len(page'.queue) /\ page'.queue[i - 1] = page.queue[i]
    <3>1. i # 1
      BY <1>0, <1>1, <2>1, HeadJob
    <3>2. i - 1 \in 1..(Len(page.queue) - 1) /\ (i - 1) + 1 = i
      BY <1>4, <3>1
    <3> QED BY <1>4, <3>2
  <2>2. ASSUME Writable', NEW r \in emergency'
        PROVE  \E i \in 1..Len(page'.queue) :
                  /\ page'.queue[i].kind = "append"
                  /\ r \in {page'.queue[i].rec} \cup page'.queue[i].fallback
    <3>1. PICK i \in 1..Len(page.queue) :
              /\ page.queue[i].kind = "append"
              /\ r \in {page.queue[i].rec} \cup page.queue[i].fallback
      BY <1>0, <1>1, <1>2, <2>2 DEF LogOwned, Writable
    <3> QED BY <2>1, <3>1
  <2>3. ASSUME NEW t \in page.transition, NEW r \in emergency', r.epoch = t.epoch
        PROVE  \E i \in 1..Len(page'.queue) : i > ResetAt(t)' /\ r = page'.queue[i].rec
    <3>1. PICK i \in 1..Len(page.queue) : i > ResetAt(t) /\ r = page.queue[i].rec
      BY <1>0, <1>1, <2>3 DEF LogOwned
    <3>2. i - 1 \in 1..Len(page'.queue) /\ page'.queue[i - 1] = page.queue[i]
      BY <2>1, <3>1
    <3>3. i - 1 > ResetAt(t)'
      <4>1. ResetAt(t) \in Int
        BY <1>0, Moving
      <4> QED BY <1>3, <3>1, <4>1
    <3> QED BY <3>1, <3>2, <3>3
  <2>4. page'.pending \subseteq {Key(r) : r \in emergency'}
    BY <1>0, <1>1, <1>2 DEF LogOwned, keys
  <2> QED BY <1>2, <2>2, <2>3, <2>4 DEF LogOwned
<1> QED BY <1>0, <1>2, <1>3, <1>5, <1>6, <1>7 DEF Owned, Draining

\* A refused append leaves its entries in the log and the page no longer writes.
LEMMA AppendFailsOwned == ASSUME IInv, JobFails, Job.kind = "append" PROVE Owned'
<1> DEFINE u == IF Job.durable THEN page.undurable ELSE page.undurable - 1
           failure == IF Job.durable THEN page.failure
                      ELSE {[epoch |-> Job.observed,
                             seq |-> Max({Job.rec.seq} \cup {f.seq : f \in page.failure})]}
<1>0. /\ Typed /\ Fence /\ Shape /\ Line /\ LogOwned /\ page \in Pages
      /\ page.queue # <<>> /\ page.phase = "ready" /\ ~ResetCommitted
      /\ UNCHANGED <<disk, emergency, orphans, loads, epochs>> /\ Heads' = Heads
  <2>1. Heads' = Heads
    BY Steady DEF JobFails
  <2>2. page.queue # <<>>
    BY DEF JobFails
  <2> QED BY <2>1, <2>2 DEF IInv, Safe, Typed, JobFails, Shape, ResetCommitted
<1>1. page' = [page EXCEPT !.queue = Tail(page.queue), !.failed = TRUE,
                           !.undurable = u, !.failure = failure]
  BY DEF JobFails, QueueAfterFailure
<1> HIDE DEF u, failure
<1>2. /\ page'.queue = Tail(page.queue) /\ page'.pending = page.pending
      /\ page'.transition = page.transition /\ page'.epoch = page.epoch
      /\ page'.phase = page.phase /\ page'.failed = TRUE
  BY <1>0, <1>1 DEF Pages
<1>3. /\ Shape' /\ ~ResetCommitted'
      /\ \A t \in page.transition : ResetAt(t)' = ResetAt(t) - 1 /\ ResetAt(t) >= 2
  BY <1>0, <1>2, FrontLeaves
<1>4. /\ Len(page.queue) \in Nat \ {0} /\ Len(page'.queue) = Len(page.queue) - 1
      /\ \A i \in 1..(Len(page.queue) - 1) : page'.queue[i] = page.queue[i + 1]
  BY <1>0, <1>2, QueueTail
<1>5. Fence'
  BY <1>0, <1>2, <1>3 DEF Fence, Opened, Owning, Seen
<1>6. Line'
  BY <1>2 DEF Line, Writable
<1>7. LogOwned'
  <2>1. ASSUME NEW t \in page.transition, NEW r \in emergency, r.epoch = t.epoch
        PROVE  \E i \in 1..Len(page'.queue) : i > ResetAt(t)' /\ r = page'.queue[i].rec
    <3>1. PICK i \in 1..Len(page.queue) : i > ResetAt(t) /\ r = page.queue[i].rec
      BY <1>0, <2>1 DEF LogOwned
    <3>2. ResetAt(t) \in Int /\ ResetAt(t) >= 2 /\ ResetAt(t)' = ResetAt(t) - 1
      BY <1>0, <1>3, Moving
    <3>3. /\ i - 1 \in 1..(Len(page.queue) - 1) /\ (i - 1) + 1 = i /\ i - 1 > ResetAt(t)'
      BY <1>4, <3>1, <3>2
    <3>4. page'.queue[i - 1] = page.queue[i]
      BY <1>4, <3>3
    <3> QED BY <1>4, <3>1, <3>3, <3>4
  <2>2. page'.pending \subseteq {Key(r) : r \in emergency'}
    BY <1>0, <1>2 DEF LogOwned
  <2>3. ~Writable'
    BY <1>2 DEF Writable
  <2> QED BY <1>0, <1>2, <2>1, <2>2, <2>3 DEF LogOwned
<1> QED BY <1>0, <1>2, <1>3, <1>5, <1>6, <1>7 DEF Owned, Draining

\* A reset that fails ends its transition; with no edit behind it the page goes on
\* where it was.
LEMMA ResetFailsOwned == ASSUME IInv, JobFails, Job.kind = "reset" PROVE Owned'
<1> DEFINE failed == page.failed \/ \E t \in page.transition : t.seq > 0
<1>0. /\ Typed /\ Fence /\ Shape /\ Line /\ LogOwned /\ page \in Pages
      /\ page.queue # <<>> /\ page.phase = "ready" /\ ~ResetCommitted
      /\ UNCHANGED <<disk, emergency, orphans, loads, epochs>> /\ Heads' = Heads
  <2>1. Heads' = Heads
    BY Steady DEF JobFails
  <2>2. page.queue # <<>> /\ ~Job.committed
    BY DEF JobFails
  <2> QED BY <2>1, <2>2 DEF IInv, Safe, Typed, JobFails, Shape, ResetCommitted
<1>1. page' = [page EXCEPT !.queue = Tail(page.queue), !.transition = {}, !.failed = failed]
  BY DEF JobFails, QueueAfterFailure
<1>2. PICK t \in Transitions :
          page.transition = {t} /\ ResetAt(t) = 1 /\ t.seq = Len(page.queue) - 1
  BY <1>0, HeadReset
<1>3. failed \in BOOLEAN /\ (failed = FALSE => page.failed = FALSE /\ ~(t.seq > 0))
  BY <1>0, <1>2 DEF Pages
<1> HIDE DEF failed
<1>4. /\ page'.queue = Tail(page.queue) /\ page'.pending = page.pending
      /\ page'.transition = {} /\ page'.epoch = page.epoch /\ page'.seq = page.seq
      /\ page'.phase = page.phase /\ page'.failed = failed
  BY <1>0, <1>1 DEF Pages
<1>5. /\ Len(page.queue) \in Nat \ {0} /\ Len(page'.queue) = Len(page.queue) - 1
      /\ \A i \in 1..(Len(page.queue) - 1) : page'.queue[i] = page.queue[i + 1]
      /\ page'.queue # <<>> => Len(page.queue) > 1 /\ Job' = page.queue[2]
  BY <1>0, <1>4, QueueTail
<1>6. ~ResetCommitted'
  BY <1>0, <1>5 DEF Shape, ResetCommitted
<1>7. Shape'
  <2>1. ASSUME NEW i \in 1..Len(page'.queue)
        PROVE  page'.queue[i].kind = "append" /\ ~page'.queue[i].committed
    <3>1. i + 1 \in 2..Len(page.queue) /\ page'.queue[i] = page.queue[i + 1]
      BY <1>5, <2>1
    <3>2. i + 1 \in 1..Len(page.queue) /\ i + 1 # 1
      BY <3>1
    <3> QED BY <1>0, <1>2, <3>1, <3>2 DEF Shape
  <2>2. \A i \in 2..Len(page'.queue) : i \in 1..Len(page'.queue)
    BY <1>5
  <2> QED BY <1>0, <1>4, <2>1, <2>2 DEF Shape
<1>8. Fence'
  BY <1>0, <1>4, <1>6 DEF Fence, Opened, Owning, Seen
<1>9. ASSUME Writable' PROVE Len(page'.queue) = 0 /\ disk.seq = page.seq /\ emergency = {}
  <2>1. Writable /\ ~(t.seq > 0) /\ t.seq \in Nat
    <3>1. t.seq \in Nat
      BY <1>0, <1>2, Naturals DEF Transitions, Typed
    <3> QED BY <1>0, <1>3, <1>4, <1>9, <3>1 DEF Writable
  <2>2. Len(page.queue) = 1
    <3>1. \A n \in Nat \ {0}, s \in Nat : s = n - 1 /\ ~(s > 0) => n = 1
      OBVIOUS
    <3> QED BY <1>2, <1>5, <2>1, <3>1
  <2>3. InLine(ResetAt(t) - 1) /\ ResetAt(t) - 1 = 0
    BY <1>0, <1>2, <2>1 DEF Line
  <2>4. disk.seq = page.seq
    <3>1. page.seq \in Nat
      BY <1>0, Naturals DEF Pages, Typed
    <3>2. disk.seq = page.seq - 0 + 0
      BY <1>0, <2>3 DEF InLine
    <3> QED BY <3>1, <3>2
  <2>5. Job = page.queue[1]
    BY <1>0, HeadJob
  <2>6. emergency = {}
    BY <1>0, <2>1, <2>2, <2>5 DEF LogOwned
  <2> QED BY <1>5, <2>2, <2>4, <2>6
<1>10. Line'
  <2>1. ASSUME Writable' PROVE InLine(Len(page.queue))'
    <3>1. page.seq \in Nat
      BY <1>0, Naturals DEF Pages, Typed
    <3>2. page.seq = page.seq - 0 + 0
      BY <3>1
    <3>3. /\ page'.seq = page.seq /\ Len(page'.queue) = 0 /\ disk'.seq = page.seq
      BY <1>0, <1>4, <1>9, <2>1
    <3> QED BY <3>2, <3>3 DEF InLine
  <2> QED BY <1>4, <2>1 DEF Line
<1>11. LogOwned'
  BY <1>0, <1>4, <1>9 DEF LogOwned
<1> QED BY <1>0, <1>4, <1>7, <1>8, <1>10, <1>11 DEF Owned, Draining

\* The page moves to the new epoch with the edits that waited behind the reset.
LEMMA ResetSettledOwned == ASSUME IInv, ResetSettled PROVE Owned'
<1> DEFINE tr == CHOOSE x \in page.transition : TRUE
           keys == {k \in page.pending : k.epoch = tr.epoch}
<1>0. /\ Typed /\ Fence /\ Shape /\ Line /\ LogOwned /\ page \in Pages
      /\ page.queue # <<>> /\ page.phase = "ready" /\ ResetCommitted
      /\ Job.kind = "reset"
      /\ UNCHANGED <<disk, orphans, loads, epochs>> /\ Heads' = Heads
  <2>1. Heads' = Heads
    BY Steady DEF ResetSettled
  <2>2. page.queue # <<>> /\ Job.committed /\ Job.kind = "reset"
    BY DEF ResetSettled
  <2> QED BY <2>1, <2>2 DEF IInv, Safe, Typed, ResetSettled, Shape, ResetCommitted
<1>1. /\ page' = [page EXCEPT !.queue = Tail(page.queue), !.epoch = tr.epoch, !.seq = tr.seq,
                     !.failed = FALSE, !.transition = {}, !.pending = keys]
      /\ emergency' = {r \in emergency : r.epoch = Job.epoch}
  BY DEF ResetSettled
<1>2. PICK t \in Transitions :
          /\ page.transition = {t} /\ ResetAt(t) = 1 /\ t.seq = Len(page.queue) - 1
          /\ tr = t /\ Job.epoch = t.epoch
  BY <1>0, HeadReset
<1>3. keys = {k \in page.pending : k.epoch = t.epoch}
  BY <1>2
<1> HIDE DEF tr, keys
<1>4. /\ page'.queue = Tail(page.queue) /\ page'.pending = keys
      /\ page'.transition = {} /\ page'.epoch = t.epoch /\ page'.seq = t.seq
      /\ page'.phase = page.phase /\ page'.failed = FALSE
  BY <1>0, <1>1, <1>2 DEF Pages
<1>5. /\ Len(page.queue) \in Nat \ {0} /\ Len(page'.queue) = Len(page.queue) - 1
      /\ \A i \in 1..(Len(page.queue) - 1) : page'.queue[i] = page.queue[i + 1]
      /\ page'.queue # <<>> => Len(page.queue) > 1 /\ Job' = page.queue[2]
  BY <1>0, <1>4, QueueTail
<1>6. ~ResetCommitted' /\ (page'.queue # <<>> => ~Job'.committed)
  BY <1>0, <1>5 DEF Shape, ResetCommitted
<1>7. ASSUME NEW i \in 1..Len(page'.queue)
      PROVE  /\ page'.queue[i].kind = "append" /\ ~page'.queue[i].committed
             /\ page'.queue[i].rec.epoch = t.epoch /\ page'.queue[i].rec.seq = i
  <2>1. i + 1 \in 2..Len(page.queue) /\ page'.queue[i] = page.queue[i + 1]
    BY <1>5, <1>7
  <2>2. i + 1 \in 1..Len(page.queue) /\ i + 1 # 1 /\ i + 1 > 1
    BY <2>1
  <2>3. page.queue[i + 1].rec.seq = (i + 1) - 1 /\ page.queue[i + 1].rec.epoch = t.epoch
    BY <1>0, <1>2, <2>2 DEF Shape
  <2> QED BY <1>0, <1>2, <2>1, <2>2, <2>3 DEF Shape
<1>8. Shape'
  <2>1. \A i \in 2..Len(page'.queue) : i \in 1..Len(page'.queue)
    BY <1>5
  <2> QED BY <1>0, <1>4, <1>7, <2>1 DEF Shape
<1>9. disk.seq = 0 /\ disk.epoch = t.epoch /\ disk.writer = loads /\ disk \in Heads
  BY <1>0, <1>2 DEF Fence, Owning
<1>10. Fence'
  <2>1. t.epoch \in Seen
    BY <1>2 DEF Transitions
  <2> QED BY <1>0, <1>4, <1>6, <1>9, <2>1 DEF Fence, Opened, Owning, Seen
<1>11. Line'
  <2>1. t.seq = Len(page'.queue) /\ t.seq \in Nat
    BY <1>2, <1>5
  <2>2. \A i \in 1..Len(page'.queue) : page'.queue[i].rec.seq = t.seq - Len(page'.queue) + i
    BY <1>7, <2>1
  <2>3. (IF Len(page.queue) > 0 /\ Job.committed THEN 1 ELSE 0)' = 0
    <3>1. page'.queue = <<>> => Len(page'.queue) = 0
      BY EmptySeq
    <3> QED BY <1>6, <3>1
  <2>4. disk.seq = t.seq - Len(page'.queue) + 0
    BY <1>9, <2>1
  <2>5. InLine(Len(page.queue))'
    BY <1>0, <1>4, <1>7, <2>2, <2>3, <2>4 DEF InLine
  <2> QED BY <1>4, <2>5 DEF Line
<1>12. LogOwned'
  <2>1. ASSUME NEW r \in emergency'
        PROVE  \E i \in 1..Len(page'.queue) :
                  /\ page'.queue[i].kind = "append"
                  /\ r \in {page'.queue[i].rec} \cup page'.queue[i].fallback
    <3>1. r \in emergency /\ r.epoch = t.epoch
      BY <1>1, <1>2, <2>1
    <3>2. PICK i \in 1..Len(page.queue) : i > 1 /\ r = page.queue[i].rec
      BY <1>0, <1>2, <3>1 DEF LogOwned
    <3>3. i - 1 \in 1..(Len(page.queue) - 1) /\ (i - 1) + 1 = i
      BY <1>5, <3>2
    <3>4. page'.queue[i - 1] = page.queue[i] /\ i - 1 \in 1..Len(page'.queue)
      BY <1>5, <3>3
    <3> QED BY <1>7, <3>2, <3>4
  <2>2. page'.pending \subseteq {Key(r) : r \in emergency'}
    <3>1. ASSUME NEW k \in keys PROVE k \in {Key(r) : r \in emergency'}
      <4>1. PICK r \in emergency : k = Key(r)
        BY <1>0, <1>3, <3>1 DEF LogOwned
      <4>2. r.epoch = t.epoch
        BY <1>3, <3>1, <4>1 DEF Key
      <4> QED BY <1>1, <1>2, <4>1, <4>2
    <3> QED BY <1>4, <3>1
  <2> QED BY <1>4, <2>1, <2>2 DEF LogOwned
<1> QED BY <1>0, <1>4, <1>8, <1>10, <1>11, <1>12 DEF Owned, Draining

\* The places of the queue do not change when its first job commits.
LEMMA CommitPlaces ==
    ASSUME IInv, JobCommit
    PROVE  /\ Shape' /\ LogOwned' /\ Typed /\ page.phase = "ready" /\ page.queue # <<>>
           /\ page'.phase = page.phase /\ page'.epoch = page.epoch /\ page'.seq = page.seq
           /\ page'.failed = page.failed /\ page'.transition = page.transition
           /\ UNCHANGED <<emergency, orphans, epochs, loads>>
           /\ \A t \in page.transition : ResetAt(t)' = ResetAt(t)
           /\ \A i \in 1..Len(page.queue) :
                 /\ page'.queue[i].kind = page.queue[i].kind
                 /\ page.queue[i].kind = "append" => page'.queue[i].rec = page.queue[i].rec
           /\ Len(page'.queue) = Len(page.queue) /\ Len(page.queue) \in Nat \ {0}
           /\ page'.queue # <<>> /\ Job'.committed = TRUE /\ Job'.kind = Job.kind
           /\ (Job.kind = "reset" => Job'.epoch = Job.epoch)
<1>0. /\ Typed /\ Shape /\ LogOwned /\ page \in Pages
      /\ page.queue # <<>> /\ page.phase = "ready"
      /\ UNCHANGED <<emergency, orphans, epochs, loads>>
  <2>1. page.queue # <<>>
    BY DEF JobCommit
  <2> QED BY <2>1 DEF IInv, Safe, Typed, JobCommit, Shape
<1>1. page' = [page EXCEPT !.queue[1].committed = TRUE]
  BY DEF JobCommit
<1>2. /\ page'.queue = [page.queue EXCEPT ![1].committed = TRUE] /\ page'.pending = page.pending
      /\ page'.transition = page.transition /\ page'.epoch = page.epoch
      /\ page'.phase = page.phase /\ page'.seq = page.seq /\ page'.failed = page.failed
  BY <1>0, <1>1 DEF Pages
<1>3. /\ Len(page.queue) \in Nat \ {0} /\ Len(page'.queue) = Len(page.queue)
      /\ \A i \in 2..Len(page.queue) : page'.queue[i] = page.queue[i]
      /\ page'.queue # <<>> /\ Job'.committed = TRUE /\ Job' = [Job EXCEPT !.committed = TRUE]
      /\ page'.queue[1] = [Job EXCEPT !.committed = TRUE]
  BY <1>0, <1>2, QueueCommit
<1>4. Job \in Jobs /\ Job = page.queue[1]
  BY <1>0, HeadJob
<1>5. LET j == [Job EXCEPT !.committed = TRUE]
      IN  /\ j.kind = Job.kind /\ (Job.kind = "reset" => j.epoch = Job.epoch)
          /\ (Job.kind = "append" => j.rec = Job.rec /\ j.fallback = Job.fallback)
  BY <1>4 DEF Jobs, Appends, Resets
<1>6. ASSUME NEW i \in 1..Len(page.queue)
      PROVE  /\ page'.queue[i].kind = page.queue[i].kind
             /\ page.queue[i].kind = "append" => /\ page'.queue[i].rec = page.queue[i].rec
                                                 /\ page'.queue[i].fallback = page.queue[i].fallback
             /\ page.queue[i].kind = "reset" => page'.queue[i].epoch = page.queue[i].epoch
  <2>1. CASE i = 1
    BY <1>3, <1>4, <1>5, <2>1
  <2>2. CASE i # 1
    <3>1. i \in 2..Len(page.queue)
      BY <1>3, <2>2
    <3> QED BY <1>3, <3>1
  <2> QED BY <2>1, <2>2
<1>7. ASSUME NEW t \in page.transition
      PROVE  ResetAt(t)' = ResetAt(t) /\ ResetAt(t) \in 1..Len(page.queue)
  <2>1. ResetAt(t) \in 1..Len(page.queue)
    BY <1>0, Moving
  <2>2. ResetAt(t)' = ResetAt(t)
    BY <1>3 DEF ResetAt
  <2> QED BY <2>1, <2>2
<1>8. Shape'
  <2>1. \A i \in 2..Len(page'.queue) : ~page'.queue[i].committed
    BY <1>0, <1>3 DEF Shape
  <2>2. page.transition = {} => \A i \in 1..Len(page'.queue) : page'.queue[i].kind = "append"
    BY <1>0, <1>3, <1>6 DEF Shape
  <2>3. ASSUME NEW t \in page.transition
        PROVE  /\ t.fallbackEpoch = page.epoch /\ page.epoch < t.epoch
               /\ t.seq < Len(page.queue)
               /\ page'.queue[ResetAt(t)].kind = "reset"
               /\ page'.queue[ResetAt(t)].epoch = t.epoch
               /\ \A i \in 1..Len(page.queue) :
                     i # ResetAt(t) => page'.queue[i].kind = "append"
               /\ \A i \in 1..Len(page.queue) : i > ResetAt(t) =>
                     /\ page'.queue[i].rec.epoch = t.epoch
                     /\ page'.queue[i].rec.seq = i - ResetAt(t)
    <3>1. /\ t.fallbackEpoch = page.epoch /\ page.epoch < t.epoch
          /\ t.seq < Len(page.queue)
          /\ page.queue[ResetAt(t)].kind = "reset" /\ page.queue[ResetAt(t)].epoch = t.epoch
          /\ \A i \in 1..Len(page.queue) : i # ResetAt(t) => page.queue[i].kind = "append"
          /\ \A i \in 1..Len(page.queue) : i > ResetAt(t) =>
                /\ page.queue[i].rec.epoch = t.epoch
                /\ page.queue[i].rec.seq = i - ResetAt(t)
      BY <1>0 DEF Shape
    <3>2. ResetAt(t) \in Int /\ \A i \in 1..Len(page.queue) : i > ResetAt(t) => i # ResetAt(t)
      BY <1>7
    <3> QED BY <1>6, <1>7, <3>1, <3>2
  <2> QED BY <1>0, <1>2, <1>3, <1>7, <2>1, <2>2, <2>3 DEF Shape
<1>9. LogOwned'
  <2>1. ASSUME Writable', NEW r \in emergency
        PROVE  \E i \in 1..Len(page.queue) :
                  /\ page'.queue[i].kind = "append"
                  /\ r \in {page'.queue[i].rec} \cup page'.queue[i].fallback
    BY <1>0, <1>2, <1>6, <2>1 DEF LogOwned, Writable
  <2>2. ASSUME NEW t \in page.transition, NEW r \in emergency, r.epoch = t.epoch
        PROVE  \E i \in 1..Len(page.queue) : i > ResetAt(t) /\ r = page'.queue[i].rec
    <3>1. PICK i \in 1..Len(page.queue) : i > ResetAt(t) /\ r = page.queue[i].rec
      BY <1>0, <2>2 DEF LogOwned
    <3>2. i # ResetAt(t)
      BY <1>7, <3>1
    <3>3. page.queue[i].kind = "append"
      BY <1>0, <3>1, <3>2 DEF Shape
    <3> QED BY <1>6, <3>1, <3>3
  <2>3. page'.pending \subseteq {Key(r) : r \in emergency'}
    BY <1>0, <1>2 DEF LogOwned
  <2> QED BY <1>0, <1>2, <1>3, <1>7, <2>1, <2>2, <2>3 DEF LogOwned
<1>10. Job'.kind = Job.kind /\ (Job.kind = "reset" => Job'.epoch = Job.epoch)
  BY <1>3, <1>5
<1> QED BY <1>0, <1>2, <1>3, <1>6, <1>7, <1>8, <1>9, <1>10

LEMMA CommitOwned == ASSUME IInv, JobCommit PROVE Owned'
<1>0. /\ Typed /\ Fence /\ Shape /\ Line /\ HeadOk /\ page \in Pages
      /\ ~Job.committed /\ JobOk /\ ~ResetCommitted
      /\ disk' = IF Job.kind = "append" THEN AppendOp(disk, OpOf(Job.rec))
                 ELSE ResetState(Job.epoch, loads, {})
  BY DEF IInv, Safe, Typed, JobCommit, ResetCommitted
<1>1. /\ Shape' /\ LogOwned' /\ page.phase = "ready" /\ page.queue # <<>>
      /\ page'.phase = page.phase /\ page'.epoch = page.epoch /\ page'.seq = page.seq
      /\ page'.failed = page.failed /\ page'.transition = page.transition
      /\ UNCHANGED <<emergency, orphans, epochs, loads>>
      /\ \A t \in page.transition : ResetAt(t)' = ResetAt(t)
      /\ \A i \in 1..Len(page.queue) :
            /\ page'.queue[i].kind = page.queue[i].kind
            /\ page.queue[i].kind = "append" => page'.queue[i].rec = page.queue[i].rec
      /\ Len(page'.queue) = Len(page.queue) /\ Len(page.queue) \in Nat \ {0}
      /\ page'.queue # <<>> /\ Job'.committed = TRUE /\ Job'.kind = Job.kind
      /\ (Job.kind = "reset" => Job'.epoch = Job.epoch)
  BY CommitPlaces
<1>2. /\ disk \in Heads /\ disk.writer = loads /\ disk.epoch = page.epoch
      /\ page.seq \in Nat /\ disk.seq \in Nat
  <2>1. disk \in Heads /\ disk.writer = loads /\ disk.epoch = page.epoch
    BY <1>0, <1>1 DEF Fence, Owning
  <2> QED BY <1>0, <2>1, Naturals DEF Pages, Heads, Typed
<1>3. disk' \in Heads'
  BY <1>2, TypedNext, StillHead DEF Next
<1>4. Job \in Jobs /\ Job = page.queue[1] /\ 1 \in 1..Len(page.queue)
  BY <1>0, <1>1, HeadJob
<1>5. CASE Job.kind = "append"
  <2>1. ~ResetCommitted'
    BY <1>1, <1>5 DEF ResetCommitted
  <2>2. Job.rec \in Records /\ OpOf(Job.rec).seq = Job.rec.seq
    BY <1>4, <1>5, JobTyped DEF Appends, OpOf
  <2>3. disk'.epoch = disk.epoch /\ disk'.writer = disk.writer
    BY <1>0, <1>2, <1>5 DEF AppendOp, Heads
  <2>4. Fence'
    BY <1>0, <1>1, <1>2, <1>3, <2>1, <2>3 DEF Fence, Opened, Owning, Seen
  <2>5. ASSUME NEW m \in 1..Len(page.queue), InLine(m)
        PROVE  /\ disk'.seq = page.seq - m + 1
               /\ \A i \in 1..m : /\ page.queue[i].rec.epoch = page.epoch
                                  /\ page.queue[i].rec.seq = page.seq - m + i
    <3>1. /\ \A i \in 1..m : /\ page.queue[i].rec.epoch = page.epoch
                             /\ page.queue[i].rec.seq = page.seq - m + i
          /\ disk.seq = page.seq - m + 0
      BY <1>0, <2>5 DEF InLine
    <3>2. Job.rec.seq = page.seq - m + 1
      <4>1. 1 \in 1..m
        BY <1>1, <2>5
      <4> QED BY <1>4, <3>1, <4>1
    <3>3. Job.rec.seq = disk.seq + 1 /\ disk.seq + 1 > disk.seq
      BY <1>1, <1>2, <2>5, <3>1, <3>2
    <3>4. OpOf(Job.rec) \notin disk.journal
      <4>1. \A op \in disk.journal : op.seq \in 1..disk.seq
        BY <1>0 DEF HeadOk, JournalKeysOk
      <4> QED BY <1>2, <2>2, <3>3, <4>1
    <3>5. disk' = [disk EXCEPT !.journal = @ \cup {OpOf(Job.rec)}, !.seq = Job.rec.seq]
      BY <1>0, <1>5, <2>2, <3>4 DEF AppendOp
    <3>6. disk'.seq = Job.rec.seq
      BY <1>2, <3>5 DEF Heads
    <3> QED BY <3>1, <3>2, <3>6
  <2>6. ASSUME NEW m \in 1..Len(page.queue), InLine(m),
               \A i \in 1..m : page.queue[i].kind = "append"
        PROVE  InLine(m)'
    <3>1. \A i \in 1..m : /\ page'.queue[i].rec.epoch = page'.epoch
                          /\ page'.queue[i].rec.seq = page'.seq - m + i
      <4>1. \A i \in 1..m : i \in 1..Len(page.queue)
        BY <1>1, <2>6
      <4> QED BY <1>1, <2>5, <2>6, <4>1
    <3>2. (IF m > 0 /\ Job.committed THEN 1 ELSE 0)' = 1
      BY <1>1, <2>6
    <3> QED BY <1>1, <2>5, <2>6, <3>1, <3>2 DEF InLine
  <2>7. Line'
    <3>1. ASSUME Writable', page.transition = {} PROVE InLine(Len(page.queue))'
      <4>1. InLine(Len(page.queue)) /\ \A i \in 1..Len(page.queue) : page.queue[i].kind = "append"
        BY <1>0, <1>1, <3>1 DEF Line, Writable, Shape
      <4>2. PICK n \in 1..Len(page.queue) : n = Len(page.queue)
        BY <1>1
      <4>3. InLine(n)'
        BY <2>6, <4>1, <4>2
      <4> QED BY <1>1, <4>2, <4>3 DEF InLine
    <3>2. ASSUME Writable', NEW t \in page.transition PROVE InLine(ResetAt(t) - 1)'
      <4>1. InLine(ResetAt(t) - 1) /\ ResetAt(t) \in 1..Len(page.queue)
            /\ ResetAt(t)' = ResetAt(t) /\ ResetAt(t) # 1
        BY <1>0, <1>1, <1>4, <1>5, <3>2, Moving DEF Line, Writable, Shape
      <4>2. PICK n \in 1..Len(page.queue) : n = ResetAt(t) - 1
        BY <1>1, <4>1
      <4>3. \A i \in 1..n : page.queue[i].kind = "append"
        <5>1. \A i \in 1..n : i \in 1..Len(page.queue) /\ i # ResetAt(t)
          BY <1>1, <4>1, <4>2
        <5> QED BY <1>0, <5>1 DEF Shape
      <4>4. InLine(n)'
        BY <2>6, <4>1, <4>2, <4>3
      <4> QED BY <4>1, <4>2, <4>4 DEF InLine
    <3> QED BY <1>1, <3>1, <3>2 DEF Line
  <2> QED BY <1>1, <2>4, <2>7 DEF Owned, Draining
<1>6. CASE Job.kind = "reset"
  <2>1. ResetCommitted' /\ Job'.epoch = Job.epoch
    BY <1>1, <1>6 DEF ResetCommitted
  <2>2. disk'.epoch = Job.epoch /\ disk'.writer = loads /\ disk'.seq = 0
    BY <1>0, <1>6 DEF ResetState, FreshHead
  <2>3. Fence'
    BY <1>0, <1>1, <1>2, <1>3, <2>1, <2>2 DEF Fence, Opened, Owning, Seen
  <2>4. PICK t \in Transitions : page.transition = {t} /\ ResetAt(t) = 1
    BY <1>0, <1>1, <1>6, HeadReset
  <2>5. InLine(ResetAt(t) - 1)'
    <3>1. ResetAt(t)' - 1 = 0
      BY <1>1, <2>4
    <3> QED BY <2>1, <3>1 DEF InLine
  <2>6. Line'
    BY <1>1, <2>4, <2>5 DEF Line
  <2> QED BY <1>1, <2>3, <2>6 DEF Owned, Draining
<1> QED BY <1>4, <1>5, <1>6, JobTyped

-----------------------------------------------------------------------------
(* A restore and an edit join the queue at its end. *)

LEMMA RestoreOwned == ASSUME IInv, Restore PROVE Owned'
<1> DEFINE j == ResetJob(epochs + 1)
           L == Len(page.queue)
<1> PICK t : t = [epoch |-> epochs + 1, seq |-> 0,
                  fallbackEpoch |-> page.epoch, fallbackSeq |-> page.seq]
  OBVIOUS
<1>0. /\ Typed /\ Fence /\ Shape /\ Line /\ LogOwned /\ page \in Pages
      /\ page.phase = "ready" /\ ~page.failed /\ page.transition = {}
      /\ epochs \in Nat /\ epochs' = epochs + 1
      /\ page' = [page EXCEPT !.transition = {t}, !.queue = Append(page.queue, j)]
      /\ UNCHANGED <<disk, emergency, orphans, loads>>
  BY Naturals DEF IInv, Safe, Typed, Restore, Writable
<1>1. /\ t.epoch = epochs + 1 /\ t.seq = 0 /\ t.fallbackEpoch = page.epoch
      /\ j.kind = "reset" /\ j.epoch = epochs + 1 /\ j.committed = FALSE
  BY DEF ResetJob
<1> HIDE DEF j
<1>2. /\ page'.queue = Append(page.queue, j) /\ page'.transition = {t}
      /\ page'.pending = page.pending /\ page'.epoch = page.epoch
      /\ page'.phase = page.phase /\ page'.seq = page.seq /\ page'.failed = page.failed
  BY <1>0 DEF Pages
<1>3. /\ L \in Nat /\ Len(page'.queue) = L + 1
      /\ \A i \in 1..L : page'.queue[i] = page.queue[i]
      /\ page'.queue[L + 1] = j /\ page'.queue # <<>>
      /\ page.queue # <<>> => Job' = Job /\ L > 0
      /\ page.queue = <<>> => Job' = j /\ L = 0
  BY <1>0, <1>2, QueueAppend
<1> HIDE DEF L
<1>4. (L > 0 => Job' = Job /\ page.queue # <<>>) /\ (L = 0 => ~Job'.committed)
      /\ ~ResetCommitted /\ ~ResetCommitted'
  <2>1. page.queue # <<>> => Job.kind = "append"
    <3>1. page.queue # <<>> => Job = page.queue[1] /\ 1 \in 1..L
      BY <1>0, HeadJob DEF L
    <3> QED BY <1>0, <3>1 DEF Shape, L
  <2> QED BY <1>1, <1>3, <2>1 DEF ResetCommitted
<1>5. ResetAt(t)' = L + 1
  <2>1. (L + 1) - 0 = L + 1
    BY <1>3
  <2> QED BY <1>1, <1>3, <2>1 DEF ResetAt
<1>6. page.epoch \in Seen /\ page.epoch < t.epoch /\ epochs + 1 \notin Seen /\ Seen \subseteq Seen'
  <2>1. page.epoch \in Seen
    BY <1>0 DEF Fence, Opened
  <2> QED BY <1>0, <1>1, <2>1 DEF Seen
<1>7. Shape'
  <2>1. ASSUME NEW i \in 1..(L + 1), i # L + 1
        PROVE  i \in 1..L /\ page'.queue[i].kind = "append"
    <3>1. i \in 1..L
      BY <1>3, <2>1
    <3> QED BY <1>0, <1>3, <3>1 DEF Shape, L
  <2>2. ASSUME NEW i \in 2..(L + 1) PROVE ~page'.queue[i].committed
    <3>1. CASE i = L + 1
      BY <1>1, <1>3, <3>1
    <3>2. CASE i # L + 1
      <4>1. i \in 2..L /\ i \in 1..L
        BY <1>3, <2>2, <3>2
      <4> QED BY <1>0, <1>3, <4>1 DEF Shape, L
    <3> QED BY <3>1, <3>2
  <2>3. \A i \in 1..(L + 1) : ~(i > L + 1)
    BY <1>3
  <2>4. t.seq < L + 1
    BY <1>1, <1>3
  <2> QED BY <1>0, <1>1, <1>2, <1>3, <1>5, <1>6, <2>1, <2>2, <2>3, <2>4 DEF Shape
<1>8. Fence'
  <2>1. Heads \subseteq Heads'
    BY <1>0, DrawnEpoch DEF Restore
  <2> QED BY <1>0, <1>2, <1>4, <1>6, <2>1 DEF Fence, Opened, Owning
<1>9. Line'
  <2>1. InLine(L)
    BY <1>0 DEF Line, Writable, L
  <2>2. PICK n \in Nat : n = L
    BY <1>3
  <2>3. InLine(n)'
    <3>1. \A i \in 1..n : /\ page'.queue[i].rec.epoch = page'.epoch
                          /\ page'.queue[i].rec.seq = page'.seq - n + i
      BY <1>2, <1>3, <2>1, <2>2 DEF InLine
    <3>2. disk'.seq = page'.seq - n + (IF n > 0 /\ Job'.committed THEN 1 ELSE 0)
      BY <1>0, <1>2, <1>3, <1>4, <2>1, <2>2 DEF InLine
    <3> QED BY <3>1, <3>2 DEF InLine
  <2>4. ResetAt(t)' - 1 = n
    BY <1>5, <2>2
  <2>5. ASSUME NEW x \in page'.transition PROVE InLine(ResetAt(x) - 1)'
    <3>1. ResetAt(x)' - 1 = n
      BY <1>2, <2>4, <2>5
    <3> QED BY <2>3, <3>1 DEF InLine
  <2> QED BY <1>2, <2>5 DEF Line
<1>10. LogOwned'
  <2>1. ASSUME NEW r \in emergency
        PROVE  \E i \in 1..(L + 1) :
                  /\ page'.queue[i].kind = "append"
                  /\ r \in {page'.queue[i].rec} \cup page'.queue[i].fallback
    <3>1. PICK i \in 1..L : /\ page.queue[i].kind = "append"
                            /\ r \in {page.queue[i].rec} \cup page.queue[i].fallback
      BY <1>0 DEF LogOwned, Writable, L
    <3>2. i \in 1..(L + 1)
      BY <1>3, <3>1
    <3> QED BY <1>3, <3>1, <3>2
  <2>2. \A r \in emergency : r.epoch # t.epoch
    <3>1. \A r \in emergency : r.epoch \in Seen
      BY <1>0 DEF Typed, Records
    <3> QED BY <1>1, <1>6, <3>1
  <2>3. page'.pending \subseteq {Key(r) : r \in emergency'}
    BY <1>0, <1>2 DEF LogOwned
  <2> QED BY <1>0, <1>2, <1>3, <2>1, <2>2, <2>3 DEF LogOwned
<1> QED BY <1>0, <1>2, <1>7, <1>8, <1>9, <1>10 DEF Owned, Draining

\* What every edit does to the end of the queue.
LEMMA EditJoins ==
    ASSUME IInv, Edit, NEW j, page'.queue = Append(page.queue, j),
           j.kind = "append", j.committed = FALSE
    PROVE  /\ Typed /\ Fence /\ Shape /\ Line /\ LogOwned /\ page \in Pages
           /\ page.phase = "ready" /\ ~page.failed /\ page.epoch \in Seen /\ Seen' = Seen
           /\ disk \in Heads /\ disk' \in Heads' /\ page.seq \in Nat /\ disk.seq \in Nat
           /\ UNCHANGED <<disk, orphans, epochs, loads>>
           /\ Len(page.queue) \in Nat /\ Len(page'.queue) = Len(page.queue) + 1
           /\ \A i \in 1..Len(page.queue) : page'.queue[i] = page.queue[i]
           /\ page'.queue[Len(page.queue) + 1] = j
           /\ \A i \in 2..Len(page'.queue) : ~page'.queue[i].committed
           /\ Len(page.queue) > 0 => Job' = Job
           /\ Len(page.queue) = 0 => Job'.committed = FALSE
           /\ ResetCommitted' = ResetCommitted
<1> DEFINE L == Len(page.queue)
<1>0. /\ Typed /\ Fence /\ Shape /\ Line /\ LogOwned /\ page \in Pages
      /\ page.phase = "ready" /\ ~page.failed
      /\ UNCHANGED <<disk, orphans, epochs, loads>>
  BY DEF IInv, Safe, Typed, Edit, Writable
<1>1. /\ page.epoch \in Seen /\ Seen' = Seen /\ disk \in Heads
  BY <1>0 DEF Fence, Opened, Owning, Seen
<1>2. disk' \in Heads' /\ page.seq \in Nat /\ disk.seq \in Nat
  <2>1. Typed'
    BY EditTyped
  <2>2. disk' \in Heads'
    BY <1>1, <2>1, StillHead DEF Next
  <2> QED BY <1>0, <1>1, <2>2, Naturals DEF Typed, Pages, Heads
<1>3. /\ L \in Nat /\ Len(page'.queue) = L + 1
      /\ \A i \in 1..L : page'.queue[i] = page.queue[i]
      /\ page'.queue[L + 1] = j /\ page'.queue # <<>>
      /\ page.queue # <<>> => Job' = Job /\ L > 0
      /\ page.queue = <<>> => Job' = j /\ L = 0
  BY <1>0, QueueAppend
<1> HIDE DEF L
<1>4. ASSUME NEW i \in 2..(L + 1) PROVE ~page'.queue[i].committed
  <2>1. CASE i = L + 1
    BY <1>3, <2>1
  <2>2. CASE i # L + 1
    <3>1. i \in 2..L /\ i \in 1..L
      BY <1>3, <1>4, <2>2
    <3> QED BY <1>0, <1>3, <3>1 DEF Shape, L
  <2> QED BY <2>1, <2>2
<1>5. (L > 0 => Job' = Job) /\ (L = 0 => Job'.committed = FALSE)
  BY <1>3
<1>6. ResetCommitted' = ResetCommitted
  BY <1>3 DEF ResetCommitted
<1> QED BY <1>0, <1>1, <1>2, <1>3, <1>4, <1>5, <1>6 DEF L

LEMMA PlainEditOwned == ASSUME IInv, Edit, page.transition = {} PROVE Owned'
<1> DEFINE L == Len(page.queue)
<1> PICK rec : rec = Entry(page.epoch, page.seq + 1)
  OBVIOUS
<1>a. Typed
  BY DEF IInv
<1>0. PICK durable \in BOOLEAN, u \in Int : \E keys : PlainEdited(durable, keys, u)
  BY <1>a, PlainEdit
<1>1. PICK keys :
        /\ Logged({rec}, keys)
        /\ page' = [page EXCEPT
              !.pending = keys, !.seq = page.seq + 1, !.transition = page.transition,
              !.queue = Append(page.queue, AppendJob(rec, {}, durable, page.epoch)),
              !.undurable = u]
  BY <1>0 DEF PlainEdited
<1> DEFINE j == AppendJob(rec, {}, durable, page.epoch)
<1>2. /\ j.kind = "append" /\ j.committed = FALSE /\ j.rec = rec
      /\ rec.epoch = page.epoch /\ rec.seq = page.seq + 1
  BY DEF AppendJob, Entry
<1>3. page' = [page EXCEPT
              !.pending = keys, !.seq = page.seq + 1, !.transition = page.transition,
              !.queue = Append(page.queue, j), !.undurable = u]
  BY <1>1
<1> HIDE DEF j
<1>4. /\ page'.queue = Append(page.queue, j) /\ page'.transition = {}
      /\ page'.pending = keys /\ page'.epoch = page.epoch
      /\ page'.phase = page.phase /\ page'.seq = page.seq + 1 /\ page'.failed = page.failed
  BY <1>3, <1>a DEF Typed, Pages
<1>5. /\ Fence /\ Shape /\ Line /\ LogOwned
      /\ page.phase = "ready" /\ ~page.failed /\ page.epoch \in Seen /\ Seen' = Seen
      /\ disk \in Heads /\ disk' \in Heads' /\ page.seq \in Nat /\ disk.seq \in Nat
      /\ UNCHANGED <<disk, orphans, epochs, loads>>
      /\ L \in Nat /\ Len(page'.queue) = L + 1
      /\ \A i \in 1..L : page'.queue[i] = page.queue[i]
      /\ page'.queue[L + 1] = j
      /\ \A i \in 2..Len(page'.queue) : ~page'.queue[i].committed
      /\ L > 0 => Job' = Job
      /\ L = 0 => Job'.committed = FALSE
      /\ ResetCommitted' = ResetCommitted
  BY <1>2, <1>4, EditJoins
<1> HIDE DEF L
<1>6. \A i \in 1..L : page.queue[i].kind = "append"
  BY <1>5 DEF Shape, L
<1>7. ~ResetCommitted
  <2>1. page.queue # <<>> => Job = page.queue[1] /\ 1 \in 1..L
    BY <1>a, HeadJob DEF L
  <2> QED BY <1>6, <2>1 DEF ResetCommitted
<1>8. Shape'
  <2>1. ASSUME NEW i \in 1..(L + 1) PROVE page'.queue[i].kind = "append"
    <3>1. i = L + 1 \/ i \in 1..L
      BY <1>5
    <3> QED BY <1>2, <1>5, <1>6, <3>1
  <2> QED BY <1>4, <1>5, <2>1 DEF Shape
<1>9. Fence'
  BY <1>4, <1>5, <1>7 DEF Fence, Opened, Owning
<1>10. Line'
  <2>1. InLine(L)
    BY <1>5 DEF Line, Writable, L
  <2>2. PICK n \in Nat : n = L
    BY <1>5
  <2>3. \A i \in 1..n : /\ page.queue[i].rec.epoch = page.epoch
                        /\ page.queue[i].rec.seq = page.seq - n + i
    BY <2>1, <2>2 DEF InLine
  <2>4. ASSUME NEW i \in 1..(n + 1)
        PROVE  /\ page'.queue[i].rec.epoch = page.epoch
               /\ page'.queue[i].rec.seq = (page.seq + 1) - (n + 1) + i
    <3>1. CASE i = n + 1
      BY <1>2, <1>5, <2>2, <3>1
    <3>2. CASE i # n + 1
      <4>1. i \in 1..n /\ page.seq - n + i = (page.seq + 1) - (n + 1) + i
        BY <1>5, <2>4, <3>2
      <4> QED BY <1>5, <2>2, <2>3, <4>1
    <3> QED BY <3>1, <3>2
  <2>5. disk.seq = (page.seq + 1) - (n + 1) + (IF n + 1 > 0 /\ Job'.committed THEN 1 ELSE 0)
    <3>1. disk.seq = page.seq - n + (IF n > 0 /\ Job.committed THEN 1 ELSE 0)
      BY <1>7, <2>1, <2>2 DEF InLine
    <3>2. (n + 1 > 0 /\ Job'.committed) <=> (n > 0 /\ Job.committed)
      BY <1>5, <2>2
    <3>3. \A a, b \in Nat : a - b \in Int /\ (a + 1) - (b + 1) = a - b
      OBVIOUS
    <3>4. page.seq \in Nat
      BY <1>5
    <3>5. PICK a \in Int : a = page.seq - n /\ a = (page.seq + 1) - (n + 1)
      BY <3>3, <3>4
    <3>6. CASE n > 0 /\ Job.committed
      BY <3>1, <3>2, <3>5, <3>6
    <3>7. CASE ~(n > 0 /\ Job.committed)
      BY <3>1, <3>2, <3>5, <3>7
    <3> QED BY <3>6, <3>7
  <2>6. PICK k \in Nat : k = n + 1 /\ Len(page'.queue) = k
    BY <1>5, <2>2
  <2>7. InLine(k)'
    BY <1>4, <1>5, <2>4, <2>5, <2>6 DEF InLine
  <2>8. InLine(Len(page.queue))'
    BY <2>6, <2>7
  <2> QED BY <1>4, <2>8 DEF Line
<1>11. LogOwned'
  <2>1. ASSUME NEW r \in emergency'
        PROVE  \E i \in 1..(L + 1) :
                  /\ page'.queue[i].kind = "append"
                  /\ r \in {page'.queue[i].rec} \cup page'.queue[i].fallback
    <3>1. CASE r = rec
      <4>1. L + 1 \in 1..(L + 1)
        BY <1>5
      <4> QED BY <1>2, <1>5, <3>1, <4>1
    <3>2. CASE r \in emergency
      <4>1. PICK i \in 1..L : /\ page.queue[i].kind = "append"
                              /\ r \in {page.queue[i].rec} \cup page.queue[i].fallback
        BY <1>5, <3>2 DEF LogOwned, Writable, L
      <4>2. i \in 1..(L + 1)
        BY <1>5, <4>1
      <4> QED BY <1>5, <4>1, <4>2
    <3> QED BY <1>1, <3>1, <3>2 DEF Logged
  <2>2. page'.pending \subseteq {Key(r) : r \in emergency'}
    BY <1>1, <1>4, <1>5 DEF LogOwned, Logged
  <2> QED BY <1>4, <1>5, <2>1, <2>2 DEF LogOwned
<1> QED BY <1>4, <1>5, <1>8, <1>9, <1>10, <1>11 DEF Owned, Draining

LEMMA MovingEditOwned == ASSUME IInv, Edit, NEW t \in page.transition PROVE Owned'
<1> DEFINE L == Len(page.queue)
<1> PICK rec, old : rec = Entry(t.epoch, t.seq + 1) /\ old = Entry(t.fallbackEpoch, t.fallbackSeq + 1)
  OBVIOUS
<1>a. Typed
  BY DEF IInv
<1>0. PICK durable \in BOOLEAN, u \in Int : \E keys : MovingEdited(t, durable, keys, u)
  BY <1>a, MovingEdit
<1> PICK s : s = [t EXCEPT !.seq = t.seq + 1, !.fallbackSeq = @ + 1]
  OBVIOUS
<1>1. PICK keys :
        /\ Logged({old, rec}, keys)
        /\ page' = [page EXCEPT
              !.pending = keys, !.seq = page.seq, !.transition = {s},
              !.queue = Append(page.queue, AppendJob(rec, {old}, durable, page.epoch)),
              !.undurable = u]
  BY <1>0 DEF MovingEdited
<1> DEFINE j == AppendJob(rec, {old}, durable, page.epoch)
<1>2. /\ j.kind = "append" /\ j.committed = FALSE /\ j.rec = rec /\ j.fallback = {old}
      /\ rec.epoch = t.epoch /\ rec.seq = t.seq + 1 /\ old.epoch = t.fallbackEpoch
  BY DEF AppendJob, Entry
<1>3. page' = [page EXCEPT
              !.pending = keys, !.seq = page.seq, !.transition = {s},
              !.queue = Append(page.queue, j), !.undurable = u]
  BY <1>1
<1> HIDE DEF j
<1>4. /\ page'.queue = Append(page.queue, j) /\ page'.transition = {s}
      /\ page'.pending = keys /\ page'.epoch = page.epoch
      /\ page'.phase = page.phase /\ page'.seq = page.seq /\ page'.failed = page.failed
  BY <1>3, <1>a DEF Typed, Pages
<1>5. /\ Fence /\ Shape /\ Line /\ LogOwned
      /\ page.phase = "ready" /\ ~page.failed /\ page.epoch \in Seen /\ Seen' = Seen
      /\ disk \in Heads /\ disk' \in Heads' /\ page.seq \in Nat /\ disk.seq \in Nat
      /\ UNCHANGED <<disk, orphans, epochs, loads>>
      /\ L \in Nat /\ Len(page'.queue) = L + 1
      /\ \A i \in 1..L : page'.queue[i] = page.queue[i]
      /\ page'.queue[L + 1] = j
      /\ \A i \in 2..Len(page'.queue) : ~page'.queue[i].committed
      /\ L > 0 => Job' = Job
      /\ ResetCommitted' = ResetCommitted
  BY <1>2, <1>4, EditJoins
<1>6. /\ page.transition = {t} /\ t \in Transitions /\ t.seq \in Nat /\ ResetAt(t) \in 1..L
      /\ t.epoch \in Seen
  BY <1>a, <1>5, Moving
<1> HIDE DEF L
<1>7. PICK m \in 1..L : m = ResetAt(t) /\ t.seq = L - m /\ L > 0
  <2>1. ResetAt(t) = L - t.seq
    BY DEF ResetAt, L
  <2>2. \A a \in 1..L, b \in Nat : a = L - b => b = L - a /\ L > 0
    <3>1. L \in Nat
      BY <1>5
    <3> QED BY <3>1
  <2>3. t.seq = L - ResetAt(t) /\ L > 0
    BY <1>6, <2>1, <2>2
  <2> QED BY <1>6, <2>3
<1>8. /\ s.epoch = t.epoch /\ s.seq = t.seq + 1 /\ s.fallbackEpoch = t.fallbackEpoch
  BY <1>6 DEF Transitions
<1>9. ResetAt(s)' = m
  <2>1. (L + 1) - (t.seq + 1) = m
    BY <1>5, <1>6, <1>7
  <2> QED BY <1>5, <1>8, <2>1 DEF ResetAt
<1>10. /\ t.fallbackEpoch = page.epoch /\ page.epoch < t.epoch
       /\ page.queue[m].kind = "reset" /\ page.queue[m].epoch = t.epoch
       /\ \A i \in 1..L : i # m => page.queue[i].kind = "append"
       /\ \A i \in 1..L : i > m =>
             page.queue[i].rec.epoch = t.epoch /\ page.queue[i].rec.seq = i - m
  BY <1>5, <1>6, <1>7 DEF Shape, L
<1>11. Shape'
  <2>1. ASSUME NEW i \in 1..(L + 1)
        PROVE  /\ i # m => page'.queue[i].kind = "append"
               /\ i > m => page'.queue[i].rec.epoch = t.epoch /\ page'.queue[i].rec.seq = i - m
    <3>1. CASE i = L + 1
      <4>1. rec.seq = i - m
        BY <1>2, <1>5, <1>6, <1>7, <3>1
      <4> QED BY <1>2, <1>5, <3>1, <4>1
    <3>2. CASE i # L + 1
      <4>1. i \in 1..L
        BY <1>5, <2>1, <3>2
      <4> QED BY <1>5, <1>10, <4>1
    <3> QED BY <3>1, <3>2
  <2>2. t.seq + 1 < L + 1
    BY <1>5, <1>6, <1>7
  <2>3. page'.queue[m] = page.queue[m]
    BY <1>5, <1>7
  <2> QED BY <1>4, <1>5, <1>8, <1>9, <1>10, <2>1, <2>2, <2>3 DEF Shape
<1>12. Fence'
  <2>1. ResetCommitted => Job' = Job
    BY <1>5, <1>7
  <2> QED BY <1>4, <1>5, <2>1 DEF Fence, Opened, Owning
<1>13. Line'
  <2>1. InLine(m - 1)
    BY <1>5, <1>6, <1>7 DEF Line, Writable
  <2>2. \A i \in 1..(m - 1) : i \in 1..L /\ page'.queue[i] = page.queue[i]
    BY <1>5, <1>7
  <2>3. InLine(m - 1)'
    <3>1. Job' = Job
      BY <1>5, <1>7
    <3> QED BY <1>4, <1>5, <2>1, <2>2, <3>1 DEF InLine
  <2>4. InLine(ResetAt(s) - 1)'
    BY <1>9, <2>3 DEF InLine
  <2>5. ASSUME NEW x \in page'.transition PROVE x = s
    BY <1>4, <2>5
  <2> QED BY <1>4, <2>4, <2>5 DEF Line
<1>14. LogOwned'
  <2>1. ASSUME NEW r \in emergency'
        PROVE  \E i \in 1..(L + 1) :
                  /\ page'.queue[i].kind = "append"
                  /\ r \in {page'.queue[i].rec} \cup page'.queue[i].fallback
    <3>1. CASE r \in {rec, old}
      <4>1. L + 1 \in 1..(L + 1)
        BY <1>5
      <4> QED BY <1>2, <1>5, <3>1, <4>1
    <3>2. CASE r \in emergency
      <4>1. PICK i \in 1..L : /\ page.queue[i].kind = "append"
                              /\ r \in {page.queue[i].rec} \cup page.queue[i].fallback
        BY <1>5, <3>2 DEF LogOwned, Writable, L
      <4>2. i \in 1..(L + 1)
        BY <1>5, <4>1
      <4> QED BY <1>5, <4>1, <4>2
    <3> QED BY <1>1, <3>1, <3>2 DEF Logged
  <2>2. ASSUME NEW r \in emergency', r.epoch = t.epoch
        PROVE  \E i \in 1..(L + 1) : i > m /\ r = page'.queue[i].rec
    <3>1. r # old
      <4>1. t.fallbackEpoch # t.epoch
        <5>1. page.epoch \in Int /\ t.epoch \in Int
          BY <1>5, <1>6 DEF Seen
        <5> QED BY <1>10, <5>1
      <4> QED BY <1>2, <2>2, <4>1
    <3>2. CASE r = rec
      <4>1. L + 1 \in 1..(L + 1) /\ L + 1 > m
        BY <1>5, <1>7
      <4> QED BY <1>2, <1>5, <3>2, <4>1
    <3>3. CASE r \in emergency
      <4>1. PICK i \in 1..L : i > m /\ r = page.queue[i].rec
        BY <1>5, <1>6, <1>7, <2>2, <3>3 DEF LogOwned, L
      <4>2. i \in 1..(L + 1)
        BY <1>5, <4>1
      <4> QED BY <1>5, <4>1, <4>2
    <3> QED BY <1>1, <3>1, <3>2, <3>3 DEF Logged
  <2>3. page'.pending \subseteq {Key(r) : r \in emergency'}
    BY <1>1, <1>4, <1>5 DEF LogOwned, Logged
  <2>4. ASSUME NEW x \in page'.transition, NEW r \in emergency', r.epoch = x.epoch
        PROVE  \E i \in 1..(L + 1) : i > ResetAt(x)' /\ r = page'.queue[i].rec
    <3>1. x = s /\ r.epoch = t.epoch
      BY <1>4, <1>8, <2>4
    <3>2. ResetAt(x)' = m
      BY <1>9, <3>1
    <3> QED BY <2>2, <3>1, <3>2
  <2> QED BY <1>5, <2>1, <2>3, <2>4 DEF LogOwned
<1> QED BY <1>4, <1>5, <1>11, <1>12, <1>13, <1>14 DEF Owned, Draining

LEMMA OwnedNext == ASSUME IInv, [Next]_vars PROVE Owned'
<1>1. CASE UNCHANGED vars
  <2>1. SamePlace
    BY <1>1 DEF vars, SamePlace
  <2>2. Owned /\ UNCHANGED disk /\ (Owning => disk \in Heads) /\ Heads' = Heads
    BY <1>1, Steady DEF IInv, Safe, Owned, Fence, vars
  <2> QED BY <2>1, <2>2, KeptOwned
<1>2. CASE Edit
  BY <1>2, PlainEditOwned, MovingEditOwned
<1>3. CASE JobFails
  <2>1. Job.kind \in {"append", "reset"}
    BY <1>3, HeadJob, JobTyped DEF JobFails, IInv
  <2> QED BY <1>3, <2>1, AppendFailsOwned, ResetFailsOwned
<1>4. CASE OrphanEnds
  BY <1>4, OrphanStep, OrphanOwned
<1> QED BY <1>1, <1>2, <1>3, <1>4, LoadOwned, DisappearOwned, OpenOwned, ReloadOwned, DrainOwned,
           DoneOwned, ProvisionOwned, CompactOwned, AppendSettledOwned, ResetSettledOwned,
           CommitOwned, RestoreOwned DEF Next

-----------------------------------------------------------------------------
(* The theorems. *)

LEMMA InvInit == ASSUME Init PROVE IInv
<1>1. Count = 0 /\ epochs = 0 /\ loads = 0
  BY FS_EmptySet DEF Init, Count
<1>2. Bounded
  BY <1>1, FS_EmptySet, Small DEF Init, Bounded
<1>3. Typed
  BY <1>2, NoPageTyped DEF Init, Typed
<1>4. Len(page.queue) = 0 /\ page.phase = "none" /\ page.queue = <<>> /\ page.transition = {}
      /\ page.pending = {}
  BY EmptySeq, NoPageIs DEF Init
<1>5. Untouched
  BY DEF Init, Untouched
<1>6. HeadOk
  BY DEF Init, HeadOk, JournalKeysOk, ReplayOk, EmptyHead
<1>7. Fence
  BY <1>4 DEF Init, Fence, Opened, Owning
<1>8. Shape
  BY <1>4 DEF Shape
<1>9. Line /\ LogOwned /\ Draining
  BY <1>4 DEF Line, Writable, LogOwned, Draining
<1> QED BY <1>3, <1>5, <1>6, <1>7, <1>8, <1>9 DEF IInv, Safe

LEMMA InvNext == ASSUME IInv, [Next]_vars PROVE IInv'
<1>1. Typed'
  BY TypedNext
<1>2. Untouched' /\ HeadOk' /\ Owned'
  BY <1>1, UntouchedNext, HeadOkNext, OwnedNext
<1> QED BY <1>1, <1>2 DEF IInv, Safe, Owned

\* At every instant the types of the engine's state grow with its history only, the
\* journal is keyed and without a gap, everything that is not the page's is behind
\* the fence, and the queue is one line of jobs that starts where the database ends.
THEOREM EngineInvariant == Spec => []IInv
<1>1. Init => IInv
  BY InvInit
<1>2. IInv /\ [Next]_vars => IInv'
  BY InvNext
<1> QED BY <1>1, <1>2, PTL DEF Spec

LEMMA IdleInStep == ASSUME IInv PROVE IdleWriterInStep
<1>1. SUFFICES ASSUME Writable, page.queue = <<>>
               PROVE  /\ disk.epoch = page.epoch /\ disk.seq = page.seq /\ disk.writer = loads
                      /\ emergency = {} /\ page.pending = {}
  BY DEF IdleWriterInStep
<1>2. /\ Typed /\ Fence /\ Shape /\ Line /\ LogOwned /\ page.phase = "ready"
      /\ page.transition = {} /\ Len(page.queue) = 0 /\ ~ResetCommitted
  BY <1>1, EmptyQueue DEF IInv, Safe, Writable
<1>3. disk.epoch = page.epoch /\ disk.writer = loads
  BY <1>2 DEF Fence, Owning
<1>4. disk.seq = page.seq
  <2>1. InLine(0)
    BY <1>1, <1>2 DEF Line
  <2>2. page.seq \in Nat
    BY <1>2, Naturals DEF Typed, Pages
  <2>3. disk.seq = page.seq - 0 + 0
    BY <1>2, <2>1 DEF InLine
  <2> QED BY <2>2, <2>3
<1>5. emergency = {}
  BY <1>1, <1>2 DEF LogOwned
<1>6. page.pending = {}
  BY <1>2, <1>5 DEF LogOwned
<1> QED BY <1>3, <1>4, <1>5, <1>6

\* A page that considers itself the idle writer has the sequence, the epoch and the
\* writer token of the database, whatever transactions older pages left to the
\* browser, and nothing of it is left in the emergency log.
THEOREM IdleWriterAgrees == Spec => []IdleWriterInStep
<1>1. IInv => IdleWriterInStep
  BY IdleInStep
<1> QED BY <1>1, EngineInvariant, PTL

\* Every step of the engine - open, edits, the queue, a restore, compaction, the end
\* of a page, and what the browser does with its transactions - is one transaction
\* of the IndexedDB layer or leaves the head alone.
THEOREM EngineImplementsStore == Spec => StoreSpec
<1>1. Init => Store!Init
  BY SameTransactions DEF Init, Store!Init
<1>2. IInv /\ [Next]_vars => [Store!Next]_disk
  BY StoreStep
<1> QED BY <1>1, <1>2, EngineInvariant, PTL DEF Spec, StoreSpec, Store!Spec

-----------------------------------------------------------------------------
(* Durable edits.  What recovery would find holds as long as every edit    *)
(* found room in the log: with a gap in the log it does not.               *)

AllDurable == \A e \in edits : e.durable

\* Sequences and ids of the replay grow together, so no two records claim one
\* sequence and no edit is there twice.
Ordered(h) == \A op1, op2 \in ReplayOps(h) : op1.seq < op2.seq <=> op1.id < op2.id

\* The log goes on where the journal ends.
Gapless(h) ==
    \A rec \in Applicable(h) : \A n \in (h.seq + 1)..rec.seq :
        \E s \in Applicable(h) : s.seq = n

\* What a replay to cp.seq skips is in the state it starts from.
Contained(h, cp) == \A op \in ReplayOps(h) : op.seq <= cp.seq => op.id \in cp.state

\* No edit of the epoch, or of one to come, is missing.
Kept(h) == \A e \in edits : e.epoch >= h.epoch => e.id \in RecoveredState(h)

Sound(h) == Ordered(h) /\ Gapless(h) /\ Contained(h, h.cp) /\ Kept(h)

\* A checkpoint computed from an earlier look at the head and the log: nothing it
\* covers is lost with the operations it replaces.
Covers(cp) ==
    /\ Contained(disk, cp)
    /\ disk.cp.state \subseteq cp.state
    /\ cp.seq <= disk.seq \/ \E op \in ReplayOps(disk) : cp.seq <= op.seq

\* The entries of the queue: what is not committed is in the log; the edits of
\* a transition have a second entry, which continues the old epoch's line.
Behind(t) == (ResetAt(t) + 1)..Len(page.queue)

Copies(t) ==
    /\ t.epoch = epochs
    /\ t.fallbackSeq = page.seq + t.seq
    /\ \A i \in Behind(t) :
          page.queue[i].fallback =
              {[epoch |-> page.epoch, seq |-> page.seq + (i - ResetAt(t)),
                id |-> page.queue[i].rec.id]}
    /\ \A i \in Behind(t) : page.queue[i].fallback \subseteq emergency
    /\ \A e \in edits : e.epoch = t.epoch => \E i \in Behind(t) : page.queue[i].rec.id = e.id

EntriesLogged ==
    \A i \in 1..Len(page.queue) : page.queue[i].kind = "append" =>
        /\ page.queue[i].rec \in emergency
        /\ \A f \in page.queue[i].fallback :
              f.epoch < page.queue[i].rec.epoch /\ f.id = page.queue[i].rec.id

EditsInOrder ==
    \A i, j \in 1..Len(page.queue) :
        i < j /\ page.queue[i].kind = "append" /\ page.queue[j].kind = "append" =>
            page.queue[i].rec.id < page.queue[j].rec.id

FrontWritten ==
    page.queue # <<>> /\ Job.kind = "append" /\ Job.committed =>
        Job.rec.epoch = disk.epoch /\ Job.rec.seq <= disk.seq

QueueLogged ==
    /\ EntriesLogged /\ EditsInOrder /\ FrontWritten
    /\ \A t \in page.transition : Copies(t)

\* A compaction in progress, of the page or of one that is gone.
Compactable(epoch, cp) ==
    /\ epoch <= disk.epoch
    /\ epoch = disk.epoch => Covers(cp)

Compacting ==
    \A c \in page.compaction :
        /\ disk # EmptyHead /\ disk.writer = loads
        /\ c.step = "loaded" =>
              /\ c.head.epoch <= disk.epoch
              /\ c.head.epoch = disk.epoch =>
                    c.head.cp = disk.cp /\ c.head.journal \subseteq disk.journal
        /\ c.step = "write" => Compactable(c.epoch, c.cp)

\* A page leaves at most one transaction of its queue and one compaction, and
\* none that still passes the fence can hurt.
Live(tx) == disk # EmptyHead /\ tx.writer = disk.writer

Harmless(tx) ==
    Live(tx) =>
        /\ tx.kind = "append" /\ tx.epoch = disk.epoch =>
              \E rec \in Applicable(disk) : OpOf(rec) = tx.op
        /\ tx.kind = "reset" /\ tx.epoch = disk.epoch =>
              Sound(FreshHead(tx.next, tx.writer, {}, {}))
        /\ tx.kind = "compact" => Compactable(tx.epoch, tx.cp)

OrphansSound ==
    /\ \A tx1, tx2 \in orphans :
          tx1.writer = tx2.writer /\ (tx1.kind = "compact" <=> tx2.kind = "compact") => tx1 = tx2
    /\ \A tx \in orphans : Harmless(tx)

DiskSound == disk # EmptyHead => Sound(disk)

Durable == DiskSound /\ QueueLogged /\ Compacting /\ OrphansSound


-----------------------------------------------------------------------------
(* Replays. *)

\* The operations of the head and of the log.
LEMMA OpsTyped ==
    ASSUME Typed, disk \in Heads
    PROVE  /\ Count \in Nat /\ disk.seq \in Nat /\ disk.cp.seq \in Nat
           /\ disk.journal \subseteq ReplayOps(disk)
           /\ \A op \in ReplayOps(disk) :
                 /\ op.seq \in Nat /\ op.seq >= 1 /\ op.id \in Nat /\ op.id <= Count
                 /\ op \in disk.journal \/ \E rec \in Applicable(disk) : op = OpOf(rec)
           /\ \A rec \in Applicable(disk) :
                 /\ rec \in emergency /\ rec.epoch = disk.epoch /\ rec.seq \in Nat
                 /\ OpOf(rec) \in ReplayOps(disk)
                 /\ OpOf(rec).seq = rec.seq /\ OpOf(rec).id = rec.id
<1>1. Count \in Nat /\ disk.seq \in Nat /\ disk.cp.seq \in Nat
  BY Naturals DEF Typed, Heads, Checkpoints
<1>2. ReplayOps(disk) \subseteq Operations
  BY ReplayTyped
<1>3. \A op \in ReplayOps(disk) :
         op.seq \in Nat /\ op.seq >= 1 /\ op.id \in Nat /\ op.id <= Count
  BY <1>1, <1>2 DEF Operations, Numbers
<1>4. /\ disk.journal \subseteq ReplayOps(disk)
      /\ \A op \in ReplayOps(disk) :
            op \in disk.journal \/ \E rec \in Applicable(disk) : op = OpOf(rec)
      /\ \A rec \in Applicable(disk) : OpOf(rec) \in ReplayOps(disk)
  BY DEF ReplayOps
<1>5. \A rec \in Applicable(disk) :
         /\ rec \in emergency /\ rec.epoch = disk.epoch
         /\ OpOf(rec).seq = rec.seq /\ OpOf(rec).id = rec.id
  BY DEF Applicable, OpOf
<1> QED BY <1>1, <1>3, <1>4, <1>5

LEMMA InRecovered ==
    ASSUME NEW h, NEW x
    PROVE  x \in RecoveredState(h) <=>
              \/ x \in h.cp.state
              \/ \E op \in ReplayOps(h) : op.seq > h.cp.seq /\ op.id = x
BY DEF RecoveredState, Replayed

\* In an ordered replay a sequence and an id determine each other.
LEMMA OneForOne ==
    ASSUME Typed, disk \in Heads, Ordered(disk),
           NEW op1 \in ReplayOps(disk), NEW op2 \in ReplayOps(disk)
    PROVE  op1.seq = op2.seq <=> op1.id = op2.id
<1>1. /\ op1.seq \in Nat /\ op2.seq \in Nat /\ op1.id \in Nat /\ op2.id \in Nat
  BY OpsTyped
<1>2. (op1.seq < op2.seq <=> op1.id < op2.id) /\ (op2.seq < op1.seq <=> op2.id < op1.id)
  BY DEF Ordered
<1> QED BY <1>1, <1>2

-----------------------------------------------------------------------------
(* What the steps do to a sound head. *)

\* The database catches up with its own log.
Grows ==
    /\ disk'.epoch = disk.epoch /\ disk'.cp = disk.cp
    /\ disk'.journal \subseteq ReplayOps(disk) /\ disk.journal \subseteq disk'.journal
    /\ disk'.seq \in Nat /\ disk.seq <= disk'.seq
    /\ UNCHANGED <<emergency, edits>>

LEMMA SameReplay ==
    ASSUME Grows
    PROVE  Applicable(disk)' = Applicable(disk) /\ ReplayOps(disk)' = ReplayOps(disk)
<1>1. Applicable(disk)' = Applicable(disk)
  BY DEF Grows, Applicable
<1> QED BY <1>1 DEF Grows, ReplayOps, OpOf

LEMMA GrowsSound ==
    ASSUME Typed, disk \in Heads, Grows
    PROVE  /\ Sound(disk) => Sound(disk)'
           /\ \A cp : cp.seq \in Nat /\ Covers(cp) => Covers(cp)'
<1>1. Applicable(disk)' = Applicable(disk) /\ ReplayOps(disk)' = ReplayOps(disk)
  BY SameReplay
<1>2. disk'.epoch = disk.epoch /\ disk'.cp = disk.cp /\ edits' = edits
      /\ disk.seq \in Nat /\ disk'.seq \in Nat /\ disk.seq <= disk'.seq
      /\ \A rec \in Applicable(disk) : rec.seq \in Nat
  BY OpsTyped DEF Grows
<1>3. Ordered(disk) => Ordered(disk)'
  BY <1>1 DEF Ordered
<1>4. Gapless(disk) => Gapless(disk)'
  <2>1. \A rec \in Applicable(disk) : (disk'.seq + 1)..rec.seq \subseteq (disk.seq + 1)..rec.seq
    BY <1>2
  <2> QED BY <1>1, <2>1 DEF Gapless
<1>5. \A cp : Contained(disk, cp) => Contained(disk, cp)'
  BY <1>1 DEF Contained
<1>6. Contained(disk, disk.cp) => Contained(disk, disk.cp)'
  BY <1>1, <1>2 DEF Contained
<1>7. Kept(disk) => Kept(disk)'
  <2>1. RecoveredState(disk)' = RecoveredState(disk)
    BY <1>1, <1>2 DEF RecoveredState, Replayed
  <2> QED BY <1>2, <2>1 DEF Kept
<1>8. ASSUME NEW cp, cp.seq \in Nat, Covers(cp)
      PROVE  Covers(cp)'
  <2>1. Contained(disk, cp)' /\ disk'.cp.state \subseteq cp.state
    BY <1>2, <1>5, <1>8 DEF Covers
  <2>2. cp.seq <= disk'.seq \/ \E op \in ReplayOps(disk)' : cp.seq <= op.seq
    BY <1>1, <1>2, <1>8 DEF Covers
  <2> QED BY <2>1, <2>2 DEF Covers
<1> QED BY <1>3, <1>4, <1>6, <1>7, <1>8 DEF Sound

\* Entries of the database's epoch leave the log only when it has them.
Shrinks ==
    /\ UNCHANGED <<disk, edits>>
    /\ emergency' \subseteq emergency
    /\ \A rec \in emergency : rec.epoch = disk.epoch /\ rec \notin emergency' =>
          rec.seq <= disk.seq

LEMMA ShrinksSound ==
    ASSUME Typed, disk \in Heads, HeadOk, Sound(disk), Shrinks
    PROVE  /\ Sound(disk)'
           /\ \A cp : cp.seq \in Nat /\ Covers(cp) => Covers(cp)'
<1>1. /\ Applicable(disk)' \subseteq Applicable(disk)
      /\ \A rec \in Applicable(disk) : rec \in Applicable(disk)' \/ rec.seq <= disk.seq
  BY DEF Applicable, Shrinks
<1>2. /\ ReplayOps(disk)' \subseteq ReplayOps(disk) /\ disk.journal \subseteq ReplayOps(disk)'
      /\ \A rec \in Applicable(disk)' : OpOf(rec) \in ReplayOps(disk)'
  BY <1>1 DEF ReplayOps, Shrinks, OpOf
<1>3. disk' = disk /\ edits' = edits
  BY DEF Shrinks
<1>4. \A op \in ReplayOps(disk) : op \in ReplayOps(disk)' \/ op.seq <= disk.seq
  BY <1>1, <1>2, OpsTyped
<1>5. Ordered(disk)'
  BY <1>2 DEF Sound, Ordered
<1>6. Gapless(disk)'
  <2>1. ASSUME NEW rec \in Applicable(disk)', NEW n \in (disk.seq + 1)..rec.seq
        PROVE  \E s \in Applicable(disk)' : s.seq = n
    <3>1. PICK s \in Applicable(disk) : s.seq = n
      BY <1>1, <2>1 DEF Sound, Gapless
    <3>2. ~ (s.seq <= disk.seq)
      BY <3>1, OpsTyped
    <3> QED BY <1>1, <3>1, <3>2
  <2> QED BY <1>3, <2>1 DEF Gapless
<1>7. \A cp : Contained(disk, cp) => Contained(disk, cp)'
  BY <1>2, <1>3 DEF Contained
<1>8. Contained(disk, disk.cp)'
  BY <1>2, <1>3 DEF Sound, Contained
<1>9. Kept(disk)'
  <2>1. ASSUME NEW x, x \in RecoveredState(disk)
        PROVE  x \in RecoveredState(disk)'
    <3>1. CASE x \in disk.cp.state
      BY <1>3, <3>1 DEF RecoveredState
    <3>2. ASSUME NEW op \in ReplayOps(disk), op.seq > disk.cp.seq, op.id = x
          PROVE  \E s \in ReplayOps(disk)' : s.seq > disk.cp.seq /\ s.id = x
      <4>1. CASE op \in ReplayOps(disk)'
        BY <3>2, <4>1
      <4>2. CASE op.seq <= disk.seq
        <5>1. op.seq \in (disk.cp.seq + 1)..disk.seq
          BY <3>2, <4>2, OpsTyped
        <5>2. PICK s \in disk.journal : s.seq = op.seq
          BY <5>1 DEF HeadOk, ReplayOk
        <5>3. s \in ReplayOps(disk) /\ s \in ReplayOps(disk)'
          BY <1>2, OpsTyped
        <5>4. s.id = op.id
          BY <5>2, <5>3, OneForOne DEF Sound
        <5> QED BY <3>2, <5>2, <5>3, <5>4
      <4> QED BY <1>4, <4>1, <4>2
    <3>3. (\E s \in ReplayOps(disk)' : s.seq > disk.cp.seq /\ s.id = x) =>
              x \in RecoveredState(disk)'
      BY <1>3 DEF RecoveredState, Replayed
    <3> QED BY <2>1, <3>1, <3>2, <3>3, InRecovered
  <2> QED BY <1>3, <2>1 DEF Sound, Kept
<1>10. ASSUME NEW cp, cp.seq \in Nat, Covers(cp)
       PROVE  Covers(cp)'
  <2>1. Contained(disk, cp)' /\ disk'.cp.state \subseteq cp.state
    BY <1>3, <1>7, <1>10 DEF Covers
  <2>2. cp.seq <= disk.seq \/ \E op \in ReplayOps(disk)' : cp.seq <= op.seq
    <3>1. ASSUME NEW op \in ReplayOps(disk), cp.seq <= op.seq, op.seq <= disk.seq
          PROVE  cp.seq <= disk.seq
      BY <1>10, <3>1, OpsTyped
    <3> QED BY <1>4, <1>10, <3>1 DEF Covers
  <2> QED BY <1>3, <2>1, <2>2 DEF Covers
<1> QED BY <1>5, <1>6, <1>8, <1>9, <1>10 DEF Sound

\* The log reaches from the database to top without a gap, and nothing goes on.
Reaches(top) ==
    /\ top \in Nat /\ disk.seq <= top
    /\ \A rec \in Applicable(disk) : rec.seq <= top
    /\ \A n \in (disk.seq + 1)..top : \E rec \in Applicable(disk) : rec.seq = n

\* An edit has the next sequence and the next number.
Joins(top, rec) ==
    /\ UNCHANGED disk
    /\ emergency \subseteq emergency' /\ Applicable(disk)' = Applicable(disk) \cup {rec}
    /\ rec.seq = top + 1 /\ rec.id = Count + 1
    /\ \E e : edits' = edits \cup {e} /\ e.id = rec.id

LEMMA JoinsSound ==
    ASSUME Typed, disk \in Heads, HeadOk, Sound(disk),
           NEW top, NEW rec, Reaches(top), Joins(top, rec)
    PROVE  /\ Sound(disk)'
           /\ \A cp : cp.seq \in Nat /\ Covers(cp) => Covers(cp)'
<1> DEFINE op == OpOf(rec)
<1>1. /\ disk' = disk /\ top \in Nat /\ disk.seq <= top /\ Count \in Nat
      /\ op.seq = top + 1 /\ op.id = Count + 1 /\ rec.seq = top + 1
      /\ Applicable(disk)' = Applicable(disk) \cup {rec}
  BY OpsTyped DEF Joins, Reaches, OpOf
<1>2. ReplayOps(disk)' = ReplayOps(disk) \cup {op}
  BY <1>1 DEF ReplayOps, OpOf
<1> HIDE DEF op
<1>3. \A s \in ReplayOps(disk) : s.seq < op.seq /\ s.id < op.id
  <2>1. \A s \in disk.journal : s.seq <= disk.seq
    BY OpsTyped DEF HeadOk, JournalKeysOk
  <2>2. ASSUME NEW s \in ReplayOps(disk) PROVE s.seq <= top
    <3>1. CASE s \in disk.journal
      BY <1>1, <2>1, <3>1, OpsTyped
    <3>2. ASSUME NEW r \in Applicable(disk), s = OpOf(r) PROVE s.seq <= top
      BY <3>2, OpsTyped DEF Reaches
    <3> QED BY <3>1, <3>2, OpsTyped
  <2> QED BY <1>1, <2>2, OpsTyped
<1>4. disk.cp.seq <= disk.seq /\ disk.cp.seq < op.seq
  BY <1>1, OpsTyped DEF HeadOk, ReplayOk
<1>5. Ordered(disk)'
  <2>1. ASSUME NEW s1 \in ReplayOps(disk) \cup {op}, NEW s2 \in ReplayOps(disk) \cup {op}
        PROVE  s1.seq < s2.seq <=> s1.id < s2.id
    <3>1. CASE s1 \in ReplayOps(disk) /\ s2 \in ReplayOps(disk)
      BY <3>1 DEF Sound, Ordered
    <3>2. CASE s1 \in ReplayOps(disk) /\ s2 = op
      BY <1>3, <3>2
    <3>3. CASE s1 = op /\ s2 \in ReplayOps(disk)
      BY <1>1, <1>3, <3>3, OpsTyped
    <3>4. CASE s1 = op /\ s2 = op
      BY <1>1, <3>4
    <3> QED BY <3>1, <3>2, <3>3, <3>4
  <2> QED BY <1>2, <2>1 DEF Ordered
<1>6. Gapless(disk)'
  <2>1. ASSUME NEW r \in Applicable(disk)', NEW n \in (disk.seq + 1)..r.seq
        PROVE  \E s \in Applicable(disk)' : s.seq = n
    <3>1. CASE r = rec
      <4>1. n = top + 1 \/ n \in (disk.seq + 1)..top
        BY <1>1, <2>1, <3>1, OpsTyped
      <4> QED BY <1>1, <4>1 DEF Reaches
    <3>2. CASE r \in Applicable(disk)
      BY <1>1, <2>1, <3>2 DEF Sound, Gapless
    <3> QED BY <1>1, <3>1, <3>2
  <2> QED BY <1>1, <2>1 DEF Gapless
<1>7. ASSUME NEW cp, cp.seq \in Nat, Contained(disk, cp), cp.seq < op.seq
      PROVE  Contained(disk, cp)'
  BY <1>1, <1>2, <1>7 DEF Contained
<1>8. Contained(disk, disk.cp)'
  BY <1>1, <1>2, <1>4, OpsTyped DEF Contained, Sound
<1>9. Kept(disk)'
  <2>1. ASSUME NEW x, x \in RecoveredState(disk) \/ x = op.id
        PROVE  x \in RecoveredState(disk)'
    <3>1. x \in RecoveredState(disk) =>
              x \in disk.cp.state \/ \E s \in ReplayOps(disk) : s.seq > disk.cp.seq /\ s.id = x
      BY InRecovered
    <3>2. x \in disk.cp.state \/ \E s \in ReplayOps(disk)' : s.seq > disk.cp.seq /\ s.id = x
      BY <1>1, <1>2, <1>4, <2>1, <3>1, OpsTyped
    <3> QED BY <1>1, <3>2 DEF RecoveredState, Replayed
  <2>2. PICK e : edits' = edits \cup {e} /\ e.id = rec.id
    BY DEF Joins
  <2>3. e.id = op.id
    BY <1>1, <2>2 DEF Joins
  <2> QED BY <1>1, <2>1, <2>2, <2>3 DEF Sound, Kept
<1>10. ASSUME NEW cp, cp.seq \in Nat, Covers(cp)
       PROVE  Covers(cp)'
  <2>1. cp.seq < op.seq
    <3>1. cp.seq <= disk.seq \/ \E s \in ReplayOps(disk) : cp.seq <= s.seq
      BY <1>10 DEF Covers
    <3> QED BY <1>1, <1>3, <1>10, <3>1, OpsTyped
  <2>2. Contained(disk, cp)' /\ disk'.cp.state \subseteq cp.state
    BY <1>1, <1>7, <1>10, <2>1 DEF Covers
  <2>3. cp.seq <= disk'.seq \/ \E s \in ReplayOps(disk)' : cp.seq <= s.seq
    BY <1>1, <1>2, <1>10 DEF Covers
  <2> QED BY <2>2, <2>3 DEF Covers
<1> QED BY <1>5, <1>6, <1>8, <1>9, <1>10 DEF Sound

\* A checkpoint that covers the replay takes the place of the operations.
LEMMA CompactSound ==
    ASSUME Typed, disk \in Heads, Sound(disk), NEW cp, cp.seq \in Nat, Covers(cp),
           disk.cp.seq <= cp.seq, disk' = Compact(disk, cp), UNCHANGED <<emergency, edits>>
    PROVE  Sound(disk)'
<1>1. /\ disk'.epoch = disk.epoch /\ disk'.seq = disk.seq /\ disk'.cp = cp
      /\ disk'.journal = {op \in disk.journal : op.seq > cp.seq}
  BY DEF Heads, Compact, CompactedThrough
<1>2. Applicable(disk)' = Applicable(disk)
  BY <1>1 DEF Applicable
<1>3. /\ ReplayOps(disk)' \subseteq ReplayOps(disk)
      /\ \A op \in ReplayOps(disk) : op.seq > cp.seq => op \in ReplayOps(disk)'
  <2>1. ReplayOps(disk)' = disk'.journal \cup {OpOf(rec) : rec \in Applicable(disk)}
    BY <1>2 DEF ReplayOps, OpOf
  <2> QED BY <1>1, <2>1 DEF ReplayOps
<1>4. Ordered(disk)'
  BY <1>3 DEF Sound, Ordered
<1>5. Gapless(disk)'
  BY <1>1, <1>2 DEF Sound, Gapless
<1>6. Contained(disk, disk.cp)'
  BY <1>1, <1>3 DEF Covers, Contained
<1>7. Kept(disk)'
  <2>1. ASSUME NEW x, x \in RecoveredState(disk)
        PROVE  x \in RecoveredState(disk)'
    <3>1. ASSUME NEW op \in ReplayOps(disk), op.id = x
          PROVE  x \in cp.state \/ \E s \in ReplayOps(disk)' : s.seq > cp.seq /\ s.id = x
      <4>1. CASE op.seq <= cp.seq
        BY <3>1, <4>1 DEF Covers, Contained
      <4>2. CASE op.seq > cp.seq
        BY <1>3, <3>1, <4>2
      <4> QED BY <3>1, <4>1, <4>2, OpsTyped
    <3>2. x \in cp.state \/ \E s \in ReplayOps(disk)' : s.seq > cp.seq /\ s.id = x
      BY <2>1, <3>1, InRecovered DEF Covers
    <3> QED BY <1>1, <3>2 DEF RecoveredState, Replayed
  <2> QED BY <1>1, <2>1 DEF Sound, Kept
<1> QED BY <1>4, <1>5, <1>6, <1>7 DEF Sound

\* What a head would be worth depends on log and history alone.
LEMMA LastingSound ==
    ASSUME UNCHANGED <<emergency, edits>>
    PROVE  /\ \A h : Sound(h)' = Sound(h) /\ ReplayOps(h)' = ReplayOps(h)
           /\ \A h, cp : Contained(h, cp)' = Contained(h, cp)
<1>1. \A h : Applicable(h)' = Applicable(h) /\ ReplayOps(h)' = ReplayOps(h)
  BY DEF Applicable, ReplayOps
<1>2. \A h, cp : Contained(h, cp)' = Contained(h, cp)
  BY <1>1 DEF Contained
<1>3. \A h : Ordered(h)' = Ordered(h) /\ Gapless(h)' = Gapless(h) /\ Kept(h)' = Kept(h)
  BY <1>1 DEF Ordered, Gapless, Kept, RecoveredState, Replayed
<1> QED BY <1>1, <1>2, <1>3 DEF Sound

\* A step that leaves head, log and history alone.
LEMMA StillSound ==
    ASSUME UNCHANGED <<disk, emergency, edits>>
    PROVE  /\ DiskSound' = DiskSound
           /\ \A cp : Covers(cp)' = Covers(cp)
           /\ \A h : Sound(h)' = Sound(h)
<1> QED BY LastingSound DEF DiskSound, Covers

-----------------------------------------------------------------------------
(* The log under the queue. *)

\* What the appends of the queue carry.
LEMMA QueueTyped ==
    ASSUME Typed
    PROVE  /\ Len(page.queue) \in Nat
           /\ \A i \in 1..Len(page.queue) :
                 /\ page.queue[i] \in Jobs
                 /\ page.queue[i].kind = "append" =>
                       /\ page.queue[i].rec \in Records /\ page.queue[i].rec.epoch \in Seen
                       /\ page.queue[i].rec.seq \in Nat /\ page.queue[i].rec.id \in Nat
                       /\ page.queue[i].rec.id <= Count
<1>1. Len(page.queue) \in Nat /\ Count \in Nat
  BY LenProperties, Naturals DEF Typed, Pages
<1>2. ASSUME NEW i \in 1..Len(page.queue), page.queue[i].kind = "append"
      PROVE  page.queue[i].rec \in Records
  BY <1>2, SomeJob, JobTyped DEF Appends
<1>3. \A r \in Records : r.epoch \in Seen /\ r.seq \in Nat /\ r.id \in Nat /\ r.id <= Count
  BY <1>1 DEF Records, Numbers
<1> QED BY <1>1, <1>2, <1>3, SomeJob

\* The new epoch is recovered from the log alone.
LEMMA FreshSound ==
    ASSUME Typed, Shape, LogOwned, QueueLogged, NEW t \in page.transition, NEW w
    PROVE  Sound(FreshHead(t.epoch, w, {}, {}))
<1> DEFINE h == FreshHead(t.epoch, w, {}, {})
           m == ResetAt(t)
<1>1. /\ h.epoch = t.epoch /\ h.seq = 0 /\ h.cp.seq = 0 /\ h.journal = {}
  BY DEF FreshHead
<1>2. m \in 1..Len(page.queue) /\ Len(page.queue) \in Nat /\ t.epoch \in Seen
  BY Moving
<1>3. ASSUME NEW i \in 1..Len(page.queue), i > m
      PROVE  /\ page.queue[i].kind = "append" /\ page.queue[i].rec \in emergency
             /\ page.queue[i].rec.epoch = t.epoch /\ page.queue[i].rec.seq = i - m
             /\ page.queue[i].rec \in Applicable(h) /\ OpOf(page.queue[i].rec) \in ReplayOps(h)
             /\ page.queue[i].rec.id \in Nat
  <2>1. i # m
    BY <1>2, <1>3
  <2>2. /\ page.queue[i].kind = "append"
        /\ page.queue[i].rec.epoch = t.epoch /\ page.queue[i].rec.seq = i - m
    BY <1>3, <2>1 DEF Shape
  <2>3. page.queue[i].rec \in emergency
    BY <2>2 DEF QueueLogged, EntriesLogged
  <2> QED BY <1>1, <2>2, <2>3, QueueTyped DEF Applicable, ReplayOps
<1>4. \A rec \in Applicable(h) :
         \E i \in 1..Len(page.queue) : i > m /\ rec = page.queue[i].rec
  BY <1>1 DEF Applicable, LogOwned
<1>5. \A op \in ReplayOps(h) :
         \E i \in 1..Len(page.queue) :
             i > m /\ op.seq = page.queue[i].rec.seq /\ op.id = page.queue[i].rec.id
  BY <1>1, <1>4 DEF ReplayOps, OpOf
<1> HIDE DEF h, m
<1>6. Ordered(h)
  <2>1. ASSUME NEW i \in 1..Len(page.queue), NEW j \in 1..Len(page.queue), i > m, j > m, i < j
        PROVE  page.queue[i].rec.id < page.queue[j].rec.id
    BY <1>3, <2>1 DEF QueueLogged, EditsInOrder
  <2>2. ASSUME NEW i \in 1..Len(page.queue), NEW j \in 1..Len(page.queue), i > m, j > m
        PROVE  page.queue[i].rec.seq < page.queue[j].rec.seq
                   <=> page.queue[i].rec.id < page.queue[j].rec.id
    <3>1. page.queue[i].rec.id \in Nat /\ page.queue[j].rec.id \in Nat
      BY <1>3, <2>2
    <3>2. page.queue[i].rec.seq < page.queue[j].rec.seq <=> i < j
      BY <1>2, <1>3, <2>2
    <3>3. i < j \/ i = j \/ j < i
      BY <1>2, <2>2
    <3> QED BY <2>1, <2>2, <3>1, <3>2, <3>3
  <2> QED BY <1>5, <2>2 DEF Ordered
<1>7. Gapless(h)
  <2>1. ASSUME NEW rec \in Applicable(h), NEW n \in (h.seq + 1)..rec.seq
        PROVE  \E s \in Applicable(h) : s.seq = n
    <3>1. PICK i \in 1..Len(page.queue) : i > m /\ rec = page.queue[i].rec
      BY <1>4
    <3>2. rec.seq = i - m
      BY <1>3, <3>1
    <3>3. n \in 1..(i - m)
      BY <1>1, <2>1, <3>2
    <3>4. m + n \in 1..Len(page.queue) /\ m + n > m /\ (m + n) - m = n
      BY <1>2, <3>3
    <3>5. page.queue[m + n].rec.seq = n /\ page.queue[m + n].rec \in Applicable(h)
      BY <1>3, <3>4
    <3> QED BY <3>5
  <2> QED BY <2>1 DEF Gapless
<1>8. Contained(h, h.cp)
  <2>1. ASSUME NEW op \in ReplayOps(h) PROVE op.seq > 0 /\ ~ (op.seq <= 0)
    BY <1>2, <1>3, <1>5
  <2> QED BY <1>1, <2>1 DEF Contained
<1>9. Kept(h)
  <2>1. ASSUME NEW e \in edits, e.epoch >= t.epoch PROVE e.id \in RecoveredState(h)
    <3>1. Copies(t)
      BY DEF QueueLogged
    <3>2. e.epoch = t.epoch
      <4>1. e.epoch \in Seen /\ t.epoch = epochs /\ epochs \in Nat
        BY <3>1, Naturals DEF Typed, Edits, Copies
      <4> QED BY <2>1, <4>1 DEF Seen
    <3>3. PICK i \in Behind(t) : page.queue[i].rec.id = e.id
      BY <3>1, <3>2 DEF Copies
    <3>4. i \in 1..Len(page.queue) /\ i > m /\ i - m > 0
      BY <1>2, <3>3 DEF Behind, m
    <3>5. OpOf(page.queue[i].rec) \in ReplayOps(h) /\ page.queue[i].rec.seq = i - m
      BY <1>3, <3>4
    <3>6. OpOf(page.queue[i].rec).seq > h.cp.seq /\ OpOf(page.queue[i].rec).id = e.id
      BY <1>1, <3>3, <3>4, <3>5 DEF OpOf
    <3> QED BY <3>5, <3>6, InRecovered
  <2> QED BY <1>1, <2>1 DEF Kept
<1>10. Sound(h)
  BY <1>6, <1>7, <1>8, <1>9 DEF Sound
<1> QED BY <1>10 DEF h

\* Where a page that may edit stands: the log continues the database up to the
\* page's own position.
LEMMA PlainReaches ==
    ASSUME IInv, QueueLogged, Writable, page.transition = {}
    PROVE  Reaches(page.seq) /\ disk \in Heads /\ disk.epoch = page.epoch
<1> DEFINE L == Len(page.queue)
<1>0. /\ Typed /\ Fence /\ Shape /\ Line /\ LogOwned /\ HeadOk
  BY DEF IInv, Safe
<1>1. /\ L \in Nat /\ \A i \in 1..L : page.queue[i].kind = "append"
  BY <1>0, QueueTyped DEF Shape
<1>2. ~ResetCommitted
  <2>1. page.queue # <<>> => Job = page.queue[1] /\ 1 \in 1..L
    BY <1>0, HeadJob
  <2> QED BY <1>1, <2>1 DEF ResetCommitted
<1>3. disk \in Heads /\ disk.epoch = page.epoch /\ disk.seq \in Nat /\ page.seq \in Nat
      /\ page.epoch \in Nat
  <2>1. disk \in Heads /\ disk.epoch = page.epoch /\ page.epoch \in Seen
    BY <1>0, <1>2 DEF Fence, Owning, Opened, Writable
  <2> QED BY <1>0, <2>1, OpsTyped, Naturals DEF Typed, Pages, Seen
<1>4. InLine(L)
  BY <1>0 DEF Line
<1> HIDE DEF L
<1>5. disk.seq = page.seq - L \/ (L > 0 /\ disk.seq = page.seq - L + 1)
  BY <1>1, <1>2, <1>3, <1>4 DEF InLine
<1>6. ASSUME NEW i \in 1..L
      PROVE  /\ page.queue[i].rec.epoch = page.epoch /\ page.queue[i].rec.seq = page.seq - L + i
             /\ page.queue[i].rec \in Applicable(disk)
             /\ \A f \in page.queue[i].fallback : f.epoch < page.epoch
  <2>1. /\ page.queue[i].rec.epoch = page.epoch /\ page.queue[i].rec.seq = page.seq - L + i
    BY <1>4 DEF InLine
  <2>2. /\ page.queue[i].rec \in emergency
        /\ \A f \in page.queue[i].fallback : f.epoch < page.queue[i].rec.epoch
    BY <1>1 DEF QueueLogged, EntriesLogged, L
  <2> QED BY <1>3, <2>1, <2>2 DEF Applicable
<1>7. ASSUME NEW rec \in Applicable(disk) PROVE rec.seq <= page.seq
  <2>1. rec \in emergency /\ rec.epoch = page.epoch
    BY <1>3 DEF Applicable
  <2>2. PICK i \in 1..L : rec \in {page.queue[i].rec} \cup page.queue[i].fallback
    BY <1>0, <2>1 DEF LogOwned, L
  <2>3. rec = page.queue[i].rec
    BY <1>3, <1>6, <2>1, <2>2
  <2> QED BY <1>1, <1>3, <1>6, <2>3
<1>8. ASSUME NEW n \in (disk.seq + 1)..page.seq
      PROVE  \E rec \in Applicable(disk) : rec.seq = n
  <2>1. n - (page.seq - L) \in 1..L /\ page.seq - L + (n - (page.seq - L)) = n
    BY <1>1, <1>3, <1>5, <1>8
  <2> QED BY <1>6, <2>1
<1>9. disk.seq <= page.seq
  BY <1>1, <1>3, <1>5
<1> QED BY <1>3, <1>7, <1>8, <1>9 DEF Reaches

LEMMA MovingReaches ==
    ASSUME IInv, QueueLogged, Writable, NEW t \in page.transition
    PROVE  /\ ResetCommitted => Reaches(t.seq) /\ disk.epoch = t.epoch
           /\ ~ResetCommitted => Reaches(t.fallbackSeq) /\ disk.epoch = page.epoch
           /\ disk \in Heads
<1> DEFINE L == Len(page.queue)
           m == ResetAt(t)
<1>0. /\ Typed /\ Fence /\ Shape /\ Line /\ LogOwned /\ HeadOk /\ Copies(t)
  BY DEF IInv, Safe, QueueLogged
<1>1. L \in Nat /\ t.seq \in Nat /\ m \in 1..L /\ m = L - t.seq
  BY <1>0, Moving DEF ResetAt
<1>2. /\ disk \in Heads /\ disk.seq \in Nat /\ page.seq \in Nat /\ page.epoch < t.epoch
      /\ page.epoch \in Nat /\ t.epoch \in Nat
  <2>1. disk \in Heads /\ page.epoch \in Seen /\ t.epoch \in Seen /\ page.epoch < t.epoch
    BY <1>0, Moving DEF Fence, Owning, Opened, Writable, Shape
  <2> QED BY <1>0, <2>1, OpsTyped, Naturals DEF Typed, Pages, Seen
<1>3. ASSUME NEW i \in 1..L, i > m
      PROVE  /\ page.queue[i].rec.epoch = t.epoch /\ page.queue[i].rec.seq = i - m
             /\ page.queue[i].rec \in emergency
             /\ page.queue[i].fallback =
                    {[epoch |-> page.epoch, seq |-> page.seq + (i - m),
                      id |-> page.queue[i].rec.id]}
             /\ page.queue[i].fallback \subseteq emergency
  <2>1. i # m /\ i \in Behind(t)
    BY <1>1, <1>3 DEF Behind
  <2>2. /\ page.queue[i].kind = "append"
        /\ page.queue[i].rec.epoch = t.epoch /\ page.queue[i].rec.seq = i - m
    BY <1>0, <1>3, <2>1 DEF Shape
  <2> QED BY <1>0, <2>1, <2>2 DEF QueueLogged, EntriesLogged, Copies
<1>4. ASSUME ResetCommitted
      PROVE  Reaches(t.seq) /\ disk.epoch = t.epoch
  <2>1. disk.seq = 0 /\ disk.epoch = t.epoch
    <3>1. page.queue # <<>> /\ Job.kind = "reset" /\ disk.epoch = Job.epoch /\ disk.seq = 0
      BY <1>0, <1>4 DEF ResetCommitted, Fence, Owning, Writable
    <3>2. PICK s \in Transitions : page.transition = {s} /\ Job.epoch = s.epoch
      BY <1>0, <3>1, HeadReset
    <3> QED BY <3>1, <3>2
  <2>2. ASSUME NEW rec \in Applicable(disk) PROVE rec.seq <= t.seq
    <3>1. PICK i \in 1..L : i > m /\ rec = page.queue[i].rec
      BY <1>0, <2>1 DEF Applicable, LogOwned
    <3> QED BY <1>1, <1>3, <3>1
  <2>3. ASSUME NEW n \in (disk.seq + 1)..t.seq
        PROVE  \E rec \in Applicable(disk) : rec.seq = n
    <3>1. m + n \in 1..L /\ m + n > m /\ (m + n) - m = n
      BY <1>1, <2>1, <2>3
    <3>2. page.queue[m + n].rec \in Applicable(disk) /\ page.queue[m + n].rec.seq = n
      BY <1>3, <2>1, <3>1 DEF Applicable
    <3> QED BY <3>2
  <2> QED BY <1>1, <1>2, <1>4, <2>1, <2>2, <2>3 DEF Reaches
<1>5. ASSUME ~ResetCommitted
      PROVE  Reaches(page.seq + t.seq) /\ disk.epoch = page.epoch
  <2>1. disk.epoch = page.epoch
    BY <1>0, <1>5 DEF Fence, Owning, Writable
  <2>2. InLine(m - 1)
    BY <1>0 DEF Line
  <2> HIDE DEF m, L
  <2>3. \/ disk.seq = page.seq - (m - 1)
        \/ m - 1 > 0 /\ disk.seq = page.seq - (m - 1) + 1
    BY <1>1, <1>2, <1>5, <2>2 DEF InLine
  <2>4. ASSUME NEW i \in 1..(m - 1)
        PROVE  /\ page.queue[i].rec.epoch = page.epoch
               /\ page.queue[i].rec.seq = page.seq - (m - 1) + i
               /\ page.queue[i].rec \in Applicable(disk)
               /\ \A f \in page.queue[i].fallback : f.epoch < page.epoch
    <3>1. /\ page.queue[i].rec.epoch = page.epoch
          /\ page.queue[i].rec.seq = page.seq - (m - 1) + i
      BY <2>2 DEF InLine
    <3>2. i \in 1..L /\ i # m
      BY <1>1, <2>4
    <3>3. page.queue[i].kind = "append"
      BY <1>0, <3>2 DEF Shape, m, L
    <3>4. /\ page.queue[i].rec \in emergency
          /\ \A f \in page.queue[i].fallback : f.epoch < page.queue[i].rec.epoch
      BY <3>2, <3>3 DEF QueueLogged, EntriesLogged, L
    <3> QED BY <2>1, <3>1, <3>4 DEF Applicable
  <2>5. ASSUME NEW rec \in Applicable(disk) PROVE rec.seq <= page.seq + t.seq
    <3>1. rec \in emergency /\ rec.epoch = page.epoch
      BY <2>1 DEF Applicable
    <3>2. PICK i \in 1..L : /\ page.queue[i].kind = "append"
                            /\ rec \in {page.queue[i].rec} \cup page.queue[i].fallback
      BY <1>0, <3>1 DEF LogOwned, L
    <3>3. CASE i < m
      <4>1. i \in 1..(m - 1)
        BY <1>1, <3>2, <3>3
      <4>2. rec = page.queue[i].rec
        BY <1>2, <2>4, <3>1, <3>2, <4>1
      <4>3. rec.seq = page.seq - (m - 1) + i
        BY <2>4, <4>1, <4>2
      <4> QED BY <1>1, <1>2, <4>1, <4>3
    <3>4. CASE i > m
      <4>1. rec # page.queue[i].rec
        BY <1>2, <1>3, <3>1, <3>2, <3>4
      <4>2. rec.seq = page.seq + (i - m)
        BY <1>3, <3>2, <3>4, <4>1
      <4> QED BY <1>1, <1>2, <3>2, <4>2
    <3>5. CASE i = m
      BY <1>0, <3>2, <3>5 DEF Shape, m
    <3> QED BY <1>1, <3>3, <3>4, <3>5
  <2>6. ASSUME NEW n \in (disk.seq + 1)..(page.seq + t.seq)
        PROVE  \E rec \in Applicable(disk) : rec.seq = n
    <3>1. CASE n <= page.seq
      <4>1. n - (page.seq - (m - 1)) \in 1..(m - 1)
            /\ page.seq - (m - 1) + (n - (page.seq - (m - 1))) = n
        BY <1>1, <1>2, <2>3, <2>6, <3>1
      <4> QED BY <2>4, <4>1
    <3>2. CASE n > page.seq
      <4>1. PICK i \in 1..L : i > m /\ page.seq + (i - m) = n
        <5>1. m + (n - page.seq) \in 1..L /\ m + (n - page.seq) > m
              /\ page.seq + ((m + (n - page.seq)) - m) = n
          BY <1>1, <1>2, <2>6, <3>2
        <5> QED BY <5>1
      <4> DEFINE f == [epoch |-> page.epoch, seq |-> n, id |-> page.queue[i].rec.id]
      <4>2. f \in emergency
        BY <1>3, <4>1
      <4>3. f \in Applicable(disk) /\ f.seq = n
        BY <2>1, <4>2 DEF Applicable
      <4> QED BY <4>3
    <3> QED BY <1>2, <2>6, <3>1, <3>2
  <2>7. disk.seq <= page.seq + t.seq
    BY <1>1, <1>2, <2>3
  <2>8. page.seq + t.seq \in Nat
    BY <1>1, <1>2
  <2> QED BY <1>5, <2>1, <2>5, <2>6, <2>7, <2>8 DEF Reaches
<1>6. disk \in Heads /\ t.fallbackSeq = page.seq + t.seq
  BY <1>0, <1>2 DEF Copies
<1> QED BY <1>4, <1>5, <1>6

\* A page that is not ready has no jobs.
LEMMA AwayLogged ==
    ASSUME Shape', page'.phase # "ready" \/ (page'.queue = <<>> /\ page'.transition = {})
    PROVE  QueueLogged'
<1>1. page'.queue = <<>> /\ page'.transition = {}
  BY DEF Shape
<1>2. Len(page'.queue) = 0
  BY <1>1, EmptySeq
<1>3. EntriesLogged' /\ EditsInOrder' /\ FrontWritten'
  BY <1>1, <1>2 DEF EntriesLogged, EditsInOrder, FrontWritten
<1> QED BY <1>1, <1>3 DEF QueueLogged

\* The queue keeps its entries in place.
LEMMA StayLogged ==
    ASSUME QueueLogged, FrontWritten', Len(page'.queue) = Len(page.queue),
           \A i \in 1..Len(page.queue) :
               /\ page'.queue[i].kind = page.queue[i].kind
               /\ page.queue[i].kind = "append" =>
                     /\ page'.queue[i].rec = page.queue[i].rec
                     /\ page'.queue[i].fallback = page.queue[i].fallback,
           \A i \in 1..Len(page.queue) : \A t \in page.transition :
               i > ResetAt(t) => page.queue[i].kind = "append",
           page'.transition = page.transition, page'.epoch = page.epoch, page'.seq = page.seq,
           \A t \in page.transition : ResetAt(t) \in Nat,
           UNCHANGED <<emergency, edits, epochs>>
    PROVE  QueueLogged'
<1>1. EntriesLogged'
  BY DEF QueueLogged, EntriesLogged
<1>2. EditsInOrder'
  BY DEF QueueLogged, EditsInOrder
<1>3. ASSUME NEW t \in page.transition PROVE Copies(t)'
  <2>1. ResetAt(t)' = ResetAt(t) /\ Behind(t)' = Behind(t)
    BY DEF ResetAt, Behind
  <2>2. \A i \in Behind(t) : i \in 1..Len(page.queue) /\ page.queue[i].kind = "append"
    <3>1. \A i \in Behind(t) : i \in 1..Len(page.queue) /\ i > ResetAt(t)
      BY DEF Behind
    <3> QED BY <3>1
  <2>3. \A i \in Behind(t) : page'.queue[i].rec = page.queue[i].rec
                             /\ page'.queue[i].fallback = page.queue[i].fallback
    BY <2>2
  <2>4. Copies(t)
    BY <1>3 DEF QueueLogged
  <2> QED BY <2>1, <2>3, <2>4 DEF Copies
<1> QED BY <1>1, <1>2, <1>3 DEF QueueLogged

\* The first job leaves the queue, and with it at most its own entries the log.
LEMMA TailLogged ==
    ASSUME IInv, QueueLogged, page.queue # <<>>, page'.queue = Tail(page.queue),
           page'.transition = {} \/ /\ page'.transition = page.transition
                                    /\ page'.epoch = page.epoch /\ page'.seq = page.seq
                                    /\ Job.kind = "append",
           UNCHANGED <<edits, epochs>>,
           \A i \in 2..Len(page.queue) : page.queue[i].kind = "append" =>
               /\ page.queue[i].rec \in emergency'
               /\ page'.transition # {} => (page.queue[i].fallback \cap emergency) \subseteq emergency'
    PROVE  QueueLogged'
<1> DEFINE L == Len(page.queue)
<1>0. Typed /\ Shape
  BY DEF IInv, Safe
<1>1. /\ L \in Nat \ {0} /\ Len(page'.queue) = L - 1
      /\ \A i \in 1..(L - 1) : page'.queue[i] = page.queue[i + 1]
      /\ page'.queue # <<>> => L > 1 /\ Job' = page.queue[2]
  BY <1>0, QueueTail
<1>2. \A i \in 1..(L - 1) : i + 1 \in 1..L /\ i + 1 \in 2..L
  BY <1>1
<1>3. EntriesLogged'
  BY <1>1, <1>2 DEF QueueLogged, EntriesLogged
<1>4. EditsInOrder'
  <2>1. \A i, j \in 1..(L - 1) : i < j => i + 1 < j + 1
    BY <1>1
  <2> QED BY <1>1, <1>2, <2>1 DEF QueueLogged, EditsInOrder
<1>5. FrontWritten'
  BY <1>0, <1>1 DEF FrontWritten, Shape
<1>6. ASSUME NEW t \in page'.transition PROVE Copies(t)'
  <2>0. /\ t \in page.transition /\ page'.epoch = page.epoch /\ page'.seq = page.seq
        /\ Job.kind = "append" /\ Copies(t) /\ page'.transition # {}
    BY <1>6 DEF QueueLogged
  <2>1. /\ t.seq \in Nat /\ ResetAt(t) \in 1..L
    BY <1>0, <2>0, Moving
  <2>2. ResetAt(t)' = ResetAt(t) - 1
    BY <1>1, <2>1 DEF ResetAt
  <2>3. ASSUME NEW i \in Behind(t)'
        PROVE  /\ i + 1 \in Behind(t) /\ page'.queue[i] = page.queue[i + 1]
               /\ i - ResetAt(t)' = (i + 1) - ResetAt(t)
               /\ i + 1 \in 2..L /\ page.queue[i + 1].kind = "append"
    <3>1. i \in ResetAt(t)..(L - 1)
      BY <1>1, <2>1, <2>2, <2>3 DEF Behind
    <3>2. i \in 1..(L - 1) /\ i + 1 \in (ResetAt(t) + 1)..L /\ i + 1 \in 2..L
          /\ i - (ResetAt(t) - 1) = (i + 1) - ResetAt(t) /\ i + 1 \in 1..L /\ i + 1 # ResetAt(t)
      BY <1>1, <2>1, <3>1
    <3>3. page.queue[i + 1].kind = "append"
      BY <1>0, <2>0, <3>2 DEF Shape
    <3> QED BY <1>1, <2>2, <3>2, <3>3 DEF Behind
  <2>4. ASSUME NEW e \in edits, e.epoch = t.epoch
        PROVE  \E i \in Behind(t)' : page'.queue[i].rec.id = e.id
    <3>1. PICK i \in Behind(t) : page.queue[i].rec.id = e.id
      BY <2>0, <2>4 DEF Copies
    <3>2. i \in (ResetAt(t) + 1)..L
      BY <3>1 DEF Behind
    <3>3. i - 1 \in 1..(L - 1) /\ i - 1 \in (ResetAt(t)' + 1)..(L - 1) /\ (i - 1) + 1 = i
      BY <1>1, <2>1, <2>2, <3>2
    <3>4. i - 1 \in Behind(t)' /\ page'.queue[i - 1] = page.queue[i]
      BY <1>1, <3>3 DEF Behind
    <3> QED BY <3>1, <3>4
  <2>5. ASSUME NEW i \in Behind(t)'
        PROVE  /\ page'.queue[i].fallback =
                      {[epoch |-> page'.epoch, seq |-> page'.seq + (i - ResetAt(t)'),
                        id |-> page'.queue[i].rec.id]}
               /\ page'.queue[i].fallback \subseteq emergency'
    <3>1. /\ page.queue[i + 1].fallback =
                {[epoch |-> page.epoch, seq |-> page.seq + ((i + 1) - ResetAt(t)),
                  id |-> page.queue[i + 1].rec.id]}
          /\ page.queue[i + 1].fallback \subseteq emergency
      BY <2>0, <2>3 DEF Copies
    <3> QED BY <2>0, <2>3, <3>1
  <2> QED BY <2>0, <2>4, <2>5 DEF Copies
<1> QED BY <1>3, <1>4, <1>5, <1>6 DEF QueueLogged

-----------------------------------------------------------------------------
(* The transactions on their way. *)

\* The page that has claimed the head fences off what older pages left.
LEMMA FencedOrphans ==
    ASSUME IInv, OrphansSound, page.phase # "none", UNCHANGED <<orphans, loads>>,
           disk' # EmptyHead => disk'.writer = loads
    PROVE  OrphansSound'
<1>1. ASSUME NEW tx \in orphans PROVE tx.writer # loads
  <2>1. tx \in Txs /\ loads \in Nat /\ tx.writer < loads
    BY Naturals DEF IInv, Safe, Typed, Fence
  <2>2. tx.writer \in 1..loads
    BY <2>1, TxTyped
  <2> QED BY <2>1, <2>2
<1>2. \A tx \in orphans : ~ Live(tx)'
  BY <1>1 DEF Live
<1> QED BY <1>2 DEF OrphansSound, Harmless

\* Nothing but the page has moved.
LEMMA QuietSound ==
    ASSUME DiskSound, OrphansSound, UNCHANGED <<disk, emergency, edits>>
    PROVE  /\ DiskSound' /\ \A tx \in orphans : Harmless(tx)'
           /\ orphans' = orphans => OrphansSound'
<1>1. /\ DiskSound' /\ \A cp : Covers(cp)' = Covers(cp)
      /\ \A h : Sound(h)' = Sound(h)
  BY StillSound
<1>2. /\ \A tx : Live(tx)' = Live(tx)
      /\ Applicable(disk)' = Applicable(disk)
      /\ \A e, cp : Compactable(e, cp)' = Compactable(e, cp)
  BY <1>1 DEF Live, Applicable, Compactable
<1>3. \A tx \in orphans : Harmless(tx)'
  BY <1>1, <1>2 DEF OrphansSound, Harmless, OpOf
<1> QED BY <1>1, <1>3 DEF OrphansSound

\* A compaction stays sound when the head grows in its epoch or leaves it.
LEMMA CarriedCompacting ==
    ASSUME Typed, Compacting, page'.compaction = page.compaction, loads' = loads,
           disk # EmptyHead =>
               /\ disk' # EmptyHead /\ disk'.writer = disk.writer
               /\ \/ disk.epoch < disk'.epoch /\ disk'.epoch \in Nat
                  \/ /\ disk'.epoch = disk.epoch /\ disk'.cp = disk.cp
                     /\ disk.journal \subseteq disk'.journal
                     /\ \A cp : cp.seq \in Nat /\ Covers(cp) => Covers(cp)'
    PROVE  Compacting'
<1>1. ASSUME NEW c \in page.compaction
      PROVE  /\ c.step = "loaded" => c.head.epoch \in Nat
             /\ c.step = "write" => c.epoch \in Nat /\ c.cp.seq \in Nat
             /\ disk.epoch \in Nat
  <2>1. c \in Loaded \cup Writes
    BY <1>1, OneMember DEF Typed, Pages
  <2>2. Seen \subseteq Nat /\ Count \in Nat
    BY Naturals DEF Typed, Seen
  <2>3. disk \in Heads
    BY <1>1 DEF Compacting, Typed
  <2>4. disk.epoch \in Nat
    BY <2>2, <2>3 DEF Heads
  <2>5. c.step = "loaded" => c.head.epoch \in Nat
    <3>1. c.step = "loaded" => c.head \in Heads
      BY <2>1 DEF Loaded, Writes
    <3> QED BY <2>2, <3>1 DEF Heads
  <2>6. c.step = "write" => c.epoch \in Nat /\ c.cp.seq \in Nat
    <3>1. c.step = "write" => c.epoch \in Seen /\ c.cp \in Checkpoints
      BY <2>1 DEF Loaded, Writes
    <3>2. \A x \in Checkpoints : x.seq \in Nat
      BY <2>2 DEF Checkpoints
    <3> QED BY <2>2, <3>1, <3>2
  <2> QED BY <2>4, <2>5, <2>6
<1>2. ASSUME NEW c \in page.compaction
      PROVE  /\ disk' # EmptyHead /\ disk'.writer = loads
             /\ c.step = "loaded" =>
                   /\ c.head.epoch <= disk'.epoch
                   /\ c.head.epoch = disk'.epoch =>
                         c.head.cp = disk'.cp /\ c.head.journal \subseteq disk'.journal
             /\ c.step = "write" => Compactable(c.epoch, c.cp)'
  <2>1. /\ disk # EmptyHead /\ disk.writer = loads
        /\ c.step = "loaded" =>
              /\ c.head.epoch <= disk.epoch
              /\ c.head.epoch = disk.epoch =>
                    c.head.cp = disk.cp /\ c.head.journal \subseteq disk.journal
        /\ c.step = "write" => Compactable(c.epoch, c.cp)
    BY DEF Compacting
  <2>2. CASE disk.epoch < disk'.epoch /\ disk'.epoch \in Nat
    BY <1>1, <2>1, <2>2 DEF Compactable
  <2>3. CASE /\ disk'.epoch = disk.epoch /\ disk'.cp = disk.cp
             /\ disk.journal \subseteq disk'.journal
             /\ \A cp : cp.seq \in Nat /\ Covers(cp) => Covers(cp)'
    BY <1>1, <2>1, <2>3 DEF Compactable
  <2> QED BY <2>1, <2>2, <2>3
<1> QED BY <1>2 DEF Compacting

LEMMA QuietCompacting ==
    ASSUME Typed, Compacting, page'.compaction = page.compaction, loads' = loads,
           UNCHANGED <<disk, emergency, edits>>
    PROVE  Compacting'
<1>1. \A cp : Covers(cp)' = Covers(cp)
  BY StillSound
<1> QED BY <1>1, CarriedCompacting

\* A replay of an earlier look covers what it takes the place of.
LEMMA ReplayCovers ==
    ASSUME Typed, disk \in Heads, HeadOk, Sound(disk), NEW h \in Heads, Recoverable(h),
           h.epoch = disk.epoch, h.cp = disk.cp, h.journal \subseteq disk.journal
    PROVE  Covers([seq |-> RecoveredSeq(h), state |-> RecoveredState(h)])
<1> DEFINE cp == [seq |-> RecoveredSeq(h), state |-> RecoveredState(h)]
<1>1. ReplayOps(h) \subseteq ReplayOps(disk)
  BY DEF ReplayOps, Applicable
<1>2. RecoveredSeq(h) \in Nat /\ h.cp.seq \in Nat /\ disk.cp.seq \in Nat
  BY ReplayTyped, OpsTyped
<1>3. Contained(disk, cp)
  <2>1. ASSUME NEW op \in ReplayOps(disk), op.seq <= RecoveredSeq(h)
        PROVE  op.id \in RecoveredState(h)
    <3>1. CASE op.seq <= disk.cp.seq
      <4>1. op.id \in disk.cp.state
        BY <3>1 DEF Sound, Contained
      <4> QED BY <4>1, InRecovered
    <3>2. CASE op.seq > disk.cp.seq
      <4>1. op.seq \in (h.cp.seq + 1)..RecoveredSeq(h)
        BY <1>2, <2>1, <3>2, OpsTyped
      <4>2. PICK s \in Replayed(h) : s.seq = op.seq
        BY <4>1 DEF Recoverable
      <4>3. s \in ReplayOps(h) /\ s.seq > h.cp.seq /\ s \in ReplayOps(disk)
        BY <1>1, <4>2 DEF Replayed
      <4>4. s.id = op.id
        BY <4>2, <4>3, OneForOne DEF Sound
      <4> QED BY <4>3, <4>4, InRecovered
    <3> QED BY <1>2, <3>1, <3>2, OpsTyped
  <2> QED BY <2>1 DEF Contained
<1>4. disk.cp.state \subseteq cp.state
  BY DEF RecoveredState
<1>5. cp.seq <= disk.seq \/ \E op \in ReplayOps(disk) : cp.seq <= op.seq
  <2>1. CASE RecoveredSeq(h) <= h.cp.seq
    BY <1>2, <2>1, OpsTyped DEF HeadOk, ReplayOk
  <2>2. CASE RecoveredSeq(h) > h.cp.seq
    <3>1. RecoveredSeq(h) \in (h.cp.seq + 1)..RecoveredSeq(h)
      BY <1>2, <2>2
    <3>2. PICK s \in Replayed(h) : s.seq = RecoveredSeq(h)
      BY <3>1 DEF Recoverable
    <3>3. s \in ReplayOps(disk) /\ RecoveredSeq(h) <= s.seq
      BY <1>1, <1>2, <3>2 DEF Replayed
    <3> QED BY <3>3
  <2> QED BY <1>2, <2>1, <2>2
<1> QED BY <1>3, <1>4, <1>5 DEF Covers

-----------------------------------------------------------------------------
(* Step by step: the moves of the page. *)

LEMMA LoadDurable == ASSUME IInv, IInv', Durable, Load PROVE Durable'
<1>1. /\ UNCHANGED <<disk, emergency, orphans, edits>>
      /\ page'.phase = "load" /\ page'.compaction = {}
  BY DEF Load, NoPage
<1>2. QueueLogged'
  BY <1>1, AwayLogged DEF IInv, Safe
<1>3. Compacting'
  BY <1>1 DEF Compacting
<1> QED BY <1>1, <1>2, <1>3, QuietSound DEF Durable

LEMMA OpenDurable ==
    ASSUME IInv, IInv', Durable, Recover \/ OpenLoad \/ OpenReload \/ OpenDrainAbort
    PROVE  Durable'
<1>1. /\ UNCHANGED <<disk, emergency, orphans, edits, loads>>
      /\ page'.phase # "ready" /\ page'.compaction = page.compaction
  <2>1. page \in Pages
    BY DEF IInv, Typed
  <2>2. CASE Recover
    BY <2>1, <2>2 DEF Recover, Pages
  <2>3. CASE OpenLoad
    BY <2>1, <2>3 DEF OpenLoad, Pages
  <2>4. CASE OpenReload
    BY <2>1, <2>4 DEF OpenReload, Pages
  <2>5. CASE OpenDrainAbort
    BY <2>1, <2>5 DEF OpenDrainAbort, Pages
  <2> QED BY <2>2, <2>3, <2>4, <2>5
<1>2. QueueLogged'
  BY <1>1, AwayLogged DEF IInv, Safe
<1>3. Compacting'
  BY <1>1, QuietCompacting DEF IInv, Durable
<1> QED BY <1>1, <1>2, <1>3, QuietSound DEF Durable

\* The queue and its place are what they were.
LEMMA SameLogged ==
    ASSUME QueueLogged, page'.queue = page.queue, page'.transition = page.transition,
           page'.epoch = page.epoch, page'.seq = page.seq,
           disk'.epoch = disk.epoch, disk'.seq = disk.seq,
           UNCHANGED <<emergency, edits, epochs>>
    PROVE  QueueLogged'
<1>1. EntriesLogged' /\ EditsInOrder'
  BY DEF QueueLogged, EntriesLogged, EditsInOrder
<1>2. FrontWritten'
  BY DEF QueueLogged, FrontWritten, Job
<1>3. ASSUME NEW t \in page.transition PROVE Copies(t)'
  BY <1>3 DEF QueueLogged, Copies, Behind, ResetAt
<1> QED BY <1>1, <1>2, <1>3 DEF QueueLogged

LEMMA CompactLoadDurable == ASSUME IInv, IInv', Durable, CompactLoad PROVE Durable'
<1> DEFINE c == [step |-> "loaded", head |-> disk]
<1>0. Typed /\ Fence /\ page \in Pages
  BY DEF IInv, Safe, Typed
<1>1. /\ UNCHANGED <<disk, emergency, orphans, edits, epochs, loads>>
      /\ page' = [page EXCEPT !.compaction = {c}] /\ page.phase = "ready"
  BY DEF CompactLoad, Writable
<1>2. /\ page'.queue = page.queue /\ page'.transition = page.transition
      /\ page'.epoch = page.epoch /\ page'.seq = page.seq /\ page'.compaction = {c}
  BY <1>0, <1>1 DEF Pages
<1>3. QueueLogged'
  BY <1>1, <1>2, SameLogged DEF Durable
<1>4. disk \in Heads /\ disk.writer = loads /\ disk # EmptyHead
  BY <1>0, <1>1, HeadIsNotEmpty DEF Fence, Owning, Typed
<1>5. disk.epoch <= disk.epoch
  <2>1. disk.epoch \in Seen /\ \A n \in Seen : n <= n
    BY <1>4 DEF Heads, Seen
  <2> QED BY <2>1
<1>6. c.step = "loaded" /\ c.head = disk
  OBVIOUS
<1> HIDE DEF c
<1>7. Compacting'
  BY <1>1, <1>2, <1>4, <1>5, <1>6 DEF Compacting
<1> QED BY <1>1, <1>3, <1>7, QuietSound DEF Durable

LEMMA CompactReplayDurable == ASSUME IInv, IInv', Durable, CompactReplay PROVE Durable'
<1>0. Typed /\ page \in Pages /\ HeadOk
  BY DEF IInv, Safe, Typed
<1>1. PICK c \in page.compaction :
          /\ c.step = "loaded"
          /\ page' = [page EXCEPT !.compaction =
                IF Recoverable(c.head)
                THEN {[step |-> "write", epoch |-> c.head.epoch,
                       cp |-> [seq |-> RecoveredSeq(c.head),
                               state |-> RecoveredState(c.head)]]}
                ELSE {}]
  BY DEF CompactReplay
<1>2. UNCHANGED <<disk, emergency, orphans, edits, epochs, loads>>
  BY DEF CompactReplay
<1> DEFINE cp == [seq |-> RecoveredSeq(c.head), state |-> RecoveredState(c.head)]
           w == [step |-> "write", epoch |-> c.head.epoch, cp |-> cp]
<1>3. /\ page'.queue = page.queue /\ page'.transition = page.transition
      /\ page'.epoch = page.epoch /\ page'.seq = page.seq
      /\ page'.compaction = IF Recoverable(c.head) THEN {w} ELSE {}
  BY <1>0, <1>1 DEF Pages
<1>4. QueueLogged'
  BY <1>2, <1>3, SameLogged DEF Durable
<1>5. c.head \in Heads
  BY <1>0, <1>1, OneMember DEF Pages, Loaded, Writes
<1>6. /\ disk # EmptyHead /\ disk.writer = loads
      /\ c.head.epoch <= disk.epoch
      /\ c.head.epoch = disk.epoch => c.head.cp = disk.cp /\ c.head.journal \subseteq disk.journal
  BY <1>1 DEF Durable, Compacting
<1>7. Recoverable(c.head) => Compactable(c.head.epoch, cp)
  <2>1. disk \in Heads /\ Sound(disk)
    BY <1>0, <1>6 DEF Typed, Durable, DiskSound
  <2> QED BY <1>0, <1>5, <1>6, <2>1, ReplayCovers DEF Compactable
<1>8. w.step = "write" /\ w.epoch = c.head.epoch /\ w.cp = cp
  OBVIOUS
<1> HIDE DEF w, cp
<1>9. \A e, x : Compactable(e, x)' = Compactable(e, x)
  BY <1>2, StillSound DEF Compactable
<1>10. Compacting'
  BY <1>2, <1>3, <1>6, <1>7, <1>8, <1>9 DEF Compacting
<1> QED BY <1>2, <1>4, <1>10, QuietSound DEF Durable

LEMMA RestoreDurable == ASSUME IInv, IInv', Durable, Restore PROVE Durable'
<1> DEFINE j == ResetJob(epochs + 1)
           L == Len(page.queue)
<1> PICK t : t = [epoch |-> epochs + 1, seq |-> 0,
                  fallbackEpoch |-> page.epoch, fallbackSeq |-> page.seq]
  OBVIOUS
<1>0. /\ Typed /\ page \in Pages /\ QueueLogged /\ Compacting
      /\ epochs \in Nat /\ epochs' = epochs + 1
      /\ page' = [page EXCEPT !.transition = {t}, !.queue = Append(page.queue, j)]
      /\ UNCHANGED <<disk, emergency, orphans, edits, loads>>
  BY Naturals DEF IInv, Typed, Durable, Restore
<1>1. t.epoch = epochs + 1 /\ t.seq = 0 /\ t.fallbackSeq = page.seq /\ j.kind = "reset"
  BY DEF ResetJob
<1> HIDE DEF j
<1>2. /\ page'.queue = Append(page.queue, j) /\ page'.transition = {t}
      /\ page'.epoch = page.epoch /\ page'.seq = page.seq
      /\ page'.compaction = page.compaction
  BY <1>0 DEF Pages
<1>3. /\ L \in Nat /\ Len(page'.queue) = L + 1
      /\ \A i \in 1..L : page'.queue[i] = page.queue[i]
      /\ page'.queue[L + 1] = j
      /\ page.queue # <<>> => Job' = Job
      /\ page.queue = <<>> => Job' = j
  BY <1>0, <1>2, QueueAppend
<1> HIDE DEF L
<1>4. \A i \in 1..(L + 1) : i \in 1..L \/ i = L + 1
  BY <1>3
<1>5. EntriesLogged' /\ EditsInOrder'
  <2>1. \A i \in 1..(L + 1) : page'.queue[i].kind = "append" =>
            i \in 1..L /\ page.queue[i].kind = "append" /\ page'.queue[i] = page.queue[i]
    BY <1>1, <1>3, <1>4
  <2>2. EntriesLogged'
    BY <1>0, <1>3, <2>1 DEF QueueLogged, EntriesLogged, L
  <2>3. EditsInOrder'
    BY <1>0, <1>3, <2>1 DEF QueueLogged, EditsInOrder, L
  <2> QED BY <2>2, <2>3
<1>6. FrontWritten'
  BY <1>0, <1>1, <1>3 DEF QueueLogged, FrontWritten
<1>7. Copies(t)'
  <2>1. ResetAt(t)' = L + 1
    <3>1. (L + 1) - 0 = L + 1
      BY <1>3
    <3> QED BY <1>1, <1>3, <3>1 DEF ResetAt
  <2>2. Behind(t)' = {}
    <3>1. ((L + 1) + 1)..(L + 1) = {}
      BY <1>3
    <3> QED BY <1>3, <2>1, <3>1 DEF Behind
  <2>3. \A e \in edits : e.epoch # t.epoch
    <3>1. \A e \in edits : e.epoch \in Seen
      BY <1>0 DEF Typed, Edits
    <3>2. epochs + 1 \notin Seen
      BY <1>0 DEF Seen
    <3> QED BY <1>1, <3>1, <3>2
  <2>4. t.fallbackSeq = page'.seq + t.seq
    <3>1. page.seq \in Nat
      BY <1>0, Naturals DEF Typed, Pages
    <3> QED BY <1>1, <1>2, <3>1
  <2> QED BY <1>0, <1>1, <2>2, <2>3, <2>4 DEF Copies
<1>8. QueueLogged'
  BY <1>2, <1>5, <1>6, <1>7 DEF QueueLogged
<1>9. Compacting'
  BY <1>0, <1>2, QuietCompacting
<1> QED BY <1>0, <1>8, <1>9, QuietSound DEF Durable

-----------------------------------------------------------------------------
(* Step by step: open() and the first install. *)

\* A compaction whose head has only grown in place, or has a new epoch.
LEMMA ClaimDurable == ASSUME IInv, IInv', Durable, OpenClaim PROVE Durable'
<1>0. /\ Typed /\ Typed' /\ page \in Pages /\ Shape' /\ OrphansSound /\ Compacting
  BY DEF IInv, Safe, Typed, Durable
<1>1. /\ UNCHANGED <<emergency, orphans, edits, epochs, loads>>
      /\ page.phase = "claim" /\ page'.phase # "ready" /\ page'.compaction = page.compaction
      /\ disk' = disk \/ (ClaimOk(disk, page.epoch) /\ disk' = Claim(disk, loads)
                            /\ page'.phase = "reload")
  BY <1>0 DEF OpenClaim, Pages
<1>2. QueueLogged'
  BY <1>0, <1>1, AwayLogged
<1>3. CASE disk' = disk
  BY <1>0, <1>1, <1>2, <1>3, QuietSound, QuietCompacting DEF Durable
<1>4. CASE ClaimOk(disk, page.epoch) /\ disk' = Claim(disk, loads)
  <2>1. disk \in Heads
    <3>1. page.epoch \in Seen
      BY <1>1 DEF IInv, Safe, Fence, Opened
    <3> QED BY <1>0, <1>4, <3>1, DiskIsHead, Naturals DEF Typed, ClaimOk
  <2>2. /\ disk'.epoch = disk.epoch /\ disk'.cp = disk.cp /\ disk'.journal = disk.journal
        /\ disk'.seq = disk.seq /\ disk'.writer = loads
    BY <1>4, <2>1 DEF Claim, Heads
  <2>3. Grows
    <3>1. disk.seq \in Nat /\ disk.seq <= disk.seq /\ disk.journal \subseteq ReplayOps(disk)
      BY <1>0, <2>1, OpsTyped DEF ReplayOps
    <3> QED BY <1>1, <2>2, <3>1 DEF Grows
  <2>4. Sound(disk)' /\ \A cp : cp.seq \in Nat /\ Covers(cp) => Covers(cp)'
    <3>1. disk # EmptyHead /\ Sound(disk)
      BY <1>0, <2>1, HeadIsNotEmpty DEF Durable, DiskSound, Typed
    <3> QED BY <1>0, <2>1, <2>3, <3>1, GrowsSound
  <2>5. disk' # EmptyHead
    BY <1>0, <2>1, <2>2, HeadIsNotEmpty DEF EmptyHead, Typed
  <2>6. OrphansSound'
    BY <1>0, <1>1, <2>2, FencedOrphans
  <2>7. Compacting'
    <3>1. \A c \in page.compaction : disk.writer = loads
      BY <1>0 DEF Compacting
    <3>2. CASE page.compaction = {}
      BY <1>1, <3>2 DEF Compacting
    <3>3. CASE page.compaction # {}
      BY <1>0, <1>1, <2>2, <2>4, <2>5, <3>1, <3>3, CarriedCompacting
    <3> QED BY <3>2, <3>3
  <2> QED BY <1>2, <2>4, <2>6, <2>7 DEF Durable, DiskSound
<1> QED BY <1>1, <1>3, <1>4

LEMMA DrainDurable == ASSUME IInv, IInv', Durable, OpenDrain PROVE Durable'
<1> DEFINE rec == CHOOSE r \in page.drain : \A s \in page.drain : r.seq <= s.seq
<1>0. /\ Typed /\ Typed' /\ page \in Pages /\ Shape' /\ OrphansSound /\ Compacting
      /\ Fence /\ HeadOk /\ page.phase = "drain" /\ page.drain = Applicable(disk)
      /\ disk \in Heads /\ disk.writer = loads /\ disk # EmptyHead /\ Sound(disk)
  <2>1. disk \in Heads /\ disk.writer = loads
    BY DEF IInv, Safe, Fence, Owning, OpenDrain
  <2> QED BY <2>1, HeadIsNotEmpty DEF IInv, Safe, Typed, Durable, DiskSound, Draining, OpenDrain
<1>1. rec \in page.drain /\ rec \in Records
  BY <1>0, FirstToDrain DEF OpenDrain
<1>2. \/ /\ rec.seq > disk.seq /\ AppendOk(disk, page.epoch, loads, OpOf(rec))
         /\ disk' = AppendOp(disk, OpOf(rec)) /\ UNCHANGED <<emergency, page>>
      \/ /\ rec.seq <= disk.seq /\ emergency' = emergency \ {rec}
         /\ page' = [page EXCEPT !.drain = @ \ {rec}, !.pending = @ \ {Key(rec)}]
         /\ UNCHANGED disk
  BY DEF OpenDrain
<1> HIDE DEF rec
<1>3. UNCHANGED <<orphans, edits, epochs, loads>>
  BY DEF OpenDrain
<1>4. page'.phase = "drain" /\ page'.compaction = page.compaction
  BY <1>0, <1>2 DEF Pages
<1>5. /\ Sound(disk)' /\ \A cp : cp.seq \in Nat /\ Covers(cp) => Covers(cp)'
      /\ disk'.epoch = disk.epoch /\ disk'.cp = disk.cp /\ disk.journal \subseteq disk'.journal
      /\ disk'.writer = disk.writer /\ disk' # EmptyHead
  <2>1. CASE disk' = AppendOp(disk, OpOf(rec)) /\ UNCHANGED <<emergency, page>>
                /\ AppendOk(disk, page.epoch, loads, OpOf(rec))
    <3>1. /\ OpOf(rec) \in ReplayOps(disk) /\ disk.seq \in Nat
          /\ disk.journal \subseteq ReplayOps(disk)
      BY <1>0, <1>1, OpsTyped
    <3>2. /\ disk'.epoch = disk.epoch /\ disk'.cp = disk.cp /\ disk'.writer = disk.writer
          /\ disk'.journal = disk.journal \cup {OpOf(rec)}
          /\ disk'.seq = disk.seq \/ disk'.seq = disk.seq + 1
      BY <1>0, <2>1 DEF AppendOp, AppendOk, Heads
    <3>3. Grows
      BY <1>3, <2>1, <3>1, <3>2 DEF Grows
    <3>4. disk' # EmptyHead
      BY <1>0, <3>2, HeadIsNotEmpty DEF EmptyHead, Typed
    <3> QED BY <1>0, <3>2, <3>3, <3>4, GrowsSound
  <2>2. CASE rec.seq <= disk.seq /\ emergency' = emergency \ {rec} /\ UNCHANGED disk
    <3>1. Shrinks
      BY <1>3, <2>2 DEF Shrinks
    <3> QED BY <1>0, <2>2, <3>1, ShrinksSound
  <2> QED BY <1>2, <2>1, <2>2
<1>6. QueueLogged'
  BY <1>0, <1>4, AwayLogged
<1>7. OrphansSound'
  BY <1>0, <1>3, <1>5, FencedOrphans
<1>8. Compacting'
  BY <1>0, <1>3, <1>4, <1>5, CarriedCompacting
<1> QED BY <1>5, <1>6, <1>7, <1>8 DEF Durable, DiskSound

LEMMA DoneDurable == ASSUME IInv, IInv', Durable, OpenDone PROVE Durable'
<1>0. /\ Typed /\ page \in Pages /\ Shape' /\ Shape /\ OrphansSound /\ Compacting
      /\ Fence /\ HeadOk /\ page.phase = "drain" /\ Applicable(disk) = {}
      /\ disk \in Heads /\ disk.writer = loads /\ disk # EmptyHead /\ Sound(disk)
  <2>1. disk \in Heads /\ disk.writer = loads
    BY DEF IInv, Safe, Fence, Owning, OpenDone
  <2> QED BY <2>1, HeadIsNotEmpty DEF IInv, Safe, Typed, Durable, DiskSound, Draining, OpenDone
<1>1. /\ UNCHANGED <<disk, orphans, edits, epochs, loads>>
      /\ emergency' = {rec \in emergency : rec.epoch = page.epoch}
      /\ page'.compaction = page.compaction /\ page'.queue = page.queue
      /\ page'.transition = page.transition
  BY <1>0 DEF OpenDone, Pages
<1>2. Shrinks
  BY <1>0, <1>1 DEF Shrinks, Applicable
<1>3. Sound(disk)' /\ \A cp : cp.seq \in Nat /\ Covers(cp) => Covers(cp)'
  BY <1>0, <1>2, ShrinksSound
<1>4. QueueLogged'
  <2>1. page'.queue = <<>> /\ page'.transition = {}
    BY <1>0, <1>1 DEF Shape
  <2> QED BY <1>0, <2>1, AwayLogged
<1>5. OrphansSound'
  BY <1>0, <1>1, FencedOrphans
<1>6. Compacting'
  BY <1>0, <1>1, <1>3, CarriedCompacting
<1> QED BY <1>3, <1>4, <1>5, <1>6 DEF Durable, DiskSound

LEMMA ProvisionDurable == ASSUME IInv, IInv', Durable, Provision PROVE Durable'
<1>0. /\ Typed /\ Typed' /\ Shape' /\ page.phase = "load" /\ epochs \in Nat
      /\ disk = EmptyHead /\ emergency = {} /\ orphans = {} /\ edits = {}
      /\ page = [NoPage EXCEPT !.phase = "load"]
  <2>1. disk = EmptyHead
    <3>1. disk.epoch = NoEpoch /\ Typed
      BY DEF Provision, InstallOk, IInv
    <3> QED BY <3>1, HeadIsNotEmpty DEF Typed
  <2>2. page \in {NoPage, [NoPage EXCEPT !.phase = "load"]} /\ page.phase = "load"
    BY <2>1 DEF IInv, Safe, Untouched, Provision
  <2> QED BY <2>1, <2>2, NoPageIs, Naturals DEF IInv, Safe, Untouched, Typed, Provision
<1>1. /\ UNCHANGED <<emergency, orphans, edits, loads>>
      /\ disk' = FreshHead(epochs + 1, loads, {}, {})
      /\ page'.compaction = {} /\ page'.queue = <<>> /\ page'.transition = {}
  BY <1>0 DEF Provision, Install, NoPage
<1>2. QueueLogged'
  BY <1>0, <1>1, AwayLogged
<1>3. Compacting' /\ OrphansSound'
  BY <1>0, <1>1 DEF Compacting, OrphansSound
<1>4. ReplayOps(disk)' = {} /\ Applicable(disk)' = {}
  BY <1>0, <1>1 DEF ReplayOps, Applicable, FreshHead
<1>5. Sound(disk)'
  <2>1. Ordered(disk)' /\ Gapless(disk)' /\ Contained(disk, disk.cp)'
    BY <1>4 DEF Ordered, Gapless, Contained
  <2>2. Kept(disk)'
    BY <1>0, <1>1 DEF Kept
  <2> QED BY <2>1, <2>2 DEF Sound
<1> QED BY <1>2, <1>3, <1>5 DEF Durable, DiskSound

-----------------------------------------------------------------------------
(* Step by step: the queue. *)

LEMMA BecomesSound ==
    ASSUME UNCHANGED <<emergency, edits>>, NEW h, Sound(h), disk' = h
    PROVE  Sound(disk)'
<1>1. Applicable(disk)' = Applicable(h) /\ ReplayOps(disk)' = ReplayOps(h)
  BY DEF Applicable, ReplayOps, OpOf
<1>2. RecoveredState(disk)' = RecoveredState(h)
  BY <1>1 DEF RecoveredState, Replayed
<1> QED BY <1>1, <1>2 DEF Sound, Ordered, Gapless, Contained, Kept

\* A committed job keeps its place until it is settled.
LEMMA CommitLogged ==
    ASSUME IInv, JobCommit, QueueLogged, FrontWritten'
    PROVE  QueueLogged'
<1>0. Typed /\ Shape /\ page \in Pages /\ page.queue # <<>>
  BY DEF IInv, Safe, Typed, JobCommit
<1>1. /\ page'.queue = [page.queue EXCEPT ![1].committed = TRUE]
      /\ page'.transition = page.transition /\ page'.epoch = page.epoch /\ page'.seq = page.seq
      /\ UNCHANGED <<emergency, edits, epochs>>
  BY <1>0 DEF JobCommit, Pages
<1>2. /\ Len(page.queue) \in Nat \ {0} /\ Len(page'.queue) = Len(page.queue)
      /\ \A i \in 2..Len(page.queue) : page'.queue[i] = page.queue[i]
      /\ page'.queue[1] = [Job EXCEPT !.committed = TRUE]
      /\ Job \in Jobs /\ Job = page.queue[1]
  BY <1>0, <1>1, QueueCommit, HeadJob
<1>3. ASSUME NEW i \in 1..Len(page.queue)
      PROVE  /\ page'.queue[i].kind = page.queue[i].kind
             /\ page.queue[i].kind = "append" =>
                   /\ page'.queue[i].rec = page.queue[i].rec
                   /\ page'.queue[i].fallback = page.queue[i].fallback
  <2>1. CASE i = 1
    <3>1. page'.queue[i] = [Job EXCEPT !.committed = TRUE] /\ page.queue[i] = Job
      BY <1>2, <2>1
    <3>2. CASE Job \in Appends
      BY <3>1, <3>2 DEF Appends
    <3>3. CASE Job \in Resets
      BY <3>1, <3>3 DEF Resets
    <3> QED BY <1>2, <3>2, <3>3 DEF Jobs
  <2>2. CASE i # 1
    <3>1. i \in 2..Len(page.queue)
      BY <1>2, <2>2
    <3> QED BY <1>2, <3>1
  <2> QED BY <2>1, <2>2
<1>4. ASSUME NEW t \in page.transition
      PROVE  /\ ResetAt(t) \in Nat
             /\ \A i \in 1..Len(page.queue) : i > ResetAt(t) => page.queue[i].kind = "append"
  <2>1. ResetAt(t) \in 1..Len(page.queue)
    BY <1>0, Moving
  <2>2. \A i \in 1..Len(page.queue) : i > ResetAt(t) => i # ResetAt(t)
    BY <1>2, <2>1
  <2> QED BY <1>0, <1>2, <2>1, <2>2 DEF Shape
<1> QED BY <1>1, <1>2, <1>3, <1>4, StayLogged

LEMMA CommitDurable == ASSUME IInv, IInv', Durable, JobCommit PROVE Durable'
<1>0. /\ Typed /\ Typed' /\ page \in Pages /\ Shape /\ LogOwned /\ OrphansSound /\ Compacting
      /\ QueueLogged /\ HeadOk /\ page.queue # <<>> /\ page.phase = "ready" /\ ~Job.committed
      /\ disk \in Heads /\ disk.writer = loads /\ disk.epoch = page.epoch /\ disk # EmptyHead
      /\ Sound(disk)
  <2>1. page.queue # <<>> /\ page.phase = "ready" /\ ~Job.committed
    BY DEF IInv, Safe, Shape, JobCommit
  <2>2. disk \in Heads /\ disk.writer = loads /\ disk.epoch = page.epoch
    BY <2>1 DEF IInv, Safe, Fence, Owning, ResetCommitted
  <2> QED BY <2>1, <2>2, HeadIsNotEmpty DEF IInv, Safe, Typed, Durable, DiskSound
<1>1. /\ UNCHANGED <<emergency, orphans, edits, epochs, loads>>
      /\ page'.queue = [page.queue EXCEPT ![1].committed = TRUE]
      /\ page'.compaction = page.compaction
  BY <1>0 DEF JobCommit, Pages
<1>2. /\ Job' = [Job EXCEPT !.committed = TRUE] /\ Job \in Jobs
      /\ 1 \in 1..Len(page.queue) /\ Job = page.queue[1]
  BY <1>0, <1>1, QueueCommit, HeadJob
<1>3. CASE Job.kind = "append"
  <2>1. /\ Job.rec \in Records /\ Job.rec \in emergency
        /\ Job'.rec = Job.rec /\ Job.rec.seq \in Nat
    <3>1. Job \in Appends
      BY <1>2, <1>3, JobTyped
    <3>2. Job.rec \in Records /\ Job'.rec = Job.rec
      BY <1>2, <3>1 DEF Appends
    <3> QED BY <1>0, <1>2, <1>3, <3>2, QueueTyped DEF QueueLogged, EntriesLogged
  <2>2. AppendOk(disk, Job.rec.epoch, loads, OpOf(Job.rec))
        /\ disk' = AppendOp(disk, OpOf(Job.rec))
    BY <1>3 DEF JobCommit, JobOk
  <2>3. Job.rec.epoch = disk.epoch /\ Job.rec \in Applicable(disk)
    BY <2>1, <2>2 DEF AppendOk, Fenced, Applicable
  <2>4. /\ OpOf(Job.rec) \in ReplayOps(disk) /\ disk.seq \in Nat
        /\ disk.journal \subseteq ReplayOps(disk) /\ OpOf(Job.rec).seq = Job.rec.seq
    BY <1>0, <2>3, OpsTyped
  <2>5. /\ disk'.epoch = disk.epoch /\ disk'.cp = disk.cp /\ disk'.writer = disk.writer
        /\ disk'.journal = disk.journal \cup {OpOf(Job.rec)}
        /\ \/ disk'.seq = disk.seq /\ OpOf(Job.rec) \in disk.journal
           \/ disk'.seq = disk.seq + 1 /\ Job.rec.seq = disk.seq + 1
    BY <1>0, <2>2, <2>4 DEF AppendOp, AppendOk, Heads
  <2>6. Grows
    BY <1>1, <2>4, <2>5 DEF Grows
  <2>7. disk' # EmptyHead
    BY <1>0, <2>5, HeadIsNotEmpty DEF EmptyHead, Typed
  <2>8. Sound(disk)' /\ \A cp : cp.seq \in Nat /\ Covers(cp) => Covers(cp)'
    BY <1>0, <2>6, GrowsSound
  <2>9. Job.rec.seq <= disk'.seq
    <3>1. OpOf(Job.rec) \in disk.journal => Job.rec.seq <= disk.seq
      BY <1>0, <2>1, <2>4 DEF HeadOk, JournalKeysOk
    <3> QED BY <2>1, <2>4, <2>5, <3>1
  <2>10. FrontWritten'
    BY <2>1, <2>3, <2>5, <2>9 DEF FrontWritten
  <2>11. QueueLogged'
    BY <1>0, <2>10, CommitLogged
  <2>12. OrphansSound'
    BY <1>0, <1>1, <2>5, FencedOrphans
  <2>13. Compacting'
    BY <1>0, <1>1, <2>5, <2>7, <2>8, CarriedCompacting
  <2> QED BY <2>8, <2>11, <2>12, <2>13 DEF Durable, DiskSound
<1>4. CASE Job.kind = "reset"
  <2>1. PICK t \in page.transition : Job.epoch = t.epoch /\ page.epoch < t.epoch /\ t.epoch \in Seen
    <3>1. PICK t \in Transitions : page.transition = {t} /\ Job.epoch = t.epoch
                                   /\ page.epoch < t.epoch
      BY <1>0, <1>4, HeadReset
    <3> QED BY <3>1 DEF Transitions
  <2> PICK h : h = FreshHead(t.epoch, loads, {}, {})
    OBVIOUS
  <2>2. disk' = h
    BY <1>4, <2>1 DEF JobCommit, ResetState
  <2>3. h.epoch = t.epoch /\ h.writer = loads
    BY DEF FreshHead
  <2>4. Sound(h)
    BY <1>0, FreshSound
  <2>5. Sound(disk)'
    BY <1>1, <2>2, <2>4, BecomesSound
  <2>6. Job'.kind = "reset"
    <3>1. Job \in Resets
      BY <1>2, <1>4, JobTyped
    <3> QED BY <1>2, <3>1 DEF Resets
  <2>7. QueueLogged'
    BY <1>0, <2>6, CommitLogged DEF FrontWritten
  <2>8. OrphansSound'
    BY <1>0, <1>1, <2>2, <2>3, FencedOrphans
  <2>9. t.epoch \in Nat /\ disk' # EmptyHead
    <3>1. t.epoch \in Nat /\ t.epoch # NoEpoch
      BY <1>0, <2>1, Naturals DEF Seen, Typed
    <3> QED BY <2>2, <2>3, <3>1 DEF EmptyHead
  <2>10. Compacting'
    BY <1>0, <1>1, <2>1, <2>2, <2>3, <2>9, CarriedCompacting
  <2> QED BY <2>5, <2>7, <2>8, <2>10 DEF Durable, DiskSound
<1> QED BY <1>2, <1>3, <1>4, JobTyped

\* A job that throws leaves its entries in the log.
LEMMA FailDurable == ASSUME IInv, IInv', Durable, JobFails PROVE Durable'
<1>0. /\ Typed /\ page \in Pages /\ Shape /\ Compacting /\ QueueLogged
      /\ page.queue # <<>> /\ Job \in Jobs /\ Len(page.queue) \in Nat
  BY HeadJob DEF IInv, Safe, Typed, Durable, JobFails
<1>1. /\ UNCHANGED <<disk, emergency, orphans, edits, epochs, loads>>
      /\ page'.queue = Tail(page.queue) /\ page'.compaction = page.compaction
      /\ page'.transition = {} \/ /\ page'.transition = page.transition
                                  /\ page'.epoch = page.epoch /\ page'.seq = page.seq
                                  /\ Job.kind = "append"
  <2>1. CASE Job.kind = "append"
    BY <1>0, <2>1 DEF JobFails, QueueAfterFailure, Pages
  <2>2. CASE Job.kind = "reset"
    BY <1>0, <2>2 DEF JobFails, QueueAfterFailure, Pages
  <2> QED BY <1>0, <2>1, <2>2, JobTyped
<1>2. ASSUME NEW i \in 2..Len(page.queue), page.queue[i].kind = "append"
      PROVE  page.queue[i].rec \in emergency
  <2>1. i \in 1..Len(page.queue)
    BY <1>0
  <2> QED BY <1>0, <1>2, <2>1 DEF QueueLogged, EntriesLogged
<1>3. QueueLogged'
  BY <1>0, <1>1, <1>2, TailLogged
<1>4. Compacting'
  BY <1>0, <1>1, QuietCompacting
<1> QED BY <1>1, <1>3, <1>4, QuietSound DEF Durable

LEMMA AppendSettledDurable == ASSUME IInv, IInv', Durable, AppendSettled PROVE Durable'
<1> DEFINE copies == {Job.rec} \cup Job.fallback
<1>0. /\ Typed /\ page \in Pages /\ Shape /\ OrphansSound /\ Compacting
      /\ QueueLogged /\ HeadOk /\ page.queue # <<>> /\ page.phase = "ready"
      /\ Job.kind = "append" /\ Job.committed
      /\ disk \in Heads /\ disk.writer = loads /\ disk # EmptyHead /\ Sound(disk)
  <2>1. page.queue # <<>> /\ page.phase = "ready"
    BY DEF IInv, Safe, Shape, AppendSettled
  <2>2. disk \in Heads /\ disk.writer = loads
    BY <2>1 DEF IInv, Safe, Fence, Owning
  <2> QED BY <2>1, <2>2, HeadIsNotEmpty DEF IInv, Safe, Typed, Durable, DiskSound, AppendSettled
<1>1. /\ UNCHANGED <<disk, orphans, edits, epochs, loads>>
      /\ emergency' = emergency \ copies
      /\ page'.queue = Tail(page.queue) /\ page'.compaction = page.compaction
      /\ page'.transition = page.transition /\ page'.epoch = page.epoch /\ page'.seq = page.seq
  BY <1>0 DEF AppendSettled, Pages
<1>2. /\ Len(page.queue) \in Nat /\ 1 \in 1..Len(page.queue) /\ Job = page.queue[1]
  BY <1>0, HeadJob
<1>3. /\ Job.rec.id \in Nat /\ Job.rec.epoch \in Nat
      /\ \A c \in copies : c.id = Job.rec.id
      /\ \A f \in Job.fallback : f.epoch < Job.rec.epoch
      /\ Job.rec.epoch = disk.epoch /\ Job.rec.seq <= disk.seq
  <2>1. Job.rec.id \in Nat /\ Job.rec.epoch \in Seen
    BY <1>0, <1>2, QueueTyped
  <2>2. Job.rec.epoch \in Nat
    BY <1>0, <2>1, Naturals DEF Seen, Typed
  <2>3. \A f \in Job.fallback : f.epoch < Job.rec.epoch /\ f.id = Job.rec.id
    BY <1>0, <1>2 DEF QueueLogged, EntriesLogged
  <2>4. Job.rec.epoch = disk.epoch /\ Job.rec.seq <= disk.seq
    BY <1>0 DEF QueueLogged, FrontWritten
  <2> QED BY <2>1, <2>2, <2>3, <2>4
<1>4. Shrinks
  <2>1. ASSUME NEW rec \in emergency, rec.epoch = disk.epoch, rec \in copies
        PROVE  rec = Job.rec
    BY <1>3, <2>1
  <2> QED BY <1>1, <1>3, <2>1 DEF Shrinks
<1>5. Sound(disk)' /\ \A cp : cp.seq \in Nat /\ Covers(cp) => Covers(cp)'
  BY <1>0, <1>4, ShrinksSound
<1>6. ASSUME NEW i \in 2..Len(page.queue), page.queue[i].kind = "append"
      PROVE  /\ page.queue[i].rec \in emergency'
             /\ (page.queue[i].fallback \cap emergency) \subseteq emergency'
  <2>1. i \in 1..Len(page.queue) /\ 1 < i
    BY <1>2
  <2>2. Job.rec.id < page.queue[i].rec.id
    BY <1>0, <1>2, <1>6, <2>1 DEF QueueLogged, EditsInOrder
  <2>3. page.queue[i].rec.id # Job.rec.id
    BY <1>3, <2>2
  <2>4. /\ page.queue[i].rec \in emergency
        /\ \A f \in page.queue[i].fallback : f.id = page.queue[i].rec.id
    BY <1>0, <1>6, <2>1 DEF QueueLogged, EntriesLogged
  <2> HIDE DEF copies
  <2> QED BY <1>1, <1>3, <2>3, <2>4
<1>7. QueueLogged'
  <2>1. IInv /\ Job.kind = "append"
    BY <1>0
  <2> HIDE DEF copies
  <2> QED BY <1>0, <1>1, <1>6, <2>1, TailLogged
<1>8. OrphansSound'
  BY <1>0, <1>1, FencedOrphans
<1>9. Compacting'
  BY <1>0, <1>1, <1>5, CarriedCompacting
<1> QED BY <1>5, <1>7, <1>8, <1>9 DEF Durable, DiskSound

LEMMA ResetSettledDurable == ASSUME IInv, IInv', Durable, ResetSettled PROVE Durable'
<1>0. /\ Typed /\ page \in Pages /\ Shape /\ OrphansSound /\ Compacting
      /\ QueueLogged /\ HeadOk /\ page.queue # <<>> /\ page.phase = "ready"
      /\ Job.kind = "reset" /\ Job.committed
      /\ disk \in Heads /\ disk.writer = loads /\ disk.epoch = Job.epoch
      /\ disk # EmptyHead /\ Sound(disk)
  <2>1. page.queue # <<>> /\ page.phase = "ready" /\ Job.kind = "reset" /\ Job.committed
    BY DEF IInv, Safe, Shape, ResetSettled
  <2>2. disk \in Heads /\ disk.writer = loads /\ disk.epoch = Job.epoch
    BY <2>1 DEF IInv, Safe, Fence, Owning, ResetCommitted
  <2> QED BY <2>1, <2>2, HeadIsNotEmpty DEF IInv, Safe, Typed, Durable, DiskSound
<1>1. /\ UNCHANGED <<disk, orphans, edits, epochs, loads>>
      /\ emergency' = {rec \in emergency : rec.epoch = Job.epoch}
      /\ page'.queue = Tail(page.queue) /\ page'.compaction = page.compaction
      /\ page'.transition = {}
  BY <1>0 DEF ResetSettled, Pages
<1>2. Shrinks
  BY <1>0, <1>1 DEF Shrinks
<1>3. Sound(disk)' /\ \A cp : cp.seq \in Nat /\ Covers(cp) => Covers(cp)'
  BY <1>0, <1>2, ShrinksSound
<1>4. ASSUME NEW i \in 2..Len(page.queue), page.queue[i].kind = "append"
      PROVE  page.queue[i].rec \in emergency'
  <2>1. PICK t \in Transitions : /\ page.transition = {t} /\ ResetAt(t) = 1
                                 /\ Job.epoch = t.epoch
    BY <1>0, HeadReset
  <2>2. i \in 1..Len(page.queue) /\ i > ResetAt(t)
    BY <2>1
  <2>3. page.queue[i].rec.epoch = t.epoch
    BY <1>0, <2>1, <2>2 DEF Shape
  <2>4. page.queue[i].rec \in emergency
    BY <1>0, <1>4, <2>2 DEF QueueLogged, EntriesLogged
  <2> QED BY <1>1, <2>1, <2>3, <2>4
<1>5. QueueLogged'
  BY <1>0, <1>1, <1>4, TailLogged
<1>6. OrphansSound'
  BY <1>0, <1>1, FencedOrphans
<1>7. Compacting'
  BY <1>0, <1>1, <1>3, CarriedCompacting
<1> QED BY <1>3, <1>5, <1>6, <1>7 DEF Durable, DiskSound

-----------------------------------------------------------------------------
(* Step by step: an edit, as long as the log has room for it. *)

LEMMA JoinLogged ==
    ASSUME IInv, Edit, QueueLogged, NEW j, page'.queue = Append(page.queue, j),
           j.kind = "append", j.committed = FALSE,
           emergency \subseteq emergency', j.rec \in emergency', j.rec.id = Count + 1,
           \A f \in j.fallback : f.epoch < j.rec.epoch /\ f.id = j.rec.id
    PROVE  EntriesLogged' /\ EditsInOrder' /\ FrontWritten'
<1> DEFINE L == Len(page.queue)
<1>1. /\ Typed /\ disk' = disk /\ L \in Nat /\ Len(page'.queue) = L + 1
      /\ \A i \in 1..L : page'.queue[i] = page.queue[i]
      /\ page'.queue[L + 1] = j
  BY EditJoins
<1>2. /\ page.queue # <<>> => Job' = Job
      /\ page.queue = <<>> => Job' = j
  BY <1>1, QueueAppend
<1>3. \A i \in 1..L : page.queue[i].kind = "append" =>
          page.queue[i].rec.id \in Nat /\ page.queue[i].rec.id < Count + 1
  <2>1. Count \in Nat
    BY <1>1, Naturals DEF Typed
  <2>2. \A n \in Nat : n <= Count => n < Count + 1
    BY <2>1
  <2> QED BY <1>1, <2>2, QueueTyped
<1> HIDE DEF L
<1>4. \A i \in 1..(L + 1) : i \in 1..L \/ i = L + 1
  BY <1>1
<1>5. EntriesLogged'
  <2>1. \A i \in 1..L : page.queue[i].kind = "append" =>
            /\ page.queue[i].rec \in emergency'
            /\ \A f \in page.queue[i].fallback :
                  f.epoch < page.queue[i].rec.epoch /\ f.id = page.queue[i].rec.id
    BY DEF QueueLogged, EntriesLogged, L
  <2> QED BY <1>1, <1>4, <2>1 DEF EntriesLogged
<1>6. EditsInOrder'
  <2>1. ASSUME NEW i \in 1..(L + 1), NEW k \in 1..(L + 1), i < k,
               page'.queue[i].kind = "append", page'.queue[k].kind = "append"
        PROVE  page'.queue[i].rec.id < page'.queue[k].rec.id
    <3>1. i \in 1..L
      BY <1>1, <2>1
    <3>2. CASE k \in 1..L
      BY <1>1, <2>1, <3>1, <3>2 DEF QueueLogged, EditsInOrder, L
    <3>3. CASE k = L + 1
      BY <1>1, <1>3, <2>1, <3>1, <3>3
    <3> QED BY <1>4, <3>2, <3>3
  <2> QED BY <1>1, <2>1 DEF EditsInOrder
<1>7. FrontWritten'
  <2>1. page.queue = <<>> => ~ Job'.committed
    BY <1>2
  <2> QED BY <1>1, <1>2, <2>1 DEF QueueLogged, FrontWritten
<1> QED BY <1>5, <1>6, <1>7

\* What holds of the head and of those who write to it.
LEMMA JoinDurable ==
    ASSUME IInv, Edit, Durable, QueueLogged', page'.compaction = page.compaction,
           NEW top, NEW rec, disk \in Heads, Reaches(top), Joins(top, rec)
    PROVE  Durable'
<1>0. /\ Typed /\ HeadOk /\ Sound(disk) /\ OrphansSound /\ Compacting
      /\ page.phase = "ready" /\ disk.writer = loads /\ disk # EmptyHead
      /\ UNCHANGED <<disk, orphans, loads>>
  <2>1. disk # EmptyHead
    BY HeadIsNotEmpty DEF IInv, Typed
  <2> QED BY <2>1 DEF IInv, Safe, Durable, DiskSound, Edit, Writable, Fence, Owning
<1>1. Sound(disk)' /\ \A cp : cp.seq \in Nat /\ Covers(cp) => Covers(cp)'
  BY <1>0, JoinsSound
<1>2. OrphansSound'
  BY <1>0, FencedOrphans
<1>3. Compacting'
  BY <1>0, <1>1, CarriedCompacting
<1> QED BY <1>1, <1>2, <1>3 DEF Durable, DiskSound

LEMMA PlainEditDurable ==
    ASSUME IInv, IInv', Durable, Edit, AllDurable', page.transition = {}
    PROVE  Durable'
<1> PICK rec : rec = Entry(page.epoch, page.seq + 1)
  OBVIOUS
<1>0. /\ Typed /\ page \in Pages /\ QueueLogged /\ Writable
      /\ UNCHANGED <<disk, orphans, epochs, loads>>
  BY DEF IInv, Typed, Durable, Edit
<1>1. PICK durable \in BOOLEAN, u \in Int : \E keys : PlainEdited(durable, keys, u)
  BY <1>0, PlainEdit
<1> PICK e : e = [id |-> Count + 1, epoch |-> page.epoch, durable |-> durable]
  OBVIOUS
<1>2. PICK keys :
        /\ Logged({rec}, keys) /\ (durable => rec \in emergency')
        /\ edits' = edits \cup {e}
        /\ page' = [page EXCEPT
              !.pending = keys, !.seq = page.seq + 1, !.transition = page.transition,
              !.queue = Append(page.queue, AppendJob(rec, {}, durable, page.epoch)),
              !.undurable = u]
  BY <1>1 DEF PlainEdited
<1> PICK j : j = AppendJob(rec, {}, durable, page.epoch)
  OBVIOUS
<1>3. /\ j.kind = "append" /\ j.committed = FALSE /\ j.rec = rec /\ j.fallback = {}
      /\ rec.epoch = page.epoch /\ rec.seq = page.seq + 1 /\ rec.id = Count + 1
      /\ e.id = Count + 1
  BY DEF AppendJob, Entry
<1>4. /\ page'.queue = Append(page.queue, j) /\ page'.transition = {}
      /\ page'.compaction = page.compaction
  BY <1>0, <1>2 DEF Pages
<1>5. durable
  <2>1. e \in edits'
    BY <1>2
  <2>2. e.durable = durable
    OBVIOUS
  <2> QED BY <2>1, <2>2 DEF AllDurable
<1>6. emergency \subseteq emergency' /\ emergency' = emergency \cup {rec}
  BY <1>2, <1>5 DEF Logged
<1>7. Reaches(page.seq) /\ disk \in Heads /\ disk.epoch = page.epoch
  BY <1>0, PlainReaches
<1>8. Joins(page.seq, rec)
  <2>1. Applicable(disk)' = Applicable(disk) \cup {rec}
    BY <1>0, <1>3, <1>6, <1>7 DEF Applicable
  <2> QED BY <1>0, <1>2, <1>3, <1>6, <2>1 DEF Joins
<1>9. QueueLogged'
  <2>1. EntriesLogged' /\ EditsInOrder' /\ FrontWritten'
    BY <1>0, <1>3, <1>4, <1>6, JoinLogged
  <2> QED BY <1>4, <2>1 DEF QueueLogged
<1>10. PICK top : top = page.seq
  OBVIOUS
<1> QED BY <1>4, <1>7, <1>8, <1>9, <1>10, JoinDurable

\* During a transition the edit continues the lines of both epochs.
LEMMA MovingEditDurable ==
    ASSUME IInv, IInv', Durable, Edit, AllDurable', NEW t \in page.transition
    PROVE  Durable'
<1> PICK rec : rec = Entry(t.epoch, t.seq + 1)
  OBVIOUS
<1> PICK old : old = Entry(t.fallbackEpoch, t.fallbackSeq + 1)
  OBVIOUS
<1> PICK s : s = [t EXCEPT !.seq = t.seq + 1, !.fallbackSeq = @ + 1]
  OBVIOUS
<1>0. /\ Typed /\ Shape /\ page \in Pages /\ QueueLogged /\ Writable
      /\ UNCHANGED <<disk, orphans, epochs, loads>>
  BY DEF IInv, Safe, Typed, Durable, Edit
<1>1. PICK durable \in BOOLEAN, u \in Int : \E keys : MovingEdited(t, durable, keys, u)
  BY <1>0, MovingEdit
<1> PICK e : e = [id |-> Count + 1, epoch |-> t.epoch, durable |-> durable]
  OBVIOUS
<1> PICK j : j = AppendJob(rec, {old}, durable, page.epoch)
  OBVIOUS
<1>2. PICK keys :
        /\ Logged({old, rec}, keys) /\ (durable => {old, rec} \subseteq emergency')
        /\ edits' = edits \cup {e}
        /\ page' = [page EXCEPT
              !.pending = keys, !.seq = page.seq, !.transition = {s},
              !.queue = Append(page.queue, j), !.undurable = u]
  BY <1>1 DEF MovingEdited
<1>3. /\ t \in Transitions /\ t.seq \in Nat /\ ResetAt(t) \in 1..Len(page.queue)
      /\ Copies(t) /\ page.epoch < t.epoch /\ t.fallbackEpoch = page.epoch
      /\ t.fallbackSeq = page.seq + t.seq /\ page.seq \in Nat
  <2>1. /\ t \in Transitions /\ t.seq \in Nat /\ ResetAt(t) \in 1..Len(page.queue)
    BY <1>0, Moving
  <2>2. Copies(t)
    BY <1>0 DEF QueueLogged
  <2>3. page.seq \in Nat
    BY <1>0, Naturals DEF Typed, Pages
  <2> QED BY <1>0, <2>1, <2>2, <2>3 DEF Copies, Shape
<1>4. /\ j.kind = "append" /\ j.committed = FALSE /\ j.rec = rec /\ j.fallback = {old}
      /\ rec.epoch = t.epoch /\ rec.seq = t.seq + 1 /\ rec.id = Count + 1
      /\ old = [epoch |-> page.epoch, seq |-> t.fallbackSeq + 1, id |-> Count + 1]
      /\ old.epoch = page.epoch /\ old.seq = t.fallbackSeq + 1 /\ old.id = Count + 1
      /\ e.id = Count + 1 /\ e.epoch = t.epoch
  BY <1>3 DEF AppendJob, Entry
<1>5. /\ s.epoch = t.epoch /\ s.seq = t.seq + 1 /\ s.fallbackSeq = t.fallbackSeq + 1
  BY <1>3 DEF Transitions
<1>6. /\ page'.queue = Append(page.queue, j) /\ page'.transition = {s}
      /\ page'.compaction = page.compaction /\ page'.epoch = page.epoch /\ page'.seq = page.seq
  BY <1>0, <1>2 DEF Pages
<1>7. durable
  <2>1. e \in edits'
    BY <1>2
  <2>2. e.durable = durable
    OBVIOUS
  <2> QED BY <2>1, <2>2 DEF AllDurable
<1>8. emergency \subseteq emergency' /\ emergency' = emergency \cup {old, rec}
  BY <1>2, <1>7 DEF Logged
<1>9. /\ ResetCommitted => Reaches(t.seq) /\ disk.epoch = t.epoch
      /\ ~ResetCommitted => Reaches(t.fallbackSeq) /\ disk.epoch = page.epoch
      /\ disk \in Heads
  BY <1>0, MovingReaches
<1>10. QueueLogged'
  <2>1. EntriesLogged' /\ EditsInOrder' /\ FrontWritten'
    <3>1. /\ emergency \subseteq emergency' /\ j.rec \in emergency' /\ j.rec.id = Count + 1
          /\ \A f \in j.fallback : f.epoch < j.rec.epoch /\ f.id = j.rec.id
      BY <1>3, <1>4, <1>8
    <3> QED BY <1>0, <1>4, <1>6, <3>1, JoinLogged
  <2>2. Copies(s)'
    <3> DEFINE L == Len(page.queue)
               m == ResetAt(t)
    <3>1. /\ L \in Nat /\ Len(page'.queue) = L + 1
          /\ \A i \in 1..L : page'.queue[i] = page.queue[i]
          /\ page'.queue[L + 1] = j
      BY <1>0, <1>6, QueueAppend
    <3>2. ResetAt(s)' = m /\ m \in 1..L /\ m = L - t.seq
      <4>1. m = L - t.seq /\ m \in 1..L
        BY <1>3 DEF ResetAt
      <4>2. (L + 1) - (t.seq + 1) = L - t.seq
        BY <1>3, <3>1
      <4>3. ResetAt(s)' = (L + 1) - (t.seq + 1)
        BY <1>5, <3>1 DEF ResetAt
      <4> QED BY <4>1, <4>2, <4>3
    <3>3. Behind(t) = (m + 1)..L /\ Behind(s)' = (m + 1)..(L + 1)
      BY <3>1, <3>2 DEF Behind
    <3> HIDE DEF L, m
    <3>4. \A i \in (m + 1)..(L + 1) : (i \in (m + 1)..L /\ i \in 1..L) \/ i = L + 1
      BY <3>1, <3>2
    <3>5. t.fallbackSeq + 1 = page.seq + ((L + 1) - m)
          /\ t.fallbackSeq + 1 = page.seq + (t.seq + 1)
      BY <1>3, <3>1, <3>2
    <3>6. ASSUME NEW i \in (m + 1)..(L + 1)
          PROVE  /\ page'.queue[i].fallback =
                       {[epoch |-> page.epoch, seq |-> page.seq + (i - m),
                         id |-> page'.queue[i].rec.id]}
                 /\ page'.queue[i].fallback \subseteq emergency'
      <4>1. CASE i \in (m + 1)..L /\ i \in 1..L
        <5>1. /\ page.queue[i].fallback =
                       {[epoch |-> page.epoch, seq |-> page.seq + (i - m),
                         id |-> page.queue[i].rec.id]}
              /\ page.queue[i].fallback \subseteq emergency
          BY <1>3, <3>3, <4>1 DEF Copies, m
        <5> QED BY <1>8, <3>1, <4>1, <5>1
      <4>2. CASE i = L + 1
        BY <1>4, <1>8, <3>1, <3>5, <4>2
      <4> QED BY <3>4, <4>1, <4>2
    <3>7. ASSUME NEW x \in edits', x.epoch = t.epoch
          PROVE  \E i \in (m + 1)..(L + 1) : page'.queue[i].rec.id = x.id
      <4>1. CASE x = e
        <5>1. L + 1 \in (m + 1)..(L + 1)
          BY <3>1, <3>2
        <5> QED BY <1>4, <3>1, <4>1, <5>1
      <4>2. CASE x \in edits
        <5>1. PICK i \in (m + 1)..L : page.queue[i].rec.id = x.id
          BY <1>3, <3>3, <3>7, <4>2 DEF Copies
        <5>2. i \in 1..L /\ i \in (m + 1)..(L + 1)
          BY <3>1, <3>2
        <5> QED BY <3>1, <5>1, <5>2
      <4> QED BY <1>2, <3>7, <4>1, <4>2
    <3>8. s.epoch = epochs' /\ s.fallbackSeq = page'.seq + s.seq
      BY <1>0, <1>3, <1>5, <1>6, <3>5 DEF Copies
    <3> QED BY <1>5, <1>6, <3>2, <3>3, <3>6, <3>7, <3>8 DEF Copies
  <2> QED BY <1>6, <2>1, <2>2 DEF QueueLogged
<1>11. t.epoch # page.epoch
  <2>1. t.epoch \in Nat
    <3>1. Seen \subseteq Nat
      BY <1>0, Naturals DEF Typed, Seen
    <3> QED BY <1>3, <3>1 DEF Transitions
  <2>2. \A n \in Nat : ~ (n < n)
    OBVIOUS
  <2> QED BY <1>3, <2>1, <2>2
<1>12. CASE ResetCommitted
  <2>1. Applicable(disk)' = Applicable(disk) \cup {rec}
    BY <1>0, <1>4, <1>8, <1>9, <1>11, <1>12 DEF Applicable
  <2>2. Joins(t.seq, rec)
    BY <1>0, <1>2, <1>4, <1>8, <2>1 DEF Joins
  <2> QED BY <1>6, <1>9, <1>10, <1>12, <2>2, JoinDurable
<1>13. CASE ~ResetCommitted
  <2>1. Applicable(disk)' = Applicable(disk) \cup {old}
    BY <1>0, <1>4, <1>8, <1>9, <1>11, <1>13 DEF Applicable
  <2>2. Joins(t.fallbackSeq, old)
    BY <1>0, <1>2, <1>4, <1>8, <2>1 DEF Joins
  <2> QED BY <1>6, <1>9, <1>10, <1>13, <2>2, JoinDurable
<1> QED BY <1>12, <1>13

-----------------------------------------------------------------------------
(* Step by step: compactions, and what a page leaves behind. *)

\* A page that is gone has no compaction.
Blank == page.phase = "none" => page.compaction = {}

LEMMA BlankNext == ASSUME IInv, Blank, [Next]_vars PROVE Blank'
<1>0. page \in Pages /\ Shape
  BY DEF IInv, Safe, Typed
<1>1. CASE UNCHANGED vars
  BY <1>1 DEF Blank, vars
<1>2. CASE Load \/ Disappear
  BY <1>2 DEF Load, Disappear, NoPage, Blank
<1>3. CASE Recover \/ OpenLoad \/ OpenClaim \/ OpenReload
  BY <1>0, <1>3 DEF Recover, OpenLoad, OpenClaim, OpenReload, Pages, Blank
<1>4. CASE OpenDrain \/ OpenDrainAbort \/ OpenDone \/ Provision
  BY <1>0, <1>4 DEF OpenDrain, OpenDrainAbort, OpenDone, Provision, Pages, Blank
<1>5. CASE Edit \/ Restore
  BY <1>0, <1>5 DEF Edit, Restore, Writable, Pages, Blank
<1>6. CASE JobCommit \/ AppendSettled \/ ResetSettled \/ JobFails
  <2>1. page.phase = "ready"
    BY <1>0, <1>6 DEF Shape, JobCommit, AppendSettled, ResetSettled, JobFails
  <2>2. page'.phase = page.phase
    BY <1>0, <1>6 DEF JobCommit, AppendSettled, ResetSettled, JobFails, Pages
  <2> QED BY <2>1, <2>2 DEF Blank
<1>7. CASE CompactLoad \/ CompactReplay \/ CompactWrite
  BY <1>0, <1>7 DEF CompactLoad, CompactReplay, CompactWrite, Writable, Pages, Blank
<1>8. CASE OrphanEnds
  BY <1>8 DEF OrphanEnds, Blank
<1> QED BY <1>1, <1>2, <1>3, <1>4, <1>5, <1>6, <1>7, <1>8 DEF Next

LEMMA CompactWriteDurable == ASSUME IInv, IInv', Blank, Durable, CompactWrite PROVE Durable'
<1>0. Typed /\ Typed' /\ page \in Pages /\ OrphansSound /\ QueueLogged /\ DiskSound
  BY DEF IInv, Typed, Durable
<1>1. PICK c \in page.compaction :
          /\ c.step = "write"
          /\ disk' = IF CompactOk(disk, c.epoch, loads, c.cp) THEN Compact(disk, c.cp)
                     ELSE disk
          /\ page' = [page EXCEPT !.compaction = {}]
  BY DEF CompactWrite
<1>2. /\ UNCHANGED <<emergency, orphans, edits, epochs, loads>>
      /\ page'.queue = page.queue /\ page'.transition = page.transition
      /\ page'.epoch = page.epoch /\ page'.seq = page.seq /\ page'.compaction = {}
      /\ page.phase # "none"
  BY <1>0, <1>1 DEF CompactWrite, Pages, Blank
<1>3. Compacting'
  BY <1>2 DEF Compacting
<1>4. CASE disk' = disk
  <2>1. QueueLogged'
    BY <1>0, <1>2, <1>4, SameLogged
  <2> QED BY <1>0, <1>2, <1>3, <1>4, <2>1, QuietSound DEF Durable
<1>5. CASE CompactOk(disk, c.epoch, loads, c.cp) /\ disk' = Compact(disk, c.cp)
  <2>1. /\ disk \in Heads /\ disk.writer = loads /\ disk.epoch = c.epoch
        /\ disk.cp.seq <= c.cp.seq /\ Sound(disk) /\ Covers(c.cp)
    BY <1>0, <1>1, <1>5 DEF Durable, Compacting, Compactable, DiskSound, Typed,
                            CompactOk, FullFence, Fenced
  <2>2. c.cp.seq \in Nat
    <3>1. c.cp \in Checkpoints
      BY <1>0, <1>1, OneMember DEF Pages, Loaded, Writes
    <3>2. \A x \in Checkpoints : x.seq \in Nat
      BY <1>0, Naturals DEF Checkpoints, Typed
    <3> QED BY <3>1, <3>2
  <2>3. disk'.epoch = disk.epoch /\ disk'.seq = disk.seq /\ disk'.writer = disk.writer
    BY <1>5, <2>1 DEF Compact, Heads
  <2>4. Sound(disk)'
    BY <1>0, <1>2, <1>5, <2>1, <2>2, CompactSound
  <2>5. QueueLogged'
    BY <1>0, <1>2, <2>3, SameLogged
  <2>6. OrphansSound'
    BY <1>0, <1>2, <2>1, <2>3, FencedOrphans
  <2> QED BY <1>3, <2>4, <2>5, <2>6 DEF Durable, DiskSound
<1> QED BY <1>1, <1>4, <1>5

\* What a page that goes leaves to the browser is one transaction of its queue
\* and one compaction, as harmless as they were in its hands.
LEMMA DisappearDurable == ASSUME IInv, IInv', Durable, Disappear PROVE Durable'
<1>0. /\ Typed /\ Shape /\ Shape' /\ Fence /\ LogOwned /\ page \in Pages /\ OrphansSound
      /\ Compacting /\ QueueLogged /\ DiskSound
  BY DEF IInv, Safe, Typed, Durable
<1>1. /\ UNCHANGED <<disk, emergency, edits, epochs, loads>>
      /\ orphans' = orphans \cup Issued /\ page' = NoPage
      /\ page'.phase = "none" /\ page'.compaction = {}
      /\ \A tx \in orphans : tx.writer # loads
  <2>1. ASSUME NEW tx \in orphans PROVE tx.writer # loads
    <3>1. tx \in Txs /\ loads \in Nat /\ tx.writer < loads
      BY <1>0, Naturals DEF Typed, Fence, Disappear
    <3>2. tx.writer \in 1..loads
      BY <3>1, TxTyped
    <3> QED BY <3>1, <3>2
  <2> QED BY <2>1 DEF Disappear, NoPage
<1>2. QueueLogged'
  BY <1>0, <1>1, AwayLogged
<1>3. Compacting'
  BY <1>1 DEF Compacting
<1>4. /\ DiskSound' /\ \A tx \in orphans : Harmless(tx)'
      /\ \A h : Sound(h)' = Sound(h)
      /\ \A e, cp : Compactable(e, cp)' = Compactable(e, cp)
  BY <1>0, <1>1, QuietSound, StillSound DEF Compactable
<1>5. ASSUME NEW tx \in Issued
      PROVE  /\ tx.writer = loads
             /\ tx.kind \in {"append", "reset", "compact"}
             /\ tx.kind = "append" =>
                   /\ page.queue # <<>> /\ Job.kind = "append"
                   /\ tx = [kind |-> "append", epoch |-> Job.rec.epoch, writer |-> loads,
                            op |-> OpOf(Job.rec)]
             /\ tx.kind = "reset" =>
                   /\ page.queue # <<>> /\ Job.kind = "reset"
                   /\ tx = [kind |-> "reset", epoch |-> page.epoch, writer |-> loads,
                            next |-> Job.epoch]
             /\ tx.kind = "compact" => \E c \in page.compaction :
                   /\ c.step = "write"
                   /\ tx = [kind |-> "compact", epoch |-> c.epoch, writer |-> loads,
                            cp |-> c.cp]
  BY IssuedTx
<1>6. ASSUME NEW tx \in Issued PROVE Harmless(tx)'
  <2>1. CASE tx.kind = "append"
    <3>1. /\ page.queue # <<>> /\ Job.kind = "append"
          /\ tx.epoch = Job.rec.epoch /\ tx.op = OpOf(Job.rec)
      BY <1>5, <2>1
    <3>2. 1 \in 1..Len(page.queue) /\ Job = page.queue[1]
      BY <1>0, <3>1, HeadJob
    <3>3. Job.rec \in emergency
      BY <1>0, <3>1, <3>2 DEF QueueLogged, EntriesLogged
    <3>4. PICK r : r = Job.rec
      OBVIOUS
    <3>5. tx.epoch = disk'.epoch => r \in Applicable(disk)' /\ OpOf(r) = tx.op
      BY <1>1, <3>1, <3>3, <3>4 DEF Applicable
    <3> QED BY <2>1, <3>5 DEF Harmless, OpOf
  <2>2. CASE tx.kind = "reset"
    <3>1. /\ page.queue # <<>> /\ Job.kind = "reset"
          /\ tx.next = Job.epoch
      BY <1>5, <2>2
    <3>2. PICK t \in page.transition : Job.epoch = t.epoch
      BY <1>0, <3>1, HeadReset
    <3>3. Sound(FreshHead(tx.next, tx.writer, {}, {}))
      BY <1>0, <3>1, <3>2, FreshSound
    <3> QED BY <1>4, <2>2, <3>3 DEF Harmless
  <2>3. CASE tx.kind = "compact"
    <3>1. PICK c \in page.compaction : c.step = "write" /\ tx.epoch = c.epoch /\ tx.cp = c.cp
      BY <1>5, <2>3
    <3>2. Compactable(tx.epoch, tx.cp)
      BY <1>0, <3>1 DEF Compacting
    <3> QED BY <1>4, <2>3, <3>2 DEF Harmless
  <2> QED BY <1>5, <2>1, <2>2, <2>3
<1>7. ASSUME NEW tx1 \in Issued, NEW tx2 \in Issued,
             tx1.kind = "compact" <=> tx2.kind = "compact"
      PROVE  tx1 = tx2
  <2>1. CASE tx1.kind = "compact"
    <3>1. PICK c \in page.compaction :
              tx1 = [kind |-> "compact", epoch |-> c.epoch, writer |-> loads, cp |-> c.cp]
      BY <1>5, <2>1
    <3>2. PICK d \in page.compaction :
              tx2 = [kind |-> "compact", epoch |-> d.epoch, writer |-> loads, cp |-> d.cp]
      BY <1>5, <1>7, <2>1
    <3>3. c = d
      BY <1>0 DEF Pages, AtMostOne
    <3> QED BY <3>1, <3>2, <3>3
  <2>2. CASE tx1.kind # "compact"
    <3>1. \/ tx1.kind = "append" /\ tx2.kind = "append"
          \/ tx1.kind = "reset" /\ tx2.kind = "reset"
      BY <1>5, <1>7, <2>2
    <3> QED BY <1>5, <3>1
  <2> QED BY <2>1, <2>2
<1>8. OrphansSound'
  <2>1. ASSUME NEW tx1 \in orphans', NEW tx2 \in orphans', tx1.writer = tx2.writer,
               tx1.kind = "compact" <=> tx2.kind = "compact"
        PROVE  tx1 = tx2
    <3>1. \/ tx1 \in orphans /\ tx2 \in orphans
          \/ tx1 \in Issued /\ tx2 \in Issued
      BY <1>1, <1>5, <2>1
    <3> QED BY <1>0, <1>7, <2>1, <3>1 DEF OrphansSound
  <2>2. \A tx \in orphans' : Harmless(tx)'
    BY <1>1, <1>4, <1>6
  <2> QED BY <2>1, <2>2 DEF OrphansSound
<1> QED BY <1>2, <1>3, <1>4, <1>8 DEF Durable

\* The head that an orphan may still change has no living writer.
LEMMA EndedAway ==
    ASSUME IInv, Shape', Blank, Compacting, NEW tx \in orphans, Ended(tx), tx.writer = disk.writer,
           disk \in Heads
    PROVE  QueueLogged' /\ Compacting'
<1>1. page.phase # "none" => tx.writer # loads
  <2>1. ASSUME page.phase # "none" PROVE tx.writer < loads /\ loads \in Nat /\ tx.writer \in 1..loads
    BY <2>1, TxTyped, Naturals DEF IInv, Safe, Typed, Fence
  <2> QED BY <2>1
<1>2. page' = page
  BY DEF Ended
<1>3. page.phase # "ready"
  BY <1>1 DEF IInv, Safe, Fence, Owning
<1>4. page.compaction = {}
  BY <1>1 DEF Compacting, Blank
<1> QED BY <1>2, <1>3, <1>4, AwayLogged DEF Compacting

LEMMA OrphanDurable ==
    ASSUME IInv, IInv', Blank, Durable, NEW tx \in orphans, Ended(tx)
    PROVE  Durable'
<1>0. /\ Typed /\ Typed' /\ Shape' /\ HeadOk /\ Fence /\ OrphansSound /\ Compacting
      /\ QueueLogged /\ DiskSound /\ tx \in Txs
      /\ orphans' = orphans \ {tx} /\ UNCHANGED <<emergency, page, edits, epochs, loads>>
  BY DEF IInv, Safe, Typed, Durable, Ended
<1>1. \A tx1, tx2 \in orphans' :
          tx1.writer = tx2.writer /\ (tx1.kind = "compact" <=> tx2.kind = "compact") => tx1 = tx2
  BY <1>0 DEF OrphansSound
<1>2. /\ \A h : Sound(h)' = Sound(h)
      /\ \A h, cp : Contained(h, cp)' = Contained(h, cp)
  BY <1>0, LastingSound
<1>3. CASE UNCHANGED disk
  <2>1. QueueLogged'
    BY <1>0, <1>3, SameLogged
  <2>2. Compacting'
    BY <1>0, <1>3, QuietCompacting
  <2>3. DiskSound' /\ \A o \in orphans : Harmless(o)'
    BY <1>0, <1>3, QuietSound
  <2>4. OrphansSound'
    BY <1>0, <1>1, <2>3 DEF OrphansSound
  <2> QED BY <2>1, <2>2, <2>3, <2>4 DEF Durable
\* What is left of the gone page's transactions is of the other sort.
<1>4. ASSUME NEW o \in orphans', o.writer = tx.writer
      PROVE  o \in orphans /\ ~ (o.kind = "compact" <=> tx.kind = "compact")
  <2>1. o \in orphans /\ o # tx
    BY <1>0
  <2> QED BY <1>4, <2>1, <1>0 DEF OrphansSound
<1>5. ASSUME disk \in Heads, disk.writer = tx.writer, disk.epoch = tx.epoch, Sound(disk)',
             disk' # EmptyHead, disk'.writer = disk.writer, \A o \in orphans' : Harmless(o)'
      PROVE  Durable'
  <2>1. QueueLogged' /\ Compacting'
    BY <1>0, <1>5, EndedAway
  <2> QED BY <1>1, <1>5, <2>1 DEF Durable, DiskSound, OrphansSound
<1>6. ASSUME disk.epoch = tx.epoch, disk.writer = tx.writer
      PROVE  /\ disk \in Heads /\ disk # EmptyHead /\ Sound(disk) /\ Live(tx) /\ Harmless(tx)
             /\ disk.seq \in Nat /\ disk.journal \subseteq ReplayOps(disk)
  <2>1. disk \in Heads
    BY <1>0, <1>6, TxTyped, DiskIsHead, Naturals DEF Typed
  <2>2. disk # EmptyHead
    BY <1>0, <2>1, HeadIsNotEmpty DEF Typed
  <2> QED BY <1>0, <1>6, <2>1, <2>2, OpsTyped DEF DiskSound, Live, OrphansSound
<1>7. CASE /\ tx.kind = "append" /\ AppendOk(disk, tx.epoch, tx.writer, tx.op)
           /\ disk' = AppendOp(disk, tx.op)
  <2>0. disk.epoch = tx.epoch /\ disk.writer = tx.writer
    BY <1>7 DEF AppendOk, Fenced
  <2>1. PICK rec \in Applicable(disk) : OpOf(rec) = tx.op
    BY <1>6, <1>7, <2>0 DEF Harmless
  <2>2. tx.op \in ReplayOps(disk)
    BY <2>1 DEF ReplayOps
  <2>3. /\ disk'.epoch = disk.epoch /\ disk'.cp = disk.cp /\ disk'.writer = disk.writer
        /\ disk'.journal = disk.journal \cup {tx.op}
        /\ disk'.seq = disk.seq \/ disk'.seq = disk.seq + 1
    BY <1>6, <1>7, <2>0 DEF AppendOp, AppendOk, Heads
  <2>4. Grows
    BY <1>0, <1>6, <2>0, <2>2, <2>3 DEF Grows
  <2>5. Sound(disk)' /\ \A cp : cp.seq \in Nat /\ Covers(cp) => Covers(cp)'
    BY <1>0, <1>6, <2>0, <2>4, GrowsSound
  <2>6. disk' # EmptyHead
    BY <1>0, <1>6, <2>0, <2>3, HeadIsNotEmpty DEF EmptyHead, Typed
  <2>7. ASSUME NEW o \in orphans' PROVE Harmless(o)'
    <3>1. ASSUME o.writer = tx.writer
          PROVE  o.kind = "compact" /\ Compactable(o.epoch, o.cp)'
      <4>1. o \in orphans /\ o.kind = "compact" /\ Live(o)
        BY <1>4, <1>6, <1>7, <2>0, <3>1 DEF Live
      <4>2. Compactable(o.epoch, o.cp)
        BY <1>0, <4>1 DEF OrphansSound, Harmless
      <4>3. o.cp.seq \in Nat
        <5>1. o.cp \in Checkpoints
          BY <1>0, <4>1, TxTyped DEF Typed, CompactTxs
        <5>2. \A x \in Checkpoints : x.seq \in Nat
          BY <1>0, Naturals DEF Checkpoints, Typed
        <5> QED BY <5>1, <5>2
      <4> QED BY <2>3, <2>5, <4>1, <4>2, <4>3 DEF Compactable
    <3> QED BY <2>0, <2>3, <3>1 DEF Harmless, Live
  <2> QED BY <1>5, <1>6, <2>0, <2>3, <2>5, <2>6, <2>7
<1>8. CASE /\ tx.kind = "reset" /\ ResetStateOk(disk, tx.epoch, tx.writer)
           /\ disk' = ResetState(tx.next, tx.writer, {})
  <2>0. disk.epoch = tx.epoch /\ disk.writer = tx.writer
    BY <1>8 DEF ResetStateOk, FullFence, Fenced
  <2> PICK h : h = FreshHead(tx.next, tx.writer, {}, {})
    OBVIOUS
  <2>1. disk' = h /\ h.epoch = tx.next /\ h.writer = tx.writer
    BY <1>8 DEF ResetState, FreshHead
  <2>2. Sound(h)
    BY <1>6, <1>8, <2>0 DEF Harmless
  <2>3. Sound(disk)'
    BY <1>0, <2>1, <2>2, BecomesSound
  <2>4. tx.epoch < tx.next /\ tx.epoch \in Nat /\ tx.next \in Nat /\ tx.next # NoEpoch
    <3>1. tx \in ResetTxs
      BY <1>0, <1>8, TxTyped
    <3>2. tx.epoch \in Seen /\ tx.next \in Seen
      BY <3>1 DEF ResetTxs
    <3> QED BY <1>0, <1>8, <3>2, Naturals DEF Fence, Typed, Seen
  <2>5. disk' # EmptyHead
    BY <2>1, <2>4 DEF EmptyHead
  <2>6. ASSUME NEW o \in orphans' PROVE Harmless(o)'
    <3>1. ASSUME o.writer = tx.writer
          PROVE  o.kind = "compact" /\ Compactable(o.epoch, o.cp)'
      <4>1. o \in orphans /\ o.kind = "compact" /\ Live(o)
        BY <1>4, <1>6, <1>8, <2>0, <3>1 DEF Live
      <4>2. o.epoch <= tx.epoch /\ o.epoch \in Nat
        <5>1. o.epoch \in Seen /\ epochs \in Nat
          BY <1>0, <4>1, TxTyped, Naturals DEF Typed
        <5> QED BY <1>0, <2>0, <4>1, <5>1 DEF OrphansSound, Harmless, Compactable, Seen
      <4>3. o.epoch <= disk'.epoch /\ o.epoch # disk'.epoch
        BY <2>1, <2>4, <4>2
      <4> QED BY <4>1, <4>3 DEF Compactable
    <3> QED BY <2>1, <3>1 DEF Harmless, Live
  <2> QED BY <1>5, <1>6, <2>0, <2>1, <2>3, <2>5, <2>6
<1>9. CASE /\ tx.kind = "compact" /\ CompactOk(disk, tx.epoch, tx.writer, tx.cp)
           /\ disk' = Compact(disk, tx.cp)
  <2>0. disk.epoch = tx.epoch /\ disk.writer = tx.writer /\ disk.cp.seq <= tx.cp.seq
    BY <1>9 DEF CompactOk, FullFence, Fenced
  <2>1. Covers(tx.cp)
    BY <1>6, <1>9, <2>0 DEF Harmless, Compactable
  <2>2. tx.cp.seq \in Nat
    <3>1. tx.cp \in Checkpoints
      BY <1>0, <1>9, TxTyped DEF CompactTxs
    <3>2. \A x \in Checkpoints : x.seq \in Nat
      BY <1>0, Naturals DEF Checkpoints, Typed
    <3> QED BY <3>1, <3>2
  <2>3. disk'.epoch = disk.epoch /\ disk'.writer = disk.writer
    BY <1>6, <1>9, <2>0 DEF Compact, Heads
  <2>4. Sound(disk)'
    BY <1>0, <1>6, <1>9, <2>0, <2>1, <2>2, CompactSound
  <2>5. disk' # EmptyHead
    BY <1>0, <1>6, <2>0, <2>3, HeadIsNotEmpty DEF EmptyHead, Typed
  <2>6. ASSUME NEW o \in orphans' PROVE Harmless(o)'
    <3>1. Applicable(disk)' = Applicable(disk)
      BY <1>0, <2>3 DEF Applicable
    <3>2. ASSUME o.writer = tx.writer
          PROVE  /\ o \in orphans /\ o.kind # "compact" /\ Live(o) /\ Harmless(o)
      <4>1. o \in orphans /\ o.kind # "compact" /\ Live(o)
        BY <1>4, <1>6, <1>9, <2>0, <3>2 DEF Live
      <4> QED BY <1>0, <4>1 DEF OrphansSound
    <3> QED BY <1>2, <2>0, <2>3, <3>1, <3>2 DEF Harmless, Live, OpOf
  <2> QED BY <1>5, <1>6, <2>0, <2>3, <2>4, <2>5, <2>6
<1> QED BY <1>3, <1>7, <1>8, <1>9 DEF Ended

-----------------------------------------------------------------------------
(* What a sound head is good for. *)

\* The replay is an interval that begins behind the checkpoint and reaches the
\* head's sequence.
LEMMA ReplayedInterval ==
    ASSUME Typed, disk \in Heads, HeadOk, Sound(disk)
    PROVE  \E top \in Nat :
              /\ disk.cp.seq <= top /\ disk.seq <= top
              /\ {op.seq : op \in Replayed(disk)} = (disk.cp.seq + 1)..top
<1> DEFINE S == {op.seq : op \in Replayed(disk)}
           low == disk.cp.seq
<1>1. /\ Count \in Nat /\ disk.seq \in Nat /\ low \in Nat /\ low <= disk.seq
      /\ \A n \in (low + 1)..disk.seq : \E op \in disk.journal : op.seq = n
      /\ \A op \in disk.journal : op.seq \in 1..disk.seq
  BY OpsTyped DEF HeadOk, ReplayOk, JournalKeysOk
<1>2. \A op \in ReplayOps(disk) : op.seq \in Nat /\ op.seq <= Count
  BY ReplayTyped, <1>1 DEF Operations, Numbers
<1>3. ASSUME NEW n PROVE n \in S <=> \E op \in ReplayOps(disk) : op.seq = n /\ op.seq > low
  BY DEF Replayed
<1> HIDE DEF S, low
<1>4. S \subseteq Nat /\ \A n \in S : n <= Count /\ low < n
  <2>1. ASSUME NEW n \in S PROVE n \in Nat /\ n <= Count /\ low < n
    <3>1. PICK op \in ReplayOps(disk) : op.seq = n /\ op.seq > low
      BY <1>3, <2>1
    <3> QED BY <1>1, <1>2, <3>1
  <2> QED BY <2>1
<1>5. (low + 1)..disk.seq \subseteq S
  <2>1. ASSUME NEW n \in (low + 1)..disk.seq PROVE n \in S
    <3>1. PICK op \in disk.journal : op.seq = n
      BY <1>1, <2>1
    <3>2. op \in ReplayOps(disk) /\ op.seq > low
      BY <1>1, <2>1, <3>1, OpsTyped
    <3> QED BY <1>3, <3>1, <3>2
  <2> QED BY <2>1
<1>6. CASE S = {}
  <2>1. disk.seq = low
    <3>1. disk.seq > low => disk.seq \in (low + 1)..disk.seq
      BY <1>1
    <3> QED BY <1>1, <1>5, <1>6, <3>1
  <2>2. (low + 1)..low = {}
    BY <1>1
  <2> QED BY <1>1, <1>6, <2>1, <2>2 DEF S, low
<1>7. CASE S # {}
  <2>1. PICK top \in S : \A n \in S : n <= top
    <3> DEFINE R == {[seq |-> Count - n] : n \in S}
    <3>1. R # {} /\ \A r \in R : r.seq \in Nat
      <4>1. \A c, n \in Nat : n <= c => c - n \in Nat
        OBVIOUS
      <4>2. \A n \in S : Count - n \in Nat
        BY <1>1, <1>4, <4>1
      <4>3. \A r \in R : r.seq \in Nat
        BY <4>2
      <4>4. PICK n : n \in S
        BY <1>7
      <4>5. [seq |-> Count - n] \in R
        BY <4>4
      <4> QED BY <4>3, <4>5
    <3>2. PICK r \in R : \A s \in R : r.seq <= s.seq
      BY <3>1, FirstRecord
    <3>3. PICK m \in S : r = [seq |-> Count - m]
      BY <3>2
    <3>4. ASSUME NEW n \in S PROVE n <= m
      <4>1. [seq |-> Count - n] \in R
        OBVIOUS
      <4>2. Count - m <= Count - n
        BY <3>2, <3>3, <4>1
      <4> QED BY <1>1, <1>4, <4>2
    <3> QED BY <3>4
  <2>2. top \in Nat /\ low < top
    BY <1>4
  <2>3. disk.seq <= top
    <3>1. disk.seq > low => disk.seq \in (low + 1)..disk.seq
      BY <1>1
    <3>2. disk.seq > low => disk.seq <= top
      BY <1>5, <2>1, <3>1
    <3> QED BY <1>1, <2>2, <3>2
  <2>4. ASSUME NEW n \in (low + 1)..top PROVE n \in S
    <3>1. CASE n <= disk.seq
      <4>1. n \in (low + 1)..disk.seq
        BY <1>1, <2>2, <2>4, <3>1
      <4> QED BY <1>5, <4>1
    <3>2. CASE n > disk.seq
      <4>1. PICK op \in ReplayOps(disk) : op.seq = top
        BY <1>3
      <4>2. top > disk.seq
        BY <1>1, <2>2, <2>4, <3>2
      <4>3. op \notin disk.journal
        BY <1>1, <2>2, <4>1, <4>2
      <4>4. PICK rec \in Applicable(disk) : op = OpOf(rec)
        BY <4>3, OpsTyped
      <4>5. rec.seq = top
        BY <4>1, <4>4, OpsTyped
      <4>6. n \in (disk.seq + 1)..rec.seq
        BY <1>1, <2>2, <2>4, <3>2, <4>5
      <4>7. PICK s \in Applicable(disk) : s.seq = n
        BY <4>6 DEF Sound, Gapless
      <4>8. OpOf(s) \in ReplayOps(disk) /\ OpOf(s).seq = n
        BY <4>7, OpsTyped
      <4>9. n > low
        BY <1>1, <2>4
      <4> QED BY <1>3, <4>8, <4>9
    <3> QED BY <1>1, <2>2, <2>4, <3>1, <3>2
  <2>5. ASSUME NEW n \in S PROVE n \in (low + 1)..top
    BY <1>1, <1>4, <2>1, <2>2, <2>5
  <2>6. S = (low + 1)..top /\ low <= top
    <3>1. S = (low + 1)..top
      BY <2>4, <2>5
    <3> QED BY <1>1, <2>2, <3>1
  <2> QED BY <2>2, <2>3, <2>6 DEF S, low
<1> QED BY <1>6, <1>7

LEMMA SoundIsRecoverable ==
    ASSUME Typed, disk \in Heads, HeadOk, Sound(disk)
    PROVE  Recoverable(disk)
<1> DEFINE low == disk.cp.seq
<1>1. PICK top \in Nat :
          /\ low <= top /\ disk.seq <= top
          /\ {op.seq : op \in Replayed(disk)} = (low + 1)..top
  BY ReplayedInterval
<1>2. /\ ReplayOps(disk) \subseteq Operations /\ Replayed(disk) \subseteq ReplayOps(disk)
      /\ IsFiniteSet(Replayed(disk)) /\ low \in Nat /\ disk.seq \in Nat
  BY ReplayTyped, OpsTyped
<1>3. ASSUME NEW op1 \in ReplayOps(disk), NEW op2 \in ReplayOps(disk),
             op1.seq = op2.seq \/ op1.id = op2.id
      PROVE  op1 = op2
  <2>1. op1.seq = op2.seq /\ op1.id = op2.id
    BY <1>3, OneForOne DEF Sound
  <2>2. op1 \in Operations /\ op2 \in Operations
    BY <1>2
  <2> QED BY <2>1, <2>2 DEF Operations
<1> HIDE DEF low
<1>4. Cardinality(Replayed(disk)) = top - low
  <2> DEFINE f == [op \in Replayed(disk) |-> op.seq]
             T == (low + 1)..top
  <2>1. f \in Bijection(Replayed(disk), T)
    <3>1. f \in [Replayed(disk) -> T]
      BY <1>1
    <3>2. \A a, b \in Replayed(disk) : f[a] = f[b] => a = b
      BY <1>2, <1>3
    <3>3. \A n \in T : \E op \in Replayed(disk) : f[op] = n
      BY <1>1
    <3> HIDE DEF f, T
    <3> QED BY <3>1, <3>2, <3>3 DEF Bijection, Injection, Surjection, IsInjective
  <2>2. Cardinality(Replayed(disk)) = Cardinality(T)
    BY <1>2, <2>1, FS_Bijection DEF ExistsBijection
  <2>3. Cardinality(T) = top - low
    <3>1. low + 1 \in Int /\ top \in Int
      BY <1>2
    <3>2. Cardinality(T) = IF low + 1 > top THEN 0 ELSE top - (low + 1) + 1
      BY <3>1, FS_Interval
    <3> QED BY <1>1, <1>2, <3>2
  <2> QED BY <2>2, <2>3
<1>5. RecoveredSeq(disk) = top
  BY <1>1, <1>2, <1>4 DEF RecoveredSeq, low
<1>6. RecoveredSeq(disk) >= disk.seq
  BY <1>1, <1>2, <1>5
<1> QED BY <1>1, <1>2, <1>3, <1>5, <1>6 DEF Recoverable, low

-----------------------------------------------------------------------------
(* The invariant. *)

LEMMA DurableInit == ASSUME Init PROVE Blank /\ Durable
<1>1. disk = EmptyHead /\ page = NoPage /\ orphans = {} /\ page.compaction = {}
  BY DEF Init, NoPage
<1>2. page.queue = <<>> /\ page.transition = {} /\ Len(page.queue) = 0
  BY <1>1, EmptySeq DEF NoPage
<1>3. QueueLogged
  BY <1>2 DEF QueueLogged, EntriesLogged, EditsInOrder, FrontWritten
<1> QED BY <1>1, <1>3 DEF Blank, Durable, DiskSound, Compacting, OrphansSound

LEMMA DurableNext ==
    ASSUME IInv, IInv', Blank, Durable, AllDurable', [Next]_vars
    PROVE  Durable'
<1>1. CASE UNCHANGED vars
  <2>1. /\ UNCHANGED <<disk, emergency, page, orphans, edits, epochs, loads>>
        /\ Typed /\ DiskSound /\ OrphansSound /\ QueueLogged /\ Compacting
    BY <1>1 DEF vars, IInv, Durable
  <2>2. DiskSound' /\ OrphansSound'
    BY <2>1, QuietSound
  <2>3. QueueLogged' /\ Compacting'
    BY <2>1, SameLogged, QuietCompacting
  <2> QED BY <2>2, <2>3 DEF Durable
<1>2. CASE Load
  BY <1>2, LoadDurable
<1>3. CASE Recover \/ OpenLoad \/ OpenReload \/ OpenDrainAbort
  BY <1>3, OpenDurable
<1>4. CASE OpenClaim
  BY <1>4, ClaimDurable
<1>5. CASE OpenDrain
  BY <1>5, DrainDurable
<1>6. CASE OpenDone
  BY <1>6, DoneDurable
<1>7. CASE Provision
  BY <1>7, ProvisionDurable
<1>8. CASE Edit
  <2>1. CASE page.transition = {}
    BY <1>8, <2>1, PlainEditDurable
  <2>2. ASSUME NEW t \in page.transition PROVE Durable'
    BY <1>8, MovingEditDurable
  <2> QED BY <2>1, <2>2
<1>9. CASE Restore
  BY <1>9, RestoreDurable
<1>10. CASE JobCommit
  BY <1>10, CommitDurable
<1>11. CASE AppendSettled
  BY <1>11, AppendSettledDurable
<1>12. CASE ResetSettled
  BY <1>12, ResetSettledDurable
<1>13. CASE JobFails
  BY <1>13, FailDurable
<1>14. CASE CompactLoad
  BY <1>14, CompactLoadDurable
<1>15. CASE CompactReplay
  BY <1>15, CompactReplayDurable
<1>16. CASE CompactWrite
  BY <1>16, CompactWriteDurable
<1>17. CASE Disappear
  BY <1>17, DisappearDurable
<1>18. CASE OrphanEnds
  BY <1>18, OrphanStep, OrphanDurable
<1> QED BY <1>1, <1>2, <1>3, <1>4, <1>5, <1>6, <1>7, <1>8, <1>9, <1>10, <1>11, <1>12, <1>13,
           <1>14, <1>15, <1>16, <1>17, <1>18 DEF Next

\* The history only grows: an edit that was not durable is never forgotten.
LEMMA HistoryGrows == ASSUME [Next]_vars PROVE edits \subseteq edits'
BY DEF Next, vars, Load, Recover, OpenLoad, OpenClaim, OpenReload, OpenDrain, OpenDrainAbort,
       OpenDone, Provision, Edit, Restore, JobCommit, AppendSettled, ResetSettled, JobFails,
       CompactLoad, CompactReplay, CompactWrite, Disappear, OrphanEnds

LEMMA DurableIsRecoverable == ASSUME IInv, Durable PROVE DurableEditsRecoverable
<1> SUFFICES ASSUME disk.epoch # NoEpoch
             PROVE  /\ Recoverable(disk)
                    /\ \A op1, op2 \in ReplayOps(disk) :
                          op1.seq < op2.seq <=> op1.id < op2.id
                    /\ \A e \in edits : e.durable /\ Current(e) => Survives(e)
  BY DEF DurableEditsRecoverable
<1>1. Typed /\ HeadOk
  BY DEF IInv, Safe
<1>2. disk \in Heads
  BY <1>1, DiskIsHead
<1>3. Sound(disk)
  BY <1>1, <1>2, HeadIsNotEmpty DEF Durable, DiskSound, Typed
<1> QED BY <1>1, <1>2, <1>3, SoundIsRecoverable DEF Sound, Ordered, Kept, Current, Survives

\* storage-journal.js persist and append, recover(), open(), the queue, the
\* transition of replaceAuthoritativeState, compactHead and the transactions a
\* dead page leaves: as long as every edit was reported durable - the log had
\* room for each, in both epochs while a transition ran - recovery succeeds at
\* every instant, replays each edit once and in order, and finds every edit that
\* no committed restore replaced.  The hypothesis is about the history, not about
\* the schedule: one edit the log had no room for may leave a gap in its sequence.
THEOREM DurableEditsSurvive == Spec => [](AllDurable => DurableEditsRecoverable)
<1> DEFINE Inv == IInv /\ Blank /\ (AllDurable => Durable)
<1>1. Init => Inv
  BY InvInit, DurableInit
<1>2. Inv /\ [Next]_vars => Inv'
  <2> SUFFICES ASSUME Inv, [Next]_vars
               PROVE  Inv'
    OBVIOUS
  <2>1. IInv' /\ Blank'
    BY InvNext, BlankNext
  <2>2. AllDurable' => AllDurable
    BY HistoryGrows DEF AllDurable
  <2> QED BY <2>1, <2>2, DurableNext
<1>3. Inv => (AllDurable => DurableEditsRecoverable)
  BY DurableIsRecoverable
<1> HIDE DEF Inv
<1> QED BY <1>1, <1>2, <1>3, PTL DEF Spec

-----------------------------------------------------------------------------
(* Room in the log.  An edit adds at most two entries, so a log for twice as  *)
(* many entries as there are edits never refuses one.                        *)

Roomy == IsFiniteSet(page.pending) /\ Cardinality(page.pending) <= 2 * Count

\* Only an edit adds a key.
LEMMA KeysShrink ==
    ASSUME IInv, [Next]_vars, ~ Edit
    PROVE  page'.pending \subseteq page.pending /\ edits' = edits
<1>0. page \in Pages
  BY DEF IInv, Typed
<1>1. CASE UNCHANGED vars
  BY <1>1 DEF vars
<1>2. CASE Load \/ Disappear
  BY <1>2 DEF Load, Disappear, NoPage
<1>3. CASE Recover \/ OpenLoad \/ OpenClaim \/ OpenReload
  BY <1>0, <1>3 DEF Recover, OpenLoad, OpenClaim, OpenReload, Pages
<1>4. CASE OpenDrain \/ OpenDrainAbort
  <2>1. CASE OpenDrainAbort
    BY <1>0, <2>1 DEF OpenDrainAbort, Pages
  <2>2. CASE OpenDrain
    <3> PICK rec : rec = CHOOSE r \in page.drain : \A s \in page.drain : r.seq <= s.seq
      OBVIOUS
    <3> PICK key : key = Key(rec)
      OBVIOUS
    <3>1. CASE page' = page
      BY <2>2, <3>1 DEF OpenDrain
    <3>2. CASE page' = [page EXCEPT !.drain = @ \ {rec}, !.pending = @ \ {key}]
      <4>1. page'.pending = page.pending \ {key}
        BY <1>0, <3>2 DEF Pages
      <4> QED BY <2>2, <4>1 DEF OpenDrain
    <3> QED BY <2>2, <3>1, <3>2 DEF OpenDrain
  <2> QED BY <1>4, <2>1, <2>2
<1>5. CASE OpenDone
  <2>1. page'.pending = {k \in page.pending : k.epoch = page.epoch} /\ edits' = edits
    BY <1>0, <1>5 DEF OpenDone, Pages
  <2> QED BY <2>1
<1>6. CASE Provision \/ Restore
  BY <1>0, <1>6 DEF Provision, Restore, Pages
<1>7. CASE JobCommit \/ JobFails
  BY <1>0, <1>7 DEF JobCommit, JobFails, Pages
<1>8. CASE AppendSettled
  <2> DEFINE keys == {Key(rec) : rec \in {Job.rec} \cup Job.fallback}
  <2>1. page'.pending = page.pending \ keys /\ edits' = edits
    BY <1>0, <1>8 DEF AppendSettled, Pages
  <2> QED BY <2>1
<1>9. CASE ResetSettled
  <2> PICK e : e = (CHOOSE x \in page.transition : TRUE).epoch
    OBVIOUS
  <2>1. page'.pending = {k \in page.pending : k.epoch = e} /\ edits' = edits
    BY <1>0, <1>9 DEF ResetSettled, Pages
  <2> QED BY <2>1
<1>10. CASE CompactLoad \/ CompactReplay \/ CompactWrite
  BY <1>0, <1>10 DEF CompactLoad, CompactReplay, CompactWrite, Pages
<1>11. CASE OrphanEnds
  BY <1>11 DEF OrphanEnds
<1> QED BY <1>1, <1>2, <1>3, <1>4, <1>5, <1>6, <1>7, <1>8, <1>9, <1>10, <1>11 DEF Next

\* The key of an edit to come is free in the log.
LEMMA PlainKeyFree ==
    ASSUME IInv, Durable, Writable, page.transition = {}, NEW r \in emergency
    PROVE  Key(r) # [epoch |-> page.epoch, seq |-> page.seq + 1]
<1>1. Reaches(page.seq) /\ disk \in Heads /\ disk.epoch = page.epoch
  BY PlainReaches DEF Durable
<1>2. r.epoch = page.epoch => r.seq \in Nat /\ r.seq <= page.seq /\ page.seq \in Nat
  BY <1>1, OpsTyped DEF Reaches, Applicable, IInv
<1>3. r.epoch = page.epoch => r.seq # page.seq + 1
  BY <1>2
<1> QED BY <1>3 DEF Key

LEMMA MovingKeysFree ==
    ASSUME IInv, Durable, Writable, NEW t \in page.transition, NEW r \in emergency
    PROVE  /\ Key(r) # [epoch |-> t.epoch, seq |-> t.seq + 1]
           /\ Key(r) # [epoch |-> page.epoch, seq |-> t.fallbackSeq + 1]
<1> DEFINE L == Len(page.queue)
           m == ResetAt(t)
<1>0. /\ Typed /\ Shape /\ LogOwned /\ QueueLogged /\ Copies(t)
  BY DEF IInv, Safe, Durable, QueueLogged
<1>1. /\ L \in Nat /\ t.seq \in Nat /\ m \in 1..L /\ m = L - t.seq
      /\ page.seq \in Nat /\ t.fallbackSeq = page.seq + t.seq
  <2>1. page.seq \in Nat
    BY <1>0, Naturals DEF Typed, Pages
  <2> QED BY <1>0, <2>1, Moving DEF ResetAt, Copies
<1>2. r.epoch = t.epoch => r.seq <= t.seq /\ r.seq \in Nat
  <2>1. ASSUME r.epoch = t.epoch
        PROVE  \E i \in 1..L : i > m /\ r = page.queue[i].rec
    BY <1>0, <2>1 DEF LogOwned
  <2>2. ASSUME NEW i \in 1..L, i > m PROVE page.queue[i].rec.seq = i - m
    BY <1>0, <2>2 DEF Shape
  <2> QED BY <1>1, <2>1, <2>2
<1>3. r.epoch = page.epoch => r.seq <= t.fallbackSeq /\ r.seq \in Nat
  <2>1. CASE ~ResetCommitted
    <3>1. Reaches(t.fallbackSeq) /\ disk.epoch = page.epoch /\ disk \in Heads
      BY <1>0, <2>1, MovingReaches
    <3> QED BY <1>0, <3>1, OpsTyped DEF Reaches, Applicable
  <2>2. CASE ResetCommitted
    <3>1. m = 1
      BY <1>0, <2>2, HeadReset DEF ResetCommitted
    <3>2. PICK i \in 1..L : /\ page.queue[i].kind = "append"
                            /\ r \in {page.queue[i].rec} \cup page.queue[i].fallback
      BY <1>0 DEF LogOwned, Writable
    <3>3. page.queue[m].kind = "reset"
      BY <1>0 DEF Shape
    <3>4. i > m
      BY <1>1, <3>1, <3>2, <3>3
    <3>5. page.queue[i].rec.epoch = t.epoch /\ page.epoch < t.epoch
      BY <1>0, <3>2, <3>4 DEF Shape
    <3>6. i \in Behind(t)
      BY <1>1, <3>4 DEF Behind
    <3>7. page.queue[i].fallback = {[epoch |-> page.epoch, seq |-> page.seq + (i - m),
                                     id |-> page.queue[i].rec.id]}
      BY <1>0, <3>6 DEF Copies
    <3>8. ASSUME r.epoch = page.epoch PROVE r # page.queue[i].rec
      <4>1. page.epoch # t.epoch
        <5>1. t.epoch \in Nat
          <6>1. Seen \subseteq Nat /\ t.epoch \in Seen
            BY <1>0, Naturals, Moving DEF Typed, Seen
          <6> QED BY <6>1
        <5>2. \A n \in Nat : ~ (n < n)
          OBVIOUS
        <5> QED BY <3>5, <5>1, <5>2
      <4> QED BY <3>5, <3>8, <4>1
    <3>9. r.epoch = page.epoch => r.seq = page.seq + (i - m)
      BY <3>2, <3>7, <3>8
    <3>10. page.seq + (i - m) <= t.fallbackSeq /\ page.seq + (i - m) \in Nat
      BY <1>1, <3>4
    <3> QED BY <3>9, <3>10
  <2> QED BY <2>1, <2>2
<1>4. r.epoch = t.epoch => r.seq # t.seq + 1
  BY <1>1, <1>2
<1>5. r.epoch = page.epoch => r.seq # t.fallbackSeq + 1
  BY <1>1, <1>3
<1> QED BY <1>4, <1>5 DEF Key

\* A write adds at most one key, and succeeds when there is room and a free key.
LEMMA WriteKeys ==
    ASSUME NEW log, NEW keys, NEW rec, IsFiniteSet(keys),
           Cardinality(keys) < MaxEmergency, \A r \in log : Key(r) # Key(rec)
    PROVE  LET w == WriteEmergency(log, keys, rec)
           IN  /\ w.ok = TRUE /\ w.log = log \cup {rec} /\ IsFiniteSet(w.keys)
               /\ Cardinality(w.keys) \in Nat
               /\ Cardinality(w.keys) <= Cardinality(keys) + 1
<1>0. MaxEmergency \in Nat /\ Cardinality(keys) \in Nat
  BY BoundsAssumption, FS_CardinalityType
<1> PICK key : key = Key(rec)
  OBVIOUS
<1>1. ~ (Cardinality(keys) >= MaxEmergency)
  BY <1>0
<1>2. WriteEmergency(log, keys, rec) =
          [log |-> log \cup {rec}, keys |-> keys \cup {key}, ok |-> TRUE]
  BY <1>1 DEF WriteEmergency
<1>3. /\ IsFiniteSet(keys \cup {key}) /\ Cardinality(keys \cup {key}) \in Nat
      /\ Cardinality(keys \cup {key}) <= Cardinality(keys) + 1
  <2>1. /\ IsFiniteSet(keys \cup {key})
        /\ \/ Cardinality(keys \cup {key}) = Cardinality(keys)
           \/ Cardinality(keys \cup {key}) = Cardinality(keys) + 1
    BY FS_AddElement
  <2> QED BY <1>0, <2>1
<1> QED BY <1>2, <1>3

LEMMA WriteAgain ==
    ASSUME NEW first, NEW rec, NEW n \in Nat,
           IsFiniteSet(first.keys), Cardinality(first.keys) \in Nat,
           Cardinality(first.keys) <= n + 1, n + 1 < MaxEmergency,
           \A r \in first.log : Key(r) # Key(rec)
    PROVE  LET w == WriteEmergency(first.log, first.keys, rec)
           IN  /\ w.ok = TRUE /\ IsFiniteSet(w.keys) /\ Cardinality(w.keys) \in Nat
               /\ Cardinality(w.keys) <= n + 2
<1> PICK log, keys : log = first.log /\ keys = first.keys
  OBVIOUS
<1> DEFINE w == WriteEmergency(log, keys, rec)
<1>1. /\ IsFiniteSet(keys) /\ Cardinality(keys) < MaxEmergency
      /\ Cardinality(keys) <= n + 1 /\ Cardinality(keys) \in Nat
      /\ \A r \in log : Key(r) # Key(rec)
  BY BoundsAssumption
<1>2. /\ w.ok = TRUE /\ IsFiniteSet(w.keys) /\ Cardinality(w.keys) \in Nat
      /\ Cardinality(w.keys) <= Cardinality(keys) + 1
  BY <1>1, WriteKeys
<1> HIDE DEF w
<1>3. w.ok = TRUE /\ IsFiniteSet(w.keys) /\ Cardinality(w.keys) \in Nat
      /\ Cardinality(w.keys) <= n + 2
  BY <1>1, <1>2
<1> QED BY <1>3 DEF w

\* An edit of the page's epoch, and one during a transition, is written in full.
LEMMA PlainFits ==
    ASSUME IInv, Durable, AllDurable, Roomy, 2 * MaxEdits <= MaxEmergency, Edit,
           page.transition = {}
    PROVE  AllDurable' /\ Roomy'
<1> PICK rec : rec = Entry(page.epoch, page.seq + 1)
  OBVIOUS
<1> PICK w : w = WriteEmergency(emergency, page.pending, rec)
  OBVIOUS
<1> PICK e : e = [id |-> Count + 1, epoch |-> page.epoch, durable |-> w.ok]
  OBVIOUS
<1>0. /\ Typed /\ page \in Pages /\ Writable /\ IsFiniteSet(page.pending)
      /\ Count \in Nat /\ MaxEdits \in Nat /\ Count < MaxEdits
      /\ Cardinality(page.pending) \in Nat /\ MaxEmergency \in Nat
  BY Naturals, BoundsAssumption, FS_CardinalityType DEF IInv, Typed, Roomy, Edit, Count
<1>1. Key(rec) = [epoch |-> page.epoch, seq |-> page.seq + 1]
  BY DEF Key, Entry
<1>2. \A r \in emergency : Key(r) # Key(rec)
  BY <1>0, <1>1, PlainKeyFree
<1>3. Cardinality(page.pending) < MaxEmergency
  BY <1>0 DEF Roomy
<1>4. /\ w.ok = TRUE /\ IsFiniteSet(w.keys) /\ Cardinality(w.keys) \in Nat
      /\ Cardinality(w.keys) <= Cardinality(page.pending) + 1
  BY <1>0, <1>2, <1>3, WriteKeys
<1>5. edits' = edits \cup {e}
  <2>1. e = [id |-> Count + 1, epoch |-> rec.epoch, durable |-> TRUE /\ w.ok]
    BY <1>4 DEF Entry
  <2> QED BY <2>1 DEF Edit, Entry, Count
<1>6. page'.pending = w.keys
  BY <1>0 DEF Edit, Entry, Count, Pages
<1>7. AllDurable'
  BY <1>4, <1>5 DEF AllDurable
<1>8. Count' = Count + 1
  BY <1>0, <1>5, EditCounted
<1>9. Roomy'
  BY <1>0, <1>4, <1>6, <1>8 DEF Roomy
<1> QED BY <1>7, <1>9

LEMMA MovingFits ==
    ASSUME IInv, Durable, AllDurable, Roomy, 2 * MaxEdits <= MaxEmergency, Edit,
           NEW t \in page.transition
    PROVE  AllDurable' /\ Roomy'
<1> PICK rec : rec = Entry(t.epoch, t.seq + 1)
  OBVIOUS
<1> PICK old : old = Entry(t.fallbackEpoch, t.fallbackSeq + 1)
  OBVIOUS
<1> PICK first : first = WriteEmergency(emergency, page.pending, old)
  OBVIOUS
<1> PICK w : w = WriteEmergency(first.log, first.keys, rec)
  OBVIOUS
<1> PICK e : e = [id |-> Count + 1, epoch |-> t.epoch, durable |-> first.ok /\ w.ok]
  OBVIOUS
<1>0. /\ Typed /\ Shape /\ QueueLogged /\ page \in Pages /\ Writable
      /\ IsFiniteSet(page.pending)
      /\ Count \in Nat /\ MaxEdits \in Nat /\ Count < MaxEdits
      /\ Cardinality(page.pending) \in Nat /\ MaxEmergency \in Nat
  BY Naturals, BoundsAssumption, FS_CardinalityType
     DEF IInv, Safe, Typed, Roomy, Edit, Count, Durable
<1>1. /\ page.transition = {t} /\ page.transition # {}
      /\ (CHOOSE x \in page.transition : TRUE) = t
      /\ t.fallbackEpoch = page.epoch /\ page.epoch < t.epoch /\ t.epoch \in Nat
  <2>1. page.transition = {t} /\ (CHOOSE x \in page.transition : TRUE) = t /\ t.epoch \in Seen
    BY <1>0, Moving
  <2>2. Seen \subseteq Nat
    BY <1>0, Naturals DEF Seen, Typed
  <2> QED BY <1>0, <2>1, <2>2 DEF Shape
<1>2. /\ Key(rec) = [epoch |-> t.epoch, seq |-> t.seq + 1]
      /\ Key(old) = [epoch |-> page.epoch, seq |-> t.fallbackSeq + 1]
  BY <1>1 DEF Key, Entry
<1>3. \A r \in emergency : Key(r) # Key(rec) /\ Key(r) # Key(old)
  BY <1>0, <1>2, MovingKeysFree
<1>4. Cardinality(page.pending) + 1 < MaxEmergency
  BY <1>0 DEF Roomy
<1>5. /\ first.ok = TRUE /\ w.ok = TRUE /\ IsFiniteSet(w.keys) /\ Cardinality(w.keys) \in Nat
      /\ Cardinality(w.keys) <= Cardinality(page.pending) + 2
  <2>1. Cardinality(page.pending) < MaxEmergency
    BY <1>0, <1>4
  <2>2. /\ first.ok = TRUE /\ first.log = emergency \cup {old} /\ IsFiniteSet(first.keys)
        /\ Cardinality(first.keys) \in Nat
        /\ Cardinality(first.keys) <= Cardinality(page.pending) + 1
    BY <1>0, <1>3, <2>1, WriteKeys
  <2>3. Key(old) # Key(rec)
    <3>1. page.epoch # t.epoch
      <4>1. \A n \in Nat : ~ (n < n)
        OBVIOUS
      <4> QED BY <1>1, <4>1
    <3> QED BY <1>2, <3>1
  <2>4. \A r \in first.log : Key(r) # Key(rec)
    BY <1>3, <2>2, <2>3
  <2>5. /\ w.ok = TRUE /\ IsFiniteSet(w.keys) /\ Cardinality(w.keys) \in Nat
        /\ Cardinality(w.keys) <= Cardinality(page.pending) + 2
    BY <1>0, <1>4, <2>2, <2>4, WriteAgain
  <2> QED BY <2>2, <2>5
<1>6. rec.seq = t.seq + 1 /\ rec.epoch = t.epoch
  BY DEF Entry
<1>7. edits' = edits \cup {e} /\ page'.pending = w.keys
  <2>1. edits' = edits \cup {[id |-> Count + 1, epoch |-> rec.epoch, durable |-> first.ok /\ w.ok]}
    BY <1>1 DEF Edit, Entry, Count
  <2>2. page'.pending = w.keys
    BY <1>0, <1>1 DEF Edit, Entry, Count, Pages
  <2> QED BY <1>6, <2>1, <2>2
<1>8. AllDurable'
  <2>1. e.durable
    BY <1>5
  <2> QED BY <1>7, <2>1 DEF AllDurable
<1>9. Count' = Count + 1
  BY <1>0, <1>7, EditCounted
<1>10. Roomy'
  BY <1>0, <1>5, <1>7, <1>9 DEF Roomy
<1> QED BY <1>8, <1>10

LEMMA RoomyNext ==
    ASSUME IInv, Durable, AllDurable, Roomy, 2 * MaxEdits <= MaxEmergency, [Next]_vars
    PROVE  AllDurable' /\ Roomy'
<1>1. CASE Edit
  BY <1>1, PlainFits, MovingFits
<1>2. CASE ~ Edit
  <2>1. page'.pending \subseteq page.pending /\ edits' = edits
    BY <1>2, KeysShrink
  <2>2. /\ Count \in Nat /\ IsFiniteSet(page.pending)
        /\ Cardinality(page.pending) <= 2 * Count /\ Cardinality(page.pending) \in Nat
    BY Naturals, FS_CardinalityType DEF IInv, Typed, Roomy
  <2>3. IsFiniteSet(page'.pending) /\ Cardinality(page'.pending) <= Cardinality(page.pending)
    BY <2>1, <2>2, FS_Subset
  <2>4. Cardinality(page'.pending) \in Nat
    BY <2>3, FS_CardinalityType
  <2>5. Cardinality(page'.pending) <= 2 * Count
    BY <2>2, <2>3, <2>4
  <2> QED BY <2>1, <2>3, <2>5 DEF AllDurable, Roomy, Count
<1> QED BY <1>1, <1>2

\* storage-journal.js writeEmergency: an edit writes one entry to the emergency log,
\* or two while a transition runs, and is refused when the log is full or another
\* entry has its key.  With room for twice as many entries as there are edits no
\* edit is ever refused, so the edits survive with no hypothesis on the history.
THEOREM DurableWithRoom ==
    2 * MaxEdits <= MaxEmergency => (Spec => []DurableEditsRecoverable)
<1> SUFFICES ASSUME 2 * MaxEdits <= MaxEmergency
             PROVE  Spec => []DurableEditsRecoverable
  OBVIOUS
<1> DEFINE Inv == IInv /\ Blank /\ Durable /\ AllDurable /\ Roomy
<1>1. Init => Inv
  <2> SUFFICES ASSUME Init PROVE Inv
    OBVIOUS
  <2>1. IInv /\ Blank /\ (AllDurable => Durable)
    BY InvInit, DurableInit
  <2>2. edits = {} /\ page.pending = {}
    BY DEF Init, NoPage
  <2>3. AllDurable /\ Roomy
    BY <2>2, FS_EmptySet DEF AllDurable, Roomy, Count
  <2> QED BY <2>1, <2>3
<1>2. Inv /\ [Next]_vars => Inv'
  <2> SUFFICES ASSUME Inv, [Next]_vars
               PROVE  Inv'
    OBVIOUS
  <2>1. IInv' /\ Blank'
    BY InvNext, BlankNext
  <2>2. AllDurable' /\ Roomy'
    BY RoomyNext
  <2> QED BY <2>1, <2>2, DurableNext
<1>3. Inv => DurableEditsRecoverable
  BY DurableIsRecoverable
<1> HIDE DEF Inv
<1> QED BY <1>1, <1>2, <1>3, PTL DEF Spec

=============================================================================
