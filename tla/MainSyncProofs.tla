---------------------------- MODULE MainSyncProofs ----------------------------
(***************************************************************************)
(* The safety of the synchronization of the main document, for any records *)
(* and any number of edits, restarts and saves of other computers: what is *)
(* on the screen, in the journal and in a flight is always the last cloud  *)
(* document known with the unacknowledged edits on it, and nothing else,   *)
(* and nobody's row is overwritten by an edit made on another one.         *)
(***************************************************************************)
EXTENDS MainSync, FiniteSetTheorems, SequenceTheorems, WellFoundedInduction, TLAPS

-----------------------------------------------------------------------------
(* Types *)

Seqs == 0..MaxEdits
Numbers == 1..MaxEdits
Revisions == 0..(MaxEdits + MaxRemote + 1)
Rounds == 1..(MaxEdits + MaxRemote + 1)
Kinds == {"insert", "replace", "delete"}
ConflictKinds == {"entity-conflict", "concurrent-ack", "concurrent-rebase", "concurrent-hydration"}
EditSet == [n : Numbers, record : Records, kind : Kinds, over : Int, index : Nat]
OpSet == [seq : Numbers, id : EditSet]
BaseSet == [revision : Revisions, ackSeq : Seqs, state : Documents]
FlightSet ==
    [operationId : Rounds \X Numbers, baseRevision : Revisions, startSeq : Numbers,
     endSeq : Numbers, snapshot : Documents]
Points == [seq : Seqs, state : Documents]
ConflictSet == [kind : ConflictKinds, remoteRevision : Revisions]
ControlSet == [retry : BOOLEAN, conflict : Maybe(ConflictSet)]
HeadSet ==
    [epoch : {Epoch}, seq : Seqs, writer : {Device}, cp : Points, journal : SUBSET OpSet,
     base : SUBSET BaseSet, flight : SUBSET FlightSet, control : Maybe(ControlSet)]
RowSet == [revision : Revisions, doc : Documents]
RequestSet == [flight : FlightSet, deletes : SUBSET Records]
VersionSet == [doc : Documents, by : SUBSET RequestSet]
LedgerSet == [id : Rounds \X Numbers, revision : Revisions]

Plain == [stage : {"idle", "failed", "dead"}]
Calling == [stage : {"rpc", "rejected"}, flight : FlightSet, attempt : Nat]
Answered == [stage : {"ack"}, flight : FlightSet, row : RowSet]
Acking ==
    [stage : {"commitAck"}, flight : FlightSet, row : RowSet, cp : Points, prev : Documents,
     control : Maybe(ControlSet)]
Refetched == [stage : {"rebase"}, flight : FlightSet, attempt : Nat, row : RowSet]
Materializing == [stage : {"materialize"}, attempt : Nat, through : Seqs, snapshot : Documents]
Rebasing ==
    [stage : {"commitRebase"}, flight : FlightSet, row : RowSet, cp : Points, prev : Documents,
     control : Maybe(ControlSet), next : Materializing]
Candidates ==
    [kind : ConflictKinds, tries : Nat, next : {Idle} \cup Materializing, base : BaseSet,
     prev : Documents, cp : Points]
Publishing == [stage : {"publish", "recover"}, attempt : Nat, cand : Candidates]
Recovering ==
    [stage : {"recoverCommit", "recoverPublish"}, attempt : Nat, cand : Candidates, cp : Points]
Fencing == [stage : {"fence"}, cand : Candidates]
Polled == [stage : {"polled"}, row : RowSet]
SyncSet ==
    Plain \cup Calling \cup Answered \cup Acking \cup Refetched \cup Materializing \cup Rebasing
    \cup Publishing \cup Recovering \cup Fencing \cup Polled

Typed ==
    /\ server \in [versions : Seq(VersionSet), operations : SUBSET LedgerSet]
    /\ Revision # 0
    /\ requests \subseteq RequestSet
    /\ disk \in HeadSet /\ log \in Seq(EditSet) /\ view \in Documents
    /\ sync \in SyncSet /\ edited \in Seqs

-----------------------------------------------------------------------------
(* Documents made of edits. *)

\* e is the last edit of its record among the edits from..to of a set of edits.
Last(E, e, from, to) ==
    /\ e \in E /\ e.n \in from..to
    /\ \A x \in E : x.record = e.record /\ x.n \in from..to => x.n <= e.n

\* doc has what the last of the edits from..to left of each record.
Keeps(E, from, to, doc) ==
    \A e \in E : Last(E, e, from, to) => doc[e.record] = Value(e)

\* doc is base with the edits from..to on it, and nothing else.
Overlays(E, from, to, base, doc) ==
    \A c \in Records :
        \/ (\A e \in E : e.record = c => e.n \notin from..to) /\ doc[c] = base[c]
        \/ \E e \in E : Last(E, e, from, to) /\ e.record = c /\ doc[c] = Value(e)

\* doc has no row of an edit after n.
Rows(doc, n) == \A c \in Records : doc[c] \in 1..MaxEdits => doc[c] <= n

\* What doc has, other has.
Within(doc, other) == \A c \in Records : doc[c] # Absent => other[c] # Absent

-----------------------------------------------------------------------------
HasVersion(revision, doc) ==
    revision \in 1..Revision /\ doc = server.versions[revision].doc

Landed(r) == \E i \in DOMAIN server.versions : r \in server.versions[i].by

JournalFull == JournalKeysOk(disk) /\ \A n \in 1..disk.seq : \E op \in disk.journal : op.seq = n

EditsOk ==
    /\ JournalFull /\ \A op \in disk.journal : op.id.n = op.seq
    /\ \A i \in DOMAIN log : log[i].n = disk.seq + i
    /\ disk.seq + Len(log) = edited

LandedInPlace ==
    \A i \in DOMAIN server.versions : \A r \in server.versions[i].by :
        /\ r \in requests /\ r.flight.baseRevision = i - 1
        /\ [id |-> r.flight.operationId, revision |-> i] \in server.operations

LedgerOk ==
    /\ \A o, p \in server.operations : o.id = p.id => o = p
    /\ \A o \in server.operations :
          /\ \E r \in requests : r.flight.operationId = o.id
          /\ \A r \in requests :
                r.flight.operationId = o.id => HasVersion(o.revision, r.flight.snapshot)

RowsLanded ==
    \A i \in DOMAIN server.versions : \A c \in Records :
        server.versions[i].doc[c] \in 1..MaxEdits =>
            \E r \in requests : Landed(r) /\ server.versions[i].doc[c] <= r.flight.endSeq

RecordsInserted ==
    \A i \in DOMAIN server.versions : \A c \in Records :
        server.versions[i].doc[c] # Absent => c \in Original \/ \E e \in AllEdits : e.record = c

GoneForGood ==
    \A i, j \in DOMAIN server.versions :
        i <= j /\ (\A r \in requests : Landed(r) => r.flight.baseRevision \notin i..(j - 1)) =>
            Within(server.versions[j].doc, server.versions[i].doc)

Counted ==
    /\ RemoteSaves \in 0..MaxRemote
    /\ \A n \in 0..MaxEdits : (\A r \in requests : Landed(r) => r.flight.endSeq <= n) =>
          Revision <= RemoteSaves + 1 + n

ServerOk ==
    /\ LandedInPlace /\ LedgerOk /\ RowsLanded /\ RecordsInserted /\ GoneForGood /\ Counted

RequestOk(r) ==
    LET f == r.flight
    IN  /\ f.operationId = <<f.baseRevision, f.startSeq>>
        /\ f.startSeq <= f.endSeq /\ f.endSeq <= disk.seq
        /\ f.startSeq <= Base.ackSeq + 1
        /\ f.baseRevision \in 1..Base.revision
        /\ f.baseRevision = Base.revision => disk.flight = {f} \/ (Replayed(r) /\ f.startSeq <= Base.ackSeq)
        /\ Landed(r) => disk.flight = {f} \/ (f.baseRevision < Base.revision /\ f.endSeq <= Base.ackSeq)

SameFlight ==
    \A p, q \in requests : p.flight.operationId = q.flight.operationId => p.flight = q.flight

BaseOk ==
    /\ disk.base = {Base} /\ HasVersion(Base.revision, Base.state)
    /\ Base.ackSeq <= disk.cp.seq /\ disk.cp.seq <= disk.seq
    /\ Rows(Base.state, Base.ackSeq)
    /\ Keeps(AllEdits, Base.ackSeq + 1, disk.cp.seq, disk.cp.state)
    /\ ~InConflict => Overlays(AllEdits, Base.ackSeq + 1, disk.cp.seq, Base.state, disk.cp.state)

FlightOk ==
    \A f \in disk.flight :
        /\ disk.flight = {f}
        /\ f.operationId = <<f.baseRevision, f.startSeq>>
        /\ f.baseRevision = Base.revision /\ f.startSeq = Base.ackSeq + 1
        /\ f.startSeq <= f.endSeq /\ f.endSeq <= disk.seq
        /\ Overlays(AllEdits, f.startSeq, f.endSeq, Base.state, f.snapshot)

Earned ==
    \A n \in 1..Base.ackSeq : \E r \in requests :
        /\ Replayed(r) /\ n \in r.flight.startSeq..r.flight.endSeq
        /\ Keeps(AllEdits, r.flight.startSeq, r.flight.endSeq, r.flight.snapshot)

ConflictOk == InConflict => disk.flight = {} /\ sync.stage \in {"idle", "dead"}

Shown == sync.stage \notin Unpublished \cup {"dead"} /\ ~InConflict

ViewOk ==
    /\ sync.stage # "dead" => Keeps(AllEdits, Base.ackSeq + 1, edited, view)
    /\ Shown => Recovered = [ok |-> TRUE, doc |-> view]

Uploading == {"rpc", "rejected", "ack", "commitAck", "rebase", "commitRebase"}
Refused == {"rejected", "rebase", "commitRebase"}

RoundOk ==
    /\ sync.stage \in Uploading => disk.flight = {sync.flight}
    /\ sync.stage \in {"rpc"} => \E r \in requests : r.flight = sync.flight
    /\ sync.stage \in {"ack", "commitAck", "rebase", "commitRebase", "polled"} =>
          HasVersion(sync.row.revision, sync.row.doc)
    /\ sync.stage \in {"ack", "commitAck"} =>
          \E r \in requests : r.flight = sync.flight /\ \E o \in server.operations :
              /\ o.id = r.flight.operationId /\ o.revision <= sync.row.revision
              /\ o.revision \in r.flight.baseRevision..(r.flight.baseRevision + 1)
    /\ sync.stage \in Refused =>
          /\ sync.flight.baseRevision < Revision
          /\ \A r \in requests : r.flight = sync.flight => ~Landed(r)
    /\ sync.stage \in {"rebase", "commitRebase"} => sync.flight.baseRevision < sync.row.revision
    /\ sync.stage = "polled" => disk.flight = {}

\* What the round is to commit, computed when the journal was at cp.seq.
MergeOk ==
    LET s == sync
        from == IF s.stage = "commitAck" THEN s.flight.endSeq + 1 ELSE Base.ackSeq + 1
    IN  s.stage \in {"commitAck", "commitRebase"} =>
            /\ s.flight.endSeq <= s.cp.seq /\ s.cp.seq <= disk.seq
            /\ edited = s.cp.seq => view = s.prev
            /\ Rows(s.prev, s.cp.seq)
            /\ Keeps(AllEdits, from, s.cp.seq, s.cp.state)
            /\ s.control # {} => \E c \in s.control : c.conflict # {}
            /\ s.control = {} =>
                  /\ Overlays(AllEdits, from, s.cp.seq, s.row.doc, s.cp.state)
                  /\ Within(s.cp.state, s.prev)
            /\ s.stage = "commitRebase" =>
                  /\ s.next.stage = "materialize" /\ s.next.through = s.flight.endSeq
                  /\ s.control = {} =>
                        Overlays(AllEdits, from, s.next.through, s.row.doc, s.next.snapshot)

NextOk(next) ==
    \/ next = Idle
    \/ /\ next.stage = "materialize" /\ disk.flight = {}
       /\ Base.ackSeq < next.through /\ next.through <= disk.seq
       /\ Overlays(AllEdits, Base.ackSeq + 1, next.through, Base.state, next.snapshot)

CandOk ==
    LET c == sync.cand
    IN  sync.stage \in Unpublished =>
            /\ disk.base = {c.base} /\ disk.flight = {} /\ ~InConflict
            /\ Base.ackSeq <= c.cp.seq /\ c.cp.seq <= disk.cp.seq
            /\ NextOk(c.next)
            /\ Rows(c.prev, c.cp.seq) /\ Within(c.cp.state, c.prev)
            /\ Overlays(AllEdits, c.cp.seq + 1, edited, c.prev, view)
            /\ Overlays(AllEdits, Base.ackSeq + 1, c.cp.seq, Base.state, c.cp.state)
            /\ sync.stage = "publish" => disk.cp = c.cp
            /\ sync.stage \in {"recoverCommit", "recoverPublish"} =>
                  /\ c.cp.seq <= sync.cp.seq /\ sync.cp.seq <= disk.seq
                  /\ Overlays(AllEdits, Base.ackSeq + 1, sync.cp.seq, Base.state, sync.cp.state)
            /\ sync.stage = "recoverPublish" => disk.cp = sync.cp

Safe ==
    /\ EditsOk /\ ServerOk /\ SameFlight /\ (\A r \in requests : RequestOk(r))
    /\ BaseOk /\ FlightOk /\ Earned /\ ConflictOk /\ ViewOk
    /\ RoundOk /\ MergeOk /\ CandOk
    /\ sync.stage = "materialize" => NextOk(sync)

IInv == Typed /\ Safe

-----------------------------------------------------------------------------
(* Numbers *)

LEMMA LessThan ==
    \E R : IsWellFoundedOn(R, Nat) /\ \A x, y \in Nat : x < y => <<x, y>> \in R
<1>1. \A x, y \in Nat : x < y => <<x, y>> \in OpToRel(<, Nat)
  BY DEF OpToRel
<1> QED BY <1>1, NatLessThanWellFounded

LEMMA LeastExists ==
    ASSUME NEW T, T \subseteq Nat, T # {}
    PROVE  \E m \in T : \A k \in T : m <= k
<1>1. PICK R : IsWellFoundedOn(R, Nat) /\ \A x, y \in Nat : x < y => <<x, y>> \in R
  BY LessThan
<1>2. IsWellFoundedOn(R, Nat)
  BY <1>1
<1>3. \E m \in T : \A k \in T : ~ (<<k, m>> \in R)
  BY <1>2, WFMin, Zenon
<1>4. \A x, y \in Nat : ~ (x < y) => y <= x
  OBVIOUS
<1> QED BY <1>1, <1>3, <1>4

LEMMA LastExists ==
    ASSUME NEW n \in Nat, NEW S \in SUBSET (1..n), S # {}
    PROVE  \E i \in S : \A j \in S : j <= i
<1> PICK T : T = {n - i : i \in S}
  OBVIOUS
<1>1. T \subseteq Nat /\ T # {}
  <2>1. \A i \in S : n - i \in Nat
    OBVIOUS
  <2> QED BY <2>1
<1>2. PICK i \in S : \A k \in T : n - i <= k
  BY <1>1, LeastExists
<1>3. ASSUME NEW j \in S PROVE j <= i
  <2>1. n - j \in T /\ n - i <= n - j
    BY <1>2
  <2> QED BY <2>1
<1> QED BY <1>3

-----------------------------------------------------------------------------
(* Documents made of edits *)

\* A set of edits, no two with one number.
Edits(E) == E \subseteq EditSet /\ \A e, x \in E : e.n = x.n => e = x

LEMMA Bounds ==
    /\ MaxEdits \in Nat /\ MaxRemote \in Nat /\ ConflictAttempts \in Nat
    /\ Seqs \subseteq Nat /\ Numbers \subseteq Nat /\ Revisions \subseteq Nat
    /\ \A n \in Numbers : n >= 1
    /\ \A doc \in Documents : \A c \in Records : doc[c] \in Int
BY BoundsAssumption DEF Seqs, Numbers, Revisions, Documents

LEMMA EditTyped ==
    ASSUME NEW e \in EditSet
    PROVE  /\ e.n \in Numbers /\ e.n \in Nat /\ e.n >= 1 /\ e.n <= MaxEdits /\ e.record \in Records
           /\ e.kind \in Kinds /\ Value(e) \in -1..(MaxEdits + MaxRemote)
           /\ Value(e) = Absent <=> e.kind = "delete"
           /\ e.kind # "delete" => Value(e) = e.n
<1>1. e.n \in Numbers /\ e.n \in Nat /\ e.n >= 1 /\ e.n <= MaxEdits /\ MaxEdits \in Nat /\ MaxRemote \in Nat
  BY Bounds DEF EditSet, Numbers
<1>2. e.n \in -1..(MaxEdits + MaxRemote) /\ -1 \in -1..(MaxEdits + MaxRemote)
  BY <1>1
<1> QED BY <1>1, <1>2 DEF EditSet, Value, Absent

LEMMA LastOf ==
    ASSUME NEW E, Edits(E), NEW from \in Int, NEW to \in Int, NEW x \in E, x.n \in from..to
    PROVE  \E e \in E : Last(E, e, from, to) /\ e.record = x.record /\ x.n <= e.n
<1> PICK S : S = {e.n : e \in {y \in E : y.record = x.record /\ y.n \in from..to}}
  OBVIOUS
<1>1. S \in SUBSET (1..MaxEdits) /\ S # {}
  BY DEF Edits, EditSet, Numbers
<1>2. PICK i \in S : \A j \in S : j <= i
  BY <1>1, LastExists, Bounds
<1>3. PICK e \in E : e.n = i /\ e.record = x.record /\ e.n \in from..to
  BY <1>2
<1> QED BY <1>2, <1>3 DEF Last

LEMMA LastUnique ==
    ASSUME NEW E, Edits(E), NEW from, NEW to, NEW e, NEW x, Last(E, e, from, to),
           Last(E, x, from, to), e.record = x.record
    PROVE  e = x
<1>1. e.n \in Nat /\ x.n \in Nat /\ e \in E /\ x \in E
  BY EditTyped DEF Last, Edits
<1>2. e.n <= x.n /\ x.n <= e.n
  BY DEF Last
<1>3. e.n = x.n
  BY <1>1, <1>2
<1> QED BY <1>1, <1>3 DEF Edits

\* The two cases of one record, apart.
LEMMA OverlaysRow ==
    ASSUME NEW E, NEW from, NEW to, NEW base, NEW doc, Overlays(E, from, to, base, doc),
           NEW c \in Records
    PROVE  \/ (\A e \in E : e.record = c => e.n \notin from..to) /\ doc[c] = base[c]
           \/ \E e \in E : Last(E, e, from, to) /\ e.record = c /\ doc[c] = Value(e)
BY DEF Overlays

LEMMA OverlaysKeeps ==
    ASSUME NEW E, Edits(E), NEW from, NEW to, NEW base, NEW doc, Overlays(E, from, to, base, doc)
    PROVE  Keeps(E, from, to, doc)
<1> SUFFICES ASSUME NEW e \in E, Last(E, e, from, to) PROVE doc[e.record] = Value(e)
  BY DEF Keeps
<1>1. e.record \in Records /\ e.n \in from..to
  BY EditTyped DEF Edits, Last
<1>2. PICK x \in E : Last(E, x, from, to) /\ x.record = e.record /\ doc[e.record] = Value(x)
  BY <1>1, OverlaysRow
<1> QED BY <1>2, LastUnique

LEMMA LaterLast ==
    ASSUME NEW E, Edits(E), NEW from \in Int, NEW mid \in Int, NEW to \in Int, from <= mid + 1,
           NEW e, Last(E, e, mid + 1, to)
    PROVE  Last(E, e, from, to)
<1>1. e \in E /\ e.n \in (mid + 1)..to /\ \A x \in E : x.n \in Nat
  BY EditTyped DEF Last, Edits
<1>2. \A n \in Nat : n \in from..to => n \in (mid + 1)..to \/ n <= mid
  OBVIOUS
<1>3. ASSUME NEW x \in E, x.record = e.record, x.n \in from..to PROVE x.n <= e.n
  BY <1>1, <1>2, <1>3 DEF Last
<1> QED BY <1>1, <1>3 DEF Last

LEMMA EarlierLast ==
    ASSUME NEW E, Edits(E), NEW from \in Int, NEW mid \in Int, NEW to \in Int, mid <= to,
           NEW e, Last(E, e, from, mid), \A x \in E : x.record = e.record => x.n \notin (mid + 1)..to
    PROVE  Last(E, e, from, to)
<1>1. e \in E /\ e.n \in from..mid /\ \A x \in E : x.n \in Nat
  BY EditTyped DEF Last, Edits
<1>2. \A n \in Nat : n \in from..to => n \in (mid + 1)..to \/ n \in from..mid
  OBVIOUS
<1> QED BY <1>1, <1>2 DEF Last

LEMMA OverlaysJoin ==
    ASSUME NEW E, Edits(E), NEW from \in Int, NEW mid \in Int, NEW to \in Int,
           from <= mid + 1, mid <= to, NEW a, NEW b, NEW d,
           Overlays(E, from, mid, a, b), Overlays(E, mid + 1, to, b, d)
    PROVE  Overlays(E, from, to, a, d)
<1> SUFFICES ASSUME NEW c \in Records
             PROVE  \/ (\A e \in E : e.record = c => e.n \notin from..to) /\ d[c] = a[c]
                    \/ \E e \in E : Last(E, e, from, to) /\ e.record = c /\ d[c] = Value(e)
  BY DEF Overlays
<1>1. CASE \E e \in E : Last(E, e, mid + 1, to) /\ e.record = c /\ d[c] = Value(e)
  BY <1>1, LaterLast
<1>2. CASE (\A e \in E : e.record = c => e.n \notin (mid + 1)..to) /\ d[c] = b[c]
  <2>1. CASE \E e \in E : Last(E, e, from, mid) /\ e.record = c /\ b[c] = Value(e)
    BY <1>2, <2>1, EarlierLast
  <2>2. CASE (\A e \in E : e.record = c => e.n \notin from..mid) /\ b[c] = a[c]
    <3>1. \A n \in Nat : n \in from..to => n \in (mid + 1)..to \/ n \in from..mid
      OBVIOUS
    <3>2. \A e \in E : e.n \in Nat
      BY EditTyped DEF Edits
    <3> QED BY <1>2, <2>2, <3>1, <3>2
  <2> QED BY <2>1, <2>2, OverlaysRow
<1> QED BY <1>1, <1>2, OverlaysRow

LEMMA KeepsJoin ==
    ASSUME NEW E, Edits(E), NEW from \in Int, NEW mid \in Int, NEW to \in Int,
           from <= mid + 1, mid <= to, NEW b, NEW d,
           Keeps(E, from, mid, b), Overlays(E, mid + 1, to, b, d)
    PROVE  Keeps(E, from, to, d)
<1> SUFFICES ASSUME NEW e \in E, Last(E, e, from, to) PROVE d[e.record] = Value(e)
  BY DEF Keeps
<1>0. e.record \in Records /\ e.n \in from..to /\ \A x \in E : x.n \in Nat
  BY EditTyped DEF Edits, Last
<1>1. CASE \E x \in E : Last(E, x, mid + 1, to) /\ x.record = e.record /\ d[e.record] = Value(x)
  BY <1>1, LaterLast, LastUnique
<1>2. CASE (\A x \in E : x.record = e.record => x.n \notin (mid + 1)..to) /\ d[e.record] = b[e.record]
  <2>1. \A n \in Nat : n \in from..mid => n \in from..to
    OBVIOUS
  <2>2. \A n \in Nat : n \in from..to /\ n \notin (mid + 1)..to => n \in from..mid
    OBVIOUS
  <2>3. Last(E, e, from, mid)
    BY <1>0, <1>2, <2>1, <2>2 DEF Last
  <2> QED BY <1>2, <2>3 DEF Keeps
<1> QED BY <1>0, <1>1, <1>2, OverlaysRow

LEMMA OverlaysSplit ==
    ASSUME NEW E, Edits(E), NEW from \in Int, NEW mid \in Int, NEW to \in Int,
           from <= mid + 1, mid <= to, NEW a, NEW b, NEW d,
           Overlays(E, from, mid, a, b), Overlays(E, from, to, a, d)
    PROVE  Overlays(E, mid + 1, to, b, d)
<1> SUFFICES ASSUME NEW c \in Records
             PROVE  \/ (\A e \in E : e.record = c => e.n \notin (mid + 1)..to) /\ d[c] = b[c]
                    \/ \E e \in E : Last(E, e, mid + 1, to) /\ e.record = c /\ d[c] = Value(e)
  BY DEF Overlays
<1>0. \A n \in Nat : n \in (mid + 1)..to \/ n \in from..mid => n \in from..to
  OBVIOUS
<1>1. CASE \E x \in E : x.record = c /\ x.n \in (mid + 1)..to
  <2>1. PICK e \in E : Last(E, e, mid + 1, to) /\ e.record = c
    BY <1>1, LastOf
  <2>2. Last(E, e, from, to)
    BY <2>1, LaterLast
  <2>3. d[c] = Value(e)
    BY <2>1, <2>2, OverlaysKeeps DEF Keeps
  <2> QED BY <2>1, <2>3
<1>2. CASE \A x \in E : x.record = c => x.n \notin (mid + 1)..to
  <2>1. CASE \E e \in E : Last(E, e, from, mid) /\ e.record = c /\ b[c] = Value(e)
    <3>1. PICK e \in E : Last(E, e, from, mid) /\ e.record = c /\ b[c] = Value(e)
      BY <2>1
    <3>2. Last(E, e, from, to)
      BY <1>2, <3>1, EarlierLast
    <3>3. d[c] = Value(e)
      BY <3>1, <3>2, OverlaysKeeps DEF Keeps
    <3> QED BY <1>2, <3>1, <3>3
  <2>2. CASE (\A e \in E : e.record = c => e.n \notin from..mid) /\ b[c] = a[c]
    <3>1. \A n \in Nat : n \in from..to => n \in (mid + 1)..to \/ n \in from..mid
      OBVIOUS
    <3>2. \A e \in E : e.n \in Nat
      BY EditTyped DEF Edits
    <3>3. \A e \in E : e.record = c => e.n \notin from..to
      BY <1>2, <2>2, <3>1, <3>2
    <3>4. d[c] = a[c]
      BY <3>3, OverlaysRow DEF Last
    <3> QED BY <1>2, <2>2, <3>4
  <2> QED BY <2>1, <2>2, OverlaysRow
<1> QED BY <1>1, <1>2

LEMMA OverlaysRows ==
    ASSUME NEW E, Edits(E), NEW from \in Int, NEW to \in Int, NEW n \in Int, n <= to,
           NEW base, NEW doc, Rows(base, n), Overlays(E, from, to, base, doc)
    PROVE  Rows(doc, to)
<1> SUFFICES ASSUME NEW c \in Records, doc[c] \in 1..MaxEdits PROVE doc[c] <= to
  BY DEF Rows
<1>1. CASE doc[c] = base[c]
  <2>1. base[c] \in Int /\ base[c] <= n
    BY <1>1, Bounds DEF Rows
  <2> QED BY <1>1, <2>1
<1>2. CASE \E e \in E : Last(E, e, from, to) /\ e.record = c /\ doc[c] = Value(e)
  <2>1. PICK e \in E : e.n \in from..to /\ doc[c] = Value(e)
    BY <1>2 DEF Last
  <2>2. Value(e) # Absent
    BY <2>1, Bounds DEF Absent
  <2>3. Value(e) = e.n /\ e.n \in Nat
    BY <2>2, EditTyped DEF Edits
  <2> QED BY <2>1, <2>3
<1> QED BY <1>1, <1>2, OverlaysRow

LEMMA EmptyOverlays ==
    ASSUME NEW E, NEW from \in Int, NEW to \in Int, to < from, NEW base, NEW doc
    PROVE  Overlays(E, from, to, base, doc) <=> \A c \in Records : doc[c] = base[c]
<1>1. from..to = {}
  OBVIOUS
<1> QED BY <1>1 DEF Overlays, Last

LEMMA NothingOverlays ==
    ASSUME NEW E, NEW from \in Int, NEW to \in Int, to < from, NEW doc
    PROVE  Overlays(E, from, to, doc, doc)
BY EmptyOverlays

LEMMA NothingChanged ==
    ASSUME NEW E, NEW from \in Int, NEW to \in Int, to < from, NEW base, NEW doc,
           Overlays(E, from, to, base, doc)
    PROVE  \A c \in Records : doc[c] = base[c]
BY EmptyOverlays

LEMMA SameDocument ==
    ASSUME NEW a \in Documents, NEW b \in Documents, \A c \in Records : a[c] = b[c]
    PROVE  a = b
BY DEF Documents

LEMMA OverlaysTyped ==
    ASSUME NEW E, Edits(E), NEW from, NEW to, NEW base \in Documents,
           NEW doc, doc = [c \in Records |-> doc[c]], Overlays(E, from, to, base, doc)
    PROVE  doc \in Documents
<1>1. ASSUME NEW c \in Records PROVE doc[c] \in -1..(MaxEdits + MaxRemote)
  <2>1. \A e \in E : Value(e) \in -1..(MaxEdits + MaxRemote)
    BY EditTyped DEF Edits
  <2> QED BY <2>1, OverlaysRow DEF Documents
<1> QED BY <1>1 DEF Documents

\* A later edit changes nothing of the earlier ones.
LEMMA GrowLast ==
    ASSUME NEW E, NEW F, NEW from, NEW to, E \subseteq F, \A x \in F : x \in E \/ x.n \notin from..to,
           NEW e
    PROVE  Last(E, e, from, to) <=> Last(F, e, from, to)
BY DEF Last

LEMMA GrowOverlays ==
    ASSUME NEW E, NEW F, NEW from, NEW to, E \subseteq F, \A x \in F : x \in E \/ x.n \notin from..to
    PROVE  /\ \A base, doc : Overlays(E, from, to, base, doc) <=> Overlays(F, from, to, base, doc)
           /\ \A doc : Keeps(E, from, to, doc) <=> Keeps(F, from, to, doc)
<1>1. \A e : Last(E, e, from, to) <=> Last(F, e, from, to)
  BY GrowLast
<1>2. ASSUME NEW base, NEW doc
      PROVE  Overlays(E, from, to, base, doc) <=> Overlays(F, from, to, base, doc)
  <2>1. ASSUME NEW c \in Records
        PROVE  (\A e \in E : e.record = c => e.n \notin from..to)
                   <=> (\A e \in F : e.record = c => e.n \notin from..to)
    OBVIOUS
  <2>2. ASSUME NEW c \in Records
        PROVE  (\E e \in E : Last(E, e, from, to) /\ e.record = c /\ doc[c] = Value(e))
                   <=> (\E e \in F : Last(F, e, from, to) /\ e.record = c /\ doc[c] = Value(e))
    BY <1>1 DEF Last
  <2> QED BY <2>1, <2>2 DEF Overlays
<1>3. ASSUME NEW doc PROVE Keeps(E, from, to, doc) <=> Keeps(F, from, to, doc)
  BY <1>1 DEF Keeps, Last
<1> QED BY <1>2, <1>3

\* An edit made on a document.
LEMMA ApplyRow ==
    ASSUME NEW doc \in Documents, NEW e \in EditSet
    PROVE  /\ Apply(doc, e) \in Documents /\ Apply(doc, e)[e.record] = Value(e)
           /\ \A c \in Records : c # e.record => Apply(doc, e)[c] = doc[c]
<1>1. e.record \in Records /\ Value(e) \in -1..(MaxEdits + MaxRemote)
  BY EditTyped
<1> QED BY <1>1 DEF Apply, Documents

LEMMA EditLast ==
    ASSUME NEW E, Edits(E), NEW from \in Int, NEW to \in Int, from <= to + 1,
           \A x \in E : x.n <= to, NEW e \in EditSet, e.n = to + 1
    PROVE  /\ Last(E \cup {e}, e, from, to + 1)
           /\ \A x \in E : x.record # e.record =>
                 (Last(E \cup {e}, x, from, to + 1) <=> Last(E, x, from, to))
           /\ \A x \in E : x.record = e.record => ~Last(E \cup {e}, x, from, to + 1)
<1>1. \A x \in E : x.n \in Nat
  BY EditTyped DEF Edits
<1>2. e.n \in from..(to + 1)
  OBVIOUS
<1>3. \A x \in E : x.n \in from..(to + 1) <=> x.n \in from..to
  BY <1>1
<1>4. \A x \in E : x.n < e.n
  BY <1>1
<1>5. Last(E \cup {e}, e, from, to + 1)
  BY <1>1, <1>2, <1>4 DEF Last
<1>6. ASSUME NEW x \in E, x.record # e.record
      PROVE  Last(E \cup {e}, x, from, to + 1) <=> Last(E, x, from, to)
  BY <1>3, <1>6 DEF Last
<1>7. ASSUME NEW x \in E, x.record = e.record, Last(E \cup {e}, x, from, to + 1) PROVE FALSE
  <2>1. e.n <= x.n /\ x.n < e.n /\ x.n \in Nat /\ e.n \in Int
    BY <1>1, <1>2, <1>4, <1>7 DEF Last
  <2> QED BY <2>1
<1> QED BY <1>5, <1>6, <1>7

LEMMA EditOverlays ==
    ASSUME NEW E, Edits(E), NEW from \in Int, NEW to \in Int, from <= to + 1,
           \A x \in E : x.n <= to, NEW e \in EditSet, e.n = to + 1,
           NEW base, NEW doc \in Documents, Overlays(E, from, to, base, doc)
    PROVE  Overlays(E \cup {e}, from, to + 1, base, Apply(doc, e))
<1> PICK F : F = E \cup {e}
  OBVIOUS
<1> PICK d : d = Apply(doc, e)
  OBVIOUS
<1> SUFFICES ASSUME NEW c \in Records
             PROVE  \/ (\A x \in F : x.record = c => x.n \notin from..(to + 1)) /\ d[c] = base[c]
                    \/ \E x \in F : Last(F, x, from, to + 1) /\ x.record = c /\ d[c] = Value(x)
  BY DEF Overlays
<1>0. /\ \A x \in E : x.n \in Nat
      /\ Last(F, e, from, to + 1)
      /\ \A x \in E : x.record # e.record => (Last(F, x, from, to + 1) <=> Last(E, x, from, to))
  BY EditTyped, EditLast DEF Edits
<1>1. CASE c = e.record
  BY <1>0, <1>1, ApplyRow
<1>2. CASE c # e.record
  <2>1. d[c] = doc[c]
    BY <1>2, ApplyRow
  <2>2. \A x \in E : x.n \in from..(to + 1) <=> x.n \in from..to
    BY <1>0
  <2>3. CASE (\A x \in E : x.record = c => x.n \notin from..to) /\ doc[c] = base[c]
    BY <1>2, <2>1, <2>2, <2>3
  <2>4. CASE \E x \in E : Last(E, x, from, to) /\ x.record = c /\ doc[c] = Value(x)
    BY <1>0, <1>2, <2>1, <2>4
  <2>5. \/ (\A x \in E : x.record = c => x.n \notin from..to) /\ doc[c] = base[c]
        \/ \E x \in E : Last(E, x, from, to) /\ x.record = c /\ doc[c] = Value(x)
    BY DEF Overlays
  <2> QED BY <2>3, <2>4, <2>5
<1> QED BY <1>1, <1>2

LEMMA EditKeeps ==
    ASSUME NEW E, Edits(E), NEW from \in Int, NEW to \in Int, from <= to + 1,
           \A x \in E : x.n <= to, NEW e \in EditSet, e.n = to + 1,
           NEW doc \in Documents, Keeps(E, from, to, doc)
    PROVE  Keeps(E \cup {e}, from, to + 1, Apply(doc, e))
<1> PICK F : F = E \cup {e}
  OBVIOUS
<1> PICK d : d = Apply(doc, e)
  OBVIOUS
<1> SUFFICES ASSUME NEW x \in F, Last(F, x, from, to + 1) PROVE d[x.record] = Value(x)
  BY DEF Keeps
<1>0. /\ Last(F, e, from, to + 1)
      /\ \A y \in E : y.record # e.record => (Last(F, y, from, to + 1) <=> Last(E, y, from, to))
      /\ \A y \in E : y.record = e.record => ~Last(F, y, from, to + 1)
  BY EditLast
<1>1. CASE x = e
  BY <1>1, ApplyRow
<1>2. CASE x # e
  <2>1. x \in E /\ x.record # e.record /\ x.record \in Records
    BY <1>0, <1>2, EditTyped DEF Edits
  <2>2. Last(E, x, from, to)
    BY <1>0, <2>1
  <2> QED BY <2>1, <2>2, ApplyRow DEF Keeps
<1> QED BY <1>1, <1>2

-----------------------------------------------------------------------------
(* Replay and merge *)

LEMMA AfterRow ==
    ASSUME NEW doc, NEW es, NEW n \in Nat, NEW c \in Records
    PROVE  \/ /\ \A i \in 1..n : es[i].record # c
              /\ After(doc, es, n)[c] = doc[c]
           \/ \E i \in 1..n :
                 /\ es[i].record = c /\ \A j \in 1..n : es[j].record = c => j <= i
                 /\ After(doc, es, n)[c] = Value(es[i])
<1> PICK changes : changes = {i \in 1..n : es[i].record = c}
  OBVIOUS
<1>0. After(doc, es, n)[c] =
         IF changes = {} THEN doc[c]
         ELSE Value(es[CHOOSE i \in changes : \A j \in changes : j <= i])
  BY DEF After
<1>1. CASE changes = {}
  BY <1>0, <1>1
<1>2. CASE changes # {}
  <2>1. \E i \in changes : \A j \in changes : j <= i
    BY <1>2, LastExists
  <2>2. PICK i : i = CHOOSE k \in changes : \A j \in changes : j <= k
    OBVIOUS
  <2>3. i \in changes /\ \A j \in changes : j <= i
    BY <2>1, <2>2
  <2> QED BY <1>0, <1>2, <2>2, <2>3
<1> QED BY <1>1, <1>2

\* The edits from a position on, as a sequence.
IsTail(E, es, k) ==
    /\ es \in Seq(EditSet)
    /\ \A i \in 1..Len(es) : es[i] \in E /\ es[i].n = k + i

LEMMA ReplayOverlays ==
    ASSUME NEW E, Edits(E), NEW k \in Int, NEW es, IsTail(E, es, k), NEW doc
    PROVE  Overlays(E, k + 1, k + Len(es), doc, After(doc, es, Len(es)))
<1> PICK n : n = Len(es)
  OBVIOUS
<1> PICK d : d = After(doc, es, n)
  OBVIOUS
<1>0. n \in Nat /\ \A i \in 1..n : es[i] \in E /\ es[i].n = k + i
  BY DEF IsTail
<1>1. ASSUME NEW x \in E, x.n \in (k + 1)..(k + n)
      PROVE  x.n - k \in 1..n /\ x = es[x.n - k]
  <2>1. x.n \in Int
    BY EditTyped DEF Edits
  <2>2. x.n - k \in 1..n /\ k + (x.n - k) = x.n
    BY <1>0, <1>1, <2>1
  <2>3. es[x.n - k] \in E /\ es[x.n - k].n = x.n
    BY <1>0, <2>2
  <2> QED BY <2>2, <2>3 DEF Edits
<1> SUFFICES ASSUME NEW c \in Records
             PROVE  \/ (\A e \in E : e.record = c => e.n \notin (k + 1)..(k + n)) /\ d[c] = doc[c]
                    \/ \E e \in E : Last(E, e, k + 1, k + n) /\ e.record = c /\ d[c] = Value(e)
  BY DEF Overlays
<1>2. CASE (\A i \in 1..n : es[i].record # c) /\ d[c] = doc[c]
  BY <1>1, <1>2
<1>3. CASE \E i \in 1..n : /\ es[i].record = c /\ \A j \in 1..n : es[j].record = c => j <= i
                           /\ d[c] = Value(es[i])
  <2>1. PICK i \in 1..n : /\ es[i].record = c /\ \A j \in 1..n : es[j].record = c => j <= i
                          /\ d[c] = Value(es[i])
    BY <1>3
  <2>2. es[i] \in E /\ es[i].n = k + i /\ es[i].n \in (k + 1)..(k + n)
    BY <1>0
  <2>3. ASSUME NEW x \in E, x.record = c, x.n \in (k + 1)..(k + n) PROVE x.n <= es[i].n
    <3>1. x.n - k \in 1..n /\ x = es[x.n - k] /\ x.n \in Nat
      BY <1>1, <2>3, EditTyped DEF Edits
    <3>2. x.n - k <= i
      BY <2>1, <2>3, <3>1
    <3>3. x.n \in Int /\ i \in Int /\ k \in Int /\ es[i].n = k + i
      BY <1>0, <2>2, <3>1
    <3> QED BY ONLY <3>2, <3>3
  <2>4. Last(E, es[i], k + 1, k + n)
    BY <2>1, <2>2, <2>3 DEF Last
  <2> QED BY <2>1, <2>2, <2>4
<1>4. n \in Nat /\ c \in Records
  BY <1>0
<1>5. \/ /\ \A i \in 1..n : es[i].record # c
         /\ After(doc, es, n)[c] = doc[c]
      \/ \E i \in 1..n :
            /\ es[i].record = c /\ \A j \in 1..n : es[j].record = c => j <= i
            /\ After(doc, es, n)[c] = Value(es[i])
  BY ONLY <1>4, AfterRow
<1> QED BY <1>2, <1>3, <1>5

LEMMA ReplayTyped ==
    ASSUME NEW E, Edits(E), NEW k \in Int, NEW es, IsTail(E, es, k), NEW doc \in Documents
    PROVE  After(doc, es, Len(es)) \in Documents
<1>1. Overlays(E, k + 1, k + Len(es), doc, After(doc, es, Len(es)))
  BY ReplayOverlays
<1>2. After(doc, es, Len(es)) = [c \in Records |-> After(doc, es, Len(es))[c]]
  BY DEF After
<1> QED BY <1>1, <1>2, OverlaysTyped

\* A merge takes the edits over to the other document.
LEMMA MergeOverlays ==
    ASSUME NEW E, Edits(E), NEW from \in Int, NEW to \in Int,
           NEW base \in Documents, NEW local \in Documents, NEW remote \in Documents, NEW deletes,
           Overlays(E, from, to, base, local), Rows(base, from - 1), Within(remote, base),
           \A e \in E : e.n \in from..to /\ e.kind = "delete" => e.record \in deletes,
           NEW merged, merged = Merge3(base, local, remote, deletes)
    PROVE  /\ Overlays(E, from, to, remote, merged.doc) /\ merged.doc \in Documents
           /\ merged.conflict \in BOOLEAN
<1> PICK mine : mine = ProtectImplicitDeletes(base, local, deletes)
  OBVIOUS
<1> PICK d : d = merged.doc
  OBVIOUS
<1>0. /\ d = [c \in Records |-> IF mine[c] # base[c] THEN mine[c] ELSE remote[c]]
      /\ mine = [c \in Records |-> IF local[c] = Absent /\ c \notin deletes THEN base[c] ELSE local[c]]
      /\ merged.conflict \in BOOLEAN
  BY DEF Merge3, ProtectImplicitDeletes
<1>1. Overlays(E, from, to, remote, d)
  <2> SUFFICES ASSUME NEW c \in Records
               PROVE  \/ (\A e \in E : e.record = c => e.n \notin from..to) /\ d[c] = remote[c]
                      \/ \E e \in E : Last(E, e, from, to) /\ e.record = c /\ d[c] = Value(e)
    BY DEF Overlays
  <2>1. CASE (\A e \in E : e.record = c => e.n \notin from..to) /\ local[c] = base[c]
    BY <1>0, <2>1
  <2>2. CASE \E e \in E : Last(E, e, from, to) /\ e.record = c /\ local[c] = Value(e)
    <3>1. PICK e \in E : Last(E, e, from, to) /\ e.record = c /\ local[c] = Value(e)
      BY <2>2
    <3>2. e.n \in from..to /\ e.n \in Nat /\ e.n \in Numbers /\ (Value(e) = Absent <=> e.kind = "delete")
          /\ (e.kind # "delete" => Value(e) = e.n)
      BY <3>1, EditTyped DEF Edits, Last
    <3>3. mine[c] = Value(e)
      BY <1>0, <3>1, <3>2
    <3>4. CASE Value(e) # base[c]
      BY <1>0, <3>1, <3>3, <3>4
    <3>5. CASE Value(e) = base[c]
      <4>1. base[c] = Absent
        <5> SUFFICES ASSUME base[c] # Absent PROVE FALSE
          OBVIOUS
        <5>1. base[c] = e.n /\ base[c] \in 1..MaxEdits
          BY <3>2, <3>5 DEF Numbers
        <5>2. e.n <= from - 1
          BY <5>1 DEF Rows
        <5> QED BY <3>2, <5>2
      <4>2. remote[c] = Absent
        BY <4>1 DEF Within
      <4> QED BY <1>0, <3>1, <3>3, <3>5, <4>1, <4>2
    <3> QED BY <3>4, <3>5
  <2> QED BY <2>1, <2>2, OverlaysRow
<1>2. d = [c \in Records |-> d[c]]
  BY <1>0
<1> QED BY <1>0, <1>1, <1>2, OverlaysTyped

LEMMA OverlaysWithin ==
    ASSUME NEW E, Edits(E), NEW from, NEW to, NEW base, NEW local, NEW remote, NEW doc,
           Overlays(E, from, to, base, local), Overlays(E, from, to, remote, doc),
           Within(remote, base)
    PROVE  Within(doc, local)
<1> SUFFICES ASSUME NEW c \in Records, doc[c] # Absent PROVE local[c] # Absent
  BY DEF Within
<1>1. CASE \E e \in E : Last(E, e, from, to) /\ e.record = c /\ doc[c] = Value(e)
  BY <1>1, OverlaysKeeps DEF Keeps
<1>2. CASE (\A e \in E : e.record = c => e.n \notin from..to) /\ doc[c] = remote[c]
  <2>1. local[c] = base[c]
    BY <1>2, OverlaysRow DEF Last
  <2> QED BY <1>2, <2>1 DEF Within
<1> QED BY <1>1, <1>2, OverlaysRow

-----------------------------------------------------------------------------
(* The state, read *)

LEMMA StageOf ==
    ASSUME NEW s \in SyncSet
    PROVE  \/ s \in Plain /\ s.stage \in {"idle", "failed", "dead"}
           \/ s \in Calling /\ s.stage \in {"rpc", "rejected"}
           \/ s \in Answered /\ s.stage = "ack"
           \/ s \in Acking /\ s.stage = "commitAck"
           \/ s \in Refetched /\ s.stage = "rebase"
           \/ s \in Materializing /\ s.stage = "materialize"
           \/ s \in Rebasing /\ s.stage = "commitRebase"
           \/ s \in Publishing /\ s.stage \in {"publish", "recover"}
           \/ s \in Recovering /\ s.stage \in {"recoverCommit", "recoverPublish"}
           \/ s \in Fencing /\ s.stage = "fence"
           \/ s \in Polled /\ s.stage = "polled"
<1>1. s \in Plain => s.stage \in {"idle", "failed", "dead"}
  BY DEF Plain
<1>2. s \in Calling => s.stage \in {"rpc", "rejected"}
  BY DEF Calling
<1>3. s \in Answered => s.stage = "ack"
  BY DEF Answered
<1>4. s \in Acking => s.stage = "commitAck"
  BY DEF Acking
<1>5. s \in Refetched => s.stage = "rebase"
  BY DEF Refetched
<1>6. s \in Materializing => s.stage = "materialize"
  BY DEF Materializing
<1>7. s \in Rebasing => s.stage = "commitRebase"
  BY DEF Rebasing
<1>8. s \in Publishing => s.stage \in {"publish", "recover"}
  BY DEF Publishing
<1>9. s \in Recovering => s.stage \in {"recoverCommit", "recoverPublish"}
  BY DEF Recovering
<1>10. s \in Fencing => s.stage = "fence"
  BY DEF Fencing
<1>11. s \in Polled => s.stage = "polled"
  BY DEF Polled
<1> QED BY <1>1, <1>2, <1>3, <1>4, <1>5, <1>6, <1>7, <1>8, <1>9, <1>10, <1>11 DEF SyncSet

LEMMA HeadTyped ==
    ASSUME NEW h \in HeadSet
    PROVE  /\ h.seq \in Seqs /\ h.seq \in Nat /\ h.cp \in Points /\ h.journal \subseteq OpSet
           /\ h.base \subseteq BaseSet /\ h.flight \subseteq FlightSet
           /\ h.control \in Maybe(ControlSet) /\ h.epoch = Epoch /\ h.writer = Device
BY Bounds DEF HeadSet

LEMMA EditsFacts ==
    ASSUME Typed, EditsOk
    PROVE  /\ Edits(AllEdits) /\ edited \in Nat /\ disk.seq \in Nat /\ disk.seq <= edited
           /\ Len(log) \in Nat /\ edited = disk.seq + Len(log)
           /\ \A e \in AllEdits : e.n \in Nat /\ 1 <= e.n /\ e.n <= edited
           /\ \A n \in 1..disk.seq : EditAt(n) \in AllEdits /\ EditAt(n).n = n
           /\ \A n \in 1..disk.seq : \E op \in disk.journal : op.seq = n /\ op.id = EditAt(n)
           /\ \A i \in 1..Len(log) : log[i] \in AllEdits /\ log[i].n = disk.seq + i
           /\ \A op \in disk.journal : op.id \in AllEdits /\ op.seq \in 1..disk.seq /\ op.id.n = op.seq
<1>0. /\ disk.seq \in Nat /\ disk.journal \subseteq OpSet /\ log \in Seq(EditSet)
      /\ edited \in Nat /\ Len(log) \in Nat /\ DOMAIN log = 1..Len(log)
  BY HeadTyped, Bounds DEF Typed
<1>1. /\ \A op \in disk.journal : op.seq \in 1..disk.seq /\ op.id.n = op.seq /\ op.id \in EditSet
      /\ \A o, p \in disk.journal : o.seq = p.seq => o = p
      /\ \A n \in 1..disk.seq : \E op \in disk.journal : op.seq = n
      /\ \A i \in 1..Len(log) : log[i].n = disk.seq + i /\ log[i] \in EditSet
      /\ edited = disk.seq + Len(log)
  BY <1>0 DEF EditsOk, JournalFull, JournalKeysOk, OpSet
<1>2. \A n \in 1..disk.seq : \E op \in disk.journal : op.seq = n /\ op.id = EditAt(n)
  BY <1>1 DEF EditAt
<1>3. AllEdits = {op.id : op \in disk.journal} \cup {log[i] : i \in 1..Len(log)}
  BY <1>0 DEF AllEdits
<1>4. \A e \in AllEdits : e \in EditSet /\ e.n \in Nat /\ 1 <= e.n /\ e.n <= edited
  BY <1>0, <1>1, <1>3, EditTyped
<1>9. \A e \in AllEdits : (\E op \in disk.journal : e = op.id) \/ \E i \in 1..Len(log) : e = log[i]
  BY <1>3
<1>5. ASSUME NEW e \in AllEdits, NEW x \in AllEdits, e.n = x.n PROVE e = x
  <2>1. CASE e.n <= disk.seq
    <3>1. \A i \in 1..Len(log) : log[i].n > disk.seq
      BY <1>0, <1>1
    <3>2. PICK o \in disk.journal : e = o.id
      BY <1>0, <1>4, <1>9, <2>1, <3>1
    <3>3. PICK p \in disk.journal : x = p.id
      BY <1>0, <1>4, <1>5, <1>9, <2>1, <3>1
    <3> QED BY <1>1, <1>5, <3>2, <3>3
  <2>2. CASE ~ (e.n <= disk.seq)
    <3>1. \A op \in disk.journal : op.id.n <= disk.seq
      BY <1>0, <1>1
    <3>2. PICK i \in 1..Len(log), j \in 1..Len(log) : e = log[i] /\ x = log[j]
      BY <1>5, <1>9, <2>2, <3>1
    <3>3. i = j
      BY <1>0, <1>1, <1>5, <3>2
    <3> QED BY <3>2, <3>3
  <2> QED BY <2>1, <2>2
<1>6. Edits(AllEdits)
  BY <1>4, <1>5 DEF Edits
<1>7. \A n \in 1..disk.seq : EditAt(n) \in AllEdits /\ EditAt(n).n = n
  BY <1>1, <1>2, <1>3
<1> QED BY <1>0, <1>1, <1>2, <1>3, <1>4, <1>6, <1>7

\* One sequence behind the other.
IsJoin(both, es, late) == both = es \o late

LEMMA JoinTail ==
    ASSUME NEW E, NEW k \in Nat, NEW es, IsTail(E, es, k), Len(es) \in Nat,
           NEW late, IsTail(E, late, k + Len(es)), NEW both, IsJoin(both, es, late)
    PROVE  IsTail(E, both, k) /\ Len(both) = Len(es) + Len(late)
<1> PICK m : m = Len(es)
  OBVIOUS
<1>a. m \in Nat /\ late \in Seq(EditSet)
      /\ \A i \in 1..Len(late) : late[i] \in E /\ late[i].n = k + m + i
  BY DEF IsTail
<1>0. es \in Seq(EditSet) /\ Len(late) \in Nat /\ \A i \in 1..m : es[i] \in E /\ es[i].n = k + i
  BY <1>a DEF IsTail
<1>1. /\ es \o late \in Seq(EditSet) /\ Len(es \o late) = Len(es) + Len(late)
      /\ \A i \in 1 .. Len(es) + Len(late) :
            (es \o late)[i] = IF i <= Len(es) THEN es[i] ELSE late[i - Len(es)]
  BY <1>a, <1>0, ConcatProperties
<1>2. /\ both \in Seq(EditSet) /\ Len(both) = m + Len(late)
      /\ \A i \in 1 .. m + Len(late) : both[i] = IF i <= m THEN es[i] ELSE late[i - m]
  BY <1>1 DEF IsJoin
<1>3. ASSUME NEW i \in 1..(m + Len(late)) PROVE both[i] \in E /\ both[i].n = k + i
  <2>1. CASE i <= m
    <3>1. i \in 1..m
      BY <1>0, <2>1
    <3>2. both[i] = es[i]
      BY <1>2, <2>1
    <3> QED BY <1>0, <3>1, <3>2
  <2>2. CASE ~ (i <= m)
    <3>1. i - m \in 1..Len(late) /\ k + m + (i - m) = k + i
      BY <1>a, <1>0, <2>2
    <3>2. both[i] = late[i - m]
      BY <1>2, <2>2
    <3> QED BY <1>a, <3>1, <3>2
  <2> QED BY <2>1, <2>2
<1> QED BY <1>2, <1>3 DEF IsTail

LEMMA TailFacts ==
    ASSUME Typed, EditsOk, NEW k \in Nat, k <= disk.seq
    PROVE  /\ IsTail(AllEdits, EditsAfter(k), k) /\ Len(EditsAfter(k)) = disk.seq - k
           /\ IsTail(AllEdits, EditsAfter(k) \o log, k) /\ Len(EditsAfter(k) \o log) = edited - k
<1>0. disk.seq - k \in Nat /\ disk.seq \in Nat /\ edited \in Nat /\ Len(log) \in Nat /\ edited = disk.seq + Len(log)
      /\ log \in Seq(EditSet)
  BY EditsFacts DEF Typed
<1> PICK m : m = disk.seq - k
  OBVIOUS
<1> PICK es : es = EditsAfter(k)
  OBVIOUS
<1>1. \A i \in 1..m : k + i \in 1..disk.seq
  BY <1>0
<1>2. es = [i \in 1..m |-> EditAt(k + i)] /\ m \in Nat
  BY <1>0 DEF EditsAfter
<1>3. \A i \in 1..m : EditAt(k + i) \in AllEdits /\ EditAt(k + i).n = k + i /\ EditAt(k + i) \in EditSet
  BY <1>1, EditsFacts DEF Edits
<1>4. es \in Seq(EditSet) /\ Len(es) = m /\ \A i \in 1..m : es[i] \in AllEdits /\ es[i].n = k + i
  BY <1>2, <1>3
<1> PICK late : late = log
  OBVIOUS
<1>5. late \in Seq(EditSet) /\ Len(late) \in Nat
      /\ \A i \in 1..Len(late) : late[i] \in AllEdits /\ late[i].n = k + m + i
  <2>1. disk.seq = k + m
    BY <1>0
  <2> QED BY <1>0, <2>1, EditsFacts
<1>6. IsTail(AllEdits, es, k)
  BY <1>4 DEF IsTail
<1>7. PICK E : E = AllEdits
  OBVIOUS
<1>8. IsTail(E, late, k + Len(es)) /\ IsTail(E, es, k) /\ Len(es) \in Nat
  BY <1>2, <1>4, <1>5, <1>6, <1>7 DEF IsTail
<1> PICK both : IsJoin(both, es, late)
  BY DEF IsJoin
<1>11. both = EditsAfter(k) \o log
  BY DEF IsJoin
<1>12. IsTail(E, both, k) /\ Len(both) = Len(es) + Len(late)
  BY <1>8, JoinTail
<1>10. m + Len(late) = edited - k
  BY <1>0
<1> QED BY <1>4, <1>6, <1>7, <1>10, <1>11, <1>12

\* What a reload recovers is the checkpoint with the edits after it on it.
LEMMA RecoveredOverlays ==
    ASSUME Typed, EditsOk, disk.cp.seq <= disk.seq
    PROVE  /\ Recovered.doc \in Documents
           /\ Overlays(AllEdits, disk.cp.seq + 1, edited, disk.cp.state, Recovered.doc)
           /\ Recovered = [ok |-> Recovered.ok, doc |-> Recovered.doc]
<1> PICK k : k = disk.cp.seq
  OBVIOUS
<1> PICK E : E = AllEdits
  OBVIOUS
<1> PICK doc : doc = disk.cp.state
  OBVIOUS
<1>0. k \in Nat /\ doc \in Documents /\ edited \in Nat
  BY HeadTyped, Bounds DEF Typed, Points
<1>1. Edits(E)
  BY EditsFacts
<1>2. PICK es : IsTail(E, es, k) /\ Len(es) = edited - k /\ Recovered = Replay(doc, es)
  BY <1>0, TailFacts DEF Recovered
<1>3. Recovered.doc = After(doc, es, Len(es)) /\ Recovered = [ok |-> Recovered.ok, doc |-> Recovered.doc]
  BY <1>2 DEF Replay
<1>4. k + Len(es) = edited
  <2>1. k \in Nat /\ edited \in Nat /\ Len(es) = edited - k
    BY <1>0, <1>2
  <2> QED BY ONLY <2>1
<1>5. Overlays(E, k + 1, k + Len(es), doc, After(doc, es, Len(es)))
  <2>1. k \in Int /\ Edits(E) /\ IsTail(E, es, k)
    BY <1>0, <1>1, <1>2
  <2> QED BY ONLY <2>1, ReplayOverlays
<1>6. After(doc, es, Len(es)) \in Documents
  BY <1>0, <1>1, <1>2, ReplayTyped
<1>7. Recovered.doc \in Documents /\ Overlays(E, k + 1, edited, doc, Recovered.doc)
  BY ONLY <1>3, <1>4, <1>5, <1>6
<1> QED BY <1>3, <1>7

\* The edits committed after k, on another document.
LEMMA CommittedOverlays ==
    ASSUME Typed, EditsOk, NEW k \in Nat, k <= disk.seq, NEW doc \in Documents
    PROVE  /\ Replay(doc, EditsAfter(k)).doc \in Documents
           /\ Overlays(AllEdits, k + 1, disk.seq, doc, Replay(doc, EditsAfter(k)).doc)
<1> PICK E : E = AllEdits
  OBVIOUS
<1> PICK es : es = EditsAfter(k)
  OBVIOUS
<1>1. Edits(E) /\ IsTail(E, es, k) /\ Len(es) = disk.seq - k /\ disk.seq \in Nat
  BY EditsFacts, TailFacts
<1>2. k + Len(es) = disk.seq
  BY <1>1
<1>3. Replay(doc, es).doc = After(doc, es, Len(es))
  BY DEF Replay
<1>4. Overlays(E, k + 1, k + Len(es), doc, After(doc, es, Len(es))) /\ After(doc, es, Len(es)) \in Documents
  BY <1>1, ReplayOverlays, ReplayTyped
<1> QED BY <1>2, <1>3, <1>4

\* The deletions of a range of committed edits are declared.
LEMMA DeletesDeclared ==
    ASSUME Typed, EditsOk, NEW from \in Nat, from >= 1, NEW to \in Int, to <= disk.seq
    PROVE  \A e \in AllEdits : e.n \in from..to /\ e.kind = "delete" => e.record \in DeleteIntents(from, to)
<1> SUFFICES ASSUME NEW e \in AllEdits, e.n \in from..to, e.kind = "delete"
             PROVE  e.record \in DeleteIntents(from, to)
  OBVIOUS
<1>1. e.n \in 1..disk.seq
  BY EditsFacts
<1>2. PICK op \in disk.journal : op.seq = e.n /\ op.id = EditAt(e.n)
  BY <1>1, EditsFacts
<1>3. op.id = e
  BY <1>1, <1>2, EditsFacts DEF Edits
<1> QED BY <1>2, <1>3 DEF DeleteIntents

LEMMA OverlaysUnique ==
    ASSUME NEW E, Edits(E), NEW from, NEW to, NEW base, NEW a \in Documents, NEW b \in Documents,
           Overlays(E, from, to, base, a), Overlays(E, from, to, base, b)
    PROVE  a = b
<1>1. ASSUME NEW c \in Records PROVE a[c] = b[c]
  <2>1. CASE \E e \in E : Last(E, e, from, to) /\ e.record = c /\ a[c] = Value(e)
    <3>1. PICK e \in E : Last(E, e, from, to) /\ e.record = c /\ a[c] = Value(e)
      BY <2>1
    <3> QED BY <3>1, OverlaysKeeps DEF Keeps
  <2>2. CASE (\A e \in E : e.record = c => e.n \notin from..to) /\ a[c] = base[c]
    BY <2>2, OverlaysRow DEF Last
  <2> QED BY <2>1, <2>2, OverlaysRow
<1> QED BY <1>1, SameDocument

LEMMA KeepsLater ==
    ASSUME NEW E, Edits(E), NEW from \in Int, NEW mid \in Int, NEW to \in Int, from <= mid + 1,
           NEW doc, Keeps(E, from, to, doc)
    PROVE  Keeps(E, mid + 1, to, doc)
BY LaterLast DEF Keeps, Last

LEMMA TailUnique ==
    ASSUME NEW E, Edits(E), NEW k \in Int, NEW a, NEW b, IsTail(E, a, k), IsTail(E, b, k),
           Len(a) = Len(b)
    PROVE  a = b
<1>1. \A i \in 1..Len(a) : a[i] = b[i]
  BY DEF IsTail, Edits
<1>2. a \in Seq(EditSet) /\ b \in Seq(EditSet)
  BY DEF IsTail
<1> QED BY <1>1, <1>2

\* Committed edits are in the range of a head; those of the log come after.
LEMMA StateFacts ==
    ASSUME IInv
    PROVE  /\ Typed /\ EditsOk /\ BaseOk /\ ServerOk
           /\ Base \in BaseSet /\ disk.base = {Base}
           /\ Base.revision \in Nat /\ 1 <= Base.revision /\ Base.revision <= Revision
           /\ Base.ackSeq \in Nat /\ Base.ackSeq <= disk.cp.seq /\ disk.cp.seq <= disk.seq
           /\ disk.seq <= edited /\ edited <= MaxEdits
           /\ disk.cp.seq \in Nat /\ disk.seq \in Nat /\ edited \in Nat /\ Revision \in Nat
           /\ Base.state \in Documents /\ disk.cp.state \in Documents /\ disk.cp \in Points
           /\ view \in Documents /\ Edits(AllEdits)
<1>1. Typed /\ EditsOk /\ BaseOk /\ ServerOk
  BY DEF IInv, Safe
<1>2. Base \in BaseSet /\ disk.base = {Base}
  BY <1>1, HeadTyped DEF BaseOk, Typed
<1>3. Base.revision \in Nat /\ Base.ackSeq \in Nat /\ Base.state \in Documents
  BY <1>2, Bounds DEF BaseSet
<1>4. disk.cp \in Points /\ disk.cp.seq \in Nat /\ disk.cp.state \in Documents
  BY <1>1, HeadTyped, Bounds DEF Typed, Points
<1>5. Revision \in Nat
  BY <1>1 DEF Typed, Revision
<1>6. edited <= MaxEdits /\ view \in Documents
  BY <1>1, Bounds DEF Typed, Seqs
<1>7. 1 <= Base.revision /\ Base.revision <= Revision
  BY <1>1, <1>3, <1>5 DEF BaseOk, HasVersion
<1> QED BY <1>1, <1>2, <1>3, <1>4, <1>5, <1>6, <1>7, EditsFacts DEF BaseOk

LEMMA VersionTyped ==
    ASSUME Typed, NEW i \in 1..Revision
    PROVE  server.versions[i].doc \in Documents /\ server.versions[i].by \subseteq RequestSet
<1>1. server.versions \in Seq(VersionSet) /\ i \in 1..Len(server.versions)
  BY DEF Typed, Revision
<1>2. server.versions[i] \in VersionSet
  BY <1>1
<1> QED BY <1>2 DEF VersionSet

\* The server's current row.
LEMMA RowTyped ==
    ASSUME IInv
    PROVE  Row \in RowSet /\ HasVersion(Row.revision, Row.doc) /\ Row.revision = Revision
<1>1. /\ Revision \in Nat /\ Revision # 0 /\ Revision \in 1..Revision /\ Document \in Documents
  BY StateFacts, VersionTyped DEF Typed, Document
<1>2. \A r \in requests : r.flight.endSeq <= MaxEdits
  BY DEF IInv, Typed, RequestSet, FlightSet, Numbers
<1>3. Revision <= RemoteSaves + 1 + MaxEdits /\ RemoteSaves \in 0..MaxRemote
  BY <1>2, StateFacts, Bounds DEF ServerOk, Counted
<1>4. Revision \in Revisions
  BY <1>1, <1>3, Bounds DEF Revisions
<1> QED BY <1>1, <1>4 DEF Row, RowSet, HasVersion, Document

\* The screen between two publications: the base with every edit not yet acknowledged.
LEMMA ViewOverlays ==
    ASSUME IInv, Shown
    PROVE  /\ Overlays(AllEdits, disk.cp.seq + 1, edited, disk.cp.state, view)
           /\ Overlays(AllEdits, Base.ackSeq + 1, edited, Base.state, view)
           /\ Rows(view, edited)
<1> PICK E : E = AllEdits
  OBVIOUS
<1> PICK ack, at : ack = Base.ackSeq /\ at = disk.cp.seq
  OBVIOUS
<1> PICK base, cp, v : base = Base.state /\ cp = disk.cp.state /\ v = view
  OBVIOUS
<1>1. /\ Edits(E) /\ ack \in Nat /\ at \in Nat /\ edited \in Nat /\ ack <= at /\ at <= edited
      /\ v \in Documents
  BY StateFacts
<1>2. Recovered.doc = v
  BY DEF IInv, Safe, ViewOk
<1>3. Overlays(E, at + 1, edited, cp, v)
  BY <1>2, StateFacts, RecoveredOverlays
<1>4. Overlays(E, ack + 1, at, base, cp) /\ Rows(base, ack)
  BY StateFacts DEF BaseOk, Shown
<1> PICK n : n = edited
  OBVIOUS
<1>5. Overlays(E, ack + 1, n, base, v)
  BY <1>1, <1>3, <1>4, OverlaysJoin
<1>6. Rows(v, n)
  BY <1>1, <1>4, <1>5, OverlaysRows
<1> QED BY <1>3, <1>5, <1>6

LEMMA RecoveredEmpty ==
    ASSUME Typed, EditsOk, disk.cp.seq <= disk.seq, disk.cp.seq = edited
    PROVE  Recovered = [ok |-> TRUE, doc |-> disk.cp.state]
<1> PICK k : k = disk.cp.seq
  OBVIOUS
<1> PICK doc : doc = disk.cp.state
  OBVIOUS
<1>0. k \in Nat /\ k <= disk.seq /\ edited \in Nat /\ k = edited /\ doc \in Documents
  BY HeadTyped, Bounds, EditsFacts DEF Typed, Points
<1>1. PICK es : IsTail(AllEdits, es, k) /\ Len(es) = edited - k /\ Recovered = Replay(doc, es)
  BY <1>0, TailFacts DEF Recovered
<1>2. Len(es) = 0 /\ DOMAIN es = 1..Len(es)
  BY <1>0, <1>1 DEF IsTail
<1>3. After(doc, es, 0) = [c \in Records |-> doc[c]]
  BY DEF After
<1>4. After(doc, es, 0) = doc
  BY <1>0, <1>3 DEF Documents
<1>5. DOMAIN es = {}
  BY <1>2
<1> QED BY <1>1, <1>2, <1>4, <1>5 DEF Replay

LEMMA RecoveredEmptyNext ==
    (Typed /\ EditsOk /\ disk.cp.seq <= disk.seq /\ disk.cp.seq = edited
        => Recovered = [ok |-> TRUE, doc |-> disk.cp.state])'
<1>1. Typed /\ EditsOk /\ disk.cp.seq <= disk.seq /\ disk.cp.seq = edited
          => Recovered = [ok |-> TRUE, doc |-> disk.cp.state]
  BY RecoveredEmpty
<1> QED BY <1>1, PTL

-----------------------------------------------------------------------------
(* What a step leaves alone *)

LEMMA DiskFrame ==
    ASSUME disk'.base = disk.base, disk'.flight = disk.flight, disk'.control = disk.control
    PROVE  Base' = Base /\ InConflict' = InConflict /\ Flight' = Flight
BY DEF Base, InConflict, Flight

LEMMA JournalFrame ==
    ASSUME IInv, disk'.journal = disk.journal, disk'.seq = disk.seq, UNCHANGED <<log, edited>>
    PROVE  AllEdits' = AllEdits /\ EditsOk'
<1>1. EditsOk
  BY DEF IInv, Safe
<1>2. JournalKeysOk(disk') <=> JournalKeysOk(disk)
  BY DEF JournalKeysOk
<1>3. EditsOk'
  BY <1>1, <1>2 DEF EditsOk, JournalFull
<1> QED BY <1>3 DEF AllEdits

LEMMA RecoveredFrame ==
    ASSUME disk'.journal = disk.journal, disk'.seq = disk.seq, disk'.cp = disk.cp, log' = log
    PROVE  Recovered' = Recovered
<1>1. \A n : EditAt(n)' = EditAt(n)
  BY DEF EditAt
<1>2. \A n : EditsAfter(n)' = EditsAfter(n)
  BY <1>1 DEF EditsAfter
<1>3. EditsAfter(disk.cp.seq)' = EditsAfter(disk.cp.seq)
  BY <1>2
<1> QED BY <1>3 DEF Recovered

LEMMA ServerFrame ==
    ASSUME IInv, UNCHANGED <<server, requests>>, AllEdits' = AllEdits
    PROVE  /\ ServerOk' /\ SameFlight' /\ Revision' = Revision
           /\ \A r : (Replayed(r)' <=> Replayed(r)) /\ (Landed(r)' <=> Landed(r))
           /\ \A revision, doc : HasVersion(revision, doc)' <=> HasVersion(revision, doc)
<1>1. ServerOk /\ SameFlight
  BY DEF IInv, Safe
<1>2. /\ \A r : (Replayed(r)' <=> Replayed(r)) /\ (Landed(r)' <=> Landed(r))
      /\ \A revision, doc : HasVersion(revision, doc)' <=> HasVersion(revision, doc)
      /\ Revision' = Revision /\ RemoteSaves' = RemoteSaves
  BY DEF Replayed, Landed, HasVersion, Revision, RemoteSaves
<1>3. LandedInPlace' /\ LedgerOk' /\ SameFlight'
  BY <1>1, <1>2 DEF ServerOk, LandedInPlace, LedgerOk, SameFlight
<1>4. RowsLanded' /\ RecordsInserted' /\ GoneForGood'
  BY <1>1, <1>2 DEF ServerOk, RowsLanded, RecordsInserted, GoneForGood
<1>5. Counted'
  BY <1>1, <1>2 DEF ServerOk, Counted
<1> QED BY <1>2, <1>3, <1>4, <1>5 DEF ServerOk

\* What a step keeps that writes neither base nor flight.
LEMMA HeldFrame ==
    ASSUME IInv, UNCHANGED <<server, requests, log, edited>>,
           disk'.journal = disk.journal, disk'.seq = disk.seq,
           disk'.base = disk.base, disk'.flight = disk.flight
    PROVE  /\ AllEdits' = AllEdits /\ Base' = Base /\ EditsOk' /\ ServerOk' /\ SameFlight'
           /\ (\A r \in requests : RequestOk(r))' /\ FlightOk' /\ Earned'
<1>0. /\ \A r \in requests : RequestOk(r)
      /\ FlightOk /\ Earned
  BY DEF IInv, Safe
<1>1. AllEdits' = AllEdits /\ EditsOk'
  BY JournalFrame
<1>2. Base' = Base
  BY DEF Base
<1>3. /\ ServerOk' /\ SameFlight'
      /\ \A r : (Replayed(r)' <=> Replayed(r)) /\ (Landed(r)' <=> Landed(r))
  BY <1>1, ServerFrame
<1>4. (\A r \in requests : RequestOk(r))'
  BY <1>0, <1>2, <1>3 DEF RequestOk
<1>5. FlightOk' /\ Earned'
  BY <1>0, <1>1, <1>2, <1>3 DEF FlightOk, Earned
<1> QED BY <1>1, <1>2, <1>3, <1>4, <1>5

\* A step of the round and of the screen.
LEMMA RoundStep ==
    ASSUME IInv, UNCHANGED <<server, requests, disk, log, edited>>,
           sync' \in SyncSet, view' \in Documents,
           ConflictOk', ViewOk', RoundOk', MergeOk', CandOk',
           sync'.stage = "materialize" => NextOk(sync)'
    PROVE  IInv'
<1>0. Typed /\ BaseOk
  BY StateFacts
<1>1. /\ AllEdits' = AllEdits /\ Base' = Base /\ EditsOk' /\ ServerOk' /\ SameFlight'
      /\ (\A r \in requests : RequestOk(r))' /\ FlightOk' /\ Earned'
  BY HeldFrame
<1>2. Typed'
  BY <1>0 DEF Typed, Revision
<1>3. BaseOk'
  BY <1>0, <1>1, DiskFrame DEF BaseOk, HasVersion, Revision
<1>4. Safe'
  BY <1>1, <1>3 DEF Safe
<1> QED BY <1>2, <1>4 DEF IInv

\* A step of the round alone.
LEMMA SyncStep ==
    ASSUME IInv, UNCHANGED <<server, requests, disk, log, view, edited>>,
           sync' \in SyncSet, sync.stage # "dead", Shown' => sync.stage \notin Unpublished,
           InConflict => sync'.stage \in {"idle", "dead"},
           RoundOk', MergeOk', CandOk', sync'.stage = "materialize" => NextOk(sync)'
    PROVE  IInv'
<1>0. ConflictOk /\ ViewOk /\ Typed
  BY DEF IInv, Safe
<1>1. Base' = Base /\ (InConflict' <=> InConflict) /\ AllEdits' = AllEdits /\ Recovered' = Recovered
  BY HeldFrame, DiskFrame, RecoveredFrame
<1>2. ConflictOk'
  BY <1>0, <1>1 DEF ConflictOk
<1>3. ViewOk'
  BY <1>0, <1>1 DEF ViewOk, Shown
<1>4. view' \in Documents
  BY <1>0 DEF Typed
<1> QED BY <1>2, <1>3, <1>4, RoundStep

\* Stages with nothing on their way.
LEMMA QuietNext ==
    sync'.stage \in {"idle", "failed", "dead"} => RoundOk' /\ MergeOk' /\ CandOk' /\ sync'.stage # "materialize"
BY DEF RoundOk, MergeOk, CandOk, Uploading, Refused, Unpublished

LEMMA QuietTyped ==
    /\ Idle \in SyncSet /\ Idle.stage = "idle" /\ Failed \in SyncSet /\ Failed.stage = "failed"
    /\ [stage |-> "dead"] \in SyncSet
BY DEF Idle, Failed, SyncSet, Plain

\* A round under way is not fenced.
LEMMA RoundFree ==
    ASSUME IInv, sync.stage \notin {"idle", "dead"}
    PROVE  ~InConflict
BY DEF IInv, Safe, ConflictOk

-----------------------------------------------------------------------------
(* The answers of the server, read *)

LEMMA RoundTyped ==
    ASSUME IInv
    PROVE  /\ sync.stage \in {"rpc", "rejected"} => sync \in Calling
           /\ sync.stage = "ack" => sync \in Answered
           /\ sync.stage = "commitAck" => sync \in Acking
           /\ sync.stage = "rebase" => sync \in Refetched
           /\ sync.stage = "materialize" => sync \in Materializing
           /\ sync.stage = "commitRebase" => sync \in Rebasing
           /\ sync.stage \in {"publish", "recover"} => sync \in Publishing
           /\ sync.stage \in {"recoverCommit", "recoverPublish"} => sync \in Recovering
           /\ sync.stage = "fence" => sync \in Fencing
           /\ sync.stage = "polled" => sync \in Polled
<1>1. sync \in SyncSet
  BY DEF IInv, Typed
<1> QED BY <1>1, StageOf

LEMMA ReadRemoteStep ==
    ASSUME IInv, ReadRemote
    PROVE  IInv'
<1>0. sync.stage = "rejected" /\ UNCHANGED <<server, requests, disk, log, view, edited>>
  BY DEF ReadRemote
<1>1. sync \in Calling
  BY <1>0, RoundTyped
<1> PICK f, attempt, row : f = sync.flight /\ attempt = sync.attempt /\ row = Row
  OBVIOUS
<1>2. sync' = [stage |-> "rebase", flight |-> f, attempt |-> attempt, row |-> row]
  BY DEF ReadRemote
<1>3. row \in RowSet /\ HasVersion(row.revision, row.doc) /\ row.revision = Revision
  BY RowTyped
<1>4. sync' \in Refetched
  BY <1>1, <1>2, <1>3 DEF Calling, Refetched
<1>5. sync' \in SyncSet
  BY <1>4 DEF SyncSet
<1>6. RoundOk
  BY DEF IInv, Safe
<1>7. /\ AllEdits' = AllEdits /\ Revision' = Revision
      /\ \A r : (Replayed(r)' <=> Replayed(r)) /\ (Landed(r)' <=> Landed(r))
      /\ \A revision, doc : HasVersion(revision, doc)' <=> HasVersion(revision, doc)
  BY <1>0, HeldFrame, ServerFrame
<1>8. sync'.stage = "rebase" /\ sync'.flight = f /\ sync'.row = row
  BY <1>2
<1>9. HasVersion(sync.row.revision, sync.row.doc)'
  BY <1>3, <1>7, <1>8
<1>10. RoundOk'
  BY <1>0, <1>3, <1>6, <1>7, <1>8, <1>9 DEF RoundOk, Uploading, Refused
<1>11. MergeOk' /\ CandOk' /\ sync'.stage # "materialize"
  BY <1>8 DEF MergeOk, CandOk, Unpublished
<1>12. ~InConflict
  BY <1>0, RoundFree
<1> QED BY <1>0, <1>5, <1>10, <1>11, <1>12, SyncStep DEF Unpublished

LEMMA TimeoutStep ==
    ASSUME IInv, Timeout
    PROVE  IInv'
<1>0. /\ sync.stage \in {"rpc", "rejected"} /\ sync' = Failed
      /\ UNCHANGED <<server, requests, disk, log, view, edited>>
  BY DEF Timeout
<1>1. ~InConflict
  BY <1>0, RoundFree
<1> QED BY <1>0, <1>1, QuietTyped, QuietNext, SyncStep DEF Unpublished

LEMMA PollStep ==
    ASSUME IInv, Poll
    PROVE  IInv'
<1>0. /\ sync = Idle /\ disk.control = {} /\ disk.flight = {}
      /\ UNCHANGED <<server, requests, disk, log, view, edited>>
  BY DEF Poll
<1> PICK row : row = Row
  OBVIOUS
<1>2. sync' = [stage |-> "polled", row |-> row]
  BY DEF Poll
<1>3. row \in RowSet /\ HasVersion(row.revision, row.doc) /\ row.revision = Revision
  BY RowTyped
<1>4. sync' \in Polled
  BY <1>2, <1>3 DEF Polled
<1>5. sync' \in SyncSet
  BY <1>4 DEF SyncSet
<1>7. /\ AllEdits' = AllEdits
      /\ \A revision, doc : HasVersion(revision, doc)' <=> HasVersion(revision, doc)
  BY <1>0, HeldFrame, ServerFrame
<1>8. sync'.stage = "polled" /\ sync'.row = row /\ disk'.flight = {}
  BY <1>0, <1>2
<1>9. HasVersion(sync.row.revision, sync.row.doc)'
  BY <1>3, <1>7, <1>8
<1>10. RoundOk'
  BY <1>8, <1>9 DEF RoundOk, Uploading, Refused
<1>11. MergeOk' /\ CandOk' /\ sync'.stage # "materialize"
  BY <1>8 DEF MergeOk, CandOk, Unpublished
<1>12. ~InConflict
  BY <1>0 DEF InConflict
<1> QED BY <1>0, <1>5, <1>10, <1>11, <1>12, QuietTyped, SyncStep DEF Unpublished

\* The flight under way, over the base.
LEMMA FlightFacts ==
    ASSUME IInv, NEW f \in disk.flight
    PROVE  /\ f \in FlightSet /\ disk.flight = {f} /\ f.snapshot \in Documents
           /\ f.startSeq \in Nat /\ f.endSeq \in Nat /\ f.baseRevision = Base.revision
           /\ f.startSeq = Base.ackSeq + 1 /\ f.startSeq <= f.endSeq /\ f.endSeq <= disk.seq
           /\ f.operationId = <<f.baseRevision, f.startSeq>>
           /\ Overlays(AllEdits, f.startSeq, f.endSeq, Base.state, f.snapshot)
           /\ Rows(f.snapshot, f.endSeq)
<1>1. f \in FlightSet
  BY HeadTyped DEF IInv, Typed
<1>2. f.snapshot \in Documents /\ f.startSeq \in Nat /\ f.endSeq \in Nat
  BY <1>1, Bounds DEF FlightSet
<1>3. /\ disk.flight = {f} /\ f.operationId = <<f.baseRevision, f.startSeq>>
      /\ f.baseRevision = Base.revision /\ f.startSeq = Base.ackSeq + 1
      /\ f.startSeq <= f.endSeq /\ f.endSeq <= disk.seq
      /\ Overlays(AllEdits, f.startSeq, f.endSeq, Base.state, f.snapshot)
  BY DEF IInv, Safe, FlightOk
<1> PICK E, ack, base : E = AllEdits /\ ack = Base.ackSeq /\ base = Base.state
  OBVIOUS
<1>4. Rows(base, ack) /\ Edits(E) /\ ack \in Nat
  BY StateFacts DEF BaseOk
<1>5. Overlays(E, f.startSeq, f.endSeq, base, f.snapshot) /\ ack <= f.endSeq
  BY <1>2, <1>3, <1>4
<1>6. Rows(f.snapshot, f.endSeq)
  BY <1>2, <1>4, <1>5, OverlaysRows
<1> QED BY <1>1, <1>2, <1>3, <1>6

\* A save that took effect is of the flight under way, or of an earlier one.
LEMMA LandedFacts ==
    ASSUME IInv, NEW r \in requests
    PROVE  /\ r.flight \in FlightSet /\ r.flight.baseRevision \in Nat /\ r.flight.startSeq \in Nat
           /\ r.flight.endSeq \in Nat /\ r.flight.endSeq <= MaxEdits /\ r.flight.snapshot \in Documents
           /\ RequestOk(r)
           /\ Landed(r) => [id |-> r.flight.operationId, revision |-> r.flight.baseRevision + 1]
                               \in server.operations
<1>1. r \in RequestSet
  BY DEF IInv, Typed
<1> PICK f : f = r.flight
  OBVIOUS
<1>5. f \in FlightSet
  BY <1>1 DEF RequestSet
<1>6. f.baseRevision \in Revisions /\ f.startSeq \in Numbers /\ f.endSeq \in Numbers /\ f.snapshot \in Documents
  BY <1>5 DEF FlightSet
<1>7. \A n \in Numbers : n <= MaxEdits
  BY Bounds DEF Numbers
<1>2. f \in FlightSet /\ f.baseRevision \in Nat /\ f.startSeq \in Nat
      /\ f.endSeq \in Nat /\ f.endSeq <= MaxEdits /\ f.snapshot \in Documents
  BY <1>5, <1>6, <1>7, Bounds
<1>3. RequestOk(r)
  BY DEF IInv, Safe
<1>4. ASSUME Landed(r)
      PROVE  [id |-> r.flight.operationId, revision |-> r.flight.baseRevision + 1] \in server.operations
  <2>1. PICK i \in DOMAIN server.versions : r \in server.versions[i].by
    BY <1>4 DEF Landed
  <2>2. r.flight.baseRevision = i - 1 /\ [id |-> r.flight.operationId, revision |-> i] \in server.operations
    BY <2>1, StateFacts DEF ServerOk, LandedInPlace
  <2>3. DOMAIN server.versions = 1..Len(server.versions) /\ Len(server.versions) \in Nat
    BY DEF IInv, Typed
  <2>4. i = r.flight.baseRevision + 1
    BY <1>2, <2>2, <2>3
  <2> QED BY <2>2, <2>4
<1> QED BY <1>2, <1>3, <1>4

\* Where nothing has landed in between, a later document has no more rows.
LEMMA NothingBetween ==
    ASSUME IInv, NEW i, NEW d, HasVersion(i, d), NEW j, NEW x, HasVersion(j, x), i <= j,
           \A r \in requests : Landed(r) => r.flight.baseRevision < i \/ r.flight.baseRevision >= j
    PROVE  Within(x, d)
<1>1. i \in 1..Revision /\ j \in 1..Revision /\ d = server.versions[i].doc /\ x = server.versions[j].doc
  BY DEF HasVersion
<1>2. DOMAIN server.versions = 1..Revision /\ Revision \in Nat
  BY DEF IInv, Typed, Revision
<1>3. \A r \in requests : Landed(r) => r.flight.baseRevision \notin i..(j - 1)
  BY <1>1, <1>2, LandedFacts
<1> QED BY <1>1, <1>2, <1>3, StateFacts DEF ServerOk, GoneForGood

-----------------------------------------------------------------------------
(* The merges of a round *)

\* An acknowledged document has no more rows than the flight it answers.
LEMMA AckWithin ==
    ASSUME IInv, sync.stage \in {"ack", "commitAck"}
    PROVE  Within(sync.row.doc, sync.flight.snapshot)
<1> PICK f, row : f = sync.flight /\ row = sync.row
  OBVIOUS
<1>0. /\ disk.flight = {f} /\ HasVersion(row.revision, row.doc)
      /\ \E r \in requests : r.flight = f /\ \E o \in server.operations :
              /\ o.id = r.flight.operationId /\ o.revision <= row.revision
              /\ o.revision \in r.flight.baseRevision..(r.flight.baseRevision + 1)
  BY DEF IInv, Safe, RoundOk, Uploading
<1>1. PICK r \in requests, o \in server.operations :
          /\ r.flight = f /\ o.id = f.operationId /\ o.revision <= row.revision
          /\ o.revision \in f.baseRevision..(f.baseRevision + 1)
  BY <1>0
<1>2. HasVersion(o.revision, f.snapshot)
  BY <1>1, StateFacts DEF ServerOk, LedgerOk
<1>3. /\ f \in disk.flight /\ f.baseRevision = Base.revision /\ Base.revision \in Nat
      /\ o.revision \in Nat /\ row.revision \in Nat
  BY <1>0, <1>1, FlightFacts, StateFacts DEF HasVersion
<1>4. ASSUME NEW q \in requests, Landed(q)
      PROVE  q.flight.baseRevision < o.revision \/ q.flight.baseRevision >= row.revision
  <2>0. /\ q.flight.baseRevision \in Nat
        /\ [id |-> q.flight.operationId, revision |-> q.flight.baseRevision + 1] \in server.operations
        /\ RequestOk(q)
    BY <1>4, LandedFacts
  <2>1. CASE q.flight = f
    <3> PICK p \in server.operations : p.id = f.operationId /\ p.revision = f.baseRevision + 1
      BY <2>0, <2>1
    <3>1. p = o
      BY <1>1, StateFacts DEF ServerOk, LedgerOk
    <3> QED BY <1>3, <2>1, <3>1
  <2>2. CASE q.flight # f
    <3>1. disk.flight # {q.flight}
      BY <1>0, <2>2
    <3>2. q.flight.baseRevision < Base.revision
      BY <1>4, <2>0, <3>1 DEF RequestOk
    <3> QED BY <1>1, <1>3, <2>0, <3>2
  <2> QED BY <2>1, <2>2
<1> QED BY <1>0, <1>1, <1>2, <1>4, NothingBetween

\* A document fetched after a conflict has no more rows than the base.
LEMMA RefusedWithin ==
    ASSUME IInv, sync.stage \in {"rebase", "commitRebase"}
    PROVE  Within(sync.row.doc, Base.state)
<1> PICK f, row : f = sync.flight /\ row = sync.row
  OBVIOUS
<1> PICK i, d : i = Base.revision /\ d = Base.state
  OBVIOUS
<1>0. /\ disk.flight = {f} /\ HasVersion(row.revision, row.doc) /\ f.baseRevision < row.revision
      /\ \A r \in requests : r.flight = f => ~Landed(r)
  BY DEF IInv, Safe, RoundOk, Uploading, Refused
<1>1. f \in disk.flight /\ f.baseRevision = i /\ i \in Nat /\ row.revision \in Nat /\ HasVersion(i, d)
  BY <1>0, FlightFacts, StateFacts DEF HasVersion, BaseOk
<1>2. ASSUME NEW q \in requests, Landed(q)
      PROVE  q.flight.baseRevision < i \/ q.flight.baseRevision >= row.revision
  <2>1. q.flight # f /\ RequestOk(q)
    BY <1>0, <1>2, LandedFacts
  <2>2. disk.flight # {q.flight}
    BY <1>0, <2>1
  <2> QED BY <1>2, <2>1, <2>2 DEF RequestOk
<1>3. i <= row.revision
  BY <1>0, <1>1
<1> QED BY <1>0, <1>1, <1>2, <1>3, NothingBetween

\* So does one fetched with nothing to send.
LEMMA PolledWithin ==
    ASSUME IInv, sync.stage = "polled", Base.revision <= sync.row.revision
    PROVE  Within(sync.row.doc, Base.state)
<1> PICK row : row = sync.row
  OBVIOUS
<1> PICK i, d : i = Base.revision /\ d = Base.state
  OBVIOUS
<1>0. disk.flight = {} /\ HasVersion(row.revision, row.doc)
  BY DEF IInv, Safe, RoundOk
<1>1. i \in Nat /\ HasVersion(i, d)
  BY StateFacts DEF BaseOk
<1>2. ASSUME NEW q \in requests, Landed(q)
      PROVE  q.flight.baseRevision < i \/ q.flight.baseRevision >= row.revision
  BY <1>0, <1>2, LandedFacts DEF RequestOk
<1> QED BY <1>0, <1>1, <1>2, NothingBetween

\* The screen, over the flight's snapshot.
LEMMA FlightView ==
    ASSUME IInv, Shown, NEW f \in disk.flight
    PROVE  Overlays(AllEdits, f.endSeq + 1, edited, f.snapshot, view)
<1> PICK E, ack, base : E = AllEdits /\ ack = Base.ackSeq /\ base = Base.state
  OBVIOUS
<1> PICK to, n, v : to = f.endSeq /\ n = edited /\ v = view
  OBVIOUS
<1>1. /\ Edits(E) /\ ack \in Nat /\ to \in Nat /\ n \in Nat /\ ack + 1 <= to /\ to <= n
      /\ Overlays(E, ack + 1, to, base, f.snapshot)
  BY StateFacts, FlightFacts
<1>2. Overlays(E, ack + 1, n, base, v)
  BY ViewOverlays
<1>3. Overlays(E, to + 1, n, f.snapshot, v)
  BY <1>1, <1>2, OverlaysSplit
<1> QED BY <1>3

LEMMA ReconciledFacts ==
    ASSUME IInv, Shown, log = <<>>, NEW f \in disk.flight, NEW target \in Documents,
           Within(target, f.snapshot), NEW now, now = Reconciled(f, target)
    PROVE  /\ now.doc \in Documents /\ now.conflict \in BOOLEAN
           /\ Overlays(AllEdits, f.endSeq + 1, disk.seq, target, now.doc)
           /\ Within(now.doc, view)
<1> PICK E, to, n, v : E = AllEdits /\ to = f.endSeq /\ n = disk.seq /\ v = view
  OBVIOUS
<1>0. edited = n
  <2>1. Len(log) = 0
    OBVIOUS
  <2> QED BY <2>1, StateFacts, EditsFacts
<1>1. /\ Edits(E) /\ to \in Nat /\ n \in Nat /\ to <= n /\ v \in Documents
      /\ f.snapshot \in Documents /\ Rows(f.snapshot, to)
  BY StateFacts, FlightFacts
<1>2. Overlays(E, to + 1, n, f.snapshot, v)
  BY <1>0, FlightView
<1>3. now.doc \in Documents /\ now.conflict \in BOOLEAN /\ Overlays(E, to + 1, n, target, now.doc)
  <2>1. CASE n > to
    <3> PICK from, snapshot : from = to + 1 /\ snapshot = f.snapshot
      OBVIOUS
    <3> PICK deletes : deletes = DeleteIntents(from, n)
      OBVIOUS
    <3>1. now = Merge3(snapshot, v, target, deletes)
      BY <2>1 DEF Reconciled
    <3>2. from \in Nat /\ from >= 1 /\ from - 1 = to
      BY <1>1
    <3>3. \A e \in E : e.n \in from..n /\ e.kind = "delete" => e.record \in deletes
      <4>1. Typed /\ EditsOk /\ n \in Int /\ n <= disk.seq
        BY <1>1, StateFacts
      <4> QED BY <3>2, <4>1, DeletesDeclared
    <3>4. /\ Edits(E) /\ Overlays(E, from, n, snapshot, v) /\ Rows(snapshot, from - 1)
          /\ Within(target, snapshot) /\ snapshot \in Documents /\ v \in Documents
          /\ target \in Documents /\ n \in Int /\ from \in Int
      BY <1>1, <1>2, <3>2
    <3>5. /\ Overlays(E, from, n, target, now.doc) /\ now.doc \in Documents
          /\ now.conflict \in BOOLEAN
      BY ONLY <3>1, <3>3, <3>4, MergeOverlays
    <3> QED BY <3>5
  <2>2. CASE ~ (n > to)
    <3>1. now.conflict = FALSE /\ now.doc = target /\ n < to + 1
      BY <1>1, <2>2 DEF Reconciled
    <3>2. Overlays(E, to + 1, n, target, target)
      BY <1>1, <3>1, NothingOverlays
    <3> QED BY <3>1, <3>2
  <2> QED BY <2>1, <2>2
<1>4. Within(now.doc, v)
  BY <1>1, <1>2, <1>3, OverlaysWithin
<1> QED BY <1>3, <1>4

LEMMA ControlFacts ==
    ASSUME NEW row \in RowSet, NEW conflict \in BOOLEAN
    PROVE  /\ ControlFor(conflict, row) \in Maybe(ControlSet)
           /\ ControlFor(conflict, row) = {} <=> ~conflict
           /\ ControlFor(conflict, row) # {} => \E c \in ControlFor(conflict, row) : c.conflict # {}
<1>1. row.revision \in Revisions
  BY DEF RowSet
<1> PICK k : k = [kind |-> "entity-conflict", remoteRevision |-> row.revision]
  OBVIOUS
<1>2. k \in ConflictSet
  BY <1>1 DEF ConflictSet, ConflictKinds
<1>3. [retry |-> FALSE, conflict |-> {k}] \in ControlSet
  BY <1>2 DEF ControlSet, Maybe
<1> PICK c : c = [retry |-> FALSE, conflict |-> {k}]
  OBVIOUS
<1>4. ControlFor(conflict, row) = IF conflict THEN {c} ELSE {}
  BY DEF ControlFor, Conflict
<1>5. c \in ControlSet /\ c.conflict # {}
  BY <1>3
<1> QED BY <1>4, <1>5 DEF Maybe

-----------------------------------------------------------------------------
(* The steps of a round that change nothing durable *)

LEMMA AckStep ==
    ASSUME IInv, Ack
    PROVE  IInv'
<1>0. /\ sync.stage = "ack" /\ log = <<>>
      /\ UNCHANGED <<server, requests, disk, log, view, edited>>
  BY DEF Ack
<1> PICK f, row, now : f = sync.flight /\ row = sync.row /\ now = Reconciled(f, row.doc)
  OBVIOUS
<1> PICK cp, control : cp = Checkpoint(now.conflict, now.doc) /\ control = ControlFor(now.conflict, row)
  OBVIOUS
<1> PICK E, n, v : E = AllEdits /\ n = disk.seq /\ v = view
  OBVIOUS
<1>1. sync' = [stage |-> "commitAck", flight |-> f, row |-> row, cp |-> cp, prev |-> v, control |-> control]
  BY DEF Ack
<1>2. f \in FlightSet /\ row \in RowSet /\ row.doc \in Documents
  BY <1>0, RoundTyped DEF Answered, RowSet
<1>3. ~InConflict /\ Shown
  BY <1>0, RoundFree DEF Shown, Unpublished
<1>4. RoundOk /\ disk.flight = {f} /\ HasVersion(row.revision, row.doc)
  BY <1>0 DEF IInv, Safe, RoundOk, Uploading
<1>5. Within(row.doc, f.snapshot)
  BY <1>0, AckWithin
<1>6. /\ now.doc \in Documents /\ now.conflict \in BOOLEAN
      /\ Overlays(E, f.endSeq + 1, n, row.doc, now.doc) /\ Within(now.doc, v)
  BY <1>0, <1>2, <1>3, <1>4, <1>5, ReconciledFacts
<1>7. /\ v \in Documents /\ n \in Nat /\ edited = n /\ n \in Seqs /\ Edits(E)
      /\ f.endSeq \in Nat /\ f.endSeq <= n /\ f.startSeq <= f.endSeq /\ f.startSeq = Base.ackSeq + 1
      /\ Base.ackSeq \in Nat
  <2>1. Len(log) = 0
    BY <1>0
  <2> QED BY <1>4, <2>1, StateFacts, EditsFacts, FlightFacts, HeadTyped DEF Typed
<1>8. cp = [seq |-> n, state |-> IF now.conflict THEN v ELSE now.doc]
  BY DEF Checkpoint
<1>9. cp \in Points
  BY <1>6, <1>7, <1>8 DEF Points
<1>10. /\ control \in Maybe(ControlSet) /\ (control = {} <=> ~now.conflict)
       /\ (control # {} => \E c \in control : c.conflict # {})
  BY <1>2, <1>6, ControlFacts
<1>11. sync' \in Acking
  BY <1>1, <1>2, <1>7, <1>9, <1>10 DEF Acking
<1>12. sync' \in SyncSet
  BY <1>11 DEF SyncSet
<1>13. Rows(v, n)
  BY <1>3, <1>7, ViewOverlays
<1>14. Overlays(E, f.endSeq + 1, n, f.snapshot, v)
  BY <1>3, <1>4, <1>7, FlightView
<1>15. Keeps(E, f.endSeq + 1, n, cp.state)
  BY <1>6, <1>7, <1>8, <1>14, OverlaysKeeps
<1>16. AllEdits' = E /\ disk' = disk /\ Base' = Base
  BY <1>0, HeldFrame
<1>17. /\ sync'.stage = "commitAck" /\ sync'.flight = f /\ sync'.row = row /\ sync'.cp = cp
       /\ sync'.prev = v /\ sync'.control = control /\ cp.seq = n /\ (control = {} => cp.state = now.doc)
  BY <1>1, <1>6, <1>8, <1>10
<1>18. MergeOk'
  <2>1. /\ f.endSeq <= cp.seq /\ cp.seq <= n /\ edited' = n /\ view' = v /\ disk'.seq = n
        /\ Rows(v, cp.seq) /\ Keeps(E, f.endSeq + 1, cp.seq, cp.state)
    <3>1. n \in Nat
      BY <1>7
    <3>2. n <= n
      BY ONLY <3>1
    <3> QED BY <1>0, <1>7, <1>13, <1>15, <1>16, <1>17, <3>2
  <2>2. control = {} => Overlays(E, f.endSeq + 1, cp.seq, row.doc, cp.state) /\ Within(cp.state, v)
    BY <1>6, <1>17
  <2> QED BY <1>10, <1>16, <1>17, <2>1, <2>2, Zenon DEF MergeOk
<1>19. /\ \A revision, doc : HasVersion(revision, doc)' <=> HasVersion(revision, doc)
  BY <1>0, <1>16, ServerFrame
<1>20. RoundOk'
  BY <1>0, <1>4, <1>16, <1>17, <1>19 DEF RoundOk, Uploading, Refused
<1>21. CandOk' /\ sync'.stage # "materialize"
  BY <1>17 DEF CandOk, Unpublished
<1> QED BY <1>0, <1>3, <1>12, <1>18, <1>20, <1>21, SyncStep DEF Unpublished

LEMMA RebaseStep ==
    ASSUME IInv, Rebase
    PROVE  IInv'
<1>0. /\ sync.stage = "rebase" /\ log = <<>>
      /\ UNCHANGED <<server, requests, disk, log, view, edited>>
  BY DEF Rebase
<1> PICK f, row, base, from : f = sync.flight /\ row = sync.row /\ base = Base.state /\ from = f.startSeq
  OBVIOUS
<1> PICK sent : sent = Merge3(base, f.snapshot, row.doc, DeleteIntents(f.startSeq, f.endSeq))
  OBVIOUS
<1> PICK now : now = Reconciled(f, sent.doc)
  OBVIOUS
<1> PICK E, n, v, ack : E = AllEdits /\ n = disk.seq /\ v = view /\ ack = Base.ackSeq
  OBVIOUS
<1>2. f \in FlightSet /\ row \in RowSet /\ row.doc \in Documents /\ sync.attempt \in Nat
  BY <1>0, RoundTyped DEF Refetched, RowSet
<1>3. ~InConflict /\ Shown
  BY <1>0, RoundFree DEF Shown, Unpublished
<1>4. RoundOk /\ disk.flight = {f} /\ HasVersion(row.revision, row.doc)
  BY <1>0 DEF IInv, Safe, RoundOk, Uploading
<1>5. Within(row.doc, base)
  BY <1>0, RefusedWithin
<1>7. /\ v \in Documents /\ n \in Nat /\ edited = n /\ n \in Seqs /\ Edits(E) /\ base \in Documents
      /\ f.endSeq \in Nat /\ f.endSeq <= n /\ from <= f.endSeq /\ from = ack + 1
      /\ ack \in Nat /\ f.snapshot \in Documents /\ Overlays(E, from, f.endSeq, base, f.snapshot)
      /\ Rows(base, ack)
  <2>1. Len(log) = 0
    BY <1>0
  <2> QED BY <1>4, <2>1, StateFacts, EditsFacts, FlightFacts, HeadTyped DEF Typed, BaseOk
<1>8. /\ sent.doc \in Documents /\ sent.conflict \in BOOLEAN
      /\ Overlays(E, from, f.endSeq, row.doc, sent.doc)
  <2> PICK deletes, snapshot, to : /\ deletes = DeleteIntents(f.startSeq, f.endSeq)
                                   /\ snapshot = f.snapshot /\ to = f.endSeq
    OBVIOUS
  <2> PICK remote : remote = row.doc
    OBVIOUS
  <2>1. sent = Merge3(base, snapshot, remote, deletes)
    OBVIOUS
  <2>2. from \in Nat /\ from >= 1 /\ from - 1 = ack
    BY <1>7
  <2>3. \A e \in E : e.n \in from..to /\ e.kind = "delete" => e.record \in deletes
    BY <1>7, <2>2, StateFacts, DeletesDeclared
  <2>4. /\ Edits(E) /\ Overlays(E, from, to, base, snapshot) /\ Rows(base, from - 1)
        /\ Within(remote, base) /\ snapshot \in Documents /\ to \in Int /\ from \in Int
        /\ base \in Documents /\ remote \in Documents
    BY <1>2, <1>5, <1>7, <2>2
  <2>5. /\ Overlays(E, from, to, remote, sent.doc) /\ sent.doc \in Documents
        /\ sent.conflict \in BOOLEAN
    BY ONLY <2>1, <2>3, <2>4, MergeOverlays
  <2> QED BY <2>5
<1>9. Within(sent.doc, f.snapshot)
  BY <1>5, <1>7, <1>8, OverlaysWithin
<1>10. /\ now.doc \in Documents /\ now.conflict \in BOOLEAN
       /\ Overlays(E, f.endSeq + 1, n, sent.doc, now.doc) /\ Within(now.doc, v)
  BY <1>0, <1>3, <1>4, <1>8, <1>9, ReconciledFacts, Zenon
<1>11. Overlays(E, from, n, row.doc, now.doc)
  <2> PICK to : to = f.endSeq
    OBVIOUS
  <2>1. from \in Int /\ to \in Int /\ n \in Int /\ from <= to + 1 /\ to <= n
    BY <1>7
  <2>2. Overlays(E, from, to, row.doc, sent.doc) /\ Overlays(E, to + 1, n, sent.doc, now.doc)
    BY <1>8, <1>10, Zenon
  <2> QED BY <1>7, <2>1, <2>2, OverlaysJoin
<1> PICK conflict \in BOOLEAN : conflict = (sent.conflict \/ now.conflict)
  BY <1>8, <1>10, Zenon
<1> PICK cp : cp = Checkpoint(conflict, now.doc)
  BY Zenon
<1> PICK control : control = ControlFor(conflict, row)
  BY Zenon
<1> PICK next : next = [stage |-> "materialize", attempt |-> sync.attempt, through |-> f.endSeq,
                        snapshot |-> sent.doc]
  BY Zenon
<1>1. sync' = [stage |-> "commitRebase", flight |-> f, row |-> row, cp |-> cp, prev |-> v,
               control |-> control, next |-> next]
  BY Zenon DEF Rebase
<1>12. /\ cp.seq = n /\ cp = [seq |-> n, state |-> cp.state]
       /\ (conflict => cp.state = v) /\ (~conflict => cp.state = now.doc)
  <2>1. CASE conflict
    BY <2>1, Zenon DEF Checkpoint
  <2>2. CASE ~conflict
    BY <2>2, Zenon DEF Checkpoint
  <2> QED BY <2>1, <2>2, Zenon
<1>13. cp \in Points
  <2>1. cp.state \in Documents
    BY <1>7, <1>10, <1>12, Zenon
  <2> QED BY <1>7, <1>12, <2>1, Zenon DEF Points
<1>14. /\ control \in Maybe(ControlSet) /\ (control = {} <=> ~conflict)
       /\ (control # {} => \E c \in control : c.conflict # {})
  BY <1>2, <1>12, ControlFacts, Zenon
<1>15. next \in Materializing /\ next.stage = "materialize" /\ next.through = f.endSeq /\ next.snapshot = sent.doc
  <2>1. f.endSeq \in Numbers
    BY <1>2, Zenon DEF FlightSet
  <2>2. f.endSeq \in Seqs
    BY ONLY <2>1, Bounds DEF Seqs, Numbers
  <2> QED BY <1>2, <1>8, <2>2, Zenon DEF Materializing
<1>16. sync' \in Rebasing
  BY <1>1, <1>2, <1>7, <1>13, <1>14, <1>15, Zenon DEF Rebasing
<1>17. sync' \in SyncSet
  BY <1>16, Zenon DEF SyncSet
<1>18. Rows(v, n)
  BY <1>3, <1>7, ViewOverlays, Zenon
<1>19. Keeps(E, from, n, cp.state)
  <2>1. Keeps(E, from, n, v)
    BY <1>3, <1>7, ViewOverlays, OverlaysKeeps, Zenon
  <2>2. Keeps(E, from, n, now.doc)
    BY <1>7, <1>11, OverlaysKeeps, Zenon
  <2> QED BY <1>12, <2>1, <2>2, Zenon
<1>20. AllEdits' = E /\ disk' = disk /\ Base' = Base
  BY <1>0, HeldFrame, Zenon
<1>21. /\ sync'.stage = "commitRebase" /\ sync'.flight = f /\ sync'.row = row /\ sync'.cp = cp
       /\ sync'.prev = v /\ sync'.control = control /\ sync'.next = next
       /\ cp.seq = n /\ (control = {} => cp.state = now.doc)
  BY <1>1, <1>12, <1>14, Zenon
<1>22. MergeOk'
  <2>1. Base'.ackSeq + 1 = from /\ disk'.seq = n /\ edited' = n /\ view' = v
    BY <1>0, <1>7, <1>20, Zenon
  <2>2. control = {} => Overlays(E, from, n, row.doc, cp.state) /\ Within(cp.state, v)
    BY <1>10, <1>11, <1>21, Zenon
  <2>3. Overlays(E, from, next.through, row.doc, next.snapshot)
    BY <1>8, <1>15, Zenon
  <2>4. f.endSeq <= n /\ cp.seq <= n /\ Rows(v, cp.seq) /\ Keeps(E, from, cp.seq, cp.state)
    <3>1. cp.seq = n
      BY <1>12, Zenon
    <3>2. f.endSeq <= n /\ n \in Nat
      BY ONLY <1>7
    <3>3. n <= n
      BY ONLY <3>2
    <3> QED BY <1>18, <1>19, <3>1, <3>2, <3>3, Zenon
  <2>5. MergeOk' <=>
          LET s == sync'
              first == IF s.stage = "commitAck" THEN s.flight.endSeq + 1 ELSE from
          IN  s.stage \in {"commitAck", "commitRebase"} =>
            /\ s.flight.endSeq <= s.cp.seq /\ s.cp.seq <= n
            /\ n = s.cp.seq => v = s.prev
            /\ Rows(s.prev, s.cp.seq)
            /\ Keeps(E, first, s.cp.seq, s.cp.state)
            /\ s.control # {} => \E c \in s.control : c.conflict # {}
            /\ s.control = {} =>
                  /\ Overlays(E, first, s.cp.seq, s.row.doc, s.cp.state)
                  /\ Within(s.cp.state, s.prev)
            /\ s.stage = "commitRebase" =>
                  /\ s.next.stage = "materialize" /\ s.next.through = s.flight.endSeq
                  /\ s.control = {} =>
                        Overlays(E, first, s.next.through, s.row.doc, s.next.snapshot)
    BY <1>20, <2>1, Zenon DEF MergeOk
  <2> QED BY <1>14, <1>15, <1>21, <2>2, <2>3, <2>4, <2>5, Zenon
<1>23. /\ \A revision, doc : HasVersion(revision, doc)' <=> HasVersion(revision, doc)
       /\ \A r : Landed(r)' <=> Landed(r)
       /\ Revision' = Revision
  BY <1>0, <1>20, ServerFrame, Zenon
<1>24. RoundOk'
  BY <1>0, <1>4, <1>20, <1>21, <1>23, Zenon DEF RoundOk, Uploading, Refused
<1>25. CandOk' /\ sync'.stage # "materialize"
  BY <1>21, Zenon DEF CandOk, Unpublished
<1> QED BY <1>0, <1>3, <1>17, <1>22, <1>24, <1>25, SyncStep, Zenon DEF Unpublished

\* The candidate of a publication, read.
LEMMA CandFacts ==
    ASSUME IInv, sync.stage \in Unpublished
    PROVE  /\ sync.cand \in Candidates /\ CandOk /\ ~InConflict
           /\ sync.cand.cp \in Points /\ sync.cand.cp.seq \in Nat /\ sync.cand.cp.state \in Documents
           /\ sync.cand.prev \in Documents /\ sync.cand.base \in BaseSet /\ sync.cand.tries \in Nat
           /\ sync.cand.next \in SyncSet /\ sync.cand.next.stage \in {"idle", "materialize"}
<1>1. sync.cand \in Candidates
  BY RoundTyped DEF Unpublished, Publishing, Recovering, Fencing
<1> PICK c : c = sync.cand
  OBVIOUS
<1>2. /\ c.cp \in Points /\ c.prev \in Documents /\ c.base \in BaseSet /\ c.tries \in Nat
      /\ c.next \in {Idle} \cup Materializing
  BY <1>1 DEF Candidates
<1>3. c.cp.seq \in Nat /\ c.cp.state \in Documents
  BY <1>2, Bounds DEF Points
<1>4. c.next \in SyncSet /\ c.next.stage \in {"idle", "materialize"}
  BY <1>2, QuietTyped DEF SyncSet, Materializing
<1>5. CandOk /\ ~InConflict
  BY RoundFree DEF IInv, Safe, Unpublished
<1> QED BY <1>1, <1>2, <1>3, <1>4, <1>5

\* A repair that is put off or given up keeps the candidate.
LEMMA CandKept ==
    ASSUME IInv, sync.stage \in Unpublished,
           UNCHANGED <<server, requests, disk, log, view, edited>>,
           sync' \in SyncSet, sync'.stage \in {"recover", "fence"}, sync'.cand = sync.cand
    PROVE  IInv'
<1> PICK c : c = sync.cand
  OBVIOUS
<1>1. CandOk /\ ~InConflict
  BY CandFacts
<1>2. AllEdits' = AllEdits /\ Base' = Base /\ disk' = disk /\ (InConflict' <=> InConflict)
  BY HeldFrame, DiskFrame
<1>3. NextOk(c.next)' <=> NextOk(c.next)
  BY <1>2 DEF NextOk
<1>4. CandOk'
  BY <1>1, <1>2, <1>3 DEF CandOk, Unpublished
<1>5. RoundOk' /\ MergeOk' /\ sync'.stage # "materialize"
  BY DEF RoundOk, MergeOk, Uploading, Refused
<1>6. ~Shown' /\ sync.stage # "dead"
  BY DEF Shown, Unpublished
<1> QED BY <1>1, <1>4, <1>5, <1>6, SyncStep

LEMMA RepairTyped ==
    ASSUME NEW c \in Candidates, NEW attempt \in Nat
    PROVE  /\ Repair(c, attempt) \in SyncSet /\ Repair(c, attempt).cand = c
           /\ Repair(c, attempt).stage \in {"recover", "fence"}
<1>1. [stage |-> "recover", cand |-> c, attempt |-> attempt] \in Publishing
  BY DEF Publishing
<1>2. [stage |-> "fence", cand |-> c] \in Fencing
  BY DEF Fencing
<1> QED BY <1>1, <1>2 DEF Repair, SyncSet

\* What is published is what a reload recovers.
LEMMA PublishStepOf ==
    ASSUME IInv, sync.stage \in {"publish", "recoverPublish"},
           UNCHANGED <<server, requests, disk, log, edited>>,
           disk.cp.seq = edited, view' = disk.cp.state, sync' = sync.cand.next
    PROVE  IInv'
<1> PICK c : c = sync.cand
  OBVIOUS
<1>1. sync.stage \in Unpublished
  BY DEF Unpublished
<1>2. /\ c.next \in SyncSet /\ c.next.stage \in {"idle", "materialize"} /\ ~InConflict /\ CandOk
      /\ sync' = c.next
  BY <1>1, CandFacts
<1>3. AllEdits' = AllEdits /\ Base' = Base /\ disk' = disk /\ (InConflict' <=> InConflict)
      /\ Recovered' = Recovered
  BY HeldFrame, DiskFrame, RecoveredFrame
<1>4. /\ view' \in Documents /\ edited \in Nat
      /\ Recovered = [ok |-> TRUE, doc |-> disk.cp.state]
  BY StateFacts, RecoveredEmpty
<1>5. Keeps(AllEdits, Base.ackSeq + 1, edited, disk.cp.state)
  BY StateFacts DEF BaseOk
<1>6. ViewOk'
  BY <1>2, <1>3, <1>4, <1>5 DEF ViewOk
<1>7. ConflictOk'
  BY <1>2, <1>3 DEF ConflictOk
<1>8. RoundOk' /\ MergeOk' /\ CandOk'
  BY <1>2 DEF RoundOk, MergeOk, CandOk, Uploading, Refused, Unpublished
<1>9. sync'.stage = "materialize" => NextOk(sync)'
  <2>1. NextOk(c.next)
    BY <1>1, <1>2 DEF CandOk
  <2>2. NextOk(c.next)' <=> NextOk(c.next)
    BY <1>3 DEF NextOk
  <2>3. NextOk(c.next)' <=> NextOk(sync)'
    BY <1>2 DEF NextOk
  <2> QED BY <2>1, <2>2, <2>3
<1> QED BY <1>2, <1>4, <1>6, <1>7, <1>8, <1>9, RoundStep

LEMMA PublishStep ==
    ASSUME IInv, Publish
    PROVE  IInv'
<1>0. sync.stage = "publish" /\ UNCHANGED <<server, requests, disk, log, edited>>
  BY DEF Publish
<1>1. sync.stage \in Unpublished
  BY <1>0 DEF Unpublished
<1>2. CASE StillCurrent(sync.cand.cp.seq)
  <2>1. disk.cp = sync.cand.cp
    BY <1>0, <1>1, CandFacts DEF CandOk
  <2>2. disk.cp.seq = edited
    BY <1>2, <2>1, StateFacts, EditsFacts DEF StillCurrent, Position
  <2>3. view' = disk.cp.state /\ sync' = sync.cand.next
    BY <1>2, <2>1 DEF Publish
  <2> QED BY <1>0, <2>2, <2>3, PublishStepOf
<1>3. CASE ~StillCurrent(sync.cand.cp.seq)
  <2>1. sync' = Repair(sync.cand, 0) /\ view' = view
    BY <1>3 DEF Publish
  <2> PICK c : c = sync.cand
    OBVIOUS
  <2>2. sync' \in SyncSet /\ sync'.cand = c /\ sync'.stage \in {"recover", "fence"}
    BY <1>1, <2>1, CandFacts, RepairTyped
  <2> QED BY <1>0, <1>1, <2>1, <2>2, CandKept
<1> QED BY <1>2, <1>3

LEMMA RecoverPublishStep ==
    ASSUME IInv, RecoverPublish
    PROVE  IInv'
<1>0. sync.stage = "recoverPublish" /\ UNCHANGED <<server, requests, disk, log, edited>>
  BY DEF RecoverPublish
<1>1. sync.stage \in Unpublished
  BY <1>0 DEF Unpublished
<1>2. CASE StillCurrent(sync.cp.seq)
  <2>1. disk.cp = sync.cp
    BY <1>0, <1>1, CandFacts DEF CandOk
  <2>2. disk.cp.seq = edited
    BY <1>2, <2>1, StateFacts, EditsFacts DEF StillCurrent, Position
  <2>3. view' = disk.cp.state /\ sync' = sync.cand.next
    BY <1>2, <2>1 DEF RecoverPublish
  <2> QED BY <1>0, <2>2, <2>3, PublishStepOf
<1>3. CASE ~StillCurrent(sync.cp.seq)
  <2> PICK c, attempt : c = sync.cand /\ attempt = sync.attempt
    OBVIOUS
  <2>1. sync' = Repair(c, attempt + 1) /\ view' = view
    BY <1>3 DEF RecoverPublish
  <2>2. attempt + 1 \in Nat
    BY <1>0, RoundTyped DEF Recovering
  <2>3. sync' \in SyncSet /\ sync'.cand = c /\ sync'.stage \in {"recover", "fence"}
    BY <1>1, <2>1, <2>2, CandFacts, RepairTyped
  <2> QED BY <1>0, <1>1, <2>1, <2>3, CandKept
<1> QED BY <1>2, <1>3

LEMMA RecoverReadStep ==
    ASSUME IInv, RecoverRead
    PROVE  IInv'
<1>0. sync.stage = "recover" /\ UNCHANGED <<server, requests, disk, log, view, edited>>
  BY DEF RecoverRead
<1>1. sync.stage \in Unpublished
  BY <1>0 DEF Unpublished
<1> PICK c, attempt : c = sync.cand /\ attempt = sync.attempt
  OBVIOUS
<1> PICK E, n, v, ack, base : E = AllEdits /\ n = disk.seq /\ v = view /\ ack = Base.ackSeq /\ base = Base.state
  OBVIOUS
<1> PICK prev, shown, at : prev = c.prev /\ shown = c.cp.state /\ at = c.cp.seq
  OBVIOUS
<1> PICK merged : merged = Merge3(prev, v, shown, DeleteIntents(at + 1, n))
  OBVIOUS
<1>2. CASE sync' = [stage |-> "fence", cand |-> c]
  <2>1. c \in Candidates
    BY <1>1, CandFacts
  <2>2. sync' \in Fencing
    BY <1>2, <2>1 DEF Fencing
  <2>3. sync' \in SyncSet /\ sync'.stage = "fence" /\ sync'.cand = c
    BY <1>2, <2>2 DEF SyncSet
  <2> QED BY <1>0, <1>1, <2>3, CandKept
<1>3. CASE /\ log = <<>>
           /\ sync' = [stage |-> "recoverCommit", cand |-> c, attempt |-> attempt,
                       cp |-> [seq |-> n, state |-> merged.doc]]
  <2>1. edited = n
    <3>1. Len(log) = 0
      BY <1>3
    <3> QED BY <3>1, StateFacts, EditsFacts
  <2>2. /\ c \in Candidates /\ prev \in Documents /\ shown \in Documents /\ v \in Documents
        /\ at \in Nat /\ n \in Nat /\ ack \in Nat /\ Edits(E) /\ base \in Documents
        /\ attempt \in Nat /\ n \in Seqs
    BY <1>0, <1>1, CandFacts, StateFacts, RoundTyped, HeadTyped DEF Typed, Publishing
  <2>3. /\ disk.base = {c.base} /\ disk.flight = {} /\ ~InConflict
        /\ ack <= at /\ at <= disk.cp.seq /\ NextOk(c.next)
        /\ Rows(prev, at) /\ Within(shown, prev)
        /\ Overlays(E, at + 1, n, prev, v)
        /\ Overlays(E, ack + 1, at, base, shown)
    BY <1>1, <2>1, CandFacts DEF CandOk
  <2>4. at <= n
    BY <2>2, <2>3, StateFacts
  <2>5. merged.doc \in Documents /\ Overlays(E, at + 1, n, shown, merged.doc)
    <3> PICK from, deletes : from = at + 1 /\ deletes = DeleteIntents(at + 1, n)
      OBVIOUS
    <3>1. merged = Merge3(prev, v, shown, deletes)
      OBVIOUS
    <3>2. from \in Nat /\ from >= 1 /\ from - 1 = at
      BY <2>2
    <3>3. \A e \in E : e.n \in from..n /\ e.kind = "delete" => e.record \in deletes
      BY <2>2, <3>2, StateFacts, DeletesDeclared
    <3>4. /\ Edits(E) /\ Overlays(E, from, n, prev, v) /\ Rows(prev, from - 1)
          /\ Within(shown, prev) /\ prev \in Documents /\ v \in Documents /\ n \in Int /\ from \in Int
          /\ shown \in Documents
      BY <2>2, <2>3, <3>2
    <3>5. /\ Overlays(E, from, n, shown, merged.doc) /\ merged.doc \in Documents
          /\ merged.conflict \in BOOLEAN
      BY ONLY <3>1, <3>3, <3>4, MergeOverlays
    <3> QED BY <3>5
  <2> PICK cp : cp = [seq |-> n, state |-> merged.doc]
    OBVIOUS
  <2>6. cp \in Points /\ cp.seq = n /\ cp.state = merged.doc
    BY <2>2, <2>5 DEF Points
  <2>7. Overlays(E, ack + 1, n, base, cp.state)
    <3> PICK d : d = merged.doc
      OBVIOUS
    <3>1. ack + 1 \in Int /\ at \in Int /\ n \in Int /\ ack + 1 <= at + 1 /\ at <= n
      BY <2>2, <2>3, <2>4
    <3>2. Overlays(E, ack + 1, at, base, shown) /\ Overlays(E, at + 1, n, shown, d) /\ Edits(E)
      BY <2>2, <2>3, <2>5
    <3>3. Overlays(E, ack + 1, n, base, d)
      BY ONLY <3>1, <3>2, OverlaysJoin
    <3> QED BY <2>6, <3>3
  <2>8. sync' = [stage |-> "recoverCommit", cand |-> c, attempt |-> attempt, cp |-> cp]
    BY <1>3
  <2>9. sync' \in Recovering
    BY <2>2, <2>6, <2>8 DEF Recovering
  <2>10. sync' \in SyncSet /\ sync'.stage = "recoverCommit" /\ sync'.cand = c /\ sync'.cp = cp
    BY <2>8, <2>9 DEF SyncSet
  <2>11. AllEdits' = E /\ Base' = Base /\ disk' = disk /\ (InConflict' <=> InConflict)
    BY <1>0, HeldFrame, DiskFrame
  <2>12. NextOk(c.next)' <=> NextOk(c.next)
    BY <2>11 DEF NextOk
  <2>13. CandOk'
    <3>1. n <= disk.seq /\ edited' = n /\ view' = v
      BY <1>0, <2>1, <2>2
    <3> QED BY <2>3, <2>4, <2>6, <2>7, <2>10, <2>11, <2>12, <3>1 DEF CandOk
  <2>14. RoundOk' /\ MergeOk' /\ sync'.stage # "materialize"
    BY <2>10 DEF RoundOk, MergeOk, Uploading, Refused
  <2>15. ~Shown' /\ sync.stage # "dead"
    BY <1>0, <2>10 DEF Shown, Unpublished
  <2> QED BY <1>0, <2>3, <2>10, <2>13, <2>14, <2>15, SyncStep
<1>4. \/ sync' = [stage |-> "fence", cand |-> c]
      \/ /\ log = <<>>
         /\ sync' = [stage |-> "recoverCommit", cand |-> c, attempt |-> attempt,
                     cp |-> [seq |-> n, state |-> merged.doc]]
  BY DEF RecoverRead
<1> QED BY <1>2, <1>3, <1>4

LEMMA RestartStep ==
    ASSUME IInv, Restart
    PROVE  IInv'
<1>0. sync.stage # "dead" /\ UNCHANGED <<server, requests, disk, log, edited>>
  BY DEF Restart
<1> PICK E, n, at, ack, cp : E = AllEdits /\ n = edited /\ at = disk.cp.seq /\ ack = Base.ackSeq
                             /\ cp = disk.cp.state
  OBVIOUS
<1> PICK shown : shown = Recovered.doc
  OBVIOUS
<1>1. /\ ack \in Nat /\ at \in Nat /\ n \in Nat /\ ack <= at /\ at <= n /\ Edits(E)
      /\ Keeps(E, ack + 1, at, cp)
  BY StateFacts DEF BaseOk
<1>2. shown \in Documents /\ Overlays(E, at + 1, n, cp, shown)
      /\ Recovered = [ok |-> Recovered.ok, doc |-> shown]
  BY StateFacts, RecoveredOverlays
<1>3. Keeps(E, ack + 1, n, shown)
  <2>1. ack + 1 \in Int /\ at \in Int /\ n \in Int /\ ack + 1 <= at + 1 /\ at <= n
    BY <1>1
  <2> QED BY <1>1, <1>2, <2>1, KeepsJoin
<1>4. AllEdits' = E /\ Base' = Base /\ (InConflict' <=> InConflict) /\ Recovered' = Recovered
  BY <1>0, HeldFrame, DiskFrame, RecoveredFrame
<1>5. CASE Recovered.ok
  <2>1. view' = shown /\ sync' = Idle
    BY <1>5 DEF Restart
  <2>2. RoundOk' /\ MergeOk' /\ CandOk' /\ sync'.stage # "materialize" /\ sync' \in SyncSet /\ sync'.stage = "idle"
    BY <2>1, QuietTyped, QuietNext
  <2>3. ConflictOk'
    BY <1>0, <1>4, <2>2 DEF ConflictOk, IInv, Safe
  <2>4. Recovered = [ok |-> TRUE, doc |-> shown]
    <3>1. Recovered.ok = TRUE
      BY <1>5, <1>2 DEF Recovered, Replay
    <3> QED BY <1>2, <3>1
  <2>5. ViewOk'
    BY <1>0, <1>3, <1>4, <2>1, <2>4 DEF ViewOk
  <2> QED BY <1>0, <1>2, <2>1, <2>2, <2>3, <2>5, RoundStep
<1>6. CASE ~Recovered.ok
  <2>1. view' = view /\ sync' = [stage |-> "dead"]
    BY <1>6 DEF Restart
  <2>2. RoundOk' /\ MergeOk' /\ CandOk' /\ sync'.stage # "materialize" /\ sync' \in SyncSet /\ sync'.stage = "dead"
    BY <2>1, QuietTyped, QuietNext
  <2>3. ConflictOk'
    BY <1>0, <1>4, <2>2 DEF ConflictOk, IInv, Safe
  <2>4. ViewOk'
    BY <2>2 DEF ViewOk, Shown
  <2>5. view' \in Documents
    BY <2>1, StateFacts
  <2> QED BY <1>0, <2>2, <2>3, <2>4, <2>5, RoundStep
<1> QED BY <1>5, <1>6

-----------------------------------------------------------------------------
(* The steps that write a checkpoint or a control *)

LEMMA HeldStep ==
    ASSUME IInv, UNCHANGED <<server, requests, log, view, edited>>, NEW cp \in Points,
           NEW control \in Maybe(ControlSet), disk' = [disk EXCEPT !.cp = cp, !.control = control],
           sync' \in SyncSet, BaseOk', ConflictOk', ViewOk', RoundOk', MergeOk', CandOk',
           sync'.stage # "materialize"
    PROVE  IInv'
<1>1. disk' \in HeadSet /\ disk'.journal = disk.journal /\ disk'.seq = disk.seq
      /\ disk'.base = disk.base /\ disk'.flight = disk.flight
  BY DEF IInv, Typed, HeadSet
<1>2. /\ AllEdits' = AllEdits /\ Base' = Base /\ EditsOk' /\ ServerOk' /\ SameFlight'
      /\ (\A r \in requests : RequestOk(r))' /\ FlightOk' /\ Earned'
  BY <1>1, HeldFrame
<1>3. Typed'
  BY <1>1 DEF IInv, Typed, Revision
<1>4. Safe'
  BY <1>2 DEF Safe
<1> QED BY <1>3, <1>4 DEF IInv

LEMMA BaseFrame ==
    ASSUME IInv, UNCHANGED <<server, requests, log, edited>>, disk'.journal = disk.journal,
           disk'.seq = disk.seq, disk'.base = disk.base, disk'.flight = disk.flight,
           disk'.cp = disk.cp, ~InConflict' => ~InConflict
    PROVE  BaseOk'
<1>1. AllEdits' = AllEdits /\ Base' = Base
  BY HeldFrame
<1>2. \A revision, doc : HasVersion(revision, doc)' <=> HasVersion(revision, doc)
  BY <1>1, ServerFrame
<1> QED BY <1>1, <1>2, StateFacts DEF BaseOk

LEMMA FailStep ==
    ASSUME IInv, Fail
    PROVE  IInv'
<1>0. sync = Failed /\ sync' = Idle /\ UNCHANGED <<server, requests, log, view, edited>>
  BY DEF Fail
<1> PICK c : c = [retry |-> TRUE, conflict |-> {}]
  OBVIOUS
<1> PICK cp, control : cp = disk.cp /\ control = {c}
  OBVIOUS
<1>1. c \in ControlSet /\ c.conflict = {}
  BY DEF ControlSet, Maybe
<1>2. cp \in Points /\ control \in Maybe(ControlSet)
  BY <1>1, StateFacts DEF Maybe
<1>3. disk' = [disk EXCEPT !.control = control]
  BY DEF Fail, SetControl
<1>4. disk \in HeadSet
  BY DEF IInv, Typed
<1>5. /\ disk' = [disk EXCEPT !.cp = cp, !.control = control]
      /\ disk'.journal = disk.journal /\ disk'.seq = disk.seq /\ disk'.base = disk.base
      /\ disk'.flight = disk.flight /\ disk'.cp = disk.cp /\ disk'.control = control
  BY <1>3, <1>4 DEF HeadSet
<1>6. ~InConflict' /\ ~InConflict /\ Shown
  BY <1>0, <1>1, <1>5, RoundFree, QuietTyped DEF InConflict, Shown, Unpublished
<1>7. BaseOk'
  BY <1>0, <1>5, <1>6, BaseFrame
<1>8. RoundOk' /\ MergeOk' /\ CandOk' /\ sync'.stage # "materialize" /\ sync' \in SyncSet
  BY <1>0, QuietTyped, QuietNext
<1>9. AllEdits' = AllEdits /\ Base' = Base /\ Recovered' = Recovered
  BY <1>0, <1>5, HeldFrame, RecoveredFrame
<1>10. ViewOk'
  BY <1>0, <1>6, <1>9, QuietTyped DEF ViewOk, IInv, Safe
<1>11. ConflictOk'
  BY <1>6 DEF ConflictOk
<1> QED BY <1>0, <1>2, <1>5, <1>7, <1>8, <1>10, <1>11, HeldStep

LEMMA FenceOffStep ==
    ASSUME IInv, FenceOff
    PROVE  IInv'
<1>0. sync.stage = "fence" /\ sync' = Idle /\ UNCHANGED <<server, requests, log, view, edited>>
  BY DEF FenceOff
<1>1. sync.stage \in Unpublished
  BY <1>0 DEF Unpublished
<1> PICK k : k = [kind |-> sync.cand.kind, remoteRevision |-> sync.cand.base.revision]
  OBVIOUS
<1> PICK c : c = [retry |-> FALSE, conflict |-> {k}]
  OBVIOUS
<1> PICK cp, control : cp = disk.cp /\ control = {c}
  OBVIOUS
<1>2. k \in ConflictSet
  BY <1>1, CandFacts DEF Candidates, BaseSet, ConflictSet
<1>3. c \in ControlSet /\ c.conflict # {}
  BY <1>2 DEF ControlSet, Maybe
<1>4. cp \in Points /\ control \in Maybe(ControlSet)
  BY <1>3, StateFacts DEF Maybe
<1>5. disk' = [disk EXCEPT !.control = control]
  BY DEF FenceOff, SetControl, Conflict
<1>6. disk \in HeadSet
  BY DEF IInv, Typed
<1>7. /\ disk' = [disk EXCEPT !.cp = cp, !.control = control]
      /\ disk'.journal = disk.journal /\ disk'.seq = disk.seq /\ disk'.base = disk.base
      /\ disk'.flight = disk.flight /\ disk'.cp = disk.cp /\ disk'.control = control
  BY <1>5, <1>6 DEF HeadSet
<1>8. InConflict' /\ ~Shown'
  BY <1>3, <1>7 DEF InConflict, Shown
<1>9. BaseOk'
  BY <1>0, <1>7, <1>8, BaseFrame
<1>10. RoundOk' /\ MergeOk' /\ CandOk' /\ sync'.stage # "materialize" /\ sync' \in SyncSet
       /\ sync'.stage = "idle"
  BY <1>0, QuietTyped, QuietNext
<1>11. AllEdits' = AllEdits /\ Base' = Base
  BY <1>0, <1>7, HeldFrame
<1>12. ViewOk'
  BY <1>0, <1>8, <1>11 DEF ViewOk, IInv, Safe
<1>13. ConflictOk'
  BY <1>1, <1>7, <1>10, CandFacts DEF ConflictOk, CandOk
<1> QED BY <1>0, <1>4, <1>7, <1>9, <1>10, <1>12, <1>13, HeldStep

LEMMA RecoverCommitStep ==
    ASSUME IInv, RecoverCommit
    PROVE  IInv'
<1>0. sync.stage = "recoverCommit" /\ UNCHANGED <<server, requests, log, view, edited>>
  BY DEF RecoverCommit
<1>1. sync.stage \in Unpublished
  BY <1>0 DEF Unpublished
<1> PICK c, attempt, cp : c = sync.cand /\ attempt = sync.attempt /\ cp = sync.cp
  OBVIOUS
<1>2. sync \in Recovering /\ attempt \in Nat /\ cp \in Points
  BY <1>0, RoundTyped DEF Recovering
<1>3. CASE StillCurrent(cp.seq) /\ CommitCloudRecoveryOk(disk, Epoch, Device, cp, "none")
  <2>1. disk.control = {} /\ cp.seq = disk.seq
    BY <1>3 DEF CommitCloudRecoveryOk
  <2> PICK control : control = {}
    OBVIOUS
  <2>2. disk' = CommitCloudRecovery(disk, cp) /\ sync' = [sync EXCEPT !.stage = "recoverPublish"]
    BY <1>3 DEF RecoverCommit
  <2>3. disk' = [disk EXCEPT !.cp = cp, !.control = control] /\ control \in Maybe(ControlSet)
    BY <2>2 DEF CommitCloudRecovery, Maybe
  <2>4. disk \in HeadSet
    BY DEF IInv, Typed
  <2>5. /\ disk'.journal = disk.journal /\ disk'.seq = disk.seq /\ disk'.base = disk.base
        /\ disk'.flight = disk.flight /\ disk'.cp = cp /\ disk'.control = {} /\ disk.control = {}
    BY <2>1, <2>3, <2>4 DEF HeadSet
  <2>6. sync' \in Recovering /\ sync'.stage = "recoverPublish" /\ sync'.cand = c /\ sync'.cp = cp
    BY <1>2, <2>2 DEF Recovering
  <2>7. sync' \in SyncSet
    BY <2>6 DEF SyncSet
  <2>8. AllEdits' = AllEdits /\ Base' = Base
    BY <1>0, <2>5, HeldFrame
  <2>9. ~InConflict' /\ ~Shown'
    BY <2>5, <2>6 DEF InConflict, Shown, Unpublished
  <2>10. CandOk
    BY <1>1, CandFacts
  <2>11. NextOk(c.next)' <=> NextOk(c.next)
    BY <2>5, <2>8 DEF NextOk
  <2>12. /\ disk.base = {c.base} /\ disk.flight = {}
         /\ Base.ackSeq <= c.cp.seq /\ NextOk(c.next)
         /\ Rows(c.prev, c.cp.seq) /\ Within(c.cp.state, c.prev)
         /\ Overlays(AllEdits, c.cp.seq + 1, edited, c.prev, view)
         /\ Overlays(AllEdits, Base.ackSeq + 1, c.cp.seq, Base.state, c.cp.state)
         /\ c.cp.seq <= cp.seq /\ cp.seq <= disk.seq
         /\ Overlays(AllEdits, Base.ackSeq + 1, cp.seq, Base.state, cp.state)
    BY <1>0, <1>1, <2>10 DEF CandOk
  <2>13. CandOk'
    BY <1>0, <2>5, <2>6, <2>8, <2>9, <2>11, <2>12 DEF CandOk
  <2>14. BaseOk'
    <3>1. \A revision, doc : HasVersion(revision, doc)' <=> HasVersion(revision, doc)
      BY <1>0, <2>8, ServerFrame
    <3>2. Base.ackSeq <= cp.seq
      <4>1. Base.ackSeq \in Nat /\ c.cp.seq \in Nat /\ cp.seq \in Nat
        BY <1>1, <1>2, StateFacts, CandFacts, Bounds DEF Points
      <4> QED BY <2>12, <4>1
    <3>3. Keeps(AllEdits, Base.ackSeq + 1, cp.seq, cp.state)
      BY <2>12, StateFacts, OverlaysKeeps
    <3> QED BY <2>5, <2>8, <2>12, <3>1, <3>2, <3>3, StateFacts DEF BaseOk
  <2>15. ConflictOk'
    BY <2>9 DEF ConflictOk
  <2>16. ViewOk'
    BY <1>0, <2>8, <2>9 DEF ViewOk, IInv, Safe
  <2>17. RoundOk' /\ MergeOk' /\ sync'.stage # "materialize"
    BY <2>6 DEF RoundOk, MergeOk, Uploading, Refused
  <2> QED BY <1>0, <1>2, <2>3, <2>7, <2>13, <2>14, <2>15, <2>16, <2>17, HeldStep
<1>4. CASE ~ (StillCurrent(cp.seq) /\ CommitCloudRecoveryOk(disk, Epoch, Device, cp, "none"))
  <2>1. sync' = Repair(c, attempt + 1) /\ disk' = disk
    BY <1>4 DEF RecoverCommit
  <2>2. attempt + 1 \in Nat
    BY <1>2
  <2>3. sync' \in SyncSet /\ sync'.cand = c /\ sync'.stage \in {"recover", "fence"}
    BY <1>1, <2>1, <2>2, CandFacts, RepairTyped
  <2> QED BY <1>0, <1>1, <2>1, <2>3, CandKept
<1> QED BY <1>3, <1>4

LEMMA ApproveStep ==
    ASSUME IInv, Approve
    PROVE  IInv'
<1>0. /\ sync = Idle /\ log = <<>> /\ UNCHANGED <<server, requests, log, view, sync, edited>>
      /\ Replay(Base.state, EditsAfter(Base.ackSeq)) = [ok |-> TRUE, doc |-> view]
  BY DEF Approve
<1> PICK E, n, v, ack, base : E = AllEdits /\ n = disk.seq /\ v = view /\ ack = Base.ackSeq /\ base = Base.state
  OBVIOUS
<1> PICK cp, control : cp = [seq |-> n, state |-> v] /\ control = {}
  OBVIOUS
<1>1. CommitCloudRecoveryOk(disk, Epoch, Device, cp, "concurrent-ack") /\ disk' = CommitCloudRecovery(disk, cp)
  BY DEF Approve
<1>2. disk.flight = {} /\ disk' = [disk EXCEPT !.cp = cp, !.control = control] /\ control \in Maybe(ControlSet)
  BY <1>1 DEF CommitCloudRecoveryOk, CommitCloudRecovery, Maybe
<1>3. disk \in HeadSet
  BY DEF IInv, Typed
<1>4. /\ disk'.journal = disk.journal /\ disk'.seq = disk.seq /\ disk'.base = disk.base
      /\ disk'.flight = disk.flight /\ disk'.cp = cp /\ disk'.control = {}
  BY <1>2, <1>3 DEF HeadSet
<1>5. /\ n \in Nat /\ edited = n /\ v \in Documents /\ n \in Seqs /\ ack \in Nat /\ ack <= n /\ Edits(E)
      /\ base \in Documents
  <2>1. Len(log) = 0
    BY <1>0
  <2> QED BY <2>1, <1>3, StateFacts, EditsFacts, HeadTyped
<1>6. cp \in Points /\ cp.seq = n /\ cp.state = v
  BY <1>5 DEF Points
<1>7. Overlays(E, ack + 1, n, base, v)
  <2>1. Replay(base, EditsAfter(ack)).doc = v
    BY <1>0
  <2> QED BY <1>5, <2>1, StateFacts, CommittedOverlays
<1>8. AllEdits' = E /\ Base' = Base /\ EditsOk' /\ ~InConflict'
  BY <1>0, <1>4, HeldFrame DEF InConflict
<1>9. BaseOk'
  <2>1. \A revision, doc : HasVersion(revision, doc)' <=> HasVersion(revision, doc)
    BY <1>0, <1>8, ServerFrame
  <2>2. Keeps(E, ack + 1, n, v) /\ n <= n
    BY <1>5, <1>7, OverlaysKeeps
  <2> QED BY <1>4, <1>5, <1>6, <1>7, <1>8, <2>1, <2>2, StateFacts DEF BaseOk
<1>10. RoundOk' /\ MergeOk' /\ CandOk' /\ sync'.stage # "materialize" /\ sync' \in SyncSet
       /\ sync'.stage = "idle"
  BY <1>0, QuietTyped, QuietNext
<1>11. Typed'
  <2>1. disk' \in HeadSet
    BY <1>2, <1>3, <1>6 DEF HeadSet
  <2> QED BY <1>0, <2>1, <1>10 DEF IInv, Typed, Revision
<1>12. ViewOk'
  <2>1. Recovered' = [ok |-> TRUE, doc |-> v]
    <3>1. (disk.cp.seq = edited)' /\ (disk.cp.seq <= disk.seq)' /\ disk'.cp.state = v
      BY <1>0, <1>4, <1>5, <1>6
    <3> QED BY <1>8, <1>11, <3>1, RecoveredEmptyNext
  <2>2. Keeps(E, ack + 1, n, v)
    BY <1>5, <1>7, OverlaysKeeps
  <2> QED BY <1>0, <1>5, <1>8, <2>1, <2>2 DEF ViewOk
<1>13. ConflictOk'
  BY <1>8 DEF ConflictOk
<1> QED BY <1>0, <1>2, <1>6, <1>9, <1>10, <1>12, <1>13, HeldStep

-----------------------------------------------------------------------------
(* The steps that settle a flight: a new base, a new checkpoint, no flight *)

\* What such a step has to show of the base and the checkpoint it commits.
Settles(base, cp, control) ==
    /\ base \in BaseSet /\ cp \in Points /\ control \in Maybe(ControlSet)
    /\ HasVersion(base.revision, base.state) /\ Base.revision <= base.revision
    /\ Base.ackSeq <= base.ackSeq /\ base.ackSeq <= cp.seq /\ cp.seq = disk.seq /\ edited = cp.seq
    /\ \A r \in requests : r.flight.baseRevision = base.revision =>
          Replayed(r) /\ r.flight.startSeq <= base.ackSeq
    /\ \A r \in requests : Landed(r) =>
          r.flight.baseRevision < base.revision /\ r.flight.endSeq <= base.ackSeq
    /\ \A n \in (Base.ackSeq + 1)..base.ackSeq : \E r \in requests :
          /\ Replayed(r) /\ n \in r.flight.startSeq..r.flight.endSeq
          /\ Keeps(AllEdits, r.flight.startSeq, r.flight.endSeq, r.flight.snapshot)
    /\ Keeps(AllEdits, base.ackSeq + 1, cp.seq, cp.state)
    /\ control # {} => \E c \in control : c.conflict # {}
    /\ control = {} => Overlays(AllEdits, base.ackSeq + 1, cp.seq, base.state, cp.state)

\* A document of the server has no row of an edit after the last one that landed.
LEMMA LandedRows ==
    ASSUME IInv, NEW revision, NEW doc, HasVersion(revision, doc), NEW n \in Nat,
           \A r \in requests : Landed(r) => r.flight.endSeq <= n
    PROVE  Rows(doc, n)
<1> SUFFICES ASSUME NEW c \in Records, doc[c] \in 1..MaxEdits PROVE doc[c] <= n
  BY DEF Rows
<1>1. DOMAIN server.versions = 1..Revision
  BY DEF IInv, Typed, Revision
<1>2. PICK r \in requests : Landed(r) /\ doc[c] <= r.flight.endSeq
  BY <1>1, StateFacts DEF HasVersion, ServerOk, RowsLanded
<1>3. r.flight.endSeq <= n /\ r.flight.endSeq \in Nat
  BY <1>2, LandedFacts
<1> QED BY <1>2, <1>3

LEMMA SettleStep ==
    ASSUME IInv, NEW base, NEW cp, NEW control, Settles(base, cp, control),
           UNCHANGED <<server, requests, log, view, edited>>,
           disk' = [disk EXCEPT !.base = {base}, !.flight = {}, !.cp = cp, !.control = control],
           sync' \in SyncSet, sync.stage # "dead",
           control # {} => sync' = Idle,
           control = {} => sync'.stage = "publish" /\ CandOk'
    PROVE  IInv'
<1>0. /\ base \in BaseSet /\ cp \in Points /\ control \in Maybe(ControlSet)
      /\ base.revision \in Nat /\ base.ackSeq \in Nat /\ base.state \in Documents /\ cp.seq \in Nat
      /\ HasVersion(base.revision, base.state) /\ Base.revision <= base.revision
      /\ Base.ackSeq <= base.ackSeq /\ base.ackSeq <= cp.seq /\ cp.seq = disk.seq /\ edited = cp.seq
  BY Bounds DEF Settles, BaseSet, Points
<1>1. disk \in HeadSet
  BY DEF IInv, Typed
<1>2. disk' \in HeadSet /\ disk'.journal = disk.journal /\ disk'.seq = disk.seq
      /\ disk'.base = {base} /\ disk'.flight = {} /\ disk'.cp = cp /\ disk'.control = control
  BY <1>0, <1>1 DEF HeadSet
<1>3. Base' = base
  BY <1>2 DEF Base
<1>4. AllEdits' = AllEdits /\ EditsOk'
  BY <1>2, JournalFrame
<1>5. /\ ServerOk' /\ SameFlight'
      /\ \A r : (Replayed(r)' <=> Replayed(r)) /\ (Landed(r)' <=> Landed(r))
      /\ \A revision, doc : HasVersion(revision, doc)' <=> HasVersion(revision, doc)
  BY <1>4, ServerFrame
<1>6. Typed'
  BY <1>2 DEF IInv, Typed, Revision
<1>7. (\A r \in requests : RequestOk(r))'
  <2> SUFFICES ASSUME NEW r \in requests PROVE RequestOk(r)'
    OBVIOUS
  <2> PICK f : f = r.flight
    OBVIOUS
  <2>1. /\ f.baseRevision \in Nat /\ f.startSeq \in Nat /\ f.endSeq \in Nat /\ RequestOk(r)
        /\ Base.revision \in Nat /\ Base.ackSeq \in Nat
    BY LandedFacts, StateFacts
  <2>2. /\ f.operationId = <<f.baseRevision, f.startSeq>>
        /\ f.startSeq <= f.endSeq /\ f.endSeq <= disk.seq
        /\ f.startSeq <= Base.ackSeq + 1 /\ f.baseRevision \in 1..Base.revision
    BY <2>1 DEF RequestOk
  <2>3. /\ f.startSeq <= base.ackSeq + 1 /\ f.baseRevision \in 1..base.revision
    BY <1>0, <2>1, <2>2
  <2>4. /\ f.baseRevision = base.revision => Replayed(r) /\ f.startSeq <= base.ackSeq
        /\ Landed(r) => f.baseRevision < base.revision /\ f.endSeq <= base.ackSeq
    BY DEF Settles
  <2> QED BY <1>2, <1>3, <1>5, <2>2, <2>3, <2>4 DEF RequestOk
<1>8. Rows(base.state, base.ackSeq)
  BY <1>0, LandedRows DEF Settles
<1>9. ~InConflict' => control = {}
  BY <1>2 DEF Settles, InConflict
<1>10. BaseOk'
  BY <1>0, <1>2, <1>3, <1>4, <1>5, <1>8, <1>9 DEF BaseOk, Settles
<1>11. FlightOk'
  BY <1>2 DEF FlightOk
<1>12. Earned'
  <2> SUFFICES ASSUME NEW n \in 1..base.ackSeq
               PROVE  \E r \in requests :
                          /\ Replayed(r) /\ n \in r.flight.startSeq..r.flight.endSeq
                          /\ Keeps(AllEdits, r.flight.startSeq, r.flight.endSeq, r.flight.snapshot)
    BY <1>3, <1>4, <1>5 DEF Earned
  <2>1. n \in 1..Base.ackSeq \/ n \in (Base.ackSeq + 1)..base.ackSeq
    BY <1>0, StateFacts
  <2> QED BY <2>1 DEF Settles, IInv, Safe, Earned
<1>13. ConflictOk'
  <2>1. CASE control = {}
    BY <1>2, <2>1 DEF ConflictOk, InConflict
  <2>2. CASE control # {}
    BY <1>2, <2>2, QuietTyped DEF ConflictOk
  <2> QED BY <2>1, <2>2
<1>14. ViewOk'
  <2>1. Keeps(AllEdits, base.ackSeq + 1, edited, view)
    <3> PICK E, n, v, from, mid : /\ E = AllEdits /\ n = edited /\ v = view
                                  /\ from = Base.ackSeq + 1 /\ mid = base.ackSeq
      OBVIOUS
    <3>1. Keeps(E, from, n, v)
      BY DEF IInv, Safe, ViewOk
    <3>2. Edits(E) /\ from \in Int /\ mid \in Int /\ n \in Int /\ from <= mid + 1
      BY <1>0, StateFacts
    <3>3. Keeps(E, mid + 1, n, v)
      BY ONLY <3>1, <3>2, KeepsLater
    <3> QED BY <3>3
  <2>2. ~Shown'
    <3>1. CASE control = {}
      BY <3>1 DEF Shown, Unpublished
    <3>2. CASE control # {}
      BY <1>9, <3>2 DEF Shown
    <3> QED BY <3>1, <3>2
  <2> QED BY <1>3, <1>4, <2>1, <2>2 DEF ViewOk
<1>15. RoundOk' /\ MergeOk' /\ CandOk' /\ sync'.stage # "materialize"
  <2>1. CASE control = {}
    BY <2>1 DEF RoundOk, MergeOk, Uploading, Refused
  <2>2. CASE control # {}
    BY <2>2, QuietTyped, QuietNext
  <2> QED BY <2>1, <2>2
<1>16. Safe'
  BY <1>4, <1>5, <1>7, <1>10, <1>11, <1>12, <1>13, <1>14, <1>15 DEF Safe
<1> QED BY <1>6, <1>16 DEF IInv

\* The publication that follows.
LEMMA PublishTyped ==
    ASSUME NEW kind \in ConflictKinds, NEW tries \in Nat, NEW next \in {Idle} \cup Materializing,
           NEW base \in BaseSet, NEW prev \in Documents, NEW cp \in Points, NEW s,
           s = [stage |-> "publish", attempt |-> 0,
                cand |-> [kind |-> kind, tries |-> tries, next |-> next, base |-> base,
                          prev |-> prev, cp |-> cp]]
    PROVE  /\ s \in SyncSet /\ s.stage = "publish" /\ s.cand.base = base /\ s.cand.next = next
           /\ s.cand.prev = prev /\ s.cand.cp = cp
<1> PICK c : c = [kind |-> kind, tries |-> tries, next |-> next, base |-> base, prev |-> prev, cp |-> cp]
  OBVIOUS
<1>1. c \in Candidates
  BY DEF Candidates
<1>2. s \in Publishing
  BY <1>1 DEF Publishing
<1> QED BY <1>2 DEF SyncSet

\* Its candidate, right after the commit.
LEMMA CandCommitted ==
    ASSUME IInv, NEW base, NEW cp, Settles(base, cp, {}),
           UNCHANGED <<server, requests, log, view, edited>>,
           disk' = [disk EXCEPT !.base = {base}, !.flight = {}, !.cp = cp, !.control = {}],
           sync'.stage = "publish", sync'.cand.base = base, sync'.cand.cp = cp,
           sync'.cand.prev = view, Rows(view, cp.seq), Within(cp.state, view),
           NextOk(sync.cand.next)'
    PROVE  CandOk'
<1>0. /\ base \in BaseSet /\ cp \in Points /\ cp.seq \in Nat
      /\ base.ackSeq <= cp.seq /\ cp.seq = disk.seq /\ edited = cp.seq
      /\ Overlays(AllEdits, base.ackSeq + 1, cp.seq, base.state, cp.state)
  BY Bounds DEF Settles, Points
<1>1. disk' \in HeadSet /\ disk'.journal = disk.journal /\ disk'.seq = disk.seq
      /\ disk'.base = {base} /\ disk'.flight = {} /\ disk'.cp = cp /\ disk'.control = {}
  <2>1. disk \in HeadSet
    BY DEF IInv, Typed
  <2> QED BY <1>0, <2>1 DEF HeadSet, Maybe
<1>2. Base' = base /\ AllEdits' = AllEdits /\ ~InConflict'
  BY <1>1, JournalFrame DEF Base, InConflict
<1>3. Overlays(AllEdits, cp.seq + 1, edited, view, view)
  <2>1. cp.seq + 1 \in Int /\ edited \in Int /\ edited < cp.seq + 1
    BY <1>0
  <2> PICK E, v, from, n : E = AllEdits /\ v = view /\ from = cp.seq + 1 /\ n = edited
    OBVIOUS
  <2>2. Overlays(E, from, n, v, v)
    BY <2>1, NothingOverlays
  <2> QED BY <2>2
<1>4. cp.seq <= cp.seq
  BY <1>0
<1> QED BY <1>0, <1>1, <1>2, <1>3, <1>4 DEF CandOk

\* A commit that an edit got ahead of ends the round.
LEMMA GivenUp ==
    ASSUME IInv, UNCHANGED <<server, requests, disk, log, view, edited>>,
           sync.stage \notin Unpublished \cup {"idle", "dead"},
           sync' \in {Idle, Failed}
    PROVE  IInv'
<1>1. ~InConflict
  BY RoundFree
<1>2. sync' \in SyncSet /\ RoundOk' /\ MergeOk' /\ CandOk' /\ sync'.stage # "materialize"
  BY QuietTyped, QuietNext
<1> QED BY <1>1, <1>2, SyncStep

\* What is landed or known when the flight f is acknowledged or refused.
LEMMA OldRequests ==
    ASSUME IInv, NEW f, disk.flight \subseteq {f}, NEW r \in requests, r.flight # f
    PROVE  /\ r.flight.baseRevision <= Base.revision
           /\ r.flight.baseRevision = Base.revision => Replayed(r) /\ r.flight.startSeq <= Base.ackSeq
           /\ Landed(r) => r.flight.baseRevision < Base.revision /\ r.flight.endSeq <= Base.ackSeq
<1>1. RequestOk(r) /\ Base.revision \in Nat
  BY LandedFacts, StateFacts
<1>2. disk.flight # {r.flight}
  OBVIOUS
<1> QED BY <1>1, <1>2 DEF RequestOk

LEMMA CommitAckStep ==
    ASSUME IInv, CommitAck
    PROVE  IInv'
<1>0. sync.stage = "commitAck" /\ UNCHANGED <<server, requests, log, view, edited>>
  BY DEF CommitAck
<1> PICK f, row, cp, control, prev : f = sync.flight /\ row = sync.row /\ cp = sync.cp
                                     /\ control = sync.control /\ prev = sync.prev
  OBVIOUS
<1> PICK base : base = [revision |-> row.revision, ackSeq |-> f.endSeq, state |-> row.doc]
  OBVIOUS
<1>1. /\ f \in FlightSet /\ row \in RowSet /\ cp \in Points /\ control \in Maybe(ControlSet)
      /\ prev \in Documents
  BY <1>0, RoundTyped DEF Acking
<1>2. CASE ~ (StillCurrent(cp.seq) /\ Recovered.ok)
  <2>1. sync' = Failed /\ disk' = disk
    BY <1>2 DEF CommitAck
  <2> QED BY <1>0, <2>1, GivenUp DEF Unpublished
<1>3. CASE StillCurrent(cp.seq) /\ Recovered.ok
  <2>1. /\ AcknowledgeOk(disk, Epoch, Device, f.operationId, base, {cp})
        /\ disk' = Acknowledge(disk, base, {cp}, control)
        /\ sync' = IF control # {} THEN Idle
                   ELSE [stage |-> "publish", attempt |-> 0,
                         cand |-> [kind |-> "concurrent-ack", tries |-> 6, next |-> Idle,
                                   base |-> base, prev |-> prev, cp |-> cp]]
    BY <1>3 DEF CommitAck
  <2>2. /\ disk.flight = {f} /\ HasVersion(row.revision, row.doc)
        /\ \E r \in requests : r.flight = f /\ \E o \in server.operations :
                /\ o.id = r.flight.operationId /\ o.revision <= row.revision
                /\ o.revision \in r.flight.baseRevision..(r.flight.baseRevision + 1)
    BY <1>0 DEF IInv, Safe, RoundOk, Uploading
  <2>3. PICK r \in requests, o \in server.operations :
            /\ r.flight = f /\ o.id = f.operationId /\ o.revision <= row.revision
            /\ o.revision \in f.baseRevision..(f.baseRevision + 1)
    BY <2>2
  <2>4. /\ f.endSeq <= cp.seq /\ cp.seq <= disk.seq /\ (edited = cp.seq => view = prev)
        /\ Rows(prev, cp.seq) /\ Keeps(AllEdits, f.endSeq + 1, cp.seq, cp.state)
        /\ (control # {} => \E c \in control : c.conflict # {})
        /\ (control = {} => /\ Overlays(AllEdits, f.endSeq + 1, cp.seq, row.doc, cp.state)
                            /\ Within(cp.state, prev))
    BY <1>0 DEF IInv, Safe, MergeOk
  <2>5. /\ f \in disk.flight /\ f.startSeq \in Nat /\ f.endSeq \in Nat /\ f.baseRevision = Base.revision
        /\ f.startSeq = Base.ackSeq + 1 /\ f.startSeq <= f.endSeq
        /\ Keeps(AllEdits, f.startSeq, f.endSeq, f.snapshot)
    <3>1. f \in disk.flight
      BY <2>2
    <3> QED BY <3>1, FlightFacts, StateFacts, OverlaysKeeps
  <2>6. cp.seq = disk.seq /\ edited = cp.seq /\ cp.seq \in Nat
    BY <1>3, <2>1, StateFacts, EditsFacts DEF AcknowledgeOk, StillCurrent, Position
  <2>7. Base.revision <= row.revision
    BY <2>1, <2>2, <2>5 DEF AcknowledgeOk
  <2>8. base \in BaseSet /\ base.revision = row.revision /\ base.ackSeq = f.endSeq /\ base.state = row.doc
    <3>1. row.revision \in Revisions /\ row.doc \in Documents
      BY <1>1 DEF RowSet
    <3>2. f.endSeq \in Seqs
      BY <1>1, Bounds DEF FlightSet, Seqs, Numbers
    <3> QED BY <3>1, <3>2 DEF BaseSet
  <2>9. Base.revision \in Nat /\ Base.ackSeq \in Nat /\ row.revision \in Nat /\ o.revision \in Nat
    BY <2>2, <2>3, <2>5, StateFacts DEF HasVersion
  <2>10. ASSUME NEW q \in requests
         PROVE  /\ q.flight.baseRevision = row.revision => Replayed(q) /\ q.flight.startSeq <= f.endSeq
                /\ Landed(q) => q.flight.baseRevision < row.revision /\ q.flight.endSeq <= f.endSeq
    <3>0. q.flight.baseRevision \in Nat /\ q.flight.startSeq \in Nat /\ q.flight.endSeq \in Nat
      BY LandedFacts
    <3>1. CASE q.flight = f
      <4>1. Replayed(q)
        BY <2>3, <3>1 DEF Replayed
      <4>2. ASSUME Landed(q) PROVE f.baseRevision < row.revision
        <5>1. PICK p \in server.operations : p.id = f.operationId /\ p.revision = f.baseRevision + 1
          BY <3>1, <4>2, LandedFacts
        <5>2. p = o
          BY <2>3, <5>1, StateFacts DEF ServerOk, LedgerOk
        <5> QED BY <2>3, <2>5, <2>9, <5>1, <5>2
      <4> QED BY <2>5, <2>9, <3>1, <4>1, <4>2
    <3>2. CASE q.flight # f
      <4>1. /\ q.flight.baseRevision <= Base.revision
            /\ q.flight.baseRevision = Base.revision => Replayed(q) /\ q.flight.startSeq <= Base.ackSeq
            /\ Landed(q) => q.flight.baseRevision < Base.revision /\ q.flight.endSeq <= Base.ackSeq
        BY <2>2, <3>2, OldRequests
      <4>2. q.flight.baseRevision = row.revision => q.flight.baseRevision = Base.revision
        BY <2>7, <2>9, <3>0, <4>1
      <4> QED BY <2>5, <2>7, <2>9, <3>0, <4>1, <4>2
    <3> QED BY <3>1, <3>2
  <2>11. ASSUME NEW n \in (Base.ackSeq + 1)..f.endSeq
         PROVE  \E q \in requests :
                    /\ Replayed(q) /\ n \in q.flight.startSeq..q.flight.endSeq
                    /\ Keeps(AllEdits, q.flight.startSeq, q.flight.endSeq, q.flight.snapshot)
    <3>1. Replayed(r)
      BY <2>3 DEF Replayed
    <3>2. n \in f.startSeq..f.endSeq
      BY <2>5
    <3> QED BY <2>3, <2>5, <3>1, <3>2
  <2>12. Settles(base, cp, control)
    <3>1. Base.ackSeq <= f.endSeq
      BY <2>5, <2>9
    <3> QED BY <1>1, <2>2, <2>4, <2>6, <2>7, <2>8, <2>10, <2>11, <3>1 DEF Settles
  <2>13. disk' = [disk EXCEPT !.base = {base}, !.flight = {}, !.cp = cp, !.control = control]
    <3>1. disk' = [disk EXCEPT !.base = {base}, !.flight = {}, !.control = control, !.cp = cp]
      BY <2>1 DEF Acknowledge
    <3>2. disk \in HeadSet
      BY DEF IInv, Typed
    <3> QED BY <3>1, <3>2 DEF HeadSet
  <2>14. CASE control # {}
    BY <1>0, <2>1, <2>12, <2>13, <2>14, QuietTyped, SettleStep
  <2>15. CASE control = {}
    <3>1. sync' = [stage |-> "publish", attempt |-> 0,
                   cand |-> [kind |-> "concurrent-ack", tries |-> 6, next |-> Idle,
                             base |-> base, prev |-> prev, cp |-> cp]]
      BY <2>1, <2>15
    <3>2. /\ sync' \in SyncSet /\ sync'.stage = "publish" /\ sync'.cand.base = base
          /\ sync'.cand.next = Idle /\ sync'.cand.prev = prev /\ sync'.cand.cp = cp
      BY <1>1, <2>8, <3>1, PublishTyped DEF ConflictKinds
    <3>3. NextOk(sync.cand.next)'
      BY <3>2 DEF NextOk
    <3>4. view = prev /\ Rows(view, cp.seq) /\ Within(cp.state, view)
      BY <2>4, <2>6, <2>15
    <3>5. CandOk'
      BY <1>0, <2>12, <2>13, <2>15, <3>2, <3>3, <3>4, CandCommitted
    <3> QED BY <1>0, <2>12, <2>13, <2>15, <3>2, <3>5, SettleStep
  <2> QED BY <2>14, <2>15
<1> QED BY <1>2, <1>3

LEMMA CommitRebaseStep ==
    ASSUME IInv, CommitRebase
    PROVE  IInv'
<1>0. sync.stage = "commitRebase" /\ UNCHANGED <<server, requests, log, view, edited>>
  BY DEF CommitRebase
<1> PICK f, row, cp, control, prev, next :
            f = sync.flight /\ row = sync.row /\ cp = sync.cp
            /\ control = sync.control /\ prev = sync.prev /\ next = sync.next
  OBVIOUS
<1> PICK ack : ack = Base.ackSeq
  OBVIOUS
<1> PICK base : base = [revision |-> row.revision, ackSeq |-> ack, state |-> row.doc]
  OBVIOUS
<1>1. /\ f \in FlightSet /\ row \in RowSet /\ cp \in Points /\ control \in Maybe(ControlSet)
      /\ prev \in Documents /\ next \in Materializing
  BY <1>0, RoundTyped DEF Rebasing
<1>2. CASE ~ (StillCurrent(cp.seq) /\ Recovered.ok)
  <2>1. sync' = Failed /\ disk' = disk
    BY <1>2 DEF CommitRebase
  <2> QED BY <1>0, <2>1, GivenUp DEF Unpublished
<1>3. CASE StillCurrent(cp.seq) /\ Recovered.ok
  <2>1. /\ RejectFlightOk(disk, Epoch, Device, f.operationId, base, cp, cp.seq)
        /\ disk' = RejectFlight(disk, base, cp, control)
        /\ sync' = IF control # {} THEN Idle
                   ELSE [stage |-> "publish", attempt |-> 0,
                         cand |-> [kind |-> "concurrent-rebase", tries |-> 2, next |-> next,
                                   base |-> base, prev |-> prev, cp |-> cp]]
    BY <1>3 DEF CommitRebase
  <2>2. /\ disk.flight = {f} /\ HasVersion(row.revision, row.doc) /\ f.baseRevision < row.revision
        /\ \A r \in requests : r.flight = f => ~Landed(r)
    BY <1>0 DEF IInv, Safe, RoundOk, Uploading, Refused
  <2>4. /\ f.endSeq <= cp.seq /\ cp.seq <= disk.seq /\ (edited = cp.seq => view = prev)
        /\ Rows(prev, cp.seq) /\ Keeps(AllEdits, ack + 1, cp.seq, cp.state)
        /\ (control # {} => \E c \in control : c.conflict # {})
        /\ (control = {} => /\ Overlays(AllEdits, ack + 1, cp.seq, row.doc, cp.state)
                            /\ Within(cp.state, prev))
        /\ next.stage = "materialize" /\ next.through = f.endSeq
        /\ (control = {} => Overlays(AllEdits, ack + 1, next.through, row.doc, next.snapshot))
    BY <1>0 DEF IInv, Safe, MergeOk
  <2>5. /\ f \in disk.flight /\ f.startSeq \in Nat /\ f.endSeq \in Nat /\ f.baseRevision = Base.revision
        /\ f.startSeq = ack + 1 /\ f.startSeq <= f.endSeq /\ f.endSeq <= disk.seq
    <3>1. f \in disk.flight
      BY <2>2
    <3> QED BY <3>1, FlightFacts
  <2>6. cp.seq = disk.seq /\ edited = cp.seq /\ cp.seq \in Nat
    BY <1>3, <2>1, StateFacts, EditsFacts DEF RejectFlightOk, StillCurrent, Position
  <2>8. base \in BaseSet /\ base.revision = row.revision /\ base.ackSeq = ack /\ base.state = row.doc
    <3>1. row.revision \in Revisions /\ row.doc \in Documents
      BY <1>1 DEF RowSet
    <3>2. ack \in Seqs
      BY StateFacts DEF BaseSet
    <3> QED BY <3>1, <3>2 DEF BaseSet
  <2>9. Base.revision \in Nat /\ ack \in Nat /\ row.revision \in Nat /\ Base.revision < row.revision
    BY <2>2, <2>5, StateFacts DEF HasVersion
  <2>10. ASSUME NEW q \in requests
         PROVE  /\ q.flight.baseRevision = row.revision => Replayed(q) /\ q.flight.startSeq <= ack
                /\ Landed(q) => q.flight.baseRevision < row.revision /\ q.flight.endSeq <= ack
    <3>0. q.flight.baseRevision \in Nat /\ q.flight.startSeq \in Nat /\ q.flight.endSeq \in Nat
      BY LandedFacts
    <3>1. CASE q.flight = f
      BY <2>2, <2>5, <2>9, <3>1
    <3>2. CASE q.flight # f
      <4>1. /\ q.flight.baseRevision <= Base.revision
            /\ Landed(q) => q.flight.baseRevision < Base.revision /\ q.flight.endSeq <= Base.ackSeq
        BY <2>2, <3>2, OldRequests
      <4> QED BY <2>9, <3>0, <4>1
    <3> QED BY <3>1, <3>2
  <2>11. (Base.ackSeq + 1)..ack = {} /\ Base.ackSeq <= ack /\ ack <= cp.seq /\ Base.revision <= row.revision
    BY <2>4, <2>5, <2>6, <2>9
  <2>12. Settles(base, cp, control)
    BY <1>1, <2>2, <2>4, <2>6, <2>8, <2>10, <2>11 DEF Settles
  <2>13. disk' = [disk EXCEPT !.base = {base}, !.flight = {}, !.cp = cp, !.control = control]
    BY <2>1 DEF RejectFlight
  <2>14. CASE control # {}
    BY <1>0, <2>1, <2>12, <2>13, <2>14, QuietTyped, SettleStep
  <2>15. CASE control = {}
    <3>1. sync' = [stage |-> "publish", attempt |-> 0,
                   cand |-> [kind |-> "concurrent-rebase", tries |-> 2, next |-> next,
                             base |-> base, prev |-> prev, cp |-> cp]]
      BY <2>1, <2>15
    <3>2. /\ sync' \in SyncSet /\ sync'.stage = "publish" /\ sync'.cand.base = base
          /\ sync'.cand.next = next /\ sync'.cand.prev = prev /\ sync'.cand.cp = cp
      BY <1>1, <2>8, <3>1, PublishTyped DEF ConflictKinds
    <3>3. NextOk(sync.cand.next)'
      <4>0. disk \in HeadSet
        BY DEF IInv, Typed
      <4>1. disk'.flight = {} /\ disk'.base = {base} /\ disk'.journal = disk.journal /\ disk'.seq = disk.seq
        BY <2>13, <4>0 DEF HeadSet
      <4>2. Base' = base /\ AllEdits' = AllEdits
        BY <1>0, <4>1, JournalFrame DEF Base
      <4>3. ack < next.through /\ next.through <= disk.seq
        BY <2>4, <2>5, <2>9
      <4> QED BY <2>4, <2>8, <2>15, <3>2, <4>1, <4>2, <4>3 DEF NextOk
    <3>4. view = prev /\ Rows(view, cp.seq) /\ Within(cp.state, view)
      BY <2>4, <2>6, <2>15
    <3>5. CandOk'
      BY <1>0, <2>12, <2>13, <2>15, <3>2, <3>3, <3>4, CandCommitted
    <3> QED BY <1>0, <2>12, <2>13, <2>15, <3>2, <3>5, SettleStep
  <2> QED BY <2>14, <2>15
<1> QED BY <1>2, <1>3

LEMMA AdoptStep ==
    ASSUME IInv, Adopt
    PROVE  IInv'
<1>0. sync.stage = "polled" /\ UNCHANGED <<server, requests, log, view, edited>>
  BY DEF Adopt
<1> PICK row, n, v, E : row = sync.row /\ n = disk.seq /\ v = view /\ E = AllEdits
  OBVIOUS
<1> PICK cp, base : /\ cp = [seq |-> n, state |-> row.doc]
                    /\ base = [revision |-> row.revision, ackSeq |-> n, state |-> row.doc]
  OBVIOUS
<1>1. row \in RowSet /\ row.doc \in Documents /\ row.revision \in Revisions
  BY <1>0, RoundTyped DEF Polled, RowSet
<1>2. CASE ~ (log = <<>> /\ AdoptCloudHeadOk(disk, Epoch, Device, cp, base))
  <2>1. sync' = Idle /\ disk' = disk
    BY <1>2 DEF Adopt
  <2> QED BY <1>0, <2>1, GivenUp DEF Unpublished
<1>3. CASE log = <<>> /\ AdoptCloudHeadOk(disk, Epoch, Device, cp, base)
  <2> PICK control : control = {}
    OBVIOUS
  <2>1. /\ disk' = AdoptCloudHead(disk, cp, base)
        /\ sync' = [stage |-> "publish", attempt |-> 0,
                    cand |-> [kind |-> "concurrent-hydration", tries |-> 0, next |-> Idle,
                              base |-> base, prev |-> v, cp |-> cp]]
    BY <1>3 DEF Adopt
  <2>2. disk.flight = {} /\ HasVersion(row.revision, row.doc) /\ ~InConflict /\ Shown
    BY <1>0, RoundFree DEF IInv, Safe, RoundOk, Shown, Unpublished
  <2>3. /\ n \in Nat /\ n \in Seqs /\ edited = n /\ v \in Documents /\ Edits(E)
        /\ Base.ackSeq \in Nat /\ Base.revision \in Nat /\ row.revision \in Nat
        /\ Base.state \in Documents /\ disk.base = {Base}
    <3>1. Len(log) = 0
      BY <1>3
    <3> QED BY <2>2, <3>1, StateFacts, EditsFacts, HeadTyped DEF Typed, HasVersion
  <2>4. cp \in Points /\ cp.seq = n /\ cp.state = row.doc
    BY <1>1, <2>3 DEF Points
  <2>5. base \in BaseSet /\ base.revision = row.revision /\ base.ackSeq = n /\ base.state = row.doc
    BY <1>1, <2>3 DEF BaseSet
  <2>6. Base.ackSeq = n /\ Base.revision <= row.revision
    BY <1>3, <2>3, <2>5 DEF AdoptCloudHeadOk
  <2>7. ASSUME NEW q \in requests
        PROVE  /\ q.flight.baseRevision = row.revision => Replayed(q) /\ q.flight.startSeq <= n
               /\ Landed(q) => q.flight.baseRevision < row.revision /\ q.flight.endSeq <= n
    <3>0. q.flight.baseRevision \in Nat
      BY LandedFacts
    <3>1. /\ q.flight.baseRevision <= Base.revision
          /\ q.flight.baseRevision = Base.revision => Replayed(q) /\ q.flight.startSeq <= Base.ackSeq
          /\ Landed(q) => q.flight.baseRevision < Base.revision /\ q.flight.endSeq <= Base.ackSeq
      <4>1. RequestOk(q) /\ disk.flight # {q.flight}
        BY <2>2, LandedFacts
      <4> QED BY <2>3, <4>1 DEF RequestOk
    <3>2. q.flight.baseRevision = row.revision => q.flight.baseRevision = Base.revision
      BY <2>3, <2>6, <3>0, <3>1
    <3> QED BY <2>3, <2>6, <3>0, <3>1, <3>2
  <2>8. (Base.ackSeq + 1)..n = {} /\ Base.ackSeq <= n /\ n <= n /\ n < n + 1
    BY <2>3, <2>6
  <2>9. Overlays(E, n + 1, n, row.doc, row.doc) /\ Keeps(E, n + 1, n, row.doc)
    <3> PICK from, d : from = n + 1 /\ d = row.doc
      OBVIOUS
    <3>1. Overlays(E, from, n, d, d)
      BY <2>3, <2>8, NothingOverlays
    <3>2. Keeps(E, from, n, d)
      BY <2>3, <3>1, OverlaysKeeps
    <3> QED BY <3>1, <3>2
  <2>10. Settles(base, cp, control)
    BY <2>2, <2>3, <2>4, <2>5, <2>6, <2>7, <2>8, <2>9 DEF Settles, Maybe
  <2>11. disk' = [disk EXCEPT !.base = {base}, !.flight = {}, !.cp = cp, !.control = control]
    <3>1. disk' = [disk EXCEPT !.cp = cp, !.base = {base}, !.control = {}]
      BY <2>1 DEF AdoptCloudHead
    <3>2. disk \in HeadSet
      BY DEF IInv, Typed
    <3> QED BY <2>2, <3>1, <3>2 DEF HeadSet
  <2>12. /\ sync' \in SyncSet /\ sync'.stage = "publish" /\ sync'.cand.base = base
         /\ sync'.cand.next = Idle /\ sync'.cand.prev = v /\ sync'.cand.cp = cp
    BY <2>1, <2>3, <2>4, <2>5, PublishTyped DEF ConflictKinds
  <2>13. NextOk(sync.cand.next)'
    BY <2>12 DEF NextOk
  <2>14. Rows(v, n)
    BY <2>2, <2>3, ViewOverlays
  <2>15. Within(row.doc, v)
    <3> PICK s : s = Base.state
      OBVIOUS
    <3>1. Within(row.doc, s)
      BY <1>0, <2>6, PolledWithin
    <3>2. Overlays(E, Base.ackSeq + 1, edited, s, v)
      BY <2>2, ViewOverlays
    <3> PICK from : from = n + 1
      OBVIOUS
    <3>3. Overlays(E, from, n, s, v) /\ from \in Int /\ n \in Int /\ n < from
      BY <2>3, <2>6, <2>8, <3>2
    <3>4. \A c \in Records : v[c] = s[c]
      BY ONLY <3>3, NothingChanged
    <3> QED BY <3>1, <3>4 DEF Within
  <2>16. CandOk'
    BY <1>0, <2>4, <2>10, <2>11, <2>12, <2>13, <2>14, <2>15, CandCommitted
  <2> QED BY <1>0, <2>10, <2>11, <2>12, <2>16, SettleStep
<1> QED BY <1>2, <1>3

-----------------------------------------------------------------------------
(* The steps that send a flight *)

\* A flight over the base, with the edits from its start to its end.
Sendable(f) ==
    /\ f \in FlightSet /\ disk.flight \subseteq {f} /\ ~InConflict
    /\ f.operationId = <<f.baseRevision, f.startSeq>>
    /\ f.baseRevision = Base.revision /\ f.startSeq = Base.ackSeq + 1
    /\ f.startSeq <= f.endSeq /\ f.endSeq <= disk.seq
    /\ Overlays(AllEdits, f.startSeq, f.endSeq, Base.state, f.snapshot)

LEMMA SendStep ==
    ASSUME IInv, NEW f, Sendable(f), NEW r \in RequestSet, r.flight = f,
           disk' = [disk EXCEPT !.flight = {f}], UNCHANGED <<server, log, view, edited>>,
           sync.stage \in {"idle", "materialize"},
           \/ requests' = requests /\ sync' = Failed
           \/ /\ requests' = requests \cup {r}
              /\ sync' \in Calling /\ sync'.stage = "rpc" /\ sync'.flight = f
    PROVE  IInv'
<1>0. /\ f \in FlightSet /\ f.startSeq \in Nat /\ f.endSeq \in Nat /\ f.baseRevision \in Nat
      /\ Base.revision \in Nat /\ 1 <= Base.revision /\ Base.ackSeq \in Nat /\ Base.revision <= Revision
  BY StateFacts, Bounds DEF Sendable, FlightSet
<1>1. /\ disk.flight \subseteq {f} /\ ~InConflict
      /\ f.operationId = <<f.baseRevision, f.startSeq>>
      /\ f.baseRevision = Base.revision /\ f.startSeq = Base.ackSeq + 1
      /\ f.startSeq <= f.endSeq /\ f.endSeq <= disk.seq
      /\ Overlays(AllEdits, f.startSeq, f.endSeq, Base.state, f.snapshot)
  BY DEF Sendable
<1>2. disk \in HeadSet
  BY DEF IInv, Typed
<1>3. /\ disk' \in HeadSet /\ disk'.journal = disk.journal /\ disk'.seq = disk.seq
      /\ disk'.base = disk.base /\ disk'.flight = {f} /\ disk'.cp = disk.cp
      /\ disk'.control = disk.control
  BY <1>0, <1>2 DEF HeadSet
<1>4. Base' = Base /\ AllEdits' = AllEdits /\ EditsOk' /\ (InConflict' <=> InConflict)
      /\ Recovered' = Recovered
  BY <1>3, JournalFrame, RecoveredFrame DEF Base, InConflict
<1>5. requests \subseteq requests' /\ requests' \subseteq requests \cup {r}
  OBVIOUS
<1>6. /\ Revision' = Revision /\ RemoteSaves' = RemoteSaves
      /\ \A q : (Replayed(q)' <=> Replayed(q)) /\ (Landed(q)' <=> Landed(q))
      /\ \A revision, doc : HasVersion(revision, doc)' <=> HasVersion(revision, doc)
  BY DEF Replayed, Landed, HasVersion, Revision, RemoteSaves
<1>7. sync' \in SyncSet /\ sync'.stage \in {"failed", "rpc"}
  BY QuietTyped DEF SyncSet
<1>8. Typed'
  BY <1>3, <1>5, <1>6, <1>7 DEF IInv, Typed
<1>9. ASSUME NEW q \in requests, q.flight.operationId = f.operationId PROVE q.flight = f
  <2>1. /\ q.flight.operationId = <<q.flight.baseRevision, q.flight.startSeq>>
        /\ q.flight.baseRevision = Base.revision =>
              disk.flight = {q.flight} \/ (Replayed(q) /\ q.flight.startSeq <= Base.ackSeq)
    BY LandedFacts DEF RequestOk
  <2>2. q.flight.baseRevision = Base.revision /\ q.flight.startSeq = Base.ackSeq + 1
    BY <1>1, <1>9, <2>1
  <2>3. ~ (q.flight.startSeq <= Base.ackSeq)
    BY <1>0, <2>2
  <2> QED BY <1>1, <2>1, <2>2, <2>3
<1>10. SameFlight'
  <2>1. \A p, q \in requests : p.flight.operationId = q.flight.operationId => p.flight = q.flight
    BY DEF IInv, Safe, SameFlight
  <2> QED BY <1>5, <1>9, <2>1 DEF SameFlight
<1>11. ServerOk'
  <2>1. LandedInPlace'
    BY <1>5, StateFacts DEF ServerOk, LandedInPlace
  <2>2. LedgerOk'
    <3>1. \A o \in server.operations : \E q \in requests : q.flight.operationId = o.id
      BY StateFacts DEF ServerOk, LedgerOk
    <3>2. \A o \in server.operations : \A q \in requests' :
              q.flight.operationId = o.id => HasVersion(o.revision, q.flight.snapshot)
      <4> SUFFICES ASSUME NEW o \in server.operations, NEW q \in requests', q.flight.operationId = o.id
                   PROVE  HasVersion(o.revision, q.flight.snapshot)
        OBVIOUS
      <4>1. PICK p \in requests : p.flight.operationId = o.id
        BY <3>1
      <4>2. p.flight = q.flight
        BY <1>5, <1>10, <4>1 DEF SameFlight
      <4> QED BY <4>1, <4>2, StateFacts DEF ServerOk, LedgerOk
    <3>3. \A o, p \in server.operations : o.id = p.id => o = p
      BY StateFacts DEF ServerOk, LedgerOk
    <3> QED BY <1>5, <1>6, <3>1, <3>2, <3>3 DEF LedgerOk
  <2>3. RowsLanded'
    BY <1>5, <1>6, StateFacts DEF ServerOk, RowsLanded
  <2>4. RecordsInserted'
    BY <1>4, StateFacts DEF ServerOk, RecordsInserted
  <2>5. GoneForGood'
    BY <1>5, <1>6, StateFacts DEF ServerOk, GoneForGood
  <2>6. Counted'
    BY <1>5, <1>6, StateFacts DEF ServerOk, Counted
  <2> QED BY <2>1, <2>2, <2>3, <2>4, <2>5, <2>6 DEF ServerOk
<1>12. (\A q \in requests : RequestOk(q))'
  <2> SUFFICES ASSUME NEW q \in requests' PROVE RequestOk(q)'
    OBVIOUS
  <2>1. CASE q.flight = f
    <3>1. f.startSeq <= Base.ackSeq + 1 /\ f.baseRevision \in 1..Base.revision
      BY <1>0, <1>1
    <3> QED BY <1>1, <1>3, <1>4, <2>1, <3>1 DEF RequestOk
  <2>2. CASE q.flight # f
    <3>1. q \in requests /\ RequestOk(q) /\ disk.flight # {q.flight}
      BY <1>1, <1>5, <2>2, LandedFacts
    <3> QED BY <1>3, <1>4, <1>6, <3>1 DEF RequestOk
  <2> QED BY <2>1, <2>2
<1>13. BaseOk'
  BY <1>3, <1>4, <1>6, StateFacts DEF BaseOk
<1>14. FlightOk'
  BY <1>1, <1>3, <1>4 DEF FlightOk
<1>15. Earned'
  BY <1>4, <1>5, <1>6 DEF IInv, Safe, Earned
<1>16. ConflictOk'
  BY <1>1, <1>4 DEF ConflictOk
<1>17. ViewOk'
  <2>1. Shown /\ sync.stage # "dead"
    BY <1>1 DEF Shown, Unpublished
  <2> QED BY <1>4, <2>1 DEF ViewOk, IInv, Safe
<1>18. RoundOk' /\ MergeOk' /\ CandOk' /\ sync'.stage # "materialize"
  <2>1. CASE sync' = Failed
    BY <2>1, QuietTyped, QuietNext
  <2>2. CASE sync'.stage = "rpc" /\ sync'.flight = f /\ r \in requests'
    BY <1>3, <2>2 DEF RoundOk, MergeOk, CandOk, Uploading, Refused, Unpublished
  <2> QED BY <2>1, <2>2
<1>19. Safe'
  BY <1>4, <1>10, <1>11, <1>12, <1>13, <1>14, <1>15, <1>16, <1>17, <1>18 DEF Safe
<1> QED BY <1>8, <1>19 DEF IInv

\* A new flight over everything the base does not have, up to a position.
LEMMA NewFlightTyped ==
    ASSUME IInv, NEW through \in Nat, Base.ackSeq < through, through <= disk.seq,
           NEW snapshot \in Documents, NEW f, f = NewFlight(through, snapshot)
    PROVE  /\ f \in FlightSet /\ f.operationId = <<f.baseRevision, f.startSeq>>
           /\ f.baseRevision = Base.revision /\ f.startSeq = Base.ackSeq + 1
           /\ f.endSeq = through /\ f.startSeq <= f.endSeq /\ f.snapshot = snapshot
<1> PICK revision, ack : revision = Base.revision /\ ack = Base.ackSeq
  OBVIOUS
<1>1. /\ revision \in Revisions /\ revision \in Nat /\ 1 <= revision /\ ack \in Nat
      /\ ack + 1 <= through /\ through <= MaxEdits /\ MaxEdits \in Nat /\ MaxRemote \in Nat
  BY StateFacts, Bounds DEF BaseSet
<1>2. revision \in Rounds /\ ack + 1 \in Numbers /\ through \in Numbers
  BY <1>1 DEF Revisions, Rounds, Numbers
<1>3. f = [operationId |-> <<revision, ack + 1>>, baseRevision |-> revision,
           startSeq |-> ack + 1, endSeq |-> through, snapshot |-> snapshot]
  BY DEF NewFlight
<1>4. f \in FlightSet
  BY <1>1, <1>2, <1>3 DEF FlightSet
<1> QED BY <1>1, <1>3, <1>4

LEMMA DeclaredTyped ==
    ASSUME IInv, NEW f \in FlightSet
    PROVE  [flight |-> f, deletes |-> Declared(f)] \in RequestSet
<1>1. disk.journal \subseteq OpSet
  BY HeadTyped DEF IInv, Typed
<1>2. \A op \in disk.journal : op.id.record \in Records
  BY <1>1, EditTyped DEF OpSet
<1>3. Declared(f) \subseteq Records
  BY <1>2 DEF Declared, DeleteIntents
<1> QED BY <1>3 DEF RequestSet

LEMMA UploadStep ==
    ASSUME IInv, Upload
    PROVE  IInv'
<1>0. /\ sync = Idle /\ ~InConflict /\ UNCHANGED <<server, log, view, edited>>
      /\ Pending(disk) \/ disk.flight # {}
      /\ disk.flight = {} => log = <<>> /\ Recovered.ok
  BY DEF Upload
<1> PICK f : f = IF disk.flight # {} THEN Flight ELSE NewFlight(disk.seq, Recovered.doc)
  OBVIOUS
<1> PICK r : r = [flight |-> f, deletes |-> Declared(f)]
  OBVIOUS
<1>1. /\ disk' = BeginFlight(disk, f) /\ requests' = requests \cup {r}
      /\ sync' = [stage |-> "rpc", flight |-> f, attempt |-> 1]
  BY DEF Upload, Send
<1>2. Sendable(f)
  <2>1. CASE disk.flight # {}
    <3>1. f \in disk.flight
      BY <2>1 DEF Flight
    <3> QED BY <1>0, <3>1, FlightFacts DEF Sendable
  <2>2. CASE disk.flight = {}
    <3> PICK n, doc, E, ack, base, at, cp :
            /\ n = disk.seq /\ doc = Recovered.doc /\ E = AllEdits /\ ack = Base.ackSeq
            /\ base = Base.state /\ at = disk.cp.seq /\ cp = disk.cp.state
      OBVIOUS
    <3>1. log = <<>> /\ f = NewFlight(n, doc)
      BY <1>0, <2>2
    <3>2. /\ n \in Nat /\ edited = n /\ ack \in Nat /\ at \in Nat /\ ack <= at /\ at <= n /\ Edits(E)
          /\ doc \in Documents /\ disk.base = {Base}
      <4>1. Len(log) = 0
        BY <3>1
      <4> QED BY <4>1, StateFacts, EditsFacts, RecoveredOverlays
    <3>3. ack < n
      BY <1>0, <2>2, <3>2 DEF Pending
    <3>4. /\ f \in FlightSet /\ f.operationId = <<f.baseRevision, f.startSeq>>
          /\ f.baseRevision = Base.revision /\ f.startSeq = Base.ackSeq + 1
          /\ f.endSeq = n /\ f.startSeq <= f.endSeq /\ f.snapshot = doc
      BY <3>1, <3>2, <3>3, NewFlightTyped
    <3>5. Overlays(E, ack + 1, n, base, doc)
      <4>1. Overlays(E, ack + 1, at, base, cp)
        BY <1>0, StateFacts DEF BaseOk
      <4>2. Overlays(E, at + 1, n, cp, doc)
        BY <3>2, StateFacts, RecoveredOverlays
      <4>3. ack + 1 \in Int /\ at \in Int /\ n \in Int /\ ack + 1 <= at + 1 /\ at <= n /\ Edits(E)
        BY <3>2
      <4> QED BY ONLY <4>1, <4>2, <4>3, OverlaysJoin
    <3>6. n <= disk.seq
      BY <3>2
    <3> QED BY <1>0, <2>2, <3>4, <3>5, <3>6 DEF Sendable
  <2> QED BY <2>1, <2>2
<1>3. f \in FlightSet /\ r \in RequestSet /\ r.flight = f
  BY <1>2, DeclaredTyped DEF Sendable
<1>4. disk' = [disk EXCEPT !.flight = {f}]
  BY <1>1 DEF BeginFlight
<1>5. sync' \in Calling /\ sync'.stage = "rpc" /\ sync'.flight = f
  BY <1>1, <1>3 DEF Calling
<1> QED BY <1>0, <1>1, <1>2, <1>3, <1>4, <1>5, QuietTyped, SendStep

LEMMA MaterializeStep ==
    ASSUME IInv, Materialize
    PROVE  IInv'
<1>0. /\ sync.stage = "materialize" /\ UNCHANGED <<server, log, view, edited>>
  BY DEF Materialize
<1>1. ~InConflict /\ sync \in Materializing
  BY <1>0, RoundFree, RoundTyped
<1> PICK through, snapshot, attempt : through = sync.through /\ snapshot = sync.snapshot /\ attempt = sync.attempt
  OBVIOUS
<1> PICK f : f = NewFlight(through, snapshot)
  OBVIOUS
<1> PICK r : r = [flight |-> f, deletes |-> Declared(f)]
  OBVIOUS
<1>2. CASE ~Recovered.ok
  <2>1. sync' = Failed /\ UNCHANGED <<requests, disk>>
    BY <1>2 DEF Materialize
  <2> QED BY <1>0, <2>1, GivenUp DEF Unpublished
<1>3. CASE Recovered.ok
  <2>1. /\ disk' = BeginFlight(disk, f)
        /\ \/ /\ requests' = requests \cup {r}
              /\ sync' = [stage |-> "rpc", flight |-> f, attempt |-> attempt + 1]
           \/ sync' = Failed /\ requests' = requests
    BY <1>3 DEF Materialize, Send
  <2>2. /\ through \in Nat /\ snapshot \in Documents /\ attempt \in Nat
    BY <1>1, Bounds DEF Materializing
  <2>3. /\ disk.flight = {} /\ Base.ackSeq < through /\ through <= disk.seq
        /\ Overlays(AllEdits, Base.ackSeq + 1, through, Base.state, snapshot)
    BY <1>0, QuietTyped DEF IInv, Safe, NextOk
  <2>4. /\ f \in FlightSet /\ f.operationId = <<f.baseRevision, f.startSeq>>
        /\ f.baseRevision = Base.revision /\ f.startSeq = Base.ackSeq + 1
        /\ f.endSeq = through /\ f.startSeq <= f.endSeq /\ f.snapshot = snapshot
    BY <2>2, <2>3, NewFlightTyped
  <2>5. Sendable(f)
    BY <1>1, <2>3, <2>4 DEF Sendable
  <2>6. r \in RequestSet /\ r.flight = f
    BY <2>4, DeclaredTyped
  <2>7. disk' = [disk EXCEPT !.flight = {f}]
    BY <2>1 DEF BeginFlight
  <2>8. \/ requests' = requests /\ sync' = Failed
        \/ /\ requests' = requests \cup {r}
           /\ sync' \in Calling /\ sync'.stage = "rpc" /\ sync'.flight = f
    <3>1. attempt + 1 \in Nat
      BY <2>2
    <3> QED BY <2>1, <2>4, <3>1 DEF Calling
  <2> QED BY <1>0, <2>5, <2>6, <2>7, <2>8, SendStep
<1> QED BY <1>2, <1>3

-----------------------------------------------------------------------------
(* The server *)

LEMMA ServerTyped ==
    ASSUME Typed
    PROVE  /\ DOMAIN server.versions = 1..Revision /\ Revision \in Nat /\ Revision # 0
           /\ server.versions \in Seq(VersionSet) /\ server.operations \subseteq LedgerSet
           /\ server = [versions |-> server.versions, operations |-> server.operations]
BY DEF Typed, Revision

\* A document more.
LEMMA Appended ==
    ASSUME Typed, NEW v \in VersionSet, server'.versions = Append(server.versions, v)
    PROVE  /\ Revision' = Revision + 1 /\ DOMAIN server'.versions = 1..(Revision + 1)
           /\ server'.versions \in Seq(VersionSet)
           /\ \A i \in 1..Revision : server'.versions[i] = server.versions[i]
           /\ server'.versions[Revision + 1] = v
           /\ \A revision, doc : HasVersion(revision, doc) => HasVersion(revision, doc)'
           /\ \A q : Landed(q)' <=> Landed(q) \/ q \in v.by
<1> PICK n : n = Revision
  OBVIOUS
<1> PICK vs : vs = server.versions
  OBVIOUS
<1>1. vs \in Seq(VersionSet) /\ n \in Nat /\ n = Len(vs) /\ DOMAIN vs = 1..n
  BY ServerTyped DEF Revision
<1> PICK ws : ws = Append(vs, v)
  OBVIOUS
<1>2. /\ ws \in Seq(VersionSet) /\ Len(ws) = n + 1 /\ DOMAIN ws = 1..(n + 1)
      /\ (\A i \in 1..n : ws[i] = vs[i]) /\ ws[n + 1] = v
  BY <1>1
<1>3. server'.versions = ws /\ Revision' = n + 1
  BY <1>2 DEF Revision
<1>4. \A i \in 1..n : i \in 1..(n + 1)
  BY <1>1
<1>5. n + 1 \in 1..(n + 1) /\ \A i \in 1..(n + 1) : i \in 1..n \/ i = n + 1
  BY <1>1
<1>6. \A revision, doc : HasVersion(revision, doc) => HasVersion(revision, doc)'
  BY <1>2, <1>3, <1>4 DEF HasVersion
<1>7. \A q : Landed(q)' <=> Landed(q) \/ q \in v.by
  BY <1>1, <1>2, <1>3, <1>4, <1>5 DEF Landed
<1> QED BY <1>2, <1>3, <1>6, <1>7

\* What is known of a flight that a save of its request makes a version.
LEMMA SavedFlight ==
    ASSUME IInv, NEW r \in requests, Saved(r)
    PROVE  /\ r.flight.baseRevision = Revision /\ Base.revision = Revision
           /\ disk.flight = {r.flight} /\ HasVersion(Revision, Base.state) /\ ~Replayed(r)
           /\ \A q \in requests : Landed(q) =>
                 q.flight.baseRevision < Revision /\ q.flight.endSeq < r.flight.startSeq
<1> PICK f : f = r.flight
  OBVIOUS
<1>1. /\ ~Replayed(r) /\ f.baseRevision = Revision
  BY DEF Saved
<1>2. /\ f.baseRevision \in 1..Base.revision /\ f.baseRevision \in Nat
      /\ f.baseRevision = Base.revision => disk.flight = {f} \/ (Replayed(r) /\ f.startSeq <= Base.ackSeq)
  BY LandedFacts DEF RequestOk
<1>3. Base.revision = Revision /\ Revision \in Nat /\ Base.ackSeq \in Nat
  BY <1>1, <1>2, StateFacts
<1>4. disk.flight = {f}
  BY <1>1, <1>2, <1>3
<1>5. HasVersion(Revision, Base.state)
  BY <1>3, StateFacts DEF BaseOk
<1>6. f.startSeq = Base.ackSeq + 1
  BY <1>4, FlightFacts
<1>7. ASSUME NEW q \in requests, Landed(q)
      PROVE  q.flight.baseRevision < Revision /\ q.flight.endSeq < r.flight.startSeq
  <2>1. /\ [id |-> q.flight.operationId, revision |-> q.flight.baseRevision + 1] \in server.operations
        /\ q.flight.endSeq \in Nat
    BY <1>7, LandedFacts
  <2>2. q.flight # f
    BY <1>1, <2>1 DEF Replayed
  <2>3. q.flight.baseRevision < Base.revision /\ q.flight.endSeq <= Base.ackSeq
    BY <1>4, <1>7, <2>2, OldRequests
  <2> QED BY <1>3, <1>6, <2>1, <2>3
<1> QED BY <1>1, <1>3, <1>4, <1>5, <1>7

LEMMA CountedRevision ==
    ASSUME Counted, requests \subseteq RequestSet, Revision \in Nat
    PROVE  Revision \in Revisions
<1>1. \A r \in requests : r.flight.endSeq <= MaxEdits
  BY DEF RequestSet, FlightSet, Numbers
<1>2. Revision <= RemoteSaves + 1 + MaxEdits /\ RemoteSaves \in 0..MaxRemote
  BY <1>1, Bounds DEF Counted
<1> QED BY <1>2, Bounds DEF Revisions

LEMMA CountedRevisionNext ==
    (Counted /\ requests \subseteq RequestSet /\ Revision \in Nat => Revision \in Revisions)'
<1>1. Counted /\ requests \subseteq RequestSet /\ Revision \in Nat => Revision \in Revisions
  BY CountedRevision
<1> QED BY <1>1, PTL

\* A document saved for a flight.
LEMMA SavedServer ==
    ASSUME IInv, NEW r \in requests, Saved(r), server' = Save(r),
           UNCHANGED <<requests, disk, log, view, edited>>
    PROVE  /\ ServerOk' /\ server' \in [versions : Seq(VersionSet), operations : SUBSET LedgerSet]
           /\ Revision' = Revision + 1 /\ server.operations \subseteq server'.operations
           /\ \A revision, doc : HasVersion(revision, doc) => HasVersion(revision, doc)'
           /\ \A q : Landed(q)' <=> Landed(q) \/ q = r
<1> PICK f, n : f = r.flight /\ n = Revision
  OBVIOUS
<1> PICK v : v = [doc |-> f.snapshot, by |-> {r}]
  OBVIOUS
<1> PICK o : o = [id |-> f.operationId, revision |-> n + 1]
  OBVIOUS
<1>0. Typed /\ n \in Nat /\ n >= 1 /\ DOMAIN server.versions = 1..n
  BY StateFacts, ServerTyped
<1>1. f \in FlightSet /\ f.snapshot \in Documents /\ r \in RequestSet /\ v \in VersionSet
  BY LandedFacts DEF VersionSet, IInv, Typed
<1>2. Append(server.versions, v) \in Seq(VersionSet) /\ Len(Append(server.versions, v)) = n + 1
  BY <1>0, <1>1, ServerTyped DEF Revision
<1>3. server'.versions = Append(server.versions, v)
      /\ server'.operations = server.operations \cup {o}
      /\ server' = [versions |-> server'.versions, operations |-> server'.operations]
  BY <1>2 DEF Save
<1>4. /\ Revision' = n + 1 /\ DOMAIN server'.versions = 1..(n + 1)
      /\ server'.versions \in Seq(VersionSet)
      /\ \A i \in 1..n : server'.versions[i] = server.versions[i]
      /\ server'.versions[n + 1] = v
      /\ \A revision, doc : HasVersion(revision, doc) => HasVersion(revision, doc)'
      /\ \A q : Landed(q)' <=> Landed(q) \/ q \in v.by
  BY <1>0, <1>1, <1>3, Appended
<1>5. /\ f.baseRevision = n /\ Base.revision = n /\ f \in disk.flight
      /\ HasVersion(n, Base.state) /\ ~Replayed(r)
      /\ \A q \in requests : Landed(q) => q.flight.baseRevision < n /\ q.flight.endSeq < f.startSeq
  BY SavedFlight
<1>6. \A q : Landed(q)' <=> Landed(q) \/ q = r
  BY <1>4
<1>7. AllEdits' = AllEdits
  BY DEF AllEdits
<1>8. \A i \in 1..(n + 1) : i \in 1..n \/ i = n + 1
  BY <1>0
<1>9. LandedInPlace'
  <2> SUFFICES ASSUME NEW i \in 1..(n + 1), NEW q \in server'.versions[i].by
               PROVE  /\ q \in requests /\ q.flight.baseRevision = i - 1
                      /\ [id |-> q.flight.operationId, revision |-> i] \in server'.operations
    BY <1>4 DEF LandedInPlace
  <2>1. CASE i \in 1..n
    BY <1>0, <1>3, <1>4, <2>1, StateFacts DEF ServerOk, LandedInPlace
  <2>2. CASE i = n + 1
    <3>1. q = r
      BY <1>4, <2>2
    <3>2. i - 1 = n
      BY <1>0, <2>2
    <3> QED BY <1>3, <1>5, <2>2, <3>1, <3>2
  <2> QED BY <1>8, <2>1, <2>2
<1>10. LedgerOk'
  <2>1. \A p \in server.operations : p.id # f.operationId
    BY <1>5 DEF Replayed
  <2>2. \A p, q \in server'.operations : p.id = q.id => p = q
    BY <1>3, <2>1, StateFacts DEF ServerOk, LedgerOk
  <2>3. \A p \in server'.operations : \E q \in requests : q.flight.operationId = p.id
    BY <1>3, StateFacts DEF ServerOk, LedgerOk
  <2>4. HasVersion(n + 1, f.snapshot)'
    BY <1>0, <1>4 DEF HasVersion
  <2>5. \A q \in requests : q.flight.operationId = f.operationId => q.flight = f
    BY DEF IInv, Safe, SameFlight
  <2>6. ASSUME NEW p \in server'.operations, NEW q \in requests, q.flight.operationId = p.id
        PROVE  HasVersion(p.revision, q.flight.snapshot)'
    <3>1. CASE p \in server.operations
      BY <1>4, <2>6, <3>1, StateFacts DEF ServerOk, LedgerOk
    <3>2. CASE p = o
      BY <2>4, <2>5, <2>6, <3>2
    <3> QED BY <1>3, <3>1, <3>2
  <2> QED BY <2>2, <2>3, <2>6 DEF LedgerOk
<1>11. RowsLanded'
  <2> SUFFICES ASSUME NEW i \in 1..(n + 1), NEW c \in Records, server'.versions[i].doc[c] \in 1..MaxEdits
               PROVE  \E q \in requests : Landed(q)' /\ server'.versions[i].doc[c] <= q.flight.endSeq
    BY <1>4 DEF RowsLanded
  <2>1. CASE i \in 1..n
    BY <1>0, <1>4, <2>1, StateFacts DEF ServerOk, RowsLanded
  <2>2. CASE i = n + 1
    <3>1. server'.versions[i].doc = f.snapshot
      BY <1>4, <2>2
    <3>2. f.snapshot[c] <= f.endSeq
      BY <1>5, <3>1, FlightFacts DEF Rows
    <3> QED BY <1>6, <3>1, <3>2
  <2> QED BY <1>8, <2>1, <2>2
<1>12. RecordsInserted'
  <2> SUFFICES ASSUME NEW i \in 1..(n + 1), NEW c \in Records, server'.versions[i].doc[c] # Absent
               PROVE  c \in Original \/ \E e \in AllEdits : e.record = c
    BY <1>4, <1>7 DEF RecordsInserted
  <2>1. CASE i \in 1..n
    <3>1. server.versions[i].doc[c] # Absent
      BY <1>4, <2>1
    <3>2. RecordsInserted
      BY StateFacts DEF ServerOk
    <3> QED BY <1>0, <2>1, <3>1, <3>2 DEF RecordsInserted
  <2>2. CASE i = n + 1
    <3>1. f.snapshot[c] # Absent
      BY <1>4, <2>2
    <3>2. Overlays(AllEdits, f.startSeq, f.endSeq, Base.state, f.snapshot)
      BY <1>5, FlightFacts
    <3>3. f.snapshot[c] = Base.state[c] \/ \E e \in AllEdits : e.record = c
      BY <3>2 DEF Overlays
    <3>4. n \in 1..n /\ Base.state = server.versions[n].doc
      BY <1>0, <1>5 DEF HasVersion
    <3>5. RecordsInserted
      BY StateFacts DEF ServerOk
    <3>6. server.versions[n].doc[c] # Absent => c \in Original \/ \E e \in AllEdits : e.record = c
      BY <1>0, <3>4, <3>5 DEF RecordsInserted
    <3> QED BY <3>1, <3>3, <3>4, <3>6
  <2> QED BY <1>8, <2>1, <2>2
<1>13. GoneForGood'
  <2> SUFFICES ASSUME NEW i \in 1..(n + 1), NEW j \in 1..(n + 1), i <= j,
                      \A q \in requests : Landed(q)' => q.flight.baseRevision \notin i..(j - 1)
               PROVE  Within(server'.versions[j].doc, server'.versions[i].doc)
    BY <1>4 DEF GoneForGood
  <2>1. CASE j \in 1..n
    <3>1. i \in 1..n
      BY <1>0, <2>1
    <3> QED BY <1>0, <1>4, <1>6, <2>1, <3>1, StateFacts DEF ServerOk, GoneForGood
  <2>2. CASE j = n + 1 /\ i = n + 1
    BY <2>2 DEF Within
  <2>3. CASE j = n + 1 /\ i \in 1..n
    <3>1. n \in i..(j - 1)
      BY <1>0, <2>3
    <3> QED BY <1>5, <1>6, <3>1
  <2> QED BY <1>8, <2>1, <2>2, <2>3
<1>14. RemoteSaves' = RemoteSaves
  <2>1. \A i \in 1..n : i \in 1..(n + 1) /\ server'.versions[i] = server.versions[i]
    BY <1>0, <1>4
  <2>2. server'.versions[n + 1].by # {}
    BY <1>4
  <2>3. {i \in 1..(n + 1) : server'.versions[i].by = {}} = {i \in 1..n : server.versions[i].by = {}}
    BY <1>8, <2>1, <2>2
  <2> QED BY <1>0, <1>4, <2>3 DEF RemoteSaves
<1>15. Counted'
  <2>1. Counted
    BY StateFacts DEF ServerOk
  <2>2. f.startSeq \in Nat /\ f.startSeq >= 1 /\ f.endSeq \in Nat /\ f.startSeq <= f.endSeq
    BY <1>5, FlightFacts, StateFacts
  <2>3. ASSUME NEW m \in 0..MaxEdits, \A q \in requests : Landed(q)' => q.flight.endSeq <= m
        PROVE  n + 1 <= RemoteSaves + 1 + m
    <3>1. f.endSeq <= m /\ m \in Nat
      BY <1>6, <2>3, Bounds
    <3>2. m - 1 \in 0..MaxEdits
      BY <2>2, <3>1, Bounds
    <3>3. ASSUME NEW q \in requests, Landed(q) PROVE q.flight.endSeq <= m - 1
      <4>1. q.flight.endSeq < f.startSeq /\ q.flight.endSeq \in Nat
        BY <1>5, <3>3, LandedFacts
      <4> QED BY <2>2, <3>1, <4>1
    <3>4. n <= RemoteSaves + 1 + (m - 1) /\ RemoteSaves \in 0..MaxRemote
      BY <2>1, <3>2, <3>3 DEF Counted
    <3> QED BY <1>0, <3>1, <3>4
  <2> QED BY <1>4, <1>14, <2>1, <2>3 DEF Counted
<1>16. n + 1 \in Revisions
  <2>1. requests' \subseteq RequestSet /\ Revision' \in Nat
    BY <1>0, <1>4 DEF Typed
  <2> QED BY <1>4, <1>15, <2>1, CountedRevisionNext
<1>17. o \in LedgerSet
  BY <1>1, <1>16 DEF LedgerSet, FlightSet
<1>18. server' \in [versions : Seq(VersionSet), operations : SUBSET LedgerSet]
  BY <1>0, <1>3, <1>4, <1>17, ServerTyped
<1> QED BY <1>3, <1>4, <1>6, <1>9, <1>10, <1>11, <1>12, <1>13, <1>15, <1>18 DEF ServerOk

\* A document found equal to the current one.
LEMMA KnownServer ==
    ASSUME IInv, NEW r \in requests, ~Saved(r), server' = Save(r),
           UNCHANGED <<requests, disk, log, view, edited>>
    PROVE  /\ ServerOk' /\ server' \in [versions : Seq(VersionSet), operations : SUBSET LedgerSet]
           /\ Revision' = Revision /\ server.operations \subseteq server'.operations
           /\ server'.versions = server.versions
           /\ \A revision, doc : HasVersion(revision, doc) => HasVersion(revision, doc)'
           /\ \A q : Landed(q)' <=> Landed(q)
<1> PICK f, n : f = r.flight /\ n = Revision
  OBVIOUS
<1> PICK o : o = [id |-> f.operationId, revision |-> n]
  OBVIOUS
<1>0. Typed /\ n \in Nat /\ n >= 1 /\ DOMAIN server.versions = 1..n
  BY StateFacts, ServerTyped
<1>1. /\ server'.versions = server.versions
      /\ server' = [versions |-> server'.versions, operations |-> server'.operations]
      /\ \/ Unchanged(r) /\ server'.operations = server.operations \cup {o}
         \/ server'.operations = server.operations
  BY DEF Save, Revision
<1>2. /\ Revision' = Revision /\ RemoteSaves' = RemoteSaves /\ AllEdits' = AllEdits
      /\ \A revision, doc : HasVersion(revision, doc)' <=> HasVersion(revision, doc)
      /\ \A q : Landed(q)' <=> Landed(q)
  BY <1>1 DEF HasVersion, Landed, Revision, RemoteSaves, AllEdits
<1>3. LandedInPlace'
  <2>1. LandedInPlace
    BY StateFacts DEF ServerOk
  <2> QED BY <1>1, <2>1 DEF LandedInPlace
<1>4. LedgerOk'
  <2>1. LedgerOk
    BY StateFacts DEF ServerOk
  <2>2. CASE Unchanged(r) /\ server'.operations = server.operations \cup {o}
    <3>1. \A p \in server.operations : p.id # f.operationId
      BY <2>2 DEF Unchanged, Replayed
    <3>2. \A p, q \in server'.operations : p.id = q.id => p = q
      BY <2>1, <2>2, <3>1 DEF LedgerOk
    <3>3. \A p \in server'.operations : \E q \in requests : q.flight.operationId = p.id
      BY <2>1, <2>2 DEF LedgerOk
    <3>4. HasVersion(n, f.snapshot)
      BY <1>0, <2>2 DEF HasVersion, Unchanged, Document
    <3>5. \A q \in requests : q.flight.operationId = f.operationId => q.flight = f
      BY DEF IInv, Safe, SameFlight
    <3>6. ASSUME NEW p \in server'.operations, NEW q \in requests, q.flight.operationId = p.id
          PROVE  HasVersion(p.revision, q.flight.snapshot)
      <4>1. CASE p \in server.operations
        BY <2>1, <3>6, <4>1 DEF LedgerOk
      <4>2. CASE p = o
        BY <3>4, <3>5, <3>6, <4>2
      <4> QED BY <2>2, <4>1, <4>2
    <3> QED BY <1>2, <3>2, <3>3, <3>6 DEF LedgerOk
  <2>3. CASE server'.operations = server.operations
    BY <1>2, <2>1, <2>3 DEF LedgerOk
  <2> QED BY <1>1, <2>2, <2>3
<1>5. RowsLanded' /\ RecordsInserted' /\ GoneForGood'
  <2>1. RowsLanded /\ RecordsInserted /\ GoneForGood
    BY StateFacts DEF ServerOk
  <2> QED BY <1>1, <1>2, <2>1 DEF RowsLanded, RecordsInserted, GoneForGood
<1>6. Counted'
  <2>1. Counted
    BY StateFacts DEF ServerOk
  <2> QED BY <1>2, <2>1 DEF Counted
<1>7. o \in LedgerSet
  <2>1. f \in FlightSet /\ requests \subseteq RequestSet
    BY LandedFacts DEF IInv, Typed
  <2>2. n \in Revisions
    BY <1>0, <2>1, StateFacts, CountedRevision DEF ServerOk
  <2> QED BY <2>1, <2>2 DEF LedgerSet, FlightSet
<1>8. server' \in [versions : Seq(VersionSet), operations : SUBSET LedgerSet]
  BY <1>0, <1>1, <1>7, ServerTyped
<1> QED BY <1>1, <1>2, <1>3, <1>4, <1>5, <1>6, <1>8 DEF ServerOk

\* What any step of the server keeps, with the answer it may give to the round.
LEMMA ServerStep ==
    ASSUME IInv, UNCHANGED <<requests, disk, log, view, edited>>,
           server' \in [versions : Seq(VersionSet), operations : SUBSET LedgerSet], ServerOk',
           server.operations \subseteq server'.operations, Revision <= Revision', Revision' \in Nat,
           \A revision, doc : HasVersion(revision, doc) => HasVersion(revision, doc)',
           \A q \in requests : Landed(q)' =>
               Landed(q) \/ (disk.flight = {q.flight} /\ q.flight.baseRevision = Revision),
           \/ sync' = sync
           \/ /\ sync.stage = "rpc" /\ sync' \in SyncSet /\ RoundOk'
              /\ sync'.stage \in {"rejected", "ack", "failed"}
    PROVE  IInv'
<1>0. /\ Typed /\ Revision \in Nat /\ Revision # 0
      /\ (\A r \in requests : RequestOk(r)) /\ BaseOk /\ FlightOk /\ Earned /\ ConflictOk /\ ViewOk
      /\ RoundOk /\ MergeOk /\ CandOk /\ SameFlight /\ EditsOk
      /\ sync.stage = "materialize" => NextOk(sync)
  BY StateFacts DEF IInv, Safe, Typed
<1>1. /\ AllEdits' = AllEdits /\ Base' = Base /\ (InConflict' <=> InConflict) /\ Recovered' = Recovered
      /\ EditsOk' /\ SameFlight' /\ FlightOk'
  BY <1>0, JournalFrame, RecoveredFrame, DiskFrame DEF SameFlight, FlightOk
<1>2. \A q : Replayed(q) => Replayed(q)'
  BY DEF Replayed
<1>3. (\A r \in requests : RequestOk(r))'
  <2> SUFFICES ASSUME NEW r \in requests PROVE RequestOk(r)'
    OBVIOUS
  <2>1. RequestOk(r)
    BY <1>0
  <2> QED BY <1>1, <1>2, <2>1 DEF RequestOk
<1>4. BaseOk'
  BY <1>0, <1>1 DEF BaseOk
<1>5. Earned'
  BY <1>0, <1>1, <1>2 DEF Earned
<1>6. Typed'
  BY <1>0 DEF Typed
<1>7. CASE sync' = sync
  <2>1. ConflictOk' /\ ViewOk'
    BY <1>0, <1>1, <1>7 DEF ConflictOk, ViewOk, Shown
  <2>2. RoundOk'
    <3>1. sync.stage \in Uploading => disk.flight = {sync.flight}
      BY <1>0 DEF RoundOk
    <3>2. sync.stage \in Refused =>
              /\ sync.flight.baseRevision < Revision'
              /\ \A r \in requests : r.flight = sync.flight => ~Landed(r)'
      <4> SUFFICES ASSUME sync.stage \in Refused
                   PROVE  /\ sync.flight.baseRevision < Revision'
                          /\ \A r \in requests : r.flight = sync.flight => ~Landed(r)'
        OBVIOUS
      <4> PICK f : f = sync.flight
        OBVIOUS
      <4>1. f.baseRevision < Revision /\ \A r \in requests : r.flight = f => ~Landed(r)
        BY <1>0 DEF RoundOk
      <4>2. f.baseRevision \in Nat
        BY <3>1, FlightFacts, StateFacts DEF Refused, Uploading
      <4> QED BY <1>0, <4>1, <4>2
    <3>3. sync.stage \in {"ack", "commitAck", "rebase", "commitRebase", "polled"} =>
              HasVersion(sync.row.revision, sync.row.doc)'
      BY <1>0 DEF RoundOk
    <3>4. sync.stage \in {"ack", "commitAck"} =>
              \E r \in requests : r.flight = sync.flight /\ \E o \in server'.operations :
                  /\ o.id = r.flight.operationId /\ o.revision <= sync.row.revision
                  /\ o.revision \in r.flight.baseRevision..(r.flight.baseRevision + 1)
      BY <1>0 DEF RoundOk
    <3>5. /\ sync.stage \in {"rpc"} => \E r \in requests : r.flight = sync.flight
          /\ sync.stage \in {"rebase", "commitRebase"} => sync.flight.baseRevision < sync.row.revision
          /\ sync.stage = "polled" => disk.flight = {}
      BY <1>0 DEF RoundOk
    <3> QED BY <1>7, <3>1, <3>2, <3>3, <3>4, <3>5 DEF RoundOk
  <2>3. MergeOk' /\ CandOk' /\ (sync'.stage = "materialize" => NextOk(sync)')
    <3>1. \A next : NextOk(next) => NextOk(next)'
      BY <1>1 DEF NextOk
    <3>2. CandOk'
      BY <1>0, <1>1, <1>7, <3>1 DEF CandOk
    <3>3. MergeOk'
      BY <1>0, <1>1, <1>7 DEF MergeOk
    <3> QED BY <1>0, <1>7, <3>1, <3>2, <3>3
  <2>4. Safe'
    BY <1>1, <1>3, <1>4, <1>5, <2>1, <2>2, <2>3 DEF Safe
  <2>5. sync' \in SyncSet
    BY <1>0, <1>7 DEF Typed
  <2> QED BY <1>6, <2>4, <2>5 DEF IInv, Typed
<1>8. CASE /\ sync.stage = "rpc" /\ sync' \in SyncSet /\ RoundOk'
           /\ sync'.stage \in {"rejected", "ack", "failed"}
  <2>1. ~InConflict
    BY <1>8, RoundFree
  <2>2. ConflictOk' /\ ViewOk'
    BY <1>0, <1>1, <1>8, <2>1 DEF ConflictOk, ViewOk, Shown, Unpublished
  <2>3. MergeOk' /\ CandOk' /\ sync'.stage # "materialize"
    BY <1>8 DEF MergeOk, CandOk, Unpublished
  <2>4. Safe'
    BY <1>1, <1>3, <1>4, <1>5, <1>8, <2>2, <2>3 DEF Safe
  <2> QED BY <1>6, <1>8, <2>4 DEF IInv, Typed
<1> QED BY <1>7, <1>8

LEMMA ServeStep ==
    ASSUME IInv, NEW r \in requests, Serve(r)
    PROVE  IInv'
<1>0. /\ server' = Save(r) /\ UNCHANGED <<requests, disk, log, view, edited>> /\ sync' = sync
      /\ Revision \in Nat
  BY StateFacts DEF Serve
<1>1. CASE Saved(r)
  <2>1. /\ ServerOk' /\ server' \in [versions : Seq(VersionSet), operations : SUBSET LedgerSet]
        /\ Revision' = Revision + 1 /\ server.operations \subseteq server'.operations
        /\ \A revision, doc : HasVersion(revision, doc) => HasVersion(revision, doc)'
        /\ \A q : Landed(q)' <=> Landed(q) \/ q = r
    BY <1>0, <1>1, SavedServer
  <2>2. disk.flight = {r.flight} /\ r.flight.baseRevision = Revision
    BY <1>1, SavedFlight
  <2>3. Revision <= Revision' /\ Revision' \in Nat
    BY <1>0, <2>1
  <2> QED BY <1>0, <2>1, <2>2, <2>3, ServerStep
<1>2. CASE ~Saved(r)
  <2>1. /\ ServerOk' /\ server' \in [versions : Seq(VersionSet), operations : SUBSET LedgerSet]
        /\ Revision' = Revision /\ server.operations \subseteq server'.operations
        /\ \A revision, doc : HasVersion(revision, doc) => HasVersion(revision, doc)'
        /\ \A q : Landed(q)' <=> Landed(q)
    BY <1>0, <1>2, KnownServer
  <2>2. Revision <= Revision' /\ Revision' \in Nat
    BY <1>0, <2>1
  <2> QED BY <1>0, <2>1, <2>2, ServerStep
<1> QED BY <1>1, <1>2

LEMMA RowNext ==
    ASSUME server' \in [versions : Seq(VersionSet), operations : SUBSET LedgerSet], ServerOk',
           Revision' \in Nat, Revision' # 0, requests' \subseteq RequestSet
    PROVE  Row' \in RowSet /\ HasVersion(Revision, Document)' /\ Row' = [revision |-> Revision', doc |-> Document']
<1>1. Revision' \in Revisions
  BY CountedRevisionNext DEF ServerOk
<1>2. Revision' \in 1..Revision' /\ Revision' \in DOMAIN server'.versions
  BY DEF Revision
<1>3. server'.versions[Revision'] \in VersionSet
  BY <1>2
<1>4. Document' \in Documents
  BY <1>3 DEF Document, VersionSet
<1> QED BY <1>1, <1>2, <1>4 DEF Row, RowSet, HasVersion, Document

LEMMA ServeAndReplyStep ==
    ASSUME IInv, NEW r \in requests, ServeAndReply(r)
    PROVE  IInv'
<1> PICK f : f = r.flight
  OBVIOUS
<1>0. /\ server' = Save(r) /\ UNCHANGED <<requests, disk, log, view, edited>>
      /\ sync.stage = "rpc" /\ sync.flight = f /\ Revision \in Nat /\ Revision # 0
      /\ sync' = IF RevisionConflict(r)
                 THEN [sync EXCEPT !.stage = "rejected"]
                 ELSE IF Believed(r, server'.operations)
                 THEN [stage |-> "ack", flight |-> f, row |-> Row']
                 ELSE Failed
      /\ requests \subseteq RequestSet
  BY StateFacts DEF ServeAndReply, Typed
<1>1. /\ ServerOk' /\ server' \in [versions : Seq(VersionSet), operations : SUBSET LedgerSet]
      /\ server.operations \subseteq server'.operations
      /\ \A revision, doc : HasVersion(revision, doc) => HasVersion(revision, doc)'
      /\ Revision' = Revision \/ Revision' = Revision + 1
  BY <1>0, SavedServer, KnownServer
<1>2. \A q \in requests : Landed(q)' =>
          Landed(q) \/ (disk.flight = {q.flight} /\ q.flight.baseRevision = Revision)
  <2>1. CASE Saved(r)
    BY <1>0, <2>1, SavedServer, SavedFlight
  <2>2. CASE ~Saved(r)
    BY <1>0, <2>2, KnownServer
  <2> QED BY <2>1, <2>2
<1>3. Revision <= Revision' /\ Revision' \in Nat /\ Revision' # 0
  BY <1>0, <1>1
<1>4. sync \in Calling /\ disk.flight = {f} /\ f \in FlightSet
  BY <1>0, RoundTyped, LandedFacts DEF IInv, Safe, RoundOk, Uploading
<1>5. f.baseRevision \in Nat /\ f.baseRevision <= Revision
  BY <1>4, FlightFacts, StateFacts
<1>6. sync' \in SyncSet /\ sync'.stage \in {"rejected", "ack", "failed"} /\ RoundOk'
  <2>1. CASE RevisionConflict(r)
    <3>1. sync' = [sync EXCEPT !.stage = "rejected"]
      BY <1>0, <2>1
    <3>2. sync' \in Calling /\ sync'.stage = "rejected" /\ sync'.flight = f
      BY <1>0, <1>4, <3>1 DEF Calling
    <3>3. f.baseRevision < Revision'
      BY <1>0, <1>3, <1>5, <2>1 DEF RevisionConflict
    <3>4. ASSUME NEW q \in requests, q.flight = f PROVE ~Landed(q)'
      <4>1. ~Saved(r) /\ ~Replayed(r)
        BY <2>1 DEF RevisionConflict, Saved
      <4>2. Landed(q)' => Landed(q)
        BY <1>0, <4>1, KnownServer
      <4>3. Landed(q) => [id |-> f.operationId, revision |-> f.baseRevision + 1] \in server.operations
        BY <3>4, LandedFacts
      <4> QED BY <4>1, <4>2, <4>3 DEF Replayed
    <3>5. RoundOk'
      BY <1>0, <1>4, <3>2, <3>3, <3>4 DEF RoundOk, Uploading, Refused
    <3> QED BY <3>2, <3>5 DEF SyncSet
  <2>2. CASE ~RevisionConflict(r) /\ Believed(r, server'.operations)
    <3>1. sync' = [stage |-> "ack", flight |-> f, row |-> Row']
      BY <1>0, <2>2
    <3>2. Row' \in RowSet /\ HasVersion(Revision, Document)' /\ Row' = [revision |-> Revision', doc |-> Document']
      BY <1>0, <1>1, <1>3, RowNext
    <3>3. /\ sync' \in Answered /\ sync'.stage = "ack" /\ sync'.flight = f
          /\ sync'.row.revision = Revision' /\ sync'.row.doc = Document'
      BY <1>4, <3>1, <3>2 DEF Answered
    <3>4. PICK o \in server'.operations :
              o.id = f.operationId /\ o.revision \in f.baseRevision..(f.baseRevision + 1)
      BY <2>2 DEF Believed
    <3>5. HasVersion(o.revision, f.snapshot)'
      BY <1>0, <1>1, <3>4 DEF ServerOk, LedgerOk
    <3>6. o.revision <= Revision'
      BY <1>3, <3>5 DEF HasVersion
    <3>7. HasVersion(sync.row.revision, sync.row.doc)'
      BY <3>2, <3>3 DEF HasVersion
    <3>8. RoundOk'
      BY <1>0, <1>4, <3>3, <3>4, <3>6, <3>7 DEF RoundOk, Uploading, Refused
    <3> QED BY <3>3, <3>8 DEF SyncSet
  <2>3. CASE ~RevisionConflict(r) /\ ~Believed(r, server'.operations)
    <3>1. sync' = Failed
      BY <1>0, <2>3
    <3> QED BY <3>1, QuietTyped, QuietNext
  <2> QED BY <2>1, <2>2, <2>3
<1> QED BY <1>0, <1>1, <1>2, <1>3, <1>6, ServerStep

LEMMA WithinTrans ==
    ASSUME NEW a, NEW b, NEW d, Within(a, b), Within(b, d)
    PROVE  Within(a, d)
BY DEF Within

\* Another computer's save.
LEMMA RemoteServer ==
    ASSUME IInv, NEW c \in Records, RemoteSave(c)
    PROVE  /\ ServerOk' /\ server' \in [versions : Seq(VersionSet), operations : SUBSET LedgerSet]
           /\ Revision' = Revision + 1 /\ server'.operations = server.operations
           /\ \A revision, doc : HasVersion(revision, doc) => HasVersion(revision, doc)'
           /\ \A q : Landed(q)' <=> Landed(q)
<1>0. /\ RemoteSaves < MaxRemote /\ Document[c] # Absent
      /\ UNCHANGED <<requests, disk, log, view, edited>>
  BY DEF RemoteSave
<1> PICK n, old : n = Revision /\ old = Document
  OBVIOUS
<1>1. Typed /\ n \in Nat /\ n >= 1 /\ DOMAIN server.versions = 1..n /\ old \in Documents
      /\ n \in 1..n /\ old = server.versions[n].doc
  BY StateFacts, ServerTyped, VersionTyped DEF Document
<1>2. RemoteSaves \in 0..MaxRemote
  BY StateFacts DEF ServerOk, Counted
<1>3. PICK row \in {Absent, MaxEdits + RemoteSaves + 1} :
          server' = [server EXCEPT !.versions =
                        Append(@, [doc |-> [old EXCEPT ![c] = row], by |-> {}])]
  BY DEF RemoteSave
<1> PICK d : d = [old EXCEPT ![c] = row]
  OBVIOUS
<1> PICK v : v = [doc |-> d, by |-> {}]
  OBVIOUS
<1>4. row \in -1..(MaxEdits + MaxRemote) /\ row \notin 1..MaxEdits
  BY <1>0, <1>2, <1>3, Bounds DEF Absent
<1>5. d \in Documents /\ d[c] = row /\ \A x \in Records : x # c => d[x] = old[x]
  BY <1>1, <1>4 DEF Documents
<1>6. v \in VersionSet
  BY <1>5 DEF VersionSet
<1>7. server'.versions = Append(server.versions, v) /\ server'.operations = server.operations
      /\ server' = [versions |-> server'.versions, operations |-> server'.operations]
  BY <1>1, <1>3, ServerTyped
<1>8. /\ Revision' = n + 1 /\ DOMAIN server'.versions = 1..(n + 1)
      /\ server'.versions \in Seq(VersionSet)
      /\ \A i \in 1..n : server'.versions[i] = server.versions[i]
      /\ server'.versions[n + 1] = v
      /\ \A revision, doc : HasVersion(revision, doc) => HasVersion(revision, doc)'
      /\ \A q : Landed(q)' <=> Landed(q) \/ q \in v.by
  BY <1>1, <1>6, <1>7, Appended
<1>9. \A q : Landed(q)' <=> Landed(q)
  BY <1>8
<1>10. AllEdits' = AllEdits
  BY <1>0 DEF AllEdits
<1>11. \A i \in 1..(n + 1) : i \in 1..n \/ i = n + 1
  BY <1>1
<1>12. server'.versions[n + 1].doc = d /\ server'.versions[n + 1].by = {}
  BY <1>8
<1>13. LandedInPlace'
  <2>1. LandedInPlace
    BY StateFacts DEF ServerOk
  <2>2. \A i \in 1..(n + 1) : \A q \in server'.versions[i].by : i \in 1..n /\ q \in server.versions[i].by
    BY <1>8, <1>11, <1>12
  <2> QED BY <1>0, <1>1, <1>7, <1>8, <2>1, <2>2 DEF LandedInPlace
<1>14. LedgerOk'
  <2>1. LedgerOk
    BY StateFacts DEF ServerOk
  <2> QED BY <1>0, <1>7, <1>8, <2>1 DEF LedgerOk
<1>15. RowsLanded'
  <2> SUFFICES ASSUME NEW i \in 1..(n + 1), NEW x \in Records, server'.versions[i].doc[x] \in 1..MaxEdits
               PROVE  \E q \in requests : Landed(q) /\ server'.versions[i].doc[x] <= q.flight.endSeq
    BY <1>0, <1>8, <1>9 DEF RowsLanded
  <2>1. PICK k \in 1..n : server.versions[k].doc[x] = server'.versions[i].doc[x]
    <3>1. CASE i \in 1..n
      BY <1>8, <3>1
    <3>2. CASE i = n + 1
      <4>1. server'.versions[i].doc[x] = d[x]
        BY <1>12, <3>2
      <4>2. d[x] \in 1..MaxEdits
        BY <4>1
      <4>3. x # c
        BY ONLY <4>2, <1>4, <1>5, Bounds
      <4>4. d[x] = old[x]
        BY <1>5, <4>3
      <4> QED BY <1>1, <1>4, <4>1, <4>4
    <3> QED BY <1>11, <3>1, <3>2
  <2>2. RowsLanded
    BY StateFacts DEF ServerOk
  <2> QED BY <1>1, <2>1, <2>2 DEF RowsLanded
<1>16. RecordsInserted'
  <2> SUFFICES ASSUME NEW i \in 1..(n + 1), NEW x \in Records, server'.versions[i].doc[x] # Absent
               PROVE  x \in Original \/ \E e \in AllEdits : e.record = x
    BY <1>8, <1>10 DEF RecordsInserted
  <2>1. \E k \in 1..n : server.versions[k].doc[x] # Absent
    <3>1. CASE i \in 1..n
      BY <1>8, <3>1
    <3>2. CASE i = n + 1
      <4>1. d[x] # Absent
        BY <1>12, <3>2
      <4>2. old[x] # Absent
        BY <1>0, <1>5, <4>1
      <4> QED BY <1>1, <4>2
    <3> QED BY <1>11, <3>1, <3>2
  <2>2. RecordsInserted
    BY StateFacts DEF ServerOk
  <2> QED BY <1>1, <2>1, <2>2 DEF RecordsInserted
<1>17. GoneForGood'
  <2> SUFFICES ASSUME NEW i \in 1..(n + 1), NEW j \in 1..(n + 1), i <= j,
                      \A q \in requests : Landed(q) => q.flight.baseRevision \notin i..(j - 1)
               PROVE  Within(server'.versions[j].doc, server'.versions[i].doc)
    BY <1>0, <1>8, <1>9 DEF GoneForGood
  <2>0. GoneForGood
    BY StateFacts DEF ServerOk
  <2>1. CASE j \in 1..n
    <3>1. i \in 1..n
      BY <1>1, <2>1
    <3> QED BY <1>1, <1>8, <2>0, <2>1, <3>1 DEF GoneForGood
  <2>2. CASE j = n + 1 /\ i = n + 1
    BY <2>2 DEF Within
  <2>3. CASE j = n + 1 /\ i \in 1..n
    <3>1. \A k : k \in i..(n - 1) => k \in i..(j - 1)
      BY <1>1, <2>3
    <3>2. i <= n
      BY <2>3
    <3>3. Within(old, server.versions[i].doc)
      BY <1>1, <2>0, <2>3, <3>1, <3>2 DEF GoneForGood
    <3>4. Within(d, old)
      BY <1>0, <1>5 DEF Within
    <3> QED BY <1>8, <1>12, <2>3, <3>3, <3>4, WithinTrans
  <2> QED BY <1>11, <2>1, <2>2, <2>3
<1>18. RemoteSaves' = RemoteSaves + 1
  <2> PICK S : S = {i \in 1..n : server.versions[i].by = {}}
    OBVIOUS
  <2>0. n \in Int /\ 1 \in Int
    BY <1>1
  <2>1. IsFiniteSet(1..n) /\ S \subseteq 1..n
    BY <2>0, FS_Interval
  <2>2. IsFiniteSet(S) /\ Cardinality(S) \in Nat
    BY <2>1, FS_Subset, FS_CardinalityType
  <2>3. n + 1 \notin S
    BY <1>1, <2>1
  <2>4. Cardinality(S \cup {n + 1}) = Cardinality(S) + 1
    BY <2>2, <2>3, FS_AddElement
  <2>5. \A i \in 1..n : i \in 1..(n + 1) /\ server'.versions[i] = server.versions[i]
    BY <1>1, <1>8
  <2>6. n + 1 \in 1..(n + 1)
    BY <1>1
  <2>7. {i \in 1..(n + 1) : server'.versions[i].by = {}} = S \cup {n + 1}
    BY <1>11, <1>12, <2>5, <2>6
  <2>8. RemoteSaves = Cardinality(S) - 1
    BY <1>1 DEF RemoteSaves
  <2>9. RemoteSaves' = Cardinality(S \cup {n + 1}) - 1
    BY <1>8, <2>7 DEF RemoteSaves
  <2> QED BY <2>2, <2>4, <2>8, <2>9
<1>19. Counted'
  <2>1. Counted
    BY StateFacts DEF ServerOk
  <2>2. RemoteSaves + 1 \in 0..MaxRemote
    BY <1>0, <1>2, Bounds
  <2>3. ASSUME NEW m \in 0..MaxEdits, \A q \in requests : Landed(q) => q.flight.endSeq <= m
        PROVE  n + 1 <= (RemoteSaves + 1) + 1 + m
    <3>1. n <= RemoteSaves + 1 + m
      BY <2>1, <2>3 DEF Counted
    <3> QED BY <1>1, <1>2, <3>1, Bounds
  <2> QED BY <1>0, <1>8, <1>9, <1>18, <2>2, <2>3 DEF Counted
<1>20. server' \in [versions : Seq(VersionSet), operations : SUBSET LedgerSet]
  BY <1>1, <1>7, <1>8, ServerTyped
<1> QED BY <1>7, <1>8, <1>9, <1>13, <1>14, <1>15, <1>16, <1>17, <1>19, <1>20 DEF ServerOk

LEMMA RemoteSaveStep ==
    ASSUME IInv, NEW c \in Records, RemoteSave(c)
    PROVE  IInv'
<1>1. UNCHANGED <<requests, disk, log, view, edited>> /\ sync' = sync /\ Revision \in Nat
  BY StateFacts DEF RemoteSave
<1>2. /\ ServerOk' /\ server' \in [versions : Seq(VersionSet), operations : SUBSET LedgerSet]
      /\ Revision' = Revision + 1 /\ server'.operations = server.operations
      /\ \A revision, doc : HasVersion(revision, doc) => HasVersion(revision, doc)'
      /\ \A q : Landed(q)' <=> Landed(q)
  BY RemoteServer
<1>3. Revision <= Revision' /\ Revision' \in Nat
  BY <1>1, <1>2
<1> QED BY <1>1, <1>2, <1>3, ServerStep

-----------------------------------------------------------------------------
(* The journal *)

LEMMA RecoveredReplay ==
    Typed /\ EditsOk /\ disk.cp.seq <= disk.seq =>
        \E es : /\ IsTail(AllEdits, es, disk.cp.seq) /\ Len(es) = edited - disk.cp.seq
                /\ Recovered = Replay(disk.cp.state, es)
<1> SUFFICES ASSUME Typed, EditsOk, disk.cp.seq <= disk.seq
             PROVE  \E es : /\ IsTail(AllEdits, es, disk.cp.seq) /\ Len(es) = edited - disk.cp.seq
                            /\ Recovered = Replay(disk.cp.state, es)
  OBVIOUS
<1> PICK k : k = disk.cp.seq
  OBVIOUS
<1>1. k \in Nat
  BY HeadTyped, Bounds DEF Typed, Points
<1> QED BY <1>1, TailFacts DEF Recovered

LEMMA RecoveredReplayNext ==
    (Typed /\ EditsOk /\ disk.cp.seq <= disk.seq =>
        \E es : /\ IsTail(AllEdits, es, disk.cp.seq) /\ Len(es) = edited - disk.cp.seq
                /\ Recovered = Replay(disk.cp.state, es))'
<1>1. Typed /\ EditsOk /\ disk.cp.seq <= disk.seq =>
        \E es : /\ IsTail(AllEdits, es, disk.cp.seq) /\ Len(es) = edited - disk.cp.seq
                /\ Recovered = Replay(disk.cp.state, es)
  BY RecoveredReplay
<1> QED BY <1>1, PTL

\* What the queue writes is the next edit, and the journal stays a sequence.
LEMMA CommittedEdit ==
    ASSUME IInv, Commit
    PROVE  \E op \in OpSet :
              /\ op = [seq |-> disk.seq + 1, id |-> log[1]] /\ op.id.n = op.seq /\ Len(log) >= 1
              /\ disk' = [disk EXCEPT !.journal = @ \cup {op}, !.seq = op.seq]
              /\ disk' \in HeadSet /\ log' = Tail(log)
<1> PICK op : op = [seq |-> disk.seq + 1, id |-> Head(log)]
  OBVIOUS
<1>1. log # <<>> /\ disk' = AppendOp(disk, op) /\ log' = Tail(log)
  BY DEF Commit
<1>2. Typed /\ EditsOk /\ disk \in HeadSet /\ log \in Seq(EditSet) /\ disk.seq \in Nat
      /\ edited <= MaxEdits /\ edited \in Nat
  BY StateFacts DEF Typed
<1>3. Len(log) >= 1 /\ Len(log) \in Nat /\ Head(log) = log[1] /\ log[1] \in EditSet /\ log[1].n = disk.seq + 1
      /\ edited = disk.seq + Len(log)
  <2>1. Len(log) # 0 /\ Len(log) \in Nat
    BY <1>1, <1>2
  <2>2. 1 \in 1..Len(log)
    BY <2>1
  <2> QED BY <1>2, <2>1, <2>2, EditsFacts
<1>4. disk.seq + 1 \in Numbers /\ disk.seq + 1 \in Seqs
  BY <1>2, <1>3, Bounds DEF Numbers, Seqs
<1>5. op \in OpSet /\ op.id.n = op.seq /\ op.seq = disk.seq + 1
  BY <1>3, <1>4 DEF OpSet
<1>6. op \notin disk.journal
  BY <1>2, <1>5 DEF EditsOk, JournalFull, JournalKeysOk
<1>7. disk' = [disk EXCEPT !.journal = @ \cup {op}, !.seq = op.seq]
  BY <1>1, <1>6 DEF AppendOp
<1>8. disk' \in HeadSet
  BY <1>2, <1>4, <1>5, <1>7 DEF HeadSet
<1> QED BY <1>1, <1>3, <1>5, <1>7, <1>8

LEMMA CommitEdits ==
    ASSUME IInv, Commit
    PROVE  AllEdits' = AllEdits /\ EditsOk' /\ log' \in Seq(EditSet)
<1>1. PICK op \in OpSet :
          /\ op = [seq |-> disk.seq + 1, id |-> log[1]] /\ op.id.n = op.seq /\ Len(log) >= 1
          /\ disk' = [disk EXCEPT !.journal = @ \cup {op}, !.seq = op.seq]
          /\ disk' \in HeadSet /\ log' = Tail(log)
  BY CommittedEdit
<1> PICK n, m, es : n = disk.seq /\ m = Len(log) /\ es = log
  OBVIOUS
<1>2. Typed /\ EditsOk /\ edited' = edited /\ disk \in HeadSet
  BY StateFacts DEF Commit, Typed
<1>3. /\ es \in Seq(EditSet) /\ n \in Nat /\ m \in Nat /\ m >= 1 /\ m = Len(es) /\ edited = n + m
      /\ \A i \in 1..m : es[i].n = n + i
      /\ DOMAIN es = 1..m
  BY <1>1, <1>2, EditsFacts DEF Typed
<1>4. /\ disk'.journal = disk.journal \cup {op} /\ disk'.seq = n + 1
  BY <1>1, <1>2 DEF HeadSet
<1>5. /\ Tail(es) \in Seq(EditSet) /\ Len(Tail(es)) = m - 1 /\ DOMAIN Tail(es) = 1..(m - 1)
      /\ \A i \in 1..(m - 1) : Tail(es)[i] = es[i + 1]
  BY <1>3
<1>6. \A i \in 1..(m - 1) : i + 1 \in 1..m
  BY <1>3
<1>7. \A i \in 1..m : i = 1 \/ (i - 1 \in 1..(m - 1) /\ (i - 1) + 1 = i)
  BY <1>3
<1>8. AllEdits' = AllEdits
  <2>1. {es[i] : i \in 1..m} = {es[1]} \cup {Tail(es)[i] : i \in 1..(m - 1)}
    <3>1. 1 \in 1..m
      BY <1>3
    <3>2. \A i \in 1..(m - 1) : Tail(es)[i] = es[i + 1] /\ i + 1 \in 1..m
      BY <1>5, <1>6
    <3>3. ASSUME NEW i \in 1..m PROVE i = 1 \/ \E j \in 1..(m - 1) : Tail(es)[j] = es[i]
      <4>1. CASE i - 1 \in 1..(m - 1) /\ (i - 1) + 1 = i
        <5>1. Tail(es)[i - 1] = es[i]
          BY <3>2, <4>1
        <5> QED BY <4>1, <5>1
      <4> QED BY <1>7, <4>1
    <3> QED BY <3>1, <3>2, <3>3
  <2>2. {o.id : o \in disk.journal \cup {op}} = {o.id : o \in disk.journal} \cup {es[1]}
    BY <1>1
  <2>3. AllEdits = {o.id : o \in disk.journal} \cup {es[i] : i \in 1..m}
    BY <1>3 DEF AllEdits
  <2>4. log' = Tail(es) /\ DOMAIN log' = 1..(m - 1)
    BY <1>1, <1>5
  <2>5. AllEdits' = {o.id : o \in disk.journal \cup {op}} \cup {Tail(es)[i] : i \in 1..(m - 1)}
    BY <1>4, <2>4 DEF AllEdits
  <2> QED BY <2>1, <2>2, <2>3, <2>5
<1>9. EditsOk'
  <2>1. /\ \A o \in disk.journal : o.seq \in 1..n
        /\ \A o, p \in disk.journal : o.seq = p.seq => o = p
        /\ \A k \in 1..n : \E o \in disk.journal : o.seq = k
        /\ \A o \in disk.journal : o.id.n = o.seq
    BY <1>2 DEF EditsOk, JournalFull, JournalKeysOk
  <2>2. \A k \in 1..(n + 1) : k \in 1..n \/ k = n + 1
    BY <1>3
  <2>3. \A k \in 1..n : k \in 1..(n + 1) /\ k # n + 1
    BY <1>3
  <2>4. n + 1 \in 1..(n + 1) /\ op.seq = n + 1
    BY <1>1, <1>3
  <2>5. JournalFull'
    BY <1>4, <2>1, <2>2, <2>3, <2>4 DEF JournalFull, JournalKeysOk
  <2>6. \A i \in DOMAIN log' : log'[i].n = disk'.seq + i
    <3> SUFFICES ASSUME NEW i \in 1..(m - 1) PROVE Tail(es)[i].n = (n + 1) + i
      BY <1>1, <1>4, <1>5
    <3>1. es[i + 1].n = n + (i + 1)
      BY <1>3, <1>6
    <3>2. i \in Int /\ n \in Int
      BY <1>3
    <3>3. n + (i + 1) = (n + 1) + i
      BY ONLY <3>2
    <3> QED BY <1>5, <3>1, <3>3
  <2>7. disk'.seq + Len(log') = edited'
    <3>1. disk'.seq = n + 1 /\ Len(log') = m - 1 /\ edited' = n + m /\ n \in Nat /\ m \in Nat
      BY <1>1, <1>2, <1>3, <1>4, <1>5
    <3>2. (n + 1) + (m - 1) = n + m
      BY <3>1
    <3> QED BY <3>1, <3>2
  <2> QED BY <1>1, <1>4, <2>1, <2>5, <2>6, <2>7 DEF EditsOk
<1> QED BY <1>1, <1>3, <1>5, <1>8, <1>9

LEMMA CommitStep ==
    ASSUME IInv, Commit
    PROVE  IInv'
<1>0. UNCHANGED <<server, requests, view, sync, edited>>
  BY DEF Commit
<1>1. PICK op \in OpSet :
          /\ op = [seq |-> disk.seq + 1, id |-> log[1]]
          /\ disk' = [disk EXCEPT !.journal = @ \cup {op}, !.seq = op.seq]
          /\ disk' \in HeadSet
  BY CommittedEdit
<1>2. AllEdits' = AllEdits /\ EditsOk' /\ log' \in Seq(EditSet)
  BY CommitEdits
<1>3. disk \in HeadSet /\ Typed /\ disk.seq \in Nat
  BY StateFacts DEF Typed
<1>4. /\ disk'.seq = disk.seq + 1 /\ disk'.cp = disk.cp /\ disk'.base = disk.base
      /\ disk'.flight = disk.flight /\ disk'.control = disk.control
  BY <1>1, <1>3 DEF HeadSet
<1>5. Base' = Base /\ (InConflict' <=> InConflict)
  BY <1>4, DiskFrame
<1>6. /\ ServerOk' /\ SameFlight' /\ Revision' = Revision
      /\ \A r : (Replayed(r)' <=> Replayed(r)) /\ (Landed(r)' <=> Landed(r))
      /\ \A revision, doc : HasVersion(revision, doc)' <=> HasVersion(revision, doc)
  BY <1>0, <1>2, ServerFrame
<1>7. Typed'
  BY <1>0, <1>1, <1>2, <1>3 DEF Typed, Revision
<1>8. \A n \in Nat : n <= disk.seq => n <= disk'.seq
  BY <1>3, <1>4
<1>9. (\A r \in requests : RequestOk(r))'
  <2> SUFFICES ASSUME NEW r \in requests PROVE RequestOk(r)'
    BY <1>0
  <2>1. RequestOk(r) /\ r.flight.endSeq \in Nat
    BY LandedFacts
  <2>2. r.flight.endSeq <= disk'.seq
    BY <1>8, <2>1 DEF RequestOk
  <2> QED BY <1>4, <1>5, <1>6, <2>1, <2>2 DEF RequestOk
<1>10. disk.cp.seq <= disk'.seq
  BY <1>8, StateFacts
<1>11. BaseOk'
  BY <1>2, <1>4, <1>5, <1>6, <1>10, StateFacts DEF BaseOk
<1>12. FlightOk'
  <2>1. \A f \in disk.flight : f.endSeq <= disk'.seq
    BY <1>8, FlightFacts
  <2> QED BY <1>2, <1>4, <1>5, <2>1 DEF IInv, Safe, FlightOk
<1>13. Earned' /\ ConflictOk'
  BY <1>0, <1>2, <1>4, <1>5, <1>6 DEF IInv, Safe, Earned, ConflictOk
<1>14. Recovered' = Recovered
  <2> PICK E, k, doc, n : E = AllEdits /\ k = disk.cp.seq /\ doc = disk.cp.state /\ n = edited
    OBVIOUS
  <2>1. PICK a : IsTail(E, a, k) /\ Len(a) = n - k /\ Recovered = Replay(doc, a)
    BY StateFacts, RecoveredReplay
  <2>2. PICK b : IsTail(E, b, k) /\ Len(b) = n - k /\ Recovered' = Replay(doc, b)
    BY <1>0, <1>2, <1>4, <1>7, <1>10, RecoveredReplayNext
  <2>3. Edits(E) /\ k \in Int /\ Len(a) = Len(b)
    BY <2>1, <2>2, StateFacts
  <2>4. a = b
    BY ONLY <2>1, <2>2, <2>3, TailUnique
  <2> QED BY <2>1, <2>2, <2>4
<1>15. ViewOk'
  BY <1>0, <1>2, <1>5, <1>14 DEF IInv, Safe, ViewOk, Shown
<1>16. RoundOk'
  BY <1>0, <1>4, <1>6 DEF IInv, Safe, RoundOk
<1>17. \A next : next.through \in Nat /\ NextOk(next) => NextOk(next)'
  BY <1>2, <1>4, <1>5, <1>8 DEF NextOk
<1>18. sync'.stage = "materialize" => NextOk(sync)'
  <2>1. sync.stage = "materialize" => sync.through \in Nat
    BY RoundTyped, Bounds DEF Materializing
  <2> QED BY <1>0, <1>17, <2>1 DEF IInv, Safe
<1>19. MergeOk'
  <2> SUFFICES ASSUME sync.stage \in {"commitAck", "commitRebase"} PROVE MergeOk'
    BY <1>0 DEF MergeOk
  <2>1. sync.cp.seq \in Nat
    BY RoundTyped, Bounds DEF Acking, Rebasing, Points
  <2>2. MergeOk
    BY DEF IInv, Safe
  <2>3. sync.cp.seq <= disk.seq
    BY <2>2 DEF MergeOk
  <2>4. sync.cp.seq <= disk'.seq
    BY <1>8, <2>1, <2>3
  <2> QED BY <1>0, <1>2, <1>5, <2>2, <2>4 DEF MergeOk
<1>20. CandOk'
  <2> SUFFICES ASSUME sync.stage \in Unpublished PROVE CandOk'
    BY <1>0 DEF CandOk
  <2>1. CandOk /\ sync.cand \in Candidates
    BY CandFacts
  <2>2. NextOk(sync.cand.next)'
    <3>1. NextOk(sync.cand.next)
      BY <2>1 DEF CandOk
    <3>2. CASE sync.cand.next = Idle
      BY <1>0, <3>2 DEF NextOk
    <3>3. CASE sync.cand.next # Idle
      <4>1. sync.cand.next \in Materializing
        BY <2>1, <3>3 DEF Candidates
      <4>2. sync.cand.next.through \in Nat
        BY <4>1, Bounds DEF Materializing
      <4>3. NextOk(sync.cand.next)'
        BY <1>0, <1>2, <1>4, <1>5, <1>8, <3>1, <3>3, <4>2 DEF NextOk
      <4> QED BY <4>3
    <3> QED BY <3>2, <3>3
  <2>3. sync.stage \in {"recoverCommit", "recoverPublish"} => sync.cp.seq <= disk'.seq
    <3>1. sync.stage \in {"recoverCommit", "recoverPublish"} => sync.cp.seq \in Nat /\ sync.cp.seq <= disk.seq
      BY <2>1, RoundTyped, Bounds DEF CandOk, Recovering, Points
    <3> QED BY <1>8, <3>1
  <2> QED BY <1>0, <1>2, <1>4, <1>5, <2>1, <2>2, <2>3 DEF CandOk
<1>21. Safe'
  BY <1>2, <1>6, <1>9, <1>11, <1>12, <1>13, <1>15, <1>16, <1>18, <1>19, <1>20 DEF Safe
<1> QED BY <1>7, <1>21 DEF IInv

-----------------------------------------------------------------------------
(* The user's edits *)

\* One edit more at the end of a replay that succeeds.
LEMMA ReplayMore ==
    ASSUME NEW E, NEW e \in EditSet, Edits(E \cup {e}), NEW k \in Nat, NEW n \in Nat, k <= n, e.n = n + 1,
           \A x \in E : x.n <= n, NEW es, IsTail(E, es, k), Len(es) = n - k,
           NEW more, IsTail(E \cup {e}, more, k), Len(more) = (n + 1) - k,
           NEW doc \in Documents, NEW now, Replay(doc, es) = [ok |-> TRUE, doc |-> now],
           Fits(now, e)
    PROVE  Replay(doc, more) = [ok |-> TRUE, doc |-> Apply(now, e)]
<1> PICK F, m : F = E \cup {e} /\ m = n - k
  OBVIOUS
<1>1. m \in Nat /\ k + m = n /\ Len(es) = m /\ Len(more) = m + 1 /\ Edits(E) /\ Edits(F) /\ e \in F
  BY DEF Edits
<1>2. \A i \in 1..m : es[i] \in F /\ es[i].n = k + i
  BY <1>1 DEF IsTail
<1>3. \A i \in 1..(m + 1) : more[i] \in F /\ more[i].n = k + i
  BY <1>1 DEF IsTail
<1>4. \A i \in 1..m : more[i] = es[i]
  <2>1. \A i \in 1..m : i \in 1..(m + 1)
    BY <1>1
  <2> QED BY <1>1, <1>2, <1>3, <2>1 DEF Edits
<1>5. more[m + 1] = e
  <2>1. m + 1 \in 1..(m + 1) /\ k + (m + 1) = n + 1
    BY <1>1
  <2>2. more[m + 1] \in F /\ more[m + 1].n = n + 1
    BY <1>3, <2>1
  <2> QED BY <1>1, <2>2 DEF Edits
<1>6. ASSUME NEW j \in Nat, j <= m PROVE After(doc, more, j) = After(doc, es, j)
  <2>1. \A i \in 1..j : more[i] = es[i]
    BY <1>1, <1>4, <1>6
  <2>2. ASSUME NEW c \in Records PROVE After(doc, more, j)[c] = After(doc, es, j)[c]
    <3>0. j \in Nat /\ c \in Records
      BY <1>6, <2>2
    <3>1. \/ /\ \A i \in 1..j : es[i].record # c
             /\ After(doc, es, j)[c] = doc[c]
          \/ \E i \in 1..j :
                /\ es[i].record = c /\ \A h \in 1..j : es[h].record = c => h <= i
                /\ After(doc, es, j)[c] = Value(es[i])
      BY ONLY <3>0, AfterRow
    <3>2. \/ /\ \A i \in 1..j : more[i].record # c
             /\ After(doc, more, j)[c] = doc[c]
          \/ \E i \in 1..j :
                /\ more[i].record = c /\ \A h \in 1..j : more[h].record = c => h <= i
                /\ After(doc, more, j)[c] = Value(more[i])
      BY ONLY <3>0, AfterRow
    <3>3. \A i, h \in 1..j : i <= h /\ h <= i => i = h
      OBVIOUS
    <3> QED BY <2>1, <3>1, <3>2, <3>3
  <2>3. /\ After(doc, more, j) = [c \in Records |-> After(doc, more, j)[c]]
        /\ After(doc, es, j) = [c \in Records |-> After(doc, es, j)[c]]
    BY DEF After
  <2> QED BY <2>2, <2>3
<1>7. After(doc, es, m) = now /\ \A i \in DOMAIN es : Fits(After(doc, es, i - 1), es[i])
  BY <1>1 DEF Replay
<1>8. After(doc, more, m + 1) = Apply(now, e)
  <2>1. Overlays(E, k + 1, k + m, doc, now) /\ now \in Documents
    BY <1>1, <1>7, ReplayOverlays, ReplayTyped
  <2> PICK from : from = k + 1
    OBVIOUS
  <2>2. Overlays(E, from, n, doc, now) /\ Edits(E) /\ from \in Int /\ n \in Int /\ from <= n + 1
    BY <1>1, <2>1
  <2>3. Overlays(F, from, n + 1, doc, Apply(now, e))
    BY <2>1, <2>2, EditOverlays
  <2>4. k + Len(more) = n + 1
    BY <1>1
  <2>5. Overlays(F, k + 1, k + Len(more), doc, After(doc, more, Len(more)))
        /\ After(doc, more, Len(more)) \in Documents
    BY <1>1, ReplayOverlays, ReplayTyped
  <2>6. Apply(now, e) \in Documents
    BY <2>1, ApplyRow
  <2> PICK a, b : a = After(doc, more, m + 1) /\ b = Apply(now, e)
    OBVIOUS
  <2>7. Overlays(F, from, n + 1, doc, a) /\ Overlays(F, from, n + 1, doc, b)
        /\ a \in Documents /\ b \in Documents /\ Edits(F)
    BY <1>1, <2>3, <2>4, <2>5, <2>6
  <2>8. a = b
    BY ONLY <2>7, OverlaysUnique
  <2> QED BY <2>8
<1>9. DOMAIN more = 1..(m + 1) /\ DOMAIN es = 1..m
  BY <1>1 DEF IsTail
<1>10. ASSUME NEW i \in 1..(m + 1) PROVE Fits(After(doc, more, i - 1), more[i])
  <2>1. i - 1 \in Nat /\ i - 1 <= m
    BY <1>1
  <2>2. After(doc, more, i - 1) = After(doc, es, i - 1)
    BY <1>6, <2>1
  <2>3. CASE i \in 1..m
    BY <1>4, <1>7, <1>9, <2>2, <2>3
  <2>4. CASE i = m + 1
    <3>1. i - 1 = m
      BY <1>1, <2>4
    <3> QED BY <1>5, <1>7, <2>2, <2>4, <3>1
  <2>5. i \in 1..m \/ i = m + 1
    BY <1>1
  <2> QED BY <2>3, <2>4, <2>5
<1> QED BY <1>1, <1>8, <1>9, <1>10 DEF Replay

\* An edit of what the screen shows fits it.
LEMMA EditFits ==
    ASSUME IInv, Shown, NEW e \in EditSet,
           \/ /\ e.kind = "insert" /\ e.index = Cardinality(Present(view))
              /\ e.record \notin Original /\ \A x \in AllEdits : x.record # e.record
           \/ e.kind # "insert" /\ view[e.record] # Absent
    PROVE  Fits(view, e)
<1>1. e.record \in Records
  BY EditTyped
<1>2. CASE e.kind # "insert" /\ view[e.record] # Absent
  BY <1>2 DEF Fits
<1>3. CASE /\ e.kind = "insert" /\ e.index = Cardinality(Present(view))
           /\ e.record \notin Original /\ \A x \in AllEdits : x.record # e.record
  <2>1. view[e.record] = Base.state[e.record]
    BY <1>1, <1>3, ViewOverlays DEF Overlays
  <2>2. HasVersion(Base.revision, Base.state) /\ RecordsInserted
    BY StateFacts DEF BaseOk, ServerOk
  <2>3. DOMAIN server.versions = 1..Revision
    BY StateFacts, ServerTyped
  <2>4. Base.state[e.record] = Absent
    BY <1>1, <1>3, <2>2, <2>3 DEF HasVersion, RecordsInserted
  <2>5. e.index \in Nat
    BY DEF EditSet
  <2> QED BY <1>3, <2>1, <2>4, <2>5 DEF Fits
<1> QED BY <1>2, <1>3

\* What an edit appends.
LEMMA EditMade ==
    ASSUME IInv, NEW c \in Records, NEW kind \in Kinds, Edit(c, kind)
    PROVE  \E e \in EditSet :
              /\ e.n = edited + 1 /\ e.record = c /\ e.kind = kind /\ e.over = view[c]
              /\ kind = "insert" => e.index = Cardinality(Present(view))
              /\ log' = Append(log, e) /\ view' = Apply(view, e) /\ edited' = edited + 1
              /\ edited' \in Seqs
<1> PICK e : e = [n |-> edited + 1, record |-> c, kind |-> kind, over |-> view[c],
                  index |-> IF kind = "insert" THEN Cardinality(Present(view)) ELSE 0]
  OBVIOUS
<1>1. log' = Append(log, e) /\ view' = Apply(view, e) /\ edited' = edited + 1 /\ edited < MaxEdits
  BY DEF Edit
<1>2. edited + 1 \in Numbers /\ edited + 1 \in Seqs
  BY <1>1, StateFacts, Bounds DEF Numbers, Seqs
<1>3. Cardinality(Present(view)) \in Nat
  <2>1. IsFiniteSet(Records) /\ Present(view) \subseteq Records
    BY RecordsAssumption DEF Present
  <2> QED BY <2>1, FS_Subset, FS_CardinalityType
<1>4. view[c] \in Int
  BY StateFacts, Bounds
<1>5. e \in EditSet
  <2> PICK index : index = IF kind = "insert" THEN Cardinality(Present(view)) ELSE 0
    OBVIOUS
  <2>1. index \in Nat
    BY <1>3
  <2> QED BY <1>2, <1>4, <2>1 DEF EditSet
<1> QED BY <1>1, <1>2, <1>5

LEMMA EditedEdits ==
    ASSUME IInv, NEW e \in EditSet, e.n = edited + 1, log' = Append(log, e),
           edited' = edited + 1, disk' = disk
    PROVE  AllEdits' = AllEdits \cup {e} /\ EditsOk' /\ log' \in Seq(EditSet)
<1> PICK m, n, es : m = Len(log) /\ n = disk.seq /\ es = log
  OBVIOUS
<1>1. Typed /\ EditsOk
  BY StateFacts
<1>2. /\ es \in Seq(EditSet) /\ m \in Nat /\ n \in Nat /\ m = Len(es) /\ edited = n + m
      /\ DOMAIN es = 1..m /\ \A i \in 1..m : es[i].n = n + i
  BY <1>1, EditsFacts DEF Typed
<1>3. /\ Append(es, e) \in Seq(EditSet) /\ Len(Append(es, e)) = m + 1
      /\ DOMAIN Append(es, e) = 1..(m + 1)
      /\ (\A i \in 1..m : Append(es, e)[i] = es[i]) /\ Append(es, e)[m + 1] = e
  BY <1>2
<1>4. \A i \in 1..(m + 1) : i \in 1..m \/ i = m + 1
  BY <1>2
<1>5. (\A i \in 1..m : i \in 1..(m + 1)) /\ m + 1 \in 1..(m + 1)
  BY <1>2
<1>6. {Append(es, e)[i] : i \in 1..(m + 1)} = {es[i] : i \in 1..m} \cup {e}
  BY <1>3, <1>4, <1>5
<1>7. AllEdits' = AllEdits \cup {e}
  <2>1. AllEdits = {op.id : op \in disk.journal} \cup {es[i] : i \in 1..m}
    BY <1>2 DEF AllEdits
  <2>2. AllEdits' = {op.id : op \in disk.journal} \cup {Append(es, e)[i] : i \in 1..(m + 1)}
    BY <1>3 DEF AllEdits
  <2> QED BY <1>6, <2>1, <2>2
<1>8. ASSUME NEW i \in 1..(m + 1) PROVE Append(es, e)[i].n = n + i
  <2>1. CASE i \in 1..m
    BY <1>2, <1>3, <2>1
  <2>2. CASE i = m + 1
    BY <1>2, <1>3, <2>2
  <2> QED BY <1>4, <2>1, <2>2
<1>9. disk'.seq + Len(log') = edited'
  <2>1. disk'.seq = n /\ Len(log') = m + 1 /\ edited' = (n + m) + 1
    BY <1>2, <1>3
  <2>2. n \in Nat /\ m \in Nat
    BY <1>2
  <2> QED BY ONLY <2>1, <2>2
<1>10. JournalFull' /\ \A op \in disk'.journal : op.id.n = op.seq
  BY <1>1 DEF EditsOk, JournalFull
<1>11. EditsOk'
  BY <1>3, <1>8, <1>9, <1>10 DEF EditsOk
<1> QED BY <1>3, <1>7, <1>11

LEMMA EditStep ==
    ASSUME IInv, NEW c \in Records, NEW kind \in Kinds, Edit(c, kind),
           \/ kind = "insert" /\ c \notin Original /\ \A x \in AllEdits : x.record # c
           \/ kind # "insert" /\ view[c] # Absent
    PROVE  IInv'
<1>0. UNCHANGED <<server, requests, disk, sync>> /\ sync.stage # "dead"
  BY DEF Edit
<1>1. PICK e \in EditSet :
              /\ e.n = edited + 1 /\ e.record = c /\ e.kind = kind /\ e.over = view[c]
              /\ kind = "insert" => e.index = Cardinality(Present(view))
              /\ log' = Append(log, e) /\ view' = Apply(view, e) /\ edited' = edited + 1
              /\ edited' \in Seqs
  BY EditMade
<1> PICK E, F, n, v : E = AllEdits /\ F = E \cup {e} /\ n = edited /\ v = view
  OBVIOUS
<1>2. AllEdits' = F /\ EditsOk' /\ log' \in Seq(EditSet)
  BY <1>0, <1>1, EditedEdits
<1>3. /\ Typed /\ EditsOk /\ BaseOk /\ ServerOk /\ disk.base = {Base}
      /\ Base.ackSeq \in Nat /\ Base.ackSeq <= disk.cp.seq /\ disk.cp.seq <= disk.seq
      /\ disk.seq <= n /\ disk.cp.seq \in Nat /\ disk.seq \in Nat /\ n \in Nat
      /\ Base.state \in Documents /\ disk.cp.state \in Documents /\ v \in Documents /\ Edits(E)
  BY StateFacts
<1>4. Base' = Base /\ (InConflict' <=> InConflict)
  BY <1>0 DEF Base, InConflict
<1>5. /\ SameFlight' /\ Revision' = Revision /\ RemoteSaves' = RemoteSaves
      /\ \A r : (Replayed(r)' <=> Replayed(r)) /\ (Landed(r)' <=> Landed(r))
      /\ \A revision, doc : HasVersion(revision, doc)' <=> HasVersion(revision, doc)
  BY <1>0 DEF SameFlight, Revision, RemoteSaves, Replayed, Landed, HasVersion, IInv, Safe
<1>6. view' = Apply(v, e) /\ view' \in Documents
  BY <1>1, <1>3, ApplyRow
<1>7. Typed'
  BY <1>0, <1>1, <1>2, <1>3, <1>5, <1>6 DEF Typed
<1>8. (\A x \in E : x.n \in Nat /\ x.n <= n) /\ e.n = n + 1
  BY <1>1, EditsFacts, <1>3
\* Ranges that end before the edit are as they were.
<1>9. ASSUME NEW from, NEW to \in Int, to <= n
      PROVE  /\ \A base, doc : Overlays(E, from, to, base, doc) <=> Overlays(F, from, to, base, doc)
             /\ \A doc : Keeps(E, from, to, doc) <=> Keeps(F, from, to, doc)
  <2>1. E \subseteq F /\ \A x \in F : x \in E \/ x.n \notin from..to
    BY <1>3, <1>8, <1>9
  <2> QED BY <2>1, GrowOverlays
<1>10. Edits(F)
  BY <1>2, <1>7, EditsFacts, <1>8, <1>3 DEF Edits
<1>11. ServerOk'
  <2>1. LandedInPlace' /\ LedgerOk' /\ RowsLanded' /\ GoneForGood' /\ Counted'
    <3>1. LandedInPlace' /\ LedgerOk'
      BY <1>0, <1>3, <1>5 DEF ServerOk, LandedInPlace, LedgerOk
    <3>2. RowsLanded' /\ GoneForGood'
      BY <1>0, <1>3, <1>5 DEF ServerOk, RowsLanded, GoneForGood
    <3>3. Counted'
      BY <1>0, <1>3, <1>5 DEF ServerOk, Counted
    <3> QED BY <3>1, <3>2, <3>3
  <2>2. RecordsInserted'
    BY <1>0, <1>2, <1>3 DEF ServerOk, RecordsInserted
  <2> QED BY <2>1, <2>2 DEF ServerOk
<1>12. (\A r \in requests : RequestOk(r))'
  <2> SUFFICES ASSUME NEW r \in requests PROVE RequestOk(r)'
    BY <1>0
  <2>1. RequestOk(r)
    BY LandedFacts
  <2> QED BY <1>0, <1>4, <1>5, <2>1 DEF RequestOk
<1>13. BaseOk'
  <2>1. disk.cp.seq \in Int /\ disk.cp.seq <= n
    BY <1>3
  <2> QED BY <1>0, <1>2, <1>3, <1>4, <1>5, <1>9, <2>1 DEF BaseOk
<1>14. FlightOk'
  <2> SUFFICES ASSUME NEW f \in disk.flight
               PROVE  /\ disk.flight = {f}
                      /\ f.operationId = <<f.baseRevision, f.startSeq>>
                      /\ f.baseRevision = Base.revision /\ f.startSeq = Base.ackSeq + 1
                      /\ f.startSeq <= f.endSeq /\ f.endSeq <= disk.seq
                      /\ Overlays(F, f.startSeq, f.endSeq, Base.state, f.snapshot)
    BY <1>0, <1>2, <1>4 DEF FlightOk
  <2> PICK from, to : from = f.startSeq /\ to = f.endSeq
    OBVIOUS
  <2>1. /\ disk.flight = {f} /\ f.baseRevision = Base.revision /\ f.startSeq = Base.ackSeq + 1
        /\ f.startSeq <= f.endSeq /\ f.endSeq <= disk.seq
        /\ f.operationId = <<f.baseRevision, f.startSeq>>
        /\ to \in Nat /\ Overlays(E, from, to, Base.state, f.snapshot)
    BY FlightFacts
  <2>2. to \in Int /\ to <= n
    BY <1>3, <2>1
  <2> QED BY <1>9, <2>1, <2>2
<1>15. Earned'
  <2> SUFFICES ASSUME NEW k \in 1..Base.ackSeq
               PROVE  \E r \in requests :
                          /\ Replayed(r) /\ k \in r.flight.startSeq..r.flight.endSeq
                          /\ Keeps(F, r.flight.startSeq, r.flight.endSeq, r.flight.snapshot)
    BY <1>0, <1>2, <1>4, <1>5 DEF Earned
  <2>1. PICK r \in requests :
            /\ Replayed(r) /\ k \in r.flight.startSeq..r.flight.endSeq
            /\ Keeps(E, r.flight.startSeq, r.flight.endSeq, r.flight.snapshot)
    BY DEF IInv, Safe, Earned
  <2> PICK from, to, d : from = r.flight.startSeq /\ to = r.flight.endSeq /\ d = r.flight.snapshot
    OBVIOUS
  <2>2. to \in Int /\ to <= n
    <3>1. to \in Nat /\ to <= disk.seq
      BY LandedFacts DEF RequestOk
    <3> QED BY <1>3, <3>1
  <2>3. Keeps(F, from, to, d)
    BY <1>9, <2>1, <2>2
  <2> QED BY <2>1, <2>3
<1>16. ConflictOk'
  BY <1>0, <1>4 DEF IInv, Safe, ConflictOk
<1>17. ViewOk'
  <2>1. Keeps(F, Base.ackSeq + 1, n + 1, view')
    <3> PICK from : from = Base.ackSeq + 1
      OBVIOUS
    <3>1. Keeps(E, from, n, v)
      BY <1>0 DEF IInv, Safe, ViewOk
    <3>2. /\ Edits(E) /\ from \in Int /\ n \in Int /\ from <= n + 1 /\ (\A x \in E : x.n <= n)
          /\ e \in EditSet /\ e.n = n + 1 /\ v \in Documents
      BY <1>1, <1>3, <1>8
    <3>3. Keeps(E \cup {e}, from, n + 1, Apply(v, e))
      BY ONLY <3>1, <3>2, EditKeeps
    <3> QED BY <1>6, <3>3
  <2>2. Shown => Recovered' = [ok |-> TRUE, doc |-> view']
    <3> SUFFICES ASSUME Shown PROVE Recovered' = [ok |-> TRUE, doc |-> view']
      OBVIOUS
    <3> PICK k, doc : k = disk.cp.seq /\ doc = disk.cp.state
      OBVIOUS
    <3>1. Recovered = [ok |-> TRUE, doc |-> v]
      BY DEF IInv, Safe, ViewOk
    <3>2. PICK es : IsTail(E, es, k) /\ Len(es) = n - k /\ Recovered = Replay(doc, es)
      BY <1>3, RecoveredReplay
    <3>3. PICK more : IsTail(F, more, k) /\ Len(more) = (n + 1) - k /\ Recovered' = Replay(doc, more)
      BY <1>0, <1>1, <1>2, <1>3, <1>7, RecoveredReplayNext
    <3>4. Fits(v, e)
      BY <1>1, EditFits
    <3>5. Replay(doc, es) = [ok |-> TRUE, doc |-> v]
      BY <3>1, <3>2
    <3>6. /\ e \in EditSet /\ Edits(E \cup {e}) /\ k \in Nat /\ n \in Nat /\ k <= n /\ e.n = n + 1
          /\ (\A x \in E : x.n <= n) /\ doc \in Documents
      BY <1>1, <1>3, <1>8, <1>10
    <3>7. IsTail(E \cup {e}, more, k) /\ Len(more) = (n + 1) - k /\ IsTail(E, es, k) /\ Len(es) = n - k
      BY <3>2, <3>3
    <3>8. Replay(doc, more) = [ok |-> TRUE, doc |-> Apply(v, e)]
      BY ONLY <3>4, <3>5, <3>6, <3>7, ReplayMore
    <3> QED BY <1>6, <3>3, <3>8
  <2>3. Shown' => Shown
    BY <1>0, <1>4 DEF Shown
  <2> QED BY <1>1, <1>2, <1>4, <2>1, <2>2, <2>3 DEF ViewOk
<1>18. RoundOk'
  BY <1>0, <1>5 DEF IInv, Safe, RoundOk
<1>19. ASSUME NEW next, NextOk(next), next = Idle \/ next \in Materializing PROVE NextOk(next)'
  <2>1. CASE next = Idle
    BY <2>1 DEF NextOk
  <2>2. CASE next # Idle
    <3> PICK from, to : from = Base.ackSeq + 1 /\ to = next.through
      OBVIOUS
    <3>1. /\ next.stage = "materialize" /\ disk.flight = {}
          /\ Base.ackSeq < next.through /\ next.through <= disk.seq
          /\ Overlays(E, from, to, Base.state, next.snapshot)
      BY <1>19, <2>2 DEF NextOk
    <3>2. to \in Nat
      BY <1>19, <2>2, Bounds DEF Materializing
    <3>3. to \in Int /\ to <= n
      BY <1>3, <3>1, <3>2
    <3>4. Overlays(F, from, to, Base.state, next.snapshot)
      BY <1>9, <3>1, <3>3
    <3> QED BY <1>0, <1>2, <1>4, <3>1, <3>4 DEF NextOk
  <2> QED BY <2>1, <2>2
<1>20. sync'.stage = "materialize" => NextOk(sync)'
  <2>1. sync.stage = "materialize" => sync \in Materializing
    BY RoundTyped
  <2> QED BY <1>0, <1>19, <2>1 DEF IInv, Safe
<1>21. MergeOk'
  <2> SUFFICES ASSUME sync.stage \in {"commitAck", "commitRebase"} PROVE MergeOk'
    BY <1>0 DEF MergeOk
  <2> PICK s, from : /\ s = sync
                     /\ from = IF s.stage = "commitAck" THEN s.flight.endSeq + 1 ELSE Base.ackSeq + 1
    OBVIOUS
  <2>1. /\ s.flight.endSeq <= s.cp.seq /\ s.cp.seq <= disk.seq
        /\ Rows(s.prev, s.cp.seq)
        /\ Keeps(E, from, s.cp.seq, s.cp.state)
        /\ s.control # {} => \E d \in s.control : d.conflict # {}
        /\ s.control = {} =>
              /\ Overlays(E, from, s.cp.seq, s.row.doc, s.cp.state)
              /\ Within(s.cp.state, s.prev)
        /\ s.stage = "commitRebase" =>
              /\ s.next.stage = "materialize" /\ s.next.through = s.flight.endSeq
              /\ s.control = {} =>
                    Overlays(E, from, s.next.through, s.row.doc, s.next.snapshot)
    BY DEF IInv, Safe, MergeOk
  <2>2. s.cp.seq \in Nat
    BY RoundTyped, Bounds DEF Acking, Rebasing, Points
  <2>3. s.cp.seq \in Int /\ s.cp.seq <= n /\ n + 1 # s.cp.seq
    BY <1>3, <2>1, <2>2
  <2>4. s.stage = "commitRebase" => s.next.through \in Int /\ s.next.through <= n
    <3> SUFFICES ASSUME s.stage = "commitRebase" PROVE s.next.through \in Int /\ s.next.through <= n
      OBVIOUS
    <3> PICK to, at : to = s.next.through /\ at = s.cp.seq
      OBVIOUS
    <3>1. to \in Nat
      BY RoundTyped, Bounds DEF Rebasing, Materializing
    <3>2. to <= at
      BY <2>1
    <3> QED BY <1>3, <2>3, <3>1, <3>2
  <2>5. Keeps(F, from, s.cp.seq, s.cp.state)
    BY <1>9, <2>1, <2>3
  <2>6. s.control = {} => Overlays(F, from, s.cp.seq, s.row.doc, s.cp.state)
    BY <1>9, <2>1, <2>3
  <2>7. s.stage = "commitRebase" /\ s.control = {} =>
            Overlays(F, from, s.next.through, s.row.doc, s.next.snapshot)
    BY <1>9, <2>1, <2>4
  <2> QED BY <1>0, <1>1, <1>2, <1>4, <2>1, <2>3, <2>5, <2>6, <2>7 DEF MergeOk
<1>22. CandOk'
  <2> SUFFICES ASSUME sync.stage \in Unpublished PROVE CandOk'
    BY <1>0 DEF CandOk
  <2> PICK s, d : s = sync /\ d = sync.cand
    OBVIOUS
  <2>1. /\ disk.base = {d.base} /\ disk.flight = {} /\ ~InConflict
        /\ Base.ackSeq <= d.cp.seq /\ d.cp.seq <= disk.cp.seq
        /\ NextOk(d.next)
        /\ Rows(d.prev, d.cp.seq) /\ Within(d.cp.state, d.prev)
        /\ Overlays(E, d.cp.seq + 1, n, d.prev, v)
        /\ Overlays(E, Base.ackSeq + 1, d.cp.seq, Base.state, d.cp.state)
        /\ s.stage = "publish" => disk.cp = d.cp
        /\ s.stage \in {"recoverCommit", "recoverPublish"} =>
              /\ d.cp.seq <= s.cp.seq /\ s.cp.seq <= disk.seq
              /\ Overlays(E, Base.ackSeq + 1, s.cp.seq, Base.state, s.cp.state)
        /\ s.stage = "recoverPublish" => disk.cp = s.cp
    BY CandFacts DEF CandOk
  <2>2. d \in Candidates /\ d.cp.seq \in Nat
    BY CandFacts
  <2>3. d.cp.seq \in Int /\ d.cp.seq <= n
    BY <1>3, <2>1, <2>2
  <2>4. Overlays(F, d.cp.seq + 1, n + 1, d.prev, view')
    <3> PICK from, prev : from = d.cp.seq + 1 /\ prev = d.prev
      OBVIOUS
    <3>1. Overlays(E, from, n, prev, v)
      BY <2>1
    <3>2. /\ Edits(E) /\ from \in Int /\ n \in Int /\ from <= n + 1 /\ (\A x \in E : x.n <= n)
          /\ e \in EditSet /\ e.n = n + 1 /\ v \in Documents
      BY <1>1, <1>3, <1>8, <2>3
    <3>3. Overlays(E \cup {e}, from, n + 1, prev, Apply(v, e))
      BY ONLY <3>1, <3>2, EditOverlays
    <3> QED BY <1>6, <3>3
  <2>5. Overlays(F, Base.ackSeq + 1, d.cp.seq, Base.state, d.cp.state)
    BY <1>9, <2>1, <2>3
  <2>6. s.stage \in {"recoverCommit", "recoverPublish"} =>
            Overlays(F, Base.ackSeq + 1, s.cp.seq, Base.state, s.cp.state)
    <3> SUFFICES ASSUME s.stage \in {"recoverCommit", "recoverPublish"}
                 PROVE  Overlays(F, Base.ackSeq + 1, s.cp.seq, Base.state, s.cp.state)
      OBVIOUS
    <3>1. s.cp.seq \in Nat
      BY RoundTyped, Bounds DEF Recovering, Points
    <3>2. s.cp.seq \in Int /\ s.cp.seq <= n
      BY <1>3, <2>1, <3>1
    <3> QED BY <1>9, <2>1, <3>2
  <2>7. NextOk(d.next)'
    BY <1>19, <2>1, <2>2 DEF Candidates
  <2> QED BY <1>0, <1>1, <1>2, <1>4, <2>1, <2>4, <2>5, <2>6, <2>7 DEF CandOk
<1>23. Safe'
  BY <1>2, <1>5, <1>11, <1>12, <1>13, <1>14, <1>15, <1>16, <1>17, <1>18, <1>20, <1>21, <1>22 DEF Safe
<1> QED BY <1>7, <1>23 DEF IInv

-----------------------------------------------------------------------------
(* The inductive invariant *)

LEMMA StartsSafe ==
    ASSUME Init
    PROVE  IInv
<1> PICK d, v, base : /\ d = FirstDocument /\ v = [doc |-> d, by |-> {}]
                      /\ base = [revision |-> 1, ackSeq |-> 0, state |-> d]
  OBVIOUS
<1>1. /\ server = [versions |-> <<v>>, operations |-> {}] /\ requests = {} /\ log = <<>>
      /\ view = d /\ sync = Idle /\ edited = 0
      /\ disk = [epoch |-> Epoch, seq |-> 0, writer |-> Device, cp |-> [seq |-> 0, state |-> d],
                 journal |-> {}, base |-> {base}, flight |-> {}, control |-> {}]
  BY DEF Init, InitializeCloudHead, FreshHead
<1>2. d \in Documents
  <2>1. 0 \in -1..(MaxEdits + MaxRemote) /\ -1 \in -1..(MaxEdits + MaxRemote)
    BY Bounds
  <2> QED BY <2>1 DEF FirstDocument, Documents, Absent
<1>3. 0 \in Seqs /\ 1 \in Revisions
  BY Bounds DEF Seqs, Revisions
<1>4. base \in BaseSet /\ v \in VersionSet /\ [seq |-> 0, state |-> d] \in Points
  BY <1>2, <1>3 DEF BaseSet, VersionSet, Points
<1>5. disk \in HeadSet
  BY <1>1, <1>3, <1>4 DEF HeadSet, Maybe
<1>6. /\ server.versions = <<v>> /\ server.operations = {} /\ Revision = 1
      /\ DOMAIN server.versions = {1} /\ server.versions[1] = v
  <2>1. server.versions = <<v>> /\ server.operations = {}
    BY <1>1
  <2>2. Len(<<v>>) = 1 /\ <<v>>[1] = v
    OBVIOUS
  <2>3. DOMAIN <<v>> = {1}
    OBVIOUS
  <2> QED BY <2>1, <2>2, <2>3 DEF Revision
<1>7. server \in [versions : Seq(VersionSet), operations : SUBSET LedgerSet]
  BY <1>1, <1>4
<1>8. Typed
  BY <1>1, <1>2, <1>3, <1>5, <1>6, <1>7, QuietTyped DEF Typed
<1>9. Base = base /\ ~InConflict /\ AllEdits = {}
  BY <1>1 DEF Base, InConflict, AllEdits
<1>10. EditsOk
  <2>1. Len(log) = 0 /\ DOMAIN log = {} /\ 1..0 = {}
    BY <1>1
  <2> QED BY <1>1, <2>1 DEF EditsOk, JournalFull, JournalKeysOk
<1>11. RemoteSaves = 0
  <2>1. {i \in DOMAIN server.versions : server.versions[i].by = {}} = {1}
    BY <1>6
  <2>2. Cardinality({1}) = 1
    BY FS_Singleton
  <2>3. RemoteSaves = Cardinality({1}) - 1
    BY <2>1 DEF RemoteSaves
  <2> QED BY <2>2, <2>3
<1>12. ServerOk
  <2>1. \A r : ~Landed(r)
    BY <1>6 DEF Landed
  <2>2. LandedInPlace /\ LedgerOk
    BY <1>6 DEF LandedInPlace, LedgerOk
  <2>3. \A c \in Records : d[c] \in {0, Absent} /\ (d[c] # Absent => c \in Original)
    BY DEF FirstDocument
  <2>4. 0 \notin 1..MaxEdits /\ Absent \notin 1..MaxEdits
    BY Bounds DEF Absent
  <2>5. RowsLanded
    BY <1>6, <2>3, <2>4 DEF RowsLanded
  <2>6. RecordsInserted
    BY <1>6, <2>3 DEF RecordsInserted
  <2>7. GoneForGood
    BY <1>6 DEF GoneForGood, Within
  <2>8. Counted
    <3>1. \A n \in 0..MaxEdits : 1 <= 0 + 1 + n
      BY Bounds
    <3> QED BY <1>6, <1>11, <3>1, Bounds DEF Counted
  <2> QED BY <2>2, <2>5, <2>6, <2>7, <2>8 DEF ServerOk
<1>13. BaseOk
  <2>1. HasVersion(1, d)
    BY <1>6 DEF HasVersion
  <2>2. Rows(d, 0)
    BY Bounds DEF Rows, FirstDocument, Absent
  <2>3. Keeps({}, 1, 0, d) /\ Overlays({}, 1, 0, d, d)
    BY DEF Keeps, Overlays
  <2> QED BY <1>1, <1>9, <2>1, <2>2, <2>3 DEF BaseOk
<1>14. FlightOk /\ Earned /\ ConflictOk /\ SameFlight /\ \A r \in requests : RequestOk(r)
  BY <1>1, <1>9 DEF FlightOk, Earned, ConflictOk, SameFlight
<1>15. ViewOk
  <2>1. Recovered = [ok |-> TRUE, doc |-> d]
    BY <1>1, <1>8, <1>10, RecoveredEmpty
  <2>2. \A from, to : Keeps({}, from, to, d)
    BY DEF Keeps
  <2> QED BY <1>1, <1>9, <2>1, <2>2 DEF ViewOk
<1>16. RoundOk /\ MergeOk /\ CandOk /\ sync.stage # "materialize"
  BY <1>1, QuietTyped DEF RoundOk, MergeOk, CandOk, Uploading, Refused, Unpublished
<1> QED BY <1>8, <1>10, <1>12, <1>13, <1>14, <1>15, <1>16 DEF IInv, Safe

LEMMA Stutters ==
    ASSUME IInv, UNCHANGED vars
    PROVE  IInv'
<1>1. UNCHANGED <<server, requests, disk, log, view, edited>> /\ sync' = sync
  BY DEF vars
<1>2. AllEdits' = AllEdits
  BY <1>1 DEF AllEdits
<1>3. /\ ServerOk' /\ Revision' = Revision
      /\ \A r : Landed(r)' <=> Landed(r)
      /\ \A revision, doc : HasVersion(revision, doc)' <=> HasVersion(revision, doc)
  BY <1>1, <1>2, ServerFrame
<1>4. server' \in [versions : Seq(VersionSet), operations : SUBSET LedgerSet]
      /\ Revision <= Revision' /\ Revision' \in Nat /\ server.operations \subseteq server'.operations
  BY <1>1, <1>3, StateFacts DEF Typed
<1> QED BY <1>1, <1>3, <1>4, ServerStep

LEMMA StepsSafely ==
    ASSUME IInv, [Next]_vars
    PROVE  IInv'
<1>1. ASSUME NEW c \in Records, Insert(c) PROVE IInv'
  BY <1>1, EditStep DEF Insert, Kinds
<1>2. ASSUME NEW c \in Records, Replace(c) PROVE IInv'
  BY <1>2, EditStep DEF Replace, Kinds
<1>3. ASSUME NEW c \in Records, Delete(c) PROVE IInv'
  BY <1>3, EditStep DEF Delete, Kinds
<1>4. ASSUME NEW c \in Records, RemoteSave(c) PROVE IInv'
  BY <1>4, RemoteSaveStep
<1>5. ASSUME NEW r \in requests, Serve(r) PROVE IInv'
  BY <1>5, ServeStep
<1>6. ASSUME NEW r \in requests, ServeAndReply(r) PROVE IInv'
  BY <1>6, ServeAndReplyStep
<1>7. CASE ReadRemote
  BY <1>7, ReadRemoteStep
<1>8. CASE Timeout
  BY <1>8, TimeoutStep
<1>9. CASE Commit
  BY <1>9, CommitStep
<1>10. CASE Upload
  BY <1>10, UploadStep
<1>11. CASE Fail
  BY <1>11, FailStep
<1>12. CASE Ack
  BY <1>12, AckStep
<1>13. CASE CommitAck
  BY <1>13, CommitAckStep
<1>14. CASE Rebase
  BY <1>14, RebaseStep
<1>15. CASE CommitRebase
  BY <1>15, CommitRebaseStep
<1>16. CASE Materialize
  BY <1>16, MaterializeStep
<1>17. CASE Publish
  BY <1>17, PublishStep
<1>18. CASE RecoverRead
  BY <1>18, RecoverReadStep
<1>19. CASE RecoverCommit
  BY <1>19, RecoverCommitStep
<1>20. CASE RecoverPublish
  BY <1>20, RecoverPublishStep
<1>21. CASE FenceOff
  BY <1>21, FenceOffStep
<1>22. CASE Poll
  BY <1>22, PollStep
<1>23. CASE Adopt
  BY <1>23, AdoptStep
<1>24. CASE Approve
  BY <1>24, ApproveStep
<1>25. CASE Restart
  BY <1>25, RestartStep
<1>26. CASE UNCHANGED vars
  BY <1>26, Stutters
<1> QED BY <1>1, <1>2, <1>3, <1>4, <1>5, <1>6, <1>7, <1>8, <1>9, <1>10, <1>11, <1>12, <1>13, <1>14,
           <1>15, <1>16, <1>17, <1>18, <1>19, <1>20, <1>21, <1>22, <1>23, <1>24, <1>25, <1>26 DEF Next

\* At every moment the base is a version of the server, the checkpoint, the flight and
\* the candidate are the base with the edits of their ranges on it and nothing else,
\* and between publications the screen is what a reload recovers: what applyCloudAck,
\* rebaseRejectedFlight, the post-ack recovery and adoptRemoteDocument together keep.
THEOREM DocumentInvariant == Spec => []IInv
<1>1. Init => IInv
  BY StartsSafe
<1>2. IInv /\ [Next]_vars => IInv'
  BY StepsSafely
<1> QED BY <1>1, <1>2, PTL DEF Spec

\* The type invariant: the versions are documents saved by requests that were sent, the
\* journal and the emergency log together hold every edit, and the round is in one of
\* its stages.
THEOREM TypeCorrect == Spec => []TypeOK
<1>1. IInv => TypeOK
  <2> SUFFICES ASSUME IInv PROVE TypeOK
    OBVIOUS
  <2>1. \A i \in DOMAIN server.versions :
            server.versions[i].doc \in Documents /\ server.versions[i].by \subseteq requests
    BY StateFacts, ServerTyped, VersionTyped DEF ServerOk, LandedInPlace
  <2>2. view \in Documents /\ disk.cp.state \in Documents /\ disk.base # {}
        /\ disk.seq + Len(log) = edited
    BY StateFacts DEF EditsOk
  <2>3. sync \in SyncSet
    BY DEF IInv, Typed
  <2>4. sync.stage \in Unpublished \cup
            {"idle", "rpc", "rejected", "failed", "ack", "commitAck", "rebase", "commitRebase",
             "materialize", "polled", "dead"}
    BY <2>3, StageOf DEF Unpublished
  <2> QED BY <2>1, <2>2, <2>4 DEF TypeOK
<1> QED BY <1>1, DocumentInvariant, PTL

\* The base is what the server held at its revision, and an edit below its cursor was
\* carried by an operation the server recorded (documentWriteAckRevision, and
\* acknowledge, which moves the cursor to the end of the flight).
THEOREM AcknowledgementsEarned == Spec => []AckIsEarned
<1>1. IInv => AckIsEarned
  <2> SUFFICES ASSUME IInv PROVE AckIsEarned
    OBVIOUS
  <2>1. disk.base = {Base} /\ HasVersion(Base.revision, Base.state) /\ Base.ackSeq \in Nat
        /\ Base.ackSeq <= disk.seq /\ disk.seq \in Nat
    BY StateFacts DEF BaseOk
  <2>2. ASSUME NEW n \in 1..Base.ackSeq
        PROVE  \E r \in requests :
                  /\ Replayed(r)
                  /\ EditAt(n) \in Carried(r, EditAt(n).record)
                  /\ \E e \in Carried(r, EditAt(n).record) :
                        e.n >= EditAt(n).n /\ r.flight.snapshot[e.record] = Value(e)
    <3>1. PICK r \in requests :
              /\ Replayed(r) /\ n \in r.flight.startSeq..r.flight.endSeq
              /\ Keeps(AllEdits, r.flight.startSeq, r.flight.endSeq, r.flight.snapshot)
      BY DEF IInv, Safe, Earned
    <3> PICK E, from, to, x : /\ E = AllEdits /\ from = r.flight.startSeq /\ to = r.flight.endSeq
                              /\ x = EditAt(n)
      OBVIOUS
    <3>2. from \in Nat /\ to \in Nat /\ to <= disk.seq
      BY LandedFacts DEF RequestOk
    <3>3. n \in 1..disk.seq /\ x \in E /\ x.n = n /\ Edits(E)
      BY <2>1, StateFacts, EditsFacts
    <3>4. PICK e \in E : Last(E, e, from, to) /\ e.record = x.record /\ x.n <= e.n
      <4>1. Edits(E) /\ from \in Int /\ to \in Int /\ x \in E /\ x.n \in from..to
        BY <3>1, <3>2, <3>3
      <4> QED BY ONLY <4>1, LastOf
    <3>5. ASSUME NEW y \in E, y.n \in from..to, y.record = x.record
          PROVE  y \in Carried(r, x.record)
      <4>1. y.n \in 1..disk.seq
        BY <2>1, <3>2, <3>5, StateFacts, EditsFacts
      <4>2. PICK op \in disk.journal : op.seq = y.n /\ op.id = EditAt(y.n)
        BY <4>1, StateFacts, EditsFacts
      <4>3. op.id = y
        BY <3>3, <4>1, <4>2, StateFacts, EditsFacts DEF Edits
      <4> QED BY <3>5, <4>2, <4>3 DEF Carried
    <3>6. e.n \in from..to /\ r.flight.snapshot[e.record] = Value(e)
      BY <3>1, <3>4 DEF Last, Keeps
    <3>7. x.n \in Int /\ e.n \in Int
      BY <3>3, <3>4, StateFacts, EditsFacts
    <3>8. e.n >= x.n
      BY <3>4, <3>7
    <3> QED BY <3>1, <3>3, <3>4, <3>5, <3>6, <3>8
  <2> QED BY <2>1, <2>2 DEF AckIsEarned, HasVersion
<1> QED BY <1>1, DocumentInvariant, PTL

\* The edits the cloud has not acknowledged.
LEMMA UnackedEdits ==
    ASSUME IInv
    PROVE  Unacked = {x \in AllEdits : x.n \in (Base.ackSeq + 1)..edited}
<1>1. disk.base = {Base} /\ Base.ackSeq \in Nat /\ Base.ackSeq <= disk.seq /\ disk.seq \in Nat
      /\ edited \in Nat
  BY StateFacts
<1>2. /\ DOMAIN log = 1..Len(log)
      /\ \A i \in 1..Len(log) : log[i] \in AllEdits /\ log[i].n = disk.seq + i
      /\ \A op \in disk.journal : op.id \in AllEdits /\ op.seq \in 1..disk.seq /\ op.id.n = op.seq
      /\ \A e \in AllEdits : e.n \in Nat /\ 1 <= e.n /\ e.n <= edited
      /\ log \in Seq(EditSet)
  BY StateFacts, EditsFacts DEF Typed
<1>3. \A e \in AllEdits : (\E op \in disk.journal : e = op.id) \/ \E i \in 1..Len(log) : e = log[i]
  BY <1>2 DEF AllEdits
<1>4. \A i \in 1..Len(log) : log[i].n \in (Base.ackSeq + 1)..edited
  BY <1>1, <1>2
<1>5. \A op \in disk.journal : op.seq > Base.ackSeq <=> op.id.n \in (Base.ackSeq + 1)..edited
  BY <1>1, <1>2
<1>6. PendingOps(disk) = {op \in disk.journal : op.seq > Base.ackSeq}
  BY <1>1 DEF PendingOps
<1> QED BY <1>2, <1>3, <1>4, <1>5, <1>6 DEF Unacked

\* The last unacknowledged edit of a record is on the screen and in what a reload
\* recovers, whatever merge, publication, repair, adoption or restart came since.
THEOREM UnackedEditsKept == Spec => []UnackedEditKept
<1>1. IInv => UnackedEditKept
  <2> SUFFICES ASSUME IInv, NEW c \in Records, NEW e \in LastUnacked(c)
               PROVE  /\ sync.stage # "dead" => view[c] = Value(e)
                      /\ Recovered.ok => Recovered.doc[c] = Value(e)
    BY DEF UnackedEditKept
  <2> PICK E, from, n, at, cp, v, d : /\ E = AllEdits /\ from = Base.ackSeq + 1 /\ n = edited
                                      /\ at = disk.cp.seq /\ cp = disk.cp.state /\ v = view
                                      /\ d = Recovered.doc
    OBVIOUS
  <2>1. e \in E /\ e.record = c /\ e.n \in from..n
        /\ \A x \in E : x.record = c /\ x.n \in from..n => x.n <= e.n
    BY UnackedEdits DEF LastUnacked
  <2>2. Last(E, e, from, n)
    BY <2>1 DEF Last
  <2>3. sync.stage # "dead" => Keeps(E, from, n, v)
    BY DEF IInv, Safe, ViewOk
  <2>4. Keeps(E, from, n, d)
    <3>1. Edits(E) /\ from \in Int /\ at \in Int /\ n \in Int /\ from <= at + 1 /\ at <= n
      BY StateFacts
    <3>2. Keeps(E, from, at, cp)
      BY StateFacts DEF BaseOk
    <3>3. Overlays(E, at + 1, n, cp, d)
      BY StateFacts, RecoveredOverlays
    <3> QED BY ONLY <3>1, <3>2, <3>3, KeepsJoin
  <2> QED BY <2>1, <2>2, <2>3, <2>4 DEF Keeps
<1> QED BY <1>1, DocumentInvariant, PTL

\* Between rounds, unless it is fenced, the screen is what a reload recovers, and with
\* nothing to send it is the base: publishCloudAck and its repair leave no third state.
THEOREM ScreenIsDurable == Spec => []ViewIsDurable
<1>1. IInv => ViewIsDurable
  <2> SUFFICES ASSUME IInv, sync = Idle, ~InConflict
               PROVE  /\ Recovered = [ok |-> TRUE, doc |-> view]
                      /\ Unacked = {} => view = Base.state
    BY DEF ViewIsDurable
  <2>1. Shown
    BY QuietTyped DEF Shown, Unpublished
  <2>2. Recovered = [ok |-> TRUE, doc |-> view]
    BY <2>1 DEF IInv, Safe, ViewOk
  <2>3. ASSUME Unacked = {} PROVE view = Base.state
    <3>1. \A c \in Records : view[c] = Base.state[c]
      BY <2>1, <2>3, ViewOverlays, UnackedEdits DEF Overlays, Last
    <3> QED BY <3>1, StateFacts, SameDocument
  <2> QED BY <2>2, <2>3
<1> QED BY <1>1, DocumentInvariant, PTL

-----------------------------------------------------------------------------
(* The IndexedDB layer *)

\* Records and heads without their documents.
BareBase(b) == [b EXCEPT !.state = "document"]

BareFlight(f) == [f EXCEPT !.snapshot = "document"]

BarePoint(cp) == [seq |-> cp.seq, state |-> "document"]

BareOp(op) == [seq |-> op.seq, id |-> op.id.n]

Bare(h) ==
    [epoch |-> h.epoch, seq |-> h.seq, writer |-> h.writer, cp |-> BarePoint(h.cp),
     journal |-> {BareOp(op) : op \in h.journal}, base |-> {BareBase(b) : b \in h.base},
     flight |-> {BareFlight(f) : f \in h.flight}, control |-> h.control]

LEMMA ShapeBare ==
    disk \in HeadSet => Shape = Bare(disk)
<1> SUFFICES ASSUME disk \in HeadSet PROVE Shape = Bare(disk)
  OBVIOUS
<1> PICK h : h = disk
  OBVIOUS
<1>1. h.cp \in Points /\ h = [epoch |-> h.epoch, seq |-> h.seq, writer |-> h.writer, cp |-> h.cp,
                              journal |-> h.journal, base |-> h.base, flight |-> h.flight,
                              control |-> h.control]
  BY DEF HeadSet
<1>2. [h.cp EXCEPT !.state = "document"] = BarePoint(h.cp)
  BY <1>1 DEF Points, BarePoint
<1>3. /\ {[seq |-> op.seq, id |-> op.id.n] : op \in h.journal} = {BareOp(op) : op \in h.journal}
      /\ {[b EXCEPT !.state = "document"] : b \in h.base} = {BareBase(b) : b \in h.base}
      /\ {[f EXCEPT !.snapshot = "document"] : f \in h.flight} = {BareFlight(f) : f \in h.flight}
  BY DEF BareOp, BareBase, BareFlight
<1>4. Shape = [h EXCEPT !.cp = [h.cp EXCEPT !.state = "document"],
                        !.journal = {[seq |-> op.seq, id |-> op.id.n] : op \in h.journal},
                        !.base = {[b EXCEPT !.state = "document"] : b \in h.base},
                        !.flight = {[f EXCEPT !.snapshot = "document"] : f \in h.flight}]
  BY <1>1 DEF Shape
<1>5. Shape = [h EXCEPT !.cp = BarePoint(h.cp), !.journal = {BareOp(op) : op \in h.journal},
                        !.base = {BareBase(b) : b \in h.base},
                        !.flight = {BareFlight(f) : f \in h.flight}]
  BY <1>2, <1>3, <1>4
<1> QED BY <1>1, <1>5 DEF Bare

LEMMA ShapeBareNext ==
    (disk \in HeadSet => Shape = Bare(disk))'
<1>1. disk \in HeadSet => Shape = Bare(disk)
  BY ShapeBare
<1> QED BY <1>1, PTL

LEMMA BareFields ==
    /\ \A b \in BaseSet : /\ BareBase(b).revision = b.revision /\ BareBase(b).ackSeq = b.ackSeq
                          /\ BareBase(b) \in Store!Bases
    /\ \A f \in FlightSet :
          /\ BareFlight(f).operationId = f.operationId /\ BareFlight(f).baseRevision = f.baseRevision
          /\ BareFlight(f).startSeq = f.startSeq /\ BareFlight(f).endSeq = f.endSeq
          /\ BareFlight(f) \in Store!Flights
    /\ \A cp \in Points : BarePoint(cp).seq = cp.seq /\ BarePoint(cp) \in Store!Checkpoints
    /\ \A op \in OpSet : BareOp(op).seq = op.seq /\ BareOp(op).id = op.id.n /\ BareOp(op) \in Store!Operations
    /\ ControlSet = Store!Controls /\ \A S : Store!Maybe(S) = Maybe(S)
<1>1. ASSUME NEW b \in BaseSet
      PROVE  /\ BareBase(b).revision = b.revision /\ BareBase(b).ackSeq = b.ackSeq
             /\ BareBase(b) \in Store!Bases
  BY DEF BaseSet, BareBase, Store!Bases, Store!Revisions, Store!Seqs, Revisions, Seqs
<1>2. ASSUME NEW f \in FlightSet
      PROVE  /\ BareFlight(f).operationId = f.operationId /\ BareFlight(f).baseRevision = f.baseRevision
             /\ BareFlight(f).startSeq = f.startSeq /\ BareFlight(f).endSeq = f.endSeq
             /\ BareFlight(f) \in Store!Flights
  BY DEF FlightSet, BareFlight, Store!Flights, Store!Revisions, Revisions, Numbers, Rounds
<1>3. ASSUME NEW cp \in Points PROVE BarePoint(cp).seq = cp.seq /\ BarePoint(cp) \in Store!Checkpoints
  BY DEF Points, BarePoint, Store!Checkpoints, Store!Seqs, Seqs
<1>4. ASSUME NEW op \in OpSet
      PROVE  BareOp(op).seq = op.seq /\ BareOp(op).id = op.id.n /\ BareOp(op) \in Store!Operations
  BY DEF OpSet, EditSet, BareOp, Store!Operations, Numbers
<1>5. \A S : Store!Maybe(S) = Maybe(S)
  BY DEF Store!Maybe, Maybe
<1>6. ControlSet = Store!Controls
  BY <1>5 DEF ControlSet, Store!Controls, ConflictSet, Store!Conflicts, Store!Revisions, Revisions, ConflictKinds
<1> QED BY <1>1, <1>2, <1>3, <1>4, <1>5, <1>6

\* The fence lets through what it lets through with the documents left out.
LEMMA BareFence ==
    ASSUME NEW h \in HeadSet, NEW e, NEW w
    PROVE  /\ Fenced(h, e, w) => Store!Fenced(Bare(h), e, w)
           /\ FullFence(h, e, w) => Store!FullFence(Bare(h), e, w)
<1>1. /\ h.base \subseteq BaseSet /\ h.flight \subseteq FlightSet /\ h.cp \in Points /\ h.journal \subseteq OpSet
  BY HeadTyped
<1>2. /\ Bare(h).epoch = h.epoch /\ Bare(h).writer = h.writer /\ Bare(h).seq = h.seq
      /\ Bare(h).base = {BareBase(b) : b \in h.base} /\ Bare(h).flight = {BareFlight(f) : f \in h.flight}
  BY DEF Bare
<1>3. Fenced(h, e, w) => Store!Fenced(Bare(h), e, w)
  BY <1>2 DEF Fenced, Store!Fenced
<1>4. CloudHeadOk(h) => Store!CloudHeadOk(Bare(h))
  <2> SUFFICES ASSUME CloudHeadOk(h) PROVE Store!CloudHeadOk(Bare(h))
    OBVIOUS
  <2>1. \A b \in Bare(h).base : b.ackSeq <= Bare(h).seq
    BY <1>1, <1>2, BareFields DEF CloudHeadOk
  <2>2. ASSUME NEW f \in h.flight
        PROVE  /\ BareFlight(f).startSeq <= BareFlight(f).endSeq /\ BareFlight(f).endSeq <= Bare(h).seq
               /\ \E b \in Bare(h).base :
                     BareFlight(f).baseRevision = b.revision /\ BareFlight(f).startSeq = b.ackSeq + 1
    <3>1. PICK b \in h.base : f.baseRevision = b.revision /\ f.startSeq = b.ackSeq + 1
      BY DEF CloudHeadOk
    <3>2. f.startSeq <= f.endSeq /\ f.endSeq <= h.seq
      BY DEF CloudHeadOk
    <3>3. BareBase(b) \in Bare(h).base
      BY <1>2
    <3> QED BY <1>1, <1>2, <3>1, <3>2, <3>3, BareFields
  <2> QED BY <1>2, <2>1, <2>2 DEF Store!CloudHeadOk
<1> QED BY <1>3, <1>4 DEF FullFence, Store!FullFence

LEMMA BareRecord ==
    ASSUME NEW h \in HeadSet
    PROVE  /\ Bare(h).epoch = Epoch /\ Bare(h).writer = Device /\ Bare(h).seq = h.seq
           /\ Bare(h).cp = BarePoint(h.cp) /\ Bare(h).journal = {BareOp(op) : op \in h.journal}
           /\ Bare(h).base = {BareBase(b) : b \in h.base}
           /\ Bare(h).flight = {BareFlight(f) : f \in h.flight} /\ Bare(h).control = h.control
BY HeadTyped DEF Bare

\* One field of a head changes.
LEMMA HeadChanged ==
    ASSUME NEW e, NEW n, NEW w, NEW cp, NEW J, NEW B, NEW F, NEW C, NEW x, NEW g,
           g = [epoch |-> e, seq |-> n, writer |-> w, cp |-> cp, journal |-> J, base |-> B,
                flight |-> F, control |-> C]
    PROVE  /\ [g EXCEPT !.seq = x] = [epoch |-> e, seq |-> x, writer |-> w, cp |-> cp,
                                      journal |-> J, base |-> B, flight |-> F, control |-> C]
           /\ [g EXCEPT !.cp = x] = [epoch |-> e, seq |-> n, writer |-> w, cp |-> x,
                                     journal |-> J, base |-> B, flight |-> F, control |-> C]
           /\ [g EXCEPT !.journal = x] = [epoch |-> e, seq |-> n, writer |-> w, cp |-> cp,
                                          journal |-> x, base |-> B, flight |-> F, control |-> C]
           /\ [g EXCEPT !.base = x] = [epoch |-> e, seq |-> n, writer |-> w, cp |-> cp,
                                       journal |-> J, base |-> x, flight |-> F, control |-> C]
           /\ [g EXCEPT !.flight = x] = [epoch |-> e, seq |-> n, writer |-> w, cp |-> cp,
                                         journal |-> J, base |-> B, flight |-> x, control |-> C]
           /\ [g EXCEPT !.control = x] = [epoch |-> e, seq |-> n, writer |-> w, cp |-> cp,
                                          journal |-> J, base |-> B, flight |-> F, control |-> x]
OBVIOUS

\* Each transaction, with the documents left out, is the transaction of the layer.
LEMMA BareAppend ==
    ASSUME NEW h \in HeadSet, NEW op \in OpSet, op \notin h.journal, AppendOk(h, Epoch, Device, op)
    PROVE  /\ Store!AppendOk(Bare(h), Epoch, Device, BareOp(op))
           /\ Bare(AppendOp(h, op)) = Store!AppendOp(Bare(h), BareOp(op))
<1>1. h.journal \subseteq OpSet /\ h.seq \in Nat
  BY HeadTyped
<1>2. \A old \in h.journal : BareOp(old).seq # BareOp(op).seq
  BY <1>1, BareFields DEF AppendOk
<1>3. Store!AppendOk(Bare(h), Epoch, Device, BareOp(op))
  BY <1>1, <1>2, BareFence, BareFields, BareRecord DEF AppendOk, Store!AppendOk
<1>4. BareOp(op) \notin Bare(h).journal
  BY <1>2, BareRecord
<1> PICK k : k = [h EXCEPT !.journal = @ \cup {op}, !.seq = op.seq]
  OBVIOUS
<1>5. /\ k.epoch = h.epoch /\ k.seq = op.seq /\ k.writer = h.writer /\ k.cp = h.cp
      /\ k.journal = h.journal \cup {op} /\ k.base = h.base /\ k.flight = h.flight
      /\ k.control = h.control
  BY DEF HeadSet
<1>6. {BareOp(x) : x \in k.journal} = {BareOp(x) : x \in h.journal} \cup {BareOp(op)}
  BY <1>5
<1>7. Bare(k) = [Bare(h) EXCEPT !.journal = @ \cup {BareOp(op)}, !.seq = op.seq]
  <2> PICK g, J, B, F, C, P :
          /\ g = Bare(h) /\ J = {BareOp(x) : x \in h.journal} /\ B = {BareBase(x) : x \in h.base}
          /\ F = {BareFlight(x) : x \in h.flight} /\ C = h.control /\ P = BarePoint(h.cp)
    OBVIOUS
  <2>1. g = [epoch |-> Epoch, seq |-> h.seq, writer |-> Device, cp |-> P,
             journal |-> J, base |-> B, flight |-> F, control |-> C]
    BY HeadTyped DEF Bare
  <2>2. g.journal = J
    BY BareRecord
  <2>3. /\ BarePoint(k.cp) = P /\ {BareOp(x) : x \in k.journal} = J \cup {BareOp(op)}
        /\ {BareBase(x) : x \in k.base} = B /\ {BareFlight(x) : x \in k.flight} = F
    BY <1>5, <1>6
  <2>4. k.epoch = Epoch /\ k.writer = Device /\ k.seq = op.seq /\ k.control = C
    BY <1>5, <1>6, HeadTyped
  <2>5. Bare(k) = [epoch |-> Epoch, seq |-> op.seq, writer |-> Device, cp |-> P,
             journal |-> J \cup {BareOp(op)}, base |-> B, flight |-> F, control |-> C]
    BY <2>3, <2>4 DEF Bare
  <2> PICK g1 : g1 = [g EXCEPT !.journal = J \cup {BareOp(op)}]
    OBVIOUS
  <2>6. g1 = [epoch |-> Epoch, seq |-> h.seq, writer |-> Device, cp |-> P,
              journal |-> J \cup {BareOp(op)}, base |-> B, flight |-> F, control |-> C]
    BY ONLY <2>1, HeadChanged, g1 = [g EXCEPT !.journal = J \cup {BareOp(op)}]
  <2> PICK g2 : g2 = [g1 EXCEPT !.seq = op.seq]
    OBVIOUS
  <2>7. g2 = [epoch |-> Epoch, seq |-> op.seq, writer |-> Device, cp |-> P,
              journal |-> J \cup {BareOp(op)}, base |-> B, flight |-> F, control |-> C]
    BY ONLY <2>6, HeadChanged, g2 = [g1 EXCEPT !.seq = op.seq]
  <2>8. [g EXCEPT !.journal = @ \cup {BareOp(op)}, !.seq = op.seq] = [g1 EXCEPT !.seq = op.seq]
    BY ONLY <2>2, g1 = [g EXCEPT !.journal = J \cup {BareOp(op)}]
  <2> QED BY ONLY <2>5, <2>7, <2>8, g = Bare(h), g2 = [g1 EXCEPT !.seq = op.seq]
<1>8. AppendOp(h, op) = k
  BY DEF AppendOp
<1>9. Store!AppendOp(Bare(h), BareOp(op)) = [Bare(h) EXCEPT !.journal = @ \cup {BareOp(op)}, !.seq = op.seq]
  BY <1>4, BareFields DEF Store!AppendOp
<1> QED BY <1>3, <1>7, <1>8, <1>9

LEMMA BareBegin ==
    ASSUME NEW h \in HeadSet, NEW f \in FlightSet, BeginFlightOk(h, Epoch, Device, f)
    PROVE  /\ Store!BeginFlightOk(Bare(h), Epoch, Device, BareFlight(f))
           /\ Bare(BeginFlight(h, f)) = Store!BeginFlight(Bare(h), BareFlight(f))
<1>1. h.base \subseteq BaseSet /\ h.seq \in Nat
  BY HeadTyped
<1>2. PICK b \in h.base : f.baseRevision = b.revision /\ f.startSeq = b.ackSeq + 1
  BY DEF BeginFlightOk
<1>3. /\ BareBase(b) \in Bare(h).base /\ BareFlight(f).baseRevision = BareBase(b).revision
      /\ BareFlight(f).startSeq = BareBase(b).ackSeq + 1
  BY <1>1, <1>2, BareFields, BareRecord
<1>4. Bare(h).flight \subseteq {BareFlight(f)}
  BY BareRecord DEF BeginFlightOk
<1>5. Store!BeginFlightOk(Bare(h), Epoch, Device, BareFlight(f))
  BY <1>3, <1>4, BareFence, BareFields, BareRecord DEF BeginFlightOk, Store!BeginFlightOk
<1> PICK k : k = [h EXCEPT !.flight = {f}]
  OBVIOUS
<1>6. /\ k.epoch = h.epoch /\ k.seq = h.seq /\ k.writer = h.writer /\ k.cp = h.cp
      /\ k.journal = h.journal /\ k.base = h.base /\ k.flight = {f} /\ k.control = h.control
  BY DEF HeadSet
<1>7. {BareFlight(x) : x \in k.flight} = {BareFlight(f)}
  BY <1>6
<1>8. Bare(k) = [Bare(h) EXCEPT !.flight = {BareFlight(f)}]
  <2> PICK g, J, B, F, C, P :
          /\ g = Bare(h) /\ J = {BareOp(x) : x \in h.journal} /\ B = {BareBase(x) : x \in h.base}
          /\ F = {BareFlight(x) : x \in h.flight} /\ C = h.control /\ P = BarePoint(h.cp)
    OBVIOUS
  <2>1. g = [epoch |-> Epoch, seq |-> h.seq, writer |-> Device, cp |-> P,
             journal |-> J, base |-> B, flight |-> F, control |-> C]
    BY HeadTyped DEF Bare
  <2>2. g.journal = J
    BY BareRecord
  <2>3. /\ BarePoint(k.cp) = P /\ {BareOp(x) : x \in k.journal} = J
        /\ {BareBase(x) : x \in k.base} = B /\ {BareFlight(x) : x \in k.flight} = {BareFlight(f)}
    BY <1>6, <1>7
  <2>4. k.epoch = Epoch /\ k.writer = Device /\ k.seq = h.seq /\ k.control = C
    BY <1>6, <1>7, HeadTyped
  <2>5. Bare(k) = [epoch |-> Epoch, seq |-> h.seq, writer |-> Device, cp |-> P,
             journal |-> J, base |-> B, flight |-> {BareFlight(f)}, control |-> C]
    BY <2>3, <2>4 DEF Bare
  <2> QED BY ONLY <2>1, <2>2, <2>5, g = Bare(h)
<1> QED BY <1>5, <1>8 DEF BeginFlight, Store!BeginFlight

LEMMA BareControl ==
    ASSUME NEW h \in HeadSet, NEW c
    PROVE  Bare(SetControl(h, c)) = Store!SetControl(Bare(h), c)
<1> PICK k : k = [h EXCEPT !.control = {c}]
  OBVIOUS
<1>1. /\ k.epoch = h.epoch /\ k.seq = h.seq /\ k.writer = h.writer /\ k.cp = h.cp
      /\ k.journal = h.journal /\ k.base = h.base /\ k.flight = h.flight /\ k.control = {c}
  BY DEF HeadSet
<1>2. Bare(k) = [Bare(h) EXCEPT !.control = {c}]
  <2> PICK g, J, B, F, C, P :
          /\ g = Bare(h) /\ J = {BareOp(x) : x \in h.journal} /\ B = {BareBase(x) : x \in h.base}
          /\ F = {BareFlight(x) : x \in h.flight} /\ C = h.control /\ P = BarePoint(h.cp)
    OBVIOUS
  <2>1. g = [epoch |-> Epoch, seq |-> h.seq, writer |-> Device, cp |-> P,
             journal |-> J, base |-> B, flight |-> F, control |-> C]
    BY HeadTyped DEF Bare
  <2>2. g.journal = J
    BY BareRecord
  <2>3. /\ BarePoint(k.cp) = P /\ {BareOp(x) : x \in k.journal} = J
        /\ {BareBase(x) : x \in k.base} = B /\ {BareFlight(x) : x \in k.flight} = F
    BY <1>1
  <2>4. k.epoch = Epoch /\ k.writer = Device /\ k.seq = h.seq /\ k.control = {c}
    BY <1>1, HeadTyped
  <2>5. Bare(k) = [epoch |-> Epoch, seq |-> h.seq, writer |-> Device, cp |-> P,
             journal |-> J, base |-> B, flight |-> F, control |-> {c}]
    BY <2>3, <2>4 DEF Bare
  <2> QED BY ONLY <2>1, <2>2, <2>5, g = Bare(h)
<1> QED BY <1>2 DEF SetControl, Store!SetControl

LEMMA BareAcknowledge ==
    ASSUME NEW h \in HeadSet, NEW id, NEW base \in BaseSet, NEW cp \in Points, NEW control,
           AcknowledgeOk(h, Epoch, Device, id, base, {cp})
    PROVE  /\ Store!AcknowledgeOk(Bare(h), Epoch, Device, id, BareBase(base), {BarePoint(cp)})
           /\ Bare(Acknowledge(h, base, {cp}, control))
              = Store!Acknowledge(Bare(h), BareBase(base), {BarePoint(cp)}, control)
<1>1. h.flight \subseteq FlightSet /\ h.seq \in Nat
  BY HeadTyped
<1>2. PICK f \in h.flight :
          f.operationId = id /\ base.revision >= f.baseRevision /\ base.ackSeq = f.endSeq
  BY DEF AcknowledgeOk
<1>3. /\ BareFlight(f) \in Bare(h).flight /\ BareFlight(f).operationId = id
      /\ BareBase(base).revision >= BareFlight(f).baseRevision
      /\ BareBase(base).ackSeq = BareFlight(f).endSeq
  BY <1>1, <1>2, BareFields, BareRecord
<1>4. Store!AcknowledgeOk(Bare(h), Epoch, Device, id, BareBase(base), {BarePoint(cp)})
  BY <1>3, BareFence, BareFields, BareRecord DEF AcknowledgeOk, Store!AcknowledgeOk
<1> PICK k : k = [h EXCEPT !.base = {base}, !.flight = {}, !.control = control, !.cp = cp]
  OBVIOUS
<1>5. /\ k.epoch = h.epoch /\ k.seq = h.seq /\ k.writer = h.writer /\ k.cp = cp
      /\ k.journal = h.journal /\ k.base = {base} /\ k.flight = {} /\ k.control = control
  BY DEF HeadSet
<1>6. {BareBase(x) : x \in k.base} = {BareBase(base)} /\ {BareFlight(x) : x \in k.flight} = {}
  BY <1>5
<1>7. Bare(k) = [Bare(h) EXCEPT !.base = {BareBase(base)}, !.flight = {}, !.control = control,
                                !.cp = BarePoint(cp)]
  <2> PICK g, J, B, F, C, P :
          /\ g = Bare(h) /\ J = {BareOp(x) : x \in h.journal} /\ B = {BareBase(x) : x \in h.base}
          /\ F = {BareFlight(x) : x \in h.flight} /\ C = h.control /\ P = BarePoint(h.cp)
    OBVIOUS
  <2>1. g = [epoch |-> Epoch, seq |-> h.seq, writer |-> Device, cp |-> P,
             journal |-> J, base |-> B, flight |-> F, control |-> C]
    BY HeadTyped DEF Bare
  <2>2. g.journal = J
    BY BareRecord
  <2>3. /\ BarePoint(k.cp) = BarePoint(cp) /\ {BareOp(x) : x \in k.journal} = J
        /\ {BareBase(x) : x \in k.base} = {BareBase(base)} /\ {BareFlight(x) : x \in k.flight} = {}
    BY <1>5, <1>6
  <2>4. k.epoch = Epoch /\ k.writer = Device /\ k.seq = h.seq /\ k.control = control
    BY <1>5, <1>6, HeadTyped
  <2>5. Bare(k) = [epoch |-> Epoch, seq |-> h.seq, writer |-> Device, cp |-> BarePoint(cp),
             journal |-> J, base |-> {BareBase(base)}, flight |-> {}, control |-> control]
    BY <2>3, <2>4 DEF Bare
  <2> PICK g1, g2, g3 :
          /\ g1 = [g EXCEPT !.base = {BareBase(base)}] /\ g2 = [g1 EXCEPT !.flight = {}]
          /\ g3 = [g2 EXCEPT !.control = control]
    OBVIOUS
  <2>6. g1 = [epoch |-> Epoch, seq |-> h.seq, writer |-> Device, cp |-> P, journal |-> J,
              base |-> {BareBase(base)}, flight |-> F, control |-> C]
    BY ONLY <2>1, HeadChanged, g1 = [g EXCEPT !.base = {BareBase(base)}]
  <2>7. g2 = [epoch |-> Epoch, seq |-> h.seq, writer |-> Device, cp |-> P, journal |-> J,
              base |-> {BareBase(base)}, flight |-> {}, control |-> C]
    BY ONLY <2>6, HeadChanged, g2 = [g1 EXCEPT !.flight = {}]
  <2>8. g3 = [epoch |-> Epoch, seq |-> h.seq, writer |-> Device, cp |-> P, journal |-> J,
              base |-> {BareBase(base)}, flight |-> {}, control |-> control]
    BY ONLY <2>7, HeadChanged, g3 = [g2 EXCEPT !.control = control]
  <2> PICK g4 : g4 = [g3 EXCEPT !.cp = BarePoint(cp)]
    OBVIOUS
  <2>9. g4 = [epoch |-> Epoch, seq |-> h.seq, writer |-> Device, cp |-> BarePoint(cp), journal |-> J,
              base |-> {BareBase(base)}, flight |-> {}, control |-> control]
    BY ONLY <2>8, HeadChanged, g4 = [g3 EXCEPT !.cp = BarePoint(cp)]
  <2>10. [g EXCEPT !.base = {BareBase(base)}, !.flight = {}, !.control = control, !.cp = BarePoint(cp)]
         = [g3 EXCEPT !.cp = BarePoint(cp)]
    OBVIOUS
  <2> QED BY ONLY <2>5, <2>9, <2>10, g = Bare(h), g4 = [g3 EXCEPT !.cp = BarePoint(cp)]
<1>8. {cp} # {} /\ {BarePoint(cp)} # {} /\ (CHOOSE x \in {cp} : TRUE) = cp
      /\ (CHOOSE x \in {BarePoint(cp)} : TRUE) = BarePoint(cp)
  OBVIOUS
<1>9. Acknowledge(h, base, {cp}, control) = k
  BY <1>8 DEF Acknowledge
<1>10. Store!Acknowledge(Bare(h), BareBase(base), {BarePoint(cp)}, control) = Bare(k)
  BY <1>7, <1>8 DEF Store!Acknowledge
<1> QED BY <1>4, <1>9, <1>10

LEMMA BareReject ==
    ASSUME NEW h \in HeadSet, NEW id, NEW base \in BaseSet, NEW cp \in Points, NEW control, NEW n,
           RejectFlightOk(h, Epoch, Device, id, base, cp, n)
    PROVE  /\ Store!RejectFlightOk(Bare(h), Epoch, Device, id, BareBase(base), BarePoint(cp), n)
           /\ Bare(RejectFlight(h, base, cp, control))
              = Store!RejectFlight(Bare(h), BareBase(base), BarePoint(cp), control)
<1>1. h.flight \subseteq FlightSet /\ h.base \subseteq BaseSet
  BY HeadTyped
<1>2. PICK f \in h.flight, b \in h.base :
          f.operationId = id /\ base.revision > f.baseRevision /\ base.ackSeq = b.ackSeq
  BY DEF RejectFlightOk
<1>3. /\ BareFlight(f) \in Bare(h).flight /\ BareFlight(f).operationId = id
      /\ BareBase(base).revision > BareFlight(f).baseRevision
      /\ BareBase(b) \in Bare(h).base /\ BareBase(base).ackSeq = BareBase(b).ackSeq
  BY <1>1, <1>2, BareFields, BareRecord
<1>4. Store!RejectFlightOk(Bare(h), Epoch, Device, id, BareBase(base), BarePoint(cp), n)
  BY <1>3, BareFence, BareFields, BareRecord DEF RejectFlightOk, Store!RejectFlightOk
<1> PICK k : k = [h EXCEPT !.base = {base}, !.flight = {}, !.cp = cp, !.control = control]
  OBVIOUS
<1>5. /\ k.epoch = h.epoch /\ k.seq = h.seq /\ k.writer = h.writer /\ k.cp = cp
      /\ k.journal = h.journal /\ k.base = {base} /\ k.flight = {} /\ k.control = control
  BY DEF HeadSet
<1>6. {BareBase(x) : x \in k.base} = {BareBase(base)} /\ {BareFlight(x) : x \in k.flight} = {}
  BY <1>5
<1>7. Bare(k) = [Bare(h) EXCEPT !.base = {BareBase(base)}, !.flight = {}, !.cp = BarePoint(cp), !.control = control]
  <2> PICK g, J, B, F, C, P :
          /\ g = Bare(h) /\ J = {BareOp(x) : x \in h.journal} /\ B = {BareBase(x) : x \in h.base}
          /\ F = {BareFlight(x) : x \in h.flight} /\ C = h.control /\ P = BarePoint(h.cp)
    OBVIOUS
  <2>1. g = [epoch |-> Epoch, seq |-> h.seq, writer |-> Device, cp |-> P,
             journal |-> J, base |-> B, flight |-> F, control |-> C]
    BY HeadTyped DEF Bare
  <2>3. /\ BarePoint(k.cp) = BarePoint(cp) /\ {BareOp(x) : x \in k.journal} = J
        /\ {BareBase(x) : x \in k.base} = {BareBase(base)} /\ {BareFlight(x) : x \in k.flight} = {}
    BY <1>5, <1>6
  <2>4. k.epoch = Epoch /\ k.writer = Device /\ k.seq = h.seq /\ k.control = control
    BY <1>5, HeadTyped
  <2>5. Bare(k) = [epoch |-> Epoch, seq |-> h.seq, writer |-> Device, cp |-> BarePoint(cp),
                   journal |-> J, base |-> {BareBase(base)}, flight |-> {}, control |-> control]
    BY <2>3, <2>4 DEF Bare
  <2> PICK g1, g2, g3, g4 :
          /\ g1 = [g EXCEPT !.base = {BareBase(base)}]
          /\ g2 = [g1 EXCEPT !.flight = {}]
          /\ g3 = [g2 EXCEPT !.cp = BarePoint(cp)]
          /\ g4 = [g3 EXCEPT !.control = control]
    OBVIOUS
  <2>6. g1 = [epoch |-> Epoch, seq |-> h.seq, writer |-> Device, cp |-> P,
            journal |-> J, base |-> {BareBase(base)}, flight |-> F, control |-> C]
    BY ONLY <2>1, HeadChanged, g1 = [g EXCEPT !.base = {BareBase(base)}]
  <2>7. g2 = [epoch |-> Epoch, seq |-> h.seq, writer |-> Device, cp |-> P,
            journal |-> J, base |-> {BareBase(base)}, flight |-> {}, control |-> C]
    BY ONLY <2>6, HeadChanged, g2 = [g1 EXCEPT !.flight = {}]
  <2>8. g3 = [epoch |-> Epoch, seq |-> h.seq, writer |-> Device, cp |-> BarePoint(cp),
            journal |-> J, base |-> {BareBase(base)}, flight |-> {}, control |-> C]
    BY ONLY <2>7, HeadChanged, g3 = [g2 EXCEPT !.cp = BarePoint(cp)]
  <2>9. g4 = [epoch |-> Epoch, seq |-> h.seq, writer |-> Device, cp |-> BarePoint(cp),
            journal |-> J, base |-> {BareBase(base)}, flight |-> {}, control |-> control]
    BY ONLY <2>8, HeadChanged, g4 = [g3 EXCEPT !.control = control]
  <2>10. [g EXCEPT !.base = {BareBase(base)}, !.flight = {}, !.cp = BarePoint(cp), !.control = control] = g4
    OBVIOUS
  <2> QED BY ONLY <2>5, <2>9, <2>10, g = Bare(h)
<1> QED BY <1>4, <1>7 DEF RejectFlight, Store!RejectFlight


LEMMA BareAdopt ==
    ASSUME NEW h \in HeadSet, NEW base \in BaseSet, NEW cp \in Points,
           AdoptCloudHeadOk(h, Epoch, Device, cp, base)
    PROVE  /\ Store!AdoptCloudHeadOk(Bare(h), Epoch, Device, BarePoint(cp), BareBase(base))
           /\ Bare(AdoptCloudHead(h, cp, base))
              = Store!AdoptCloudHead(Bare(h), BarePoint(cp), BareBase(base))
<1>1. h.base \subseteq BaseSet
  BY HeadTyped
<1>2. PICK b \in h.base : b.ackSeq = h.seq /\ base.revision >= b.revision
  BY DEF AdoptCloudHeadOk
<1>3. /\ BareBase(b) \in Bare(h).base /\ BareBase(b).ackSeq = h.seq
      /\ BareBase(base).revision >= BareBase(b).revision
      /\ Bare(h).flight = {}
  BY <1>1, <1>2, BareFields, BareRecord DEF AdoptCloudHeadOk
<1>4. Store!AdoptCloudHeadOk(Bare(h), Epoch, Device, BarePoint(cp), BareBase(base))
  BY <1>3, BareFence, BareFields, BareRecord DEF AdoptCloudHeadOk, Store!AdoptCloudHeadOk
<1> PICK k : k = [h EXCEPT !.cp = cp, !.base = {base}, !.control = {}]
  OBVIOUS
<1>5. /\ k.epoch = h.epoch /\ k.seq = h.seq /\ k.writer = h.writer /\ k.cp = cp
      /\ k.journal = h.journal /\ k.base = {base} /\ k.flight = h.flight /\ k.control = {}
  BY DEF HeadSet
<1>6. {BareBase(x) : x \in k.base} = {BareBase(base)} /\ {BareFlight(x) : x \in k.flight} = {BareFlight(x) : x \in h.flight}
  BY <1>5
<1>7. Bare(k) = [Bare(h) EXCEPT !.cp = BarePoint(cp), !.base = {BareBase(base)}, !.control = {}]
  <2> PICK g, J, B, F, C, P :
          /\ g = Bare(h) /\ J = {BareOp(x) : x \in h.journal} /\ B = {BareBase(x) : x \in h.base}
          /\ F = {BareFlight(x) : x \in h.flight} /\ C = h.control /\ P = BarePoint(h.cp)
    OBVIOUS
  <2>1. g = [epoch |-> Epoch, seq |-> h.seq, writer |-> Device, cp |-> P,
             journal |-> J, base |-> B, flight |-> F, control |-> C]
    BY HeadTyped DEF Bare
  <2>3. /\ BarePoint(k.cp) = BarePoint(cp) /\ {BareOp(x) : x \in k.journal} = J
        /\ {BareBase(x) : x \in k.base} = {BareBase(base)} /\ {BareFlight(x) : x \in k.flight} = F
    BY <1>5, <1>6
  <2>4. k.epoch = Epoch /\ k.writer = Device /\ k.seq = h.seq /\ k.control = {}
    BY <1>5, HeadTyped
  <2>5. Bare(k) = [epoch |-> Epoch, seq |-> h.seq, writer |-> Device, cp |-> BarePoint(cp),
                   journal |-> J, base |-> {BareBase(base)}, flight |-> F, control |-> {}]
    BY <2>3, <2>4 DEF Bare
  <2> PICK g1, g2, g3 :
          /\ g1 = [g EXCEPT !.cp = BarePoint(cp)]
          /\ g2 = [g1 EXCEPT !.base = {BareBase(base)}]
          /\ g3 = [g2 EXCEPT !.control = {}]
    OBVIOUS
  <2>6. g1 = [epoch |-> Epoch, seq |-> h.seq, writer |-> Device, cp |-> BarePoint(cp),
            journal |-> J, base |-> B, flight |-> F, control |-> C]
    BY ONLY <2>1, HeadChanged, g1 = [g EXCEPT !.cp = BarePoint(cp)]
  <2>7. g2 = [epoch |-> Epoch, seq |-> h.seq, writer |-> Device, cp |-> BarePoint(cp),
            journal |-> J, base |-> {BareBase(base)}, flight |-> F, control |-> C]
    BY ONLY <2>6, HeadChanged, g2 = [g1 EXCEPT !.base = {BareBase(base)}]
  <2>8. g3 = [epoch |-> Epoch, seq |-> h.seq, writer |-> Device, cp |-> BarePoint(cp),
            journal |-> J, base |-> {BareBase(base)}, flight |-> F, control |-> {}]
    BY ONLY <2>7, HeadChanged, g3 = [g2 EXCEPT !.control = {}]
  <2>9. [g EXCEPT !.cp = BarePoint(cp), !.base = {BareBase(base)}, !.control = {}] = g3
    OBVIOUS
  <2> QED BY ONLY <2>5, <2>8, <2>9, g = Bare(h)
<1> QED BY <1>4, <1>7 DEF AdoptCloudHead, Store!AdoptCloudHead


LEMMA BareRecovery ==
    ASSUME NEW h \in HeadSet, NEW cp \in Points, NEW kind,
           CommitCloudRecoveryOk(h, Epoch, Device, cp, kind)
    PROVE  /\ Store!CommitCloudRecoveryOk(Bare(h), Epoch, Device, BarePoint(cp), kind)
           /\ Bare(CommitCloudRecovery(h, cp)) = Store!CommitCloudRecovery(Bare(h), BarePoint(cp))
<1>1. h.base \subseteq BaseSet
  BY HeadTyped
<1>2. Bare(h).base # {} /\ Bare(h).flight = {}
  BY BareRecord DEF CommitCloudRecoveryOk
<1>3. IF kind = "none" THEN Bare(h).control = {}
      ELSE /\ kind = "concurrent-ack"
           /\ \E c \in Bare(h).control, b \in Bare(h).base : \E x \in c.conflict :
                 x.kind = kind /\ x.remoteRevision = b.revision
  <2>1. CASE kind = "none"
    BY <2>1, BareRecord DEF CommitCloudRecoveryOk
  <2>2. CASE kind # "none"
    <3>1. PICK c \in h.control, b \in h.base : \E x \in c.conflict :
              x.kind = kind /\ x.remoteRevision = b.revision
      BY <2>2 DEF CommitCloudRecoveryOk
    <3>2. BareBase(b) \in Bare(h).base /\ BareBase(b).revision = b.revision /\ c \in Bare(h).control
      BY <1>1, <3>1, BareFields, BareRecord
    <3>3. kind = "concurrent-ack"
      BY <2>2 DEF CommitCloudRecoveryOk
    <3> QED BY <2>2, <3>1, <3>2, <3>3
  <2> QED BY <2>1, <2>2
<1>4. Store!CommitCloudRecoveryOk(Bare(h), Epoch, Device, BarePoint(cp), kind)
  BY <1>2, <1>3, BareFence, BareFields, BareRecord DEF CommitCloudRecoveryOk, Store!CommitCloudRecoveryOk
<1> PICK k : k = [h EXCEPT !.cp = cp, !.control = {}]
  OBVIOUS
<1>5. /\ k.epoch = h.epoch /\ k.seq = h.seq /\ k.writer = h.writer /\ k.cp = cp
      /\ k.journal = h.journal /\ k.base = h.base /\ k.flight = h.flight /\ k.control = {}
  BY DEF HeadSet
<1>6. {BareBase(x) : x \in k.base} = {BareBase(x) : x \in h.base} /\ {BareFlight(x) : x \in k.flight} = {BareFlight(x) : x \in h.flight}
  BY <1>5
<1>7. Bare(k) = [Bare(h) EXCEPT !.cp = BarePoint(cp), !.control = {}]
  <2> PICK g, J, B, F, C, P :
          /\ g = Bare(h) /\ J = {BareOp(x) : x \in h.journal} /\ B = {BareBase(x) : x \in h.base}
          /\ F = {BareFlight(x) : x \in h.flight} /\ C = h.control /\ P = BarePoint(h.cp)
    OBVIOUS
  <2>1. g = [epoch |-> Epoch, seq |-> h.seq, writer |-> Device, cp |-> P,
             journal |-> J, base |-> B, flight |-> F, control |-> C]
    BY HeadTyped DEF Bare
  <2>3. /\ BarePoint(k.cp) = BarePoint(cp) /\ {BareOp(x) : x \in k.journal} = J
        /\ {BareBase(x) : x \in k.base} = B /\ {BareFlight(x) : x \in k.flight} = F
    BY <1>5, <1>6
  <2>4. k.epoch = Epoch /\ k.writer = Device /\ k.seq = h.seq /\ k.control = {}
    BY <1>5, HeadTyped
  <2>5. Bare(k) = [epoch |-> Epoch, seq |-> h.seq, writer |-> Device, cp |-> BarePoint(cp),
                   journal |-> J, base |-> B, flight |-> F, control |-> {}]
    BY <2>3, <2>4 DEF Bare
  <2> PICK g1, g2 :
          /\ g1 = [g EXCEPT !.cp = BarePoint(cp)]
          /\ g2 = [g1 EXCEPT !.control = {}]
    OBVIOUS
  <2>6. g1 = [epoch |-> Epoch, seq |-> h.seq, writer |-> Device, cp |-> BarePoint(cp),
            journal |-> J, base |-> B, flight |-> F, control |-> C]
    BY ONLY <2>1, HeadChanged, g1 = [g EXCEPT !.cp = BarePoint(cp)]
  <2>7. g2 = [epoch |-> Epoch, seq |-> h.seq, writer |-> Device, cp |-> BarePoint(cp),
            journal |-> J, base |-> B, flight |-> F, control |-> {}]
    BY ONLY <2>6, HeadChanged, g2 = [g1 EXCEPT !.control = {}]
  <2>8. [g EXCEPT !.cp = BarePoint(cp), !.control = {}] = g2
    OBVIOUS
  <2> QED BY ONLY <2>5, <2>7, <2>8, g = Bare(h)
<1> QED BY <1>4, <1>7 DEF CommitCloudRecovery, Store!CommitCloudRecovery

\* The stored records always agree with each other: no transaction of this device is
\* refused for them.
LEMMA FenceOpen ==
    ASSUME IInv
    PROVE  FullFence(disk, Epoch, Device)
<1>1. disk.epoch = Epoch /\ disk.writer = Device
  BY HeadTyped DEF IInv, Typed
<1> PICK b : b = Base
  OBVIOUS
<1>2. disk.base = {b} /\ b.ackSeq \in Nat /\ b.ackSeq <= disk.seq
  BY StateFacts
<1>3. ASSUME NEW f \in disk.flight
      PROVE  /\ f.startSeq <= f.endSeq /\ f.endSeq <= disk.seq
             /\ f.baseRevision = b.revision /\ f.startSeq = b.ackSeq + 1
  BY DEF IInv, Safe, FlightOk
<1> QED BY <1>1, <1>2, <1>3 DEF FullFence, Fenced, CloudHeadOk

LEMMA ShapeTyped ==
    ASSUME IInv
    PROVE  Store!TypeOK
<1> PICK h : h = disk
  OBVIOUS
<1>1. h \in HeadSet /\ Shape = Bare(h) /\ h.base = {Base} /\ \A f \in h.flight : h.flight = {f}
  BY ShapeBare DEF IInv, Typed, Safe, BaseOk, FlightOk
<1>2. /\ h.seq \in Seqs /\ h.cp \in Points /\ h.journal \subseteq OpSet /\ h.base \subseteq BaseSet
      /\ h.flight \subseteq FlightSet /\ h.control \in Maybe(ControlSet)
  BY <1>1, HeadTyped
<1>3. Bare(h).journal \in SUBSET Store!Operations
  BY <1>1, <1>2, BareRecord, BareFields
<1>4. Bare(h).base \in Store!Maybe(Store!Bases)
  <2> PICK b : b = Base
    OBVIOUS
  <2>1. Bare(h).base = {BareBase(b)} /\ BareBase(b) \in Store!Bases
    BY <1>1, <1>2, BareRecord, BareFields
  <2> QED BY <2>1 DEF Store!Maybe
<1>5. Bare(h).flight \in Store!Maybe(Store!Flights)
  <2>1. CASE h.flight = {}
    BY <1>1, <2>1, BareRecord DEF Store!Maybe
  <2>2. CASE h.flight # {}
    <3>1. PICK f \in h.flight : h.flight = {f}
      BY <1>1, <2>2
    <3>2. Bare(h).flight = {BareFlight(f)} /\ BareFlight(f) \in Store!Flights
      BY <1>1, <1>2, <3>1, BareRecord, BareFields
    <3> QED BY <3>2 DEF Store!Maybe
  <2> QED BY <2>1, <2>2
<1>6. Bare(h).control \in Store!Maybe(Store!Controls)
  BY <1>1, <1>2, BareRecord, BareFields
<1>7. Bare(h).cp \in [seq : Store!Seqs, state : {"document"} \cup {NoState}]
  BY <1>1, <1>2, BareRecord, BareFields DEF Store!Checkpoints
<1>8. Bare(h).seq \in Store!Seqs
  BY <1>1, <1>2, BareRecord DEF Store!Seqs, Seqs
<1> PICK g : g = Bare(h)
  OBVIOUS
<1>9. g = [epoch |-> g.epoch, seq |-> g.seq, writer |-> g.writer, cp |-> g.cp, journal |-> g.journal,
           base |-> g.base, flight |-> g.flight, control |-> g.control]
  BY DEF Bare
<1>10. g.epoch \in {Epoch} \cup {NoEpoch} /\ g.writer \in {Device} \cup {NoWriter}
  BY <1>1, BareRecord
<1>11. g \in Store!Heads
  BY <1>3, <1>4, <1>5, <1>6, <1>7, <1>8, <1>9, <1>10 DEF Store!Heads
<1> QED BY <1>1, <1>11 DEF Store!TypeOK

LEMMA StoreStep ==
    ASSUME IInv, IInv', [Next]_vars
    PROVE  disk' = disk \/ Store!Next
<1> PICK h, k : h = disk /\ k = disk'
  OBVIOUS
<1>1. h \in HeadSet /\ k \in HeadSet /\ Shape = Bare(h) /\ Shape' = Bare(k)
  BY ShapeBare, ShapeBareNext DEF IInv, Typed
<1>2. ASSUME Store!FencedTx(Epoch, Device) PROVE Store!Next
  <2>1. Store!Fenced(Shape, Epoch, Device)
    BY <1>1, BareRecord DEF Store!Fenced
  <2> QED BY <1>2, <2>1 DEF Store!Next
<1>3. CASE Commit
  <2>1. PICK op \in OpSet :
            /\ op = [seq |-> disk.seq + 1, id |-> log[1]]
            /\ disk' = [disk EXCEPT !.journal = @ \cup {op}, !.seq = op.seq]
    BY <1>3, CommittedEdit
  <2>2. op \notin h.journal
    <3>1. h.seq \in Nat /\ op.seq = h.seq + 1
      BY <1>1, <2>1, HeadTyped
    <3>2. \A x \in h.journal : x.seq \in 1..h.seq
      BY DEF IInv, Safe, EditsOk, JournalFull, JournalKeysOk
    <3> QED BY <3>1, <3>2
  <2>3. AppendOk(h, Epoch, Device, op) /\ k = AppendOp(h, op)
    <3>1. log # <<>> /\ log \in Seq(EditSet)
      BY <1>3 DEF Commit, IInv, Typed
    <3>2. op = [seq |-> disk.seq + 1, id |-> Head(log)]
      BY <2>1, <3>1
    <3> QED BY <1>3, <3>2 DEF Commit
  <2>4. Store!AppendTx(Epoch, Device)
    BY <1>1, <2>2, <2>3, BareAppend, BareFields DEF Store!AppendTx
  <2> QED BY <1>2, <2>4 DEF Store!FencedTx
<1>4. ASSUME NEW f, BeginFlightOk(disk, Epoch, Device, f), disk' = BeginFlight(disk, f)
      PROVE  Store!Next
  <2>1. f \in FlightSet /\ k = BeginFlight(h, f)
    <3>1. k.flight = {f}
      BY <1>1, <1>4 DEF BeginFlight, HeadSet
    <3> QED BY <1>1, <1>4, <3>1, HeadTyped
  <2>2. Store!BeginFlightTx(Epoch, Device)
    BY <1>1, <1>4, <2>1, BareBegin, BareFields DEF Store!BeginFlightTx
  <2> QED BY <1>2, <2>2 DEF Store!FencedTx
<1>5. ASSUME NEW c, FullFence(disk, Epoch, Device), disk' = SetControl(disk, c)
      PROVE  Store!Next
  <2>1. c \in ControlSet /\ k = SetControl(h, c)
    <3>1. k.control = {c} /\ k.control \in Maybe(ControlSet)
      BY <1>1, <1>5, HeadTyped DEF SetControl, HeadSet
    <3> QED BY <1>5, <3>1 DEF Maybe
  <2>2. Store!SetControlOk(Bare(h), Epoch, Device)
    BY <1>1, <1>5, BareFence DEF Store!SetControlOk
  <2>3. Store!SetControlTx(Epoch, Device)
    BY <1>1, <2>1, <2>2, BareControl, BareFields DEF Store!SetControlTx
  <2> QED BY <1>2, <2>3 DEF Store!FencedTx
<1>6. ASSUME NEW id, NEW base, NEW cp, NEW control, AcknowledgeOk(disk, Epoch, Device, id, base, {cp}),
             disk' = Acknowledge(disk, base, {cp}, control)
      PROVE  Store!Next
  <2>0. (CHOOSE x \in {cp} : TRUE) = cp /\ {cp} # {}
    OBVIOUS
  <2>1. k.base = {base} /\ k.cp = cp /\ k.control = control
    BY <1>1, <1>6, <2>0 DEF Acknowledge, HeadSet
  <2>2. base \in BaseSet /\ cp \in Points /\ control \in Store!Maybe(Store!Controls)
    BY <1>1, <2>1, HeadTyped, BareFields
  <2>3. id \in Rounds \X Numbers
    <3>1. PICK f \in h.flight : f.operationId = id
      BY <1>6 DEF AcknowledgeOk
    <3>2. f \in FlightSet
      BY <1>1, <3>1, HeadTyped
    <3> QED BY <3>1, <3>2 DEF FlightSet
  <2>4. /\ Store!AcknowledgeOk(Bare(h), Epoch, Device, id, BareBase(base), {BarePoint(cp)})
        /\ Bare(k) = Store!Acknowledge(Bare(h), BareBase(base), {BarePoint(cp)}, control)
    BY <1>1, <1>6, <2>2, BareAcknowledge
  <2>5. {BarePoint(cp)} \in Store!Maybe(Store!Checkpoints) /\ BareBase(base) \in Store!Bases
    BY <2>2, BareFields DEF Store!Maybe
  <2>6. Store!AcknowledgeTx(Epoch, Device)
    BY <1>1, <2>2, <2>3, <2>4, <2>5 DEF Store!AcknowledgeTx, Rounds, Numbers
  <2> QED BY <1>2, <2>6 DEF Store!FencedTx
<1>7. ASSUME NEW id, NEW base, NEW cp, NEW control, NEW n, RejectFlightOk(disk, Epoch, Device, id, base, cp, n),
             disk' = RejectFlight(disk, base, cp, control)
      PROVE  Store!Next
  <2>1. k.base = {base} /\ k.cp = cp /\ k.control = control
    BY <1>1, <1>7 DEF RejectFlight, HeadSet
  <2>2. base \in BaseSet /\ cp \in Points /\ control \in Store!Maybe(Store!Controls)
    BY <1>1, <2>1, HeadTyped, BareFields
  <2>3. id \in Rounds \X Numbers
    <3>1. PICK f \in h.flight : f.operationId = id
      BY <1>7 DEF RejectFlightOk
    <3>2. f \in FlightSet
      BY <1>1, <3>1, HeadTyped
    <3> QED BY <3>1, <3>2 DEF FlightSet
  <2>4. /\ Store!RejectFlightOk(Bare(h), Epoch, Device, id, BareBase(base), BarePoint(cp), n)
        /\ Bare(k) = Store!RejectFlight(Bare(h), BareBase(base), BarePoint(cp), control)
    BY <1>1, <1>7, <2>2, BareReject
  <2>5. BarePoint(cp) \in Store!Checkpoints /\ BareBase(base) \in Store!Bases
    BY <2>2, BareFields
  <2>6. n \in Store!Seqs
    BY <1>1, <1>7, HeadTyped DEF RejectFlightOk, Store!Seqs, Seqs
  <2>7. Store!RejectFlightTx(Epoch, Device)
    BY <1>1, <2>2, <2>3, <2>4, <2>5, <2>6 DEF Store!RejectFlightTx, Rounds, Numbers
  <2> QED BY <1>2, <2>7 DEF Store!FencedTx
<1>8. ASSUME NEW cp, NEW base, AdoptCloudHeadOk(disk, Epoch, Device, cp, base),
             disk' = AdoptCloudHead(disk, cp, base)
      PROVE  Store!Next
  <2>1. k.base = {base} /\ k.cp = cp
    BY <1>1, <1>8 DEF AdoptCloudHead, HeadSet
  <2>2. base \in BaseSet /\ cp \in Points
    BY <1>1, <2>1, HeadTyped
  <2>3. /\ Store!AdoptCloudHeadOk(Bare(h), Epoch, Device, BarePoint(cp), BareBase(base))
        /\ Bare(k) = Store!AdoptCloudHead(Bare(h), BarePoint(cp), BareBase(base))
    BY <1>1, <1>8, <2>2, BareAdopt
  <2>4. Store!AdoptCloudHeadTx(Epoch, Device)
    BY <1>1, <2>2, <2>3, BareFields DEF Store!AdoptCloudHeadTx
  <2> QED BY <1>2, <2>4 DEF Store!FencedTx
<1>9. ASSUME NEW cp, NEW kind \in {"none", "concurrent-ack"}, CommitCloudRecoveryOk(disk, Epoch, Device, cp, kind),
             disk' = CommitCloudRecovery(disk, cp)
      PROVE  Store!Next
  <2>1. k.cp = cp
    BY <1>1, <1>9 DEF CommitCloudRecovery, HeadSet
  <2>2. cp \in Points
    BY <1>1, <2>1, HeadTyped
  <2>3. /\ Store!CommitCloudRecoveryOk(Bare(h), Epoch, Device, BarePoint(cp), kind)
        /\ Bare(k) = Store!CommitCloudRecovery(Bare(h), BarePoint(cp))
    BY <1>1, <1>9, <2>2, BareRecovery
  <2>4. Store!CommitCloudRecoveryTx(Epoch, Device)
    BY <1>1, <2>2, <2>3, BareFields DEF Store!CommitCloudRecoveryTx
  <2> QED BY <1>2, <2>4 DEF Store!FencedTx
<1>10. CASE Upload
  <2>1. PICK f : f = IF disk.flight # {} THEN Flight ELSE NewFlight(disk.seq, Recovered.doc)
    OBVIOUS
  <2>2. BeginFlightOk(disk, Epoch, Device, f) /\ disk' = BeginFlight(disk, f)
    BY <1>10, <2>1 DEF Upload
  <2> QED BY <1>4, <2>2
<1>11. CASE Materialize
  <2>1. PICK f : f = NewFlight(sync.through, sync.snapshot)
    OBVIOUS
  <2>2. disk' = disk \/ (BeginFlightOk(disk, Epoch, Device, f) /\ disk' = BeginFlight(disk, f))
    BY <1>11, <2>1 DEF Materialize
  <2> QED BY <1>4, <2>2
<1>12. FullFence(disk, Epoch, Device)
  BY FenceOpen
<1>13. CASE Fail
  <2>1. disk' = disk \/ \E c : disk' = SetControl(disk, c)
    BY <1>13 DEF Fail
  <2> QED BY <1>5, <1>12, <2>1
<1>14. CASE FenceOff
  <2>1. \E c : disk' = SetControl(disk, c)
    BY <1>14 DEF FenceOff
  <2> QED BY <1>5, <1>12, <2>1
<1>15. CASE CommitAck
  <2>1. PICK id, base, cp, control :
            /\ id = sync.flight.operationId /\ cp = sync.cp /\ control = sync.control
            /\ base = [revision |-> sync.row.revision, ackSeq |-> sync.flight.endSeq, state |-> sync.row.doc]
    OBVIOUS
  <2>2. \/ disk' = disk
        \/ /\ AcknowledgeOk(disk, Epoch, Device, id, base, {cp})
           /\ disk' = Acknowledge(disk, base, {cp}, control)
    BY <1>15, <2>1 DEF CommitAck
  <2> QED BY <1>6, <2>2
<1>16. CASE CommitRebase
  <2>1. PICK id, base, cp, control, n :
            /\ id = sync.flight.operationId /\ cp = sync.cp /\ control = sync.control /\ n = sync.cp.seq
            /\ base = [revision |-> sync.row.revision, ackSeq |-> Base.ackSeq, state |-> sync.row.doc]
    OBVIOUS
  <2>2. \/ disk' = disk
        \/ /\ RejectFlightOk(disk, Epoch, Device, id, base, cp, n)
           /\ disk' = RejectFlight(disk, base, cp, control)
    BY <1>16, <2>1 DEF CommitRebase
  <2> QED BY <1>7, <2>2
<1>17. CASE RecoverCommit
  <2>1. PICK cp : cp = sync.cp
    OBVIOUS
  <2>2. \/ disk' = disk
        \/ CommitCloudRecoveryOk(disk, Epoch, Device, cp, "none") /\ disk' = CommitCloudRecovery(disk, cp)
    BY <1>17, <2>1 DEF RecoverCommit
  <2> QED BY <1>9, <2>2
<1>18. CASE Approve
  <2>1. PICK cp : cp = [seq |-> disk.seq, state |-> view]
    OBVIOUS
  <2>2. CommitCloudRecoveryOk(disk, Epoch, Device, cp, "concurrent-ack") /\ disk' = CommitCloudRecovery(disk, cp)
    BY <1>18, <2>1 DEF Approve
  <2> QED BY <1>9, <2>2
<1>19. CASE Adopt
  <2>1. PICK cp, base :
            /\ cp = [seq |-> disk.seq, state |-> sync.row.doc]
            /\ base = [revision |-> sync.row.revision, ackSeq |-> disk.seq, state |-> sync.row.doc]
    OBVIOUS
  <2>2. \/ disk' = disk
        \/ AdoptCloudHeadOk(disk, Epoch, Device, cp, base) /\ disk' = AdoptCloudHead(disk, cp, base)
    BY <1>19, <2>1 DEF Adopt
  <2> QED BY <1>8, <2>2
<1>20. ASSUME NEW c \in Records, Insert(c) \/ Replace(c) \/ Delete(c) \/ RemoteSave(c)
       PROVE  disk' = disk
  BY <1>20 DEF Insert, Replace, Delete, Edit, RemoteSave
<1>21. ASSUME NEW r \in requests, Serve(r) \/ ServeAndReply(r)
       PROVE  disk' = disk
  BY <1>21 DEF Serve, ServeAndReply
<1>22. ASSUME ReadRemote \/ Timeout \/ Ack \/ Rebase \/ Publish \/ RecoverRead \/ RecoverPublish \/ Poll
              \/ Restart \/ UNCHANGED vars
       PROVE  disk' = disk
  BY <1>22 DEF ReadRemote, Timeout, Ack, Rebase, Publish, RecoverRead, RecoverPublish, Poll, Restart, vars
<1> QED BY <1>3, <1>10, <1>11, <1>13, <1>14, <1>15, <1>16, <1>17, <1>18, <1>19, <1>20, <1>21, <1>22 DEF Next

\* The rounds of this document, the edits and the recovery change the database only by
\* the transactions of the IndexedDB layer, each within its guard: what JournalStore
\* promises of the head holds of this device too.
THEOREM DeviceImplementsStore == Spec => StoreSpec
<1>1. IInv => Store!TypeOK
  BY ShapeTyped
<1>2. IInv /\ IInv' /\ [Next]_vars => [Shape' = Shape \/ Store!Next]_disk
  BY StoreStep
<1> QED BY <1>1, <1>2, DocumentInvariant, PTL DEF Spec, StoreSpec

-----------------------------------------------------------------------------
(* What an edit's user saw *)

\* The first edit of its record from a position on.
First(E, e, from) ==
    /\ e \in E /\ e.n >= from
    /\ \A x \in E : x.record = e.record /\ x.n >= from => e.n <= x.n

\* The edit was made on that row, or is one of K: approved, or torn by a restart.
Known(K, e, row) == e.over = row \/ e.n \in K

\* What doc changes of base is changed by edits whose user saw the row of base.
Sees(E, K, from, base, doc) ==
    \A c \in Records : doc[c] # base[c] =>
        \E e \in E : First(E, e, from) /\ e.record = c /\ Known(K, e, base[c])

\* A record is not edited after its deletion.
DeletesLast(E) == \A e, x \in E : e.kind = "delete" /\ x.record = e.record => x.n <= e.n

\* The deletions up to an edit are in doc.
Gone(E, to, doc) == \A e \in E : e.kind = "delete" /\ e.n <= to => doc[e.record] = Absent

LEMMA FirstOf ==
    ASSUME NEW E, Edits(E), NEW from \in Int, NEW x \in E, x.n >= from
    PROVE  \E e \in E : First(E, e, from) /\ e.record = x.record /\ e.n <= x.n
<1> PICK T : T = {e.n : e \in {y \in E : y.record = x.record /\ y.n >= from}}
  OBVIOUS
<1>1. T \subseteq Nat /\ T # {}
  BY EditTyped DEF Edits
<1>2. PICK m \in T : \A k \in T : m <= k
  BY <1>1, LeastExists
<1>3. PICK e \in E : e.n = m /\ e.record = x.record /\ e.n >= from
  BY <1>2
<1> QED BY <1>2, <1>3 DEF First

LEMMA GrowFirst ==
    ASSUME NEW E, NEW F, E \subseteq F, \A x \in F \ E : \A y \in E : y.n <= x.n,
           NEW e, NEW from, First(E, e, from)
    PROVE  First(F, e, from)
BY DEF First

LEMMA SeesGrows ==
    ASSUME NEW E, NEW F, E \subseteq F, \A x \in F \ E : \A y \in E : y.n <= x.n,
           NEW K, NEW L, K \subseteq L, NEW from, NEW base, NEW doc, Sees(E, K, from, base, doc)
    PROVE  Sees(F, L, from, base, doc)
<1> SUFFICES ASSUME NEW c \in Records, doc[c] # base[c]
             PROVE  \E e \in F : First(F, e, from) /\ e.record = c /\ Known(L, e, base[c])
  BY DEF Sees
<1>1. PICK e \in E : First(E, e, from) /\ e.record = c /\ Known(K, e, base[c])
  BY DEF Sees
<1>2. First(F, e, from)
  BY <1>1, GrowFirst
<1> QED BY <1>1, <1>2 DEF Known

LEMMA SeesSelf ==
    ASSUME NEW E, NEW K, NEW from, NEW doc
    PROVE  Sees(E, K, from, doc, doc)
BY DEF Sees

\* What a merge without conflict takes over, its user saw on the other document too.
LEMMA SeesMerge ==
    ASSUME NEW E, NEW K, NEW from, NEW base, NEW local, NEW remote, NEW deletes,
           Sees(E, K, from, base, local), NEW merged, merged = Merge3(base, local, remote, deletes),
           ~merged.conflict
    PROVE  Sees(E, K, from, remote, merged.doc)
<1> PICK mine : mine = ProtectImplicitDeletes(base, local, deletes)
  OBVIOUS
<1> PICK d : d = merged.doc
  OBVIOUS
<1>1. /\ d = [c \in Records |-> IF mine[c] # base[c] THEN mine[c] ELSE remote[c]]
      /\ mine = [c \in Records |-> IF local[c] = Absent /\ c \notin deletes THEN base[c] ELSE local[c]]
      /\ \A c \in Records : ~ (mine[c] # base[c] /\ remote[c] # base[c] /\ mine[c] # remote[c])
  BY DEF Merge3, ProtectImplicitDeletes
<1> SUFFICES ASSUME NEW c \in Records, d[c] # remote[c]
             PROVE  \E e \in E : First(E, e, from) /\ e.record = c /\ Known(K, e, remote[c])
  BY DEF Sees
<1>2. d[c] = IF mine[c] # base[c] THEN mine[c] ELSE remote[c]
  BY <1>1
<1>3. mine[c] # base[c] /\ mine[c] # remote[c]
  BY <1>2
<1>4. remote[c] = base[c]
  BY <1>1, <1>3
<1>5. local[c] # base[c]
  BY <1>1, <1>3
<1> QED BY <1>4, <1>5 DEF Sees

\* The edits on a document, and those after them.
LEMMA SeesJoin ==
    ASSUME NEW E, Edits(E), DeletesLast(E), NEW K, NEW from \in Int, NEW mid \in Int, from <= mid + 1,
           NEW a, NEW b, NEW d, Overlays(E, from, mid, a, b), Rows(a, from - 1),
           Sees(E, K, from, a, b), Sees(E, K, mid + 1, b, d)
    PROVE  Sees(E, K, from, a, d)
<1> SUFFICES ASSUME NEW c \in Records, d[c] # a[c]
             PROVE  \E e \in E : First(E, e, from) /\ e.record = c /\ Known(K, e, a[c])
  BY DEF Sees
<1>1. CASE b[c] # a[c]
  BY <1>1 DEF Sees
<1>2. CASE b[c] = a[c]
  <2>1. PICK e \in E : First(E, e, mid + 1) /\ e.record = c /\ Known(K, e, a[c])
    BY <1>2 DEF Sees
  <2>2. e.n \in Nat /\ e.n >= mid + 1 /\ \A x \in E : x.n \in Nat /\ x.n >= 1 /\ x.n <= MaxEdits
    BY <2>1, EditTyped DEF First, Edits
  <2>3. CASE \A x \in E : x.record = c => x.n \notin from..mid
    <3>1. \A x \in E : x.record = c /\ x.n >= from => x.n >= mid + 1
      BY <2>2, <2>3
    <3>2. First(E, e, from)
      BY <2>1, <2>2, <3>1 DEF First
    <3> QED BY <2>1, <3>2
  <2>4. CASE \E x \in E : Last(E, x, from, mid) /\ x.record = c /\ b[c] = Value(x)
    <3>1. PICK x \in E : Last(E, x, from, mid) /\ x.record = c /\ b[c] = Value(x)
      BY <2>4
    <3>2. x.n >= from /\ x.n <= mid /\ x.n \in Nat /\ x.n \in 1..MaxEdits
      BY <2>2, <3>1 DEF Last
    <3>3. x.kind # "delete"
      BY <2>1, <2>2, <3>1, <3>2 DEF DeletesLast
    <3>4. a[c] = x.n
      BY <1>2, <3>1, <3>3, EditTyped DEF Edits
    <3>5. a[c] <= from - 1
      BY <3>2, <3>4 DEF Rows
    <3> QED BY <3>2, <3>4, <3>5
  <2> QED BY <2>3, <2>4, OverlaysRow
<1> QED BY <1>1, <1>2

\* Edits approved or torn are known whatever they were made on.
LEMMA SeesKnown ==
    ASSUME NEW E, Edits(E), NEW K, NEW from \in Int, NEW to \in Int, NEW base, NEW doc,
           Overlays(E, from, to, base, doc), \A e \in E : e.n \in from..to => e.n \in K
    PROVE  Sees(E, K, from, base, doc)
<1> SUFFICES ASSUME NEW c \in Records, doc[c] # base[c]
             PROVE  \E e \in E : First(E, e, from) /\ e.record = c /\ Known(K, e, base[c])
  BY DEF Sees
<1>1. PICK x \in E : Last(E, x, from, to) /\ x.record = c
  BY OverlaysRow
<1>2. x.n \in Nat /\ x.n >= from /\ x.n <= to
  BY <1>1, EditTyped DEF Edits, Last
<1>3. PICK e \in E : First(E, e, from) /\ e.record = c /\ e.n <= x.n
  BY <1>1, <1>2, FirstOf
<1>4. e.n \in Nat /\ e.n >= from
  BY <1>3, EditTyped DEF Edits, First
<1>5. e.n \in K
  BY <1>2, <1>3, <1>4
<1> QED BY <1>3, <1>5 DEF Known

\* An edit is made on the row its user sees.
LEMMA EditSees ==
    ASSUME NEW E, Edits(E), NEW K, NEW from \in Int, NEW to \in Int, from <= to + 1,
           \A x \in E : x.n <= to, NEW e \in EditSet, e.n = to + 1,
           NEW base, NEW doc \in Documents, Overlays(E, from, to, base, doc), Rows(base, from - 1),
           e.over = doc[e.record], doc[e.record] # Absent \/ \A x \in E : x.record # e.record,
           NEW F, F = E \cup {e}, Sees(E, K, from, base, doc)
    PROVE  Sees(F, K, from, base, Apply(doc, e))
<1> PICK d : d = Apply(doc, e)
  OBVIOUS
<1>0. /\ \A x \in E : x.n \in Nat /\ x.n >= 1 /\ x.n <= MaxEdits /\ x.n <= e.n
      /\ e.record \in Records /\ e.n \in Nat /\ e.n >= from
      /\ E \subseteq F /\ \A x \in F \ E : \A y \in E : y.n <= x.n
  <2>1. \A x \in E : x.n \in Nat /\ x.n >= 1 /\ x.n <= MaxEdits
    BY EditTyped DEF Edits
  <2> QED BY <2>1, EditTyped
<1>1. Sees(F, K, from, base, doc)
  BY <1>0, SeesGrows
<1> SUFFICES ASSUME NEW c \in Records, d[c] # base[c]
             PROVE  \E x \in F : First(F, x, from) /\ x.record = c /\ Known(K, x, base[c])
  BY DEF Sees
<1>2. CASE doc[c] # base[c]
  BY <1>1, <1>2 DEF Sees
<1>3. CASE doc[c] = base[c]
  <2>1. c = e.record
    BY <1>3, ApplyRow
  <2>2. CASE \A x \in E : x.record = c => x.n \notin from..to
    <3>1. \A x \in F : x.record = c /\ x.n >= from => e.n <= x.n
      BY <1>0, <2>2
    <3>2. First(F, e, from)
      BY <1>0, <2>1, <3>1 DEF First
    <3> QED BY <1>3, <2>1, <3>2 DEF Known
  <2>3. CASE \E x \in E : Last(E, x, from, to) /\ x.record = c /\ doc[c] = Value(x)
    <3>1. PICK x \in E : Last(E, x, from, to) /\ x.record = c /\ doc[c] = Value(x)
      BY <2>3
    <3>2. doc[c] # Absent
      BY <2>1, <3>1
    <3>3. base[c] = x.n /\ x.n \in 1..MaxEdits /\ x.n >= from /\ x.n \in Nat
      BY <1>0, <1>3, <3>1, <3>2, EditTyped DEF Edits, Last
    <3>4. base[c] <= from - 1
      BY <3>3 DEF Rows
    <3> QED BY <3>3, <3>4
  <2>4. \/ \A x \in E : x.record = c => x.n \notin from..to
        \/ \E x \in E : Last(E, x, from, to) /\ x.record = c /\ doc[c] = Value(x)
    BY DEF Overlays
  <2> QED BY <2>2, <2>3, <2>4
<1> QED BY <1>2, <1>3

LEMMA GoneOverlays ==
    ASSUME NEW E, Edits(E), DeletesLast(E), NEW from \in Int, NEW to \in Int, NEW base, NEW doc,
           Gone(E, from - 1, base), Overlays(E, from, to, base, doc)
    PROVE  Gone(E, to, doc)
<1> SUFFICES ASSUME NEW e \in E, e.kind = "delete", e.n <= to PROVE doc[e.record] = Absent
  BY DEF Gone
<1>1. e.n \in Nat /\ e.record \in Records /\ Value(e) = Absent /\ \A x \in E : x.n \in Nat
  BY EditTyped DEF Edits
<1>2. CASE e.n >= from
  <2>1. Last(E, e, from, to)
    BY <1>1, <1>2 DEF Last, DeletesLast
  <2> QED BY <1>1, <2>1, OverlaysKeeps DEF Keeps
<1>3. CASE ~ (e.n >= from)
  <2>1. base[e.record] = Absent
    BY <1>1, <1>3 DEF Gone
  <2>2. \A x \in E : x.record = e.record => x.n < from
    BY <1>1, <1>3 DEF DeletesLast
  <2>3. \A x \in E : x.record = e.record => x.n \notin from..to
    BY <1>1, <2>2
  <2> QED BY <1>1, <2>1, <2>3, OverlaysRow DEF Last
<1> QED BY <1>2, <1>3

LEMMA GoneKeeps ==
    ASSUME NEW E, Edits(E), DeletesLast(E), NEW from \in Int, NEW to \in Int, NEW doc,
           Gone(E, from - 1, doc), Keeps(E, from, to, doc)
    PROVE  Gone(E, to, doc)
<1> SUFFICES ASSUME NEW e \in E, e.kind = "delete", e.n <= to PROVE doc[e.record] = Absent
  BY DEF Gone
<1>1. e.n \in Nat /\ Value(e) = Absent /\ \A x \in E : x.n \in Nat
  BY EditTyped DEF Edits
<1>2. CASE e.n >= from
  <2>1. Last(E, e, from, to)
    BY <1>1, <1>2 DEF Last, DeletesLast
  <2> QED BY <1>1, <2>1 DEF Keeps
<1>3. CASE ~ (e.n >= from)
  BY <1>1, <1>3 DEF Gone
<1> QED BY <1>2, <1>3

LEMMA GoneEarlier ==
    ASSUME NEW E, Edits(E), NEW n \in Int, NEW m \in Int, m <= n, NEW doc, Gone(E, n, doc)
    PROVE  Gone(E, m, doc)
<1>1. \A e \in E : e.n \in Nat
  BY EditTyped DEF Edits
<1> QED BY <1>1 DEF Gone

LEMMA GoneWithin ==
    ASSUME NEW E, Edits(E), NEW n, NEW doc, NEW other, Within(doc, other), Gone(E, n, other)
    PROVE  Gone(E, n, doc)
<1>1. \A e \in E : e.record \in Records
  BY EditTyped DEF Edits
<1> QED BY <1>1 DEF Gone, Within

-----------------------------------------------------------------------------
(* What was deleted stays deleted *)

Committing == {"commitAck", "commitRebase"}

Deletes ==
    /\ DeletesLast(AllEdits)
    /\ Gone(AllEdits, Base.ackSeq, Base.state) /\ Gone(AllEdits, Base.ackSeq, disk.cp.state)
    /\ sync.stage # "dead" => Gone(AllEdits, Base.ackSeq, view)
    /\ sync.stage \in Committing /\ sync.control # {} => sync.cp.state = sync.prev

LEMMA ViewGone ==
    ASSUME IInv, Deletes, sync.stage # "dead"
    PROVE  Gone(AllEdits, edited, view)
<1> PICK E, ack, n, v, from : E = AllEdits /\ ack = Base.ackSeq /\ n = edited /\ v = view /\ from = ack + 1
  OBVIOUS
<1>1. Edits(E) /\ DeletesLast(E) /\ ack \in Nat /\ n \in Nat /\ from \in Int /\ from - 1 = ack
  BY StateFacts DEF Deletes
<1>2. Gone(E, from - 1, v) /\ Keeps(E, from, n, v)
  BY <1>1 DEF Deletes, IInv, Safe, ViewOk
<1>3. Gone(E, n, v)
  BY ONLY <1>1, <1>2, GoneKeeps
<1> QED BY <1>3

LEMMA CheckpointGone ==
    ASSUME IInv, Deletes
    PROVE  Gone(AllEdits, disk.cp.seq, disk.cp.state)
<1> PICK E, ack, n, v, from : /\ E = AllEdits /\ ack = Base.ackSeq /\ n = disk.cp.seq
                              /\ v = disk.cp.state /\ from = ack + 1
  OBVIOUS
<1>1. Edits(E) /\ DeletesLast(E) /\ ack \in Nat /\ n \in Nat /\ from \in Int /\ from - 1 = ack
  BY StateFacts DEF Deletes
<1>2. Gone(E, from - 1, v) /\ Keeps(E, from, n, v)
  BY <1>1, StateFacts DEF Deletes, BaseOk
<1>3. Gone(E, n, v)
  BY ONLY <1>1, <1>2, GoneKeeps
<1> QED BY <1>3

\* A step that changes neither base nor checkpoint nor screen.
LEMMA DeletesKept ==
    ASSUME Deletes, AllEdits' = AllEdits, disk'.base = disk.base, disk'.cp = disk.cp, view' = view,
           sync.stage = "dead" => sync'.stage = "dead",
           sync'.stage \in Committing /\ sync'.control # {} => sync'.cp.state = sync'.prev
    PROVE  Deletes'
BY DEF Deletes, Base

LEMMA SettledHead ==
    ASSUME IInv, NEW base \in BaseSet, NEW cp \in Points, NEW control \in Maybe(ControlSet),
           disk' = [disk EXCEPT !.base = {base}, !.flight = {}, !.cp = cp, !.control = control],
           UNCHANGED <<log, edited>>
    PROVE  /\ Base' = base /\ disk'.base = {base} /\ disk'.flight = {} /\ disk'.cp = cp
           /\ disk'.control = control
           /\ AllEdits' = AllEdits /\ (InConflict' <=> \E c \in control : c.conflict # {})
<1>1. disk \in HeadSet
  BY DEF IInv, Typed
<1>2. disk' \in HeadSet /\ disk'.journal = disk.journal /\ disk'.seq = disk.seq
      /\ disk'.base = {base} /\ disk'.flight = {} /\ disk'.cp = cp /\ disk'.control = control
  BY <1>1 DEF HeadSet
<1>3. Base' = base
  BY <1>2 DEF Base
<1> QED BY <1>2, <1>3, JournalFrame DEF InConflict

\* What an acknowledgement commits.
LEMMA AckEffect ==
    ASSUME IInv, CommitAck
    PROVE  \/ sync' = Failed /\ disk' = disk
           \/ /\ Base'.ackSeq = sync.flight.endSeq /\ Base'.state = sync.row.doc
              /\ disk'.cp = sync.cp /\ disk'.flight = {} /\ AllEdits' = AllEdits
              /\ edited = sync.cp.seq /\ view = sync.prev
              /\ sync.control # {} => sync' = Idle /\ InConflict'
              /\ sync.control = {} => /\ sync'.stage = "publish" /\ sync'.cand.next = Idle
                                      /\ sync'.cand.prev = view /\ sync'.cand.cp = sync.cp
<1>0. sync.stage = "commitAck" /\ UNCHANGED <<server, requests, log, view, edited>>
  BY DEF CommitAck
<1> PICK f, row, cp, control, prev : f = sync.flight /\ row = sync.row /\ cp = sync.cp
                                     /\ control = sync.control /\ prev = sync.prev
  OBVIOUS
<1> PICK base : base = [revision |-> row.revision, ackSeq |-> f.endSeq, state |-> row.doc]
  OBVIOUS
<1>1. /\ f \in FlightSet /\ row \in RowSet /\ cp \in Points /\ control \in Maybe(ControlSet)
      /\ prev \in Documents
  BY <1>0, RoundTyped DEF Acking
<1>2. CASE ~ (StillCurrent(cp.seq) /\ Recovered.ok)
  BY <1>2 DEF CommitAck
<1>3. CASE StillCurrent(cp.seq) /\ Recovered.ok
  <2>1. /\ AcknowledgeOk(disk, Epoch, Device, f.operationId, base, {cp})
        /\ disk' = Acknowledge(disk, base, {cp}, control)
        /\ sync' = IF control # {} THEN Idle
                   ELSE [stage |-> "publish", attempt |-> 0,
                         cand |-> [kind |-> "concurrent-ack", tries |-> 6, next |-> Idle,
                                   base |-> base, prev |-> prev, cp |-> cp]]
    BY <1>3 DEF CommitAck
  <2>2. (edited = cp.seq => view = prev) /\ (control # {} => \E c \in control : c.conflict # {})
    BY <1>0 DEF IInv, Safe, MergeOk
  <2>3. edited = cp.seq
    BY <1>3, StateFacts, EditsFacts DEF StillCurrent, Position
  <2>4. base \in BaseSet /\ base.ackSeq = f.endSeq /\ base.state = row.doc
    <3>1. row.revision \in Revisions /\ row.doc \in Documents
      BY <1>1 DEF RowSet
    <3>2. f.endSeq \in Seqs
      BY <1>1, Bounds DEF FlightSet, Seqs, Numbers
    <3> QED BY <3>1, <3>2 DEF BaseSet
  <2>5. disk' = [disk EXCEPT !.base = {base}, !.flight = {}, !.cp = cp, !.control = control]
    BY <2>1 DEF Acknowledge
  <2>6. /\ Base' = base /\ disk'.flight = {} /\ disk'.cp = cp
        /\ AllEdits' = AllEdits /\ (InConflict' <=> \E c \in control : c.conflict # {})
    <3>1. /\ IInv /\ UNCHANGED <<log, edited>>
          /\ base \in BaseSet /\ cp \in Points /\ control \in Maybe(ControlSet)
      BY <1>0, <1>1, <2>4
    <3> QED BY ONLY <2>5, <3>1, SettledHead, Zenon
  <2>7. CASE control # {}
    BY <2>1, <2>2, <2>3, <2>4, <2>6, <2>7
  <2>8. CASE control = {}
    <3>1. /\ sync'.stage = "publish" /\ sync'.cand.next = Idle
          /\ sync'.cand.prev = prev /\ sync'.cand.cp = cp
      BY <2>1, <2>8
    <3> QED BY <2>2, <2>3, <2>4, <2>6, <2>8, <3>1
  <2> QED BY <2>7, <2>8
<1> QED BY <1>2, <1>3

\* What a refusal commits.
LEMMA RebaseEffect ==
    ASSUME IInv, CommitRebase
    PROVE  \/ sync' = Failed /\ disk' = disk
           \/ /\ Base'.ackSeq = Base.ackSeq /\ Base'.state = sync.row.doc
              /\ disk'.cp = sync.cp /\ disk'.flight = {} /\ AllEdits' = AllEdits
              /\ edited = sync.cp.seq /\ view = sync.prev
              /\ sync.control # {} => sync' = Idle /\ InConflict'
              /\ sync.control = {} => /\ sync'.stage = "publish" /\ sync'.cand.next = sync.next
                                      /\ sync'.cand.prev = view /\ sync'.cand.cp = sync.cp
<1>0. sync.stage = "commitRebase" /\ UNCHANGED <<server, requests, log, view, edited>>
  BY DEF CommitRebase
<1> PICK f, row, cp, control, prev, next :
            f = sync.flight /\ row = sync.row /\ cp = sync.cp
            /\ control = sync.control /\ prev = sync.prev /\ next = sync.next
  OBVIOUS
<1> PICK ack : ack = Base.ackSeq
  OBVIOUS
<1> PICK base : base = [revision |-> row.revision, ackSeq |-> ack, state |-> row.doc]
  OBVIOUS
<1>1. /\ row \in RowSet /\ cp \in Points /\ control \in Maybe(ControlSet)
  BY <1>0, RoundTyped DEF Rebasing
<1>2. CASE ~ (StillCurrent(cp.seq) /\ Recovered.ok)
  BY <1>2 DEF CommitRebase
<1>3. CASE StillCurrent(cp.seq) /\ Recovered.ok
  <2>1. /\ disk' = RejectFlight(disk, base, cp, control)
        /\ sync' = IF control # {} THEN Idle
                   ELSE [stage |-> "publish", attempt |-> 0,
                         cand |-> [kind |-> "concurrent-rebase", tries |-> 2, next |-> next,
                                   base |-> base, prev |-> prev, cp |-> cp]]
    BY <1>3 DEF CommitRebase
  <2>2. (edited = cp.seq => view = prev) /\ (control # {} => \E c \in control : c.conflict # {})
    BY <1>0 DEF IInv, Safe, MergeOk
  <2>3. edited = cp.seq
    BY <1>3, StateFacts, EditsFacts DEF StillCurrent, Position
  <2>4. base \in BaseSet /\ base.ackSeq = ack /\ base.state = row.doc
    <3>1. row.revision \in Revisions /\ row.doc \in Documents
      BY <1>1 DEF RowSet
    <3>2. ack \in Seqs
      BY StateFacts DEF BaseSet
    <3> QED BY <3>1, <3>2 DEF BaseSet
  <2>5. disk' = [disk EXCEPT !.base = {base}, !.flight = {}, !.cp = cp, !.control = control]
    BY <2>1 DEF RejectFlight
  <2>6. /\ Base' = base /\ disk'.flight = {} /\ disk'.cp = cp
        /\ AllEdits' = AllEdits /\ (InConflict' <=> \E c \in control : c.conflict # {})
    <3>1. /\ IInv /\ UNCHANGED <<log, edited>>
          /\ base \in BaseSet /\ cp \in Points /\ control \in Maybe(ControlSet)
      BY <1>0, <1>1, <2>4
    <3> QED BY ONLY <2>5, <3>1, SettledHead, Zenon
  <2>7. CASE control # {}
    BY <2>1, <2>2, <2>3, <2>4, <2>6, <2>7
  <2>8. CASE control = {}
    <3>1. /\ sync'.stage = "publish" /\ sync'.cand.next = next
          /\ sync'.cand.prev = prev /\ sync'.cand.cp = cp
      BY <2>1, <2>8
    <3> QED BY <2>2, <2>3, <2>4, <2>6, <2>8, <3>1
  <2> QED BY <2>7, <2>8
<1> QED BY <1>2, <1>3

\* What an adoption commits.
LEMMA AdoptEffect ==
    ASSUME IInv, Adopt
    PROVE  \/ sync' = Idle /\ disk' = disk
           \/ /\ Base'.ackSeq = disk.seq /\ Base'.state = sync.row.doc
              /\ Base.ackSeq = disk.seq /\ Base.revision <= sync.row.revision
              /\ disk'.cp = [seq |-> disk.seq, state |-> sync.row.doc]
              /\ disk'.cp.state = sync.row.doc /\ disk'.cp.seq = disk.seq
              /\ disk'.flight = {} /\ AllEdits' = AllEdits /\ edited = disk.seq
              /\ sync'.stage = "publish" /\ sync'.cand.next = Idle
              /\ sync'.cand.prev = view /\ sync'.cand.cp = disk'.cp
<1>0. sync.stage = "polled" /\ UNCHANGED <<server, requests, log, view, edited>>
  BY DEF Adopt
<1> PICK row, n : row = sync.row /\ n = disk.seq
  OBVIOUS
<1> PICK cp, base : /\ cp = [seq |-> n, state |-> row.doc]
                    /\ base = [revision |-> row.revision, ackSeq |-> n, state |-> row.doc]
  OBVIOUS
<1>1. row \in RowSet /\ row.doc \in Documents /\ row.revision \in Revisions
  BY <1>0, RoundTyped DEF Polled, RowSet
<1>2. CASE ~ (log = <<>> /\ AdoptCloudHeadOk(disk, Epoch, Device, cp, base))
  BY <1>2 DEF Adopt
<1>3. CASE log = <<>> /\ AdoptCloudHeadOk(disk, Epoch, Device, cp, base)
  <2>1. /\ disk' = AdoptCloudHead(disk, cp, base)
        /\ sync' = [stage |-> "publish", attempt |-> 0,
                    cand |-> [kind |-> "concurrent-hydration", tries |-> 0, next |-> Idle,
                              base |-> base, prev |-> view, cp |-> cp]]
    BY <1>3 DEF Adopt
  <2>2. disk.flight = {}
    BY <1>0 DEF IInv, Safe, RoundOk
  <2>3. n \in Nat /\ n \in Seqs /\ edited = n /\ disk.base = {Base}
    <3>1. Len(log) = 0
      BY <1>3
    <3> QED BY <3>1, StateFacts, EditsFacts, HeadTyped DEF Typed
  <2>4. cp \in Points /\ base \in BaseSet /\ base.ackSeq = n /\ base.state = row.doc
        /\ base.revision = row.revision /\ cp.seq = n /\ cp.state = row.doc
    BY <1>1, <2>3 DEF Points, BaseSet
  <2>5. Base.ackSeq = n /\ Base.revision <= row.revision
    BY <1>3, <2>3, <2>4 DEF AdoptCloudHeadOk
  <2> PICK control : control = {}
    OBVIOUS
  <2>6. disk \in HeadSet
    BY DEF IInv, Typed
  <2>7. disk' = [disk EXCEPT !.base = {base}, !.flight = {}, !.cp = cp, !.control = control]
        /\ control \in Maybe(ControlSet)
    BY <2>1, <2>2, <2>6 DEF AdoptCloudHead, HeadSet, Maybe
  <2>8. /\ Base' = base /\ disk'.flight = {} /\ disk'.cp = cp /\ AllEdits' = AllEdits
    BY <1>0, <2>4, <2>7, SettledHead
  <2>9. /\ sync'.stage = "publish" /\ sync'.cand.next = Idle
        /\ sync'.cand.prev = view /\ sync'.cand.cp = cp
    BY <2>1
  <2> QED BY <2>3, <2>4, <2>5, <2>8, <2>9
<1> QED BY <1>2, <1>3

LEMMA AckDeletes ==
    ASSUME IInv, Deletes, CommitAck
    PROVE  Deletes'
<1>0. sync.stage = "commitAck" /\ view' = view /\ UNCHANGED <<log, edited>>
  BY DEF CommitAck
<1> PICK f, row, cp, control, prev : f = sync.flight /\ row = sync.row /\ cp = sync.cp
                                     /\ control = sync.control /\ prev = sync.prev
  OBVIOUS
<1> PICK E, v, base, ack, to, n : /\ E = AllEdits /\ v = view /\ base = Base.state /\ ack = Base.ackSeq
                                  /\ to = f.endSeq /\ n = edited
  OBVIOUS
<1>1. CASE sync' = Failed /\ disk' = disk
  BY <1>0, <1>1, JournalFrame, DeletesKept, QuietTyped DEF Committing
<1>2. CASE ~ (sync' = Failed /\ disk' = disk)
  <2>1. /\ Base'.ackSeq = to /\ Base'.state = row.doc
        /\ disk'.cp = cp /\ AllEdits' = E /\ n = cp.seq /\ v = prev
        /\ sync'.stage \in {"idle", "publish"}
    BY <1>2, AckEffect, QuietTyped
  <2>2. f \in disk.flight
    BY <1>0 DEF IInv, Safe, RoundOk, Uploading
  <2>3. /\ Edits(E) /\ DeletesLast(E) /\ ack \in Nat /\ to \in Nat /\ n \in Nat /\ to <= n
        /\ f.startSeq = ack + 1 /\ Overlays(E, f.startSeq, to, base, f.snapshot)
        /\ Gone(E, ack, base)
    BY <2>2, FlightFacts, StateFacts DEF Deletes
  <2>4. Gone(E, to, f.snapshot)
    <3>1. (ack + 1) - 1 = ack /\ ack + 1 \in Int /\ Overlays(E, ack + 1, to, base, f.snapshot)
      BY <2>3
    <3> QED BY <2>3, <3>1, GoneOverlays
  <2>5. Gone(E, to, row.doc)
    BY <1>0, <2>3, <2>4, AckWithin, GoneWithin
  <2>6. Gone(E, n, v)
    BY <1>0, ViewGone
  <2>7. Gone(E, n, cp.state)
    <3>1. CASE control # {}
      <4>1. cp.state = v
        BY <1>0, <2>1, <3>1 DEF Deletes, Committing
      <4> QED BY <2>6, <4>1
    <3>2. CASE control = {}
      <4>1. Overlays(E, to + 1, n, row.doc, cp.state)
        BY <1>0, <2>1, <3>2 DEF IInv, Safe, MergeOk
      <4>2. (to + 1) - 1 = to /\ to + 1 \in Int
        BY <2>3
      <4> QED BY <2>3, <2>5, <4>1, <4>2, GoneOverlays
    <3> QED BY <3>1, <3>2
  <2>8. Gone(E, to, cp.state) /\ Gone(E, to, v)
    <3>1. Edits(E) /\ to \in Int /\ n \in Int /\ to <= n
      BY <2>3
    <3> QED BY <2>6, <2>7, <3>1, GoneEarlier
  <2> QED BY <1>0, <2>1, <2>3, <2>5, <2>8 DEF Deletes, Committing
<1> QED BY <1>1, <1>2

LEMMA RebaseDeletes ==
    ASSUME IInv, Deletes, CommitRebase
    PROVE  Deletes'
<1>0. sync.stage = "commitRebase" /\ view' = view /\ UNCHANGED <<log, edited>>
  BY DEF CommitRebase
<1> PICK row, cp, control, prev : row = sync.row /\ cp = sync.cp /\ control = sync.control
                                  /\ prev = sync.prev
  OBVIOUS
<1> PICK E, v, base, ack, n : E = AllEdits /\ v = view /\ base = Base.state /\ ack = Base.ackSeq /\ n = edited
  OBVIOUS
<1>1. CASE sync' = Failed /\ disk' = disk
  BY <1>0, <1>1, JournalFrame, DeletesKept, QuietTyped DEF Committing
<1>2. CASE ~ (sync' = Failed /\ disk' = disk)
  <2>1. /\ Base'.ackSeq = ack /\ Base'.state = row.doc
        /\ disk'.cp = cp /\ AllEdits' = E /\ n = cp.seq /\ v = prev
        /\ sync'.stage \in {"idle", "publish"}
    BY <1>2, RebaseEffect, QuietTyped
  <2>2. /\ Edits(E) /\ DeletesLast(E) /\ ack \in Nat /\ n \in Nat /\ ack <= n
        /\ Gone(E, ack, base) /\ Gone(E, ack, v)
    BY <1>0, StateFacts DEF Deletes
  <2>3. Gone(E, ack, row.doc)
    BY <1>0, <2>2, RefusedWithin, GoneWithin
  <2>4. Gone(E, ack, cp.state)
    <3>1. CASE control # {}
      <4>1. cp.state = v
        BY <1>0, <2>1, <3>1 DEF Deletes, Committing
      <4> QED BY <2>2, <4>1
    <3>2. CASE control = {}
      <4>1. Overlays(E, ack + 1, n, row.doc, cp.state)
        BY <1>0, <2>1, <3>2 DEF IInv, Safe, MergeOk
      <4>2. (ack + 1) - 1 = ack /\ ack + 1 \in Int
        BY <2>2
      <4>3. Gone(E, n, cp.state)
        BY <2>2, <2>3, <4>1, <4>2, GoneOverlays
      <4> QED BY <2>2, <4>3, GoneEarlier
    <3> QED BY <3>1, <3>2
  <2> QED BY <1>0, <2>1, <2>2, <2>3, <2>4 DEF Deletes, Committing
<1> QED BY <1>1, <1>2

LEMMA AdoptDeletes ==
    ASSUME IInv, Deletes, Adopt
    PROVE  Deletes'
<1>0. sync.stage = "polled" /\ view' = view /\ UNCHANGED <<log, edited>>
  BY DEF Adopt
<1>1. CASE sync' = Idle /\ disk' = disk
  BY <1>0, <1>1, JournalFrame, DeletesKept, QuietTyped DEF Committing
<1>2. CASE ~ (sync' = Idle /\ disk' = disk)
  <2> PICK E, row : E = AllEdits /\ row = sync.row
    OBVIOUS
  <2>1. /\ Base'.ackSeq = disk.seq /\ Base'.state = row.doc /\ Base.ackSeq = disk.seq
        /\ Base.revision <= row.revision /\ disk'.cp.state = row.doc /\ AllEdits' = E
        /\ sync'.stage = "publish"
    BY <1>2, AdoptEffect
  <2>2. Edits(E) /\ DeletesLast(E) /\ Gone(E, disk.seq, Base.state) /\ Gone(E, disk.seq, view)
    BY <1>0, <2>1, StateFacts DEF Deletes
  <2>3. Gone(E, disk.seq, row.doc)
    BY <1>0, <2>1, <2>2, PolledWithin, GoneWithin
  <2> QED BY <1>0, <2>1, <2>2, <2>3 DEF Deletes, Committing
<1> QED BY <1>1, <1>2

LEMMA EditDeletes ==
    ASSUME IInv, Deletes, NEW c \in Records, NEW kind \in Kinds, Edit(c, kind),
           \/ kind = "insert" /\ \A x \in AllEdits : x.record # c
           \/ kind # "insert" /\ view[c] # Absent
    PROVE  Deletes'
<1>0. UNCHANGED <<disk, sync>> /\ sync.stage # "dead"
  BY DEF Edit
<1>1. PICK e \in EditSet :
              /\ e.n = edited + 1 /\ e.record = c /\ log' = Append(log, e) /\ view' = Apply(view, e)
              /\ edited' = edited + 1
  BY EditMade
<1> PICK E, F, n, v, ack : E = AllEdits /\ F = E \cup {e} /\ n = edited /\ v = view /\ ack = Base.ackSeq
  OBVIOUS
<1>2. AllEdits' = F
  BY <1>0, <1>1, EditedEdits
<1>3. /\ Edits(E) /\ n \in Nat /\ ack \in Nat /\ ack <= n /\ v \in Documents
      /\ \A x \in E : x.n \in Nat /\ x.n <= n
  BY StateFacts, EditsFacts
<1>4. Gone(E, n, v) /\ DeletesLast(E) /\ Gone(E, ack, v)
  BY <1>0, ViewGone DEF Deletes
<1>5. ASSUME NEW x \in E, x.kind = "delete", x.record = c PROVE FALSE
  <2>1. v[c] = Absent
    BY <1>3, <1>4, <1>5 DEF Gone
  <2> QED BY <1>5, <2>1
<1>6. DeletesLast(F)
  <2> SUFFICES ASSUME NEW d \in F, NEW x \in F, d.kind = "delete", x.record = d.record
               PROVE  x.n <= d.n
    BY DEF DeletesLast
  <2>1. CASE d \in E /\ x \in E
    BY <1>4, <2>1 DEF DeletesLast
  <2>2. CASE d = e
    BY <1>1, <1>3, <2>2
  <2>3. CASE d \in E /\ x = e
    BY <1>1, <1>5, <2>3
  <2> QED BY <2>1, <2>2, <2>3
<1>7. \A doc : Gone(E, ack, doc) => Gone(F, ack, doc)
  BY <1>1, <1>3 DEF Gone
<1>8. Gone(E, ack, Apply(v, e))
  <2> SUFFICES ASSUME NEW x \in E, x.kind = "delete", x.n <= ack PROVE Apply(v, e)[x.record] = Absent
    BY DEF Gone
  <2>1. x.record # c /\ x.record \in Records
    BY <1>3, <1>5, EditTyped DEF Edits
  <2> QED BY <1>1, <1>3, <1>4, <2>1, ApplyRow DEF Gone
<1>9. Base' = Base
  BY <1>0 DEF Base
<1> QED BY <1>0, <1>1, <1>2, <1>6, <1>7, <1>8, <1>9 DEF Deletes, Committing

LEMMA RestartDeletes ==
    ASSUME IInv, Deletes, Restart
    PROVE  Deletes'
<1>0. sync.stage # "dead" /\ UNCHANGED <<disk, log, edited>>
  BY DEF Restart
<1> PICK E, n, at, ack, cp : E = AllEdits /\ n = edited /\ at = disk.cp.seq /\ ack = Base.ackSeq
                             /\ cp = disk.cp.state
  OBVIOUS
<1>1. AllEdits' = E /\ Base' = Base
  BY <1>0, JournalFrame DEF Base
<1>2. CASE Recovered.ok
  <2> PICK v : v = Recovered.doc
    OBVIOUS
  <2>1. view' = v /\ sync' = Idle
    BY <1>2 DEF Restart
  <2>2. /\ Overlays(E, at + 1, n, cp, v) /\ Edits(E) /\ DeletesLast(E) /\ Gone(E, at, cp)
        /\ at \in Nat /\ n \in Nat /\ ack \in Nat /\ ack <= at /\ at <= n
    BY StateFacts, RecoveredOverlays, CheckpointGone DEF Deletes
  <2>3. at + 1 \in Int /\ (at + 1) - 1 = at /\ ack <= n
    BY <2>2
  <2>4. Gone(E, n, v)
    BY <2>2, <2>3, GoneOverlays
  <2>5. Gone(E, ack, v)
    BY <2>2, <2>3, <2>4, GoneEarlier
  <2> QED BY <1>0, <1>1, <2>1, <2>5, QuietTyped DEF Deletes, Committing
<1>3. CASE ~Recovered.ok
  <2>1. sync'.stage = "dead"
    BY <1>3 DEF Restart
  <2> QED BY <1>0, <1>1, <2>1 DEF Deletes, Committing
<1> QED BY <1>2, <1>3

LEMMA PublishedDeletes ==
    ASSUME IInv, Deletes, sync.stage \in Unpublished, UNCHANGED <<disk, log, edited>>,
           sync'.stage \notin Committing, view' \in {view, disk.cp.state}
    PROVE  Deletes'
<1>1. AllEdits' = AllEdits /\ Base' = Base
  BY JournalFrame DEF Base
<1>2. Gone(AllEdits, Base.ackSeq, view')
  BY DEF Deletes, Unpublished
<1> QED BY <1>1, <1>2 DEF Deletes

LEMMA RecoveryDeletes ==
    ASSUME IInv, Deletes, UNCHANGED <<log, view, edited>>, disk'.base = disk.base,
           disk'.journal = disk.journal, disk'.seq = disk.seq,
           sync'.stage \notin Committing, sync.stage # "dead",
           NEW doc, NEW n \in Nat, disk'.cp.state = doc, Base.ackSeq <= n,
           Overlays(AllEdits, Base.ackSeq + 1, n, Base.state, doc)
    PROVE  Deletes'
<1> PICK E, ack, base, from : E = AllEdits /\ ack = Base.ackSeq /\ base = Base.state /\ from = ack + 1
  OBVIOUS
<1>1. AllEdits' = E /\ Base' = Base
  BY JournalFrame DEF Base
<1>2. /\ Edits(E) /\ DeletesLast(E) /\ ack \in Nat /\ from - 1 = ack /\ from \in Int
      /\ Gone(E, ack, base) /\ Overlays(E, from, n, base, doc)
  BY StateFacts DEF Deletes
<1>3. Gone(E, n, doc)
  BY <1>2, GoneOverlays
<1>4. Gone(E, ack, doc)
  BY <1>2, <1>3, GoneEarlier
<1> QED BY <1>1, <1>4 DEF Deletes

LEMMA RepairStage ==
    ASSUME NEW c, NEW attempt
    PROVE  Repair(c, attempt).stage \in {"recover", "fence"} /\ Repair(c, attempt).cand = c
BY DEF Repair

\* What the steps of the round leave alone that write no checkpoint.
LEMMA RoundKeeps ==
    ASSUME IInv,
           \/ ReadRemote \/ Timeout \/ Poll \/ Fail \/ FenceOff \/ Upload \/ Materialize \/ Commit
           \/ (\E r \in requests : Serve(r) \/ ServeAndReply(r))
           \/ (\E c \in Records : RemoteSave(c))
           \/ UNCHANGED vars
    PROVE  /\ AllEdits' = AllEdits /\ disk'.base = disk.base /\ disk'.cp = disk.cp
           /\ view' = view /\ edited' = edited /\ history' = history
           /\ \/ sync' = sync
              \/ /\ sync.stage # "dead"
                 /\ sync'.stage \in {"rejected", "rpc", "ack", "failed", "rebase", "polled", "idle"}
<1>0. disk \in HeadSet
  BY DEF IInv, Typed
<1>1. ASSUME ReadRemote \/ Timeout \/ Poll
      PROVE  /\ UNCHANGED <<disk, log, view, edited, history>> /\ sync.stage # "dead"
             /\ sync'.stage \in {"rebase", "failed", "polled"}
  BY <1>1 DEF ReadRemote, Timeout, Poll, Failed, Idle
<1>2. ASSUME Fail \/ FenceOff
      PROVE  /\ UNCHANGED <<log, view, edited, history>> /\ sync.stage # "dead" /\ sync'.stage = "idle"
             /\ disk'.journal = disk.journal /\ disk'.seq = disk.seq
             /\ disk'.base = disk.base /\ disk'.cp = disk.cp
  BY <1>0, <1>2 DEF Fail, FenceOff, SetControl, Idle, Failed, HeadSet
<1>3. ASSUME Upload \/ Materialize
      PROVE  /\ UNCHANGED <<log, view, edited, history>> /\ sync.stage # "dead"
             /\ sync'.stage \in {"rpc", "failed"}
             /\ disk'.journal = disk.journal /\ disk'.seq = disk.seq
             /\ disk'.base = disk.base /\ disk'.cp = disk.cp
  <2>1. CASE Upload
    <3>1. PICK f : disk' = BeginFlight(disk, f) /\ Send(f, 1)
      BY <2>1 DEF Upload
    <3> QED BY <1>0, <2>1, <3>1 DEF Upload, Send, BeginFlight, Idle, HeadSet
  <2>2. CASE Materialize
    <3>1. \/ disk' = disk /\ sync' = Failed
          \/ \E f, attempt : disk' = BeginFlight(disk, f) /\ (Send(f, attempt) \/ sync' = Failed)
      BY <2>2 DEF Materialize
    <3> QED BY <1>0, <2>2, <3>1 DEF Materialize, Send, BeginFlight, Failed, HeadSet
  <2> QED BY <1>3, <2>1, <2>2
<1>4. CASE Commit
  <2>1. PICK op \in OpSet : disk' = [disk EXCEPT !.journal = @ \cup {op}, !.seq = op.seq]
    BY <1>4, CommittedEdit
  <2>2. disk'.base = disk.base /\ disk'.cp = disk.cp
    BY <1>0, <2>1 DEF HeadSet
  <2> QED BY <1>4, <2>2, CommitEdits DEF Commit
<1>5. ASSUME NEW r \in requests, Serve(r) \/ ServeAndReply(r)
      PROVE  /\ UNCHANGED <<disk, log, view, edited, history>>
             /\ \/ sync' = sync
                \/ sync.stage # "dead" /\ sync'.stage \in {"rejected", "ack", "failed"}
  <2>1. CASE Serve(r)
    BY <2>1 DEF Serve
  <2>2. CASE ServeAndReply(r)
    <3>1. sync.stage = "rpc" /\ sync \in Calling
      BY <2>2, RoundTyped DEF ServeAndReply
    <3>2. [sync EXCEPT !.stage = "rejected"].stage = "rejected"
      BY <3>1 DEF Calling
    <3> QED BY <2>2, <3>1, <3>2 DEF ServeAndReply, Failed
  <2> QED BY <1>5, <2>1, <2>2
<1>6. ASSUME (\E c \in Records : RemoteSave(c)) \/ UNCHANGED vars
      PROVE  UNCHANGED <<disk, log, view, edited, history, sync>>
  BY <1>6 DEF RemoteSave, vars
<1>7. CASE ReadRemote \/ Timeout \/ Poll
  BY <1>1, <1>7, JournalFrame
<1>8. CASE Fail \/ FenceOff
  BY <1>2, <1>8, JournalFrame
<1>9. CASE Upload \/ Materialize
  BY <1>3, <1>9, JournalFrame
<1>10. CASE \E r \in requests : Serve(r) \/ ServeAndReply(r)
  BY <1>5, <1>10, JournalFrame
<1>11. CASE (\E c \in Records : RemoteSave(c)) \/ UNCHANGED vars
  BY <1>6, <1>11, JournalFrame
<1> QED BY <1>4, <1>7, <1>8, <1>9, <1>10, <1>11

LEMMA MergedDeletes ==
    ASSUME IInv, Deletes, Ack \/ Rebase
    PROVE  Deletes'
<1>0. UNCHANGED <<disk, log, view, edited>> /\ sync.stage \in {"ack", "rebase"}
  BY DEF Ack, Rebase
<1>1. AllEdits' = AllEdits
  BY <1>0, JournalFrame
<1>2. CASE Ack
  <2> PICK now : now = Reconciled(sync.flight, sync.row.doc)
    OBVIOUS
  <2>1. /\ sync'.stage = "commitAck" /\ sync'.prev = view
        /\ sync'.cp = Checkpoint(now.conflict, now.doc) /\ sync'.control = ControlFor(now.conflict, sync.row)
    BY <1>2 DEF Ack
  <2>2. sync'.control # {} => sync'.cp.state = sync'.prev
    BY <2>1 DEF Checkpoint, ControlFor
  <2> QED BY <1>0, <1>1, <2>2, DeletesKept
<1>3. CASE Rebase
  <2>1. PICK conflict, doc : /\ sync'.stage = "commitRebase" /\ sync'.prev = view
                             /\ sync'.cp = Checkpoint(conflict, doc)
                             /\ sync'.control = ControlFor(conflict, sync.row)
    BY <1>3, Zenon DEF Rebase
  <2>2. sync'.control # {} => sync'.cp.state = sync'.prev
    BY <2>1 DEF Checkpoint, ControlFor
  <2> QED BY <1>0, <1>1, <2>2, DeletesKept
<1> QED BY <1>2, <1>3

LEMMA RecoverDeletes ==
    ASSUME IInv, Deletes, RecoverRead \/ RecoverCommit
    PROVE  Deletes'
<1>0. UNCHANGED <<log, view, edited>> /\ sync.stage \in {"recover", "recoverCommit"}
  BY DEF RecoverRead, RecoverCommit
<1>1. CASE RecoverRead
  <2>1. disk' = disk /\ sync'.stage \in {"recoverCommit", "fence"}
    BY <1>1 DEF RecoverRead
  <2> QED BY <1>0, <2>1, JournalFrame, DeletesKept DEF Committing
<1>2. CASE RecoverCommit
  <2> PICK cp, ack : cp = sync.cp /\ ack = Base.ackSeq
    OBVIOUS
  <2>1. sync.stage = "recoverCommit" /\ sync \in Recovering /\ cp \in Points
    BY <1>2, RoundTyped DEF RecoverCommit, Recovering
  <2>2. CASE disk' = disk /\ sync' = Repair(sync.cand, sync.attempt + 1)
    <3>1. sync'.stage \in {"recover", "fence"}
      BY <2>2, RepairStage
    <3> QED BY <1>0, <2>2, <3>1, JournalFrame, DeletesKept DEF Committing
  <2>3. CASE disk' = CommitCloudRecovery(disk, cp) /\ sync' = [sync EXCEPT !.stage = "recoverPublish"]
    <3>1. disk \in HeadSet
      BY DEF IInv, Typed
    <3>2. /\ disk'.journal = disk.journal /\ disk'.seq = disk.seq /\ disk'.base = disk.base
          /\ disk'.cp = cp
      BY <2>3, <3>1 DEF CommitCloudRecovery, HeadSet
    <3>3. sync'.stage = "recoverPublish"
      BY <2>1, <2>3 DEF Recovering
    <3>4. /\ ack <= sync.cand.cp.seq /\ sync.cand.cp.seq <= cp.seq
          /\ Overlays(AllEdits, ack + 1, cp.seq, Base.state, cp.state)
      BY <2>1 DEF IInv, Safe, CandOk, Unpublished
    <3>5. cp.seq \in Nat /\ sync.cand.cp.seq \in Nat /\ ack \in Nat
      BY <2>1, CandFacts, StateFacts, Bounds DEF Points, Unpublished
    <3>6. ack <= cp.seq
      BY <3>4, <3>5
    <3> QED BY <1>0, <3>2, <3>3, <3>4, <3>5, <3>6, RecoveryDeletes DEF Committing
  <2> QED BY <1>2, <2>2, <2>3 DEF RecoverCommit
<1> QED BY <1>1, <1>2

LEMMA ApproveFacts ==
    ASSUME IInv, Approve
    PROVE  /\ disk'.journal = disk.journal /\ disk'.seq = disk.seq /\ disk'.base = disk.base
           /\ disk'.flight = {} /\ ~InConflict' /\ disk'.cp.state = view
           /\ edited = disk.seq /\ Overlays(AllEdits, Base.ackSeq + 1, edited, Base.state, view)
<1>0. /\ log = <<>> /\ Replay(Base.state, EditsAfter(Base.ackSeq)) = [ok |-> TRUE, doc |-> view]
  BY DEF Approve
<1> PICK cp : cp = [seq |-> disk.seq, state |-> view]
  OBVIOUS
<1>1. CommitCloudRecoveryOk(disk, Epoch, Device, cp, "concurrent-ack") /\ disk' = CommitCloudRecovery(disk, cp)
  BY DEF Approve
<1>2. disk \in HeadSet
  BY DEF IInv, Typed
<1>3. /\ disk'.journal = disk.journal /\ disk'.seq = disk.seq /\ disk'.base = disk.base
      /\ disk'.flight = {} /\ disk'.control = {} /\ disk'.cp = cp
  BY <1>1, <1>2 DEF CommitCloudRecoveryOk, CommitCloudRecovery, HeadSet
<1>4. edited = disk.seq
  <2>1. Len(log) = 0
    BY <1>0
  <2> QED BY <2>1, StateFacts, EditsFacts
<1> PICK ack, base, n : ack = Base.ackSeq /\ base = Base.state /\ n = disk.seq
  OBVIOUS
<1>5. Overlays(AllEdits, ack + 1, n, base, view)
  <2>1. Replay(base, EditsAfter(ack)).doc = view /\ ack \in Nat /\ ack <= n /\ base \in Documents
    BY <1>0, StateFacts
  <2> QED BY <2>1, StateFacts, CommittedOverlays
<1> QED BY <1>3, <1>4, <1>5 DEF InConflict

LEMMA DeletesStep ==
    ASSUME IInv, Deletes, [Next]_vars
    PROVE  Deletes'
<1>1. CASE \/ ReadRemote \/ Timeout \/ Poll \/ Fail \/ FenceOff \/ Upload \/ Materialize \/ Commit
           \/ (\E r \in requests : Serve(r) \/ ServeAndReply(r))
           \/ (\E c \in Records : RemoteSave(c))
           \/ UNCHANGED vars
  <2>1. /\ AllEdits' = AllEdits /\ disk'.base = disk.base /\ disk'.cp = disk.cp /\ view' = view
        /\ \/ sync' = sync
           \/ /\ sync.stage # "dead"
              /\ sync'.stage \in {"rejected", "rpc", "ack", "failed", "rebase", "polled", "idle"}
    BY <1>1, RoundKeeps
  <2> QED BY <2>1 DEF Deletes, Base, Committing
<1>2. ASSUME NEW c \in Records, Insert(c) PROVE Deletes'
  BY <1>2, EditDeletes DEF Insert, Kinds
<1>3. ASSUME NEW c \in Records, Replace(c) \/ Delete(c) PROVE Deletes'
  BY <1>3, EditDeletes DEF Replace, Delete, Kinds
<1>4. CASE Ack \/ Rebase
  BY <1>4, MergedDeletes
<1>5. CASE CommitAck
  BY <1>5, AckDeletes
<1>6. CASE CommitRebase
  BY <1>6, RebaseDeletes
<1>7. CASE Publish
  <2>1. UNCHANGED <<disk, log, edited>> /\ sync.stage \in Unpublished
    BY <1>7 DEF Publish, Unpublished
  <2>2. sync.cand.next.stage \in {"idle", "materialize"} /\ CandOk
    BY <2>1, CandFacts
  <2>3. disk.cp = sync.cand.cp
    BY <1>7, <2>1, <2>2 DEF Publish, CandOk
  <2>4. sync'.stage \notin Committing /\ view' \in {view, disk.cp.state}
    BY <1>7, <2>2, <2>3, RepairStage DEF Publish, Committing
  <2> QED BY <2>1, <2>4, PublishedDeletes
<1>8. CASE RecoverPublish
  <2>1. UNCHANGED <<disk, log, edited>> /\ sync.stage \in Unpublished
    BY <1>8 DEF RecoverPublish, Unpublished
  <2>2. sync.cand.next.stage \in {"idle", "materialize"} /\ CandOk
    BY <2>1, CandFacts
  <2>3. disk.cp = sync.cp
    BY <1>8, <2>1, <2>2 DEF RecoverPublish, CandOk
  <2>4. sync'.stage \notin Committing /\ view' \in {view, disk.cp.state}
    BY <1>8, <2>2, <2>3, RepairStage DEF RecoverPublish, Committing
  <2> QED BY <2>1, <2>4, PublishedDeletes
<1>9. CASE RecoverRead \/ RecoverCommit
  BY <1>9, RecoverDeletes
<1>10. CASE Adopt
  BY <1>10, AdoptDeletes
<1>11. CASE Approve
  <2>1. UNCHANGED <<log, view, edited, sync>> /\ sync.stage = "idle"
    BY <1>11, QuietTyped DEF Approve
  <2> QED BY <1>11, <2>1, ApproveFacts, StateFacts, RecoveryDeletes DEF Committing
<1>12. CASE Restart
  BY <1>12, RestartDeletes
<1> QED BY <1>1, <1>2, <1>3, <1>4, <1>5, <1>6, <1>7, <1>8, <1>9, <1>10, <1>11, <1>12 DEF Next

-----------------------------------------------------------------------------
(* What every user saw *)

\* Edits whose user does not answer for the row they were made on.
Knowing == history.approved \cup history.torn

Seen(from, base, doc) == Sees(AllEdits, Knowing, from, base, doc)

\* A save changes only what its operations' users saw.
SavedSeen ==
    \A i \in DOMAIN server.versions : \A r \in server.versions[i].by : \A c \in Records :
        server.versions[i].doc[c] # server.versions[i - 1].doc[c] =>
            \E e \in AllEdits :
                /\ First(AllEdits, e, r.flight.startSeq) /\ e.record = c /\ e.n <= r.flight.endSeq
                /\ Known(Knowing, e, server.versions[i - 1].doc[c])

\* What goes out next, and the edits after it.
NextSeen(next, doc) ==
    next.stage = "materialize" =>
        /\ Seen(Base.ackSeq + 1, Base.state, next.snapshot)
        /\ Seen(next.through + 1, next.snapshot, doc)

FlightSeen ==
    \A f \in disk.flight :
        /\ Seen(f.startSeq, Base.state, f.snapshot)
        /\ Shown => Seen(f.endSeq + 1, f.snapshot, view)

HeadSeen ==
    /\ ~InConflict => Seen(Base.ackSeq + 1, Base.state, disk.cp.state)
    /\ Shown => Seen(Base.ackSeq + 1, Base.state, view)

MergeSeen ==
    /\ sync.stage = "commitAck" /\ sync.control = {} =>
          Seen(sync.flight.endSeq + 1, sync.row.doc, sync.cp.state)
    /\ sync.stage = "commitRebase" /\ sync.control = {} =>
          /\ Seen(Base.ackSeq + 1, sync.row.doc, sync.next.snapshot)
          /\ Seen(sync.next.through + 1, sync.next.snapshot, sync.cp.state)

CandSeen ==
    LET c == sync.cand
    IN  sync.stage \in Unpublished =>
            /\ Seen(Base.ackSeq + 1, Base.state, c.cp.state) /\ Seen(c.cp.seq + 1, c.prev, view)
            /\ NextSeen(c.next, c.cp.state)
            /\ c.next.stage = "materialize" => c.next.through <= c.cp.seq
            /\ sync.stage \in {"recoverCommit", "recoverPublish"} =>
                  Seen(Base.ackSeq + 1, Base.state, sync.cp.state) /\ NextSeen(c.next, sync.cp.state)

NextShown == sync.stage = "materialize" => NextSeen(sync, view)

HistoryTyped == history = [approved |-> history.approved, torn |-> history.torn]

SeenOk ==
    /\ HistoryTyped /\ SavedSeen /\ FlightSeen /\ HeadSeen /\ MergeSeen /\ CandSeen /\ NextShown

\* Edits are only added, after all others, and so are the approved and the torn.
Grown ==
    /\ AllEdits \subseteq AllEdits' /\ \A x \in AllEdits' \ AllEdits : \A y \in AllEdits : y.n <= x.n
    /\ Knowing \subseteq Knowing'

LEMMA SeenGrown ==
    ASSUME Grown
    PROVE  /\ \A from, base, doc : Seen(from, base, doc) => Seen(from, base, doc)'
           /\ \A e, from : First(AllEdits, e, from) => First(AllEdits, e, from)'
           /\ \A e, row : Known(Knowing, e, row) => Known(Knowing, e, row)'
<1> PICK E, F, K, L : E = AllEdits /\ F = AllEdits' /\ K = Knowing /\ L = Knowing'
  OBVIOUS
<1>1. E \subseteq F /\ (\A x \in F \ E : \A y \in E : y.n <= x.n) /\ K \subseteq L
  BY DEF Grown
<1>2. ASSUME NEW from, NEW base, NEW doc, Sees(E, K, from, base, doc)
      PROVE  Sees(F, L, from, base, doc)
  BY <1>1, <1>2, SeesGrows
<1>3. ASSUME NEW e, NEW from, First(E, e, from)
      PROVE  First(F, e, from)
  BY <1>1, <1>3, GrowFirst
<1>4. \A e, row : Known(K, e, row) => Known(L, e, row)
  BY <1>1 DEF Known
<1>5. \A from, base, doc : Seen(from, base, doc) => Seen(from, base, doc)'
  BY <1>2 DEF Seen
<1>6. \A e, from : First(AllEdits, e, from) => First(AllEdits, e, from)'
  BY <1>3 DEF First
<1>7. \A e, row : Known(Knowing, e, row) => Known(Knowing, e, row)'
  BY <1>4 DEF Known
<1> QED BY <1>5, <1>6, <1>7

LEMMA SameGrown ==
    ASSUME AllEdits' = AllEdits, history' = history
    PROVE  Grown /\ (HistoryTyped => HistoryTyped')
BY DEF Grown, Knowing, HistoryTyped

LEMMA SavedKept ==
    ASSUME Grown, SavedSeen, server'.versions = server.versions
    PROVE  SavedSeen'
<1> SUFFICES ASSUME NEW i \in DOMAIN server.versions, NEW r \in server.versions[i].by, NEW c \in Records,
                    server.versions[i].doc[c] # server.versions[i - 1].doc[c]
             PROVE  \E e \in AllEdits' :
                       /\ First(AllEdits, e, r.flight.startSeq)' /\ e.record = c /\ e.n <= r.flight.endSeq
                       /\ Known(Knowing, e, server.versions[i - 1].doc[c])'
  BY DEF SavedSeen
<1>1. PICK e \in AllEdits :
              /\ First(AllEdits, e, r.flight.startSeq) /\ e.record = c /\ e.n <= r.flight.endSeq
              /\ Known(Knowing, e, server.versions[i - 1].doc[c])
  BY DEF SavedSeen
<1> PICK row : row = server.versions[i - 1].doc[c]
  OBVIOUS
<1> PICK from : from = r.flight.startSeq
  OBVIOUS
<1>2. First(AllEdits', e, from) /\ Known(Knowing', e, row)
  BY <1>1, SeenGrown
<1>3. e \in AllEdits'
  BY <1>1 DEF Grown
<1> QED BY <1>1, <1>2, <1>3

LEMMA NextSeenKept ==
    ASSUME Grown, disk'.base = disk.base
    PROVE  /\ Base' = Base
           /\ \A next, doc : NextSeen(next, doc) => NextSeen(next, doc)'
<1>1. Base' = Base
  BY DEF Base
<1> QED BY <1>1, SeenGrown DEF NextSeen

\* A step that leaves base, checkpoint and screen.
LEMMA SeenFrame ==
    ASSUME SeenOk, Grown, HistoryTyped', disk'.base = disk.base, disk'.cp = disk.cp, view' = view,
           disk'.flight \subseteq disk.flight, Shown' => Shown, InConflict => InConflict',
           SavedSeen', MergeSeen', CandSeen', NextShown'
    PROVE  SeenOk'
<1>1. Base' = Base
  BY DEF Base
<1> PICK ack, base, cp, v : ack = Base.ackSeq /\ base = Base.state /\ cp = disk.cp.state /\ v = view
  OBVIOUS
<1>2. \A from, a, b : Seen(from, a, b) => Seen(from, a, b)'
  BY SeenGrown
<1>3. HeadSeen'
  <2>1. /\ ~InConflict => Seen(ack + 1, base, cp)
        /\ Shown => Seen(ack + 1, base, v)
    BY DEF SeenOk, HeadSeen
  <2> QED BY <1>1, <1>2, <2>1 DEF HeadSeen
<1>4. FlightSeen'
  <2> SUFFICES ASSUME NEW f \in disk'.flight
               PROVE  Seen(f.startSeq, base, f.snapshot)' /\ (Shown' => Seen(f.endSeq + 1, f.snapshot, v)')
    BY <1>1 DEF FlightSeen
  <2>1. f \in disk.flight
    OBVIOUS
  <2>2. Seen(f.startSeq, base, f.snapshot) /\ (Shown => Seen(f.endSeq + 1, f.snapshot, v))
    BY <2>1 DEF SeenOk, FlightSeen
  <2> QED BY <1>2, <2>2
<1> QED BY <1>3, <1>4 DEF SeenOk

\* A step that also leaves where the round is.
LEMMA SeenHeld ==
    ASSUME SeenOk, Grown, HistoryTyped', disk'.base = disk.base, disk'.cp = disk.cp, view' = view,
           disk'.flight = disk.flight, disk'.control = disk.control, sync' = sync, SavedSeen'
    PROVE  SeenOk'
<1>1. Base' = Base /\ InConflict' = InConflict /\ Shown' = Shown
  BY DEF Base, InConflict, Shown
<1>2. \A next, doc : NextSeen(next, doc) => NextSeen(next, doc)'
  BY NextSeenKept
<1>3. \A from, a, b : Seen(from, a, b) => Seen(from, a, b)'
  BY SeenGrown
<1> PICK ack, base, s, v, c : ack = Base.ackSeq /\ base = Base.state /\ s = sync /\ v = view /\ c = s.cand
  OBVIOUS
<1>4. MergeSeen'
  <2>1. /\ s.stage = "commitAck" /\ s.control = {} => Seen(s.flight.endSeq + 1, s.row.doc, s.cp.state)
        /\ s.stage = "commitRebase" /\ s.control = {} =>
              /\ Seen(ack + 1, s.row.doc, s.next.snapshot)
              /\ Seen(s.next.through + 1, s.next.snapshot, s.cp.state)
    BY DEF SeenOk, MergeSeen
  <2> QED BY <1>1, <1>3, <2>1 DEF MergeSeen
<1>5. CandSeen'
  <2>1. s.stage \in Unpublished =>
            /\ Seen(ack + 1, base, c.cp.state) /\ Seen(c.cp.seq + 1, c.prev, v)
            /\ NextSeen(c.next, c.cp.state)
            /\ c.next.stage = "materialize" => c.next.through <= c.cp.seq
            /\ s.stage \in {"recoverCommit", "recoverPublish"} =>
                  Seen(ack + 1, base, s.cp.state) /\ NextSeen(c.next, s.cp.state)
    BY DEF SeenOk, CandSeen
  <2> QED BY <1>1, <1>2, <1>3, <2>1 DEF CandSeen
<1>6. NextShown'
  <2>1. s.stage = "materialize" => NextSeen(s, v)
    BY DEF SeenOk, NextShown
  <2> QED BY <1>2, <2>1 DEF NextShown
<1> QED BY <1>1, <1>4, <1>5, <1>6, SeenFrame

QuietStages == {"idle", "failed", "dead", "rpc", "rejected", "ack", "rebase", "polled"}

LEMMA QuietSeen ==
    sync'.stage \in QuietStages => MergeSeen' /\ CandSeen' /\ NextShown'
BY DEF QuietStages, MergeSeen, CandSeen, NextShown, Unpublished

\* A save of this device.
LEMMA SaveSeen ==
    ASSUME IInv, SeenOk, NEW r \in requests, Saved(r), server' = Save(r),
           UNCHANGED <<requests, disk, log, view, edited, history>>
    PROVE  SavedSeen'
<1> PICK n, f, old, v : /\ n = Revision /\ f = r.flight /\ old = Document
                        /\ v = [doc |-> f.snapshot, by |-> {r}]
  OBVIOUS
<1>1. /\ Typed /\ n \in Nat /\ n >= 1 /\ n \in 1..n /\ old = server.versions[n].doc
      /\ DOMAIN server.versions = 1..n
  BY StateFacts, ServerTyped DEF Document
<1>2. /\ disk.flight = {f} /\ HasVersion(n, Base.state) /\ Base.revision = n
  BY SavedFlight
<1>3. f \in FlightSet /\ f.snapshot \in Documents /\ r \in RequestSet
  BY LandedFacts DEF IInv, Typed
<1>4. v \in VersionSet
  BY <1>3 DEF VersionSet
<1>5. server'.versions = Append(server.versions, v)
  BY DEF Save
<1>6. /\ DOMAIN server'.versions = 1..(n + 1)
      /\ \A i \in 1..n : server'.versions[i] = server.versions[i]
      /\ server'.versions[n + 1] = v
  BY <1>1, <1>4, <1>5, Appended
<1>7. AllEdits' = AllEdits
  BY JournalFrame
<1>8. Grown
  BY <1>7, SameGrown
<1>9. Base.state = old
  BY <1>1, <1>2 DEF HasVersion
<1>10. SavedSeen /\ LandedInPlace /\ \A q \in requests : RequestOk(q)
  BY StateFacts DEF SeenOk, ServerOk, IInv, Safe
<1> SUFFICES ASSUME NEW i \in 1..(n + 1), NEW q \in server'.versions[i].by, NEW c \in Records,
                    server'.versions[i].doc[c] # server'.versions[i - 1].doc[c]
             PROVE  \E e \in AllEdits :
                       /\ First(AllEdits, e, q.flight.startSeq) /\ e.record = c /\ e.n <= q.flight.endSeq
                       /\ Known(Knowing, e, server'.versions[i - 1].doc[c])
  BY <1>6, <1>7 DEF SavedSeen, Knowing, First, Known
<1>11. CASE i = n + 1
  <2>1. server'.versions[i - 1] = server.versions[n] /\ q = r /\ server'.versions[i].doc = f.snapshot
    BY <1>1, <1>6, <1>11
  <2>2. f.snapshot[c] # old[c] /\ server'.versions[i - 1].doc[c] = old[c]
    BY <1>1, <2>1
  <2>3. Seen(f.startSeq, old, f.snapshot)
    BY <1>2, <1>9 DEF SeenOk, FlightSeen
  <2>4. PICK e \in AllEdits : First(AllEdits, e, f.startSeq) /\ e.record = c /\ Known(Knowing, e, old[c])
    BY <2>2, <2>3 DEF Seen, Sees
  <2>5. /\ Overlays(AllEdits, f.startSeq, f.endSeq, old, f.snapshot) /\ Edits(AllEdits)
        /\ f.startSeq \in Nat /\ f.endSeq \in Nat
    BY <1>2, <1>9, FlightFacts, StateFacts
  <2>6. PICK x \in AllEdits : Last(AllEdits, x, f.startSeq, f.endSeq) /\ x.record = c
    BY <2>2, <2>5, OverlaysRow
  <2>7. x.n >= f.startSeq /\ x.n <= f.endSeq /\ x.n \in Nat /\ e.n \in Nat
    BY <2>5, <2>6, EditTyped DEF Last, Edits
  <2>8. e.n <= x.n
    BY <2>4, <2>6, <2>7 DEF First
  <2>9. e.n <= f.endSeq
    BY <2>5, <2>7, <2>8
  <2> QED BY <2>1, <2>2, <2>4, <2>9
<1>12. CASE i \in 1..n
  <2>1. server'.versions[i] = server.versions[i] /\ q \in server.versions[i].by
    BY <1>6, <1>12
  <2>2. q \in requests /\ q.flight.baseRevision = i - 1
    BY <1>1, <1>10, <1>12, <2>1 DEF LandedInPlace
  <2>3. q.flight.baseRevision >= 1
    BY <1>10, <2>2 DEF RequestOk
  <2>4. i - 1 \in 1..n
    BY <1>1, <1>12, <2>2, <2>3
  <2>5. server'.versions[i - 1] = server.versions[i - 1]
    BY <1>6, <2>4
  <2> QED BY <1>1, <1>10, <1>12, <2>1, <2>5 DEF SavedSeen
<1> QED BY <1>1, <1>11, <1>12

\* A save of another computer.
LEMMA RemoteSeen ==
    ASSUME IInv, SeenOk, NEW c \in Records, RemoteSave(c)
    PROVE  SavedSeen'
<1> PICK n : n = Revision
  OBVIOUS
<1>0. UNCHANGED <<requests, disk, log, view, edited, history>>
  BY DEF RemoteSave
<1>1. /\ Typed /\ n \in Nat /\ n >= 1 /\ DOMAIN server.versions = 1..n /\ server.versions \in Seq(VersionSet)
      /\ server = [versions |-> server.versions, operations |-> server.operations]
  BY StateFacts, ServerTyped
<1>2. PICK v : server'.versions = Append(server.versions, v) /\ v.by = {}
  <2>1. PICK row : server' = [server EXCEPT !.versions =
                        Append(@, [doc |-> [Document EXCEPT ![c] = row], by |-> {}])]
    BY DEF RemoteSave
  <2> PICK v : v = [doc |-> [Document EXCEPT ![c] = row], by |-> {}]
    OBVIOUS
  <2>2. server'.versions = Append(server.versions, v) /\ v.by = {}
    BY <1>1, <2>1
  <2> QED BY <2>2
<1>3. /\ DOMAIN server'.versions = 1..(n + 1)
      /\ \A i \in 1..n : server'.versions[i] = server.versions[i]
      /\ server'.versions[n + 1].by = {}
  BY <1>1, <1>2
<1>4. AllEdits' = AllEdits
  BY <1>0, JournalFrame
<1>5. SavedSeen /\ LandedInPlace /\ \A q \in requests : RequestOk(q)
  BY StateFacts DEF SeenOk, ServerOk, IInv, Safe
<1> SUFFICES ASSUME NEW i \in 1..(n + 1), NEW q \in server'.versions[i].by, NEW x \in Records,
                    server'.versions[i].doc[x] # server'.versions[i - 1].doc[x]
             PROVE  \E e \in AllEdits :
                       /\ First(AllEdits, e, q.flight.startSeq) /\ e.record = x /\ e.n <= q.flight.endSeq
                       /\ Known(Knowing, e, server'.versions[i - 1].doc[x])
  BY <1>0, <1>3, <1>4 DEF SavedSeen, Knowing, First, Known
<1>6. i \in 1..n /\ server'.versions[i] = server.versions[i] /\ q \in server.versions[i].by
  <2>1. i # n + 1
    BY <1>3
  <2>2. i \in 1..n
    BY <1>1, <2>1
  <2> QED BY <1>3, <2>2
<1>7. q \in requests /\ q.flight.baseRevision = i - 1
  BY <1>1, <1>5, <1>6 DEF LandedInPlace
<1>8. q.flight.baseRevision >= 1
  BY <1>5, <1>7 DEF RequestOk
<1>9. i - 1 \in 1..n
  BY <1>1, <1>6, <1>7, <1>8
<1>10. server'.versions[i - 1] = server.versions[i - 1]
  BY <1>3, <1>9
<1> QED BY <1>1, <1>5, <1>6, <1>10 DEF SavedSeen

\* The steps that only move the round, the journal or the server.
LEMMA QuietFacts ==
    ASSUME IInv,
           \/ ReadRemote \/ Timeout \/ Poll \/ Fail \/ FenceOff \/ Commit
           \/ (\E r \in requests : Serve(r) \/ ServeAndReply(r))
           \/ (\E c \in Records : RemoteSave(c))
           \/ UNCHANGED vars
    PROVE  /\ disk'.flight = disk.flight
           /\ \/ sync' = sync /\ disk'.control = disk.control
              \/ sync'.stage \in QuietStages /\ ~InConflict /\ (Shown \/ InConflict')
<1>0. disk \in HeadSet
  BY DEF IInv, Typed
<1>1. ASSUME sync.stage \in {"rpc", "rejected", "failed"} PROVE ~InConflict /\ Shown
  BY <1>1, RoundFree DEF Shown, Unpublished
<1>2. CASE ReadRemote \/ Timeout
  <2>1. disk' = disk /\ sync.stage \in {"rpc", "rejected"} /\ sync'.stage \in QuietStages
    BY <1>2 DEF ReadRemote, Timeout, Failed, QuietStages
  <2> QED BY <1>1, <2>1
<1>3. CASE Poll
  <2>1. disk' = disk /\ sync.stage = "idle" /\ sync'.stage \in QuietStages /\ ~InConflict
    BY <1>3 DEF Poll, Idle, QuietStages, InConflict
  <2> QED BY <2>1 DEF Shown, Unpublished
<1>4. CASE Fail
  <2>1. disk'.flight = disk.flight /\ sync.stage = "failed" /\ sync'.stage \in QuietStages
    BY <1>0, <1>4 DEF Fail, SetControl, Failed, Idle, QuietStages, HeadSet
  <2> QED BY <1>1, <2>1
<1>5. CASE FenceOff
  <2>1. PICK control \in Conflict(sync.cand.kind, sync.cand.base.revision) : disk' = SetControl(disk, control)
    BY <1>5 DEF FenceOff
  <2>2. control.conflict # {}
    <3> PICK k : k = [kind |-> sync.cand.kind, remoteRevision |-> sync.cand.base.revision]
      OBVIOUS
    <3>1. control.conflict = {k}
      BY <2>1 DEF Conflict
    <3> QED BY <3>1
  <2>3. disk'.flight = disk.flight /\ disk'.control = {control}
    BY <1>0, <2>1 DEF SetControl, HeadSet
  <2>4. InConflict'
    BY <2>2, <2>3 DEF InConflict
  <2>5. sync.stage = "fence" /\ sync'.stage \in QuietStages
    BY <1>5 DEF FenceOff, Idle, QuietStages
  <2> QED BY <2>3, <2>4, <2>5, RoundFree
<1>6. CASE Commit
  <2>1. PICK op \in OpSet : disk' = [disk EXCEPT !.journal = @ \cup {op}, !.seq = op.seq]
    BY <1>6, CommittedEdit
  <2>2. disk'.flight = disk.flight /\ disk'.control = disk.control
    BY <1>0, <2>1 DEF HeadSet
  <2> QED BY <1>6, <2>2 DEF Commit
<1>7. CASE \E r \in requests : Serve(r) \/ ServeAndReply(r)
  <2>1. PICK r \in requests : Serve(r) \/ ServeAndReply(r)
    BY <1>7
  <2>2. CASE Serve(r)
    BY <2>2 DEF Serve
  <2>3. CASE ServeAndReply(r)
    <3>1. sync.stage = "rpc" /\ sync \in Calling /\ disk' = disk
      BY <2>3, RoundTyped DEF ServeAndReply
    <3>2. [sync EXCEPT !.stage = "rejected"].stage = "rejected"
      BY <3>1 DEF Calling
    <3>3. sync'.stage \in QuietStages
      BY <2>3, <3>2 DEF ServeAndReply, Failed, QuietStages
    <3> QED BY <1>1, <3>1, <3>3
  <2> QED BY <2>1, <2>2, <2>3
<1>8. CASE (\E c \in Records : RemoteSave(c)) \/ UNCHANGED vars
  BY <1>8 DEF RemoteSave, vars
<1> QED BY <1>2, <1>3, <1>4, <1>5, <1>6, <1>7, <1>8

LEMMA QuietStep ==
    ASSUME IInv, SeenOk,
           \/ ReadRemote \/ Timeout \/ Poll \/ Fail \/ FenceOff \/ Commit
           \/ (\E r \in requests : Serve(r) \/ ServeAndReply(r))
           \/ (\E c \in Records : RemoteSave(c))
           \/ UNCHANGED vars
    PROVE  SeenOk'
<1>1. /\ AllEdits' = AllEdits /\ disk'.base = disk.base /\ disk'.cp = disk.cp /\ view' = view
      /\ history' = history
  BY RoundKeeps
<1>2. Grown /\ HistoryTyped'
  BY <1>1, SameGrown DEF SeenOk
<1>3. SavedSeen'
  <2>1. CASE ReadRemote \/ Timeout \/ Poll \/ Fail \/ FenceOff \/ Commit \/ UNCHANGED vars
    <3>1. server' = server
      BY <2>1 DEF ReadRemote, Timeout, Poll, Fail, FenceOff, Commit, vars
    <3> QED BY <1>2, <3>1, SavedKept DEF SeenOk
  <2>2. CASE \E r \in requests : Serve(r) \/ ServeAndReply(r)
    <3>1. PICK r \in requests : Serve(r) \/ ServeAndReply(r)
      BY <2>2
    <3>2. server' = Save(r) /\ UNCHANGED <<requests, disk, log, view, edited, history>>
      BY <3>1 DEF Serve, ServeAndReply
    <3>3. CASE Saved(r)
      BY <3>2, <3>3, SaveSeen
    <3>4. CASE ~Saved(r)
      <4>1. server'.versions = server.versions
        BY <3>2, <3>4 DEF Save
      <4> QED BY <1>2, <4>1, SavedKept DEF SeenOk
    <3> QED BY <3>3, <3>4
  <2>3. CASE \E c \in Records : RemoteSave(c)
    BY <2>3, RemoteSeen
  <2> QED BY <2>1, <2>2, <2>3
<1>4. disk'.flight = disk.flight
  BY QuietFacts
<1>5. CASE sync' = sync /\ disk'.control = disk.control
  BY <1>1, <1>2, <1>3, <1>4, <1>5, SeenHeld
<1>6. CASE sync'.stage \in QuietStages /\ ~InConflict /\ (Shown \/ InConflict')
  <2>1. Shown' => Shown
    BY <1>6 DEF Shown
  <2> QED BY <1>1, <1>2, <1>3, <1>4, <1>6, <2>1, QuietSeen, SeenFrame
<1> QED BY <1>5, <1>6, QuietFacts

\* A step that leaves the server and the edits and moves the round alone.
LEMMA MovedSeen ==
    ASSUME IInv, SeenOk, UNCHANGED <<server, log, view, edited, history>>,
           disk'.journal = disk.journal, disk'.seq = disk.seq
    PROVE  AllEdits' = AllEdits /\ Grown /\ HistoryTyped' /\ SavedSeen'
<1>1. AllEdits' = AllEdits
  BY JournalFrame
<1>2. Grown /\ HistoryTyped'
  BY <1>1, SameGrown DEF SeenOk
<1> QED BY <1>1, <1>2, SavedKept DEF SeenOk

LEMMA HeldSeen ==
    ASSUME IInv, SeenOk, UNCHANGED <<server, disk, log, view, edited, history>>, Shown' => Shown,
           MergeSeen', CandSeen', NextShown'
    PROVE  SeenOk'
<1>1. Grown /\ HistoryTyped' /\ SavedSeen'
  BY MovedSeen
<1>2. InConflict' = InConflict
  BY DEF InConflict
<1> QED BY <1>1, <1>2, SeenFrame

\* A flight goes out: what it sends and what follows it were seen.
LEMMA SentSeen ==
    ASSUME IInv, SeenOk, Shown, NEW f, disk' = BeginFlight(disk, f), sync'.stage \in QuietStages,
           UNCHANGED <<server, log, view, edited, history>>,
           Seen(f.startSeq, Base.state, f.snapshot), Seen(f.endSeq + 1, f.snapshot, view)
    PROVE  SeenOk'
<1>1. disk \in HeadSet
  BY DEF IInv, Typed
<1>2. /\ disk'.journal = disk.journal /\ disk'.seq = disk.seq /\ disk'.base = disk.base
      /\ disk'.cp = disk.cp /\ disk'.flight = {f}
  BY <1>1 DEF BeginFlight, HeadSet
<1>3. Grown /\ HistoryTyped' /\ SavedSeen'
  BY <1>2, MovedSeen
<1>4. Base' = Base
  BY <1>2 DEF Base
<1> PICK ack, base, cp, v, from, to, doc : /\ ack = Base.ackSeq /\ base = Base.state /\ cp = disk.cp.state
                                           /\ v = view /\ from = f.startSeq /\ to = f.endSeq + 1
                                           /\ doc = f.snapshot
  OBVIOUS
<1>5. /\ Seen(ack + 1, base, cp) /\ Seen(ack + 1, base, v)
      /\ Seen(from, base, doc) /\ Seen(to, doc, v)
  BY DEF SeenOk, HeadSeen, Shown
<1>6. /\ Seen(ack + 1, base, cp)' /\ Seen(ack + 1, base, v)'
      /\ Seen(from, base, doc)' /\ Seen(to, doc, v)'
  BY <1>3, <1>5, SeenGrown
<1>7. HeadSeen'
  BY <1>2, <1>4, <1>6 DEF HeadSeen
<1>8. FlightSeen'
  BY <1>2, <1>4, <1>6 DEF FlightSeen
<1> QED BY <1>3, <1>7, <1>8, QuietSeen DEF SeenOk

LEMMA UploadSeen ==
    ASSUME IInv, SeenOk, Upload
    PROVE  SeenOk'
<1>0. /\ sync = Idle /\ ~InConflict /\ UNCHANGED <<server, log, view, edited, history>>
      /\ disk.flight = {} => Recovered.ok
  BY DEF Upload
<1>1. Shown
  BY <1>0, QuietTyped DEF Shown, Unpublished
<1>2. PICK f : /\ f = IF disk.flight # {} THEN Flight ELSE NewFlight(disk.seq, Recovered.doc)
               /\ disk' = BeginFlight(disk, f) /\ Send(f, 1)
  BY DEF Upload
<1>3. sync'.stage \in QuietStages
  BY <1>2 DEF Send, QuietStages
<1>4. Seen(f.startSeq, Base.state, f.snapshot) /\ Seen(f.endSeq + 1, f.snapshot, view)
  <2>1. CASE disk.flight # {}
    <3>1. f \in disk.flight
      BY <1>2, <2>1 DEF Flight
    <3> QED BY <1>1, <3>1 DEF SeenOk, FlightSeen
  <2>2. CASE disk.flight = {}
    <3>1. Recovered.doc = view
      BY <1>1 DEF IInv, Safe, ViewOk
    <3>2. f.startSeq = Base.ackSeq + 1 /\ f.snapshot = view
      BY <1>2, <2>2, <3>1 DEF NewFlight
    <3>3. Seen(Base.ackSeq + 1, Base.state, view)
      BY <1>1 DEF SeenOk, HeadSeen
    <3>4. Seen(f.endSeq + 1, view, view)
      BY SeesSelf DEF Seen
    <3> QED BY <3>2, <3>3, <3>4
  <2> QED BY <2>1, <2>2
<1> QED BY <1>0, <1>1, <1>2, <1>3, <1>4, SentSeen

LEMMA MaterializeSeen ==
    ASSUME IInv, SeenOk, Materialize
    PROVE  SeenOk'
<1>0. sync.stage = "materialize" /\ UNCHANGED <<server, log, view, edited, history>>
  BY DEF Materialize
<1>1. Shown
  BY <1>0, RoundFree DEF Shown, Unpublished
<1> PICK f : f = NewFlight(sync.through, sync.snapshot)
  OBVIOUS
<1>2. CASE Recovered.ok
  <2>1. disk' = BeginFlight(disk, f) /\ sync'.stage \in QuietStages
    BY <1>2 DEF Materialize, Send, Failed, QuietStages
  <2>2. f.startSeq = Base.ackSeq + 1 /\ f.endSeq = sync.through /\ f.snapshot = sync.snapshot
    BY DEF NewFlight
  <2>3. Seen(f.startSeq, Base.state, f.snapshot) /\ Seen(f.endSeq + 1, f.snapshot, view)
    BY <1>0, <2>2 DEF SeenOk, NextShown, NextSeen
  <2> QED BY <1>0, <1>1, <2>1, <2>3, SentSeen
<1>3. CASE ~Recovered.ok
  <2>1. disk' = disk /\ sync'.stage \in QuietStages
    BY <1>3 DEF Materialize, Failed, QuietStages
  <2> QED BY <1>0, <1>1, <2>1, QuietSeen, HeldSeen
<1> QED BY <1>2, <1>3

\* What the screen becomes was seen over the target of the merge.
LEMMA ReconciledSeen ==
    ASSUME IInv, SeenOk, Shown, NEW f \in disk.flight, NEW target, NEW now, now = Reconciled(f, target),
           ~now.conflict
    PROVE  Seen(f.endSeq + 1, target, now.doc)
<1> PICK from, doc, v, E, K : from = f.endSeq + 1 /\ doc = f.snapshot /\ v = view /\ E = AllEdits /\ K = Knowing
  OBVIOUS
<1>1. Sees(E, K, from, doc, v)
  BY DEF SeenOk, FlightSeen, Seen
<1>2. CASE disk.seq > f.endSeq
  <2> PICK deletes : deletes = DeleteIntents(from, disk.seq)
    OBVIOUS
  <2>1. now = Merge3(doc, v, target, deletes)
    BY <1>2 DEF Reconciled
  <2>2. Sees(E, K, from, target, now.doc)
    BY <1>1, <2>1, SeesMerge
  <2> QED BY <2>2 DEF Seen
<1>3. CASE ~ (disk.seq > f.endSeq)
  <2>1. now.doc = target
    BY <1>3 DEF Reconciled
  <2> QED BY <2>1, SeesSelf DEF Seen
<1> QED BY <1>2, <1>3

LEMMA AckSeen ==
    ASSUME IInv, SeenOk, Ack
    PROVE  SeenOk'
<1>0. sync.stage = "ack" /\ UNCHANGED <<server, disk, log, view, edited, history>>
  BY DEF Ack
<1>1. Shown /\ AllEdits' = AllEdits
  BY <1>0, RoundFree, JournalFrame DEF Shown, Unpublished
<1> PICK f, row : f = sync.flight /\ row = sync.row
  OBVIOUS
<1> PICK now : now = Reconciled(f, row.doc)
  OBVIOUS
<1>2. /\ sync'.stage = "commitAck" /\ sync'.flight = f /\ sync'.row = row
      /\ sync'.cp = Checkpoint(now.conflict, now.doc) /\ sync'.control = ControlFor(now.conflict, row)
  BY DEF Ack
<1>3. ASSUME sync'.control = {} PROVE ~now.conflict /\ sync'.cp.state = now.doc
  <2>1. Conflict("entity-conflict", row.revision) # {}
    BY DEF Conflict
  <2>2. ~now.conflict
    BY <1>2, <1>3, <2>1 DEF ControlFor
  <2>3. sync'.cp.state = Checkpoint(now.conflict, now.doc).state
    BY <1>2
  <2> QED BY <2>2, <2>3 DEF Checkpoint
<1>4. f \in disk.flight
  BY <1>0 DEF IInv, Safe, RoundOk, Uploading
<1>5. ~now.conflict => Seen(f.endSeq + 1, row.doc, now.doc)
  BY <1>1, <1>4, ReconciledSeen
<1>6. Knowing' = Knowing
  BY <1>0 DEF Knowing
<1>7. MergeSeen'
  BY <1>1, <1>2, <1>3, <1>5, <1>6 DEF MergeSeen, Seen
<1>8. CandSeen' /\ NextShown'
  BY <1>2 DEF CandSeen, NextShown, Unpublished
<1> QED BY <1>0, <1>1, <1>7, <1>8, HeldSeen

LEMMA RebaseSeen ==
    ASSUME IInv, SeenOk, Rebase
    PROVE  SeenOk'
<1>0. sync.stage = "rebase" /\ UNCHANGED <<server, disk, log, view, edited, history>>
  BY DEF Rebase
<1>1. Shown /\ AllEdits' = AllEdits
  BY <1>0, RoundFree, JournalFrame DEF Shown, Unpublished
<1> PICK f, row, base, ack : f = sync.flight /\ row = sync.row /\ base = Base.state /\ ack = Base.ackSeq
  OBVIOUS
<1> PICK sent : sent = Merge3(base, f.snapshot, row.doc, DeleteIntents(f.startSeq, f.endSeq))
  OBVIOUS
<1> PICK now : now = Reconciled(f, sent.doc)
  OBVIOUS
<1> PICK conflict : conflict = (sent.conflict \/ now.conflict)
  OBVIOUS
<1>2. /\ sync'.stage = "commitRebase" /\ sync'.flight = f /\ sync'.row = row
      /\ sync'.cp = Checkpoint(conflict, now.doc) /\ sync'.control = ControlFor(conflict, row)
      /\ sync'.next.through = f.endSeq /\ sync'.next.snapshot = sent.doc
  BY Zenon DEF Rebase
<1>3. ASSUME sync'.control = {} PROVE ~conflict /\ sync'.cp.state = now.doc
  <2>1. Conflict("entity-conflict", row.revision) # {}
    BY DEF Conflict
  <2>2. ~conflict
    BY <1>2, <1>3, <2>1, Zenon DEF ControlFor
  <2>3. sync'.cp.state = Checkpoint(conflict, now.doc).state
    BY <1>2
  <2> QED BY <2>2, <2>3 DEF Checkpoint
<1>4. f \in disk.flight
  BY <1>0 DEF IInv, Safe, RoundOk, Uploading
<1>5. ~conflict => Seen(f.endSeq + 1, sent.doc, now.doc)
  BY <1>1, <1>4, ReconciledSeen
<1>6. ~conflict => Seen(ack + 1, row.doc, sent.doc)
  <2> PICK E, K, doc, remote, deletes, from : /\ E = AllEdits /\ K = Knowing /\ doc = f.snapshot
                                              /\ remote = row.doc /\ from = f.startSeq
                                              /\ deletes = DeleteIntents(f.startSeq, f.endSeq)
    OBVIOUS
  <2>1. Sees(E, K, from, base, doc) /\ from = ack + 1
    BY <1>4, FlightFacts DEF SeenOk, FlightSeen, Seen
  <2>2. sent = Merge3(base, doc, remote, deletes)
    OBVIOUS
  <2>3. ~sent.conflict => Sees(E, K, from, remote, sent.doc)
    BY <2>1, <2>2, SeesMerge
  <2> QED BY <2>1, <2>3 DEF Seen
<1>7. Knowing' = Knowing /\ Base' = Base
  BY <1>0 DEF Knowing, Base
<1>8. MergeSeen'
  BY <1>1, <1>2, <1>3, <1>5, <1>6, <1>7, Zenon DEF MergeSeen, Seen
<1>9. CandSeen' /\ NextShown'
  BY <1>2, Zenon DEF CandSeen, NextShown, Unpublished
<1> QED BY <1>0, <1>1, <1>8, <1>9, HeldSeen

\* A checkpoint is committed that the screen is to take over.
LEMMA CommittedSeen ==
    ASSUME SeenOk, UNCHANGED <<server, view, history>>, AllEdits' = AllEdits, disk'.flight = {},
           NEW ack, NEW base, NEW cp, Base'.ackSeq = ack, Base'.state = base, disk'.cp = cp,
           Seen(ack + 1, base, cp.state),
           sync'.stage = "publish", sync'.cand.prev = view, sync'.cand.cp = cp,
           NEW next, sync'.cand.next = next,
           next.stage = "materialize" => /\ Seen(ack + 1, base, next.snapshot)
                                         /\ Seen(next.through + 1, next.snapshot, cp.state)
                                         /\ next.through <= cp.seq
    PROVE  SeenOk'
<1>1. Grown /\ HistoryTyped'
  BY SameGrown DEF SeenOk
<1>2. SavedSeen'
  BY <1>1, SavedKept DEF SeenOk
<1> PICK v : v = view
  OBVIOUS
<1>3. /\ Seen(ack + 1, base, cp.state)' /\ Seen(cp.seq + 1, v, v)'
      /\ next.stage = "materialize" => /\ Seen(ack + 1, base, next.snapshot)'
                                       /\ Seen(next.through + 1, next.snapshot, cp.state)'
  <2>1. Seen(cp.seq + 1, v, v)
    BY SeesSelf DEF Seen
  <2> QED BY <1>1, <2>1, SeenGrown
<1>4. HeadSeen' /\ FlightSeen' /\ MergeSeen' /\ NextShown'
  BY <1>3 DEF HeadSeen, FlightSeen, MergeSeen, NextShown, Shown, Unpublished
<1>5. NextSeen(next, cp.state)'
  BY <1>3 DEF NextSeen
<1>6. CandSeen'
  BY <1>3, <1>5 DEF CandSeen
<1> QED BY <1>1, <1>2, <1>4, <1>6 DEF SeenOk

\* A fence stops the rounds.
LEMMA FencedSeen ==
    ASSUME SeenOk, UNCHANGED <<server, view, history>>, AllEdits' = AllEdits, disk'.flight = {},
           InConflict', sync'.stage \in QuietStages
    PROVE  SeenOk'
<1>1. Grown /\ HistoryTyped'
  BY SameGrown DEF SeenOk
<1>2. SavedSeen'
  BY <1>1, SavedKept DEF SeenOk
<1>3. HeadSeen' /\ FlightSeen'
  BY DEF HeadSeen, FlightSeen, Shown
<1> QED BY <1>1, <1>2, <1>3, QuietSeen DEF SeenOk

LEMMA CommitAckSeen ==
    ASSUME IInv, SeenOk, CommitAck
    PROVE  SeenOk'
<1>0. sync.stage = "commitAck" /\ UNCHANGED <<server, log, view, edited, history>>
  BY DEF CommitAck
<1>1. Shown
  BY <1>0, RoundFree DEF Shown, Unpublished
<1>2. CASE sync' = Failed /\ disk' = disk
  <2>1. sync'.stage \in QuietStages
    BY <1>2, QuietTyped DEF QuietStages
  <2> QED BY <1>0, <1>1, <1>2, <2>1, QuietSeen, HeldSeen
<1>3. CASE ~ (sync' = Failed /\ disk' = disk)
  <2> PICK to, base, cp, control : to = sync.flight.endSeq /\ base = sync.row.doc /\ cp = sync.cp
                                   /\ control = sync.control
    OBVIOUS
  <2>1. /\ Base'.ackSeq = to /\ Base'.state = base /\ disk'.cp = cp /\ disk'.flight = {}
        /\ AllEdits' = AllEdits
        /\ control # {} => sync' = Idle /\ InConflict'
        /\ control = {} => /\ sync'.stage = "publish" /\ sync'.cand.next = Idle
                           /\ sync'.cand.prev = view /\ sync'.cand.cp = cp
    BY <1>3, AckEffect
  <2>2. CASE control # {}
    <3>1. sync'.stage \in QuietStages
      BY <2>1, <2>2, QuietTyped DEF QuietStages
    <3> QED BY <1>0, <2>1, <2>2, <3>1, FencedSeen
  <2>3. CASE control = {}
    <3>1. Seen(to + 1, base, cp.state)
      BY <1>0, <2>3 DEF SeenOk, MergeSeen
    <3> PICK next : next = Idle
      OBVIOUS
    <3>2. next.stage # "materialize"
      BY QuietTyped
    <3> QED BY <1>0, <2>1, <2>3, <3>1, <3>2, CommittedSeen
  <2> QED BY <2>2, <2>3
<1> QED BY <1>2, <1>3

LEMMA CommitRebaseSeen ==
    ASSUME IInv, IInv', SeenOk, DeletesLast(AllEdits), CommitRebase
    PROVE  SeenOk'
<1>0. sync.stage = "commitRebase" /\ UNCHANGED <<server, log, view, edited, history>>
  BY DEF CommitRebase
<1>1. Shown
  BY <1>0, RoundFree DEF Shown, Unpublished
<1>2. CASE sync' = Failed /\ disk' = disk
  <2>1. sync'.stage \in QuietStages
    BY <1>2, QuietTyped DEF QuietStages
  <2> QED BY <1>0, <1>1, <1>2, <2>1, QuietSeen, HeldSeen
<1>3. CASE ~ (sync' = Failed /\ disk' = disk)
  <2> PICK ack, base, cp, control, next : /\ ack = Base.ackSeq /\ base = sync.row.doc /\ cp = sync.cp
                                          /\ control = sync.control /\ next = sync.next
    OBVIOUS
  <2>1. /\ Base'.ackSeq = ack /\ Base'.state = base /\ disk'.cp = cp /\ disk'.flight = {}
        /\ AllEdits' = AllEdits
        /\ control # {} => sync' = Idle /\ InConflict'
        /\ control = {} => /\ sync'.stage = "publish" /\ sync'.cand.next = next
                           /\ sync'.cand.prev = view /\ sync'.cand.cp = cp
    BY <1>3, RebaseEffect
  <2>2. CASE control # {}
    <3>1. sync'.stage \in QuietStages
      BY <2>1, <2>2, QuietTyped DEF QuietStages
    <3> QED BY <1>0, <2>1, <2>2, <3>1, FencedSeen
  <2>3. CASE control = {}
    <3> PICK E, K, from, mid, doc, d : /\ E = AllEdits /\ K = Knowing /\ from = ack + 1
                                       /\ mid = next.through /\ doc = next.snapshot /\ d = cp.state
      OBVIOUS
    <3>1. /\ Sees(E, K, from, base, doc) /\ Sees(E, K, mid + 1, doc, d)
          /\ Seen(ack + 1, base, doc) /\ Seen(mid + 1, doc, d)
      BY <1>0, <2>3 DEF SeenOk, MergeSeen, Seen
    <3>2. /\ Overlays(E, from, mid, base, doc) /\ mid = sync.flight.endSeq /\ mid <= cp.seq
      BY <1>0, <2>3 DEF IInv, Safe, MergeOk
    <3>3. sync.flight \in disk.flight
      BY <1>0 DEF IInv, Safe, RoundOk, Uploading
    <3>4. mid \in Nat /\ ack \in Nat /\ ack + 1 <= mid /\ Edits(E)
      BY <3>2, <3>3, FlightFacts, StateFacts
    <3>5. from \in Int /\ mid \in Int /\ from <= mid + 1 /\ from - 1 = ack
      BY <3>4
    <3>6. Rows(base, from - 1)
      <4>1. BaseOk'
        BY DEF IInv, Safe
      <4>2. Rows(base, ack)
        BY <2>1, <4>1 DEF BaseOk, Rows
      <4> QED BY <3>5, <4>2
    <3>7. Sees(E, K, from, base, d)
      BY <3>1, <3>2, <3>4, <3>5, <3>6, SeesJoin
    <3>8. Seen(ack + 1, base, cp.state)
      BY <3>7 DEF Seen
    <3> QED BY <1>0, <2>1, <2>3, <3>1, <3>2, <3>8, CommittedSeen
  <2> QED BY <2>2, <2>3
<1> QED BY <1>2, <1>3

LEMMA AdoptSeen ==
    ASSUME IInv, SeenOk, Adopt
    PROVE  SeenOk'
<1>0. sync.stage = "polled" /\ UNCHANGED <<server, log, view, edited, history>>
  BY DEF Adopt
<1>1. Shown
  BY <1>0, RoundFree DEF Shown, Unpublished
<1>2. CASE sync' = Idle /\ disk' = disk
  <2>1. sync'.stage \in QuietStages
    BY <1>2, QuietTyped DEF QuietStages
  <2> QED BY <1>0, <1>1, <1>2, <2>1, QuietSeen, HeldSeen
<1>3. CASE ~ (sync' = Idle /\ disk' = disk)
  <2> PICK n, base : n = disk.seq /\ base = sync.row.doc
    OBVIOUS
  <2> PICK cp : cp = [seq |-> n, state |-> base]
    OBVIOUS
  <2> PICK next : next = Idle
    OBVIOUS
  <2>1. /\ Base'.ackSeq = n /\ Base'.state = base /\ disk'.cp = cp /\ disk'.flight = {}
        /\ AllEdits' = AllEdits /\ sync'.stage = "publish" /\ sync'.cand.next = next
        /\ sync'.cand.prev = view /\ sync'.cand.cp = cp /\ cp.state = base
    BY <1>3, AdoptEffect
  <2>2. Seen(n + 1, base, cp.state)
    BY <2>1, SeesSelf DEF Seen
  <2>3. next.stage # "materialize"
    BY QuietTyped
  <2> QED BY <1>0, <2>1, <2>2, <2>3, CommittedSeen
<1> QED BY <1>2, <1>3

\* What was committed is published.
LEMMA PublishedSeen ==
    ASSUME IInv, SeenOk, sync.stage \in Unpublished, UNCHANGED <<server, disk, log, edited, history>>,
           NEW doc, view' = doc, Seen(Base.ackSeq + 1, Base.state, doc),
           NEW next, sync' = next, next.stage \in {"idle", "materialize"}, NextSeen(next, doc)
    PROVE  SeenOk'
<1>0. AllEdits' = AllEdits
  BY JournalFrame
<1>1. Grown /\ HistoryTyped'
  BY <1>0, SameGrown DEF SeenOk
<1>2. SavedSeen'
  BY <1>1, SavedKept DEF SeenOk
<1> PICK ack, base, cp : ack = Base.ackSeq /\ base = Base.state /\ cp = disk.cp.state
  OBVIOUS
<1>3. Base'.ackSeq = ack /\ Base'.state = base /\ disk'.cp.state = cp /\ ~InConflict /\ disk'.flight = {}
  BY CandFacts DEF Base, CandOk
<1>4. Seen(ack + 1, base, doc)' /\ Seen(ack + 1, base, cp)' /\ NextSeen(next, doc)'
  <2>1. Seen(ack + 1, base, cp)
    BY <1>3 DEF SeenOk, HeadSeen
  <2> QED BY <1>1, <2>1, SeenGrown, NextSeenKept
<1>5. HeadSeen'
  BY <1>3, <1>4 DEF HeadSeen
<1>6. FlightSeen' /\ MergeSeen' /\ CandSeen'
  BY <1>3 DEF FlightSeen, MergeSeen, CandSeen, Unpublished
<1>7. NextShown'
  BY <1>4 DEF NextShown
<1> QED BY <1>1, <1>2, <1>5, <1>6, <1>7 DEF SeenOk

\* The candidate is kept for its repair.
LEMMA RepairedSeen ==
    ASSUME IInv, SeenOk, sync.stage \in Unpublished, UNCHANGED <<server, log, view, edited, history>>,
           disk'.journal = disk.journal, disk'.seq = disk.seq, disk'.base = disk.base, disk'.flight = disk.flight,
           sync'.stage \in Unpublished, NEW c, sync.cand = c, sync'.cand = c,
           NEW doc, sync'.stage \in {"recoverCommit", "recoverPublish"} =>
                        sync'.cp.state = doc /\ Seen(Base.ackSeq + 1, Base.state, doc) /\ NextSeen(c.next, doc),
           NEW cp, disk'.cp = cp, Seen(Base.ackSeq + 1, Base.state, cp.state)
    PROVE  SeenOk'
<1>1. Grown /\ HistoryTyped' /\ SavedSeen'
  BY MovedSeen
<1> PICK ack, base, v : ack = Base.ackSeq /\ base = Base.state /\ v = view
  OBVIOUS
<1>2. Base'.ackSeq = ack /\ Base'.state = base /\ disk'.flight = {} /\ ~Shown'
  BY CandFacts DEF Base, CandOk, Shown
<1>3. /\ Seen(ack + 1, base, c.cp.state) /\ Seen(c.cp.seq + 1, c.prev, v)
      /\ NextSeen(c.next, c.cp.state)
      /\ c.next.stage = "materialize" => c.next.through <= c.cp.seq
  BY DEF SeenOk, CandSeen
<1>4. /\ Seen(ack + 1, base, c.cp.state)' /\ Seen(c.cp.seq + 1, c.prev, v)'
      /\ NextSeen(c.next, c.cp.state)' /\ Seen(ack + 1, base, cp.state)'
      /\ sync'.stage \in {"recoverCommit", "recoverPublish"} =>
            Seen(ack + 1, base, doc)' /\ NextSeen(c.next, doc)'
  BY <1>1, <1>3, SeenGrown, NextSeenKept
<1>5. CandSeen'
  BY <1>2, <1>3, <1>4 DEF CandSeen
<1>6. HeadSeen' /\ FlightSeen'
  BY <1>2, <1>4 DEF HeadSeen, FlightSeen
<1>7. MergeSeen' /\ NextShown'
  BY DEF MergeSeen, NextShown, Unpublished
<1> QED BY <1>1, <1>5, <1>6, <1>7 DEF SeenOk

\* A publication, or its repair.
LEMMA PublishSeen ==
    ASSUME IInv, SeenOk, Publish \/ RecoverPublish
    PROVE  SeenOk'
<1>0. sync.stage \in Unpublished /\ UNCHANGED <<server, disk, log, edited, history>>
  BY DEF Publish, RecoverPublish, Unpublished
<1> PICK c, ack, base, cp : c = sync.cand /\ ack = Base.ackSeq /\ base = Base.state /\ cp = disk.cp
  OBVIOUS
<1>1. c.next.stage \in {"idle", "materialize"} /\ ~InConflict
  BY <1>0, CandFacts
<1>2. Seen(ack + 1, base, c.cp.state) /\ NextSeen(c.next, c.cp.state) /\ Seen(ack + 1, base, cp.state)
  BY <1>0, <1>1 DEF SeenOk, CandSeen, HeadSeen
<1>3. ASSUME NEW attempt, sync' = Repair(c, attempt), view' = view PROVE SeenOk'
  <2>1. sync'.stage \in {"recover", "fence"} /\ sync'.cand = c
    BY <1>3, RepairStage
  <2>2. sync'.stage \in Unpublished /\ sync'.stage \notin {"recoverCommit", "recoverPublish"}
    BY <2>1 DEF Unpublished
  <2> QED BY <1>0, <1>2, <1>3, <2>1, <2>2, RepairedSeen
<1> PICK next : next = c.next
  OBVIOUS
<1>4. CASE Publish
  <2>1. CASE StillCurrent(c.cp.seq)
    <3> PICK doc : doc = c.cp.state
      OBVIOUS
    <3>1. view' = doc /\ sync' = next
      BY <1>4, <2>1 DEF Publish
    <3> QED BY <1>0, <1>1, <1>2, <3>1, PublishedSeen
  <2>2. CASE ~StillCurrent(c.cp.seq)
    <3>1. sync' = Repair(c, 0) /\ view' = view
      BY <1>4, <2>2 DEF Publish
    <3> QED BY <1>3, <3>1
  <2> QED BY <2>1, <2>2
<1>5. CASE RecoverPublish
  <2>1. CASE StillCurrent(sync.cp.seq)
    <3> PICK doc : doc = sync.cp.state
      OBVIOUS
    <3>1. view' = doc /\ sync' = next
      BY <1>5, <2>1 DEF RecoverPublish
    <3>2. Seen(ack + 1, base, doc) /\ NextSeen(next, doc)
      BY <1>0, <1>5 DEF RecoverPublish, SeenOk, CandSeen
    <3> QED BY <1>0, <1>1, <3>1, <3>2, PublishedSeen
  <2>2. CASE ~StillCurrent(sync.cp.seq)
    <3> PICK attempt : attempt = sync.attempt + 1
      OBVIOUS
    <3>1. sync' = Repair(c, attempt) /\ view' = view
      BY <1>5, <2>2 DEF RecoverPublish
    <3> QED BY <1>3, <3>1
  <2> QED BY <2>1, <2>2
<1> QED BY <1>4, <1>5

LEMMA RecoverReadSeen ==
    ASSUME IInv, SeenOk, DeletesLast(AllEdits), RecoverRead
    PROVE  SeenOk'
<1>0. sync.stage = "recover" /\ UNCHANGED <<server, disk, log, view, edited, history>>
  BY DEF RecoverRead
<1> PICK c, ack, base, cp, v : c = sync.cand /\ ack = Base.ackSeq /\ base = Base.state /\ cp = disk.cp /\ v = view
  OBVIOUS
<1>1. sync.stage \in Unpublished /\ ~InConflict /\ CandOk /\ c.cp.seq \in Nat
  BY <1>0, CandFacts DEF Unpublished
<1>2. /\ Seen(ack + 1, base, c.cp.state) /\ NextSeen(c.next, c.cp.state) /\ Seen(ack + 1, base, cp.state)
      /\ Seen(c.cp.seq + 1, c.prev, v) /\ (c.next.stage = "materialize" => c.next.through <= c.cp.seq)
  BY <1>1 DEF SeenOk, CandSeen, HeadSeen
<1> PICK merged : merged = Merge3(c.prev, v, c.cp.state, DeleteIntents(c.cp.seq + 1, disk.seq))
  OBVIOUS
<1>3. /\ sync'.cand = c
      /\ \/ sync'.stage = "fence"
         \/ sync'.stage = "recoverCommit" /\ sync'.cp.state = merged.doc /\ ~merged.conflict
  BY DEF RecoverRead
<1>4. ASSUME ~merged.conflict PROVE Seen(ack + 1, base, merged.doc) /\ NextSeen(c.next, merged.doc)
  <2> PICK E, K, mid, prev, shown, deletes, d :
            /\ E = AllEdits /\ K = Knowing /\ mid = c.cp.seq /\ prev = c.prev /\ shown = c.cp.state
            /\ deletes = DeleteIntents(mid + 1, disk.seq) /\ d = merged.doc
    OBVIOUS
  <2> PICK after, from : after = mid + 1 /\ from = ack + 1
    OBVIOUS
  <2>1. Sees(E, K, after, prev, v) /\ merged = Merge3(prev, v, shown, deletes)
    BY <1>2 DEF Seen
  <2>2. Sees(E, K, after, shown, d)
    BY <1>4, <2>1, SeesMerge
  <2>3. /\ ack \in Nat /\ mid \in Nat /\ ack <= mid /\ Edits(E) /\ DeletesLast(E)
        /\ Overlays(E, from, mid, base, shown) /\ Rows(base, ack)
    BY <1>1, StateFacts DEF CandOk, BaseOk
  <2>4. from \in Int /\ from - 1 = ack /\ from <= mid + 1 /\ mid \in Int
    BY ONLY <2>3, from = ack + 1
  <2>5. Sees(E, K, from, base, shown)
    BY <1>2 DEF Seen
  <2>6. Sees(E, K, from, base, d)
    BY <2>2, <2>3, <2>4, <2>5, SeesJoin
  <2>7. ASSUME c.next.stage = "materialize" PROVE NextSeen(c.next, d)
    <3> PICK to, sent, at : to = c.next.through /\ sent = c.next.snapshot /\ at = to + 1
      OBVIOUS
    <3>1. Sees(E, K, from, base, sent) /\ Sees(E, K, at, sent, shown)
      BY <1>2, <2>7 DEF NextSeen, Seen
    <3>2. c.next # Idle
      BY <2>7, QuietTyped
    <3>3. ack < to /\ Overlays(E, from, to, base, sent) /\ to <= mid
      BY <1>1, <1>2, <2>7, <3>2 DEF CandOk, NextOk
    <3>4. to \in Nat
      <4>1. c.next \in Materializing
        BY <1>1, <3>2, CandFacts DEF Candidates
      <4> QED BY <4>1, Bounds DEF Materializing
    <3>5. to \in Int /\ from <= to + 1 /\ at \in Int /\ at - 1 = to /\ at <= mid + 1 /\ ack <= to /\ ack \in Int
      BY ONLY <2>3, <2>4, <3>3, <3>4, at = to + 1
    <3>6. Overlays(E, at, mid, sent, shown)
      BY <2>3, <2>4, <3>3, <3>5, OverlaysSplit
    <3>7. Rows(sent, at - 1)
      BY <2>3, <2>4, <3>3, <3>5, OverlaysRows
    <3>8. Sees(E, K, at, sent, d)
      BY <2>2, <2>3, <2>4, <3>1, <3>5, <3>6, <3>7, SeesJoin
    <3> QED BY <3>1, <3>8 DEF NextSeen, Seen
  <2>8. NextSeen(c.next, d)
    BY <2>7 DEF NextSeen
  <2> QED BY <2>6, <2>8 DEF Seen
<1> PICK doc : doc = merged.doc
  OBVIOUS
<1>5. CASE sync'.stage = "fence"
  <2>1. sync'.stage \in Unpublished /\ sync'.stage \notin {"recoverCommit", "recoverPublish"}
    BY <1>5 DEF Unpublished
  <2> QED BY <1>0, <1>1, <1>2, <1>3, <2>1, RepairedSeen
<1>6. CASE sync'.stage = "recoverCommit" /\ sync'.cp.state = merged.doc /\ ~merged.conflict
  <2>1. sync'.stage \in Unpublished
    BY <1>6 DEF Unpublished
  <2>2. Seen(ack + 1, base, doc) /\ NextSeen(c.next, doc) /\ sync'.cp.state = doc
    BY <1>4, <1>6
  <2> QED BY <1>0, <1>1, <1>2, <1>3, <2>1, <2>2, RepairedSeen, Zenon
<1> QED BY <1>3, <1>5, <1>6

LEMMA RecoverCommitSeen ==
    ASSUME IInv, SeenOk, RecoverCommit
    PROVE  SeenOk'
<1>0. /\ sync.stage = "recoverCommit" /\ sync.stage \in Unpublished
      /\ UNCHANGED <<server, log, view, edited, history>>
  BY DEF RecoverCommit, Unpublished
<1> PICK c, ack, base, cp : c = sync.cand /\ ack = Base.ackSeq /\ base = Base.state /\ cp = sync.cp
  OBVIOUS
<1>1. ~InConflict
  BY <1>0, CandFacts
<1> PICK doc : doc = cp.state
  OBVIOUS
<1>2. Seen(ack + 1, base, doc) /\ NextSeen(c.next, doc)
  BY <1>0 DEF SeenOk, CandSeen
<1>3. CASE sync' = Repair(c, sync.attempt + 1) /\ disk' = disk
  <2>1. sync'.stage \in {"recover", "fence"} /\ sync'.cand = c
    BY <1>3, RepairStage
  <2>2. sync'.stage \in Unpublished /\ sync'.stage \notin {"recoverCommit", "recoverPublish"}
    BY <2>1 DEF Unpublished
  <2> PICK old : old = disk.cp
    OBVIOUS
  <2>3. Seen(ack + 1, base, old.state) /\ disk'.cp = old
    BY <1>1, <1>3 DEF SeenOk, HeadSeen
  <2> QED BY <1>0, <1>2, <1>3, <2>1, <2>2, <2>3, RepairedSeen
<1>4. CASE disk' = CommitCloudRecovery(disk, cp) /\ sync' = [sync EXCEPT !.stage = "recoverPublish"]
  <2>1. disk \in HeadSet /\ sync \in Recovering
    BY <1>0, RoundTyped DEF IInv, Typed
  <2>2. /\ disk'.journal = disk.journal /\ disk'.seq = disk.seq /\ disk'.base = disk.base
        /\ disk'.flight = disk.flight /\ disk'.cp = cp
    BY <1>4, <2>1 DEF CommitCloudRecovery, HeadSet
  <2>3. sync'.stage = "recoverPublish" /\ sync'.cand = c /\ sync'.cp = cp
    BY <1>4, <2>1 DEF Recovering
  <2>4. sync'.stage \in Unpublished
    BY <2>3 DEF Unpublished
  <2> QED BY <1>0, <1>2, <2>2, <2>3, <2>4, RepairedSeen
<1> QED BY <1>3, <1>4 DEF RecoverCommit

LEMMA ApproveSeen ==
    ASSUME IInv, SeenOk, Approve
    PROVE  SeenOk'
<1>0. sync = Idle /\ log = <<>> /\ UNCHANGED <<server, log, view, sync, edited>>
  BY DEF Approve
<1> PICK E, ack, base, v, n : /\ E = AllEdits /\ ack = Base.ackSeq /\ base = Base.state /\ v = view
                              /\ n = edited
  OBVIOUS
<1>1. /\ disk'.journal = disk.journal /\ disk'.seq = disk.seq /\ disk'.base = disk.base
      /\ disk'.flight = {} /\ ~InConflict' /\ disk'.cp.state = v
      /\ n = disk.seq /\ Overlays(E, ack + 1, n, base, v)
  BY ApproveFacts
<1>2. AllEdits' = E /\ Base' = Base
  BY <1>0, <1>1, JournalFrame DEF Base
<1>3. /\ history' = [history EXCEPT !.approved = @ \cup {op.id.n : op \in PendingOps(disk)}]
  BY DEF Approve
<1>4. HistoryTyped' /\ Knowing' = Knowing \cup {op.id.n : op \in PendingOps(disk)}
  BY <1>3 DEF SeenOk, HistoryTyped, Knowing
<1>5. Grown
  BY <1>2, <1>4 DEF Grown
<1>6. SavedSeen'
  BY <1>0, <1>5, SavedKept DEF SeenOk
<1>7. ack \in Nat /\ n \in Nat /\ Edits(E) /\ disk.base = {Base}
  BY StateFacts
<1>8. ASSUME NEW e \in E, e.n \in (ack + 1)..n PROVE e.n \in Knowing'
  <2>1. PICK op \in disk.journal : op.id = e
    <3>1. \A i \in DOMAIN log : FALSE
      BY <1>0
    <3> QED BY <3>1 DEF AllEdits
  <2>2. op.id.n = op.seq /\ e.n = op.seq
    BY <2>1, StateFacts, EditsFacts
  <2>3. e.n > ack
    BY <1>7, <1>8
  <2>4. op \in PendingOps(disk)
    BY <1>7, <2>1, <2>2, <2>3 DEF PendingOps
  <2> QED BY <1>4, <2>1, <2>4
<1>9. Sees(E, Knowing', ack + 1, base, v)
  <2> PICK K, from : K = Knowing' /\ from = ack + 1
    OBVIOUS
  <2>1. from \in Int /\ n \in Int /\ Overlays(E, from, n, base, v) /\ \A e \in E : e.n \in from..n => e.n \in K
    BY <1>1, <1>7, <1>8
  <2>2. Sees(E, K, from, base, v)
    BY <1>7, <2>1, SeesKnown
  <2> QED BY <2>2
<1>10. Seen(ack + 1, base, v)'
  BY <1>2, <1>9 DEF Seen
<1>11. HeadSeen' /\ FlightSeen'
  BY <1>0, <1>1, <1>2, <1>10 DEF HeadSeen, FlightSeen
<1>12. MergeSeen' /\ CandSeen' /\ NextShown'
  BY <1>0, QuietTyped, QuietSeen DEF QuietStages
<1> QED BY <1>4, <1>6, <1>11, <1>12 DEF SeenOk

LEMMA RestartSeen ==
    ASSUME IInv, SeenOk, DeletesLast(AllEdits), Restart
    PROVE  SeenOk'
<1>0. sync.stage # "dead" /\ UNCHANGED <<server, disk, log, edited>>
  BY DEF Restart
<1> PICK E, at, n, cp, ack, base : /\ E = AllEdits /\ at = disk.cp.seq /\ n = edited /\ cp = disk.cp.state
                                   /\ ack = Base.ackSeq /\ base = Base.state
  OBVIOUS
<1> PICK shown : shown = view'
  OBVIOUS
<1>1. AllEdits' = E /\ Base' = Base /\ InConflict' = InConflict
  BY <1>0, JournalFrame DEF Base, InConflict
<1> PICK torn : torn = {EditAt(i).n : i \in (at + 1)..disk.seq} \cup {log[i].n : i \in DOMAIN log}
  OBVIOUS
<1>2. HistoryTyped' /\ Knowing \subseteq Knowing' /\ (sync.stage \in Unpublished => torn \subseteq Knowing')
  <2>1. CASE sync.stage \in Unpublished
    <3>1. history' = [history EXCEPT !.torn = @ \cup torn]
      <4>1. history' = [history EXCEPT !.torn = @ \cup
                           {EditAt(i).n : i \in (disk.cp.seq + 1)..disk.seq} \cup
                           {log[i].n : i \in DOMAIN log}]
        BY <2>1 DEF Restart
      <4> QED BY <4>1
    <3> QED BY <3>1 DEF SeenOk, HistoryTyped, Knowing
  <2>2. CASE sync.stage \notin Unpublished
    <3>1. history' = history
      BY <2>2 DEF Restart
    <3> QED BY <2>2, <3>1 DEF SeenOk, HistoryTyped, Knowing
  <2> QED BY <2>1, <2>2
<1>3. Grown
  BY <1>1, <1>2 DEF Grown
<1>4. SavedSeen'
  BY <1>0, <1>3, SavedKept DEF SeenOk
<1>5. sync'.stage \in QuietStages /\ (sync'.stage # "dead" => Recovered.ok /\ shown = Recovered.doc)
  BY QuietTyped DEF Restart, QuietStages
<1>6. /\ Typed /\ EditsOk /\ Edits(E) /\ at \in Nat /\ n \in Nat /\ ack \in Nat /\ ack <= at /\ at <= n
      /\ at <= disk.seq /\ Rows(base, ack) /\ (~InConflict => Overlays(E, ack + 1, at, base, cp))
  BY StateFacts DEF BaseOk
<1>7. ~InConflict => Seen(ack + 1, base, cp)'
  BY <1>3, SeenGrown DEF SeenOk, HeadSeen
<1>8. ASSUME Shown, Shown' PROVE shown = view
  <2>1. Recovered = [ok |-> TRUE, doc |-> view]
    BY <1>8 DEF IInv, Safe, ViewOk
  <2> QED BY <1>5, <1>8, <2>1 DEF Shown
<1>9. ASSUME sync.stage \in Unpublished, ~InConflict, sync'.stage # "dead"
      PROVE  Seen(ack + 1, base, shown)'
  <2> PICK v, K, from, after : v = shown /\ K = Knowing' /\ from = ack + 1 /\ after = at + 1
    OBVIOUS
  <2>1. Overlays(E, after, n, cp, v)
    <3>1. Overlays(E, at + 1, n, cp, Recovered.doc)
      BY <1>6, RecoveredOverlays
    <3> QED BY <1>5, <1>9, <3>1
  <2>2. ASSUME NEW e \in E, e.n \in after..n PROVE e.n \in K
    <3>1. e.n \in Nat /\ e.n >= at + 1
      BY <1>6, <2>2
    <3>2. CASE \E op \in disk.journal : op.id = e
      <4>1. PICK op \in disk.journal : op.id = e
        BY <3>2
      <4>2. op.seq \in 1..disk.seq /\ e.n = op.seq
        BY <1>6, <4>1, EditsFacts
      <4>3. e.n \in (at + 1)..disk.seq /\ EditAt(e.n).n = e.n
        BY <1>6, <3>1, <4>2, EditsFacts
      <4>4. e.n \in torn
        BY <4>3
      <4> QED BY <1>2, <1>9, <4>4
    <3>3. CASE \E i \in DOMAIN log : log[i] = e
      <4>1. e.n \in torn
        BY <3>3
      <4> QED BY <1>2, <1>9, <4>1
    <3> QED BY <3>2, <3>3 DEF AllEdits
  <2>3. after \in Int /\ n \in Int /\ from \in Int /\ at \in Int /\ from <= at + 1 /\ from - 1 = ack
    BY <1>6
  <2>4. Sees(E, K, after, cp, v)
    BY <1>6, <2>1, <2>2, <2>3, SeesKnown
  <2>5. Sees(E, K, from, base, cp)
    BY <1>1, <1>7, <1>9 DEF Seen
  <2>6. Sees(E, K, from, base, v)
    <3>1. Overlays(E, from, at, base, cp) /\ Rows(base, from - 1) /\ DeletesLast(E)
      BY <1>6, <1>9, <2>3
    <3> QED BY <1>6, <2>3, <2>4, <2>5, <3>1, SeesJoin
  <2> QED BY <1>1, <2>6 DEF Seen
<1>10. Shown' => Seen(ack + 1, base, shown)'
  <2> SUFFICES ASSUME Shown' PROVE Seen(ack + 1, base, shown)'
    OBVIOUS
  <2>1. ~InConflict /\ sync'.stage # "dead"
    BY <1>1 DEF Shown
  <2>2. CASE Shown
    <3> PICK v : v = view
      OBVIOUS
    <3>1. Seen(ack + 1, base, v)
      BY <2>2 DEF SeenOk, HeadSeen
    <3>2. Seen(ack + 1, base, v)'
      BY <1>3, <3>1, SeenGrown
    <3> QED BY <1>8, <2>2, <3>2
  <2>3. CASE ~Shown
    BY <1>0, <1>9, <2>1, <2>3 DEF Shown
  <2> QED BY <2>2, <2>3
<1>11. HeadSeen'
  BY <1>0, <1>1, <1>7, <1>10 DEF HeadSeen
<1>12. FlightSeen'
  <2> SUFFICES ASSUME NEW f \in disk.flight
               PROVE  /\ Seen(f.startSeq, base, f.snapshot)'
                      /\ Shown' => Seen(f.endSeq + 1, f.snapshot, shown)'
    BY <1>0, <1>1 DEF FlightSeen
  <2> PICK v : v = view
    OBVIOUS
  <2>1. Seen(f.startSeq, base, f.snapshot) /\ (Shown => Seen(f.endSeq + 1, f.snapshot, v))
    BY DEF SeenOk, FlightSeen
  <2>2. Seen(f.startSeq, base, f.snapshot)' /\ (Shown => Seen(f.endSeq + 1, f.snapshot, v)')
    BY <1>3, <2>1, SeenGrown
  <2>3. sync.stage \notin Unpublished
    BY CandFacts DEF CandOk
  <2>4. Shown' => Shown
    BY <1>0, <1>1, <2>3 DEF Shown
  <2> QED BY <1>8, <2>2, <2>4
<1>13. MergeSeen' /\ CandSeen' /\ NextShown'
  BY <1>5, QuietSeen
<1> QED BY <1>2, <1>4, <1>11, <1>12, <1>13 DEF SeenOk

LEMMA EditSeen ==
    ASSUME IInv, SeenOk, NEW c \in Records, NEW kind \in Kinds, Edit(c, kind),
           \/ kind = "insert" /\ \A x \in AllEdits : x.record # c
           \/ kind # "insert" /\ view[c] # Absent
    PROVE  SeenOk'
<1>0. UNCHANGED <<server, disk, sync, history>> /\ sync.stage # "dead"
  BY DEF Edit
<1>1. PICK e \in EditSet :
              /\ e.n = edited + 1 /\ e.record = c /\ e.over = view[c]
              /\ log' = Append(log, e) /\ view' = Apply(view, e) /\ edited' = edited + 1
  BY EditMade
<1> PICK E, F, K, n, v, w : /\ E = AllEdits /\ F = E \cup {e} /\ K = Knowing /\ n = edited /\ v = view
                            /\ w = Apply(v, e)
  OBVIOUS
<1> PICK ack, base : ack = Base.ackSeq /\ base = Base.state
  OBVIOUS
<1>2. AllEdits' = F
  BY <1>0, <1>1, EditedEdits
<1>3. /\ Edits(E) /\ n \in Nat /\ ack \in Nat /\ ack <= n /\ v \in Documents /\ Rows(base, ack)
      /\ \A x \in E : x.n \in Nat /\ x.n <= n
  BY StateFacts, EditsFacts DEF BaseOk
<1>4. Knowing' = K /\ Base' = Base /\ InConflict' = InConflict /\ Shown' = Shown /\ view' = w
      /\ disk' = disk /\ sync' = sync
  BY <1>0, <1>1 DEF Knowing, Base, InConflict, Shown
<1>5. Grown /\ HistoryTyped'
  <2>1. e.n = n + 1 /\ \A x \in F \ E : x = e
    BY <1>1
  <2>2. \A y \in E : y.n <= n + 1
    BY <1>3
  <2> QED BY <1>0, <1>2, <1>4, <2>1, <2>2 DEF Grown, HistoryTyped, SeenOk
<1>6. SavedSeen'
  BY <1>0, <1>5, SavedKept DEF SeenOk
<1>7. v[c] # Absent \/ \A x \in E : x.record # c
  OBVIOUS
<1>8. ASSUME NEW from \in Int, from <= n + 1, NEW doc, Overlays(E, from, n, doc, v), Rows(doc, from - 1),
             Seen(from, doc, v)
      PROVE  Seen(from, doc, w)'
  <2>1. Sees(E, K, from, doc, v)
    BY <1>8 DEF Seen
  <2>2. /\ n \in Int /\ e \in EditSet /\ e.n = n + 1 /\ e.over = v[e.record]
        /\ v[e.record] # Absent \/ \A x \in E : x.record # e.record
    BY <1>1, <1>3, <1>7
  <2>3. Sees(F, K, from, doc, w)
    BY <1>3, <1>8, <2>1, <2>2, EditSees
  <2> QED BY <1>2, <1>4, <2>3 DEF Seen
<1>9. ack + 1 \in Int /\ ack + 1 <= n + 1 /\ (ack + 1) - 1 = ack
  BY <1>3
<1>10. HeadSeen'
  <2> PICK cp, from : cp = disk.cp.state /\ from = ack + 1
    OBVIOUS
  <2>1. ~InConflict => Seen(from, base, cp)'
    BY <1>5, SeenGrown DEF SeenOk, HeadSeen
  <2>2. ASSUME Shown PROVE Seen(from, base, w)'
    <3>1. Overlays(E, from, n, base, v) /\ Seen(from, base, v)
      BY <2>2, ViewOverlays DEF SeenOk, HeadSeen
    <3>2. from \in Int /\ from <= n + 1 /\ Rows(base, from - 1)
      BY <1>3, <1>9
    <3> QED BY <1>8, <3>1, <3>2
  <2> QED BY <1>4, <2>1, <2>2 DEF HeadSeen
<1>11. FlightSeen'
  <2> SUFFICES ASSUME NEW f \in disk.flight
               PROVE  Seen(f.startSeq, base, f.snapshot)' /\ (Shown => Seen(f.endSeq + 1, f.snapshot, w)')
    BY <1>4 DEF FlightSeen
  <2> PICK doc, from, to : doc = f.snapshot /\ from = f.startSeq /\ to = f.endSeq
    OBVIOUS
  <2>1. Seen(from, base, doc) /\ (Shown => Seen(to + 1, doc, v))
    BY DEF SeenOk, FlightSeen
  <2>2. Seen(from, base, doc)'
    BY <1>5, <2>1, SeenGrown
  <2>3. ASSUME Shown PROVE Seen(to + 1, doc, w)'
    <3>1. Overlays(E, to + 1, n, doc, v) /\ Rows(doc, to) /\ to \in Nat /\ to <= disk.seq
      BY <2>3, FlightView, FlightFacts
    <3>2. disk.seq <= n /\ disk.seq \in Nat
      BY StateFacts
    <3> PICK at : at = to + 1
      OBVIOUS
    <3>3. at \in Int /\ at <= n + 1 /\ at - 1 = to
      BY ONLY <1>3, <3>1, <3>2, at = to + 1
    <3>4. Seen(at, doc, w)'
      BY <1>8, <2>1, <2>3, <3>1, <3>3
    <3> QED BY <3>4
  <2> QED BY <2>2, <2>3
<1> PICK s : s = sync
  OBVIOUS
<1>12. MergeSeen'
  <2>1. /\ s.stage = "commitAck" /\ s.control = {} => Seen(s.flight.endSeq + 1, s.row.doc, s.cp.state)
        /\ s.stage = "commitRebase" /\ s.control = {} =>
              /\ Seen(ack + 1, s.row.doc, s.next.snapshot)
              /\ Seen(s.next.through + 1, s.next.snapshot, s.cp.state)
    BY DEF SeenOk, MergeSeen
  <2>2. /\ s.stage = "commitAck" /\ s.control = {} => Seen(s.flight.endSeq + 1, s.row.doc, s.cp.state)'
        /\ s.stage = "commitRebase" /\ s.control = {} =>
              /\ Seen(ack + 1, s.row.doc, s.next.snapshot)'
              /\ Seen(s.next.through + 1, s.next.snapshot, s.cp.state)'
    BY <1>5, <2>1, SeenGrown
  <2> QED BY <1>4, <2>2 DEF MergeSeen
<1>13. CandSeen'
  <2> SUFFICES ASSUME s.stage \in Unpublished PROVE CandSeen'
    BY <1>4 DEF CandSeen
  <2> PICK k : k = s.cand
    OBVIOUS
  <2>1. /\ Seen(ack + 1, base, k.cp.state) /\ Seen(k.cp.seq + 1, k.prev, v) /\ NextSeen(k.next, k.cp.state)
        /\ k.next.stage = "materialize" => k.next.through <= k.cp.seq
        /\ s.stage \in {"recoverCommit", "recoverPublish"} =>
              Seen(ack + 1, base, s.cp.state) /\ NextSeen(k.next, s.cp.state)
    BY DEF SeenOk, CandSeen
  <2>2. /\ Seen(ack + 1, base, k.cp.state)' /\ NextSeen(k.next, k.cp.state)'
        /\ s.stage \in {"recoverCommit", "recoverPublish"} =>
              Seen(ack + 1, base, s.cp.state)' /\ NextSeen(k.next, s.cp.state)'
    BY <1>4, <1>5, <2>1, SeenGrown, NextSeenKept
  <2>3. /\ Overlays(E, k.cp.seq + 1, n, k.prev, v) /\ Rows(k.prev, k.cp.seq)
        /\ k.cp.seq \in Nat /\ k.cp.seq <= disk.cp.seq /\ disk.cp.seq <= n /\ disk.cp.seq \in Nat
    <3>1. CandOk /\ k.cp.seq \in Nat
      BY CandFacts
    <3>2. disk.cp.seq <= n
      <4>1. disk.cp.seq <= disk.seq /\ disk.seq <= n /\ disk.cp.seq \in Nat /\ disk.seq \in Nat
        BY StateFacts
      <4> QED BY ONLY <1>3, <4>1
    <3> QED BY <3>1, <3>2, StateFacts DEF CandOk
  <2> PICK to, at, prev : to = k.cp.seq /\ at = to + 1 /\ prev = k.prev
    OBVIOUS
  <2>4. at \in Int /\ at <= n + 1 /\ at - 1 = to
    BY ONLY <1>3, <2>3, to = k.cp.seq, at = to + 1
  <2>5. Seen(at, prev, w)'
    BY <1>8, <2>1, <2>3, <2>4
  <2> QED BY <1>4, <2>1, <2>2, <2>5 DEF CandSeen
<1>14. NextShown'
  <2> SUFFICES ASSUME s.stage = "materialize" PROVE NextSeen(s, w)'
    BY <1>4 DEF NextShown
  <2> PICK to, at, sent, from : to = s.through /\ at = to + 1 /\ sent = s.snapshot /\ from = ack + 1
    OBVIOUS
  <2>1. Seen(from, base, sent) /\ Seen(at, sent, v)
    BY DEF SeenOk, NextShown, NextSeen
  <2>2. s # Idle /\ s \in Materializing
    BY QuietTyped, RoundTyped
  <2>3. ack < to /\ to <= disk.seq /\ Overlays(E, from, to, base, sent)
    BY <2>2 DEF IInv, Safe, NextOk
  <2>4. Shown
    BY RoundFree DEF Shown, Unpublished
  <2>5. Overlays(E, from, n, base, v) /\ to \in Nat /\ disk.seq \in Nat /\ disk.seq <= n
    BY <2>2, <2>4, ViewOverlays, StateFacts, Bounds DEF Materializing
  <2>6. /\ at \in Int /\ at <= n + 1 /\ at - 1 = to /\ to \in Int /\ n \in Int /\ to <= n
        /\ from \in Int /\ from <= to + 1 /\ ack <= to /\ ack \in Int
    BY ONLY <1>3, <2>3, <2>5, at = to + 1, from = ack + 1
  <2>7. Overlays(E, at, n, sent, v)
    BY <1>3, <2>3, <2>5, <2>6, OverlaysSplit
  <2>8. Rows(sent, at - 1)
    BY <1>3, <2>3, <2>6, OverlaysRows
  <2>9. Seen(at, sent, w)'
    BY <1>8, <2>1, <2>6, <2>7, <2>8
  <2>10. Seen(from, base, sent)'
    BY <1>5, <2>1, SeenGrown
  <2> QED BY <1>4, <2>9, <2>10 DEF NextSeen
<1> QED BY <1>5, <1>6, <1>10, <1>11, <1>12, <1>13, <1>14 DEF SeenOk

LEMMA SeenStep ==
    ASSUME IInv, IInv', Deletes, SeenOk, [Next]_vars
    PROVE  SeenOk'
<1>0. DeletesLast(AllEdits)
  BY DEF Deletes
<1>1. CASE \/ ReadRemote \/ Timeout \/ Poll \/ Fail \/ FenceOff \/ Commit
           \/ (\E r \in requests : Serve(r) \/ ServeAndReply(r))
           \/ (\E c \in Records : RemoteSave(c))
           \/ UNCHANGED vars
  BY <1>1, QuietStep
<1>2. ASSUME NEW c \in Records, Insert(c) PROVE SeenOk'
  BY <1>2, EditSeen DEF Insert, Kinds
<1>3. ASSUME NEW c \in Records, Replace(c) \/ Delete(c) PROVE SeenOk'
  BY <1>3, EditSeen DEF Replace, Delete, Kinds
<1>4. CASE Upload \/ Materialize
  BY <1>4, UploadSeen, MaterializeSeen
<1>5. CASE Ack \/ Rebase
  BY <1>5, AckSeen, RebaseSeen
<1>6. CASE CommitAck \/ CommitRebase
  BY <1>0, <1>6, CommitAckSeen, CommitRebaseSeen
<1>7. CASE Publish \/ RecoverPublish
  BY <1>7, PublishSeen
<1>8. CASE RecoverRead \/ RecoverCommit
  BY <1>0, <1>8, RecoverReadSeen, RecoverCommitSeen
<1>9. CASE Adopt \/ Approve \/ Restart
  BY <1>0, <1>9, AdoptSeen, ApproveSeen, RestartSeen
<1> QED BY <1>1, <1>2, <1>3, <1>4, <1>5, <1>6, <1>7, <1>8, <1>9 DEF Next

LEMMA SeenInit ==
    ASSUME Init, IInv
    PROVE  Deletes /\ SeenOk
<1> PICK doc : doc = FirstDocument
  OBVIOUS
<1>1. /\ server.versions = <<[doc |-> doc, by |-> {}]>> /\ log = <<>> /\ view = doc
      /\ sync = Idle /\ sync.stage = "idle" /\ edited = 0 /\ history = [approved |-> {}, torn |-> {}]
  BY QuietTyped DEF Init
<1>2. disk.flight = {} /\ disk.cp.state = doc /\ Base.state = doc
  <2> PICK base : base = [revision |-> 1, ackSeq |-> 0, state |-> doc]
    OBVIOUS
  <2>1. disk = [epoch |-> Epoch, seq |-> 0, writer |-> Device, cp |-> [seq |-> 0, state |-> doc],
                journal |-> {}, base |-> {base}, flight |-> {}, control |-> {}]
    BY DEF Init, InitializeCloudHead, FreshHead
  <2>2. disk.flight = {} /\ disk.cp.state = doc /\ disk.base = {base}
    BY <2>1
  <2>3. Base = base
    BY <2>2 DEF Base
  <2> QED BY <2>2, <2>3
<1>3. AllEdits = {}
  <2>1. \A e \in AllEdits : e.n \in Nat /\ 1 <= e.n /\ e.n <= 0
    BY <1>1, StateFacts, EditsFacts
  <2> QED BY <2>1
<1>4. Deletes
  BY <1>1, <1>3 DEF Deletes, DeletesLast, Gone, Committing
<1>5. \A from : Seen(from, doc, doc)
  BY SeesSelf DEF Seen
<1>6. HeadSeen /\ FlightSeen
  BY <1>1, <1>2, <1>5 DEF HeadSeen, FlightSeen
<1>7. MergeSeen /\ CandSeen /\ NextShown
  BY <1>1 DEF MergeSeen, CandSeen, NextShown, Unpublished
<1>8. SavedSeen
  BY <1>1 DEF SavedSeen
<1>9. HistoryTyped
  BY <1>1 DEF HistoryTyped
<1> QED BY <1>4, <1>6, <1>7, <1>8, <1>9 DEF SeenOk

\* The edits of a saved request that its user saw are the first it carries.
LEMMA SavedCarried ==
    ASSUME IInv, SeenOk
    PROVE  NoSilentOverwrite
<1> SUFFICES ASSUME NEW i \in DOMAIN server.versions, NEW r \in server.versions[i].by, NEW c \in Records,
                    server.versions[i].doc[c] # server.versions[i - 1].doc[c]
             PROVE  \E e \in FirstEdit(r, c) :
                       \/ e.over = server.versions[i - 1].doc[c]
                       \/ e.n \in history.approved \cup history.torn
  BY DEF NoSilentOverwrite
<1>1. PICK e \in AllEdits :
              /\ First(AllEdits, e, r.flight.startSeq) /\ e.record = c /\ e.n <= r.flight.endSeq
              /\ Known(Knowing, e, server.versions[i - 1].doc[c])
  BY DEF SeenOk, SavedSeen
<1> PICK from, to : from = r.flight.startSeq /\ to = r.flight.endSeq
  OBVIOUS
<1>2. Typed /\ EditsOk /\ r \in requests
  BY StateFacts DEF ServerOk, LandedInPlace
<1>3. from \in Nat /\ to \in Nat /\ to <= disk.seq /\ disk.seq \in Nat /\ e.n \in Nat /\ from <= e.n /\ e.n <= to
      /\ 1 <= e.n
  BY <1>1, <1>2, LandedFacts, StateFacts, EditsFacts DEF RequestOk, First
<1>4. e.n \in 1..disk.seq
  BY <1>3
<1>5. PICK op \in disk.journal : op.seq = e.n /\ op.id = EditAt(e.n)
  BY <1>2, <1>4, EditsFacts
<1>6. op.id = e
  <2>1. EditAt(e.n) \in AllEdits /\ EditAt(e.n).n = e.n
    BY <1>2, <1>4, EditsFacts
  <2> QED BY <1>1, <1>5, <2>1, StateFacts DEF Edits
<1>7. e \in Carried(r, c)
  <2>1. op.seq \in from..to
    BY <1>3, <1>5
  <2> QED BY <1>1, <1>5, <1>6, <2>1 DEF Carried
<1>8. ASSUME NEW x \in Carried(r, c) PROVE e.n <= x.n
  <2>1. PICK p \in disk.journal : p.seq \in from..to /\ p.id.record = c /\ p.id = x
    BY DEF Carried
  <2>2. x \in AllEdits /\ x.n = p.seq /\ x.record = c
    BY <1>2, <2>1, EditsFacts
  <2>3. x.n >= from
    BY <1>3, <2>1, <2>2
  <2> QED BY <1>1, <2>2, <2>3 DEF First
<1>9. e \in FirstEdit(r, c)
  BY <1>7, <1>8 DEF FirstEdit
<1> QED BY <1>1, <1>9 DEF Known, Knowing

\* Another computer's change is never overwritten by an edit whose user did not see
\* it, unless the user approved the edit or the page died between the commit of a
\* checkpoint and its publication.
THEOREM OverwritesSeen == Spec => []NoSilentOverwrite
<1>1. Init => IInv /\ Deletes /\ SeenOk
  BY StartsSafe, SeenInit
<1>2. IInv /\ Deletes /\ SeenOk /\ [Next]_vars => (IInv /\ Deletes /\ SeenOk)'
  BY StepsSafely, DeletesStep, SeenStep
<1>3. IInv /\ Deletes /\ SeenOk => NoSilentOverwrite
  BY SavedCarried
<1> QED BY <1>1, <1>2, <1>3, PTL DEF Spec

=============================================================================
