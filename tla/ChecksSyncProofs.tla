--------------------------- MODULE ChecksSyncProofs ---------------------------
(***************************************************************************)
(* The safety of the synchronization of Shared Checks, for any devices and *)
(* checks, any number of edits and restarts, and any network.              *)
(***************************************************************************)
EXTENDS ChecksSync, TLAPS, WellFoundedInduction, FiniteSetTheorems

-----------------------------------------------------------------------------
(* Types *)

Docs == [Checks -> Int]
Indices == {0} \cup {Cardinality(s) : s \in SUBSET Checks}
EditSet ==
    [n : Nat \ {0}, check : Checks, kind : {"insert", "replace", "delete"}, index : Indices,
     over : Int, early : BOOLEAN]
OpSet == [seq : Nat, id : EditSet]
BaseSet == [revision : Nat, ackSeq : Nat, state : Docs]
FlightSet ==
    [operationId : Devices \X Nat \X Nat, baseRevision : Nat, startSeq : Nat, endSeq : Nat,
     snapshot : Docs]
Points == [seq : Nat, state : Docs]
ControlSet ==
    [retry : BOOLEAN, conflict : SUBSET [kind : {"entity-conflict"}, remoteRevision : Nat]]
HeadSet ==
    [epoch : {Epoch}, seq : Nat, writer : Devices, cp : Points, journal : SUBSET OpSet,
     base : SUBSET BaseSet, flight : SUBSET FlightSet, control : SUBSET ControlSet]
RowSet == [revision : Nat, doc : Docs]
RequestSet == [device : Devices, flight : FlightSet, deletes : SUBSET Checks]
VersionSet == [doc : Docs, by : SUBSET RequestSet]

Plain == [stage : {"new", "idle", "failed", "publish", "dead"}]
Calling == [stage : {"rpc", "rejected"}, flight : FlightSet]
Merging == [stage : {"integrate"}, flight : FlightSet, rejected : BOOLEAN, row : RowSet]
Committing ==
    [stage : {"commit"}, flight : FlightSet, rejected : BOOLEAN, row : RowSet, cp : Points,
     control : SUBSET ControlSet]
Applying == [stage : {"apply"}, seq : Nat, doc : Docs]
Adopting == [stage : {"adopt"}, row : RowSet]
SyncSet == Plain \cup Calling \cup Merging \cup Committing \cup Applying \cup Adopting

New(d) == sync[d].stage = "new"

Typed ==
    /\ server \in [versions : Seq(VersionSet), operations : SUBSET (Devices \X Nat \X Nat)]
    /\ Revision # 0
    /\ requests \subseteq RequestSet
    /\ disk \in [Devices -> HeadSet \cup {EmptyHead}]
    /\ log \in [Devices -> Seq(EditSet)]
    /\ view \in [Devices -> Docs]
    /\ sync \in [Devices -> SyncSet]
    /\ edited \in Nat
    /\ \A d \in Devices :
          IF New(d) THEN disk[d] = EmptyHead /\ log[d] = <<>> ELSE disk[d] \in HeadSet

-----------------------------------------------------------------------------
(* The inductive invariant. *)

\* Every row of base that doc lacks was deleted.
Declared(base, doc, deletes) == Present(base) \ Present(doc) \subseteq deletes

HasVersion(revision, doc) ==
    revision \in 1..Revision /\ doc = server.versions[revision].doc

JournalFull(h) ==
    JournalKeysOk(h) /\ \A n \in 1..h.seq : \E op \in h.journal : op.seq = n

\* A version of the server is request r's.
Landed(r) == \E i \in DOMAIN server.versions : r \in server.versions[i].by

LandedInPlace ==
    \A i \in DOMAIN server.versions : \A r \in server.versions[i].by :
        /\ r \in requests /\ r.flight.baseRevision = i - 1
        /\ r.flight.operationId \in server.operations

\* A device settles one flight before it makes the next, at a later revision.
RequestOk(r) ==
    LET h == disk[r.device]
        b == Base(h)
        f == r.flight
    IN  /\ ~New(r.device)
        /\ f.operationId = <<r.device, f.baseRevision, f.startSeq>>
        /\ f.startSeq <= f.endSeq /\ f.baseRevision \in 1..b.revision
        /\ f.baseRevision = b.revision => h.flight = {f}
        /\ Landed(r) => f.endSeq <= b.ackSeq \/ h.flight = {f}
        /\ Declared(server.versions[f.baseRevision].doc, f.snapshot, r.deletes)

LandedInOrder ==
    \A p, q \in requests :
        Landed(p) /\ p.device = q.device /\ p.flight.baseRevision < q.flight.baseRevision
            => p.flight.endSeq < q.flight.startSeq

\* The base is a version, the checkpoint is behind neither the cursor nor the head.
BaseOk(d) ==
    LET h == disk[d]
        b == Base(h)
    IN  /\ h.base = {b} /\ HasVersion(b.revision, b.state)
        /\ b.ackSeq <= h.cp.seq /\ h.cp.seq <= h.seq
        /\ JournalFull(h)
        /\ log[d] = <<>> /\ b.ackSeq = h.seq => h.cp.state = b.state
        /\ ~InConflict(d) => Declared(b.state, h.cp.state, DeleteIntents(h, b.ackSeq + 1, h.cp.seq))

\* Every acknowledged edit was carried by an operation the server has recorded.
Earned(d) ==
    \A n \in 1..Base(disk[d]).ackSeq : \E r \in requests :
        /\ r.device = d /\ n \in r.flight.startSeq..r.flight.endSeq
        /\ r.flight.operationId \in server.operations

FlightOk(d) ==
    LET h == disk[d]
        b == Base(h)
    IN  \A f \in h.flight :
            /\ h.flight = {f}
            /\ f.baseRevision = b.revision /\ f.startSeq = b.ackSeq + 1
            /\ f.startSeq <= f.endSeq /\ f.endSeq <= h.seq
            /\ \E r \in requests : r.device = d /\ r.flight = f
            /\ Declared(b.state, f.snapshot, DeleteIntents(h, f.startSeq, f.endSeq))
            /\ f.endSeq = h.seq /\ log[d] = <<>> => f.snapshot = Recovered(d).doc

ConflictOk(d) ==
    InConflict(d) =>
        disk[d].flight = {} /\ sync[d].stage \in {"idle", "publish", "apply", "dead"}

\* What a round knows at each of its stages.
Refused(d) ==
    \/ sync[d].stage = "rejected"
    \/ sync[d].stage \in {"integrate", "commit"} /\ sync[d].rejected

RoundOk(d) ==
    LET s == sync[d]
        f == s.flight
    IN  /\ s.stage \in {"rpc", "rejected", "integrate", "commit"} => disk[d].flight = {f}
        /\ s.stage \in {"integrate", "commit", "adopt"} => HasVersion(s.row.revision, s.row.doc)
        /\ s.stage \in {"integrate", "commit"} /\ ~s.rejected => f.operationId \in server.operations
        /\ Refused(d) =>
              /\ f.baseRevision < Revision
              /\ \A r \in requests : r.device = d /\ r.flight = f => ~Landed(r)

\* What the checkpoint of a round is made of.
MergeOk(d) ==
    LET s == sync[d]
        from == IF s.rejected THEN Base(disk[d]).ackSeq + 1 ELSE s.flight.endSeq + 1
    IN  s.stage = "commit" =>
            /\ s.row.revision > s.flight.baseRevision
            /\ ~s.rejected /\ s.flight.endSeq = s.cp.seq => s.cp.state = s.row.doc
            /\ s.control = {} =>
                  Declared(s.row.doc, s.cp.state, DeleteIntents(disk[d], from, s.cp.seq))
            /\ s.control # {} => \E c \in s.control : c.conflict # {}

DeviceOk(d) ==
    ~New(d) =>
        /\ BaseOk(d) /\ Earned(d) /\ FlightOk(d)
        /\ ConflictOk(d) /\ RoundOk(d) /\ MergeOk(d)

Safe ==
    /\ LandedInPlace /\ LandedInOrder
    /\ \A r \in requests : RequestOk(r)
    /\ \A d \in Devices : DeviceOk(d)

IInv == Typed /\ Safe

-----------------------------------------------------------------------------
(* Replay *)

LEMMA LessThan ==
    \E R : IsWellFoundedOn(R, Nat) /\ \A x, y \in Nat : x < y => <<x, y>> \in R
<1>1. \A x, y \in Nat : x < y => <<x, y>> \in OpToRel(<, Nat)
  BY DEF OpToRel
<1> QED BY <1>1, NatLessThanWellFounded

LEMMA LeastExists ==
    ASSUME NEW T, T \subseteq Nat, T # {}
    PROVE  \E m \in T : \A k \in T : m <= k
<1>1. PICK R : IsWellFoundedOn(R, Nat) /\ \A x, y \in Nat : x < y => <<x, y>> \in R
  BY LessThan
<1>2. IsWellFoundedOn(R, Nat)
  BY <1>1
<1>3. \E m \in T : \A k \in T : ~ (<<k, m>> \in R)
  BY <1>2, WFMin, Zenon
<1>4. \A x, y \in Nat : ~ (x < y) => y <= x
  OBVIOUS
<1> QED BY <1>1, <1>3, <1>4

LEMMA LastExists ==
    ASSUME NEW n \in Nat, NEW S \in SUBSET (1..n), S # {}
    PROVE  \E i \in S : \A j \in S : j <= i
<1> PICK T : T = {n - i : i \in S}
  OBVIOUS
<1>1. T \subseteq Nat /\ T # {}
  <2>1. \A i \in S : n - i \in Nat
    OBVIOUS
  <2> QED BY <2>1
<1>2. PICK i \in S : \A k \in T : n - i <= k
  BY <1>1, LeastExists
<1>3. ASSUME NEW j \in S PROVE j <= i
  <2>1. n - j \in T /\ n - i <= n - j
    BY <1>2
  <2> QED BY <2>1
<1> QED BY <1>2, <1>3

\* Each row of the document is that of the last change of its check.
LEMMA AfterRow ==
    ASSUME NEW doc, NEW es, NEW n \in Nat, NEW c \in Checks
    PROVE  \/ /\ \A i \in 1..n : es[i].check # c
              /\ After(doc, es, n)[c] = doc[c]
           \/ \E i \in 1..n :
                 /\ es[i].check = c /\ \A j \in 1..n : es[j].check = c => j <= i
                 /\ After(doc, es, n)[c] = Value(es[i])
<1> PICK changes : changes = {i \in 1..n : es[i].check = c}
  OBVIOUS
<1>0. After(doc, es, n)[c] =
         IF changes = {} THEN doc[c]
         ELSE Value(es[CHOOSE i \in changes : \A j \in changes : j <= i])
  BY DEF After
<1>1. CASE changes = {}
  BY <1>0, <1>1
<1>2. CASE changes # {}
  <2>1. \E i \in changes : \A j \in changes : j <= i
    BY <1>2, LastExists
  <2> PICK k : k = CHOOSE i \in changes : \A j \in changes : j <= i
    OBVIOUS
  <2>2. k \in changes /\ \A j \in changes : j <= k
    BY <2>1
  <2>3. After(doc, es, n)[c] = Value(es[k])
    BY <1>0, <1>2
  <2> QED BY <2>2, <2>3
<1> QED BY <1>1, <1>2

LEMMA AfterTyped ==
    ASSUME NEW doc \in Docs, NEW es \in Seq(EditSet) PROVE After(doc, es, Len(es)) \in Docs
<1>1. Len(es) \in Nat /\ \A i \in 1..Len(es) : es[i] \in EditSet
  OBVIOUS
<1>2. \A i \in 1..Len(es) : Value(es[i]) \in Int
  BY <1>1 DEF Value, Absent, EditSet
<1>3. ASSUME NEW c \in Checks PROVE After(doc, es, Len(es))[c] \in Int
  BY <1>1, <1>2, AfterRow DEF Docs
<1>4. After(doc, es, Len(es)) = [c \in Checks |-> After(doc, es, Len(es))[c]]
  BY DEF After
<1> QED BY <1>3, <1>4 DEF Docs

\* The operations recover() finds in the journal, after the checkpoint.
Ops(h) == [i \in 1..(h.seq - h.cp.seq) |-> OpAt(h, h.cp.seq + i).id]

LEMMA TailTyped ==
    ASSUME NEW h \in HeadSet, JournalFull(h), h.cp.seq <= h.seq
    PROVE  /\ Ops(h) \in Seq(EditSet) /\ Len(Ops(h)) = h.seq - h.cp.seq
           /\ \A i \in 1..Len(Ops(h)) : \E op \in h.journal :
                 op.seq = h.cp.seq + i /\ op.id = Ops(h)[i]
<1>0. h.seq \in Nat /\ h.cp.seq \in Nat /\ h.journal \subseteq OpSet
  BY DEF HeadSet, Points
<1> PICK n : n = h.seq - h.cp.seq
  OBVIOUS
<1>1. n \in Nat
  BY <1>0
<1>2. ASSUME NEW i \in 1..n
      PROVE  /\ OpAt(h, h.cp.seq + i) \in h.journal
             /\ OpAt(h, h.cp.seq + i).seq = h.cp.seq + i
  <2>1. h.cp.seq + i \in 1..h.seq
    BY <1>0
  <2>2. \E op \in h.journal : op.seq = h.cp.seq + i
    BY <2>1 DEF JournalFull
  <2> QED BY <2>2 DEF OpAt
<1>3. Ops(h) = [i \in 1..n |-> OpAt(h, h.cp.seq + i).id]
  BY DEF Ops
<1>4. \A i \in 1..n : OpAt(h, h.cp.seq + i).id \in EditSet
  BY <1>0, <1>2 DEF OpSet
<1>5. Ops(h) \in [1..n -> EditSet]
  BY <1>3, <1>4
<1>6. Ops(h) \in Seq(EditSet) /\ Len(Ops(h)) = n
  BY <1>1, <1>5
<1> QED BY <1>2, <1>3, <1>6

LEMMA RecoveredDoc ==
    ASSUME NEW d \in Devices, disk[d] \in HeadSet, log[d] \in Seq(EditSet),
           JournalFull(disk[d]), disk[d].cp.seq <= disk[d].seq
    PROVE  /\ Recovered(d).doc \in Docs
           /\ log[d] = <<>> =>
                 Recovered(d).doc = After(disk[d].cp.state, Ops(disk[d]), Len(Ops(disk[d])))
<1> PICK h : h = disk[d]
  OBVIOUS
<1> PICK es : es = Ops(h)
  OBVIOUS
<1>1. es \in Seq(EditSet) /\ h.cp.state \in Docs
  BY TailTyped DEF HeadSet, Points
<1>2. es \o log[d] \in Seq(EditSet)
  BY <1>1
<1>3. Recovered(d).doc = After(h.cp.state, es \o log[d], Len(es \o log[d]))
  BY DEF Recovered, Replay, Ops
<1>4. log[d] = <<>> => es \o log[d] = es
  BY <1>1
<1> QED BY <1>1, <1>2, <1>3, <1>4, AfterTyped

\* A row the replay takes away is one an operation after the checkpoint deletes.
LEMMA RecoveredDeclared ==
    ASSUME NEW d \in Devices, disk[d] \in HeadSet, log[d] = <<>>, JournalFull(disk[d]),
           disk[d].cp.seq <= disk[d].seq
    PROVE  Declared(disk[d].cp.state, Recovered(d).doc,
                    DeleteIntents(disk[d], disk[d].cp.seq + 1, disk[d].seq))
<1> PICK h : h = disk[d]
  OBVIOUS
<1> PICK es : es = Ops(h)
  OBVIOUS
<1>0. h.seq \in Nat /\ h.cp.seq \in Nat /\ h.cp.seq <= h.seq /\ h \in HeadSet
  BY DEF HeadSet, Points
<1>1. /\ es \in Seq(EditSet) /\ Len(es) = h.seq - h.cp.seq
      /\ \A i \in 1..Len(es) : \E op \in h.journal :
            op.seq = h.cp.seq + i /\ op.id = es[i]
  BY <1>0, TailTyped
<1>2. Recovered(d).doc = After(h.cp.state, es, Len(es))
  <2>1. log[d] \in Seq(EditSet)
    OBVIOUS
  <2> QED BY <2>1, RecoveredDoc
<1> SUFFICES ASSUME NEW c \in Checks, h.cp.state[c] # Absent, Recovered(d).doc[c] = Absent
             PROVE  c \in DeleteIntents(h, h.cp.seq + 1, h.seq)
  BY DEF Declared, Present
<1>3. PICK i \in 1..Len(es) : es[i].check = c /\ Recovered(d).doc[c] = Value(es[i])
  BY <1>1, <1>2, AfterRow
<1>4. es[i].kind = "delete"
  <2>1. es[i] \in EditSet
    BY <1>1
  <2>2. es[i].n \in Nat
    BY <2>1 DEF EditSet
  <2>3. Value(es[i]) = -1
    BY <1>3 DEF Absent
  <2> QED BY <2>2, <2>3 DEF Value
<1>5. PICK op \in h.journal : op.seq = h.cp.seq + i /\ op.id = es[i]
  BY <1>1
<1>6. op.seq \in (h.cp.seq + 1)..h.seq
  BY <1>0, <1>1, <1>5
<1> QED BY <1>3, <1>4, <1>5, <1>6 DEF DeleteIntents

LEMMA RecoveredSame ==
    ASSUME NEW d \in Devices, disk'[d].cp = disk[d].cp, disk'[d].seq = disk[d].seq,
           disk'[d].journal = disk[d].journal, log'[d] = log[d]
    PROVE  Recovered(d)' = Recovered(d)
BY DEF Recovered, OpAt

\* More intents declare no less.
LEMMA DeclaredMore ==
    ASSUME NEW base, NEW doc, NEW S, NEW T, S \subseteq T, Declared(base, doc, S)
    PROVE  Declared(base, doc, T)
BY DEF Declared

-----------------------------------------------------------------------------
(* Reading the types *)

LEMMA RequestTyped ==
    ASSUME Typed, NEW r \in requests
    PROVE  /\ r.device \in Devices /\ r.flight \in FlightSet /\ r.deletes \subseteq Checks
           /\ r.flight.baseRevision \in Nat /\ r.flight.startSeq \in Nat
           /\ r.flight.endSeq \in Nat /\ r.flight.snapshot \in Docs
BY DEF Typed, RequestSet, FlightSet

LEMMA HeadTyped ==
    ASSUME NEW h \in HeadSet
    PROVE  /\ h.seq \in Nat /\ h.cp.seq \in Nat /\ h.cp.state \in Docs /\ h.cp \in Points
           /\ h.journal \subseteq OpSet /\ h.base \subseteq BaseSet /\ h.flight \subseteq FlightSet
           /\ h.control \subseteq ControlSet /\ h.epoch = Epoch /\ h.writer \in Devices
BY DEF HeadSet, Points

LEMMA FlightTyped ==
    ASSUME NEW f \in FlightSet
    PROVE  f.baseRevision \in Nat /\ f.startSeq \in Nat /\ f.endSeq \in Nat /\ f.snapshot \in Docs
BY DEF FlightSet

LEMMA BaseTyped ==
    ASSUME Typed, NEW d \in Devices, ~New(d), BaseOk(d)
    PROVE  /\ disk[d] \in HeadSet /\ Base(disk[d]) \in BaseSet
           /\ Base(disk[d]).revision \in Nat /\ Base(disk[d]).ackSeq \in Nat
           /\ Base(disk[d]).state \in Docs
           /\ Base(disk[d]).revision \in 1..Revision
<1>1. disk[d] \in HeadSet
  BY DEF Typed
<1>2. Base(disk[d]) \in BaseSet /\ Base(disk[d]).revision \in 1..Revision
  BY <1>1, HeadTyped DEF BaseOk, HasVersion
<1> QED BY <1>1, <1>2 DEF BaseSet

LEMMA VersionsTyped ==
    ASSUME Typed
    PROVE  /\ server.versions \in Seq(VersionSet) /\ Revision \in Nat /\ Revision >= 1
           /\ DOMAIN server.versions = 1..Revision /\ Document \in Docs
           /\ Row.revision = Revision /\ Row.doc = Document /\ Row \in RowSet
           /\ HasVersion(Row.revision, Row.doc)
<1>1. /\ server.versions \in Seq(VersionSet) /\ Revision \in Nat /\ Revision >= 1
      /\ DOMAIN server.versions = 1..Revision
  BY DEF Typed, Revision
<1>2. server.versions[Revision] \in VersionSet /\ Revision \in 1..Revision
  BY <1>1
<1>3. Document \in Docs
  BY <1>2 DEF Document, VersionSet
<1> QED BY <1>1, <1>2, <1>3 DEF Row, RowSet, HasVersion, Document

-----------------------------------------------------------------------------
(* The server takes a request. *)

\* Versions and the ledger only grow.
Grows ==
    /\ Revision <= Revision' /\ \A i \in 1..Revision : server'.versions[i] = server.versions[i]
    /\ server.operations \subseteq server'.operations

LEMMA SaveStep ==
    ASSUME IInv, NEW r \in requests, server' = Save(r)
    PROVE  /\ Grows
           /\ \/ server'.versions = server.versions
              \/ /\ Saved(r) /\ Revision' = Revision + 1
                 /\ server'.versions[Revision'] = [doc |-> r.flight.snapshot, by |-> {r}]
                 /\ server'.versions \in Seq(VersionSet)
           /\ DOMAIN server'.versions = 1..Revision'
           /\ Saved(r) \/ Unchanged(r) => r.flight.operationId \in server'.operations
           /\ ~Saved(r) /\ ~Unchanged(r) => server' = server
           /\ server'.operations \subseteq Devices \X Nat \X Nat
<1> PICK V : V = server.versions
  OBVIOUS
<1> PICK v : v = [doc |-> r.flight.snapshot, by |-> {r}]
  OBVIOUS
<1>0. V \in Seq(VersionSet) /\ Revision = Len(V) /\ DOMAIN V = 1..Revision /\ Revision \in Nat
  BY VersionsTyped DEF IInv, Revision
<1>1. /\ r.flight.operationId \in Devices \X Nat \X Nat /\ r \in RequestSet /\ v \in VersionSet
      /\ server \in [versions : Seq(VersionSet), operations : SUBSET (Devices \X Nat \X Nat)]
  BY DEF IInv, Typed, RequestSet, FlightSet, VersionSet
<1>2. /\ server'.versions = IF Saved(r) THEN Append(V, v) ELSE V
      /\ server'.operations = IF Saved(r) \/ Unchanged(r)
                              THEN server.operations \cup {r.flight.operationId}
                              ELSE server.operations
  BY DEF Save
<1>3. ~Saved(r) /\ ~Unchanged(r) => server' = server
  BY <1>1 DEF Save
<1>4. CASE Saved(r)
  <2>1. server'.versions = Append(V, v)
    BY <1>2, <1>4
  <2>2. /\ Len(Append(V, v)) = Len(V) + 1 /\ Append(V, v)[Len(V) + 1] = v
        /\ \A i \in 1..Len(V) : Append(V, v)[i] = V[i]
        /\ Append(V, v) \in Seq(VersionSet) /\ DOMAIN Append(V, v) = 1..(Len(V) + 1)
    BY <1>0, <1>1
  <2>3. Revision' = Revision + 1
    BY <1>0, <2>1, <2>2 DEF Revision
  <2> QED BY <1>0, <1>1, <1>2, <1>4, <2>1, <2>2, <2>3 DEF Grows
<1>5. CASE ~Saved(r)
  <2>1. server'.versions = V /\ Revision' = Revision
    BY <1>2, <1>5 DEF Revision
  <2> QED BY <1>0, <1>1, <1>2, <1>3, <1>5, <2>1 DEF Grows
<1> QED BY <1>4, <1>5

LEMMA VersionStays ==
    ASSUME IInv, NEW r \in requests, server' = Save(r)
    PROVE  /\ Revision \in Nat /\ Revision' \in Nat
           /\ \A n, doc : HasVersion(n, doc) => HasVersion(n, doc)'
<1>1. Grows /\ Revision \in Nat
  BY SaveStep, VersionsTyped DEF IInv
<1>2. \/ server'.versions = server.versions
      \/ Revision' = Revision + 1
  BY SaveStep
<1>3. Revision' \in Nat
  BY <1>1, <1>2 DEF Revision
<1>4. ASSUME NEW n, NEW doc, HasVersion(n, doc) PROVE HasVersion(n, doc)'
  <2>1. n \in 1..Revision /\ doc = server.versions[n].doc
    BY <1>4 DEF HasVersion
  <2> QED BY <1>1, <1>3, <1>4, <2>1 DEF Grows, HasVersion
<1> QED BY <1>1, <1>3, <1>4

\* The only request that lands is the one saved.
LEMMA LandedStep ==
    ASSUME IInv, NEW r \in requests, server' = Save(r), NEW q
    PROVE  /\ Landed(q)' => Landed(q) \/ (Saved(r) /\ q = r)
           /\ Landed(q) => Landed(q)'
<1>0. /\ Grows /\ DOMAIN server'.versions = 1..Revision' /\ DOMAIN server.versions = 1..Revision
      /\ Revision \in Nat
      /\ \/ server'.versions = server.versions
         \/ /\ Saved(r) /\ Revision' = Revision + 1
            /\ server'.versions[Revision'] = [doc |-> r.flight.snapshot, by |-> {r}]
  BY SaveStep, VersionsTyped DEF IInv
<1>1. CASE server'.versions = server.versions
  BY <1>1 DEF Landed
<1>2. CASE /\ Saved(r) /\ Revision' = Revision + 1
           /\ server'.versions[Revision'] = [doc |-> r.flight.snapshot, by |-> {r}]
  <2>1. ASSUME Landed(q)' PROVE Landed(q) \/ q = r
    <3>1. PICK i \in 1..Revision' : q \in server'.versions[i].by
      BY <1>0, <2>1 DEF Landed
    <3>2. CASE i = Revision'
      BY <1>2, <3>1, <3>2
    <3>3. CASE i # Revision'
      <4>1. i \in 1..Revision
        BY <1>0, <1>2, <3>3
      <4> QED BY <1>0, <3>1, <4>1 DEF Grows, Landed
    <3> QED BY <3>2, <3>3
  <2>2. ASSUME Landed(q) PROVE Landed(q)'
    <3>1. PICK i \in 1..Revision : q \in server.versions[i].by
      BY <1>0, <2>2 DEF Landed
    <3>2. i \in 1..Revision' /\ server'.versions[i] = server.versions[i]
      BY <1>0, <1>2 DEF Grows
    <3> QED BY <1>0, <3>1, <3>2 DEF Landed
  <2> QED BY <1>2, <2>1, <2>2
<1> QED BY <1>0, <1>1, <1>2

\* What can be saved is the flight its device is waiting for.
LEMMA SavedIsCurrent ==
    ASSUME IInv, NEW r \in requests, Saved(r)
    PROVE  /\ r.flight.baseRevision = Revision /\ disk[r.device].flight = {r.flight}
           /\ \A q \in requests : q.flight.baseRevision <= Revision
           /\ \A q \in requests :
                 q.device = r.device /\ q.flight.baseRevision = Revision => q.flight = r.flight
<1>1. ASSUME NEW q \in requests
      PROVE  /\ q.flight.baseRevision <= Base(disk[q.device]).revision
             /\ Base(disk[q.device]).revision <= Revision
             /\ q.flight.baseRevision \in Nat /\ Base(disk[q.device]).revision \in Nat
             /\ q.flight.baseRevision = Base(disk[q.device]).revision
                   => disk[q.device].flight = {q.flight}
  <2>1. RequestOk(q) /\ q.device \in Devices /\ q.flight.baseRevision \in Nat
    BY RequestTyped DEF IInv, Safe
  <2>2. ~New(q.device) /\ BaseOk(q.device)
    BY <2>1 DEF RequestOk, IInv, Safe, DeviceOk
  <2>3. Base(disk[q.device]).revision \in Nat /\ Base(disk[q.device]).revision \in 1..Revision
    BY <2>1, <2>2, BaseTyped DEF IInv
  <2>4. Revision \in Nat
    BY VersionsTyped DEF IInv
  <2> QED BY <2>1, <2>3, <2>4 DEF RequestOk
<1>2. r.flight.baseRevision = Revision /\ Revision \in Nat
  BY VersionsTyped DEF Saved, IInv
<1>3. disk[r.device].flight = {r.flight}
  BY <1>1, <1>2
<1>4. ASSUME NEW q \in requests
      PROVE  /\ q.flight.baseRevision <= Revision
             /\ q.device = r.device /\ q.flight.baseRevision = Revision => q.flight = r.flight
  BY <1>1, <1>2, <1>3
<1> QED BY <1>2, <1>3, <1>4

LEMMA ServeGlobal ==
    ASSUME IInv, NEW r \in requests, server' = Save(r), requests' = requests
    PROVE  LandedInPlace' /\ LandedInOrder'
<1>0. /\ Grows /\ DOMAIN server'.versions = 1..Revision' /\ DOMAIN server.versions = 1..Revision
      /\ Revision \in Nat /\ LandedInPlace /\ LandedInOrder
      /\ Saved(r) => r.flight.operationId \in server'.operations
      /\ \/ server'.versions = server.versions
         \/ /\ Saved(r) /\ Revision' = Revision + 1
            /\ server'.versions[Revision'] = [doc |-> r.flight.snapshot, by |-> {r}]
  BY SaveStep, VersionsTyped DEF IInv, Safe
<1>1. LandedInPlace'
  <2> SUFFICES ASSUME NEW i \in 1..Revision', NEW q \in server'.versions[i].by
               PROVE  /\ q \in requests /\ q.flight.baseRevision = i - 1
                      /\ q.flight.operationId \in server'.operations
    BY <1>0 DEF LandedInPlace
  <2>1. CASE i \in 1..Revision
    <3>1. q \in server.versions[i].by
      BY <1>0, <2>1 DEF Grows
    <3> QED BY <1>0, <2>1, <3>1 DEF LandedInPlace, Grows
  <2>2. CASE i \notin 1..Revision
    <3>1. Saved(r) /\ i = Revision + 1 /\ q = r
      BY <1>0, <2>2 DEF Revision
    <3>2. r.flight.baseRevision = Revision
      BY <3>1 DEF Saved
    <3> QED BY <1>0, <3>1, <3>2
  <2> QED BY <2>1, <2>2
<1>2. LandedInOrder'
  <2> SUFFICES ASSUME NEW p \in requests, NEW q \in requests, Landed(p)', p.device = q.device,
                      p.flight.baseRevision < q.flight.baseRevision
               PROVE  p.flight.endSeq < q.flight.startSeq
    BY DEF LandedInOrder
  <2>1. CASE Landed(p)
    BY <1>0, <2>1 DEF LandedInOrder
  <2>2. CASE ~Landed(p)
    <3>1. Saved(r) /\ p = r
      BY <2>2, LandedStep
    <3>2. p.flight.baseRevision = Revision /\ q.flight.baseRevision <= Revision
      BY <3>1, SavedIsCurrent
    <3>3. q.flight.baseRevision \in Nat
      BY RequestTyped DEF IInv
    <3> QED BY <1>0, <3>2, <3>3
  <2> QED BY <2>1, <2>2
<1> QED BY <1>1, <1>2

LEMMA ServeRequests ==
    ASSUME IInv, NEW r \in requests, server' = Save(r), UNCHANGED <<requests, disk>>,
           NEW q \in requests, ~New(q.device)'
    PROVE  RequestOk(q)'
<1>0. Grows /\ RequestOk(q) /\ q.device \in Devices /\ Revision \in Nat
  BY SaveStep, RequestTyped, VersionsTyped DEF IInv, Safe
<1>1. Base(disk[q.device]).revision \in 1..Revision
  BY <1>0, BaseTyped DEF IInv, Safe, DeviceOk, RequestOk
<1>2. q.flight.baseRevision \in 1..Revision
  BY <1>0, <1>1 DEF RequestOk
<1>3. server'.versions[q.flight.baseRevision] = server.versions[q.flight.baseRevision]
  BY <1>0, <1>2 DEF Grows
<1>4. Landed(q)' => q.flight.endSeq <= Base(disk[q.device]).ackSeq \/ disk[q.device].flight = {q.flight}
  <2> SUFFICES ASSUME Landed(q)'
               PROVE q.flight.endSeq <= Base(disk[q.device]).ackSeq \/ disk[q.device].flight = {q.flight}
    OBVIOUS
  <2>1. Landed(q) \/ (Saved(r) /\ q = r)
    BY LandedStep
  <2> QED BY <1>0, <2>1, SavedIsCurrent DEF RequestOk
<1> QED BY <1>0, <1>3, <1>4 DEF RequestOk

\* Of a device the server knows nothing: what holds of it holds with more versions.
LEMMA ServeHeads ==
    ASSUME IInv, NEW r \in requests, server' = Save(r), UNCHANGED <<requests, disk, log>>,
           NEW d \in Devices, ~New(d)
    PROVE  BaseOk(d)' /\ Earned(d)' /\ FlightOk(d)'
<1>0. Grows /\ BaseOk(d) /\ Earned(d) /\ FlightOk(d) /\ Revision \in Nat
  BY SaveStep, VersionsTyped DEF IInv, Safe, DeviceOk
<1>1. \A n, doc : HasVersion(n, doc) => HasVersion(n, doc)'
  BY VersionStays
<1>2. HasVersion(Base(disk[d]).revision, Base(disk[d]).state)'
  BY <1>0, <1>1 DEF BaseOk
<1>3. BaseOk(d)'
  BY <1>0, <1>2 DEF BaseOk, InConflict
<1>4. Earned(d)'
  BY <1>0 DEF Earned, Grows
<1>5. Recovered(d)' = Recovered(d)
  BY RecoveredSame
<1>6. FlightOk(d)'
  BY <1>0, <1>5 DEF FlightOk
<1> QED BY <1>3, <1>4, <1>6

LEMMA ServeDevices ==
    ASSUME IInv, NEW r \in requests, server' = Save(r), UNCHANGED <<requests, disk, log>>,
           NEW d \in Devices, sync'[d] = sync[d]
    PROVE  DeviceOk(d)'
<1> SUFFICES ASSUME ~New(d) PROVE DeviceOk(d)'
  BY DEF DeviceOk, New
<1>0. /\ Grows /\ ConflictOk(d) /\ RoundOk(d) /\ MergeOk(d)
      /\ Revision \in Nat /\ Revision' \in Nat
  BY SaveStep, VersionStays DEF IInv, Safe, DeviceOk
<1>1. BaseOk(d)' /\ Earned(d)' /\ FlightOk(d)'
  BY ServeHeads
<1>2. \A n, doc : HasVersion(n, doc) => HasVersion(n, doc)'
  BY VersionStays
<1>3. ConflictOk(d)' /\ MergeOk(d)'
  BY <1>0 DEF ConflictOk, InConflict, MergeOk
<1>4. RoundOk(d)'
  <2> PICK s : s = sync[d]
    OBVIOUS
  <2>1. /\ s.stage \in {"rpc", "rejected", "integrate", "commit"} => disk'[d].flight = {s.flight}
        /\ s.stage \in {"integrate", "commit"} /\ ~s.rejected => s.flight.operationId \in server'.operations
    BY <1>0 DEF RoundOk, Grows
  <2>2. s.stage \in {"integrate", "commit", "adopt"} => HasVersion(s.row.revision, s.row.doc)'
    BY <1>0, <1>2 DEF RoundOk
  <2>3. ASSUME Refused(d)
        PROVE  /\ s.flight.baseRevision < Revision'
               /\ \A q \in requests : q.device = d /\ q.flight = s.flight => ~Landed(q)'
    <3>1. /\ s.flight.baseRevision < Revision
          /\ \A q \in requests : q.device = d /\ q.flight = s.flight => ~Landed(q)
      BY <1>0, <2>3 DEF RoundOk
    <3>2. disk[d].flight = {s.flight} /\ disk[d] \in HeadSet
      BY <1>0, <2>3 DEF RoundOk, Refused, IInv, Typed
    <3>3. s.flight.baseRevision \in Nat
      BY <3>2, HeadTyped, FlightTyped
    <3>4. s.flight.baseRevision < Revision'
      BY <1>0, <3>1, <3>3 DEF Grows
    <3>5. ASSUME NEW q \in requests, q.device = d, q.flight = s.flight, Landed(q)' PROVE FALSE
      <4>1. Saved(r) /\ q = r
        BY <3>1, <3>5, LandedStep
      <4>2. s.flight.baseRevision = Revision
        BY <3>5, <4>1, SavedIsCurrent
      <4> QED BY <1>0, <3>1, <4>2
    <3> QED BY <3>4, <3>5
  <2>4. Refused(d)' => Refused(d)
    BY DEF Refused
  <2> QED BY <2>1, <2>2, <2>3, <2>4 DEF RoundOk
<1> QED BY <1>1, <1>3, <1>4 DEF DeviceOk

LEMMA ServeTyped ==
    ASSUME IInv, NEW r \in requests, server' = Save(r),
           UNCHANGED <<requests, disk, log, view, edited>>,
           sync' \in [Devices -> SyncSet], \A d \in Devices : New(d)' <=> New(d)
    PROVE  Typed'
<1>1. /\ Grows /\ server'.operations \subseteq Devices \X Nat \X Nat
      /\ server'.versions = server.versions \/ server'.versions \in Seq(VersionSet)
  BY SaveStep
<1>2. server'.versions \in Seq(VersionSet)
  BY <1>1, VersionsTyped DEF IInv
<1>3. server' = [versions |-> server'.versions, operations |-> server'.operations]
  BY DEF Save
<1>4. server' \in [versions : Seq(VersionSet), operations : SUBSET (Devices \X Nat \X Nat)]
  BY <1>1, <1>2, <1>3
<1>5. Revision' # 0
  BY <1>1, VersionStays, VersionsTyped DEF IInv, Grows
<1> QED BY <1>4, <1>5 DEF IInv, Typed

LEMMA ServeInvariant ==
    ASSUME IInv, NEW r \in requests, Serve(r) PROVE IInv'
<1> USE DEF Serve
<1>1. Typed'
  <2>1. sync' \in [Devices -> SyncSet] /\ \A d \in Devices : New(d)' <=> New(d)
    BY DEF IInv, Typed, New
  <2> QED BY <2>1, ServeTyped
<1>2. \A d \in Devices : DeviceOk(d)'
  BY ServeDevices
<1>3. ASSUME NEW q \in requests PROVE RequestOk(q)'
  <2>1. ~New(q.device)'
    BY DEF IInv, Safe, RequestOk, New
  <2> QED BY <2>1, ServeRequests
<1> QED BY <1>1, <1>2, <1>3, ServeGlobal DEF IInv, Safe

\* Where an answer leaves the round: a revision conflict, a row, another refusal.
LEMMA ReplyRound ==
    ASSUME IInv, NEW r \in requests, ServeAndReply(r), NEW d, d = r.device
    PROVE  /\ d \in Devices /\ ~New(d) /\ ~New(d)' /\ sync'[d] \in SyncSet
           /\ sync'[d].stage \in {"rejected", "integrate", "failed"}
           /\ RoundOk(d)'
<1>0. /\ d \in Devices /\ r.flight \in FlightSet /\ RequestOk(r) /\ server' = Save(r)
      /\ r.flight.baseRevision \in Nat
  BY RequestTyped DEF IInv, Safe, ServeAndReply
<1>1. sync[d].stage = "rpc" /\ sync[d].flight = r.flight /\ ~New(d)
  BY DEF ServeAndReply, Awaited, New
<1>2. RoundOk(d) /\ BaseOk(d)
  BY <1>0, <1>1 DEF IInv, Safe, DeviceOk
<1>3. disk'[d].flight = {r.flight}
  BY <1>1, <1>2 DEF RoundOk, ServeAndReply
<1>4. /\ Grows /\ Revision \in Nat /\ Revision' \in Nat /\ Revision # 0 /\ Revision' # 0
      /\ Saved(r) \/ Unchanged(r) => r.flight.operationId \in server'.operations
  <2>1. Grows /\ (Saved(r) \/ Unchanged(r) => r.flight.operationId \in server'.operations)
    BY <1>0, SaveStep
  <2>2. Revision \in Nat /\ Revision' \in Nat /\ Revision >= 1
    BY <1>0, VersionStays, VersionsTyped DEF IInv
  <2> QED BY <2>1, <2>2 DEF Grows
<1>5. sync'[d] = IF RevisionConflict(r) THEN [stage |-> "rejected", flight |-> r.flight]
                 ELSE IF Saved(r) \/ Unchanged(r) \/ Replayed(r)
                 THEN [stage |-> "integrate", flight |-> r.flight, rejected |-> FALSE, row |-> Row']
                 ELSE [stage |-> "failed"]
  BY <1>0 DEF ServeAndReply, IInv, Typed
<1>6. CASE RevisionConflict(r)
  <2>1. sync'[d] = [stage |-> "rejected", flight |-> r.flight]
    BY <1>5, <1>6
  <2>2. r.flight.baseRevision < Revision'
    <3>1. Base(disk[d]).revision \in Nat /\ Base(disk[d]).revision \in 1..Revision
      BY <1>0, <1>1, <1>2, BaseTyped DEF IInv
    <3>2. r.flight.baseRevision \in 1..Base(disk[d]).revision
      BY <1>0 DEF RequestOk
    <3> QED BY <1>0, <1>4, <1>6, <3>1, <3>2 DEF RevisionConflict, Grows
  <2>3. ASSUME NEW q \in requests, q.device = d, q.flight = r.flight, Landed(q)' PROVE FALSE
    <3>1. ~Saved(r) /\ ~Replayed(r)
      BY <1>6 DEF RevisionConflict, Saved
    <3>2. Landed(q)
      BY <1>0, <2>3, <3>1, LandedStep
    <3>3. q.flight.operationId \in server.operations
      BY <3>2 DEF IInv, Safe, LandedInPlace, Landed
    <3> QED BY <2>3, <3>1, <3>3 DEF Replayed
  <2>4. sync'[d] \in Calling
    BY <1>0, <2>1 DEF Calling
  <2> QED BY <1>0, <1>1, <1>3, <2>1, <2>2, <2>3, <2>4
          DEF RoundOk, Refused, New, SyncSet, ServeAndReply
<1>7. CASE ~RevisionConflict(r) /\ (Saved(r) \/ Unchanged(r) \/ Replayed(r))
  <2>1. sync'[d] = [stage |-> "integrate", flight |-> r.flight, rejected |-> FALSE, row |-> Row']
    BY <1>5, <1>7
  <2>2. HasVersion(Row.revision, Row.doc)'
    BY <1>4 DEF HasVersion, Row, Document
  <2>3. r.flight.operationId \in server'.operations
    BY <1>4, <1>7 DEF Replayed, Grows
  <2>4. Row' \in RowSet
    <3>1. server'.versions \in Seq(VersionSet)
      BY <1>0, SaveStep, VersionsTyped DEF IInv
    <3>2. Document' \in Docs
      <4>1. Revision' \in 1..Len(server'.versions)
        BY <1>4 DEF Revision
      <4>2. server'.versions[Revision'] \in VersionSet
        BY <3>1, <4>1
      <4> QED BY <4>2 DEF Document, VersionSet
    <3> QED BY <1>4, <3>2 DEF Row, RowSet
  <2>5. sync'[d] \in Merging
    BY <1>0, <2>1, <2>4 DEF Merging
  <2>6. ~Refused(d)'
    BY <2>1 DEF Refused
  <2> QED BY <1>0, <1>1, <1>3, <2>1, <2>2, <2>3, <2>5, <2>6 DEF RoundOk, New, SyncSet
<1>8. CASE ~RevisionConflict(r) /\ ~(Saved(r) \/ Unchanged(r) \/ Replayed(r))
  <2>1. sync'[d] = [stage |-> "failed"]
    BY <1>5, <1>8
  <2>2. sync'[d] \in Plain
    BY <2>1 DEF Plain
  <2> QED BY <1>0, <1>1, <2>1, <2>2 DEF RoundOk, Refused, New, SyncSet
<1> QED BY <1>6, <1>7, <1>8

LEMMA ReplyInvariant ==
    ASSUME IInv, NEW r \in requests, ServeAndReply(r) PROVE IInv'
<1> PICK d : d = r.device
  OBVIOUS
<1>0. /\ server' = Save(r) /\ UNCHANGED <<requests, disk, log, view, edited>>
      /\ d \in Devices /\ ~New(d) /\ ~New(d)' /\ sync'[d] \in SyncSet
      /\ sync'[d].stage \in {"rejected", "integrate", "failed"} /\ RoundOk(d)'
  BY ReplyRound DEF ServeAndReply
<1>1. /\ sync' = [sync EXCEPT ![d] = sync'[d]]
      /\ \A x \in Devices \ {d} : sync'[x] = sync[x]
  BY <1>0 DEF ServeAndReply, IInv, Typed
<1>2. /\ sync' \in [Devices -> SyncSet]
      /\ \A x \in Devices : New(x)' <=> New(x)
  BY <1>0, <1>1 DEF IInv, Typed, New
<1>3. Typed'
  BY <1>0, <1>2, ServeTyped
<1>4. ASSUME NEW q \in requests PROVE RequestOk(q)'
  <2>1. ~New(q.device)'
    BY <1>2, RequestTyped DEF IInv, Safe, RequestOk
  <2> QED BY <1>0, <2>1, ServeRequests
<1>5. ASSUME NEW x \in Devices PROVE DeviceOk(x)'
  <2>1. CASE x # d
    BY <1>0, <1>1, <2>1, ServeDevices
  <2>2. CASE x = d
    <3>1. BaseOk(d)' /\ Earned(d)' /\ FlightOk(d)'
      BY <1>0, ServeHeads
    <3>2. ~InConflict(d)
      BY <1>0 DEF IInv, Safe, DeviceOk, ConflictOk, ServeAndReply, Awaited
    <3>3. ConflictOk(d)' /\ MergeOk(d)'
      BY <1>0, <3>2 DEF ConflictOk, InConflict, MergeOk
    <3> QED BY <1>0, <2>2, <3>1, <3>3 DEF DeviceOk
  <2> QED BY <2>1, <2>2
<1> QED BY <1>0, <1>3, <1>4, <1>5, ServeGlobal DEF IInv, Safe

-----------------------------------------------------------------------------
(* A step of a device: what it leaves alone keeps its invariant. *)

StepOf(d) ==
    /\ server' = server
    /\ disk' = [disk EXCEPT ![d] = disk'[d]] /\ log' = [log EXCEPT ![d] = log'[d]]
    /\ view' = [view EXCEPT ![d] = view'[d]] /\ sync' = [sync EXCEPT ![d] = sync'[d]]
    /\ requests \subseteq requests' /\ \A r \in requests' : r \in requests \/ r.device = d

LEMMA SameIsStep ==
    ASSUME Typed, NEW d \in Devices
    PROVE  /\ disk = [disk EXCEPT ![d] = disk[d]] /\ log = [log EXCEPT ![d] = log[d]]
           /\ view = [view EXCEPT ![d] = view[d]] /\ sync = [sync EXCEPT ![d] = sync[d]]
BY DEF Typed

LEMMA DeviceFacts ==
    ASSUME IInv, NEW d \in Devices, ~New(d)
    PROVE  /\ disk[d] \in HeadSet /\ log[d] \in Seq(EditSet) /\ view[d] \in Docs
           /\ sync[d] \in SyncSet /\ Base(disk[d]) \in BaseSet
           /\ BaseOk(d) /\ Earned(d) /\ FlightOk(d) /\ ConflictOk(d) /\ RoundOk(d) /\ MergeOk(d)
<1>1. BaseOk(d) /\ Earned(d) /\ FlightOk(d) /\ ConflictOk(d) /\ RoundOk(d) /\ MergeOk(d)
  BY DEF IInv, Safe, DeviceOk
<1>2. disk[d] \in HeadSet /\ Base(disk[d]) \in BaseSet
  BY <1>1, BaseTyped DEF IInv
<1> QED BY <1>1, <1>2 DEF IInv, Typed

LEMMA StepTyped ==
    ASSUME Typed, NEW d \in Devices, StepOf(d), disk'[d] \in HeadSet, log'[d] \in Seq(EditSet),
           view'[d] \in Docs, sync'[d] \in SyncSet, ~New(d)',
           requests' \subseteq RequestSet, edited' \in Nat
    PROVE  Typed'
<1>1. /\ disk' \in [Devices -> HeadSet \cup {EmptyHead}] /\ log' \in [Devices -> Seq(EditSet)]
      /\ view' \in [Devices -> Docs] /\ sync' \in [Devices -> SyncSet]
  BY DEF Typed, StepOf
<1>2. server' = server
  BY DEF StepOf
<1>3. ASSUME NEW x \in Devices
      PROVE  IF New(x)' THEN disk'[x] = EmptyHead /\ log'[x] = <<>> ELSE disk'[x] \in HeadSet
  <2>1. CASE x = d
    BY <2>1
  <2>2. CASE x # d
    <3>1. disk'[x] = disk[x] /\ log'[x] = log[x] /\ sync'[x] = sync[x]
      BY <2>2 DEF Typed, StepOf
    <3> QED BY <3>1 DEF Typed, New
  <2> QED BY <2>1, <2>2
<1> QED BY <1>1, <1>2, <1>3 DEF Typed, Revision

LEMMA StepSafe ==
    ASSUME IInv, NEW d \in Devices, StepOf(d), DeviceOk(d)', LandedInOrder',
           \A r \in requests' : r.device = d => RequestOk(r)'
    PROVE  Safe'
<1>0. /\ server' = server /\ requests \subseteq requests'
      /\ \A r \in requests' : r \in requests \/ r.device = d
      /\ \A x \in Devices \ {d} : disk'[x] = disk[x] /\ log'[x] = log[x] /\ sync'[x] = sync[x]
  BY DEF StepOf, IInv, Typed
<1>1. LandedInPlace'
  BY <1>0 DEF LandedInPlace, IInv, Safe
<1>2. ASSUME NEW r \in requests', r.device # d PROVE RequestOk(r)'
  <2>1. r \in requests /\ r.device \in Devices \ {d} /\ RequestOk(r)
    BY <1>0, <1>2, RequestTyped DEF IInv, Safe
  <2> QED BY <1>0, <2>1 DEF RequestOk, New, Landed
<1>3. ASSUME NEW x \in Devices, x # d PROVE DeviceOk(x)'
  <2> SUFFICES ASSUME ~New(x) PROVE DeviceOk(x)'
    BY <1>0, <1>3 DEF DeviceOk, New
  <2>1. /\ BaseOk(x) /\ Earned(x) /\ FlightOk(x) /\ ConflictOk(x) /\ RoundOk(x) /\ MergeOk(x)
    BY <1>3, DeviceFacts
  <2>2. disk'[x] = disk[x] /\ log'[x] = log[x] /\ sync'[x] = sync[x]
    BY <1>0, <1>3
  <2>3. BaseOk(x)' /\ ConflictOk(x)' /\ MergeOk(x)'
    BY <1>0, <2>1, <2>2 DEF BaseOk, ConflictOk, MergeOk, InConflict, HasVersion, Revision
  <2>4. Earned(x)'
    BY <1>0, <2>1, <2>2 DEF Earned
  <2>5. FlightOk(x)'
    <3>1. Recovered(x)' = Recovered(x)
      BY <2>2, RecoveredSame
    <3> QED BY <1>0, <2>1, <2>2, <3>1 DEF FlightOk
  <2>6. RoundOk(x)'
    <3>1. \A r \in requests' : r.device = x => r \in requests
      BY <1>0, <1>3
    <3> QED BY <1>0, <2>1, <2>2, <3>1 DEF RoundOk, HasVersion, Revision, Refused, Landed
  <2> QED BY <2>3, <2>4, <2>5, <2>6 DEF DeviceOk
<1> QED BY <1>1, <1>2, <1>3 DEF Safe

\* With no new request: the requests of the device need only its new head.
LEMMA StepInvariant ==
    ASSUME IInv, NEW d \in Devices, StepOf(d), requests' = requests, edited' \in Nat,
           disk'[d] \in HeadSet, log'[d] \in Seq(EditSet), view'[d] \in Docs,
           sync'[d] \in SyncSet, ~New(d)', DeviceOk(d)',
           \A r \in requests : r.device = d => RequestOk(r)'
    PROVE  IInv'
<1>1. Typed'
  BY StepTyped DEF IInv, Typed
<1>2. LandedInOrder'
  BY DEF LandedInOrder, Landed, IInv, Safe, StepOf
<1>3. Safe'
  BY <1>2, StepSafe
<1> QED BY <1>1, <1>3 DEF IInv

\* The head's cursor and flight unchanged, so are the requests'.
LEMMA RequestsStay ==
    ASSUME IInv, NEW d \in Devices, server' = server, ~New(d)',
           disk'[d].base = disk[d].base, disk'[d].flight = disk[d].flight
    PROVE  \A r \in requests : r.device = d => RequestOk(r)'
<1> SUFFICES ASSUME NEW r \in requests, r.device = d PROVE RequestOk(r)'
  OBVIOUS
<1>1. RequestOk(r)
  BY DEF IInv, Safe
<1>2. Base(disk'[d]) = Base(disk[d])
  BY DEF Base
<1> QED BY <1>1, <1>2 DEF RequestOk, Landed, New

\* A round goes on by itself: the head, the log and the requests stay.
LEMMA RoundInvariant ==
    ASSUME IInv, NEW d \in Devices, ~New(d), UNCHANGED <<server, requests, disk, log, edited>>,
           NEW s \in SyncSet, sync' = [sync EXCEPT ![d] = s], s.stage # "new",
           view' = [view EXCEPT ![d] = view'[d]], view'[d] \in Docs,
           ConflictOk(d)', RoundOk(d)', MergeOk(d)'
    PROVE  IInv'
<1>1. sync'[d] = s /\ ~New(d)'
  BY DEF IInv, Typed, New
<1>2. StepOf(d)
  BY <1>1, SameIsStep DEF StepOf, IInv
<1>3. /\ disk[d] \in HeadSet /\ log[d] \in Seq(EditSet)
      /\ BaseOk(d) /\ Earned(d) /\ FlightOk(d)
  BY DeviceFacts
<1>4. Recovered(d)' = Recovered(d)
  BY RecoveredSame
<1>5. BaseOk(d)' /\ Earned(d)' /\ FlightOk(d)'
  BY <1>3, <1>4 DEF BaseOk, Earned, FlightOk, InConflict, HasVersion, Revision
<1>6. DeviceOk(d)'
  BY <1>5 DEF DeviceOk
<1>7. \A r \in requests : r.device = d => RequestOk(r)'
  BY <1>1, RequestsStay
<1>8. edited' \in Nat
  BY DEF IInv, Typed
<1> QED BY <1>1, <1>2, <1>3, <1>6, <1>7, <1>8, StepInvariant

\* No round: nothing to know.
LEMMA PlainRound ==
    ASSUME IInv, NEW d \in Devices, ~New(d), UNCHANGED <<server, requests, disk, log, edited>>,
           NEW s \in SyncSet, sync' = [sync EXCEPT ![d] = s],
           s.stage \in {"idle", "failed", "publish", "apply", "dead"},
           InConflict(d) => s.stage # "failed",
           view' = [view EXCEPT ![d] = view'[d]], view'[d] \in Docs
    PROVE  IInv'
<1>1. sync'[d] = s
  BY DEF IInv, Typed
<1>2. ConflictOk(d)
  BY DeviceFacts
<1>3. ConflictOk(d)' /\ RoundOk(d)' /\ MergeOk(d)'
  BY <1>1, <1>2 DEF ConflictOk, InConflict, RoundOk, Refused, MergeOk
<1> QED BY <1>3, RoundInvariant

LEMMA ReadRemoteInvariant ==
    ASSUME IInv, NEW d \in Devices, ReadRemote(d) PROVE IInv'
<1> PICK s : s = [stage |-> "integrate", flight |-> sync[d].flight, rejected |-> TRUE, row |-> Row]
  OBVIOUS
<1>0. /\ sync[d].stage = "rejected" /\ ~New(d) /\ sync' = [sync EXCEPT ![d] = s]
      /\ UNCHANGED <<server, requests, disk, log, view, edited>>
  BY DEF ReadRemote, New
<1>1. /\ sync[d] \in SyncSet /\ RoundOk(d) /\ ConflictOk(d) /\ view[d] \in Docs
  BY <1>0, DeviceFacts
<1>2. sync[d].flight \in FlightSet
  BY <1>0, <1>1 DEF SyncSet, Plain, Calling, Merging, Committing, Applying, Adopting
<1>3. Row \in RowSet /\ HasVersion(Row.revision, Row.doc)
  BY VersionsTyped DEF IInv
<1>4. s \in SyncSet
  BY <1>2, <1>3 DEF SyncSet, Merging
<1>5. sync'[d] = s
  BY <1>0 DEF IInv, Typed
<1>6. HasVersion(Row.revision, Row.doc)'
  BY <1>0, <1>3 DEF HasVersion, Row, Revision, Document
<1>7. /\ disk'[d].flight = {sync[d].flight} /\ sync[d].flight.baseRevision < Revision'
      /\ \A r \in requests' : r.device = d /\ r.flight = sync[d].flight => ~Landed(r)'
  BY <1>0, <1>1 DEF RoundOk, Refused, Landed, Revision
<1>8. Row' = Row
  BY <1>0 DEF Row, Revision, Document
<1>9. RoundOk(d)'
  BY <1>5, <1>6, <1>7, <1>8 DEF RoundOk
<1>10. ConflictOk(d)' /\ MergeOk(d)'
  BY <1>0, <1>1, <1>5 DEF ConflictOk, InConflict, MergeOk
<1>11. view' = [view EXCEPT ![d] = view'[d]] /\ view'[d] \in Docs
  BY <1>0, <1>1, SameIsStep DEF IInv
<1> QED BY <1>0, <1>4, <1>9, <1>10, <1>11, RoundInvariant

LEMMA TimeoutInvariant ==
    ASSUME IInv, NEW d \in Devices, Timeout(d) PROVE IInv'
<1> PICK s : s = [stage |-> "failed"]
  OBVIOUS
<1>0. /\ sync[d].stage \in {"rpc", "rejected"} /\ ~New(d) /\ sync' = [sync EXCEPT ![d] = s]
      /\ UNCHANGED <<server, requests, disk, log, view, edited>>
  BY DEF Timeout, New
<1>1. /\ ConflictOk(d) /\ view[d] \in Docs
  BY <1>0, DeviceFacts
<1>2. s \in SyncSet
  BY DEF SyncSet, Plain
<1>3. view' = [view EXCEPT ![d] = view'[d]] /\ view'[d] \in Docs
  BY <1>0, <1>1, SameIsStep DEF IInv
<1>4. ~InConflict(d)
  BY <1>0, <1>1 DEF ConflictOk
<1> QED BY <1>0, <1>2, <1>3, <1>4, PlainRound

LEMMA PollInvariant ==
    ASSUME IInv, NEW d \in Devices, Poll(d) PROVE IInv'
<1> PICK s : s = [stage |-> "adopt", row |-> Row]
  OBVIOUS
<1>0. /\ ~New(d) /\ ~InConflict(d) /\ sync' = [sync EXCEPT ![d] = s]
      /\ UNCHANGED <<server, requests, disk, log, view, edited>>
  BY DEF Poll, MaySync, Idle, New
<1>1. view[d] \in Docs
  BY <1>0, DeviceFacts
<1>2. Row \in RowSet /\ HasVersion(Row.revision, Row.doc)
  BY VersionsTyped DEF IInv
<1>3. s \in SyncSet
  BY <1>2 DEF SyncSet, Adopting
<1>4. sync'[d] = s
  BY <1>0 DEF IInv, Typed
<1>5. HasVersion(Row.revision, Row.doc)' /\ Row' = Row
  BY <1>0, <1>2 DEF HasVersion, Row, Revision, Document
<1>6. ConflictOk(d)' /\ RoundOk(d)' /\ MergeOk(d)'
  BY <1>0, <1>4, <1>5 DEF ConflictOk, InConflict, RoundOk, Refused, MergeOk
<1>7. view' = [view EXCEPT ![d] = view'[d]] /\ view'[d] \in Docs
  BY <1>0, <1>1, SameIsStep DEF IInv
<1> QED BY <1>0, <1>3, <1>6, <1>7, RoundInvariant

LEMMA RecoveredTyped ==
    ASSUME IInv, NEW d \in Devices, ~New(d)
    PROVE  Recovered(d).doc \in Docs
<1>1. disk[d] \in HeadSet /\ log[d] \in Seq(EditSet) /\ BaseOk(d)
  BY DeviceFacts
<1>2. JournalFull(disk[d]) /\ disk[d].cp.seq <= disk[d].seq
  BY <1>1 DEF BaseOk
<1> QED BY <1>1, <1>2, RecoveredDoc

LEMMA PublishReadInvariant ==
    ASSUME IInv, NEW d \in Devices, PublishRead(d) PROVE IInv'
<1>0. /\ sync[d].stage = "publish" /\ ~New(d)
      /\ UNCHANGED <<server, requests, disk, log, view, edited>>
  BY DEF PublishRead, New
<1>1. disk[d] \in HeadSet /\ log[d] \in Seq(EditSet) /\ view[d] \in Docs /\ Recovered(d).doc \in Docs
  BY <1>0, DeviceFacts, RecoveredTyped
<1> PICK s : s = IF Recovered(d).ok
                 THEN [stage |-> "apply", seq |-> StoreSeq(d), doc |-> Recovered(d).doc] ELSE Dead
  OBVIOUS
<1>2. sync' = [sync EXCEPT ![d] = s]
  BY DEF PublishRead
<1>3. StoreSeq(d) \in Nat
  BY <1>1, HeadTyped DEF StoreSeq
<1>4. s \in SyncSet /\ s.stage \in {"apply", "dead"}
  <2>1. CASE Recovered(d).ok
    BY <1>1, <1>3, <2>1 DEF SyncSet, Applying
  <2>2. CASE ~Recovered(d).ok
    BY <2>2 DEF SyncSet, Plain, Dead
  <2> QED BY <2>1, <2>2
<1>5. view' = [view EXCEPT ![d] = view'[d]] /\ view'[d] \in Docs
  BY <1>0, <1>1, SameIsStep DEF IInv
<1> QED BY <1>0, <1>2, <1>4, <1>5, PlainRound

LEMMA PublishApplyInvariant ==
    ASSUME IInv, NEW d \in Devices, PublishApply(d) PROVE IInv'
<1>0. /\ sync[d].stage = "apply" /\ ~New(d)
      /\ UNCHANGED <<server, requests, disk, log, edited>>
  BY DEF PublishApply, New
<1>1. sync[d] \in SyncSet /\ view[d] \in Docs /\ view \in [Devices -> Docs]
  BY <1>0, DeviceFacts DEF IInv, Typed
<1>2. sync[d].doc \in Docs
  BY <1>0, <1>1 DEF SyncSet, Plain, Calling, Merging, Committing, Applying, Adopting
<1>3. CASE sync[d].seq = StoreSeq(d)
  <2>1. Idle \in SyncSet /\ Idle.stage = "idle"
    BY DEF SyncSet, Plain, Idle
  <2>2. view' = [view EXCEPT ![d] = sync[d].doc] /\ sync' = [sync EXCEPT ![d] = Idle]
    BY <1>3 DEF PublishApply
  <2>3. view' = [view EXCEPT ![d] = view'[d]] /\ view'[d] \in Docs
    BY <1>1, <1>2, <2>2
  <2> QED BY <1>0, <2>1, <2>2, <2>3, PlainRound
<1>4. CASE sync[d].seq # StoreSeq(d)
  <2> PICK s : s = [stage |-> "publish"]
    OBVIOUS
  <2>1. s \in SyncSet /\ s.stage = "publish"
    BY DEF SyncSet, Plain
  <2>2. view' = view /\ sync' = [sync EXCEPT ![d] = s]
    BY <1>4 DEF PublishApply
  <2>3. view' = [view EXCEPT ![d] = view'[d]] /\ view'[d] \in Docs
    BY <1>1, <2>2
  <2> QED BY <1>0, <2>1, <2>2, <2>3, PlainRound
<1> QED BY <1>3, <1>4

LEMMA RestartInvariant ==
    ASSUME IInv, NEW d \in Devices, Restart(d) PROVE IInv'
<1>0. ~New(d) /\ UNCHANGED <<server, requests, disk, log, edited>>
  BY DEF Restart, Active, New
<1>1. Recovered(d).doc \in Docs /\ view[d] \in Docs /\ view \in [Devices -> Docs]
  BY <1>0, DeviceFacts, RecoveredTyped DEF IInv, Typed
<1>2. Idle \in SyncSet /\ Idle.stage = "idle" /\ Dead \in SyncSet /\ Dead.stage = "dead"
  BY DEF SyncSet, Plain, Idle, Dead
<1>3. view' = [view EXCEPT ![d] = view'[d]] /\ view'[d] \in Docs
  BY <1>1 DEF Restart
<1>4. CASE Recovered(d).ok
  <2>1. sync' = [sync EXCEPT ![d] = Idle]
    BY <1>4 DEF Restart
  <2> QED BY <1>0, <1>2, <1>3, <2>1, PlainRound
<1>5. CASE ~Recovered(d).ok
  <2>1. sync' = [sync EXCEPT ![d] = Dead]
    BY <1>5 DEF Restart
  <2> QED BY <1>0, <1>2, <1>3, <2>1, PlainRound
<1> QED BY <1>4, <1>5

LEMMA RoundTyped ==
    ASSUME NEW s \in SyncSet, s.stage \in {"integrate", "commit"}
    PROVE  /\ s.flight \in FlightSet /\ s.rejected \in BOOLEAN /\ s.row \in RowSet
           /\ s.row.revision \in Nat /\ s.row.doc \in Docs
           /\ s.stage = "commit" => s.cp \in Points /\ s.control \subseteq ControlSet
<1>1. s \in Merging \/ s \in Committing
  BY DEF SyncSet, Plain, Calling, Applying, Adopting, Merging, Committing
<1>2. /\ s.flight \in FlightSet /\ s.rejected \in BOOLEAN /\ s.row \in RowSet
      /\ s.stage = "commit" => s.cp \in Points /\ s.control \subseteq ControlSet
  BY <1>1 DEF Merging, Committing
<1> QED BY <1>2 DEF RowSet

\* The merge takes a row of the server away only if an intent says so, and merging
\* a document that did not change gives the server's.
LEMMA MergeDeclares ==
    ASSUME NEW base \in Docs, NEW local \in Docs, NEW remote \in Docs, NEW deletes,
           NEW merged, merged = MergeSharedChecks(base, local, remote, deletes)
    PROVE  /\ merged.checks \in Docs
           /\ Declared(remote, merged.checks, deletes)
           /\ local = base => merged.conflicts = {} /\ merged.checks = remote
<1> PICK mine : mine = ProtectImplicitDeletes(base, local, deletes)
  OBVIOUS
<1> PICK checks : checks = [c \in Checks |-> IF mine[c] # base[c] THEN mine[c] ELSE remote[c]]
  OBVIOUS
<1>1. /\ merged.checks = checks
      /\ merged.conflicts = {c \in Checks : /\ mine[c] # base[c] /\ remote[c] # base[c]
                                            /\ mine[c] # remote[c]}
  BY DEF MergeSharedChecks
<1>2. \A c \in Checks :
         mine[c] = IF local[c] = Absent /\ c \notin deletes THEN base[c] ELSE local[c]
  BY DEF ProtectImplicitDeletes
<1>3. \A c \in Checks : checks[c] = IF mine[c] # base[c] THEN mine[c] ELSE remote[c]
  OBVIOUS
<1>4. checks \in Docs
  <2>1. \A c \in Checks : base[c] \in Int /\ local[c] \in Int /\ remote[c] \in Int
    BY DEF Docs
  <2>2. \A c \in Checks : checks[c] \in Int
    BY <1>2, <1>3, <2>1
  <2>3. checks = [c \in Checks |-> checks[c]]
    OBVIOUS
  <2> QED BY <2>2, <2>3 DEF Docs
<1>5. ASSUME NEW c \in Checks, remote[c] # Absent, checks[c] = Absent PROVE c \in deletes
  <2>1. mine[c] = Absent /\ mine[c] # base[c]
    BY <1>3, <1>5
  <2> QED BY <1>2, <2>1
<1>6. ASSUME local = base PROVE merged.conflicts = {} /\ checks = remote
  <2>1. \A c \in Checks : mine[c] = base[c]
    BY <1>2, <1>6
  <2>2. \A c \in Checks : checks[c] = remote[c]
    BY <1>3, <2>1
  <2>3. remote = [c \in Checks |-> remote[c]]
    BY DEF Docs
  <2> QED BY <1>1, <2>1, <2>2, <2>3
<1> QED BY <1>1, <1>4, <1>5, <1>6 DEF Declared, Present

LEMMA IntegrateMerge ==
    ASSUME IInv, NEW d \in Devices, Integrate(d), BelievedRow(sync[d])
    PROVE  \E s \in Committing :
              /\ sync' = [sync EXCEPT ![d] = s]
              /\ s.flight = sync[d].flight /\ s.rejected = sync[d].rejected
              /\ s.row = sync[d].row /\ MergeOk(d)'
<1> PICK h : h = disk[d]
  OBVIOUS
<1> PICK o : o = sync[d]
  OBVIOUS
<1> PICK local : local = Recovered(d).doc
  OBVIOUS
<1> PICK base : base = IF o.rejected THEN Base(h).state ELSE o.flight.snapshot
  OBVIOUS
<1> PICK from : from = IF o.rejected THEN Base(h).ackSeq + 1 ELSE o.flight.endSeq + 1
  OBVIOUS
<1> PICK deletes : deletes = DeleteIntents(h, from, h.seq)
  OBVIOUS
<1> PICK merged : merged = MergeSharedChecks(base, local, o.row.doc, deletes)
  OBVIOUS
<1> PICK state : state = IF merged.conflicts = {} THEN merged.checks ELSE local
  OBVIOUS
<1> PICK conflict : conflict = [kind |-> "entity-conflict", remoteRevision |-> o.row.revision]
  OBVIOUS
<1> PICK control : control = IF merged.conflicts = {} THEN {}
                             ELSE {[retry |-> FALSE, conflict |-> {conflict}]}
  OBVIOUS
<1> PICK s : s = [stage |-> "commit", flight |-> o.flight, rejected |-> o.rejected,
                  row |-> o.row, cp |-> [seq |-> h.seq, state |-> state], control |-> control]
  OBVIOUS
<1>0. /\ o.stage = "integrate" /\ log[d] = <<>> /\ ~New(d) /\ disk' = disk
      /\ sync' = [sync EXCEPT ![d] = s]
  BY DEF Integrate, New
<1>1. /\ h \in HeadSet /\ o \in SyncSet /\ Base(h) \in BaseSet /\ FlightOk(d) /\ RoundOk(d)
      /\ local \in Docs
  BY <1>0, DeviceFacts, RecoveredTyped
<1>2. /\ o.flight \in FlightSet /\ o.rejected \in BOOLEAN /\ o.row \in RowSet
      /\ o.row.revision \in Nat /\ o.row.doc \in Docs
  BY <1>0, <1>1, RoundTyped
<1>3. h.seq \in Nat /\ o.flight.endSeq \in Nat /\ o.flight.snapshot \in Docs /\ Base(h).state \in Docs
      /\ h.journal \subseteq OpSet
  BY <1>1, <1>2, HeadTyped, FlightTyped DEF BaseSet
<1>4. base \in Docs
  BY <1>3
<1>5. /\ merged.checks \in Docs /\ Declared(o.row.doc, merged.checks, deletes)
      /\ local = base => merged.conflicts = {} /\ merged.checks = o.row.doc
  <2> PICK remote : remote = o.row.doc
    OBVIOUS
  <2>1. /\ base \in Docs /\ local \in Docs /\ remote \in Docs
        /\ merged = MergeSharedChecks(base, local, remote, deletes)
    BY <1>1, <1>2, <1>4
  <2>2. /\ merged.checks \in Docs /\ Declared(remote, merged.checks, deletes)
        /\ local = base => merged.conflicts = {} /\ merged.checks = remote
    BY ONLY <2>1, MergeDeclares
  <2> QED BY <2>2
<1>6. state \in Docs
  BY <1>1, <1>5
<1>7. control \subseteq ControlSet
  <2>1. conflict \in [kind : {"entity-conflict"}, remoteRevision : Nat]
    BY <1>2
  <2>2. [retry |-> FALSE, conflict |-> {conflict}] \in ControlSet
    BY <2>1 DEF ControlSet
  <2> QED BY <2>2
<1>8. s \in Committing
  BY <1>2, <1>3, <1>6, <1>7 DEF Committing, Points
<1>9. ASSUME ~o.rejected, o.flight.endSeq = h.seq PROVE state = o.row.doc
  <2>1. h.flight = {o.flight}
    BY <1>0, <1>1 DEF RoundOk
  <2>2. o.flight.snapshot = local
    BY <1>0, <1>1, <1>9, <2>1 DEF FlightOk
  <2> QED BY <1>5, <1>9, <2>2
<1>10. sync'[d] = s
  BY <1>0 DEF IInv, Typed
<1>11. MergeOk(d)'
  <2>1. o.row.revision > o.flight.baseRevision
    BY DEF BelievedRow
  <2>2. control = {} => Declared(o.row.doc, state, deletes)
    BY <1>5
  <2>3. control # {} => \E c \in control : c.conflict # {}
    OBVIOUS
  <2>4. /\ s.row = o.row /\ s.flight = o.flight /\ s.rejected = o.rejected
        /\ s.cp.seq = h.seq /\ s.cp.state = state /\ s.control = control /\ disk'[d] = h
    BY <1>0
  <2>5. from = IF s.rejected THEN Base(disk'[d]).ackSeq + 1 ELSE s.flight.endSeq + 1
    BY <2>4
  <2>6. s.control = {} => Declared(s.row.doc, s.cp.state, DeleteIntents(disk'[d], from, s.cp.seq))
    BY <2>2, <2>4
  <2>7. ~s.rejected /\ s.flight.endSeq = s.cp.seq => s.cp.state = s.row.doc
    BY <1>9, <2>4
  <2>8. s.row.revision > s.flight.baseRevision
    BY <2>1, <2>4
  <2>9. s.control # {} => \E c \in s.control : c.conflict # {}
    BY <2>3, <2>4
  <2> QED BY <1>10, <2>5, <2>6, <2>7, <2>8, <2>9 DEF MergeOk
<1> QED BY <1>0, <1>8, <1>11

LEMMA IntegrateInvariant ==
    ASSUME IInv, NEW d \in Devices, Integrate(d) PROVE IInv'
<1>0. /\ sync[d].stage = "integrate" /\ ~New(d)
      /\ UNCHANGED <<server, requests, disk, log, view, edited>>
  BY DEF Integrate, New
<1>1. /\ sync[d] \in SyncSet /\ view[d] \in Docs /\ RoundOk(d) /\ ConflictOk(d)
  BY <1>0, DeviceFacts
<1>2. view' = [view EXCEPT ![d] = view'[d]] /\ view'[d] \in Docs
  BY <1>0, <1>1, SameIsStep DEF IInv
<1>3. ~InConflict(d)
  BY <1>0, <1>1 DEF ConflictOk
<1>4. CASE BelievedRow(sync[d])
  <2>1. PICK s \in Committing :
              /\ sync' = [sync EXCEPT ![d] = s]
              /\ s.flight = sync[d].flight /\ s.rejected = sync[d].rejected
              /\ s.row = sync[d].row /\ MergeOk(d)'
    BY <1>4, IntegrateMerge
  <2>2. s.stage = "commit" /\ s \in SyncSet
    BY DEF Committing, SyncSet
  <2>3. sync'[d] = s
    BY <2>1 DEF IInv, Typed
  <2>4. RoundOk(d)'
    BY <1>0, <1>1, <2>1, <2>2, <2>3 DEF RoundOk, HasVersion, Revision, Refused, Landed
  <2>5. ConflictOk(d)'
    BY <1>0, <1>3 DEF ConflictOk, InConflict
  <2> QED BY <1>0, <1>2, <2>1, <2>2, <2>4, <2>5, RoundInvariant
<1>5. CASE ~BelievedRow(sync[d])
  <2> PICK s : s = [stage |-> "failed"]
    OBVIOUS
  <2>1. s \in SyncSet /\ s.stage = "failed"
    BY DEF SyncSet, Plain
  <2>2. sync' = [sync EXCEPT ![d] = s]
    BY <1>5 DEF Integrate
  <2> QED BY <1>0, <1>2, <1>3, <2>1, <2>2, PlainRound
<1> QED BY <1>4, <1>5

LEMMA RetryInvariant ==
    ASSUME IInv, NEW d \in Devices, Retry(d) PROVE IInv'
<1> PICK s : s = [stage |-> "integrate", flight |-> sync[d].flight,
                  rejected |-> sync[d].rejected, row |-> sync[d].row]
  OBVIOUS
<1>0. /\ sync[d].stage = "commit" /\ ~New(d) /\ sync' = [sync EXCEPT ![d] = s]
      /\ UNCHANGED <<server, requests, disk, log, view, edited>>
  BY DEF Retry, New
<1>1. /\ sync[d] \in SyncSet /\ view[d] \in Docs /\ RoundOk(d) /\ ConflictOk(d)
  BY <1>0, DeviceFacts
<1>2. view' = [view EXCEPT ![d] = view'[d]] /\ view'[d] \in Docs
  BY <1>0, <1>1, SameIsStep DEF IInv
<1>3. s \in SyncSet
  BY <1>0, <1>1, RoundTyped DEF SyncSet, Merging
<1>4. sync'[d] = s
  BY <1>0 DEF IInv, Typed
<1>5. RoundOk(d)'
  BY <1>0, <1>1, <1>4 DEF RoundOk, HasVersion, Revision, Refused, Landed
<1>6. ConflictOk(d)' /\ MergeOk(d)'
  BY <1>0, <1>1, <1>4 DEF ConflictOk, InConflict, MergeOk
<1> QED BY <1>0, <1>2, <1>3, <1>5, <1>6, RoundInvariant

-----------------------------------------------------------------------------
(* The steps that change a head, and the edits. *)

LEMMA FirstHead ==
    ASSUME NEW e, NEW w, NEW state, NEW b
    PROVE  InitializeCloudHead(e, w, state, b, {}) = FreshHead(e, w, state, {b})
<1> PICK h : h = FreshHead(e, w, state, {b})
  OBVIOUS
<1>1. /\ h = [epoch |-> e, seq |-> 0, writer |-> w, cp |-> [seq |-> 0, state |-> state],
              journal |-> {}, base |-> {b}, flight |-> {}, control |-> {}]
      /\ h.journal = {} /\ h.seq = 0
  BY DEF FreshHead
<1>2. [h EXCEPT !.journal = {}, !.seq = 0] = h
  BY <1>1
<1> QED BY <1>2 DEF InitializeCloudHead

LEMMA InitializeInvariant ==
    ASSUME IInv, NEW d \in Devices, Initialize(d) PROVE IInv'
<1> PICK b : b = [revision |-> Revision, ackSeq |-> 0, state |-> Document]
  OBVIOUS
<1> PICK h : h = [epoch |-> Epoch, seq |-> 0, writer |-> d, cp |-> [seq |-> 0, state |-> Document],
                  journal |-> {}, base |-> {b}, flight |-> {}, control |-> {}]
  OBVIOUS
<1>0. /\ New(d) /\ UNCHANGED <<server, requests, log, edited>>
      /\ disk' = [disk EXCEPT ![d] = h] /\ view' = [view EXCEPT ![d] = Document]
      /\ sync' = [sync EXCEPT ![d] = Idle]
  <2>1. InitializeCloudHead(Epoch, d, Document, b, {}) = h
    <3> PICK doc : doc = Document
      OBVIOUS
    <3>1. InitializeCloudHead(Epoch, d, doc, b, {}) = FreshHead(Epoch, d, doc, {b})
      BY FirstHead
    <3> QED BY <3>1 DEF FreshHead
  <2> QED BY <2>1 DEF Initialize, New
<1>1. /\ Revision \in Nat /\ Document \in Docs /\ Revision \in 1..Revision
      /\ Document = server.versions[Revision].doc
  BY VersionsTyped DEF IInv, Document
<1>2. /\ disk'[d] = h /\ sync'[d] = Idle /\ view'[d] = Document /\ log'[d] = <<>>
      /\ log[d] = <<>> /\ StepOf(d)
  BY <1>0 DEF IInv, Typed, StepOf
<1>3. h \in HeadSet
  <2>1. b \in BaseSet /\ [seq |-> 0, state |-> Document] \in Points
    BY <1>1 DEF BaseSet, Points
  <2> QED BY <2>1 DEF HeadSet
<1>4. Idle \in SyncSet /\ ~New(d)' /\ <<>> \in Seq(EditSet) /\ edited' \in Nat
  BY <1>0, <1>2 DEF SyncSet, Plain, Idle, New, IInv, Typed
<1>5. Base(disk'[d]) = b
  <2>1. disk'[d].base = {b}
    BY <1>2
  <2> QED BY <2>1 DEF Base
<1>6. DeviceOk(d)'
  <2>1. BaseOk(d)'
    <3>1. HasVersion(b.revision, b.state)'
      BY <1>0, <1>1 DEF HasVersion, Revision
    <3>2. /\ disk'[d].base = {b} /\ disk'[d].cp.seq = 0 /\ disk'[d].seq = 0 /\ b.ackSeq = 0
          /\ disk'[d].journal = {} /\ disk'[d].cp.state = b.state
      BY <1>2
    <3>3. JournalFull(disk'[d]) /\ \A S : Declared(b.state, b.state, S)
      BY <3>2 DEF JournalFull, JournalKeysOk, Declared
    <3> QED BY <1>5, <3>1, <3>2, <3>3 DEF BaseOk
  <2>2. Earned(d)' /\ FlightOk(d)' /\ ConflictOk(d)' /\ RoundOk(d)' /\ MergeOk(d)'
    BY <1>2, <1>5 DEF Earned, FlightOk, ConflictOk, InConflict, RoundOk, Refused, MergeOk, Idle
  <2> QED BY <2>1, <2>2 DEF DeviceOk
<1>7. \A r \in requests : r.device # d
  BY <1>0 DEF IInv, Safe, RequestOk
<1> QED BY <1>0, <1>1, <1>2, <1>3, <1>4, <1>6, <1>7, StepInvariant

LEMMA EditInvariant ==
    ASSUME IInv, NEW d \in Devices, NEW c \in Checks, NEW kind \in {"insert", "replace", "delete"},
           Edit(d, c, kind)
    PROVE  IInv'
<1> PICK e : e = [n |-> edited + 1, check |-> c, kind |-> kind,
                  index |-> IF kind = "insert" THEN Cardinality(Present(view[d])) ELSE 0,
                  over |-> view[d][c], early |-> sync[d].stage \in {"publish", "apply"}]
  OBVIOUS
<1>0. /\ ~New(d) /\ UNCHANGED <<server, requests, disk, sync>> /\ edited' = edited + 1
      /\ log' = [log EXCEPT ![d] = Append(log[d], e)] /\ view' = [view EXCEPT ![d] = Apply(view[d], e)]
  BY DEF Edit, Active, New
<1>1. /\ disk[d] \in HeadSet /\ log[d] \in Seq(EditSet) /\ view[d] \in Docs /\ sync[d] \in SyncSet
      /\ BaseOk(d) /\ Earned(d) /\ FlightOk(d) /\ ConflictOk(d) /\ RoundOk(d) /\ MergeOk(d)
      /\ edited \in Nat
  BY <1>0, DeviceFacts DEF IInv, Typed
<1>2. e \in EditSet
  <2>1. Cardinality(Present(view[d])) \in Indices /\ 0 \in Indices
    BY DEF Indices, Present
  <2>2. view[d][c] \in Int /\ edited + 1 \in Nat \ {0}
    BY <1>1 DEF Docs
  <2> QED BY <2>1, <2>2 DEF EditSet
<1>3. Append(log[d], e) \in Seq(EditSet) /\ Append(log[d], e) # <<>>
  <2>1. Append(log[d], e) \in Seq(EditSet) /\ Len(Append(log[d], e)) = Len(log[d]) + 1
    BY <1>1, <1>2
  <2>2. Len(log[d]) \in Nat /\ Len(<<>>) = 0
    BY <1>1
  <2> QED BY <2>1, <2>2
<1>4. Apply(view[d], e) \in Docs
  <2>1. Value(e) \in Int
    BY <1>2 DEF Value, Absent, EditSet
  <2> QED BY <1>1, <2>1 DEF Apply, Docs
<1>5. /\ log'[d] = Append(log[d], e) /\ view'[d] = Apply(view[d], e) /\ disk'[d] = disk[d]
      /\ sync'[d] = sync[d] /\ StepOf(d) /\ ~New(d)' /\ edited' \in Nat
  BY <1>0, <1>1 DEF IInv, Typed, StepOf, New
<1>6. BaseOk(d)' /\ Earned(d)' /\ FlightOk(d)'
  BY <1>0, <1>1, <1>3, <1>5 DEF BaseOk, Earned, FlightOk, InConflict, HasVersion, Revision
<1>7. ConflictOk(d)' /\ RoundOk(d)' /\ MergeOk(d)'
  BY <1>0, <1>1 DEF ConflictOk, InConflict, RoundOk, Refused, MergeOk, HasVersion, Revision, Landed
<1>8. DeviceOk(d)'
  BY <1>6, <1>7 DEF DeviceOk
<1>9. \A r \in requests : r.device = d => RequestOk(r)'
  BY <1>0, <1>5, RequestsStay
<1> QED BY <1>0, <1>1, <1>3, <1>4, <1>5, <1>8, <1>9, StepInvariant

\* Two ranges that meet are one.
LEMMA IntentsJoin ==
    ASSUME NEW h, NEW from \in Int, NEW mid \in Int, NEW to \in Int, from <= mid + 1, mid <= to
    PROVE  DeleteIntents(h, from, mid) \cup DeleteIntents(h, mid + 1, to) \subseteq DeleteIntents(h, from, to)
<1>1. \A n : n \in from..mid \/ n \in (mid + 1)..to => n \in from..to
  OBVIOUS
<1> QED BY <1>1 DEF DeleteIntents

LEMMA CommitInvariant ==
    ASSUME IInv, NEW d \in Devices, Commit(d) PROVE IInv'
<1> PICK h : h = disk[d]
  OBVIOUS
<1> PICK b : b = Base(h)
  OBVIOUS
<1> PICK op : op = [seq |-> h.seq + 1, id |-> Head(log[d])]
  OBVIOUS
<1> PICK g : g = [h EXCEPT !.journal = @ \cup {op}, !.seq = op.seq]
  OBVIOUS
<1>0. /\ log[d] # <<>> /\ AppendOk(h, Epoch, d, op) /\ disk' = [disk EXCEPT ![d] = AppendOp(h, op)]
      /\ log' = [log EXCEPT ![d] = Tail(log[d])]
      /\ UNCHANGED <<server, requests, view, sync, edited>>
  BY DEF Commit
<1>1. ~New(d)
  BY <1>0 DEF IInv, Typed
<1>2. /\ h \in HeadSet /\ log[d] \in Seq(EditSet) /\ view[d] \in Docs /\ sync[d] \in SyncSet
      /\ BaseOk(d) /\ Earned(d) /\ FlightOk(d) /\ ConflictOk(d) /\ RoundOk(d) /\ MergeOk(d)
      /\ b \in BaseSet
  BY <1>1, DeviceFacts
<1>3. h.seq \in Nat /\ h.cp.seq \in Nat /\ b.ackSeq \in Nat /\ h.journal \subseteq OpSet
  BY <1>2, HeadTyped DEF BaseSet
<1>4. op \in OpSet /\ op.seq = h.seq + 1 /\ Tail(log[d]) \in Seq(EditSet)
  <2>1. Head(log[d]) \in EditSet /\ Tail(log[d]) \in Seq(EditSet)
    BY <1>0, <1>2
  <2> QED BY <1>3, <2>1 DEF OpSet
<1>5. JournalFull(h) /\ h.cp.seq <= h.seq /\ b.ackSeq <= h.cp.seq
  BY <1>2 DEF BaseOk
<1>6. op \notin h.journal
  BY <1>3, <1>4, <1>5 DEF JournalFull, JournalKeysOk
<1>7. AppendOp(h, op) = g
  BY <1>6 DEF AppendOp
<1>8. g \in HeadSet
  <2>1. op.seq \in Nat /\ h.journal \cup {op} \subseteq OpSet
    BY <1>3, <1>4
  <2> QED BY <1>2, <2>1 DEF HeadSet
<1>9. /\ g.journal = h.journal \cup {op} /\ g.seq = h.seq + 1 /\ g.cp = h.cp /\ g.base = h.base
      /\ g.flight = h.flight /\ g.control = h.control
  BY <1>2, <1>4 DEF HeadSet
<1>10. /\ disk'[d] = g /\ log'[d] = Tail(log[d]) /\ view'[d] = view[d] /\ sync'[d] = sync[d]
       /\ ~New(d)' /\ StepOf(d) /\ edited' \in Nat
  BY <1>0, <1>1, <1>7 DEF IInv, Typed, StepOf, New
<1>22. requests' = requests /\ server' = server
  BY <1>0
<1>11. JournalFull(g)
  <2>1. JournalKeysOk(g)
    BY <1>3, <1>4, <1>5, <1>9 DEF JournalFull, JournalKeysOk
  <2>2. \A n \in 1..g.seq : \E x \in g.journal : x.seq = n
    <3> SUFFICES ASSUME NEW n \in 1..g.seq PROVE \E x \in g.journal : x.seq = n
      OBVIOUS
    <3>1. CASE n = h.seq + 1
      BY <1>4, <1>9, <3>1
    <3>2. CASE n # h.seq + 1
      <4>1. n \in 1..h.seq
        BY <1>3, <1>9, <3>2
      <4> QED BY <1>5, <1>9, <4>1 DEF JournalFull
    <3> QED BY <3>1, <3>2
  <2> QED BY <2>1, <2>2 DEF JournalFull
<1>12. \A from, to : DeleteIntents(h, from, to) \subseteq DeleteIntents(g, from, to)
  <2>1. h.journal \subseteq g.journal
    BY <1>9
  <2> QED BY <2>1 DEF DeleteIntents
<1>13. \A base, doc, from, to :
          Declared(base, doc, DeleteIntents(h, from, to)) => Declared(base, doc, DeleteIntents(g, from, to))
  BY <1>12, DeclaredMore
<1>14. Base(g) = b
  BY <1>9 DEF Base
<1>15. BaseOk(d)'
  <2>1. /\ h.base = {b} /\ HasVersion(b.revision, b.state)
        /\ ~InConflict(d) => Declared(b.state, h.cp.state, DeleteIntents(h, b.ackSeq + 1, h.cp.seq))
    BY <1>2 DEF BaseOk
  <2>2. b.ackSeq <= g.cp.seq /\ g.cp.seq <= g.seq /\ b.ackSeq # g.seq
    BY <1>3, <1>5, <1>9
  <2>3. HasVersion(b.revision, b.state)'
    BY <1>0, <2>1 DEF HasVersion, Revision
  <2>4. InConflict(d)' <=> InConflict(d)
    BY <1>9, <1>10 DEF InConflict
  <2>5. ~InConflict(d)' => Declared(b.state, g.cp.state, DeleteIntents(g, b.ackSeq + 1, g.cp.seq))
    BY <1>9, <1>13, <2>1, <2>4
  <2> QED BY <1>9, <1>10, <1>11, <1>14, <2>1, <2>2, <2>3, <2>5 DEF BaseOk
<1>16. Earned(d)'
  BY <1>0, <1>2, <1>10, <1>14 DEF Earned
<1>17. FlightOk(d)'
  <2> SUFFICES ASSUME NEW f \in h.flight
               PROVE  /\ g.flight = {f}
                      /\ f.baseRevision = b.revision /\ f.startSeq = b.ackSeq + 1
                      /\ f.startSeq <= f.endSeq /\ f.endSeq <= g.seq /\ f.endSeq # g.seq
                      /\ \E r \in requests : r.device = d /\ r.flight = f
                      /\ Declared(b.state, f.snapshot, DeleteIntents(g, f.startSeq, f.endSeq))
    BY <1>9, <1>10, <1>14, <1>22 DEF FlightOk
  <2>1. /\ h.flight = {f} /\ f.baseRevision = b.revision /\ f.startSeq = b.ackSeq + 1
        /\ f.startSeq <= f.endSeq /\ f.endSeq <= h.seq
        /\ \E r \in requests : r.device = d /\ r.flight = f
        /\ Declared(b.state, f.snapshot, DeleteIntents(h, f.startSeq, f.endSeq))
    BY <1>2 DEF FlightOk
  <2>2. f.endSeq \in Nat
    BY <1>2, HeadTyped, FlightTyped
  <2> QED BY <1>3, <1>9, <1>13, <2>1, <2>2
<1>18. ConflictOk(d)' /\ RoundOk(d)'
  BY <1>0, <1>2, <1>9, <1>10
     DEF ConflictOk, InConflict, RoundOk, Refused, HasVersion, Revision, Landed
<1>19. MergeOk(d)'
  BY <1>2, <1>10, <1>13, <1>14 DEF MergeOk
<1>20. DeviceOk(d)'
  BY <1>15, <1>16, <1>17, <1>18, <1>19 DEF DeviceOk
<1>21. \A r \in requests : r.device = d => RequestOk(r)'
  BY <1>0, <1>9, <1>10, RequestsStay
<1> QED BY <1>2, <1>4, <1>8, <1>10, <1>20, <1>21, <1>22, StepInvariant

\* A failed round leaves a retry control and nothing else, and keeps a conflict.
LEMMA WithRetryHead ==
    ASSUME NEW h \in HeadSet, NEW g, g = WithRetry(h)
    PROVE  /\ g \in HeadSet /\ g.seq = h.seq /\ g.cp = h.cp /\ g.journal = h.journal
           /\ g.base = h.base /\ g.flight = h.flight
           /\ (\E c \in g.control : c.conflict # {}) <=> (\E c \in h.control : c.conflict # {})
<1> PICK k : k = [retry |-> TRUE, conflict |-> {}]
  OBVIOUS
<1>1. CASE \E c \in h.control : c.conflict # {}
  BY <1>1 DEF WithRetry
<1>2. CASE ~ \E c \in h.control : c.conflict # {}
  <2>1. g = [h EXCEPT !.control = {k}]
    BY <1>2 DEF WithRetry, SetControl
  <2>2. k \in ControlSet /\ k.conflict = {}
    BY DEF ControlSet
  <2>3. /\ g.control = {k} /\ g.seq = h.seq /\ g.cp = h.cp /\ g.journal = h.journal
        /\ g.base = h.base /\ g.flight = h.flight
    BY <2>1 DEF HeadSet
  <2>4. g \in HeadSet
    <3>1. h \in HeadSet /\ {k} \subseteq ControlSet /\ g = [h EXCEPT !.control = {k}]
      BY <2>1, <2>2
    <3> QED BY ONLY <3>1 DEF HeadSet
  <2> QED BY <1>2, <2>2, <2>3, <2>4
<1> QED BY <1>1, <1>2

LEMMA RetryControl ==
    ASSUME IInv, NEW d \in Devices, ~New(d), UNCHANGED <<server, requests, log, view, edited>>,
           disk' = [disk EXCEPT ![d] = WithRetry(@)],
           NEW s \in SyncSet, sync' = [sync EXCEPT ![d] = s], s.stage = "idle", ~InConflict(d)
    PROVE  IInv'
<1> PICK h : h = disk[d]
  OBVIOUS
<1> PICK g : g = WithRetry(h)
  OBVIOUS
<1>1. /\ h \in HeadSet /\ log[d] \in Seq(EditSet) /\ view[d] \in Docs
      /\ BaseOk(d) /\ Earned(d) /\ FlightOk(d)
  BY DeviceFacts
<1>2. /\ g \in HeadSet /\ g.seq = h.seq /\ g.cp = h.cp /\ g.journal = h.journal
      /\ g.base = h.base /\ g.flight = h.flight
      /\ (\E c \in g.control : c.conflict # {}) <=> (\E c \in h.control : c.conflict # {})
  BY <1>1, WithRetryHead
<1>3. /\ disk'[d] = g /\ sync'[d] = s /\ ~New(d)' /\ StepOf(d) /\ edited' \in Nat
      /\ log'[d] = log[d] /\ view'[d] = view[d] /\ server' = server /\ requests' = requests
  BY DEF IInv, Typed, StepOf, New
<1>4. ~InConflict(d)'
  BY <1>2, <1>3 DEF InConflict
<1>5. Base(g) = Base(h) /\ \A from, to : DeleteIntents(g, from, to) = DeleteIntents(h, from, to)
  BY <1>2 DEF Base, DeleteIntents
<1>6. Recovered(d)' = Recovered(d)
  BY <1>2, <1>3, RecoveredSame
<1>7. BaseOk(d)'
  <2>1. JournalFull(g) /\ HasVersion(Base(h).revision, Base(h).state)'
    BY <1>1, <1>2, <1>3 DEF BaseOk, JournalFull, JournalKeysOk, HasVersion, Revision
  <2> QED BY <1>1, <1>2, <1>3, <1>5, <2>1 DEF BaseOk
<1>8. Earned(d)' /\ FlightOk(d)'
  BY <1>1, <1>2, <1>3, <1>5, <1>6 DEF Earned, FlightOk
<1>9. ConflictOk(d)' /\ RoundOk(d)' /\ MergeOk(d)'
  BY <1>3, <1>4 DEF ConflictOk, RoundOk, Refused, MergeOk
<1>10. DeviceOk(d)'
  BY <1>7, <1>8, <1>9 DEF DeviceOk
<1>11. \A r \in requests : r.device = d => RequestOk(r)'
  BY <1>2, <1>3, RequestsStay
<1> QED BY <1>1, <1>2, <1>3, <1>10, <1>11, StepInvariant

LEMMA FailInvariant ==
    ASSUME IInv, NEW d \in Devices, Fail(d) PROVE IInv'
<1>1. /\ ~New(d) /\ UNCHANGED <<server, requests, log, view, edited>>
      /\ disk' = [disk EXCEPT ![d] = WithRetry(@)] /\ sync' = [sync EXCEPT ![d] = Idle]
      /\ sync[d].stage = "failed"
  BY DEF Fail, New
<1>2. ~InConflict(d)
  BY <1>1, DeviceFacts DEF ConflictOk
<1>3. Idle \in SyncSet /\ Idle.stage = "idle"
  BY DEF SyncSet, Plain, Idle
<1> QED BY <1>1, <1>2, <1>3, RetryControl

\* What all the settlements of a flight have in common: the cursor moves to a row
\* the server has, at a later revision if there was a flight, and the flight goes.
LEMMA SettledRequests ==
    ASSUME IInv, NEW d \in Devices, server' = server, ~New(d), ~New(d)',
           NEW b \in BaseSet, disk'[d].base = {b}, disk'[d].flight = {},
           Base(disk[d]).revision <= b.revision, Base(disk[d]).ackSeq <= b.ackSeq,
           disk[d].flight # {} => Base(disk[d]).revision # b.revision,
           \A r \in requests : r.device = d /\ disk[d].flight = {r.flight} /\ Landed(r)
               => r.flight.endSeq <= b.ackSeq
    PROVE  \A r \in requests : r.device = d => RequestOk(r)'
<1> SUFFICES ASSUME NEW r \in requests, r.device = d PROVE RequestOk(r)'
  OBVIOUS
<1> PICK a : a = Base(disk[d])
  OBVIOUS
<1>1. RequestOk(r) /\ a \in BaseSet
  BY DeviceFacts DEF IInv, Safe
<1>2. /\ a.revision \in Nat /\ a.ackSeq \in Nat /\ b.revision \in Nat /\ b.ackSeq \in Nat
      /\ r.flight.baseRevision \in Nat /\ r.flight.endSeq \in Nat
  BY <1>1, RequestTyped DEF BaseSet, IInv
<1>3. Base(disk'[d]) = b
  BY DEF Base
<1>4. /\ r.flight.baseRevision \in 1..a.revision
      /\ r.flight.baseRevision = a.revision => disk[d].flight = {r.flight}
      /\ Landed(r) => r.flight.endSeq <= a.ackSeq \/ disk[d].flight = {r.flight}
  BY <1>1 DEF RequestOk
<1>5. r.flight.baseRevision \in 1..b.revision /\ r.flight.baseRevision # b.revision
  <2>1. CASE r.flight.baseRevision = a.revision
    <3>1. a.revision # b.revision
      BY <1>4, <2>1
    <3> QED BY <1>2, <1>4, <2>1, <3>1
  <2>2. CASE r.flight.baseRevision # a.revision
    BY <1>2, <1>4, <2>2
  <2> QED BY <2>1, <2>2
<1>6. Landed(r) => r.flight.endSeq <= b.ackSeq
  <2>1. CASE disk[d].flight = {r.flight}
    BY <2>1
  <2>2. CASE disk[d].flight # {r.flight}
    BY <1>2, <1>4, <2>2
  <2> QED BY <2>1, <2>2
<1>7. /\ r.flight.operationId = <<r.device, r.flight.baseRevision, r.flight.startSeq>>
      /\ r.flight.startSeq <= r.flight.endSeq
      /\ Declared(server.versions[r.flight.baseRevision].doc, r.flight.snapshot, r.deletes)
  BY <1>1 DEF RequestOk
<1>8. Landed(r)' <=> Landed(r)
  BY DEF Landed
<1> QED BY <1>3, <1>5, <1>6, <1>7, <1>8 DEF RequestOk

\* A head settled at a row of the server, with a checkpoint of everything it has.
Settles(d, b, cp, control) ==
    LET h == disk[d]
    IN  /\ ~New(d) /\ log[d] = <<>> /\ UNCHANGED <<server, requests, log, view, edited>>
        /\ disk' = [disk EXCEPT ![d] = [h EXCEPT !.base = {b}, !.flight = {},
                                                !.control = control, !.cp = cp]]
        /\ sync' = [sync EXCEPT ![d] = [stage |-> "publish"]]
        /\ HasVersion(b.revision, b.state) /\ cp.seq = h.seq /\ b.ackSeq <= h.seq
        /\ b.ackSeq = h.seq => cp.state = b.state
        /\ control = {} => Declared(b.state, cp.state, DeleteIntents(h, b.ackSeq + 1, h.seq))
        /\ control # {} => \E c \in control : c.conflict # {}
        /\ \A n \in 1..b.ackSeq : \E r \in requests :
              /\ r.device = d /\ n \in r.flight.startSeq..r.flight.endSeq
              /\ r.flight.operationId \in server.operations
        /\ Base(h).revision <= b.revision /\ Base(h).ackSeq <= b.ackSeq
        /\ h.flight # {} => Base(h).revision # b.revision
        /\ \A r \in requests : r.device = d /\ h.flight = {r.flight} /\ Landed(r)
              => r.flight.endSeq <= b.ackSeq

LEMMA SettleInvariant ==
    ASSUME IInv, NEW d \in Devices, NEW b \in BaseSet, NEW cp \in Points,
           NEW control \in SUBSET ControlSet, Settles(d, b, cp, control)
    PROVE  IInv'
<1> USE DEF Settles
<1> PICK h : h = disk[d]
  OBVIOUS
<1> PICK g : g = [h EXCEPT !.base = {b}, !.flight = {}, !.control = control, !.cp = cp]
  OBVIOUS
<1> PICK s : s = [stage |-> "publish"]
  OBVIOUS
<1>1. /\ h \in HeadSet /\ log[d] \in Seq(EditSet) /\ view[d] \in Docs
      /\ BaseOk(d) /\ h.seq \in Nat
  BY DeviceFacts, HeadTyped
<1>2. /\ g \in HeadSet /\ g.base = {b} /\ g.flight = {} /\ g.control = control /\ g.cp = cp
      /\ g.seq = h.seq /\ g.journal = h.journal
  <2>1. h.base \subseteq BaseSet
    BY <1>1, HeadTyped
  <2> QED BY <1>1, <2>1 DEF HeadSet
<1>3. s \in SyncSet /\ s.stage = "publish"
  BY DEF SyncSet, Plain
<1>4. /\ disk'[d] = g /\ sync'[d] = s /\ ~New(d)' /\ StepOf(d) /\ edited' \in Nat
      /\ log'[d] = log[d] /\ view'[d] = view[d] /\ server' = server /\ requests' = requests
  BY <1>3 DEF IInv, Typed, StepOf, New
<1>5. Base(g) = b /\ \A from, to : DeleteIntents(g, from, to) = DeleteIntents(h, from, to)
  BY <1>2 DEF Base, DeleteIntents
<1>6. BaseOk(d)'
  <2>1. JournalFull(g)
    BY <1>1, <1>2 DEF BaseOk, JournalFull, JournalKeysOk
  <2>2. HasVersion(b.revision, b.state)'
    BY <1>4 DEF HasVersion, Revision
  <2>3. ~InConflict(d)' => control = {}
    BY <1>2, <1>4 DEF InConflict
  <2>4. b.ackSeq <= g.cp.seq /\ g.cp.seq <= g.seq
    BY <1>1, <1>2
  <2>5. ~InConflict(d)' => Declared(b.state, g.cp.state, DeleteIntents(g, b.ackSeq + 1, g.cp.seq))
    BY <1>2, <1>5, <2>3
  <2>6. b.ackSeq = g.seq => g.cp.state = b.state
    BY <1>2
  <2> QED BY <1>2, <1>4, <1>5, <2>1, <2>2, <2>4, <2>5, <2>6 DEF BaseOk
<1>7. Earned(d)'
  BY <1>4, <1>5 DEF Earned
<1>8. FlightOk(d)' /\ ConflictOk(d)' /\ RoundOk(d)' /\ MergeOk(d)'
  BY <1>2, <1>3, <1>4 DEF FlightOk, ConflictOk, RoundOk, Refused, MergeOk
<1>9. DeviceOk(d)'
  BY <1>6, <1>7, <1>8 DEF DeviceOk
<1>10. \A r \in requests : r.device = d => RequestOk(r)'
  <2>1. disk'[d].base = {b} /\ disk'[d].flight = {}
    BY <1>2, <1>4
  <2> QED BY <1>4, <2>1, SettledRequests
<1> QED BY <1>1, <1>2, <1>3, <1>4, <1>9, <1>10, StepInvariant

LEMMA CommitFacts ==
    ASSUME IInv, NEW d \in Devices, sync[d].stage = "commit", ~Stale(d)
    PROVE  /\ ~New(d) /\ log[d] = <<>> /\ disk[d].seq = sync[d].cp.seq
           /\ disk[d] \in HeadSet /\ Base(disk[d]) \in BaseSet
           /\ BaseOk(d) /\ Earned(d) /\ FlightOk(d) /\ RoundOk(d) /\ MergeOk(d)
           /\ disk[d].flight = {sync[d].flight}
           /\ sync[d].flight \in FlightSet /\ sync[d].rejected \in BOOLEAN
           /\ sync[d].row.revision \in Nat /\ sync[d].row.doc \in Docs
           /\ HasVersion(sync[d].row.revision, sync[d].row.doc)
           /\ sync[d].cp \in Points /\ sync[d].control \subseteq ControlSet
           /\ sync[d].row.revision > sync[d].flight.baseRevision
           /\ sync[d].flight.baseRevision = Base(disk[d]).revision
           /\ sync[d].flight.startSeq = Base(disk[d]).ackSeq + 1
           /\ sync[d].flight.startSeq <= sync[d].flight.endSeq
           /\ sync[d].flight.endSeq <= disk[d].seq
           /\ disk[d].base = {Base(disk[d])}
<1>1. ~New(d) /\ log[d] = <<>> /\ disk[d].seq = sync[d].cp.seq
  BY DEF New, Stale
<1>2. /\ sync[d] \in SyncSet /\ disk[d] \in HeadSet /\ Base(disk[d]) \in BaseSet
      /\ BaseOk(d) /\ Earned(d) /\ FlightOk(d) /\ RoundOk(d) /\ MergeOk(d)
  BY <1>1, DeviceFacts
<1>3. disk[d].flight = {sync[d].flight} /\ HasVersion(sync[d].row.revision, sync[d].row.doc)
  BY <1>2 DEF RoundOk
<1>4. sync[d].row.revision > sync[d].flight.baseRevision
  BY <1>2 DEF MergeOk
<1> QED BY <1>1, <1>2, <1>3, <1>4, RoundTyped DEF FlightOk, BaseOk

LEMMA CommitAckInvariant ==
    ASSUME IInv, NEW d \in Devices, CommitAck(d) PROVE IInv'
<1> PICK h : h = disk[d]
  OBVIOUS
<1> PICK s : s = sync[d]
  OBVIOUS
<1> PICK b : b = [revision |-> s.row.revision, ackSeq |-> s.flight.endSeq, state |-> s.row.doc]
  OBVIOUS
<1> PICK g : g = [h EXCEPT !.base = {b}, !.flight = {}, !.control = s.control, !.cp = s.cp]
  OBVIOUS
<1>1. /\ s.stage = "commit" /\ ~s.rejected /\ ~Stale(d)
      /\ UNCHANGED <<server, requests, log, view, edited>>
      /\ disk' = [disk EXCEPT ![d] = Acknowledge(h, b, {s.cp}, s.control)]
      /\ sync' = [sync EXCEPT ![d] = [stage |-> "publish"]]
  BY DEF CommitAck
<1>2. /\ ~New(d) /\ log[d] = <<>> /\ h.seq = s.cp.seq /\ h \in HeadSet /\ Base(h) \in BaseSet
      /\ Earned(d) /\ FlightOk(d) /\ RoundOk(d) /\ MergeOk(d) /\ h.flight = {s.flight}
      /\ s.flight \in FlightSet /\ s.row.revision \in Nat /\ s.row.doc \in Docs
      /\ HasVersion(s.row.revision, s.row.doc) /\ s.cp \in Points /\ s.control \subseteq ControlSet
      /\ s.row.revision > s.flight.baseRevision /\ s.flight.baseRevision = Base(h).revision
      /\ s.flight.startSeq = Base(h).ackSeq + 1 /\ s.flight.startSeq <= s.flight.endSeq
      /\ s.flight.endSeq <= h.seq
  BY <1>1, CommitFacts
<1>3. /\ h.seq \in Nat /\ s.flight.endSeq \in Nat /\ Base(h).ackSeq \in Nat
      /\ Base(h).revision \in Nat
  BY <1>2, HeadTyped, FlightTyped DEF BaseSet
<1>4. Acknowledge(h, b, {s.cp}, s.control) = g
  <2>1. (CHOOSE cp \in {s.cp} : TRUE) = s.cp /\ {s.cp} # {}
    OBVIOUS
  <2> QED BY <2>1 DEF Acknowledge
<1>5. b \in BaseSet
  BY <1>2, <1>3 DEF BaseSet
<1>6. b.ackSeq = h.seq => s.cp.state = b.state
  BY <1>1, <1>2 DEF MergeOk
<1>7. /\ s.control = {} => Declared(b.state, s.cp.state, DeleteIntents(h, b.ackSeq + 1, h.seq))
      /\ s.control # {} => \E c \in s.control : c.conflict # {}
  BY <1>1, <1>2 DEF MergeOk
<1>8. ASSUME NEW n \in 1..b.ackSeq
      PROVE  \E r \in requests :
                /\ r.device = d /\ n \in r.flight.startSeq..r.flight.endSeq
                /\ r.flight.operationId \in server.operations
  <2>1. CASE n \in 1..Base(h).ackSeq
    BY <1>2, <2>1 DEF Earned
  <2>2. CASE n \notin 1..Base(h).ackSeq
    <3>1. n \in s.flight.startSeq..s.flight.endSeq
      BY <1>2, <1>3, <2>2
    <3>2. PICK r \in requests : r.device = d /\ r.flight = s.flight
      BY <1>2 DEF FlightOk
    <3>3. s.flight.operationId \in server.operations
      BY <1>1, <1>2 DEF RoundOk
    <3> QED BY <3>1, <3>2, <3>3
  <2> QED BY <2>1, <2>2
<1>9. /\ Base(h).revision <= b.revision /\ Base(h).revision # b.revision
      /\ Base(h).ackSeq <= b.ackSeq /\ b.ackSeq <= h.seq
  BY <1>2, <1>3
<1>10. \A r \in requests : r.device = d /\ h.flight = {r.flight} /\ Landed(r)
               => r.flight.endSeq <= b.ackSeq
  <2>1. \A f : h.flight = {f} => f.endSeq = b.ackSeq
    BY <1>2
  <2> QED BY <1>3, <2>1
<1>11. HasVersion(b.revision, b.state) /\ s.cp.seq = disk[d].seq
  BY <1>2
<1>12. disk' = [disk EXCEPT ![d] = g]
  BY <1>1, <1>4
<1>13. Settles(d, b, s.cp, s.control)
  BY <1>1, <1>2, <1>6, <1>7, <1>8, <1>9, <1>10, <1>11, <1>12 DEF Settles
<1> QED BY <1>2, <1>5, <1>13, SettleInvariant

LEMMA CommitRejectInvariant ==
    ASSUME IInv, NEW d \in Devices, CommitReject(d) PROVE IInv'
<1> PICK h : h = disk[d]
  OBVIOUS
<1> PICK s : s = sync[d]
  OBVIOUS
<1> PICK b : b = [revision |-> s.row.revision, ackSeq |-> Base(h).ackSeq, state |-> s.row.doc]
  OBVIOUS
<1> PICK g : g = [h EXCEPT !.base = {b}, !.flight = {}, !.control = s.control, !.cp = s.cp]
  OBVIOUS
<1>1. /\ s.stage = "commit" /\ s.rejected /\ ~Stale(d)
      /\ UNCHANGED <<server, requests, log, view, edited>>
      /\ disk' = [disk EXCEPT ![d] = RejectFlight(h, b, s.cp, s.control)]
      /\ sync' = [sync EXCEPT ![d] = [stage |-> "publish"]]
  BY DEF CommitReject
<1>2. /\ ~New(d) /\ log[d] = <<>> /\ h.seq = s.cp.seq /\ h \in HeadSet /\ Base(h) \in BaseSet
      /\ Earned(d) /\ RoundOk(d) /\ MergeOk(d) /\ h.flight = {s.flight}
      /\ s.flight \in FlightSet /\ s.row.revision \in Nat /\ s.row.doc \in Docs
      /\ HasVersion(s.row.revision, s.row.doc) /\ s.cp \in Points /\ s.control \subseteq ControlSet
      /\ s.row.revision > s.flight.baseRevision /\ s.flight.baseRevision = Base(h).revision
      /\ s.flight.startSeq = Base(h).ackSeq + 1 /\ s.flight.startSeq <= s.flight.endSeq
      /\ s.flight.endSeq <= h.seq
  BY <1>1, CommitFacts
<1>3. /\ h.seq \in Nat /\ s.flight.endSeq \in Nat /\ Base(h).ackSeq \in Nat
      /\ Base(h).revision \in Nat
  BY <1>2, HeadTyped, FlightTyped DEF BaseSet
<1>4. RejectFlight(h, b, s.cp, s.control) = g
  BY <1>2 DEF RejectFlight, HeadSet
<1>5. b \in BaseSet
  BY <1>2, <1>3 DEF BaseSet
<1>6. b.ackSeq # h.seq /\ b.ackSeq <= h.seq /\ Base(h).ackSeq <= b.ackSeq
  BY <1>2, <1>3
<1>7. /\ s.control = {} => Declared(b.state, s.cp.state, DeleteIntents(h, b.ackSeq + 1, h.seq))
      /\ s.control # {} => \E c \in s.control : c.conflict # {}
  BY <1>1, <1>2 DEF MergeOk
<1>8. \A n \in 1..b.ackSeq : \E r \in requests :
         /\ r.device = d /\ n \in r.flight.startSeq..r.flight.endSeq
         /\ r.flight.operationId \in server.operations
  BY <1>2 DEF Earned
<1>9. Base(h).revision <= b.revision /\ Base(h).revision # b.revision
  BY <1>2, <1>3
<1>10. \A r \in requests : r.device = d /\ h.flight = {r.flight} => ~Landed(r)
  <2>1. \A f : h.flight = {f} => f = s.flight
    BY <1>2
  <2>2. \A r \in requests : r.device = d /\ r.flight = s.flight => ~Landed(r)
    BY <1>1, <1>2 DEF RoundOk, Refused
  <2> QED BY <2>1, <2>2
<1>11. HasVersion(b.revision, b.state) /\ s.cp.seq = disk[d].seq
  BY <1>2
<1>12. disk' = [disk EXCEPT ![d] = g]
  BY <1>1, <1>4
<1>13. Settles(d, b, s.cp, s.control)
  BY <1>1, <1>2, <1>6, <1>7, <1>8, <1>9, <1>10, <1>11, <1>12 DEF Settles
<1> QED BY <1>2, <1>5, <1>13, SettleInvariant

LEMMA AdoptInvariant ==
    ASSUME IInv, NEW d \in Devices, Adopt(d) PROVE IInv'
<1> PICK h : h = disk[d]
  OBVIOUS
<1> PICK row : row = sync[d].row
  OBVIOUS
<1> PICK cp : cp = [seq |-> h.seq, state |-> row.doc]
  OBVIOUS
<1> PICK b : b = [revision |-> row.revision, ackSeq |-> h.seq, state |-> row.doc]
  OBVIOUS
<1> PICK g : g = [h EXCEPT !.base = {b}, !.flight = {}, !.control = {}, !.cp = cp]
  OBVIOUS
<1>1. /\ sync[d].stage = "adopt" /\ ~New(d)
      /\ UNCHANGED <<server, requests, log, view, edited>>
  BY DEF Adopt, New
<1>2. /\ h \in HeadSet /\ Base(h) \in BaseSet /\ sync[d] \in SyncSet /\ view[d] \in Docs
      /\ Earned(d) /\ RoundOk(d) /\ BaseOk(d)
  BY <1>1, DeviceFacts
<1>3. row \in RowSet /\ row.revision \in Nat /\ row.doc \in Docs /\ h.seq \in Nat
  <2>1. row \in RowSet
    BY <1>1, <1>2 DEF SyncSet, Plain, Calling, Merging, Committing, Applying, Adopting
  <2> QED BY <1>2, <2>1, HeadTyped DEF RowSet
<1>4. CASE log[d] = <<>> /\ AdoptCloudHeadOk(h, Epoch, d, cp, b)
  <2>1. /\ disk' = [disk EXCEPT ![d] = AdoptCloudHead(h, cp, b)]
        /\ sync' = [sync EXCEPT ![d] = [stage |-> "publish"]]
    BY <1>4 DEF Adopt
  <2>2. h.flight = {} /\ Base(h).ackSeq = h.seq /\ Base(h).revision <= row.revision
    <3>1. h.flight = {} /\ \E x \in h.base : x.ackSeq = h.seq /\ b.revision >= x.revision
      BY <1>4 DEF AdoptCloudHeadOk
    <3>2. h.base = {Base(h)} /\ Base(h).revision \in Nat
      BY <1>2 DEF BaseOk, BaseSet
    <3> QED BY <1>3, <3>1, <3>2
  <2>3. AdoptCloudHead(h, cp, b) = g
    BY <1>2, <2>2 DEF AdoptCloudHead, HeadSet
  <2>4. b \in BaseSet /\ cp \in Points
    BY <1>3 DEF BaseSet, Points
  <2>5. HasVersion(b.revision, b.state)
    BY <1>1, <1>2 DEF RoundOk
  <2>6. \A n \in 1..b.ackSeq : \E r \in requests :
           /\ r.device = d /\ n \in r.flight.startSeq..r.flight.endSeq
           /\ r.flight.operationId \in server.operations
    BY <1>2, <2>2 DEF Earned
  <2>7. \A S : Declared(b.state, cp.state, S)
    BY DEF Declared
  <2>8. /\ Base(h).revision <= b.revision /\ Base(h).ackSeq <= b.ackSeq /\ b.ackSeq <= h.seq
        /\ cp.seq = h.seq /\ cp.state = b.state
    BY <1>3, <2>2
  <2>9. \A r \in requests : h.flight # {r.flight}
    BY <2>2
  <2>10. disk' = [disk EXCEPT ![d] = g]
    BY <2>1, <2>3
  <2>11. Settles(d, b, cp, {})
    BY <1>1, <1>4, <2>1, <2>2, <2>5, <2>6, <2>7, <2>8, <2>9, <2>10 DEF Settles
  <2> QED BY <2>4, <2>11, SettleInvariant
<1>5. CASE ~(log[d] = <<>> /\ AdoptCloudHeadOk(h, Epoch, d, cp, b))
  <2>1. disk' = disk /\ sync' = [sync EXCEPT ![d] = Idle]
    BY <1>5 DEF Adopt
  <2>2. Idle \in SyncSet /\ Idle.stage = "idle"
    BY DEF SyncSet, Plain, Idle
  <2>3. view' = [view EXCEPT ![d] = view'[d]] /\ view'[d] \in Docs
    BY <1>1, <1>2, SameIsStep DEF IInv
  <2> QED BY <1>1, <2>1, <2>2, <2>3, PlainRound
<1> QED BY <1>4, <1>5

-----------------------------------------------------------------------------
(* A flight goes out. *)

\* The flight of an upload: the stored one, or one over everything after the base.
LEMMA UploadFlight ==
    ASSUME IInv, NEW d \in Devices, ~New(d), ~InConflict(d), disk[d].flight # {} \/ log[d] = <<>>,
           NEW f, f = (IF disk[d].flight # {} THEN Flight(disk[d])
                       ELSE [operationId  |-> <<d, Base(disk[d]).revision, Base(disk[d]).ackSeq + 1>>,
                             baseRevision |-> Base(disk[d]).revision,
                             startSeq |-> Base(disk[d]).ackSeq + 1, endSeq |-> disk[d].seq,
                             snapshot |-> Recovered(d).doc]),
           BeginFlightOk(disk[d], Epoch, d, f)
    PROVE  /\ f \in FlightSet /\ f.operationId = <<d, f.baseRevision, f.startSeq>>
           /\ f.baseRevision = Base(disk[d]).revision /\ f.startSeq = Base(disk[d]).ackSeq + 1
           /\ f.startSeq <= f.endSeq /\ f.endSeq <= disk[d].seq
           /\ disk[d].flight \in {{}, {f}}
           /\ Declared(Base(disk[d]).state, f.snapshot,
                       DeleteIntents(disk[d], f.startSeq, f.endSeq))
           /\ f.endSeq = disk[d].seq /\ log[d] = <<>> => f.snapshot = Recovered(d).doc
<1> PICK h : h = disk[d]
  OBVIOUS
<1> PICK b : b = Base(h)
  OBVIOUS
<1>1. /\ h \in HeadSet /\ b \in BaseSet /\ log[d] \in Seq(EditSet) /\ BaseOk(d) /\ FlightOk(d)
      /\ Recovered(d).doc \in Docs
  BY DeviceFacts, RecoveredTyped
<1>2. h.seq \in Nat /\ h.cp.seq \in Nat /\ b.ackSeq \in Nat /\ b.revision \in Nat
  BY <1>1, HeadTyped DEF BaseSet
<1>3. CASE h.flight # {}
  <2>1. f \in h.flight
    BY <1>3 DEF Flight
  <2>2. /\ h.flight = {f} /\ f.baseRevision = b.revision /\ f.startSeq = b.ackSeq + 1
        /\ f.startSeq <= f.endSeq /\ f.endSeq <= h.seq
        /\ Declared(b.state, f.snapshot, DeleteIntents(h, f.startSeq, f.endSeq))
        /\ f.endSeq = h.seq /\ log[d] = <<>> => f.snapshot = Recovered(d).doc
    BY <1>1, <2>1 DEF FlightOk
  <2>3. PICK r \in requests : r.device = d /\ r.flight = f
    BY <1>1, <2>1 DEF FlightOk
  <2>4. f.operationId = <<d, f.baseRevision, f.startSeq>>
    BY <2>3 DEF IInv, Safe, RequestOk
  <2>5. f \in FlightSet
    BY <1>1, <2>1, HeadTyped
  <2> QED BY <2>2, <2>4, <2>5
<1>4. CASE h.flight = {}
  <2>1. f = [operationId  |-> <<d, b.revision, b.ackSeq + 1>>, baseRevision |-> b.revision,
             startSeq |-> b.ackSeq + 1, endSeq |-> h.seq, snapshot |-> Recovered(d).doc]
    BY <1>4
  <2>2. f \in FlightSet
    BY <1>1, <1>2, <2>1 DEF FlightSet
  <2>3. f.startSeq <= f.endSeq
    BY DEF BeginFlightOk
  <2>4. /\ JournalFull(h) /\ h.cp.seq <= h.seq /\ b.ackSeq <= h.cp.seq
        /\ Declared(b.state, h.cp.state, DeleteIntents(h, b.ackSeq + 1, h.cp.seq))
    BY <1>1 DEF BaseOk
  <2>5. Declared(h.cp.state, Recovered(d).doc, DeleteIntents(h, h.cp.seq + 1, h.seq))
    BY <1>1, <1>4, <2>4, RecoveredDeclared
  <2>6. DeleteIntents(h, b.ackSeq + 1, h.cp.seq) \cup DeleteIntents(h, h.cp.seq + 1, h.seq)
           \subseteq DeleteIntents(h, b.ackSeq + 1, h.seq)
    <3>1. b.ackSeq + 1 \in Int /\ b.ackSeq + 1 <= h.cp.seq + 1
      BY <1>2, <2>4
    <3> QED BY <1>2, <2>4, <3>1, IntentsJoin
  <2>7. Declared(b.state, Recovered(d).doc, DeleteIntents(h, b.ackSeq + 1, h.seq))
    BY <2>4, <2>5, <2>6 DEF Declared
  <2> QED BY <1>2, <1>4, <2>1, <2>2, <2>3, <2>7
<1> QED BY <1>3, <1>4

LEMMA UploadInvariant ==
    ASSUME IInv, NEW d \in Devices, Upload(d) PROVE IInv'
<1> PICK h : h = disk[d]
  OBVIOUS
<1> PICK b : b = Base(h)
  OBVIOUS
<1> PICK f : f = IF h.flight # {} THEN Flight(h)
                 ELSE [operationId  |-> <<d, Base(h).revision, Base(h).ackSeq + 1>>,
                       baseRevision |-> Base(h).revision,
                       startSeq |-> Base(h).ackSeq + 1, endSeq |-> h.seq,
                       snapshot |-> Recovered(d).doc]
  OBVIOUS
<1> PICK r : r = [device |-> d, flight |-> f, deletes |-> DeleteIntents(h, f.startSeq, f.endSeq)]
  OBVIOUS
<1> PICK g : g = [h EXCEPT !.flight = {f}]
  OBVIOUS
<1> PICK s : s = [stage |-> "rpc", flight |-> f]
  OBVIOUS
<1>0. /\ ~New(d) /\ ~InConflict(d) /\ sync[d] = Idle
      /\ UNCHANGED <<server, log, view, edited>>
  BY DEF Upload, MaySync, Idle, New
<1>1. /\ h \in HeadSet /\ b \in BaseSet /\ log[d] \in Seq(EditSet) /\ view[d] \in Docs
      /\ BaseOk(d) /\ Earned(d) /\ FlightOk(d)
  BY <1>0, DeviceFacts
<1>2. CASE ~(h.flight # {} \/ log[d] = <<>>)
  <2>1. disk' = [disk EXCEPT ![d] = WithRetry(@)] /\ requests' = requests /\ sync' = sync
    BY <1>2 DEF Upload
  <2>2. Idle \in SyncSet /\ Idle.stage = "idle"
    BY DEF SyncSet, Plain, Idle
  <2>3. sync' = [sync EXCEPT ![d] = Idle]
    BY <1>0, <2>1 DEF IInv, Typed
  <2> QED BY <1>0, <2>1, <2>2, <2>3, RetryControl
<1>3. CASE h.flight # {} \/ log[d] = <<>>
  <2>1. /\ BeginFlightOk(h, Epoch, d, f) /\ disk' = [disk EXCEPT ![d] = g]
        /\ requests' = requests \cup {r} /\ sync' = [sync EXCEPT ![d] = s]
    BY <1>3 DEF Upload, BeginFlight
  <2>2. /\ f \in FlightSet /\ f.operationId = <<d, f.baseRevision, f.startSeq>>
        /\ f.baseRevision = b.revision /\ f.startSeq = b.ackSeq + 1
        /\ f.startSeq <= f.endSeq /\ f.endSeq <= h.seq /\ h.flight \in {{}, {f}}
        /\ Declared(b.state, f.snapshot, DeleteIntents(h, f.startSeq, f.endSeq))
        /\ f.endSeq = h.seq /\ log[d] = <<>> => f.snapshot = Recovered(d).doc
    BY <1>0, <1>3, <2>1, UploadFlight
  <2>3. /\ h.seq \in Nat /\ b.ackSeq \in Nat /\ b.revision \in Nat /\ f.startSeq \in Nat
        /\ f.endSeq \in Nat /\ h.journal \subseteq OpSet
    BY <1>1, <2>2, HeadTyped, FlightTyped DEF BaseSet
  <2>4. r \in RequestSet
    <3>1. DeleteIntents(h, f.startSeq, f.endSeq) \subseteq Checks
      BY <2>3 DEF DeleteIntents, OpSet, EditSet
    <3> QED BY <2>2, <3>1 DEF RequestSet
  <2>5. /\ g \in HeadSet /\ g.flight = {f} /\ g.seq = h.seq /\ g.cp = h.cp /\ g.journal = h.journal
        /\ g.base = h.base /\ g.control = h.control
    BY <1>1, <2>2 DEF HeadSet
  <2>6. s \in SyncSet
    BY <2>2 DEF SyncSet, Calling
  <2>7. /\ disk'[d] = g /\ sync'[d] = s /\ log'[d] = log[d] /\ view'[d] = view[d] /\ ~New(d)'
        /\ StepOf(d) /\ edited' \in Nat /\ server' = server /\ requests' \subseteq RequestSet
    <3>1. /\ disk'[d] = g /\ sync'[d] = s /\ log'[d] = log[d] /\ view'[d] = view[d]
          /\ disk' = [disk EXCEPT ![d] = disk'[d]] /\ sync' = [sync EXCEPT ![d] = sync'[d]]
          /\ log' = [log EXCEPT ![d] = log'[d]] /\ view' = [view EXCEPT ![d] = view'[d]]
      BY <1>0, <2>1 DEF IInv, Typed
    <3>2. /\ edited' \in Nat /\ server' = server /\ requests' \subseteq RequestSet
          /\ requests \subseteq requests' /\ \A q \in requests' : q \in requests \/ q.device = d
      <4>1. requests \subseteq RequestSet /\ edited \in Nat
        BY DEF IInv, Typed
      <4>2. r.device = d
        OBVIOUS
      <4> QED BY <1>0, <2>1, <2>4, <4>1, <4>2
    <3>3. ~New(d)'
      BY <3>1 DEF New
    <3> QED BY <3>1, <3>2, <3>3 DEF StepOf
  <2>8. Base(g) = b /\ \A from, to : DeleteIntents(g, from, to) = DeleteIntents(h, from, to)
    BY <2>5 DEF Base, DeleteIntents
  <2>9. ~InConflict(d)'
    BY <1>0, <2>5, <2>7 DEF InConflict
  <2>10. BaseOk(d)'
    <3>1. JournalFull(g)
      BY <1>1, <2>5 DEF BaseOk, JournalFull, JournalKeysOk
    <3>2. HasVersion(b.revision, b.state)'
      BY <1>1, <2>7 DEF BaseOk, HasVersion, Revision
    <3>3. /\ g.base = {b} /\ b.ackSeq <= g.cp.seq /\ g.cp.seq <= g.seq
          /\ log[d] = <<>> /\ b.ackSeq = g.seq => g.cp.state = b.state
          /\ Declared(b.state, g.cp.state, DeleteIntents(g, b.ackSeq + 1, g.cp.seq))
      BY <1>0, <1>1, <2>5, <2>8 DEF BaseOk
    <3> QED BY <2>7, <2>8, <3>1, <3>2, <3>3 DEF BaseOk
  <2>11. Earned(d)'
    BY <1>1, <2>1, <2>7, <2>8 DEF Earned
  <2>12. FlightOk(d)'
    <3>1. Recovered(d)' = Recovered(d)
      BY <2>5, <2>7, RecoveredSame
    <3>2. r \in requests' /\ r.device = d /\ r.flight = f
      BY <2>1
    <3>3. /\ disk'[d] = g /\ g.flight = {f} /\ g.seq = h.seq /\ Base(g) = b /\ log'[d] = log[d]
          /\ f.baseRevision = b.revision /\ f.startSeq = b.ackSeq + 1
          /\ f.startSeq <= f.endSeq /\ f.endSeq <= h.seq
          /\ Declared(b.state, f.snapshot, DeleteIntents(g, f.startSeq, f.endSeq))
          /\ f.endSeq = h.seq /\ log[d] = <<>> => f.snapshot = Recovered(d)'.doc
          /\ \E q \in requests' : q.device = d /\ q.flight = f
      <4>1. Declared(b.state, f.snapshot, DeleteIntents(g, f.startSeq, f.endSeq))
        BY ONLY <2>2, <2>8
      <4>2. f.endSeq = h.seq /\ log[d] = <<>> => f.snapshot = Recovered(d)'.doc
        BY ONLY <2>2, <3>1
      <4>3. \E q \in requests' : q.device = d /\ q.flight = f
        BY ONLY <3>2
      <4>4. /\ disk'[d] = g /\ g.flight = {f} /\ g.seq = h.seq /\ Base(g) = b /\ log'[d] = log[d]
            /\ f.baseRevision = b.revision /\ f.startSeq = b.ackSeq + 1
            /\ f.startSeq <= f.endSeq /\ f.endSeq <= h.seq
        BY ONLY <2>2, <2>5, <2>7, <2>8
      <4> QED BY ONLY <4>1, <4>2, <4>3, <4>4
    <3> QED BY ONLY <3>3 DEF FlightOk
  <2>13. ConflictOk(d)' /\ RoundOk(d)' /\ MergeOk(d)'
    BY <2>5, <2>7, <2>9 DEF ConflictOk, RoundOk, Refused, MergeOk
  <2>14. DeviceOk(d)'
    BY <2>10, <2>11, <2>12, <2>13 DEF DeviceOk
  <2>15. ASSUME NEW q \in requests, q.device = d
         PROVE  /\ q.flight.baseRevision \in 1..b.revision
                /\ q.flight.baseRevision = b.revision => q.flight = f
                /\ Landed(q) => q.flight.endSeq <= b.ackSeq \/ q.flight = f
    <3>1. RequestOk(q)
      BY DEF IInv, Safe
    <3> QED BY <2>2, <2>15, <3>1 DEF RequestOk
  <2>16. ASSUME NEW q \in requests', q.device = d PROVE RequestOk(q)'
    <3>1. CASE q \in requests
      <4>1. RequestOk(q) /\ (Landed(q)' <=> Landed(q))
        BY <2>7, <3>1 DEF IInv, Safe, Landed
      <4>2. /\ q.flight.baseRevision \in 1..b.revision
            /\ q.flight.baseRevision = b.revision => g.flight = {q.flight}
            /\ Landed(q) => q.flight.endSeq <= b.ackSeq \/ g.flight = {q.flight}
        BY <2>5, <2>15, <2>16, <3>1
      <4>3. /\ q.flight.operationId = <<q.device, q.flight.baseRevision, q.flight.startSeq>>
            /\ q.flight.startSeq <= q.flight.endSeq
            /\ Declared(server.versions[q.flight.baseRevision].doc, q.flight.snapshot, q.deletes)
        BY <4>1 DEF RequestOk
      <4> QED BY <2>7, <2>8, <2>16, <4>1, <4>2, <4>3 DEF RequestOk
    <3>2. CASE q = r
      <4>1. HasVersion(b.revision, b.state)
        BY <1>1 DEF BaseOk
      <4>2. b.revision \in 1..b.revision /\ server.versions[b.revision].doc = b.state
        BY <2>3, <4>1 DEF HasVersion
      <4> QED BY <2>2, <2>5, <2>7, <2>8, <3>2, <4>2 DEF RequestOk
    <3> QED BY <2>1, <3>1, <3>2
  <2>17. LandedInOrder'
    <3> SUFFICES ASSUME NEW p \in requests', NEW q \in requests', Landed(p), p.device = q.device,
                        p.flight.baseRevision < q.flight.baseRevision
                 PROVE  p.flight.endSeq < q.flight.startSeq
      BY <2>7 DEF LandedInOrder, Landed
    <3>1. p \in requests
      BY DEF Landed, IInv, Safe, LandedInPlace
    <3>2. CASE q \in requests
      BY <3>1, <3>2 DEF IInv, Safe, LandedInOrder
    <3>3. CASE q = r
      <4>1. p.flight.endSeq <= b.ackSeq \/ p.flight = f
        BY <2>15, <3>1, <3>3
      <4>2. p.flight # f /\ p.flight.endSeq \in Nat /\ q.flight = f
        BY <2>2, <2>3, <3>1, <3>3, RequestTyped DEF IInv
      <4> QED BY <2>2, <2>3, <4>1, <4>2
    <3> QED BY <2>1, <3>2, <3>3
  <2>18. Typed'
    BY <1>1, <2>5, <2>6, <2>7, StepTyped DEF IInv
  <2>19. Safe'
    BY <2>7, <2>14, <2>16, <2>17, StepSafe
  <2> QED BY <2>18, <2>19 DEF IInv
<1> QED BY <1>2, <1>3

-----------------------------------------------------------------------------
(* Every step keeps the invariant. *)

LEMMA InitInvariant == Init => IInv
<1> SUFFICES ASSUME Init PROVE IInv
  OBVIOUS
<1> PICK v : v = [doc |-> FirstDocument, by |-> {}]
  OBVIOUS
<1>0. /\ server = [versions |-> <<v>>, operations |-> {}] /\ requests = {}
      /\ disk = [d \in Devices |-> EmptyHead] /\ log = [d \in Devices |-> <<>>]
      /\ view = [d \in Devices |-> [c \in Checks |-> Absent]]
      /\ sync = [d \in Devices |-> [stage |-> "new"]] /\ edited = 0
  BY DEF Init
<1>1. \A d \in Devices : New(d) /\ disk[d] = EmptyHead /\ log[d] = <<>>
  BY <1>0 DEF New
<1>2. v \in VersionSet
  <2>1. FirstDocument \in Docs
    BY DEF FirstDocument, Docs, Absent
  <2> QED BY <2>1 DEF VersionSet
<1>3. /\ <<v>> \in Seq(VersionSet) /\ Len(<<v>>) = 1 /\ <<v>>[1] = v
      /\ DOMAIN <<v>> = 1..1
  BY <1>2
<1>4. server.versions = <<v>> /\ Revision = 1
  BY <1>0, <1>3 DEF Revision
<1>5. Typed
  <2>1. server \in [versions : Seq(VersionSet), operations : SUBSET (Devices \X Nat \X Nat)]
    BY <1>0, <1>3
  <2>2. disk \in [Devices -> HeadSet \cup {EmptyHead}] /\ log \in [Devices -> Seq(EditSet)]
    BY <1>0
  <2>3. view \in [Devices -> Docs]
    BY <1>0 DEF Docs, Absent
  <2>4. sync \in [Devices -> SyncSet]
    BY <1>0 DEF SyncSet, Plain
  <2> QED BY <1>0, <1>1, <1>4, <2>1, <2>2, <2>3, <2>4 DEF Typed
<1>6. \A i \in DOMAIN server.versions : server.versions[i].by = {}
  BY <1>3, <1>4
<1>7. Safe
  BY <1>0, <1>1, <1>6 DEF Safe, LandedInPlace, LandedInOrder, DeviceOk
<1> QED BY <1>5, <1>7 DEF IInv

LEMMA StutterInvariant == IInv /\ UNCHANGED vars => IInv'
<1> SUFFICES ASSUME IInv, UNCHANGED vars PROVE IInv'
  OBVIOUS
<1>1. /\ server' = server /\ requests' = requests /\ disk' = disk /\ log' = log
      /\ view' = view /\ sync' = sync /\ edited' = edited
  BY DEF vars
<1>2. Typed'
  BY <1>1 DEF IInv, Typed, New, Revision
<1>3. LandedInPlace' /\ LandedInOrder' /\ \A r \in requests : RequestOk(r)'
  BY <1>1 DEF IInv, Safe, LandedInPlace, LandedInOrder, Landed, RequestOk, New
<1>4. ASSUME NEW d \in Devices PROVE DeviceOk(d)'
  <2>1. Recovered(d)' = Recovered(d)
    BY <1>1, RecoveredSame
  <2> QED BY <1>1, <2>1 DEF IInv, Safe, DeviceOk, BaseOk, Earned, FlightOk, ConflictOk, RoundOk,
                MergeOk, New, InConflict, HasVersion, Revision, Refused, Landed
<1> QED BY <1>1, <1>2, <1>3, <1>4 DEF IInv, Safe

LEMMA NextInvariant == IInv /\ [Next]_vars => IInv'
<1> SUFFICES ASSUME IInv, [Next]_vars PROVE IInv'
  OBVIOUS
<1>1. ASSUME NEW r \in requests, Serve(r) PROVE IInv'
  BY <1>1, ServeInvariant
<1>2. ASSUME NEW r \in requests, ServeAndReply(r) PROVE IInv'
  BY <1>2, ReplyInvariant
<1>3. ASSUME NEW d \in Devices, NEW c \in Checks, Insert(d, c) \/ Replace(d, c) \/ Delete(d, c)
      PROVE  IInv'
  <2>1. \E kind \in {"insert", "replace", "delete"} : Edit(d, c, kind)
    BY <1>3 DEF Insert, Replace, Delete
  <2> QED BY <2>1, EditInvariant
<1>4. ASSUME NEW d \in Devices,
             Initialize(d) \/ Commit(d) \/ Upload(d) \/ ReadRemote(d) \/ Timeout(d) \/ Fail(d)
      PROVE  IInv'
  BY <1>4, InitializeInvariant, CommitInvariant, UploadInvariant, ReadRemoteInvariant,
     TimeoutInvariant, FailInvariant
<1>5. ASSUME NEW d \in Devices,
             Integrate(d) \/ CommitAck(d) \/ CommitReject(d) \/ Retry(d)
      PROVE  IInv'
  BY <1>5, IntegrateInvariant, CommitAckInvariant, CommitRejectInvariant, RetryInvariant
<1>6. ASSUME NEW d \in Devices,
             PublishRead(d) \/ PublishApply(d) \/ Poll(d) \/ Adopt(d) \/ Restart(d)
      PROVE  IInv'
  BY <1>6, PublishReadInvariant, PublishApplyInvariant, PollInvariant, AdoptInvariant,
     RestartInvariant
<1>7. CASE UNCHANGED vars
  BY <1>7, StutterInvariant
<1> QED BY <1>1, <1>2, <1>3, <1>4, <1>5, <1>6, <1>7 DEF Next

-----------------------------------------------------------------------------
(* What the operations of a device make of a document. *)

\* op is the last operation on its check among the places from..to of a line.
Last(O, op, from, to) ==
    /\ op \in O /\ op.seq \in from..to
    /\ \A x \in O : x.id.check = op.id.check /\ x.seq \in from..to => x.seq <= op.seq

\* op is the first operation on its check from a place on.
First(O, op, from) ==
    /\ op \in O /\ op.seq >= from
    /\ \A x \in O : x.id.check = op.id.check /\ x.seq >= from => op.seq <= x.seq

\* doc has what the last of the operations from..to left of each check.
Keeps(O, from, to, doc) ==
    \A op \in O : Last(O, op, from, to) => doc[op.id.check] = Value(op.id)

\* doc is base with the operations from..to on it, and nothing else.
Overlays(O, from, to, base, doc) ==
    \A c \in Checks :
        \/ (\A op \in O : op.id.check = c => op.seq \notin from..to) /\ doc[c] = base[c]
        \/ \E op \in O : Last(O, op, from, to) /\ op.id.check = c /\ doc[c] = Value(op.id)

\* The checks doc has and base lacks were inserted by the operations from..to.
Inserts(O, from, to, base, doc) ==
    \A c \in Checks : doc[c] # Absent /\ base[c] = Absent =>
        \E op \in O : op.id.kind = "insert" /\ op.id.check = c /\ op.seq \in from..to

\* What doc changes of base is changed by operations whose user saw the row of base.
Sees(O, from, base, doc) ==
    \A c \in Checks : doc[c] # base[c] =>
        \E op \in O :
            First(O, op, from) /\ op.id.check = c /\ (op.id.over = base[c] \/ op.id.early)

Made(O, from, to, base, doc) ==
    Overlays(O, from, to, base, doc) /\ Inserts(O, from, to, base, doc) /\ Sees(O, from, base, doc)

\* One operation at a place, one number each, and a check's insertion comes first.
Ordered(O, n) ==
    /\ O \subseteq OpSet /\ \A op \in O : op.seq \in 1..n
    /\ \A x, y \in O : x.seq = y.seq \/ x.id.n = y.id.n => x = y
    /\ \A x, y \in O : x.id.kind = "insert" /\ x.id.check = y.id.check => x.seq <= y.seq

\* No row of base is of an operation from a place on.
Apart(O, from, base) ==
    \A op \in O : op.seq >= from => base[op.id.check] # op.id.n

LEMMA OpTyped ==
    ASSUME NEW op \in OpSet
    PROVE  /\ op.seq \in Nat /\ op.id \in EditSet /\ op.id.n \in Nat /\ op.id.n > 0
           /\ op.id.check \in Checks /\ op.id.over \in Int /\ op.id.early \in BOOLEAN
           /\ Value(op.id) = Absent <=> op.id.kind = "delete"
           /\ op.id.kind # "delete" => Value(op.id) = op.id.n
           /\ op.id.kind \in {"insert", "replace", "delete"}
<1>1. op.seq \in Nat /\ op.id \in EditSet
  BY DEF OpSet
<1>2. /\ op.id.n \in Nat /\ op.id.n > 0 /\ op.id.check \in Checks /\ op.id.over \in Int
      /\ op.id.early \in BOOLEAN /\ op.id.kind \in {"insert", "replace", "delete"}
  BY <1>1 DEF EditSet
<1> QED BY <1>1, <1>2 DEF Value, Absent

LEMMA FirstOf ==
    ASSUME NEW O, NEW n, Ordered(O, n), NEW from \in Int, NEW op \in O, op.seq >= from
    PROVE  \E x \in O : First(O, x, from) /\ x.id.check = op.id.check /\ x.seq <= op.seq
<1> PICK S : S = {x \in O : x.id.check = op.id.check /\ x.seq >= from}
  OBVIOUS
<1> PICK T : T = {x.seq : x \in S}
  OBVIOUS
<1>1. O \subseteq OpSet
  BY DEF Ordered
<1>2. T \subseteq Nat /\ T # {}
  <2>1. \A x \in S : x.seq \in Nat
    BY <1>1, OpTyped
  <2>2. op \in S
    OBVIOUS
  <2> QED BY <2>1, <2>2
<1>3. PICK m \in T : \A k \in T : m <= k
  BY <1>2, LeastExists
<1>4. PICK x \in S : x.seq = m
  BY <1>3
<1>5. \A y \in S : x.seq <= y.seq
  BY <1>3, <1>4
<1>6. op \in S /\ x \in O /\ x.id.check = op.id.check /\ x.seq >= from
  BY <1>4
<1>7. First(O, x, from)
  BY <1>5, <1>6 DEF First
<1> QED BY <1>5, <1>6, <1>7

LEMMA LastOf ==
    ASSUME NEW O, NEW n \in Nat, Ordered(O, n), NEW from \in Int, NEW to \in Int,
           NEW op \in O, op.seq \in from..to
    PROVE  \E x \in O : Last(O, x, from, to) /\ x.id.check = op.id.check /\ op.seq <= x.seq
<1> PICK S : S = {x \in O : x.id.check = op.id.check /\ x.seq \in from..to}
  OBVIOUS
<1> PICK T : T = {x.seq : x \in S}
  OBVIOUS
<1>1. T \in SUBSET (1..n) /\ T # {}
  <2>1. \A x \in S : x.seq \in 1..n
    BY DEF Ordered
  <2>2. op \in S
    OBVIOUS
  <2> QED BY <2>1, <2>2
<1>2. PICK m \in T : \A k \in T : k <= m
  BY <1>1, LastExists
<1>3. PICK x \in S : x.seq = m
  BY <1>2
<1>4. \A y \in S : y.seq <= x.seq
  BY <1>2, <1>3
<1>5. op \in S /\ x \in O /\ x.id.check = op.id.check /\ x.seq \in from..to
  BY <1>3
<1>6. Last(O, x, from, to)
  BY <1>4, <1>5 DEF Last
<1> QED BY <1>4, <1>5, <1>6

\* There is one last operation on a check.
LEMMA LastUnique ==
    ASSUME NEW O, NEW n, Ordered(O, n), NEW from, NEW to, NEW x, NEW y,
           Last(O, x, from, to), Last(O, y, from, to), x.id.check = y.id.check
    PROVE  x = y
<1>1. x \in O /\ y \in O /\ x.seq <= y.seq /\ y.seq <= x.seq
  BY DEF Last
<1>2. x.seq \in Nat /\ y.seq \in Nat
  BY <1>1, OpTyped DEF Ordered
<1>3. x.seq = y.seq
  BY <1>1, <1>2
<1> QED BY <1>1, <1>3 DEF Ordered

\* The last operation of a range is the last of every shorter one that holds it.
LEMMA OverlaysKeeps ==
    ASSUME NEW O, NEW n, Ordered(O, n), NEW from \in Int, NEW to \in Int, NEW base, NEW doc,
           Overlays(O, from, to, base, doc)
    PROVE  Keeps(O, from, to, doc)
<1> SUFFICES ASSUME NEW op \in O, Last(O, op, from, to) PROVE doc[op.id.check] = Value(op.id)
  BY DEF Keeps
<1>1. op.id.check \in Checks /\ op.seq \in from..to
  BY OpTyped DEF Ordered, Last
<1>2. PICK x \in O : Last(O, x, from, to) /\ x.id.check = op.id.check /\ doc[op.id.check] = Value(x.id)
  BY <1>1 DEF Overlays
<1>3. x = op
  BY <1>2, LastUnique
<1> QED BY <1>2, <1>3

LEMMA EmptyMade ==
    ASSUME NEW O, NEW from \in Int, NEW to \in Int, to < from, NEW doc
    PROVE  Made(O, from, to, doc, doc)
<1>1. \A k : k \notin from..to
  OBVIOUS
<1>2. Overlays(O, from, to, doc, doc) /\ Inserts(O, from, to, doc, doc) /\ Sees(O, from, doc, doc)
  BY <1>1 DEF Overlays, Inserts, Sees
<1> QED BY <1>2 DEF Made

\* An operation made later changes nothing of what was made before.
LEMMA GrowsKeeps ==
    ASSUME NEW O, NEW n, Ordered(O, n), NEW op, NEW from \in Int, NEW to \in Int, NEW doc,
           op.seq > to, Keeps(O, from, to, doc)
    PROVE  Keeps(O \cup {op}, from, to, doc)
<1>0. op.seq \notin from..to
  OBVIOUS
<1> SUFFICES ASSUME NEW x \in O \cup {op}, Last(O \cup {op}, x, from, to)
             PROVE  doc[x.id.check] = Value(x.id)
  BY DEF Keeps
<1>1. x \in O /\ Last(O, x, from, to)
  BY <1>0 DEF Last
<1> QED BY <1>1 DEF Keeps

LEMMA GrowsSees ==
    ASSUME NEW O, NEW op, \A x \in O : x.seq <= op.seq, NEW from, NEW base, NEW doc,
           Sees(O, from, base, doc)
    PROVE  Sees(O \cup {op}, from, base, doc)
<1> SUFFICES ASSUME NEW c \in Checks, doc[c] # base[c]
             PROVE  \E x \in O \cup {op} : First(O \cup {op}, x, from) /\ x.id.check = c
                                            /\ (x.id.over = base[c] \/ x.id.early)
  BY DEF Sees
<1>1. PICK x \in O : First(O, x, from) /\ x.id.check = c /\ (x.id.over = base[c] \/ x.id.early)
  BY DEF Sees
<1>2. First(O \cup {op}, x, from)
  BY <1>1 DEF First
<1> QED BY <1>1, <1>2

LEMMA GrowsOverlays ==
    ASSUME NEW O, NEW op, NEW from \in Int, NEW to \in Int, op.seq > to,
           NEW base, NEW doc, Overlays(O, from, to, base, doc)
    PROVE  Overlays(O \cup {op}, from, to, base, doc)
<1>0. op.seq \notin from..to
  OBVIOUS
<1>1. \A x : Last(O, x, from, to) => Last(O \cup {op}, x, from, to)
  BY <1>0 DEF Last
<1>2. ASSUME NEW c \in Checks
      PROVE  \/ /\ \A x \in O \cup {op} : x.id.check = c => x.seq \notin from..to
                /\ doc[c] = base[c]
             \/ \E x \in O \cup {op} :
                   Last(O \cup {op}, x, from, to) /\ x.id.check = c /\ doc[c] = Value(x.id)
  <2>1. CASE (\A x \in O : x.id.check = c => x.seq \notin from..to) /\ doc[c] = base[c]
    BY <1>0, <2>1
  <2>2. CASE \E x \in O : Last(O, x, from, to) /\ x.id.check = c /\ doc[c] = Value(x.id)
    BY <1>1, <2>2
  <2> QED BY <2>1, <2>2 DEF Overlays
<1> QED BY <1>2 DEF Overlays

LEMMA GrowsMade ==
    ASSUME NEW O, NEW n, Ordered(O, n), NEW op, op.seq = n + 1, n \in Nat,
           NEW from \in Int, NEW to \in Int, to <= n, NEW base, NEW doc,
           Made(O, from, to, base, doc)
    PROVE  Made(O \cup {op}, from, to, base, doc)
<1>1. op.seq > to /\ \A x \in O : x.seq <= op.seq
  BY DEF Ordered
<1>2. Overlays(O, from, to, base, doc) /\ Inserts(O, from, to, base, doc) /\ Sees(O, from, base, doc)
  BY DEF Made
<1>3. Overlays(O \cup {op}, from, to, base, doc)
  BY <1>1, <1>2, GrowsOverlays
<1>4. Inserts(O \cup {op}, from, to, base, doc)
  BY <1>2 DEF Inserts
<1>5. Sees(O \cup {op}, from, base, doc)
  BY <1>1, <1>2, GrowsSees
<1> QED BY <1>3, <1>4, <1>5 DEF Made

\* What the last operation left of its check is not the row of a base apart from it.
LEMMA LastApart ==
    ASSUME NEW O, NEW n, Ordered(O, n), NEW from \in Int, NEW to, NEW base, Apart(O, from, base),
           NEW op, Last(O, op, from, to), Value(op.id) = base[op.id.check]
    PROVE  op.id.kind = "delete" /\ base[op.id.check] = Absent
<1>1. op \in O /\ op.seq >= from /\ op \in OpSet
  BY OpTyped DEF Last, Ordered
<1>2. base[op.id.check] # op.id.n
  BY <1>1 DEF Apart
<1> QED BY <1>1, <1>2, OpTyped

\* A document shown, and an edit made on it.
LEMMA EditMade ==
    ASSUME NEW O, NEW n \in Nat, Ordered(O, n), NEW op \in OpSet, op.seq = n + 1,
           Ordered(O \cup {op}, n + 1), NEW from \in Int, from <= n + 1, NEW base, Apart(O, from, base),
           NEW shown \in Docs, Made(O, from, n, base, shown), op.id.over = shown[op.id.check],
           op.id.kind # "insert" => shown[op.id.check] # Absent
    PROVE  Made(O \cup {op}, from, n + 1, base, Apply(shown, op.id))
<1> PICK doc : doc = Apply(shown, op.id)
  OBVIOUS
<1> PICK Q : Q = O \cup {op}
  OBVIOUS
<1>0. /\ Overlays(O, from, n, base, shown) /\ Inserts(O, from, n, base, shown) /\ Sees(O, from, base, shown)
  BY DEF Made
<1>1. /\ op.id.check \in Checks /\ doc[op.id.check] = Value(op.id)
      /\ \A c \in Checks : c # op.id.check => doc[c] = shown[c]
  BY OpTyped DEF Apply, Docs
<1>2. /\ \A x \in O : x.seq \in 1..n
      /\ \A x \in O : x.seq < op.seq /\ (x.seq \in from..(n + 1) <=> x.seq \in from..n)
      /\ op.seq \in from..(n + 1)
  <2>1. \A x \in O : x.seq \in 1..n
    BY DEF Ordered
  <2> QED BY <2>1
<1>3. Overlays(Q, from, n + 1, base, doc)
  <2>1. \A x : Last(O, x, from, n) /\ x.id.check # op.id.check => Last(Q, x, from, n + 1)
    BY <1>2 DEF Last
  <2>2. Last(Q, op, from, n + 1)
    <3>1. op \in Q /\ op.seq \in from..(n + 1)
      BY <1>2
    <3>2. \A x \in Q : x.seq <= op.seq
      BY <1>2
    <3> QED BY <3>1, <3>2 DEF Last
  <2> SUFFICES ASSUME NEW c \in Checks
               PROVE  \/ (\A x \in Q : x.id.check = c => x.seq \notin from..(n + 1)) /\ doc[c] = base[c]
                      \/ \E x \in Q : Last(Q, x, from, n + 1) /\ x.id.check = c /\ doc[c] = Value(x.id)
    BY DEF Overlays
  <2>3. CASE c = op.id.check
    BY <1>1, <2>2, <2>3
  <2>4. CASE c # op.id.check
    <3>1. CASE (\A x \in O : x.id.check = c => x.seq \notin from..n) /\ shown[c] = base[c]
      BY <1>1, <1>2, <2>4, <3>1
    <3>2. CASE \E x \in O : Last(O, x, from, n) /\ x.id.check = c /\ shown[c] = Value(x.id)
      BY <1>1, <2>1, <2>4, <3>2
    <3> QED BY <1>0, <3>1, <3>2 DEF Overlays
  <2> QED BY <2>3, <2>4
<1>4. Inserts(Q, from, n + 1, base, doc)
  <2> SUFFICES ASSUME NEW c \in Checks, doc[c] # Absent, base[c] = Absent
               PROVE  \E x \in Q : x.id.kind = "insert" /\ x.id.check = c /\ x.seq \in from..(n + 1)
    BY DEF Inserts
  <2>1. CASE c = op.id.check /\ op.id.kind = "insert"
    BY <1>2, <2>1
  <2>2. CASE ~ (c = op.id.check /\ op.id.kind = "insert")
    <3>1. shown[c] # Absent
      BY <1>1, <2>2
    <3>2. PICK x \in O : x.id.kind = "insert" /\ x.id.check = c /\ x.seq \in from..n
      BY <1>0, <3>1 DEF Inserts
    <3> QED BY <1>2, <3>2
  <2> QED BY <2>1, <2>2
<1>5. Sees(Q, from, base, doc)
  <2>0. Sees(Q, from, base, shown)
    <3>1. \A x \in O : x.seq <= op.seq
      BY <1>2
    <3> QED BY <1>0, <3>1, GrowsSees
  <2> SUFFICES ASSUME NEW c \in Checks, doc[c] # base[c]
               PROVE  \E x \in Q :
                         First(Q, x, from) /\ x.id.check = c /\ (x.id.over = base[c] \/ x.id.early)
    BY DEF Sees
  <2>1. CASE shown[c] # base[c]
    BY <2>0, <2>1 DEF Sees
  <2>2. CASE shown[c] = base[c]
    <3>1. c = op.id.check
      BY <1>1, <2>2
    <3>2. op \in Q /\ op.seq >= from
      BY <1>2
    <3>3. PICK x \in Q : First(Q, x, from) /\ x.id.check = op.id.check
      BY <3>2, FirstOf
    <3>4. x = op
      <4> SUFFICES ASSUME x # op PROVE FALSE
        OBVIOUS
      <4>1. x \in O /\ x.seq >= from
        BY <3>3 DEF First
      <4>2. x.seq \in from..n
        BY <1>2, <4>1
      <4>3. PICK y \in O : Last(O, y, from, n) /\ y.id.check = c /\ shown[c] = Value(y.id)
        BY <1>0, <3>1, <3>3, <4>1, <4>2 DEF Overlays
      <4>4. Value(y.id) = base[y.id.check]
        BY <2>2, <4>3
      <4>5. base[c] = Absent
        BY <4>3, <4>4, LastApart
      <4>6. op.id.kind = "insert"
        BY <2>2, <3>1, <4>5
      <4>7. op.seq <= x.seq
        BY <3>3, <4>6 DEF Ordered
      <4> QED BY <1>2, <4>1, <4>7
    <3> QED BY <2>2, <3>1, <3>3, <3>4
  <2> QED BY <2>1, <2>2
<1> QED BY <1>3, <1>4, <1>5 DEF Made

\* A document made in two parts, the second of operations made on a screen behind it.
LEMMA JoinMade ==
    ASSUME NEW O, NEW n \in Nat, Ordered(O, n), NEW from \in Int, NEW m \in Int, from <= m + 1, m <= n,
           NEW base, NEW cp, NEW doc, Apart(O, from, base), Made(O, from, m, base, cp),
           Overlays(O, m + 1, n, cp, doc), Inserts(O, m + 1, n, cp, doc),
           \A op \in O : op.seq > m => op.id.early
    PROVE  Made(O, from, n, base, doc)
<1>0. Overlays(O, from, m, base, cp) /\ Inserts(O, from, m, base, cp) /\ Sees(O, from, base, cp)
  BY DEF Made
<1>1. \A x \in O : /\ x.seq \in 1..n
                   /\ x.seq \in from..n <=> x.seq \in from..m \/ x.seq \in (m + 1)..n
                   /\ x.seq >= from => x.seq \in from..m \/ x.seq \in (m + 1)..n
  <2>1. \A x \in O : x.seq \in 1..n
    BY DEF Ordered
  <2> QED BY <2>1
<1>2. ASSUME NEW x, Last(O, x, m + 1, n) PROVE Last(O, x, from, n)
  <2>1. /\ x \in O /\ x.seq \in (m + 1)..n
        /\ \A y \in O : y.id.check = x.id.check /\ y.seq \in (m + 1)..n => y.seq <= x.seq
    BY <1>2 DEF Last
  <2>2. \A y \in O : y.seq \in from..m => y.seq <= x.seq
    BY <2>1
  <2> QED BY <1>1, <2>1, <2>2 DEF Last
<1>3. Overlays(O, from, n, base, doc)
  <2> SUFFICES ASSUME NEW c \in Checks
               PROVE  \/ (\A x \in O : x.id.check = c => x.seq \notin from..n) /\ doc[c] = base[c]
                      \/ \E x \in O : Last(O, x, from, n) /\ x.id.check = c /\ doc[c] = Value(x.id)
    BY DEF Overlays
  <2>1. CASE \E x \in O : Last(O, x, m + 1, n) /\ x.id.check = c /\ doc[c] = Value(x.id)
    BY <1>2, <2>1
  <2>2. CASE (\A x \in O : x.id.check = c => x.seq \notin (m + 1)..n) /\ doc[c] = cp[c]
    <3>1. CASE (\A x \in O : x.id.check = c => x.seq \notin from..m) /\ cp[c] = base[c]
      BY <1>1, <2>2, <3>1
    <3>2. CASE \E x \in O : Last(O, x, from, m) /\ x.id.check = c /\ cp[c] = Value(x.id)
      <4>1. PICK x \in O : Last(O, x, from, m) /\ x.id.check = c /\ cp[c] = Value(x.id)
        BY <3>2
      <4>2. Last(O, x, from, n)
        BY <1>1, <2>2, <4>1 DEF Last
      <4> QED BY <2>2, <4>1, <4>2
    <3> QED BY <1>0, <3>1, <3>2 DEF Overlays
  <2> QED BY <2>1, <2>2 DEF Overlays
<1>4. Inserts(O, from, n, base, doc)
  <2> SUFFICES ASSUME NEW c \in Checks, doc[c] # Absent, base[c] = Absent
               PROVE  \E x \in O : x.id.kind = "insert" /\ x.id.check = c /\ x.seq \in from..n
    BY DEF Inserts
  <2>1. CASE cp[c] = Absent
    <3>1. PICK x \in O : x.id.kind = "insert" /\ x.id.check = c /\ x.seq \in (m + 1)..n
      BY <2>1 DEF Inserts
    <3> QED BY <1>1, <3>1
  <2>2. CASE cp[c] # Absent
    <3>1. PICK x \in O : x.id.kind = "insert" /\ x.id.check = c /\ x.seq \in from..m
      BY <1>0, <2>2 DEF Inserts
    <3> QED BY <1>1, <3>1
  <2> QED BY <2>1, <2>2
<1>5. Sees(O, from, base, doc)
  <2> SUFFICES ASSUME NEW c \in Checks, doc[c] # base[c]
               PROVE  \E x \in O :
                         First(O, x, from) /\ x.id.check = c /\ (x.id.over = base[c] \/ x.id.early)
    BY DEF Sees
  <2>1. CASE cp[c] # base[c]
    BY <1>0, <2>1 DEF Sees
  <2>2. CASE cp[c] = base[c]
    <3>1. PICK y \in O : Last(O, y, m + 1, n) /\ y.id.check = c
      BY <2>2 DEF Overlays
    <3>2. y.seq >= from
      BY <3>1 DEF Last
    <3>3. PICK x \in O : First(O, x, from) /\ x.id.check = c
      BY <3>1, <3>2, FirstOf
    <3>4. CASE x.seq \in (m + 1)..n
      <4>1. x.id.early
        BY <3>4
      <4> QED BY <3>3, <4>1
    <3>5. CASE x.seq \in from..m
      <4>1. PICK z \in O : Last(O, z, from, m) /\ z.id.check = c /\ cp[c] = Value(z.id)
        BY <1>0, <3>3, <3>5 DEF Overlays
      <4>2. Value(z.id) = base[z.id.check]
        BY <2>2, <4>1
      <4>3. base[c] = Absent
        BY <4>1, <4>2, LastApart
      <4>4. PICK w \in O : w.id.kind = "insert" /\ w.id.check = c /\ w.seq \in (m + 1)..n
        BY <2>2, <4>3 DEF Inserts
      <4>5. w.seq <= x.seq
        BY <3>3, <4>4 DEF Ordered
      <4> QED BY <3>5, <4>4, <4>5
    <3>6. x.seq >= from
      BY <3>3 DEF First
    <3> QED BY <1>1, <3>4, <3>5, <3>6
  <2> QED BY <2>1, <2>2
<1> QED BY <1>3, <1>4, <1>5 DEF Made

\* A merge without conflict: what was made of the base is made of the remote document.
LEMMA MergedMade ==
    ASSUME NEW O, NEW n \in Nat, Ordered(O, n), NEW from \in Int, NEW base \in Docs, NEW local \in Docs,
           NEW remote \in Docs, NEW deletes, NEW merged,
           merged = MergeSharedChecks(base, local, remote, deletes), merged.conflicts = {},
           Apart(O, from, base), Made(O, from, n, base, local),
           \A op \in O : op.seq >= from /\ op.id.kind = "delete" => op.id.check \in deletes,
           \A op \in O : op.seq >= from /\ base[op.id.check] = Absent => remote[op.id.check] = Absent
    PROVE  Made(O, from, n, remote, merged.checks)
<1> PICK mine : mine = ProtectImplicitDeletes(base, local, deletes)
  OBVIOUS
<1> PICK doc : doc = merged.checks
  OBVIOUS
<1>0. Overlays(O, from, n, base, local) /\ Inserts(O, from, n, base, local) /\ Sees(O, from, base, local)
  BY DEF Made
<1>1. \A c \in Checks : /\ mine[c] = IF local[c] = Absent /\ c \notin deletes THEN base[c] ELSE local[c]
                        /\ mine[c] # base[c] => remote[c] = base[c] \/ mine[c] = remote[c]
                        /\ doc[c] = IF mine[c] # base[c] THEN mine[c] ELSE remote[c]
  BY DEF MergeSharedChecks, ProtectImplicitDeletes
<1>2. \A x \in O : x.seq \in from..n => x.seq >= from
  BY DEF Ordered
\* A check no operation is about has the remote row, the others the local one.
<1>3. ASSUME NEW c \in Checks
      PROVE  \/ /\ \A x \in O : x.id.check = c => x.seq \notin from..n
                /\ local[c] = base[c] /\ doc[c] = remote[c]
             \/ \E x \in O :
                   /\ Last(O, x, from, n) /\ x.id.check = c
                   /\ mine[c] = local[c] /\ local[c] = Value(x.id) /\ doc[c] = Value(x.id)
  <2>1. CASE (\A x \in O : x.id.check = c => x.seq \notin from..n) /\ local[c] = base[c]
    BY <1>1, <2>1
  <2>2. CASE \E x \in O : Last(O, x, from, n) /\ x.id.check = c /\ local[c] = Value(x.id)
    <3>1. PICK x \in O : Last(O, x, from, n) /\ x.id.check = c /\ local[c] = Value(x.id)
      BY <2>2
    <3>2. x \in OpSet /\ x.seq >= from
      BY <1>2, <3>1 DEF Ordered, Last
    <3>3. mine[c] = local[c]
      <4>1. local[c] = Absent => c \in deletes
        BY <3>1, <3>2, OpTyped
      <4> QED BY <1>1, <4>1
    <3>4. doc[c] = Value(x.id)
      <4>1. CASE local[c] # base[c]
        BY <1>1, <3>1, <3>3, <4>1
      <4>2. CASE local[c] = base[c]
        <5>0. Value(x.id) = base[x.id.check]
          BY <3>1, <4>2
        <5>1. x.id.kind = "delete" /\ base[c] = Absent
          BY <3>1, <5>0, LastApart
        <5>2. remote[c] = Absent
          BY <3>1, <3>2, <5>1
        <5> QED BY <1>1, <3>1, <3>3, <4>2, <5>1, <5>2
      <4> QED BY <4>1, <4>2
    <3> QED BY <3>1, <3>3, <3>4
  <2> QED BY <1>0, <2>1, <2>2 DEF Overlays
<1>4. Overlays(O, from, n, remote, doc)
  BY <1>3, Zenon DEF Overlays
<1>5. Inserts(O, from, n, remote, doc)
  <2> SUFFICES ASSUME NEW c \in Checks, doc[c] # Absent, remote[c] = Absent
               PROVE  \E x \in O : x.id.kind = "insert" /\ x.id.check = c /\ x.seq \in from..n
    BY DEF Inserts
  <2>1. PICK x \in O : /\ Last(O, x, from, n) /\ x.id.check = c
                       /\ mine[c] = local[c] /\ local[c] = Value(x.id) /\ doc[c] = Value(x.id)
    BY <1>3
  <2>2. base[c] = Absent
    <3> SUFFICES ASSUME base[c] # Absent PROVE FALSE
      OBVIOUS
    <3>1. mine[c] = base[c]
      BY <1>1, <2>1
    <3>2. Value(x.id) = base[x.id.check]
      BY <2>1, <3>1
    <3> QED BY <2>1, <3>2, LastApart
  <2> QED BY <1>0, <2>1, <2>2 DEF Inserts
<1>6. Sees(O, from, remote, doc)
  <2> SUFFICES ASSUME NEW c \in Checks, doc[c] # remote[c]
               PROVE  \E x \in O :
                         First(O, x, from) /\ x.id.check = c /\ (x.id.over = remote[c] \/ x.id.early)
    BY DEF Sees
  <2>1. mine[c] = local[c] /\ mine[c] # base[c] /\ doc[c] = mine[c] /\ remote[c] = base[c]
    BY <1>1, <1>3
  <2> QED BY <1>0, <2>1 DEF Sees
<1> QED BY <1>4, <1>5, <1>6 DEF Made

-----------------------------------------------------------------------------
(* The operations of a device. *)

\* Those in the journal, and those in the log at the places they will have there.
Line(d) ==
    disk[d].journal \cup {[seq |-> disk[d].seq + i, id |-> log[d][i]] : i \in DOMAIN log[d]}

\* Edits are numbered in the order they are made, and an insertion is of a new check.
Edits ==
    \A d, p \in Devices : \A x \in Line(d), y \in Line(p) :
        /\ x.id.n <= edited
        /\ x.id.n = y.id.n => d = p /\ x = y
        /\ d = p /\ x.seq < y.seq => x.id.n < y.id.n
        /\ x.id.kind = "insert" /\ x.id.check = y.id.check => x.id.n <= y.id.n
        /\ x.id.kind = "insert" => x.id.check \notin Original

LEMMA LogOps ==
    ASSUME NEW d \in Devices, log[d] \in Seq(EditSet), disk[d].seq \in Nat, NEW op \in Line(d)
    PROVE  \/ op \in disk[d].journal
           \/ \E i \in 1..Len(log[d]) : op.seq = disk[d].seq + i /\ op.id = log[d][i] /\ op \in OpSet
<1> SUFFICES ASSUME op \notin disk[d].journal
             PROVE  \E i \in 1..Len(log[d]) :
                       op.seq = disk[d].seq + i /\ op.id = log[d][i] /\ op \in OpSet
  OBVIOUS
<1>0. DOMAIN log[d] = 1..Len(log[d]) /\ Len(log[d]) \in Nat
  OBVIOUS
<1>1. PICK i \in 1..Len(log[d]) : op = [seq |-> disk[d].seq + i, id |-> log[d][i]]
  BY <1>0 DEF Line
<1>2. log[d][i] \in EditSet /\ disk[d].seq + i \in Nat
  OBVIOUS
<1> QED BY <1>1, <1>2 DEF OpSet

LEMMA LineTyped ==
    ASSUME IInv, NEW d \in Devices, ~New(d)
    PROVE  /\ Line(d) \subseteq OpSet /\ StoreSeq(d) \in Nat /\ disk[d].seq \in Nat
           /\ disk[d].seq <= StoreSeq(d) /\ (disk[d].seq = StoreSeq(d) <=> log[d] = <<>>)
           /\ \A op \in Line(d) : op.seq \in 1..StoreSeq(d)
           /\ \A op \in Line(d) : op.seq <= disk[d].seq <=> op \in disk[d].journal
           /\ \A x, y \in Line(d) : x.seq = y.seq => x = y
           /\ \A i \in 1..StoreSeq(d) : \E op \in Line(d) : op.seq = i
<1> PICK h : h = disk[d]
  OBVIOUS
<1> PICK k : k = Len(log[d])
  OBVIOUS
<1>1. log[d] \in Seq(EditSet) /\ h.seq \in Nat /\ h.journal \subseteq OpSet /\ JournalFull(h)
  BY DeviceFacts, HeadTyped DEF BaseOk
<1>2. k \in Nat /\ StoreSeq(d) = h.seq + k /\ DOMAIN log[d] = 1..k /\ (k = 0 <=> log[d] = <<>>)
  BY <1>1 DEF StoreSeq
<1>3. ASSUME NEW op \in Line(d)
      PROVE  /\ op \in OpSet
             /\ \/ op \in h.journal /\ op.seq \in 1..h.seq
                \/ \E i \in 1..k : op = [seq |-> h.seq + i, id |-> log[d][i]] /\ op.seq = h.seq + i
  <2>1. CASE op \in h.journal
    BY <1>1, <2>1 DEF JournalFull, JournalKeysOk
  <2>2. CASE op \notin h.journal
    <3>1. PICK i \in 1..k : op = [seq |-> h.seq + i, id |-> log[d][i]]
      BY <1>2, <2>2 DEF Line
    <3>2. op \in OpSet
      BY <1>1, <2>2, LogOps
    <3> QED BY <3>1, <3>2
  <2> QED BY <2>1, <2>2
<1>4. \A op \in Line(d) : op.seq \in 1..StoreSeq(d) /\ (op.seq <= h.seq <=> op \in h.journal)
  <2> SUFFICES ASSUME NEW op \in Line(d)
               PROVE  op.seq \in 1..StoreSeq(d) /\ (op.seq <= h.seq <=> op \in h.journal)
    OBVIOUS
  <2>1. CASE op \in h.journal
    <3>1. op.seq \in 1..h.seq
      BY <1>1, <2>1 DEF JournalFull, JournalKeysOk
    <3> QED BY <1>1, <1>2, <2>1, <3>1
  <2>2. CASE op \notin h.journal
    <3>1. PICK i \in 1..k : op.seq = h.seq + i
      BY <1>3, <2>2
    <3> QED BY <1>1, <1>2, <2>2, <3>1
  <2> QED BY <2>1, <2>2
<1>5. ASSUME NEW x \in Line(d), NEW y \in Line(d), x.seq = y.seq PROVE x = y
  <2>1. CASE x \in h.journal
    <3>1. y \in h.journal
      BY <1>4, <1>5, <2>1
    <3> QED BY <1>1, <1>5, <2>1, <3>1 DEF JournalFull, JournalKeysOk
  <2>2. CASE x \notin h.journal
    <3>1. y \notin h.journal
      BY <1>4, <1>5, <2>2
    <3>2. PICK i \in 1..k : x = [seq |-> h.seq + i, id |-> log[d][i]] /\ x.seq = h.seq + i
      BY <1>3, <2>2
    <3>3. PICK j \in 1..k : y = [seq |-> h.seq + j, id |-> log[d][j]] /\ y.seq = h.seq + j
      BY <1>3, <3>1
    <3>4. i = j
      BY <1>1, <1>2, <1>5, <3>2, <3>3
    <3> QED BY <3>2, <3>3, <3>4
  <2> QED BY <2>1, <2>2
<1>6. ASSUME NEW i \in 1..StoreSeq(d) PROVE \E op \in Line(d) : op.seq = i
  <2>1. CASE i <= h.seq
    <3>1. PICK op \in h.journal : op.seq = i
      BY <1>1, <1>2, <2>1 DEF JournalFull
    <3> QED BY <3>1 DEF Line
  <2>2. CASE i > h.seq
    <3> PICK j : j = i - h.seq
      OBVIOUS
    <3>1. j \in 1..k /\ i = h.seq + j
      BY <1>1, <1>2, <2>2
    <3>2. [seq |-> h.seq + j, id |-> log[d][j]] \in Line(d)
      BY <1>2, <3>1 DEF Line
    <3> QED BY <3>1, <3>2
  <2> QED BY <1>1, <2>1, <2>2
<1>7. Line(d) \subseteq OpSet
  BY <1>3
<1> QED BY <1>1, <1>2, <1>4, <1>5, <1>6, <1>7

LEMMA NewLine ==
    ASSUME IInv, NEW d \in Devices, New(d) PROVE Line(d) = {}
<1>1. disk[d].journal = {} /\ DOMAIN log[d] = {}
  BY DEF IInv, Typed, EmptyHead
<1> QED BY <1>1 DEF Line

LEMMA LineOrdered ==
    ASSUME IInv, Edits, NEW d \in Devices, ~New(d)
    PROVE  Ordered(Line(d), StoreSeq(d))
<1>1. /\ Line(d) \subseteq OpSet /\ \A op \in Line(d) : op.seq \in 1..StoreSeq(d)
      /\ \A x, y \in Line(d) : x.seq = y.seq => x = y
  BY LineTyped
<1>2. \A x, y \in Line(d) : x.id.n = y.id.n => x = y
  BY DEF Edits
<1>3. ASSUME NEW x \in Line(d), NEW y \in Line(d), x.id.kind = "insert", x.id.check = y.id.check
      PROVE  x.seq <= y.seq
  <2>1. x.id.n <= y.id.n /\ (y.seq < x.seq => y.id.n < x.id.n)
    BY <1>3 DEF Edits
  <2>2. x.id.n \in Nat /\ y.id.n \in Nat /\ x.seq \in Nat /\ y.seq \in Nat
    BY <1>1, OpTyped
  <2> QED BY <2>1, <2>2
<1> QED BY <1>1, <1>2, <1>3 DEF Ordered

LEMMA LineSame ==
    ASSUME NEW d \in Devices, disk'[d].journal = disk[d].journal, disk'[d].seq = disk[d].seq,
           log'[d] = log[d]
    PROVE  Line(d)' = Line(d) /\ StoreSeq(d)' = StoreSeq(d)
BY DEF Line, StoreSeq

-----------------------------------------------------------------------------
(* Replaying them. *)

\* The operations after the checkpoint, in the journal and in the log.
TailOf(d) == Ops(disk[d]) \o log[d]

LEMMA LineTail ==
    ASSUME IInv, NEW d \in Devices, ~New(d)
    PROVE  /\ TailOf(d) \in Seq(EditSet) /\ Len(TailOf(d)) = StoreSeq(d) - disk[d].cp.seq
           /\ Recovered(d) = Replay(disk[d].cp.state, TailOf(d))
           /\ disk[d].cp.seq \in Nat /\ disk[d].cp.seq <= disk[d].seq /\ disk[d].cp.state \in Docs
           /\ \A i \in 1..Len(TailOf(d)) : \E op \in Line(d) :
                 op.seq = disk[d].cp.seq + i /\ op.id = TailOf(d)[i]
<1> PICK h : h = disk[d]
  OBVIOUS
<1> PICK s : s = Ops(h)
  OBVIOUS
<1> PICK t : t = log[d]
  OBVIOUS
<1>1. /\ t \in Seq(EditSet) /\ h \in HeadSet /\ h.seq \in Nat /\ h.cp.seq \in Nat
      /\ JournalFull(h) /\ h.cp.seq <= h.seq /\ h.cp.state \in Docs
  BY DeviceFacts, HeadTyped DEF BaseOk
<1>2. /\ s \in Seq(EditSet) /\ Len(s) = h.seq - h.cp.seq
      /\ \A i \in 1..Len(s) : \E op \in h.journal : op.seq = h.cp.seq + i /\ op.id = s[i]
  BY <1>1, TailTyped
<1>3. s \o t \in Seq(EditSet) /\ Len(s \o t) = Len(s) + Len(t) /\ TailOf(d) = s \o t
      /\ \A i \in 1..Len(s \o t) : (s \o t)[i] = IF i <= Len(s) THEN s[i] ELSE t[i - Len(s)]
  <2>1. s \in Seq(EditSet) /\ t \in Seq(EditSet)
    BY <1>1, <1>2
  <2>2. /\ s \o t \in Seq(EditSet) /\ Len(s \o t) = Len(s) + Len(t)
        /\ \A i \in 1..Len(s \o t) : (s \o t)[i] = IF i <= Len(s) THEN s[i] ELSE t[i - Len(s)]
    BY ONLY <2>1
  <2> QED BY <2>2 DEF TailOf
<1>4. Recovered(d) = Replay(h.cp.state, s \o t)
  BY DEF Recovered, Ops
<1>5. StoreSeq(d) = h.seq + Len(t) /\ Len(t) \in Nat /\ DOMAIN t = 1..Len(t)
  BY <1>1 DEF StoreSeq
<1>6. Len(s \o t) = StoreSeq(d) - h.cp.seq
  BY <1>1, <1>2, <1>3, <1>5
<1>7. ASSUME NEW i \in 1..Len(s \o t)
      PROVE  \E op \in Line(d) : op.seq = h.cp.seq + i /\ op.id = (s \o t)[i]
  <2>1. CASE i <= Len(s)
    <3>1. i \in 1..Len(s)
      BY <1>2, <2>1
    <3>2. PICK op \in h.journal : op.seq = h.cp.seq + i /\ op.id = s[i]
      BY <1>2, <3>1
    <3> QED BY <1>3, <2>1, <3>2 DEF Line
  <2>2. CASE i > Len(s)
    <3> PICK j : j = i - Len(s)
      OBVIOUS
    <3>0. Len(s) \in Nat
      BY <1>2
    <3>1. j \in 1..Len(t) /\ h.seq + j = h.cp.seq + i
      <4> PICK m : m = Len(s)
        OBVIOUS
      <4> PICK n : n = Len(t)
        OBVIOUS
      <4> PICK q : q = h.seq
        OBVIOUS
      <4> PICK c : c = h.cp.seq
        OBVIOUS
      <4>1. /\ m \in Nat /\ n \in Nat /\ q \in Nat /\ c \in Nat /\ m = q - c
            /\ i \in Nat /\ i <= m + n /\ i > m /\ j = i - m
        <5>1. i \in 1..(Len(s) + Len(t))
          BY <1>3
        <5> QED BY <1>1, <1>2, <1>5, <2>2, <3>0, <5>1
      <4>2. j \in 1..n /\ q + j = c + i
        BY ONLY <4>1
      <4> QED BY <4>2
    <3>2. (s \o t)[i] = t[j]
      BY <1>3, <2>2, <3>0
    <3> PICK op : op = [seq |-> h.seq + j, id |-> t[j]]
      OBVIOUS
    <3>3. op \in Line(d)
      BY <1>5, <3>1 DEF Line
    <3> QED BY <3>1, <3>2, <3>3
  <2> QED BY <1>2, <2>1, <2>2
<1>8. /\ TailOf(d) = s \o t /\ s \o t \in Seq(EditSet)
      /\ h.cp.seq \in Nat /\ h.cp.seq <= h.seq /\ h.cp.state \in Docs
  BY <1>1, <1>3
<1> QED BY <1>4, <1>6, <1>7, <1>8

LEMMA ReplayOverlays ==
    ASSUME IInv, Edits, NEW d \in Devices, ~New(d)
    PROVE  Overlays(Line(d), disk[d].cp.seq + 1, StoreSeq(d), disk[d].cp.state, Recovered(d).doc)
<1> PICK O : O = Line(d)
  OBVIOUS
<1> PICK n : n = StoreSeq(d)
  OBVIOUS
<1> PICK es : es = TailOf(d)
  OBVIOUS
<1> PICK m : m = disk[d].cp.seq
  OBVIOUS
<1> PICK state : state = disk[d].cp.state
  OBVIOUS
<1> PICK doc : doc = Recovered(d).doc
  OBVIOUS
<1>1. /\ es \in Seq(EditSet) /\ Len(es) = n - m /\ m \in Nat
      /\ \A i \in 1..Len(es) : \E op \in O : op.seq = m + i /\ op.id = es[i]
      /\ Recovered(d) = Replay(state, es)
  BY LineTail
<1>2. doc = After(state, es, Len(es)) /\ Len(es) \in Nat /\ n \in Nat
  <2>1. n \in Nat
    BY LineTyped
  <2> QED BY <1>1, <2>1 DEF Replay
<1>3. Ordered(O, n)
  BY LineOrdered
\* The operation at a place is the edit there.
<1>4. ASSUME NEW x \in O, x.seq \in (m + 1)..n
      PROVE  x.seq - m \in 1..Len(es) /\ x.id = es[x.seq - m]
  <2> PICK i : i = x.seq - m
    OBVIOUS
  <2>0. x.seq \in Int
    BY <1>2, <1>4
  <2>1. i \in 1..Len(es) /\ m + i = x.seq
    <3>1. /\ x.seq \in (m + 1)..n /\ m \in Nat /\ n \in Nat /\ Len(es) = n - m /\ i = x.seq - m
      BY <1>1, <1>2, <1>4
    <3> QED BY ONLY <3>1
  <2>2. PICK op \in O : op.seq = m + i /\ op.id = es[i]
    BY <1>1, <2>1
  <2>3. op = x
    BY <1>3, <2>1, <2>2 DEF Ordered
  <2> QED BY <2>1, <2>2, <2>3
<1> SUFFICES ASSUME NEW c \in Checks
             PROVE  \/ (\A op \in O : op.id.check = c => op.seq \notin (m + 1)..n) /\ doc[c] = state[c]
                    \/ \E op \in O : Last(O, op, m + 1, n) /\ op.id.check = c /\ doc[c] = Value(op.id)
  BY DEF Overlays
<1>5. CASE (\A i \in 1..Len(es) : es[i].check # c) /\ doc[c] = state[c]
  BY <1>4, <1>5
<1>6. CASE \E i \in 1..Len(es) : /\ es[i].check = c
                                 /\ \A j \in 1..Len(es) : es[j].check = c => j <= i
                                 /\ doc[c] = Value(es[i])
  <2>1. PICK i \in 1..Len(es) : /\ es[i].check = c
                                /\ \A j \in 1..Len(es) : es[j].check = c => j <= i
                                /\ doc[c] = Value(es[i])
    BY <1>6
  <2>2. PICK op \in O : op.seq = m + i /\ op.id = es[i]
    BY <1>1
  <2>3. op.seq \in (m + 1)..n
    <3>1. /\ op.seq = m + i /\ i \in 1..Len(es) /\ Len(es) = n - m /\ m \in Nat /\ n \in Nat
      BY <1>1, <1>2, <2>2
    <3> QED BY ONLY <3>1
  <2>4. ASSUME NEW x \in O, x.id.check = c, x.seq \in (m + 1)..n PROVE x.seq <= op.seq
    <3>1. x.seq - m <= i
      BY <1>4, <2>1, <2>4
    <3> QED BY <1>1, <1>2, <2>2, <2>4, <3>1
  <2>5. Last(O, op, m + 1, n)
    BY <2>1, <2>2, <2>3, <2>4 DEF Last
  <2> QED BY <2>1, <2>2, <2>5
<1> QED BY <1>2, <1>5, <1>6, AfterRow

LEMMA ReplayFits ==
    ASSUME NEW doc, NEW es
    PROVE  /\ Replay(doc, es).doc = After(doc, es, Len(es))
           /\ Replay(doc, es).ok <=> \A i \in DOMAIN es : Fits(After(doc, es, i - 1), es[i])
<1> PICK fits : fits = \A i \in DOMAIN es : Fits(After(doc, es, i - 1), es[i])
  OBVIOUS
<1>1. Replay(doc, es) = [ok |-> fits, doc |-> After(doc, es, Len(es))]
  BY DEF Replay
<1>2. Replay(doc, es).ok = fits /\ Replay(doc, es).doc = After(doc, es, Len(es))
  BY <1>1
<1> QED BY <1>2

LEMMA AfterIs ==
    ASSUME NEW doc, NEW es, NEW n
    PROVE  After(doc, es, n) = [c \in Checks |-> After(doc, es, n)[c]]
BY DEF After

\* A replay that fits brings a check in by an insertion.
LEMMA ReplayInserts ==
    ASSUME IInv, Edits, NEW d \in Devices, ~New(d), Recovered(d).ok
    PROVE  Inserts(Line(d), disk[d].cp.seq + 1, StoreSeq(d), disk[d].cp.state, Recovered(d).doc)
<1> PICK O : O = Line(d)
  OBVIOUS
<1> PICK n : n = StoreSeq(d)
  OBVIOUS
<1> PICK es : es = TailOf(d)
  OBVIOUS
<1> PICK m : m = disk[d].cp.seq
  OBVIOUS
<1> PICK state : state = disk[d].cp.state
  OBVIOUS
<1> PICK doc : doc = Recovered(d).doc
  OBVIOUS
<1>1. /\ es \in Seq(EditSet) /\ Len(es) = n - m /\ m \in Nat
      /\ \A i \in 1..Len(es) : \E op \in O : op.seq = m + i /\ op.id = es[i]
      /\ Recovered(d) = Replay(state, es)
  BY LineTail
<1>2. Len(es) \in Nat /\ n \in Nat /\ DOMAIN es = 1..Len(es)
  BY <1>1, LineTyped
<1>3. doc = After(state, es, Len(es)) /\ \A i \in 1..Len(es) : Fits(After(state, es, i - 1), es[i])
  <2>1. Replay(state, es).ok
    BY <1>1
  <2>2. \A i \in DOMAIN es : Fits(After(state, es, i - 1), es[i])
    BY <2>1, ReplayFits
  <2>3. doc = After(state, es, Len(es))
    BY <1>1, ReplayFits
  <2> QED BY <1>2, <2>2, <2>3
<1> SUFFICES ASSUME NEW c \in Checks, doc[c] # Absent, state[c] = Absent
             PROVE  \E op \in O : op.id.kind = "insert" /\ op.id.check = c /\ op.seq \in (m + 1)..n
  BY DEF Inserts
<1> PICK T : T = {i \in 1..Len(es) : es[i].check = c}
  OBVIOUS
<1>4. T \subseteq Nat /\ T # {}
  <2>1. \E i \in 1..Len(es) : es[i].check = c
    BY <1>2, <1>3, AfterRow
  <2> QED BY <2>1
<1>5. PICK i \in T : \A j \in T : i <= j
  BY <1>4, LeastExists
<1>6. i \in 1..Len(es) /\ es[i].check = c
  OBVIOUS
<1>7. After(state, es, i - 1)[c] = Absent
  <2> PICK k : k = i - 1
    OBVIOUS
  <2>1. k \in Nat /\ \A j \in 1..k : j \in 1..Len(es) /\ j < i
    BY <1>2, <1>6
  <2>2. \A j \in 1..k : es[j].check # c
    BY <1>5, <2>1
  <2>3. After(state, es, k)[c] = state[c]
    BY <2>1, <2>2, AfterRow
  <2> QED BY <2>3
<1>8. es[i].kind = "insert"
  BY <1>3, <1>6, <1>7 DEF Fits
<1>9. PICK op \in O : op.seq = m + i /\ op.id = es[i]
  BY <1>1, <1>6
<1>10. op.seq \in (m + 1)..n
  <2>1. op.seq = m + i /\ i \in 1..Len(es) /\ Len(es) = n - m /\ m \in Nat /\ n \in Nat
    BY <1>1, <1>2, <1>6, <1>9
  <2> QED BY ONLY <2>1
<1> QED BY <1>6, <1>8, <1>9, <1>10

\* The changes that follow do not matter to what the first ones leave.
LEMMA AfterSame ==
    ASSUME NEW doc, NEW es, NEW fs, NEW n \in Nat, \A i \in 1..n : es[i] = fs[i]
    PROVE  After(doc, es, n) = After(doc, fs, n)
<1>1. ASSUME NEW c \in Checks PROVE After(doc, es, n)[c] = After(doc, fs, n)[c]
  <2> PICK S : S = {i \in 1..n : es[i].check = c}
    OBVIOUS
  <2> PICK T : T = {i \in 1..n : fs[i].check = c}
    OBVIOUS
  <2>1. S = T
    OBVIOUS
  <2> PICK k : k = CHOOSE i \in S : \A j \in S : j <= i
    OBVIOUS
  <2>2. After(doc, es, n)[c] = IF S = {} THEN doc[c] ELSE Value(es[k])
    BY DEF After
  <2>3. After(doc, fs, n)[c] = IF S = {} THEN doc[c] ELSE Value(fs[k])
    <3> PICK l : l = CHOOSE i \in T : \A j \in T : j <= i
      OBVIOUS
    <3>1. After(doc, fs, n)[c] = IF T = {} THEN doc[c] ELSE Value(fs[l])
      BY DEF After
    <3>2. l = k
      BY <2>1
    <3> QED BY <2>1, <3>1, <3>2
  <2>4. S # {} => k \in S
    BY LastExists
  <2> QED BY <2>2, <2>3, <2>4
<1>2. /\ After(doc, es, n) = [c \in Checks |-> After(doc, es, n)[c]]
      /\ After(doc, fs, n) = [c \in Checks |-> After(doc, fs, n)[c]]
  BY AfterIs
<1>3. [c \in Checks |-> After(doc, es, n)[c]] = [c \in Checks |-> After(doc, fs, n)[c]]
  BY <1>1
<1> QED BY <1>2, <1>3

LEMMA ReplayAppend ==
    ASSUME NEW doc \in Docs, NEW es \in Seq(EditSet), NEW e \in EditSet,
           Replay(doc, es).ok, Fits(Replay(doc, es).doc, e)
    PROVE  Replay(doc, Append(es, e)) = [ok |-> TRUE, doc |-> Apply(Replay(doc, es).doc, e)]
<1> PICK n : n = Len(es)
  OBVIOUS
<1> PICK fs : fs = Append(es, e)
  OBVIOUS
<1> PICK old : old = After(doc, es, n)
  OBVIOUS
<1>1. /\ n \in Nat /\ DOMAIN es = 1..n /\ DOMAIN fs = 1..(n + 1) /\ Len(fs) = n + 1
      /\ fs[n + 1] = e /\ \A i \in 1..n : fs[i] = es[i]
  OBVIOUS
<1>2. Replay(doc, es).doc = old /\ \A i \in 1..n : Fits(After(doc, es, i - 1), es[i])
  BY <1>1 DEF Replay
<1>3. ASSUME NEW k \in Nat, k <= n PROVE After(doc, fs, k) = After(doc, es, k)
  <2>1. \A i \in 1..k : fs[i] = es[i]
    BY <1>1, <1>3
  <2> QED BY <2>1, AfterSame
<1>4. \A i \in 1..(n + 1) : Fits(After(doc, fs, i - 1), fs[i])
  <2> SUFFICES ASSUME NEW i \in 1..(n + 1) PROVE Fits(After(doc, fs, i - 1), fs[i])
    OBVIOUS
  <2> PICK k : k = i - 1
    OBVIOUS
  <2>1. k \in Nat /\ k <= n /\ (i \in 1..n \/ (i = n + 1 /\ k = n))
    BY <1>1
  <2>2. After(doc, fs, k) = After(doc, es, k)
    BY <1>3, <2>1
  <2>3. CASE i \in 1..n
    <3>1. Fits(After(doc, es, k), es[i]) /\ fs[i] = es[i]
      BY <1>1, <1>2, <2>3
    <3>2. Fits(After(doc, fs, k), fs[i])
      BY <2>2, <3>1
    <3> QED BY <3>2
  <2>4. CASE i = n + 1 /\ k = n
    <3>1. Fits(After(doc, fs, k), fs[i])
      BY <1>1, <1>2, <2>2, <2>4
    <3> QED BY <3>1
  <2> QED BY <2>1, <2>3, <2>4
<1> PICK p : p = n + 1
  OBVIOUS
<1>5. After(doc, fs, p) = Apply(old, e)
  <2>0. old \in Docs /\ e.check \in Checks
    BY AfterTyped DEF EditSet
  <2>1. ASSUME NEW c \in Checks PROVE After(doc, fs, p)[c] = Apply(old, e)[c]
    <3>0. p \in Nat /\ p = n + 1
      BY <1>1
    <3>3. \/ /\ \A j \in 1..p : fs[j].check # c
             /\ After(doc, fs, p)[c] = doc[c]
          \/ \E i \in 1..p : /\ fs[i].check = c
                              /\ \A j \in 1..p : fs[j].check = c => j <= i
                              /\ After(doc, fs, p)[c] = Value(fs[i])
      BY ONLY <3>0, c \in Checks, AfterRow
    <3>1. CASE c = e.check
      <4>1. PICK i \in 1..(p) : /\ fs[i].check = c
                                    /\ \A j \in 1..(p) : fs[j].check = c => j <= i
                                    /\ After(doc, fs, p)[c] = Value(fs[i])
        <5>1. p \in 1..(p) /\ fs[p].check = c
          BY <1>1, <3>0, <3>1
        <5> QED BY <3>3, <5>1
      <4>2. i = p
        <5>1. p <= i
          BY <1>1, <3>0, <3>1, <4>1
        <5> QED BY <1>1, <3>0, <5>1
      <4> QED BY <1>1, <2>0, <3>0, <3>1, <4>1, <4>2 DEF Apply, Docs
    <3>2. CASE c # e.check
      <4>1. Apply(old, e)[c] = old[c]
        BY <2>0, <3>2 DEF Apply, Docs
      <4>2. \A j \in 1..(p) : fs[j].check = c => j \in 1..n /\ es[j].check = c
        BY <1>1, <3>0, <3>2
      <4>3. \A j \in 1..n : j \in 1..(p) /\ fs[j] = es[j]
        BY <1>1, <3>0
      <4>4. CASE \A j \in 1..n : es[j].check # c
        <5>1. old[c] = doc[c]
          BY <1>1, <4>4, AfterRow
        <5>2. \A j \in 1..(p) : fs[j].check # c
          BY <4>2, <4>4
        <5>3. After(doc, fs, p)[c] = doc[c]
          BY <3>3, <5>2
        <5> QED BY <4>1, <5>1, <5>3
      <4>5. CASE \E j \in 1..n : es[j].check = c
        <5>1. PICK i \in 1..n : /\ es[i].check = c /\ \A j \in 1..n : es[j].check = c => j <= i
                                /\ old[c] = Value(es[i])
          BY <1>1, <4>5, AfterRow
        <5>2. PICK k \in 1..(p) : /\ fs[k].check = c
                                      /\ \A j \in 1..(p) : fs[j].check = c => j <= k
                                      /\ After(doc, fs, p)[c] = Value(fs[k])
          BY <3>3, <4>3, <5>1
        <5>3. k \in 1..n /\ es[k].check = c
          BY <4>2, <5>2
        <5>4. k <= i /\ i <= k
          BY <4>3, <5>1, <5>2, <5>3
        <5>5. k = i
          BY <1>1, <5>4
        <5> QED BY <4>1, <4>3, <5>1, <5>2, <5>5
      <4> QED BY <4>4, <4>5
    <3> QED BY <3>1, <3>2
  <2>2. After(doc, fs, p) = [c \in Checks |-> After(doc, fs, p)[c]]
    BY AfterIs
  <2>3. Apply(old, e) = [c \in Checks |-> Apply(old, e)[c]]
    BY <2>0 DEF Apply, Docs
  <2>4. [c \in Checks |-> After(doc, fs, p)[c]] = [c \in Checks |-> Apply(old, e)[c]]
    BY <2>1
  <2> QED BY <2>2, <2>3, <2>4
<1>6. Replay(doc, fs) = [ok |-> TRUE, doc |-> Apply(old, e)]
  BY <1>1, <1>4, <1>5 DEF Replay
<1> QED BY <1>2, <1>6

\* An edit is one more operation, and one more change to replay.
LEMMA EditLine ==
    ASSUME IInv, NEW d \in Devices, ~New(d), NEW e \in EditSet, disk'[d] = disk[d],
           log'[d] = Append(log[d], e)
    PROVE  /\ Line(d)' = Line(d) \cup {[seq |-> StoreSeq(d) + 1, id |-> e]}
           /\ StoreSeq(d)' = StoreSeq(d) + 1
           /\ Recovered(d).ok /\ Fits(Recovered(d).doc, e) =>
                 Recovered(d)' = [ok |-> TRUE, doc |-> Apply(Recovered(d).doc, e)]
<1> PICK t : t = log[d]
  OBVIOUS
<1> PICK u : u = Append(t, e)
  OBVIOUS
<1> PICK h : h = disk[d]
  OBVIOUS
<1>1. t \in Seq(EditSet) /\ h.seq \in Nat
  BY DeviceFacts, HeadTyped
<1>2. /\ Len(t) \in Nat /\ DOMAIN t = 1..Len(t) /\ DOMAIN u = 1..(Len(t) + 1) /\ Len(u) = Len(t) + 1
      /\ u[Len(t) + 1] = e /\ \A i \in 1..Len(t) : u[i] = t[i]
  BY <1>1
<1>3. StoreSeq(d) = h.seq + Len(t) /\ StoreSeq(d)' = h.seq + Len(u) /\ StoreSeq(d)' = StoreSeq(d) + 1
  <2>1. StoreSeq(d) = h.seq + Len(t) /\ StoreSeq(d)' = h.seq + Len(u)
    BY DEF StoreSeq
  <2>2. h.seq + Len(u) = (h.seq + Len(t)) + 1
    <3>1. h.seq \in Nat /\ Len(t) \in Nat /\ Len(u) = Len(t) + 1
      BY <1>1, <1>2
    <3> QED BY ONLY <3>1
  <2> QED BY <2>1, <2>2
<1>4. /\ Line(d) = h.journal \cup {[seq |-> h.seq + i, id |-> t[i]] : i \in 1..Len(t)}
      /\ Line(d)' = h.journal \cup {[seq |-> h.seq + i, id |-> u[i]] : i \in 1..(Len(t) + 1)}
  BY <1>2 DEF Line
<1> PICK P : P = {[seq |-> h.seq + i, id |-> t[i]] : i \in 1..Len(t)}
  OBVIOUS
<1> PICK Q : Q = {[seq |-> h.seq + i, id |-> u[i]] : i \in 1..(Len(t) + 1)}
  OBVIOUS
<1> PICK op : op = [seq |-> h.seq + (Len(t) + 1), id |-> e]
  OBVIOUS
<1>5. Q = P \cup {op}
  <2>1. ASSUME NEW x \in Q PROVE x \in P \cup {op}
    <3>1. PICK i \in 1..(Len(t) + 1) : x = [seq |-> h.seq + i, id |-> u[i]]
      OBVIOUS
    <3>2. CASE i = Len(t) + 1
      BY <1>2, <3>1, <3>2
    <3>3. CASE i # Len(t) + 1
      <4>1. i \in 1..Len(t)
        BY <1>2, <3>3
      <4> QED BY <1>2, <3>1, <4>1
    <3> QED BY <3>2, <3>3
  <2>2. ASSUME NEW x \in P PROVE x \in Q
    <3>1. PICK i \in 1..Len(t) : x = [seq |-> h.seq + i, id |-> t[i]]
      OBVIOUS
    <3>2. i \in 1..(Len(t) + 1) /\ x = [seq |-> h.seq + i, id |-> u[i]]
      BY <1>2, <3>1
    <3> QED BY <3>2
  <2>3. op \in Q
    <3>1. Len(t) + 1 \in 1..(Len(t) + 1)
      BY <1>2
    <3> QED BY <1>2, <3>1
  <2> QED BY <2>1, <2>2, <2>3
<1>6. Line(d)' = Line(d) \cup {[seq |-> StoreSeq(d) + 1, id |-> e]}
  <2>1. h.seq + (Len(t) + 1) = StoreSeq(d) + 1
    BY <1>1, <1>2, <1>3
  <2> QED BY <1>4, <1>5, <2>1
<1>7. ASSUME Recovered(d).ok, Fits(Recovered(d).doc, e)
      PROVE  Recovered(d)' = [ok |-> TRUE, doc |-> Apply(Recovered(d).doc, e)]
  <2> PICK s : s = Ops(h)
    OBVIOUS
  <2> PICK state : state = h.cp.state
    OBVIOUS
  <2>1. Recovered(d) = Replay(state, s \o t) /\ Recovered(d)' = Replay(state, s \o u)
    BY DEF Recovered, Ops, OpAt
  <2>2. s \in Seq(EditSet) /\ state \in Docs
    <3>1. h \in HeadSet /\ JournalFull(h) /\ h.cp.seq <= h.seq
      BY DeviceFacts DEF BaseOk
    <3> QED BY <3>1, TailTyped, HeadTyped
  <2>3. s \o u = Append(s \o t, e) /\ s \o t \in Seq(EditSet)
    BY ONLY <1>1, <2>2, u = Append(t, e), e \in EditSet
  <2>4. Replay(state, s \o t).ok /\ Fits(Replay(state, s \o t).doc, e)
    BY <1>7, <2>1
  <2>5. Replay(state, Append(s \o t, e)) = [ok |-> TRUE, doc |-> Apply(Replay(state, s \o t).doc, e)]
    BY <2>2, <2>3, <2>4, ReplayAppend
  <2> QED BY <2>1, <2>3, <2>5
<1> QED BY <1>3, <1>6, <1>7

\* A commit moves an operation from the log to the journal, at the same place.
TailsOk ==
    \A d \in Devices : ~New(d) =>
        /\ TailOf(d) \in Seq(EditSet) /\ Len(TailOf(d)) = StoreSeq(d) - disk[d].cp.seq
        /\ Recovered(d) = Replay(disk[d].cp.state, TailOf(d))
        /\ \A i \in 1..Len(TailOf(d)) : \E y \in Line(d) :
              y.seq = disk[d].cp.seq + i /\ y.id = TailOf(d)[i]

LEMMA TailsAreOk == IInv => TailsOk
BY LineTail DEF TailsOk

LEMMA CommitLine ==
    ASSUME IInv, IInv', NEW d \in Devices, Commit(d)
    PROVE  /\ ~New(d) /\ Line(d)' = Line(d) /\ StoreSeq(d)' = StoreSeq(d)
           /\ disk'[d].cp = disk[d].cp /\ disk'[d].base = disk[d].base
           /\ disk'[d].flight = disk[d].flight /\ disk'[d].control = disk[d].control
           /\ disk[d].journal \subseteq disk'[d].journal /\ disk[d].seq <= disk'[d].seq
           /\ Recovered(d)' = Recovered(d)
           /\ \A x \in Devices : x # d => disk'[x] = disk[x] /\ log'[x] = log[x]
<1> PICK h : h = disk[d]
  OBVIOUS
<1> PICK t : t = log[d]
  OBVIOUS
<1> PICK u : u = Tail(t)
  OBVIOUS
<1> PICK op : op = [seq |-> h.seq + 1, id |-> Head(t)]
  OBVIOUS
<1>0. t # <<>> /\ disk' = [disk EXCEPT ![d] = AppendOp(h, op)] /\ log' = [log EXCEPT ![d] = u]
      /\ UNCHANGED <<server, requests, view, sync, edited>>
  BY DEF Commit
<1>1. ~New(d)
  BY <1>0 DEF IInv, Typed
<1>2. h \in HeadSet /\ t \in Seq(EditSet) /\ h.seq \in Nat /\ JournalFull(h)
  BY <1>1, DeviceFacts, HeadTyped DEF BaseOk
<1>3. op \notin h.journal
  BY <1>2 DEF JournalFull, JournalKeysOk
<1> PICK g : g = [h EXCEPT !.journal = @ \cup {op}, !.seq = op.seq]
  OBVIOUS
<1>4. /\ g.journal = h.journal \cup {op} /\ g.seq = h.seq + 1 /\ g.cp = h.cp /\ g.base = h.base
      /\ g.flight = h.flight /\ g.control = h.control /\ AppendOp(h, op) = g
  BY <1>2, <1>3 DEF HeadSet, AppendOp
<1>5. /\ disk'[d] = g /\ log'[d] = u
      /\ \A x \in Devices : x # d => disk'[x] = disk[x] /\ log'[x] = log[x]
  BY <1>0, <1>4 DEF IInv, Typed
<1>6. /\ Len(t) \in Nat /\ Len(t) >= 1 /\ DOMAIN t = 1..Len(t) /\ Head(t) = t[1]
      /\ Len(u) = Len(t) - 1 /\ DOMAIN u = 1..(Len(t) - 1) /\ \A i \in 1..(Len(t) - 1) : u[i] = t[i + 1]
  BY <1>0, <1>2
<1>7. StoreSeq(d)' = StoreSeq(d)
  <2>1. StoreSeq(d) = h.seq + Len(t) /\ StoreSeq(d)' = g.seq + Len(u)
    BY <1>5 DEF StoreSeq
  <2>2. h.seq + Len(t) = g.seq + Len(u)
    BY <1>2, <1>4, <1>6
  <2> QED BY <2>1, <2>2
<1>8. Line(d)' = Line(d)
  <2> PICK P : P = {[seq |-> h.seq + i, id |-> t[i]] : i \in 1..Len(t)}
    OBVIOUS
  <2> PICK Q : Q = {[seq |-> g.seq + i, id |-> u[i]] : i \in 1..(Len(t) - 1)}
    OBVIOUS
  <2>1. Line(d) = h.journal \cup P /\ Line(d)' = g.journal \cup Q
    BY <1>5, <1>6 DEF Line
  <2>2. op \in P
    <3>1. 1 \in 1..Len(t) /\ op = [seq |-> h.seq + 1, id |-> t[1]]
      BY <1>6
    <3> QED BY <3>1
  <2>3. ASSUME NEW x \in Q PROVE x \in P
    <3>1. PICK i \in 1..(Len(t) - 1) : x = [seq |-> g.seq + i, id |-> u[i]]
      OBVIOUS
    <3> PICK j : j = i + 1
      OBVIOUS
    <3>2. j \in 1..Len(t) /\ g.seq + i = h.seq + j
      <4>1. /\ h.seq \in Nat /\ Len(t) \in Nat /\ g.seq = h.seq + 1 /\ i \in 1..(Len(t) - 1)
            /\ j = i + 1
        BY <1>2, <1>4, <1>6
      <4> QED BY ONLY <4>1
    <3>3. u[i] = t[j]
      BY <1>6
    <3> QED BY <3>1, <3>2, <3>3
  <2>4. ASSUME NEW x \in P PROVE x = op \/ x \in Q
    <3>1. PICK j \in 1..Len(t) : x = [seq |-> h.seq + j, id |-> t[j]]
      OBVIOUS
    <3>2. CASE j = 1
      BY <1>6, <3>1, <3>2
    <3>3. CASE j # 1
      <4> PICK i : i = j - 1
        OBVIOUS
      <4>1. i \in 1..(Len(t) - 1) /\ g.seq + i = h.seq + j /\ j = i + 1
        <5>1. /\ h.seq \in Nat /\ Len(t) \in Nat /\ g.seq = h.seq + 1 /\ j \in 1..Len(t) /\ j # 1
              /\ i = j - 1
          BY <1>2, <1>4, <1>6, <3>3
        <5> QED BY ONLY <5>1
      <4>2. u[i] = t[j]
        BY <1>6, <4>1
      <4> QED BY <3>1, <4>1, <4>2
    <3> QED BY <3>2, <3>3
  <2>5. g.journal \cup Q = h.journal \cup P
    BY ONLY <1>4, <2>2, <2>3, <2>4
  <2> QED BY <2>1, <2>5
<1>9. Recovered(d)' = Recovered(d)
  <2> PICK O : O = Line(d)
    OBVIOUS
  <2> PICK m : m = h.cp.seq
    OBVIOUS
  <2> PICK es : es = TailOf(d)
    OBVIOUS
  <2> PICK fs : fs = TailOf(d)'
    OBVIOUS
  <2>1. /\ es \in Seq(EditSet) /\ Len(es) = StoreSeq(d) - m
        /\ Recovered(d) = Replay(h.cp.state, es)
        /\ \A i \in 1..Len(es) : \E x \in O : x.seq = m + i /\ x.id = es[i]
    BY <1>1, LineTail
  <2>2. ~New(d)'
    BY <1>0, <1>1 DEF New
  <2>3. /\ fs \in Seq(EditSet) /\ Len(fs) = StoreSeq(d) - m
        /\ Recovered(d)' = Replay(h.cp.state, fs)
        /\ \A i \in 1..Len(fs) : \E x \in O : x.seq = m + i /\ x.id = fs[i]
    <3>1. (\A x \in Devices : ~New(x) =>
              /\ TailOf(x) \in Seq(EditSet) /\ Len(TailOf(x)) = StoreSeq(x) - disk[x].cp.seq
              /\ Recovered(x) = Replay(disk[x].cp.state, TailOf(x))
              /\ \A i \in 1..Len(TailOf(x)) : \E y \in Line(x) :
                    y.seq = disk[x].cp.seq + i /\ y.id = TailOf(x)[i])'
      <4>1. TailsOk'
        BY TailsAreOk, PTL
      <4> QED BY <4>1 DEF TailsOk
    <3>2. disk'[d].cp = h.cp
      BY <1>4, <1>5
    <3> QED BY <1>7, <1>8, <2>2, <3>1, <3>2
  <2>4. \A x, y \in O : x.seq = y.seq => x = y
    BY <1>1, LineTyped
  <2>5. Len(es) = Len(fs) /\ \A i \in 1..Len(es) : es[i] = fs[i]
    BY <2>1, <2>3, <2>4
  <2>6. es = fs
    BY ONLY <2>1, <2>3, <2>5
  <2> QED BY <2>1, <2>3, <2>6
<1> QED BY <1>1, <1>4, <1>5, <1>7, <1>8, <1>9, <1>2

-----------------------------------------------------------------------------
(* The inductive invariant of the rows. *)

\* A check comes into the server's document by the request that carries its insertion.
Introduced ==
    /\ server.versions[1].doc = FirstDocument
    /\ \A i \in 2..Revision : \A c \in Checks :
          server.versions[i].doc[c] # Absent /\ server.versions[i - 1].doc[c] = Absent =>
              \E r \in server.versions[i].by : \E op \in Line(r.device) :
                  /\ op.id.kind = "insert" /\ op.id.check = c
                  /\ op.seq \in r.flight.startSeq..r.flight.endSeq

\* The row of a version that an edit wrote was carried by a request that landed.
RowsLanded ==
    \A i \in 1..Revision : \A c \in Checks :
        server.versions[i].doc[c] > 0 =>
            \E j \in 1..i : \E r \in server.versions[j].by : \E op \in Line(r.device) :
                op.seq <= r.flight.endSeq /\ op.id.n = server.versions[i].doc[c]

\* The ledger has the operations of requests only.
OperationsSent ==
    \A id \in server.operations : \E r \in requests : id = r.flight.operationId

\* A version changes a row by an operation whose user saw it.
SavedSeen ==
    \A i \in 2..Revision : \A r \in server.versions[i].by : \A c \in Checks :
        server.versions[i].doc[c] # server.versions[i - 1].doc[c] =>
            \E op \in disk[r.device].journal :
                /\ First(Line(r.device), op, r.flight.startSeq) /\ op.id.check = c
                /\ op.seq <= r.flight.endSeq
                /\ op.id.over = server.versions[i - 1].doc[c] \/ op.id.early

\* The server's document was the flight's at version k, and it saved the flight by then.
Accepted(f, k) ==
    /\ k \in f.baseRevision..Revision /\ server.versions[k].doc = f.snapshot
    /\ \A i \in 1..Revision : \A r \in server.versions[i].by :
          r.flight.operationId = f.operationId => i <= k

\* What the ledger says of a flight, and what a round was answered, is of a version with
\* the flight's rows.
AcceptedOk(d) ==
    /\ \A f \in disk[d].flight :
          f.operationId \in server.operations => \E k \in 1..Revision : Accepted(f, k)
    /\ sync[d].stage \in {"integrate", "commit"} /\ ~sync[d].rejected =>
          \E k \in 1..sync[d].row.revision : Accepted(sync[d].flight, k)

\* The device inserted the check, or a version up to its own had it.
Known(d, revision, c) ==
    \/ \E op \in Line(d) : op.id.kind = "insert" /\ op.id.check = c
    \/ \E i \in 1..revision : server.versions[i].doc[c] # Absent

KnownRows(d, revision, doc) == \A c \in Checks : doc[c] # Absent => Known(d, revision, c)

\* No row of the device is of a check it could not know.
KnownOk(d) ==
    LET revision == Base(disk[d]).revision
    IN  /\ \A op \in Line(d) : Known(d, revision, op.id.check)
        /\ KnownRows(d, revision, view[d]) /\ KnownRows(d, revision, disk[d].cp.state)
        /\ sync[d].stage = "apply" => KnownRows(d, revision, sync[d].doc)
        /\ sync[d].stage = "commit" => KnownRows(d, sync[d].row.revision, sync[d].cp.state)

\* The screen shows what the journal and the log replay to.
Shown(d) == sync[d].stage \notin {"new", "publish", "apply", "dead"}

\* The checkpoint is the base and the operations up to it.
CpMade(d) ==
    LET h == disk[d]
        b == Base(h)
    IN  /\ Keeps(Line(d), b.ackSeq + 1, h.cp.seq, h.cp.state)
        /\ ~InConflict(d) => Made(Line(d), b.ackSeq + 1, h.cp.seq, b.state, h.cp.state)

\* The flight is the base and its own operations; the screen is the flight and the rest.
FlightMade(d) ==
    \A f \in disk[d].flight :
        /\ Shown(d)
        /\ Made(Line(d), f.startSeq, f.endSeq, Base(disk[d]).state, f.snapshot)
        /\ Made(Line(d), f.endSeq + 1, StoreSeq(d), f.snapshot, view[d])

\* The screen is the base and every operation, what is being published the checkpoint
\* and the edits made meanwhile.
ViewMade(d) ==
    /\ Shown(d) => Recovered(d).ok /\ Recovered(d).doc = view[d]
    /\ Shown(d) /\ ~InConflict(d) =>
          Made(Line(d), Base(disk[d]).ackSeq + 1, StoreSeq(d), Base(disk[d]).state, view[d])
    /\ sync[d].stage = "apply" =>
          /\ sync[d].seq <= StoreSeq(d)
          /\ sync[d].seq = StoreSeq(d) => Recovered(d).ok /\ Recovered(d).doc = sync[d].doc
    /\ sync[d].stage \in {"publish", "apply"} =>
          \A op \in Line(d) : op.seq > disk[d].cp.seq => op.id.early

\* The merge is the row of the server and the operations it does not have.
MergeMade(d) ==
    LET s == sync[d]
        from == IF s.rejected THEN Base(disk[d]).ackSeq + 1 ELSE s.flight.endSeq + 1
    IN  s.stage = "commit" =>
            /\ s.cp.seq <= disk[d].seq
            /\ Keeps(Line(d), from, s.cp.seq, s.cp.state)
            /\ s.control = {} => Made(Line(d), from, s.cp.seq, s.row.doc, s.cp.state)

RowsOk(d) ==
    ~New(d) =>
        /\ AcceptedOk(d) /\ KnownOk(d)
        /\ CpMade(d) /\ FlightMade(d) /\ ViewMade(d) /\ MergeMade(d)

RowsInv ==
    /\ Edits /\ Introduced /\ RowsLanded /\ OperationsSent /\ SavedSeen
    /\ \A d \in Devices : RowsOk(d)

-----------------------------------------------------------------------------
(* The versions of the server. *)

LEMMA VersionFacts ==
    ASSUME IInv, NEW i \in 1..Revision
    PROVE  /\ server.versions[i].doc \in Docs /\ Revision \in Nat
           /\ \A r \in server.versions[i].by :
                 /\ r \in requests /\ r.device \in Devices /\ ~New(r.device) /\ Landed(r)
                 /\ r.flight.baseRevision = i - 1 /\ RequestOk(r)
                 /\ r.flight.startSeq \in Nat /\ r.flight.endSeq \in Nat
<1>1. /\ server.versions \in Seq(VersionSet) /\ DOMAIN server.versions = 1..Revision
      /\ Revision \in Nat
  BY VersionsTyped DEF IInv
<1>2. server.versions[i] \in VersionSet
  BY <1>1
<1>3. server.versions[i].doc \in Docs
  BY <1>2 DEF VersionSet
<1>4. ASSUME NEW r \in server.versions[i].by
      PROVE  /\ r \in requests /\ r.device \in Devices /\ ~New(r.device) /\ Landed(r)
             /\ r.flight.baseRevision = i - 1 /\ RequestOk(r)
             /\ r.flight.startSeq \in Nat /\ r.flight.endSeq \in Nat
  <2>1. r \in requests /\ r.flight.baseRevision = i - 1 /\ Landed(r)
    BY <1>1 DEF IInv, Safe, LandedInPlace, Landed
  <2>2. RequestOk(r)
    BY <2>1 DEF IInv, Safe
  <2>3. r.device \in Devices /\ r.flight.startSeq \in Nat /\ r.flight.endSeq \in Nat
    BY <2>1, RequestTyped DEF IInv
  <2> QED BY <2>1, <2>2, <2>3 DEF RequestOk
<1> QED BY <1>1, <1>3, <1>4

LEMMA AppliedOnce == IInv => EditsAppliedOnce
<1> SUFFICES ASSUME IInv, NEW i \in DOMAIN server.versions, NEW j \in DOMAIN server.versions,
                    i < j, NEW p \in server.versions[i].by, NEW q \in server.versions[j].by,
                    p.device = q.device
             PROVE  p.flight.endSeq < q.flight.startSeq
  BY DEF EditsAppliedOnce
<1>1. /\ p \in requests /\ p.flight.baseRevision = i - 1
      /\ q \in requests /\ q.flight.baseRevision = j - 1 /\ Landed(p)
  BY DEF IInv, Safe, LandedInPlace, Landed
<1>2. p.flight.baseRevision < q.flight.baseRevision
  BY <1>1, VersionsTyped DEF IInv
<1> QED BY <1>1, <1>2 DEF IInv, Safe, LandedInOrder

\* request r carries the insertion of c.
Carries(r, c) ==
    \E op \in Line(r.device) :
        op.id.kind = "insert" /\ op.id.check = c /\ op.seq \in r.flight.startSeq..r.flight.endSeq

\* A check absent from version k and present in version i was brought in between.
LEMMA IntroducedBetween ==
    ASSUME IInv, Introduced, NEW c \in Checks, NEW k \in 1..Revision, NEW i \in 1..Revision, k < i,
           server.versions[k].doc[c] = Absent, server.versions[i].doc[c] # Absent
    PROVE  \E j \in (k + 1)..i : \E r \in server.versions[j].by : Carries(r, c)
<1> PICK T : T = {j \in (k + 1)..i : server.versions[j].doc[c] # Absent}
  OBVIOUS
<1>0. Revision \in Nat
  BY VersionFacts
<1>1. T \subseteq Nat /\ i \in T
  BY <1>0
<1>2. PICK j \in T : \A l \in T : j <= l
  BY <1>1, LeastExists
<1>3. j \in (k + 1)..i /\ j \in 2..Revision /\ server.versions[j].doc[c] # Absent
  BY <1>0
<1>4. server.versions[j - 1].doc[c] = Absent
  <2> PICK l : l = j - 1
    OBVIOUS
  <2>1. l = k \/ (l \in (k + 1)..i /\ ~ (j <= l))
    BY <1>0, <1>3
  <2>2. server.versions[l].doc[c] = Absent
    BY <1>2, <2>1
  <2> QED BY <2>2
<1>5. \E r \in server.versions[j].by : Carries(r, c)
  BY <1>3, <1>4 DEF Introduced, Carries
<1> QED BY <1>3, <1>5

\* A check of a version is an original one, or was brought in by then.
LEMMA FirstIntroduced ==
    ASSUME IInv, Introduced, NEW c \in Checks, NEW i \in 1..Revision, server.versions[i].doc[c] # Absent
    PROVE  c \in Original \/ \E j \in 2..i : \E r \in server.versions[j].by : Carries(r, c)
<1>0. Revision \in Nat
  BY VersionFacts
<1> SUFFICES ASSUME c \notin Original
             PROVE  \E j \in 2..i : \E r \in server.versions[j].by : Carries(r, c)
  OBVIOUS
<1>1. server.versions[1].doc[c] = Absent
  BY DEF Introduced, FirstDocument
<1>2. 1 < i /\ 1 \in 1..Revision
  BY <1>0, <1>1
<1> PICK k : k = 1
  OBVIOUS
<1>3. \E j \in (k + 1)..i : \E r \in server.versions[j].by : Carries(r, c)
  BY <1>1, <1>2, IntroducedBetween
<1> QED BY <1>3

\* An insertion is carried by the requests of one device, and it is one operation.
LEMMA CarriedOnce ==
    ASSUME Edits, NEW c, NEW p \in Devices, NEW q \in Devices, NEW x \in Line(p), NEW y \in Line(q),
           x.id.kind = "insert", x.id.check = c, y.id.kind = "insert", y.id.check = c,
           x.id.n \in Nat, y.id.n \in Nat
    PROVE  p = q /\ x = y
<1>1. x.id.n <= y.id.n /\ y.id.n <= x.id.n
  BY DEF Edits
<1>2. x.id.n = y.id.n
  BY <1>1
<1> QED BY <1>2 DEF Edits

\* A check that went does not come back.
LEMMA NoReturn ==
    ASSUME IInv, Edits, Introduced, NEW c \in Checks, NEW j \in 1..Revision, NEW k \in 1..Revision,
           NEW i \in 1..Revision, j <= k, k <= i,
           server.versions[j].doc[c] # Absent, server.versions[k].doc[c] = Absent
    PROVE  server.versions[i].doc[c] = Absent
<1> SUFFICES ASSUME server.versions[i].doc[c] # Absent PROVE FALSE
  OBVIOUS
<1>0. Revision \in Nat /\ k < i
  BY VersionFacts
<1>1. PICK v \in (k + 1)..i : \E r \in server.versions[v].by : Carries(r, c)
  BY <1>0, IntroducedBetween
<1>2. PICK q \in server.versions[v].by : Carries(q, c)
  BY <1>1
<1>3. PICK y \in Line(q.device) :
         y.id.kind = "insert" /\ y.id.check = c /\ y.seq \in q.flight.startSeq..q.flight.endSeq
  BY <1>2 DEF Carries
<1>4. v \in 1..Revision /\ v > k
  BY <1>0
<1>5. q.device \in Devices /\ ~New(q.device) /\ q.flight.startSeq \in Nat /\ q.flight.endSeq \in Nat
  BY <1>4, VersionFacts
<1>6. c \notin Original
  BY <1>3, <1>5 DEF Edits
<1>7. PICK u \in 2..j : \E r \in server.versions[u].by : Carries(r, c)
  BY <1>6, FirstIntroduced
<1>8. PICK p \in server.versions[u].by : Carries(p, c)
  BY <1>7
<1>9. PICK x \in Line(p.device) :
         x.id.kind = "insert" /\ x.id.check = c /\ x.seq \in p.flight.startSeq..p.flight.endSeq
  BY <1>8 DEF Carries
<1>10. u \in 1..Revision /\ u < v
  BY <1>0, <1>4
<1>11. p.device \in Devices /\ ~New(p.device) /\ p.flight.startSeq \in Nat /\ p.flight.endSeq \in Nat
  BY <1>10, VersionFacts
<1>12. x.id.n \in Nat /\ y.id.n \in Nat /\ x.seq \in Nat
  BY <1>5, <1>11, LineTyped, OpTyped
<1>13. p.device = q.device /\ x = y
  BY <1>3, <1>5, <1>9, <1>11, <1>12, CarriedOnce
<1>14. p.flight.endSeq < q.flight.startSeq
  BY <1>4, <1>10, <1>13, AppliedOnce, VersionsTyped DEF EditsAppliedOnce, IInv
<1> QED BY <1>3, <1>5, <1>9, <1>11, <1>12, <1>13, <1>14

\* What a device knew of and a version from its own on lacks stays away, if no flight of
\* the device landed after that version.
LEMMA StaysAway ==
    ASSUME IInv, Edits, Introduced, NEW d \in Devices, ~New(d), NEW c \in Checks, NEW k \in 1..Revision,
           Base(disk[d]).revision <= k, server.versions[k].doc[c] = Absent,
           Known(d, Base(disk[d]).revision, c),
           \A i \in (k + 1)..Revision : \A r \in server.versions[i].by :
              r.device = d => r.flight.baseRevision # Base(disk[d]).revision,
           NEW i \in k..Revision
    PROVE  server.versions[i].doc[c] = Absent
<1> PICK b : b = Base(disk[d])
  OBVIOUS
<1>0. Revision \in Nat /\ b.revision \in Nat /\ i \in 1..Revision
  BY VersionFacts, DeviceFacts DEF BaseSet
<1>1. CASE \E j \in 1..b.revision : server.versions[j].doc[c] # Absent
  <2>1. PICK j \in 1..b.revision : server.versions[j].doc[c] # Absent
    BY <1>1
  <2>2. j \in 1..Revision /\ j <= k /\ k <= i
    BY <1>0
  <2> QED BY <1>0, <2>1, <2>2, NoReturn
<1>2. CASE \E op \in Line(d) : op.id.kind = "insert" /\ op.id.check = c
  <2> SUFFICES ASSUME server.versions[i].doc[c] # Absent PROVE FALSE
    OBVIOUS
  <2>1. PICK x \in Line(d) : x.id.kind = "insert" /\ x.id.check = c
    BY <1>2
  <2>2. k < i
    BY <1>0
  <2>3. PICK v \in (k + 1)..i : \E r \in server.versions[v].by : Carries(r, c)
    BY <1>0, <2>2, IntroducedBetween
  <2>4. PICK q \in server.versions[v].by : Carries(q, c)
    BY <2>3
  <2>5. PICK y \in Line(q.device) : y.id.kind = "insert" /\ y.id.check = c
    BY <2>4 DEF Carries
  <2>6. v \in 1..Revision /\ v \in (k + 1)..Revision
    BY <1>0
  <2>7. /\ q.device \in Devices /\ ~New(q.device) /\ q.flight.baseRevision = v - 1 /\ RequestOk(q)
    BY <2>6, VersionFacts
  <2>8. x.id.n \in Nat /\ y.id.n \in Nat
    BY <2>7, LineTyped, OpTyped
  <2>9. q.device = d
    BY <2>1, <2>5, <2>7, <2>8, CarriedOnce
  <2>10. q.flight.baseRevision \in 1..b.revision
    BY <2>7, <2>9 DEF RequestOk
  <2>11. q.flight.baseRevision = b.revision
    BY <1>0, <2>6, <2>7, <2>10
  <2> QED BY <2>6, <2>9, <2>11
<1> QED BY <1>1, <1>2 DEF Known

\* The rows of the base are not of edits the server has not acknowledged.
LEMMA BaseApart ==
    ASSUME IInv, Edits, RowsLanded, NEW d \in Devices, ~New(d)
    PROVE  Apart(Line(d), Base(disk[d]).ackSeq + 1, Base(disk[d]).state)
<1> PICK b : b = Base(disk[d])
  OBVIOUS
<1>1. /\ b.revision \in 1..Revision /\ b.state = server.versions[b.revision].doc
      /\ b.ackSeq \in Nat /\ b.revision \in Nat /\ Revision \in Nat
  BY DeviceFacts, VersionFacts DEF BaseOk, HasVersion, BaseSet
<1> SUFFICES ASSUME NEW op \in Line(d), op.seq >= b.ackSeq + 1, b.state[op.id.check] = op.id.n
             PROVE  FALSE
  BY DEF Apart
<1>2. op.seq \in Nat /\ op.id.n > 0 /\ op.id.check \in Checks
  BY LineTyped, OpTyped
<1>3. server.versions[b.revision].doc[op.id.check] > 0
  BY <1>1, <1>2
<1>4. PICK j \in 1..b.revision : \E r \in server.versions[j].by : \E x \in Line(r.device) :
         x.seq <= r.flight.endSeq /\ x.id.n = server.versions[b.revision].doc[op.id.check]
  BY <1>1, <1>2, <1>3 DEF RowsLanded
<1>5. PICK r \in server.versions[j].by : \E x \in Line(r.device) :
         x.seq <= r.flight.endSeq /\ x.id.n = server.versions[b.revision].doc[op.id.check]
  BY <1>4
<1>6. PICK x \in Line(r.device) : x.seq <= r.flight.endSeq /\ x.id.n = op.id.n
  BY <1>1, <1>5
<1>7. j \in 1..Revision
  BY <1>1
<1>8. /\ r.device \in Devices /\ Landed(r) /\ RequestOk(r) /\ r.flight.baseRevision = j - 1
      /\ r.flight.endSeq \in Nat
  BY <1>7, VersionFacts
<1>9. r.device = d /\ x = op
  BY <1>6, <1>8 DEF Edits
<1>10. r.flight.endSeq <= b.ackSeq \/ disk[d].flight = {r.flight}
  BY <1>8, <1>9 DEF RequestOk
<1>11. disk[d].flight # {r.flight}
  <2> SUFFICES ASSUME disk[d].flight = {r.flight} PROVE FALSE
    OBVIOUS
  <2>1. FlightOk(d) /\ r.flight \in disk[d].flight
    BY DeviceFacts
  <2>2. r.flight.baseRevision = b.revision
    BY <2>1 DEF FlightOk
  <2> QED BY <1>1, <1>8, <2>2
<1> QED BY <1>1, <1>2, <1>6, <1>8, <1>9, <1>10, <1>11

\* Neither are the rows of a flight of the edits made after it.
LEMMA FlightApart ==
    ASSUME IInv, Edits, RowsLanded, NEW d \in Devices, ~New(d), FlightMade(d), NEW f \in disk[d].flight
    PROVE  Apart(Line(d), f.endSeq + 1, f.snapshot)
<1> PICK b : b = Base(disk[d])
  OBVIOUS
<1>1. f.startSeq = b.ackSeq + 1 /\ f.startSeq <= f.endSeq
  BY DeviceFacts DEF FlightOk
<1>2. f.endSeq \in Nat /\ b.ackSeq \in Nat
  BY DeviceFacts, HeadTyped, FlightTyped DEF BaseSet
<1>3. Apart(Line(d), b.ackSeq + 1, b.state)
  BY BaseApart
<1>4. Overlays(Line(d), f.startSeq, f.endSeq, b.state, f.snapshot)
  BY DEF FlightMade, Made
<1> SUFFICES ASSUME NEW op \in Line(d), op.seq >= f.endSeq + 1, f.snapshot[op.id.check] = op.id.n
             PROVE  FALSE
  BY DEF Apart
<1>5. op \in OpSet /\ op.seq \in Nat /\ op.id.check \in Checks /\ op.id.n > 0
  BY LineTyped, OpTyped
<1>6. b.state[op.id.check] # op.id.n
  BY <1>1, <1>2, <1>3, <1>5 DEF Apart
<1>7. PICK x \in Line(d) : Last(Line(d), x, f.startSeq, f.endSeq) /\ f.snapshot[op.id.check] = Value(x.id)
  BY <1>4, <1>5, <1>6 DEF Overlays
<1>8. x \in OpSet
  BY LineTyped
<1>9. x.id.n = op.id.n
  BY <1>5, <1>7, <1>8, OpTyped DEF Absent
<1>10. x = op
  BY <1>9 DEF Edits
<1>11. op.seq <= f.endSeq
  BY <1>7, <1>10 DEF Last
<1> QED BY <1>2, <1>5, <1>11

-----------------------------------------------------------------------------
(* What a step leaves alone. *)

LEMMA KnownStays ==
    ASSUME Grows, NEW d, Line(d) \subseteq Line(d)', NEW n \in Nat, NEW m \in Nat, n <= m, n <= Revision,
           Revision \in Nat, NEW c, Known(d, n, c)
    PROVE  Known(d, m, c)'
<1>1. CASE \E op \in Line(d) : op.id.kind = "insert" /\ op.id.check = c
  <2>1. \E op \in Line(d)' : op.id.kind = "insert" /\ op.id.check = c
    BY <1>1
  <2> QED BY <2>1 DEF Known
<1>2. CASE \E i \in 1..n : server.versions[i].doc[c] # Absent
  <2>1. PICK i \in 1..n : server.versions[i].doc[c] # Absent
    BY <1>2
  <2>2. i \in 1..m /\ i \in 1..Revision
    OBVIOUS
  <2>3. server'.versions[i].doc[c] # Absent
    BY <2>1, <2>2 DEF Grows
  <2> QED BY <2>2, <2>3 DEF Known
<1> QED BY <1>1, <1>2 DEF Known

LEMMA SameGrows ==
    ASSUME IInv, server' = server
    PROVE  Grows /\ Revision \in Nat /\ Revision' = Revision
<1>1. Revision \in Nat /\ Revision' = Revision
  BY VersionsTyped DEF IInv, Revision
<1> QED BY <1>1 DEF Grows

LEMMA AcceptedSame ==
    ASSUME server' = server, NEW d, AcceptedOk(d), disk'[d].flight \subseteq disk[d].flight,
           sync'[d].stage \in {"integrate", "commit"} /\ ~sync'[d].rejected =>
              /\ sync[d].stage \in {"integrate", "commit"} /\ ~sync[d].rejected
              /\ sync'[d].flight = sync[d].flight /\ sync'[d].row = sync[d].row
    PROVE  AcceptedOk(d)'
<1>1. Revision' = Revision
  BY DEF Revision
<1>2. ASSUME NEW f, NEW k, Accepted(f, k) PROVE Accepted(f, k)'
  BY <1>1, <1>2 DEF Accepted
<1>3. \A f \in disk'[d].flight :
         f.operationId \in server'.operations => \E k \in 1..Revision' : Accepted(f, k)'
  BY <1>1, <1>2 DEF AcceptedOk
<1>4. ASSUME sync'[d].stage \in {"integrate", "commit"}, ~sync'[d].rejected
      PROVE  \E k \in 1..sync'[d].row.revision : Accepted(sync[d].flight, k)'
  <2> PICK f : f = sync[d].flight
    OBVIOUS
  <2>1. PICK k \in 1..sync[d].row.revision : Accepted(f, k)
    BY <1>4 DEF AcceptedOk
  <2>2. Accepted(f, k)'
    BY <1>2, <2>1
  <2>3. sync'[d].flight = f /\ k \in 1..sync'[d].row.revision
    BY <1>4, <2>1
  <2>4. Accepted(sync[d].flight, k)'
    BY <2>2, <2>3 DEF Accepted
  <2> QED BY <2>3, <2>4
<1> QED BY <1>3, <1>4 DEF AcceptedOk

LEMMA DeviceStays ==
    ASSUME IInv, NEW d \in Devices, ~New(d), RowsOk(d), Grows, AcceptedOk(d)',
           Line(d)' = Line(d), StoreSeq(d)' = StoreSeq(d), Recovered(d)' = Recovered(d),
           disk'[d].cp = disk[d].cp, disk'[d].base = disk[d].base, disk'[d].flight = disk[d].flight,
           disk[d].seq <= disk'[d].seq, disk'[d].seq \in Nat,
           InConflict(d)' <=> InConflict(d), view'[d] = view[d],
           \/ sync'[d] = sync[d]
           \/ Shown(d) /\ Shown(d)' /\ sync'[d].stage # "commit"
    PROVE  RowsOk(d)'
<1>0. AcceptedOk(d) /\ KnownOk(d) /\ CpMade(d) /\ FlightMade(d) /\ ViewMade(d) /\ MergeMade(d)
  BY DEF RowsOk
<1> PICK b : b = Base(disk[d])
  OBVIOUS
<1>1. Base(disk'[d]) = b
  BY DEF Base
<1>2. /\ b.revision \in Nat /\ b.revision <= Revision /\ Revision \in Nat
      /\ disk[d] \in HeadSet /\ sync[d] \in SyncSet /\ RoundOk(d)
  <2>1. disk[d] \in HeadSet /\ sync[d] \in SyncSet /\ RoundOk(d) /\ BaseOk(d)
    BY DeviceFacts
  <2>2. b.revision \in Nat /\ b.revision \in 1..Revision
    BY <2>1, BaseTyped DEF IInv
  <2>3. Revision \in Nat
    BY VersionsTyped DEF IInv
  <2> QED BY <2>1, <2>2, <2>3
<1>3. ASSUME NEW n \in Nat, n <= Revision, NEW c, Known(d, n, c) PROVE Known(d, n, c)'
  BY <1>2, <1>3, KnownStays
<1>4. KnownOk(d)'
  <2>1. /\ \A op \in Line(d) : Known(d, b.revision, op.id.check)
        /\ KnownRows(d, b.revision, view[d]) /\ KnownRows(d, b.revision, disk[d].cp.state)
        /\ sync[d].stage = "apply" => KnownRows(d, b.revision, sync[d].doc)
        /\ sync[d].stage = "commit" => KnownRows(d, sync[d].row.revision, sync[d].cp.state)
    BY <1>0 DEF KnownOk
  <2> PICK n : n = b.revision
    OBVIOUS
  <2>2. /\ \A op \in Line(d) : Known(d, n, op.id.check)'
        /\ \A c \in Checks : view[d][c] # Absent => Known(d, n, c)'
        /\ \A c \in Checks : disk[d].cp.state[c] # Absent => Known(d, n, c)'
        /\ sync[d].stage = "apply" => \A c \in Checks : sync[d].doc[c] # Absent => Known(d, n, c)'
    BY <1>2, <1>3, <2>1 DEF KnownRows
  <2>3. ASSUME sync'[d].stage = "apply"
        PROVE  \A c \in Checks : sync'[d].doc[c] # Absent => Known(d, n, c)'
    BY <2>2, <2>3 DEF Shown
  <2>4. ASSUME sync'[d].stage = "commit"
        PROVE  \E m : /\ m = sync'[d].row.revision
                      /\ \A c \in Checks : sync'[d].cp.state[c] # Absent => Known(d, m, c)'
    <3> PICK m : m = sync[d].row.revision
      OBVIOUS
    <3>1. sync'[d] = sync[d] /\ sync[d].stage = "commit"
      BY <2>4
    <3>2. HasVersion(m, sync[d].row.doc)
      BY <1>2, <3>1 DEF RoundOk
    <3>3. m \in Nat /\ m <= Revision
      BY <1>2, <3>2 DEF HasVersion
    <3>4. \A c \in Checks : sync[d].cp.state[c] # Absent => Known(d, m, c)'
      BY <1>3, <2>1, <3>1, <3>3 DEF KnownRows
    <3> QED BY <3>1, <3>4
  <2>5. \A c : Known(d, n, c)' <=> Known(d, Base(disk[d]).revision, c)'
    BY <1>1 DEF Known
  <2>6. /\ \A op \in Line(d)' : Known(d, Base(disk[d]).revision, op.id.check)'
        /\ KnownRows(d, Base(disk[d]).revision, view[d])'
        /\ KnownRows(d, Base(disk[d]).revision, disk[d].cp.state)'
        /\ sync'[d].stage = "apply" => KnownRows(d, Base(disk[d]).revision, sync[d].doc)'
    BY <2>2, <2>3, <2>5 DEF KnownRows
  <2>7. sync'[d].stage = "commit" => KnownRows(d, sync[d].row.revision, sync[d].cp.state)'
    <3> SUFFICES ASSUME sync'[d].stage = "commit"
                 PROVE  KnownRows(d, sync[d].row.revision, sync[d].cp.state)'
      OBVIOUS
    <3>1. PICK m : /\ m = sync'[d].row.revision
                   /\ \A c \in Checks : sync'[d].cp.state[c] # Absent => Known(d, m, c)'
      BY <2>4
    <3>2. \A c : Known(d, m, c)' <=> Known(d, sync[d].row.revision, c)'
      BY <3>1 DEF Known
    <3> QED BY <3>1, <3>2 DEF KnownRows
  <2> QED BY <2>6, <2>7 DEF KnownOk
<1>5. CpMade(d)'
  BY <1>0, <1>1 DEF CpMade
<1>6. Shown(d)' <=> Shown(d)
  BY DEF Shown
<1>7. FlightMade(d)'
  BY <1>0, <1>1, <1>6 DEF FlightMade
<1>8. ViewMade(d)'
  <2>1. CASE sync'[d] = sync[d]
    BY <1>0, <1>1, <1>6, <2>1 DEF ViewMade
  <2>2. CASE Shown(d) /\ Shown(d)'
    BY <1>0, <1>1, <1>6, <2>2 DEF ViewMade, Shown
  <2> QED BY <2>1, <2>2
<1>9. MergeMade(d)'
  <2> SUFFICES ASSUME sync'[d].stage = "commit" PROVE MergeMade(d)'
    BY DEF MergeMade
  <2>1. sync'[d] = sync[d] /\ sync[d].stage = "commit"
    OBVIOUS
  <2>2. sync[d].cp.seq \in Nat /\ disk[d].seq \in Nat
    <3>1. sync[d].cp \in Points
      BY <1>2, <2>1, RoundTyped
    <3> QED BY <1>2, <3>1, HeadTyped DEF Points
  <2>3. sync[d].cp.seq <= disk[d].seq
    BY <1>0, <2>1 DEF MergeMade
  <2>4. sync[d].cp.seq <= disk'[d].seq
    BY <2>2, <2>3
  <2> QED BY <1>0, <1>1, <2>1, <2>4 DEF MergeMade
<1> QED BY <1>4, <1>5, <1>7, <1>8, <1>9 DEF RowsOk

\* The operations and the server as they were.
LEMMA GlobalStays ==
    ASSUME IInv, Edits, Introduced, RowsLanded, OperationsSent, SavedSeen, server' = server,
           requests \subseteq requests', edited' = edited,
           \A x \in Devices : Line(x)' = Line(x) /\ disk[x].journal \subseteq disk'[x].journal
    PROVE  Edits' /\ Introduced' /\ RowsLanded' /\ OperationsSent' /\ SavedSeen'
<1>1. Revision' = Revision /\ Revision \in Nat
  BY SameGrows
<1>2. \A i \in 1..Revision : \A r \in server.versions[i].by :
         Line(r.device)' = Line(r.device) /\ disk[r.device].journal \subseteq disk'[r.device].journal
  BY VersionFacts
<1>3. Edits'
  BY DEF Edits
<1>4. OperationsSent'
  BY DEF OperationsSent
<1>5. Introduced'
  <2>1. \A i \in 2..Revision : i \in 1..Revision
    BY <1>1
  <2> QED BY <1>1, <1>2, <2>1 DEF Introduced
<1>6. RowsLanded'
  <2> SUFFICES ASSUME NEW i \in 1..Revision, NEW c \in Checks, server.versions[i].doc[c] > 0
               PROVE  \E j \in 1..i : \E r \in server.versions[j].by : \E op \in Line(r.device)' :
                         op.seq <= r.flight.endSeq /\ op.id.n = server.versions[i].doc[c]
    BY <1>1 DEF RowsLanded
  <2>1. PICK j \in 1..i : \E r \in server.versions[j].by : \E op \in Line(r.device) :
           op.seq <= r.flight.endSeq /\ op.id.n = server.versions[i].doc[c]
    BY DEF RowsLanded
  <2>2. j \in 1..Revision
    BY <1>1
  <2> QED BY <1>2, <2>1, <2>2
<1>7. SavedSeen'
  <2> SUFFICES ASSUME NEW i \in 2..Revision, NEW r \in server.versions[i].by, NEW c \in Checks,
                      server.versions[i].doc[c] # server.versions[i - 1].doc[c]
               PROVE  \E op \in disk'[r.device].journal :
                         /\ First(Line(r.device)', op, r.flight.startSeq) /\ op.id.check = c
                         /\ op.seq <= r.flight.endSeq
                         /\ op.id.over = server.versions[i - 1].doc[c] \/ op.id.early
    BY <1>1 DEF SavedSeen
  <2>1. i \in 1..Revision
    BY <1>1
  <2> QED BY <1>2, <2>1 DEF SavedSeen
<1> QED BY <1>3, <1>4, <1>5, <1>6, <1>7

\* The other devices do not notice the step of a device.
LEMMA OthersStay ==
    ASSUME IInv, RowsInv, NEW d \in Devices, StepOf(d), NEW x \in Devices, x # d
    PROVE  RowsOk(x)' /\ Line(x)' = Line(x) /\ disk'[x] = disk[x]
<1>1. disk'[x] = disk[x] /\ log'[x] = log[x] /\ sync'[x] = sync[x] /\ view'[x] = view[x]
  BY DEF IInv, Typed, StepOf
<1>2. server' = server
  BY DEF StepOf
<1>3. Line(x)' = Line(x) /\ StoreSeq(x)' = StoreSeq(x) /\ Recovered(x)' = Recovered(x)
  BY <1>1, LineSame, RecoveredSame
<1>4. CASE New(x)
  BY <1>1, <1>3, <1>4 DEF RowsOk, New
<1>5. CASE ~New(x)
  <2>1. RowsOk(x) /\ AcceptedOk(x)
    BY <1>5 DEF RowsInv, RowsOk
  <2>2. AcceptedOk(x)'
    BY <1>1, <1>2, <2>1, AcceptedSame
  <2>3. disk[x].seq \in Nat
    BY <1>5, DeviceFacts, HeadTyped
  <2>4. InConflict(x)' <=> InConflict(x)
    BY <1>1 DEF InConflict
  <2>5. Grows
    BY <1>2, SameGrows
  <2>6. RowsOk(x)'
    BY <1>1, <1>3, <1>5, <2>1, <2>2, <2>3, <2>4, <2>5, DeviceStays
  <2> QED BY <1>1, <1>3, <2>6
<1> QED BY <1>4, <1>5

LEMMA StepRows ==
    ASSUME IInv, RowsInv, NEW d \in Devices, StepOf(d), edited' = edited, Line(d)' = Line(d),
           disk[d].journal \subseteq disk'[d].journal, RowsOk(d)'
    PROVE  RowsInv'
<1>1. \A x \in Devices : RowsOk(x)' /\ Line(x)' = Line(x) /\ disk[x].journal \subseteq disk'[x].journal
  BY OthersStay
<1>2. server' = server /\ requests \subseteq requests'
  BY DEF StepOf
<1>3. Edits' /\ Introduced' /\ RowsLanded' /\ OperationsSent' /\ SavedSeen'
  BY <1>1, <1>2, GlobalStays DEF RowsInv
<1> QED BY <1>1, <1>3 DEF RowsInv

\* A round goes on and nothing is merged: the head keeps its records, the screen its rows.
LEMMA QuietRows ==
    ASSUME IInv, RowsInv, NEW d \in Devices, ~New(d), StepOf(d), edited' = edited,
           disk'[d].cp = disk[d].cp, disk'[d].base = disk[d].base, disk'[d].flight = disk[d].flight,
           disk'[d].seq = disk[d].seq, disk'[d].journal = disk[d].journal, log'[d] = log[d],
           InConflict(d)' <=> InConflict(d), view'[d] = view[d],
           Shown(d), Shown(d)', sync'[d].stage # "commit",
           sync'[d].stage = "integrate" /\ ~sync'[d].rejected =>
              /\ sync[d].stage = "commit" /\ ~sync[d].rejected
              /\ sync'[d].flight = sync[d].flight /\ sync'[d].row = sync[d].row
    PROVE  RowsInv'
<1>1. Line(d)' = Line(d) /\ StoreSeq(d)' = StoreSeq(d) /\ Recovered(d)' = Recovered(d)
  BY LineSame, RecoveredSame
<1>2. server' = server
  BY DEF StepOf
<1>3. RowsOk(d) /\ AcceptedOk(d)
  BY DEF RowsInv, RowsOk
<1>4. AcceptedOk(d)'
  BY <1>2, <1>3, AcceptedSame
<1>5. disk[d].seq \in Nat /\ disk[d].seq <= disk[d].seq
  BY DeviceFacts, HeadTyped
<1>6. Grows
  BY <1>2, SameGrows
<1>7. RowsOk(d)'
  BY <1>1, <1>3, <1>4, <1>5, <1>6, DeviceStays
<1> QED BY <1>1, <1>7, StepRows

LEMMA StutterRows ==
    ASSUME IInv, RowsInv, UNCHANGED vars PROVE RowsInv'
<1>1. /\ server' = server /\ requests' = requests /\ disk' = disk /\ log' = log
      /\ view' = view /\ sync' = sync /\ edited' = edited
  BY DEF vars
<1>2. ASSUME NEW x \in Devices PROVE RowsOk(x)' /\ Line(x)' = Line(x)
  <2>1. Line(x)' = Line(x) /\ StoreSeq(x)' = StoreSeq(x) /\ Recovered(x)' = Recovered(x)
    BY <1>1, LineSame, RecoveredSame
  <2>2. CASE New(x)
    BY <1>1, <2>1, <2>2 DEF RowsOk, New
  <2>3. CASE ~New(x)
    <3>1. RowsOk(x) /\ AcceptedOk(x)
      BY <2>3 DEF RowsInv, RowsOk
    <3>2. AcceptedOk(x)'
      BY <1>1, <3>1, AcceptedSame
    <3>3. disk[x].seq \in Nat /\ disk[x].seq <= disk[x].seq
      BY <2>3, DeviceFacts, HeadTyped
    <3>4. InConflict(x)' <=> InConflict(x)
      BY <1>1 DEF InConflict
    <3>5. Grows
      BY <1>1, SameGrows
    <3>6. RowsOk(x)'
      BY <1>1, <2>1, <2>3, <3>1, <3>2, <3>3, <3>4, <3>5, DeviceStays
    <3> QED BY <2>1, <3>6
  <2> QED BY <2>2, <2>3
<1>3. Edits' /\ Introduced' /\ RowsLanded' /\ OperationsSent' /\ SavedSeen'
  BY <1>1, <1>2, GlobalStays DEF RowsInv
<1> QED BY <1>2, <1>3 DEF RowsInv

-----------------------------------------------------------------------------
(* The steps that move no row. *)

\* A round goes on by itself, the head stays.
LEMMA RoundRows ==
    ASSUME IInv, RowsInv, NEW d \in Devices, UNCHANGED <<server, requests, disk, log, view, edited>>,
           Shown(d), NEW s, sync' = [sync EXCEPT ![d] = s],
           s.stage \notin {"new", "publish", "apply", "dead", "commit"},
           s.stage = "integrate" /\ ~s.rejected =>
              /\ sync[d].stage = "commit" /\ ~sync[d].rejected
              /\ s.flight = sync[d].flight /\ s.row = sync[d].row
    PROVE  RowsInv'
<1>1. sync'[d] = s /\ ~New(d)
  BY DEF IInv, Typed, Shown, New
<1>2. StepOf(d)
  BY <1>1, SameIsStep DEF StepOf, IInv
<1>3. Shown(d)'
  BY <1>1 DEF Shown
<1>4. InConflict(d)' <=> InConflict(d)
  BY DEF InConflict
<1> QED BY <1>1, <1>2, <1>3, <1>4, QuietRows

\* A failed round leaves a retry control.
LEMMA RetryRows ==
    ASSUME IInv, RowsInv, NEW d \in Devices, UNCHANGED <<server, requests, log, view, edited>>,
           disk' = [disk EXCEPT ![d] = WithRetry(@)],
           Shown(d), NEW s, sync' = [sync EXCEPT ![d] = s], s.stage = "idle"
    PROVE  RowsInv'
<1> PICK h : h = disk[d]
  OBVIOUS
<1> PICK g : g = WithRetry(h)
  OBVIOUS
<1>1. sync'[d] = s /\ ~New(d) /\ disk'[d] = g /\ disk' = [disk EXCEPT ![d] = g]
  BY DEF IInv, Typed, Shown, New
<1>2. h \in HeadSet
  BY <1>1, DeviceFacts
<1>3. /\ g.seq = h.seq /\ g.cp = h.cp /\ g.journal = h.journal
      /\ g.base = h.base /\ g.flight = h.flight
      /\ (\E c \in g.control : c.conflict # {}) <=> (\E c \in h.control : c.conflict # {})
  BY <1>2, WithRetryHead
<1>4. StepOf(d)
  BY <1>1, SameIsStep DEF StepOf, IInv
<1>5. Shown(d)'
  BY <1>1 DEF Shown
<1>6. InConflict(d)' <=> InConflict(d)
  BY <1>1, <1>3 DEF InConflict
<1>7. view'[d] = view[d] /\ log'[d] = log[d] /\ edited' = edited
  OBVIOUS
<1> QED BY <1>1, <1>3, <1>4, <1>5, <1>6, <1>7, QuietRows

LEMMA QuietSteps ==
    ASSUME IInv, RowsInv, NEW d \in Devices,
           \/ ReadRemote(d) \/ Timeout(d) \/ Fail(d) \/ Retry(d) \/ Poll(d)
    PROVE  RowsInv'
<1>1. CASE ReadRemote(d)
  <2> PICK s : s = [stage |-> "integrate", flight |-> sync[d].flight, rejected |-> TRUE, row |-> Row]
    OBVIOUS
  <2>1. s.stage = "integrate" /\ s.rejected
    OBVIOUS
  <2>2. sync' = [sync EXCEPT ![d] = s] /\ Shown(d)
        /\ UNCHANGED <<server, requests, disk, log, view, edited>>
    BY <1>1 DEF ReadRemote, Shown
  <2> QED BY <2>1, <2>2, RoundRows
<1>2. CASE Timeout(d)
  <2> PICK s : s = [stage |-> "failed"]
    OBVIOUS
  <2>1. sync' = [sync EXCEPT ![d] = s] /\ Shown(d)
        /\ UNCHANGED <<server, requests, disk, log, view, edited>>
    BY <1>2 DEF Timeout, Shown
  <2> QED BY <2>1, RoundRows
<1>3. CASE Fail(d)
  <2>1. /\ sync' = [sync EXCEPT ![d] = Idle] /\ Shown(d) /\ Idle.stage = "idle"
        /\ disk' = [disk EXCEPT ![d] = WithRetry(@)]
        /\ UNCHANGED <<server, requests, log, view, edited>>
    BY <1>3 DEF Fail, Shown, Idle
  <2> QED BY <2>1, RetryRows
<1>4. CASE Retry(d)
  <2> PICK s : s = [stage |-> "integrate", flight |-> sync[d].flight,
                    rejected |-> sync[d].rejected, row |-> sync[d].row]
    OBVIOUS
  <2>1. /\ s.stage = "integrate" /\ s.rejected = sync[d].rejected
        /\ s.flight = sync[d].flight /\ s.row = sync[d].row
    OBVIOUS
  <2>2. sync' = [sync EXCEPT ![d] = s] /\ Shown(d) /\ sync[d].stage = "commit"
        /\ UNCHANGED <<server, requests, disk, log, view, edited>>
    BY <1>4 DEF Retry, Shown
  <2> QED BY <2>1, <2>2, RoundRows
<1>5. CASE Poll(d)
  <2> PICK s : s = [stage |-> "adopt", row |-> Row]
    OBVIOUS
  <2>0. s.stage = "adopt"
    OBVIOUS
  <2>1. sync' = [sync EXCEPT ![d] = s] /\ Shown(d)
        /\ UNCHANGED <<server, requests, disk, log, view, edited>>
    BY <1>5 DEF Poll, MaySync, Idle, Shown
  <2> QED BY <2>0, <2>1, RoundRows
<1> QED BY <1>1, <1>2, <1>3, <1>4, <1>5

\* The halves of the other steps that move none.
LEMMA QuietHalves ==
    ASSUME IInv, RowsInv, NEW d \in Devices,
           \/ Upload(d) /\ ~(disk[d].flight # {} \/ log[d] = <<>>)
           \/ Integrate(d) /\ ~BelievedRow(sync[d])
           \/ Adopt(d) /\ disk' = disk /\ sync' = [sync EXCEPT ![d] = Idle]
    PROVE  RowsInv'
<1>1. CASE Upload(d) /\ ~(disk[d].flight # {} \/ log[d] = <<>>)
  <2>1. /\ disk' = [disk EXCEPT ![d] = WithRetry(@)] /\ sync[d] = Idle /\ sync' = sync
        /\ UNCHANGED <<server, requests, log, view, edited>>
    BY <1>1 DEF Upload, MaySync
  <2>2. sync' = [sync EXCEPT ![d] = Idle] /\ Idle.stage = "idle" /\ Shown(d)
    BY <2>1 DEF IInv, Typed, Idle, Shown
  <2> QED BY <2>1, <2>2, RetryRows
<1>2. CASE Integrate(d) /\ ~BelievedRow(sync[d])
  <2> PICK s : s = [stage |-> "failed"]
    OBVIOUS
  <2>1. sync' = [sync EXCEPT ![d] = s] /\ Shown(d)
        /\ UNCHANGED <<server, requests, disk, log, view, edited>>
    BY <1>2 DEF Integrate, Shown
  <2> QED BY <2>1, RoundRows
<1>3. CASE Adopt(d) /\ disk' = disk /\ sync' = [sync EXCEPT ![d] = Idle]
  <2>1. Shown(d) /\ Idle.stage = "idle" /\ UNCHANGED <<server, requests, disk, log, view, edited>>
    BY <1>3 DEF Adopt, Shown, Idle
  <2> QED BY <1>3, <2>1, RoundRows
<1> QED BY <1>1, <1>2, <1>3

LEMMA CommitRows ==
    ASSUME IInv, IInv', RowsInv, NEW d \in Devices, Commit(d)
    PROVE  RowsInv'
<1>1. /\ ~New(d) /\ Line(d)' = Line(d) /\ StoreSeq(d)' = StoreSeq(d)
      /\ disk'[d].cp = disk[d].cp /\ disk'[d].base = disk[d].base
      /\ disk'[d].flight = disk[d].flight /\ disk'[d].control = disk[d].control
      /\ disk[d].journal \subseteq disk'[d].journal /\ disk[d].seq <= disk'[d].seq
      /\ Recovered(d)' = Recovered(d)
  BY CommitLine
<1> PICK op : op = [seq |-> disk[d].seq + 1, id |-> Head(log[d])]
  OBVIOUS
<1>2. /\ UNCHANGED <<server, requests, view, sync, edited>>
      /\ disk' = [disk EXCEPT ![d] = AppendOp(disk[d], op)] /\ log' = [log EXCEPT ![d] = Tail(log[d])]
  BY DEF Commit
<1>3. StepOf(d)
  BY <1>2, SameIsStep DEF StepOf, IInv, Typed
<1>4. RowsOk(d) /\ AcceptedOk(d)
  BY <1>1 DEF RowsInv, RowsOk
<1>5. AcceptedOk(d)'
  BY <1>1, <1>2, <1>4, AcceptedSame
<1>6. disk'[d].seq \in Nat
  <2>1. ~New(d)'
    BY <1>1, <1>2 DEF New
  <2>2. disk'[d] \in HeadSet
    BY <2>1 DEF IInv, Typed
  <2> QED BY <2>2, HeadTyped
<1>7. InConflict(d)' <=> InConflict(d)
  BY <1>1 DEF InConflict
<1>8. Grows
  BY <1>2, SameGrows
<1>9. RowsOk(d)'
  BY <1>1, <1>2, <1>4, <1>5, <1>6, <1>7, <1>8, DeviceStays
<1> QED BY <1>1, <1>2, <1>3, <1>9, StepRows

LEMMA EmptyReplay ==
    ASSUME NEW doc \in Docs, NEW es \in Seq(EditSet), Len(es) = 0
    PROVE  Replay(doc, es).ok /\ Replay(doc, es).doc = doc
<1>1. DOMAIN es = {} /\ 1..Len(es) = {} /\ Len(es) \in Nat
  OBVIOUS
<1>2. Replay(doc, es).ok /\ Replay(doc, es).doc = After(doc, es, Len(es))
  BY <1>1, ReplayFits
<1>3. \A c \in Checks : After(doc, es, Len(es))[c] = doc[c]
  BY <1>1, AfterRow
<1>4. After(doc, es, Len(es)) = [c \in Checks |-> After(doc, es, Len(es))[c]]
  BY AfterIs
<1>5. doc = [c \in Checks |-> doc[c]]
  BY DEF Docs
<1> QED BY <1>2, <1>3, <1>4, <1>5

LEMMA InitializeRows ==
    ASSUME IInv, IInv', RowsInv, NEW d \in Devices, Initialize(d)
    PROVE  RowsInv'
<1> PICK n : n = Revision
  OBVIOUS
<1> PICK doc : doc = Document
  OBVIOUS
<1> PICK b : b = [revision |-> n, ackSeq |-> 0, state |-> doc]
  OBVIOUS
<1> PICK h : h = [epoch |-> Epoch, seq |-> 0, writer |-> d, cp |-> [seq |-> 0, state |-> doc],
                  journal |-> {}, base |-> {b}, flight |-> {}, control |-> {}]
  OBVIOUS
<1>0. /\ New(d) /\ UNCHANGED <<server, requests, log, edited>>
      /\ disk' = [disk EXCEPT ![d] = h] /\ view' = [view EXCEPT ![d] = doc]
      /\ sync' = [sync EXCEPT ![d] = Idle]
  <2>1. InitializeCloudHead(Epoch, d, doc, b, {}) = FreshHead(Epoch, d, doc, {b})
    BY FirstHead
  <2> QED BY <2>1 DEF Initialize, New, FreshHead
<1>1. /\ n \in Nat /\ doc \in Docs /\ n \in 1..n /\ doc = server.versions[n].doc
      /\ server' = server /\ Revision' = n
  BY <1>0, VersionsTyped DEF IInv, Document, Revision
<1>2. /\ disk'[d] = h /\ sync'[d] = Idle /\ view'[d] = doc /\ log'[d] = <<>> /\ StepOf(d)
      /\ disk[d] = EmptyHead
  BY <1>0 DEF IInv, Typed, StepOf
<1>3. /\ h.journal = {} /\ h.seq = 0 /\ h.cp.seq = 0 /\ h.cp.state = doc /\ h.base = {b}
      /\ h.flight = {} /\ h.control = {} /\ b.revision = n /\ b.ackSeq = 0 /\ b.state = doc
      /\ Base(h) = b
  BY DEF Base
<1>4. Line(d) = {} /\ Line(d)' = {} /\ StoreSeq(d)' = 0 /\ ~New(d)'
  <2>1. Line(d) = {}
    BY <1>0, NewLine
  <2>2. DOMAIN log'[d] = {} /\ Len(log'[d]) = 0
    BY <1>2
  <2>3. Line(d)' = {}
    BY <1>2, <1>3, <2>2 DEF Line
  <2>4. StoreSeq(d)' = 0
    BY <1>2, <1>3, <2>2 DEF StoreSeq
  <2> QED BY <1>2, <2>1, <2>3, <2>4 DEF New, Idle
<1>5. Recovered(d)'.ok /\ Recovered(d)'.doc = doc
  <2> PICK es : es = TailOf(d)'
    OBVIOUS
  <2>1. TailsOk'
    BY TailsAreOk, PTL
  <2>2. es \in Seq(EditSet) /\ Len(es) = 0 - 0 /\ Recovered(d)' = Replay(doc, es)
    BY <1>2, <1>3, <1>4, <2>1 DEF TailsOk
  <2>3. Len(es) = 0
    BY <2>2
  <2>4. Replay(doc, es).ok /\ Replay(doc, es).doc = doc
    BY <1>1, <2>2, <2>3, EmptyReplay
  <2>5. Recovered(d)'.ok = Replay(doc, es).ok /\ Recovered(d)'.doc = Replay(doc, es).doc
    BY <2>2
  <2> QED BY <2>4, <2>5
<1>6. Made({}, 1, 0, doc, doc)
  BY EmptyMade
<1>7. AcceptedOk(d)' /\ FlightMade(d)' /\ MergeMade(d)'
  BY <1>2, <1>3 DEF AcceptedOk, FlightMade, MergeMade, Idle
<1>8. KnownOk(d)'
  <2>1. KnownRows(d, n, doc)'
    <3>1. ASSUME NEW c \in Checks, doc[c] # Absent PROVE Known(d, n, c)'
      BY <1>1, <3>1 DEF Known
    <3> QED BY <3>1 DEF KnownRows
  <2> QED BY <1>2, <1>3, <1>4, <2>1 DEF KnownOk, Idle
<1>9. CpMade(d)'
  <2>1. Keeps({}, 1, 0, doc)
    BY DEF Keeps
  <2> QED BY <1>2, <1>3, <1>4, <1>6, <2>1 DEF CpMade
<1>10. ViewMade(d)'
  BY <1>2, <1>3, <1>4, <1>5, <1>6 DEF ViewMade, Idle
<1>11. RowsOk(d)'
  BY <1>7, <1>8, <1>9, <1>10 DEF RowsOk
<1>12. disk[d].journal \subseteq disk'[d].journal
  BY <1>2 DEF EmptyHead
<1> QED BY <1>0, <1>2, <1>4, <1>11, <1>12, StepRows

-----------------------------------------------------------------------------
(* An edit. *)

\* The changes of all devices are those of their lines.
LEMMA LineEdits ==
    ASSUME NEW d \in Devices, NEW op \in Line(d)
    PROVE  op.id \in AllEdits
<1>1. op.id \in EditsOf(d)
  <2>1. CASE op \in disk[d].journal
    BY <2>1 DEF EditsOf
  <2>2. CASE op \in {[seq |-> disk[d].seq + i, id |-> log[d][i]] : i \in DOMAIN log[d]}
    <3>1. PICK i \in DOMAIN log[d] : op = [seq |-> disk[d].seq + i, id |-> log[d][i]]
      BY <2>2
    <3>2. op.id = log[d][i]
      BY <3>1
    <3> QED BY <3>2 DEF EditsOf
  <2> QED BY <2>1, <2>2 DEF Line
<1> QED BY <1>1 DEF AllEdits

LEMMA EditFacts ==
    ASSUME IInv, NEW d \in Devices, NEW c \in Checks, NEW kind \in {"insert", "replace", "delete"},
           Edit(d, c, kind)
    PROVE  \E e \in EditSet :
              /\ e.n = edited + 1 /\ e.check = c /\ e.kind = kind /\ e.over = view[d][c]
              /\ kind = "insert" => e.index = Cardinality(Present(view[d]))
              /\ sync[d].stage \in {"publish", "apply"} => e.early
              /\ log' = [log EXCEPT ![d] = Append(log[d], e)]
              /\ view' = [view EXCEPT ![d] = Apply(view[d], e)]
              /\ log'[d] = Append(log[d], e) /\ view'[d] = Apply(view[d], e)
<1> PICK early : early = (sync[d].stage \in {"publish", "apply"})
  OBVIOUS
<1> PICK k : k = IF kind = "insert" THEN Cardinality(Present(view[d])) ELSE 0
  OBVIOUS
<1> PICK e : e = [n |-> edited + 1, check |-> c, kind |-> kind, index |-> k,
                  over |-> view[d][c], early |-> early]
  OBVIOUS
<1>0. ~New(d) /\ view[d] \in Docs /\ edited \in Nat
  BY DEF Edit, Active, New, IInv, Typed
<1>1. e \in EditSet
  <2>1. k \in Indices
    BY DEF Indices, Present
  <2>2. view[d][c] \in Int /\ edited + 1 \in Nat \ {0}
    BY <1>0 DEF Docs
  <2> QED BY <2>1, <2>2 DEF EditSet
<1>2. /\ log' = [log EXCEPT ![d] = Append(log[d], e)] /\ view' = [view EXCEPT ![d] = Apply(view[d], e)]
  BY DEF Edit
<1>3. log'[d] = Append(log[d], e) /\ view'[d] = Apply(view[d], e)
  BY <1>2 DEF IInv, Typed
<1>4. /\ e.n = edited + 1 /\ e.check = c /\ e.kind = kind /\ e.over = view[d][c]
      /\ e.index = k /\ e.early = early
  OBVIOUS
<1> QED BY <1>1, <1>2, <1>3, <1>4

\* A check no one edited and the first version lacks is in no document a device has.
LEMMA UnknownCheck ==
    ASSUME IInv, RowsInv, NEW d \in Devices, ~New(d), NEW c \in Checks, c \notin Original,
           \A e \in AllEdits : e.check # c
    PROVE  view[d][c] = Absent
<1> SUFFICES ASSUME view[d][c] # Absent PROVE FALSE
  OBVIOUS
<1> PICK n : n = Base(disk[d]).revision
  OBVIOUS
<1>0. Introduced /\ RowsOk(d)
  BY DEF RowsInv
<1>1. KnownRows(d, n, view[d])
  BY <1>0 DEF RowsOk, KnownOk
<1>2. Known(d, n, c)
  BY <1>1 DEF KnownRows
<1>3. n \in 1..Revision /\ n \in Nat /\ Revision \in Nat
  BY DeviceFacts, BaseTyped, VersionsTyped DEF IInv
<1>4. PICK i \in 1..n : server.versions[i].doc[c] # Absent
  BY <1>2, LineEdits DEF Known
<1>5. i \in 1..Revision
  BY <1>3
<1>6. PICK j \in 2..i : \E r \in server.versions[j].by : Carries(r, c)
  BY <1>0, <1>4, <1>5, FirstIntroduced
<1>7. PICK r \in server.versions[j].by : Carries(r, c)
  BY <1>6
<1>8. j \in 1..Revision
  BY <1>3
<1>9. r.device \in Devices
  BY <1>8, VersionFacts
<1> QED BY <1>7, <1>9, LineEdits DEF Carries

\* An edit fits the screen it is made on.
LEMMA EditFits ==
    ASSUME NEW doc, NEW e \in EditSet, e.kind = "insert" => doc[e.check] = Absent,
           e.kind # "insert" => doc[e.check] # Absent,
           e.kind = "insert" => e.index = Cardinality(Present(doc))
    PROVE  Fits(doc, e)
<1>1. IsFiniteSet(Present(doc))
  <2>1. Present(doc) \subseteq Checks /\ IsFiniteSet(Checks)
    BY ChecksAssumption DEF Present
  <2> QED BY <2>1, FS_Subset
<1>2. Cardinality(Present(doc)) \in Nat
  BY <1>1, FS_CardinalityType
<1> QED BY <1>2 DEF Fits

LinesOrdered == \A d \in Devices : ~New(d) => Ordered(Line(d), StoreSeq(d))

LEMMA LinesAreOrdered == IInv /\ Edits => LinesOrdered
BY LineOrdered DEF LinesOrdered

\* More operations, after the ones there are.
LEMMA GlobalGrows ==
    ASSUME IInv, Introduced, RowsLanded, OperationsSent, SavedSeen, server' = server,
           requests \subseteq requests',
           \A x \in Devices : Line(x) \subseteq Line(x)' /\ disk[x].journal \subseteq disk'[x].journal,
           \A x \in Devices : \A y, from : First(Line(x), y, from) => First(Line(x)', y, from)
    PROVE  Introduced' /\ RowsLanded' /\ OperationsSent' /\ SavedSeen'
<1>1. Revision' = Revision /\ Revision \in Nat
  BY SameGrows
<1>2. \A i \in 1..Revision : \A r \in server.versions[i].by :
         /\ Line(r.device) \subseteq Line(r.device)' /\ disk[r.device].journal \subseteq disk'[r.device].journal
         /\ \A y, from : First(Line(r.device), y, from) => First(Line(r.device)', y, from)
  BY VersionFacts
<1>4. OperationsSent'
  BY DEF OperationsSent
<1>5. Introduced'
  <2>1. \A i \in 2..Revision : i \in 1..Revision
    BY <1>1
  <2> SUFFICES ASSUME NEW i \in 2..Revision, NEW c \in Checks,
                      server.versions[i].doc[c] # Absent /\ server.versions[i - 1].doc[c] = Absent
               PROVE  \E r \in server.versions[i].by : \E op \in Line(r.device)' :
                         /\ op.id.kind = "insert" /\ op.id.check = c
                         /\ op.seq \in r.flight.startSeq..r.flight.endSeq
    BY <1>1 DEF Introduced
  <2>2. PICK r \in server.versions[i].by : \E op \in Line(r.device) :
                         /\ op.id.kind = "insert" /\ op.id.check = c
                         /\ op.seq \in r.flight.startSeq..r.flight.endSeq
    BY DEF Introduced
  <2>3. Line(r.device) \subseteq Line(r.device)'
    BY <1>2, <2>1
  <2> QED BY <2>2, <2>3
<1>6. RowsLanded'
  <2> SUFFICES ASSUME NEW i \in 1..Revision, NEW c \in Checks, server.versions[i].doc[c] > 0
               PROVE  \E j \in 1..i : \E r \in server.versions[j].by : \E op \in Line(r.device)' :
                         op.seq <= r.flight.endSeq /\ op.id.n = server.versions[i].doc[c]
    BY <1>1 DEF RowsLanded
  <2>1. PICK j \in 1..i : \E r \in server.versions[j].by : \E op \in Line(r.device) :
           op.seq <= r.flight.endSeq /\ op.id.n = server.versions[i].doc[c]
    BY DEF RowsLanded
  <2>2. j \in 1..Revision
    BY <1>1
  <2>3. PICK r \in server.versions[j].by : \E op \in Line(r.device) :
           op.seq <= r.flight.endSeq /\ op.id.n = server.versions[i].doc[c]
    BY <2>1
  <2>4. Line(r.device) \subseteq Line(r.device)'
    BY <1>2, <2>2
  <2> QED BY <2>3, <2>4
<1>7. SavedSeen'
  <2> SUFFICES ASSUME NEW i \in 2..Revision, NEW r \in server.versions[i].by, NEW c \in Checks,
                      server.versions[i].doc[c] # server.versions[i - 1].doc[c]
               PROVE  \E op \in disk'[r.device].journal :
                         /\ First(Line(r.device)', op, r.flight.startSeq) /\ op.id.check = c
                         /\ op.seq <= r.flight.endSeq
                         /\ op.id.over = server.versions[i - 1].doc[c] \/ op.id.early
    BY <1>1 DEF SavedSeen
  <2>1. i \in 1..Revision
    BY <1>1
  <2>2. PICK op \in disk[r.device].journal :
                         /\ First(Line(r.device), op, r.flight.startSeq) /\ op.id.check = c
                         /\ op.seq <= r.flight.endSeq
                         /\ op.id.over = server.versions[i - 1].doc[c] \/ op.id.early
    BY DEF SavedSeen
  <2> QED BY <1>2, <2>1, <2>2
<1> QED BY <1>4, <1>5, <1>6, <1>7

\* What an edit does to the operations.
LEMMA EditLines ==
    ASSUME IInv, IInv', RowsInv, NEW d \in Devices, ~New(d), NEW e \in EditSet, StepOf(d), UNCHANGED disk,
           ~New(d)', log'[d] = Append(log[d], e), edited' = edited + 1, e.n = edited + 1,
           e.kind = "insert" => e.check \notin Original /\ \A x \in AllEdits : x.check # e.check
    PROVE  \E op \in OpSet :
              /\ op.seq = StoreSeq(d) + 1 /\ op.id = e /\ Line(d)' = Line(d) \cup {op}
              /\ StoreSeq(d)' = StoreSeq(d) + 1
              /\ Recovered(d).ok /\ Fits(Recovered(d).doc, e) =>
                    Recovered(d)' = [ok |-> TRUE, doc |-> Apply(Recovered(d).doc, e)]
              /\ Ordered(Line(d), StoreSeq(d)) /\ Ordered(Line(d)', StoreSeq(d) + 1)
              /\ Edits' /\ Introduced' /\ RowsLanded' /\ OperationsSent' /\ SavedSeen'
<1> PICK n : n = StoreSeq(d)
  OBVIOUS
<1> PICK op : op = [seq |-> n + 1, id |-> e]
  OBVIOUS
<1>1. /\ Line(d) \subseteq OpSet /\ n \in Nat /\ \A x \in Line(d) : x.seq \in 1..n
  BY LineTyped
<1>2. op \in OpSet /\ op.seq = n + 1 /\ op.id = e
  BY <1>1 DEF OpSet
<1>3. /\ Line(d)' = Line(d) \cup {op} /\ StoreSeq(d)' = n + 1
      /\ Recovered(d).ok /\ Fits(Recovered(d).doc, e) =>
            Recovered(d)' = [ok |-> TRUE, doc |-> Apply(Recovered(d).doc, e)]
  BY EditLine
<1>4. \A p \in Devices : p # d => Line(p)' = Line(p)
  BY OthersStay
<1>5. edited \in Nat /\ Edits
  BY DEF IInv, Typed, RowsInv
<1>6. ASSUME NEW p \in Devices, NEW x \in Line(p)
      PROVE  /\ x.id.n <= edited /\ x.id \in AllEdits /\ x.id.n \in Nat
             /\ p = d => x.seq < op.seq
  <2>1. ~New(p)
    BY NewLine
  <2>2. x \in OpSet
    BY <2>1, LineTyped
  <2>3. x.id.n <= edited
    BY <1>5 DEF Edits
  <2>4. p = d => x.seq < op.seq
    BY <1>1, <1>2, <2>2, OpTyped
  <2> QED BY <2>2, <2>3, <2>4, OpTyped, LineEdits
<1>7. Edits'
  <2> SUFFICES ASSUME NEW p \in Devices, NEW q \in Devices, NEW x \in Line(p)', NEW y \in Line(q)'
               PROVE  /\ x.id.n <= edited + 1
                      /\ x.id.n = y.id.n => p = q /\ x = y
                      /\ p = q /\ x.seq < y.seq => x.id.n < y.id.n
                      /\ x.id.kind = "insert" /\ x.id.check = y.id.check => x.id.n <= y.id.n
                      /\ x.id.kind = "insert" => x.id.check \notin Original
    BY DEF Edits
  <2>1. (x \in Line(p) \/ (p = d /\ x = op)) /\ (y \in Line(q) \/ (q = d /\ y = op))
    BY <1>3, <1>4
  <2>2. CASE x \in Line(p) /\ y \in Line(q)
    <3>1. /\ x.id.n <= edited
          /\ x.id.n = y.id.n => p = q /\ x = y
          /\ p = q /\ x.seq < y.seq => x.id.n < y.id.n
          /\ x.id.kind = "insert" /\ x.id.check = y.id.check => x.id.n <= y.id.n
          /\ x.id.kind = "insert" => x.id.check \notin Original
      BY <1>5, <2>2 DEF Edits
    <3>2. x.id.n <= edited + 1
      BY <1>5, <1>6, <2>2
    <3> QED BY <3>1, <3>2
  <2>3. CASE x \in Line(p) /\ q = d /\ y = op
    <3>1. y.id.n = edited + 1 /\ x.id.n <= edited /\ x.id.n \in Nat
      BY <1>2, <1>6, <2>3
    <3>2. x.id.kind = "insert" => x.id.check \notin Original
      BY <1>5, <2>3 DEF Edits
    <3> QED BY <1>5, <3>1, <3>2
  <2>4. CASE p = d /\ x = op /\ y \in Line(q)
    <3>1. x.id.n = edited + 1 /\ y.id.n <= edited /\ y.id.n \in Nat /\ y.id \in AllEdits /\ x.id = e
      BY <1>2, <1>6, <2>4
    <3>2. ~ (p = q /\ x.seq < y.seq)
      <4> SUFFICES ASSUME p = q PROVE ~ (x.seq < y.seq)
        OBVIOUS
      <4>1. y.seq \in 1..n /\ x.seq = n + 1
        BY <1>1, <1>2, <2>4
      <4> QED BY <1>1, <4>1
    <3>3. ~ (x.id.kind = "insert" /\ x.id.check = y.id.check)
      BY <3>1
    <3>4. x.id.n # y.id.n /\ x.id.n <= edited + 1
      BY <1>5, <3>1
    <3>5. x.id.kind = "insert" => x.id.check \notin Original
      BY <3>1
    <3> QED BY <3>2, <3>3, <3>4, <3>5
  <2>5. CASE p = d /\ x = op /\ q = d /\ y = op
    <3>1. x.id.n = edited + 1 /\ x = y /\ ~ (x.seq < y.seq) /\ x.id = e
      BY <1>1, <1>2, <2>5
    <3> QED BY <1>5, <2>5, <3>1
  <2> QED BY <2>1, <2>2, <2>3, <2>4, <2>5
<1>8. Ordered(Line(d), n) /\ Ordered(Line(d)', n + 1)
  <2>1. Ordered(Line(d), n)
    BY <1>5, LineOrdered
  <2>2. LinesOrdered'
    BY <1>7, LinesAreOrdered, PTL
  <2> QED BY <1>3, <2>1, <2>2 DEF LinesOrdered
<1>9. \A x \in Devices : \A y, from : First(Line(x), y, from) => First(Line(x)', y, from)
  <2> SUFFICES ASSUME NEW x \in Devices, NEW y, NEW from, First(Line(x), y, from)
               PROVE  First(Line(x)', y, from)
    OBVIOUS
  <2>1. CASE x # d
    <3> PICK O : O = Line(x)
      OBVIOUS
    <3>1. First(O, y, from) /\ Line(x)' = O
      BY <1>4, <2>1
    <3> QED BY <3>1
  <2>2. CASE x = d
    <3> PICK O : O = Line(d)
      OBVIOUS
    <3>1. First(O, y, from) /\ Line(x)' = O \cup {op} /\ y \in O /\ y.seq <= op.seq
      <4>1. y \in Line(d)
        BY <2>2 DEF First
      <4>2. y.seq <= op.seq
        BY <1>1, <1>2, <4>1
      <4> QED BY <1>3, <2>2, <4>1, <4>2
    <3>2. First(O \cup {op}, y, from)
      BY <3>1 DEF First
    <3> QED BY <3>1, <3>2
  <2> QED BY <2>1, <2>2
<1>10. \A x \in Devices : Line(x) \subseteq Line(x)' /\ disk[x].journal \subseteq disk'[x].journal
  BY <1>3, <1>4
<1>11. server' = server /\ requests \subseteq requests'
  BY DEF StepOf
<1>12. Introduced' /\ RowsLanded' /\ OperationsSent' /\ SavedSeen'
  BY <1>9, <1>10, <1>11, GlobalGrows DEF RowsInv
<1> QED BY <1>2, <1>3, <1>7, <1>8, <1>12

LEMMA EditRows ==
    ASSUME IInv, IInv', RowsInv, NEW d \in Devices, NEW c \in Checks,
           Insert(d, c) \/ Replace(d, c) \/ Delete(d, c)
    PROVE  RowsInv'
<1>1. PICK kind \in {"insert", "replace", "delete"} :
         /\ Edit(d, c, kind)
         /\ kind = "insert" => c \notin Original /\ \A x \in AllEdits : x.check # c
         /\ kind # "insert" => view[d][c] # Absent
  BY DEF Insert, Replace, Delete
<1>2. PICK e \in EditSet :
         /\ e.n = edited + 1 /\ e.check = c /\ e.kind = kind /\ e.over = view[d][c]
         /\ kind = "insert" => e.index = Cardinality(Present(view[d]))
         /\ sync[d].stage \in {"publish", "apply"} => e.early
         /\ log' = [log EXCEPT ![d] = Append(log[d], e)]
         /\ view' = [view EXCEPT ![d] = Apply(view[d], e)]
         /\ log'[d] = Append(log[d], e) /\ view'[d] = Apply(view[d], e)
  BY <1>1, EditFacts
<1>3. /\ ~New(d) /\ ~New(d)' /\ sync[d].stage \notin {"new", "dead"} /\ edited' = edited + 1
      /\ UNCHANGED <<server, requests, disk, sync>>
  BY <1>1 DEF Edit, Active, New
<1>4. StepOf(d)
  BY <1>2, <1>3, SameIsStep DEF StepOf, IInv, Typed
<1> PICK n : n = StoreSeq(d)
  OBVIOUS
<1> PICK O : O = Line(d)
  OBVIOUS
<1>5. PICK op \in OpSet :
         /\ op.seq = n + 1 /\ op.id = e /\ Line(d)' = O \cup {op}
         /\ StoreSeq(d)' = n + 1
         /\ Recovered(d).ok /\ Fits(Recovered(d).doc, e) =>
               Recovered(d)' = [ok |-> TRUE, doc |-> Apply(Recovered(d).doc, e)]
         /\ Ordered(O, n) /\ Ordered(O \cup {op}, n + 1)
         /\ Edits' /\ Introduced' /\ RowsLanded' /\ OperationsSent' /\ SavedSeen'
  <2>1. e.kind = "insert" => e.check \notin Original /\ \A x \in AllEdits : x.check # e.check
    BY <1>1, <1>2
  <2>2. UNCHANGED disk
    BY <1>3
  <2>3. \E op \in OpSet :
              /\ op.seq = StoreSeq(d) + 1 /\ op.id = e /\ Line(d)' = Line(d) \cup {op}
              /\ StoreSeq(d)' = StoreSeq(d) + 1
              /\ Recovered(d).ok /\ Fits(Recovered(d).doc, e) =>
                    Recovered(d)' = [ok |-> TRUE, doc |-> Apply(Recovered(d).doc, e)]
              /\ Ordered(Line(d), StoreSeq(d)) /\ Ordered(Line(d)', StoreSeq(d) + 1)
              /\ Edits' /\ Introduced' /\ RowsLanded' /\ OperationsSent' /\ SavedSeen'
    BY <1>2, <1>3, <1>4, <2>1, <2>2, EditLines
  <2> QED BY <2>3
<1> PICK h : h = disk[d]
  OBVIOUS
<1> PICK b : b = Base(h)
  OBVIOUS
<1>6. /\ disk'[d] = h /\ sync'[d] = sync[d] /\ Base(disk'[d]) = b /\ server' = server
      /\ view'[d] = Apply(view[d], e)
  BY <1>2, <1>3
<1>7. /\ h \in HeadSet /\ view[d] \in Docs /\ b.revision \in Nat /\ b.revision <= Revision
      /\ b.ackSeq \in Nat /\ h.seq \in Nat /\ h.cp.seq \in Nat /\ n \in Nat /\ Revision \in Nat
      /\ b.ackSeq <= h.cp.seq /\ h.cp.seq <= h.seq /\ h.seq <= n /\ sync[d] \in SyncSet
      /\ FlightOk(d) /\ RoundOk(d)
  <2>1. h \in HeadSet /\ view[d] \in Docs /\ BaseOk(d) /\ sync[d] \in SyncSet /\ FlightOk(d) /\ RoundOk(d)
    BY <1>3, DeviceFacts
  <2>2. b.revision \in Nat /\ b.revision \in 1..Revision /\ b.ackSeq \in Nat
    BY <1>3, <2>1, BaseTyped DEF IInv
  <2>3. Revision \in Nat
    BY VersionsTyped DEF IInv
  <2>4. n \in Nat /\ h.seq <= n
    <3>1. StoreSeq(d) \in Nat /\ disk[d].seq <= StoreSeq(d)
      BY <1>3, LineTyped
    <3> QED BY <3>1
  <2>5. b.ackSeq <= h.cp.seq /\ h.cp.seq <= h.seq
    BY <2>1 DEF BaseOk
  <2> QED BY <2>1, <2>2, <2>3, <2>4, <2>5, HeadTyped
<1>8. /\ AcceptedOk(d) /\ KnownOk(d) /\ CpMade(d) /\ FlightMade(d) /\ ViewMade(d) /\ MergeMade(d)
      /\ Edits /\ RowsLanded
  BY <1>3 DEF RowsInv, RowsOk
<1>9. AcceptedOk(d)'
  BY <1>3, <1>8, AcceptedSame
<1>10. KnownOk(d)'
  <2>1. /\ \A x \in O : Known(d, b.revision, x.id.check)
        /\ KnownRows(d, b.revision, view[d]) /\ KnownRows(d, b.revision, h.cp.state)
        /\ sync[d].stage = "apply" => KnownRows(d, b.revision, sync[d].doc)
        /\ sync[d].stage = "commit" => KnownRows(d, sync[d].row.revision, sync[d].cp.state)
    BY <1>8 DEF KnownOk
  <2>2. Grows
    BY <1>3, SameGrows
  <2>3. ASSUME NEW k \in Nat, k <= Revision, NEW x, Known(d, k, x) PROVE Known(d, k, x)'
    <3>1. Line(d) \subseteq Line(d)'
      BY <1>5
    <3> QED BY <1>7, <2>2, <2>3, <3>1, KnownStays
  <2> PICK k : k = b.revision
    OBVIOUS
  <2>4. Known(d, k, c)'
    <3>1. CASE kind = "insert"
      <4>1. op \in Line(d)' /\ op.id.kind = "insert" /\ op.id.check = c
        BY <1>2, <1>5, <3>1
      <4> QED BY <4>1 DEF Known
    <3>2. CASE kind # "insert"
      <4>1. Known(d, k, c)
        BY <1>1, <2>1, <3>2 DEF KnownRows
      <4> QED BY <1>7, <2>3, <4>1
    <3> QED BY <3>1, <3>2
  <2>5. \A x \in Line(d)' : Known(d, k, x.id.check)'
    <3> SUFFICES ASSUME NEW x \in O \cup {op} PROVE Known(d, k, x.id.check)'
      BY <1>5
    <3>1. CASE x = op
      <4>1. x.id.check = c
        BY <1>2, <1>5, <3>1
      <4> QED BY <2>4, <4>1
    <3>2. CASE x \in O
      BY <1>7, <2>1, <2>3, <3>2
    <3> QED BY <3>1, <3>2
  <2>6. \A x \in Checks : view'[d][x] # Absent => Known(d, k, x)'
    <3> SUFFICES ASSUME NEW x \in Checks, view'[d][x] # Absent PROVE Known(d, k, x)'
      OBVIOUS
    <3>1. CASE x = c
      BY <2>4, <3>1
    <3>2. CASE x # c
      <4>1. view'[d][x] = view[d][x]
        BY <1>2, <1>6, <1>7, <3>2 DEF Apply, Docs
      <4> QED BY <1>7, <2>1, <2>3, <4>1 DEF KnownRows
    <3> QED BY <3>1, <3>2
  <2>7. /\ \A x \in Checks : h.cp.state[x] # Absent => Known(d, k, x)'
        /\ sync[d].stage = "apply" => \A x \in Checks : sync[d].doc[x] # Absent => Known(d, k, x)'
    BY <1>7, <2>1, <2>3 DEF KnownRows
  <2>8. \A x : Known(d, k, x)' <=> Known(d, Base(disk[d]).revision, x)'
    BY <1>6 DEF Known
  <2>9. ASSUME sync[d].stage = "commit"
        PROVE  \A x \in Checks : sync[d].cp.state[x] # Absent => Known(d, sync[d].row.revision, x)'
    <3> PICK m : m = sync[d].row.revision
      OBVIOUS
    <3>1. HasVersion(m, sync[d].row.doc)
      BY <1>7, <2>9 DEF RoundOk
    <3>2. m \in Nat /\ m <= Revision
      BY <1>7, <3>1 DEF HasVersion
    <3>3. \A x \in Checks : sync[d].cp.state[x] # Absent => Known(d, m, x)'
      BY <2>1, <2>3, <2>9, <3>2 DEF KnownRows
    <3>4. \A x : Known(d, m, x)' <=> Known(d, sync[d].row.revision, x)'
      BY <1>6 DEF Known
    <3> QED BY <1>6, <3>3, <3>4
  <2>10. /\ \A x \in Line(d)' : Known(d, Base(disk[d]).revision, x.id.check)'
         /\ KnownRows(d, Base(disk[d]).revision, view[d])'
         /\ KnownRows(d, Base(disk[d]).revision, disk[d].cp.state)'
         /\ sync'[d].stage = "apply" => KnownRows(d, Base(disk[d]).revision, sync[d].doc)'
    BY <1>6, <2>5, <2>6, <2>7, <2>8 DEF KnownRows
  <2>11. sync'[d].stage = "commit" => KnownRows(d, sync[d].row.revision, sync[d].cp.state)'
    BY <1>6, <2>9 DEF KnownRows
  <2> QED BY <2>10, <2>11 DEF KnownOk
<1>11. InConflict(d)' <=> InConflict(d)
  BY <1>6 DEF InConflict
<1>12. Shown(d)' <=> Shown(d)
  BY <1>6 DEF Shown
\* What was made before the edit.
<1>13. \A from \in Int, to \in Int : \A base, doc :
          /\ to <= n /\ Made(O, from, to, base, doc) => Made(O \cup {op}, from, to, base, doc)
          /\ to <= n /\ Keeps(O, from, to, doc) => Keeps(O \cup {op}, from, to, doc)
  <2> SUFFICES ASSUME NEW from \in Int, NEW to \in Int, NEW base, NEW doc, to <= n
               PROVE  /\ Made(O, from, to, base, doc) => Made(O \cup {op}, from, to, base, doc)
                      /\ Keeps(O, from, to, doc) => Keeps(O \cup {op}, from, to, doc)
    OBVIOUS
  <2>1. op.seq > to
    BY <1>5, <1>7
  <2> QED BY <1>5, <1>7, <2>1, GrowsMade, GrowsKeeps
\* What the edit makes of what was shown.
<1>14. ASSUME NEW from \in Int, from <= n + 1, NEW base, Apart(O, from, base), Made(O, from, n, base, view[d])
       PROVE  Made(O \cup {op}, from, n + 1, base, view'[d])
  <2>1. op.id.over = view[d][op.id.check] /\ (op.id.kind # "insert" => view[d][op.id.check] # Absent)
    BY <1>1, <1>2, <1>5
  <2>2. Made(O \cup {op}, from, n + 1, base, Apply(view[d], op.id))
    BY <1>5, <1>7, <1>14, <2>1, EditMade
  <2> QED BY <1>5, <1>6, <2>2
<1>15. CpMade(d)'
  <2>1. /\ Keeps(O, b.ackSeq + 1, h.cp.seq, h.cp.state)
        /\ ~InConflict(d) => Made(O, b.ackSeq + 1, h.cp.seq, b.state, h.cp.state)
    BY <1>8 DEF CpMade
  <2>2. b.ackSeq + 1 \in Int /\ h.cp.seq \in Int /\ h.cp.seq <= n
    BY <1>7
  <2>3. /\ Keeps(O \cup {op}, b.ackSeq + 1, h.cp.seq, h.cp.state)
        /\ ~InConflict(d) => Made(O \cup {op}, b.ackSeq + 1, h.cp.seq, b.state, h.cp.state)
    BY <1>13, <2>1, <2>2
  <2> QED BY <1>5, <1>6, <1>11, <2>3 DEF CpMade
<1>16. FlightMade(d)'
  <2> SUFFICES ASSUME NEW f \in h.flight
               PROVE  /\ Shown(d)
                      /\ Made(O \cup {op}, f.startSeq, f.endSeq, b.state, f.snapshot)
                      /\ Made(O \cup {op}, f.endSeq + 1, n + 1, f.snapshot, view'[d])
    BY <1>5, <1>6, <1>12 DEF FlightMade
  <2>1. /\ Shown(d) /\ Made(O, f.startSeq, f.endSeq, b.state, f.snapshot)
        /\ Made(O, f.endSeq + 1, n, f.snapshot, view[d])
    BY <1>8 DEF FlightMade
  <2>2. f.startSeq \in Nat /\ f.endSeq \in Nat /\ f.endSeq <= h.seq
    BY <1>7, HeadTyped, FlightTyped DEF FlightOk
  <2>3. f.startSeq \in Int /\ f.endSeq \in Int /\ f.endSeq <= n /\ f.endSeq + 1 \in Int /\ f.endSeq + 1 <= n + 1
    BY <1>7, <2>2
  <2>4. Apart(O, f.endSeq + 1, f.snapshot)
    BY <1>3, <1>8, FlightApart
  <2> QED BY <1>13, <1>14, <2>1, <2>3, <2>4
<1>17. ViewMade(d)'
  <2>1. /\ Shown(d) => Recovered(d).ok /\ Recovered(d).doc = view[d]
        /\ Shown(d) /\ ~InConflict(d) => Made(O, b.ackSeq + 1, n, b.state, view[d])
        /\ sync[d].stage = "apply" => sync[d].seq <= n
        /\ sync[d].stage \in {"publish", "apply"} => \A x \in O : x.seq > h.cp.seq => x.id.early
    BY <1>8 DEF ViewMade
  <2>2. ASSUME Shown(d) PROVE Recovered(d)'.ok /\ Recovered(d)'.doc = view'[d]
    <3>1. e.kind = "insert" => view[d][e.check] = Absent
      BY <1>1, <1>2, <1>3, UnknownCheck
    <3>2. Fits(view[d], e)
      BY <1>1, <1>2, <3>1, EditFits
    <3>3. Recovered(d)' = [ok |-> TRUE, doc |-> Apply(view[d], e)]
      BY <1>5, <2>1, <2>2, <3>2
    <3> QED BY <1>6, <3>3
  <2>3. ASSUME Shown(d), ~InConflict(d) PROVE Made(O \cup {op}, b.ackSeq + 1, n + 1, b.state, view'[d])
    <3>1. Apart(O, b.ackSeq + 1, b.state)
      BY <1>3, <1>8, BaseApart
    <3>2. b.ackSeq + 1 \in Int /\ b.ackSeq + 1 <= n + 1
      BY <1>7
    <3> QED BY <1>14, <2>1, <2>3, <3>1, <3>2
  <2>4. sync[d].stage = "apply" => sync[d].seq <= n + 1 /\ sync[d].seq # n + 1
    <3>1. sync[d].stage = "apply" => sync[d].seq \in Nat
      BY <1>7 DEF SyncSet, Plain, Calling, Merging, Committing, Applying, Adopting
    <3> QED BY <1>7, <2>1, <3>1
  <2>5. sync[d].stage \in {"publish", "apply"} => \A x \in O \cup {op} : x.seq > h.cp.seq => x.id.early
    BY <1>2, <1>5, <2>1
  <2> QED BY <1>5, <1>6, <1>11, <1>12, <2>2, <2>3, <2>4, <2>5 DEF ViewMade
<1>18. MergeMade(d)'
  <2> SUFFICES ASSUME sync[d].stage = "commit" PROVE MergeMade(d)'
    BY <1>6 DEF MergeMade
  <2> PICK s : s = sync[d]
    OBVIOUS
  <2> PICK from : from = IF s.rejected THEN b.ackSeq + 1 ELSE s.flight.endSeq + 1
    OBVIOUS
  <2>1. /\ s.cp.seq <= h.seq /\ Keeps(O, from, s.cp.seq, s.cp.state)
        /\ s.control = {} => Made(O, from, s.cp.seq, s.row.doc, s.cp.state)
    BY <1>8 DEF MergeMade
  <2>2. s.cp \in Points /\ s.flight \in FlightSet
    BY <1>7, RoundTyped
  <2>3. s.cp.seq \in Int /\ from \in Int /\ s.cp.seq <= n
    <3>1. s.cp.seq \in Nat /\ s.flight.endSeq \in Nat
      BY <2>2, FlightTyped DEF Points
    <3> QED BY <1>7, <2>1, <3>1
  <2>4. /\ Keeps(O \cup {op}, from, s.cp.seq, s.cp.state)
        /\ s.control = {} => Made(O \cup {op}, from, s.cp.seq, s.row.doc, s.cp.state)
    BY <1>13, <2>1, <2>3
  <2> QED BY <1>5, <1>6, <2>1, <2>4 DEF MergeMade
<1>19. RowsOk(d)'
  BY <1>9, <1>10, <1>15, <1>16, <1>17, <1>18 DEF RowsOk
<1>20. \A x \in Devices : RowsOk(x)'
  BY <1>4, <1>19, OthersStay
<1> QED BY <1>5, <1>20 DEF RowsInv

-----------------------------------------------------------------------------
(* A flight goes out. *)

LEMMA KnownSame ==
    ASSUME server' = server, NEW d, Line(d)' = Line(d), NEW n, NEW c
    PROVE  Known(d, n, c)' <=> Known(d, n, c)
BY DEF Known

LEMMA KnownOver ==
    ASSUME NEW d, NEW n \in Nat, NEW m \in Nat, n <= m, NEW c, Known(d, n, c)
    PROVE  Known(d, m, c)
BY DEF Known

LEMMA KnownKept ==
    ASSUME server' = server, NEW d, Line(d)' = Line(d), NEW n, Base(disk'[d]).revision = n,
           \A op \in Line(d) : Known(d, n, op.id.check),
           NEW shown, view'[d] = shown, KnownRows(d, n, shown),
           NEW state, disk'[d].cp.state = state, KnownRows(d, n, state),
           NEW s, sync'[d] = s, s.stage = "apply" => KnownRows(d, n, s.doc),
           s.stage = "commit" => KnownRows(d, s.row.revision, s.cp.state)
    PROVE  KnownOk(d)'
<1>1. \A m, c : Known(d, m, c)' <=> Known(d, m, c)
  BY KnownSame
<1>2. \A m, doc : KnownRows(d, m, doc)' <=> KnownRows(d, m, doc)
  BY <1>1 DEF KnownRows
<1>3. /\ \A op \in Line(d)' : Known(d, n, op.id.check)'
      /\ KnownRows(d, n, shown)' /\ KnownRows(d, n, state)'
      /\ s.stage = "apply" => KnownRows(d, n, s.doc)'
      /\ s.stage = "commit" => KnownRows(d, s.row.revision, s.cp.state)'
  BY <1>1, <1>2
<1> QED BY <1>3 DEF KnownOk, KnownRows, Known

\* The flight a device makes is new to the server.
LEMMA NewFlight ==
    ASSUME IInv, OperationsSent, NEW d \in Devices, ~New(d), disk[d].flight = {}, NEW f,
           f.operationId = <<d, f.baseRevision, f.startSeq>>, f.baseRevision = Base(disk[d]).revision
    PROVE  f.operationId \notin server.operations
<1> SUFFICES ASSUME f.operationId \in server.operations PROVE FALSE
  OBVIOUS
<1>1. PICK r \in requests : f.operationId = r.flight.operationId
  BY DEF OperationsSent
<1>2. RequestOk(r)
  BY DEF IInv, Safe
<1>3. r.device = d /\ r.flight.baseRevision = Base(disk[d]).revision
  BY <1>1, <1>2 DEF RequestOk
<1>4. disk[d].flight = {r.flight}
  BY <1>2, <1>3 DEF RequestOk
<1> QED BY <1>4

LEMMA UploadRows ==
    ASSUME IInv, RowsInv, NEW d \in Devices, Upload(d)
    PROVE  RowsInv'
<1> PICK h : h = disk[d]
  OBVIOUS
<1> PICK b : b = Base(h)
  OBVIOUS
<1> PICK f : f = IF h.flight # {} THEN Flight(h)
                 ELSE [operationId  |-> <<d, Base(h).revision, Base(h).ackSeq + 1>>,
                       baseRevision |-> Base(h).revision,
                       startSeq |-> Base(h).ackSeq + 1, endSeq |-> h.seq,
                       snapshot |-> Recovered(d).doc]
  OBVIOUS
<1> PICK r : r = [device |-> d, flight |-> f, deletes |-> DeleteIntents(h, f.startSeq, f.endSeq)]
  OBVIOUS
<1> PICK g : g = [h EXCEPT !.flight = {f}]
  OBVIOUS
<1> PICK s : s = [stage |-> "rpc", flight |-> f]
  OBVIOUS
<1>0. /\ ~New(d) /\ ~InConflict(d) /\ sync[d].stage = "idle" /\ Shown(d)
      /\ UNCHANGED <<server, log, view, edited>>
  BY DEF Upload, MaySync, Idle, New, Shown
<1>1. CASE ~(h.flight # {} \/ log[d] = <<>>)
  BY <1>1, QuietHalves
<1>2. CASE h.flight # {} \/ log[d] = <<>>
  <2>1. /\ BeginFlightOk(h, Epoch, d, f) /\ disk' = [disk EXCEPT ![d] = g]
        /\ requests' = requests \cup {r} /\ sync' = [sync EXCEPT ![d] = s]
    BY <1>2 DEF Upload, BeginFlight
  <2>2. /\ f \in FlightSet /\ f.operationId = <<d, f.baseRevision, f.startSeq>>
        /\ f.baseRevision = b.revision /\ f.startSeq = b.ackSeq + 1
        /\ h.flight \in {{}, {f}}
    BY <1>0, <1>2, <2>1, UploadFlight
  <2>3. h \in HeadSet
    BY <1>0, DeviceFacts
  <2>4. /\ g.flight = {f} /\ g.seq = h.seq /\ g.cp = h.cp /\ g.journal = h.journal
        /\ g.base = h.base /\ g.control = h.control
    BY <2>3 DEF HeadSet
  <2>5. /\ disk'[d] = g /\ sync'[d] = s /\ log'[d] = log[d] /\ view'[d] = view[d]
        /\ StepOf(d) /\ s.stage = "rpc" /\ ~New(d)' /\ Shown(d)'
    <3>1. /\ disk'[d] = g /\ sync'[d] = s /\ log'[d] = log[d] /\ view'[d] = view[d]
          /\ disk' = [disk EXCEPT ![d] = disk'[d]] /\ sync' = [sync EXCEPT ![d] = sync'[d]]
          /\ log' = [log EXCEPT ![d] = log'[d]] /\ view' = [view EXCEPT ![d] = view'[d]]
          /\ s.stage = "rpc" /\ r.device = d
      BY <1>0, <2>1 DEF IInv, Typed
    <3>2. requests \subseteq requests' /\ \A q \in requests' : q \in requests \/ q.device = d
      BY <2>1, <3>1
    <3> QED BY <1>0, <3>1, <3>2 DEF StepOf, Shown, New
  <2>6. InConflict(d)' <=> InConflict(d)
    BY <2>4, <2>5 DEF InConflict
  <2>7. CASE h.flight = {f}
    <3>1. /\ disk'[d].cp = disk[d].cp /\ disk'[d].base = disk[d].base
          /\ disk'[d].flight = disk[d].flight /\ disk'[d].seq = disk[d].seq
          /\ disk'[d].journal = disk[d].journal /\ sync'[d].stage = "rpc"
      BY <2>4, <2>5, <2>7
    <3> QED BY <1>0, <2>5, <2>6, <3>1, QuietRows
  <2>8. CASE h.flight = {}
    <3>1. log[d] = <<>> /\ f.endSeq = h.seq /\ f.snapshot = Recovered(d).doc
      BY <1>2, <2>8
    <3>2. Line(d)' = Line(d) /\ StoreSeq(d)' = StoreSeq(d) /\ Recovered(d)' = Recovered(d)
      BY <2>4, <2>5, LineSame, RecoveredSame
    <3>3. /\ AcceptedOk(d) /\ KnownOk(d) /\ CpMade(d) /\ ViewMade(d) /\ OperationsSent
      BY <1>0 DEF RowsInv, RowsOk
    <3>4. AcceptedOk(d)'
      <4>1. f.operationId \notin server'.operations
        BY <1>0, <2>2, <2>8, <3>3, NewFlight
      <4>2. disk'[d].flight = {f} /\ sync'[d].stage \notin {"integrate", "commit"}
        BY <2>4, <2>5
      <4> QED BY <4>1, <4>2 DEF AcceptedOk
    <3>5. Base(disk'[d]) = b
      BY <2>4, <2>5 DEF Base
    <3>6. KnownOk(d)'
      <4> PICK n : n = b.revision
        OBVIOUS
      <4> PICK shown : shown = view[d]
        OBVIOUS
      <4> PICK state : state = h.cp.state
        OBVIOUS
      <4>1. /\ \A op \in Line(d) : Known(d, n, op.id.check)
            /\ KnownRows(d, n, shown) /\ KnownRows(d, n, state)
        BY <3>3 DEF KnownOk
      <4>2. /\ Base(disk'[d]).revision = n /\ view'[d] = shown /\ disk'[d].cp.state = state
            /\ s.stage \notin {"apply", "commit"} /\ server' = server
        BY <1>0, <2>4, <2>5, <3>5
      <4> QED BY <2>5, <3>2, <4>1, <4>2, KnownKept
    <3>7. CpMade(d)'
      BY <2>4, <2>5, <2>6, <3>2, <3>3, <3>5 DEF CpMade
    <3>8. ViewMade(d)'
      BY <1>0, <2>4, <2>5, <2>6, <3>2, <3>3, <3>5 DEF ViewMade
    <3>9. MergeMade(d)'
      BY <2>5 DEF MergeMade
    <3>10. FlightMade(d)'
      <4>1. StoreSeq(d) \in Nat /\ StoreSeq(d) = h.seq
        BY <1>0, <3>1, LineTyped
      <4>2. /\ Made(Line(d), b.ackSeq + 1, StoreSeq(d), b.state, view[d])
            /\ view[d] = f.snapshot
        BY <1>0, <3>1, <3>3 DEF ViewMade
      <4>3. Made(Line(d), f.startSeq, f.endSeq, b.state, f.snapshot)
        BY <2>2, <3>1, <4>1, <4>2
      <4>4. Made(Line(d), f.endSeq + 1, StoreSeq(d), f.snapshot, f.snapshot)
        <5> PICK n : n = StoreSeq(d)
          OBVIOUS
        <5>1. n + 1 \in Int /\ n \in Int /\ n < n + 1
          BY <4>1
        <5>2. Made(Line(d), n + 1, n, f.snapshot, f.snapshot)
          BY <5>1, EmptyMade
        <5> QED BY <3>1, <4>1, <5>2
      <4> QED BY <2>4, <2>5, <3>2, <3>5, <4>2, <4>3, <4>4 DEF FlightMade
    <3>11. RowsOk(d)'
      BY <3>4, <3>6, <3>7, <3>8, <3>9, <3>10 DEF RowsOk
    <3>12. disk[d].journal \subseteq disk'[d].journal
      BY <2>4, <2>5
    <3> QED BY <1>0, <2>5, <3>2, <3>11, <3>12, StepRows
  <2> QED BY <2>2, <2>7, <2>8
<1> QED BY <1>1, <1>2

-----------------------------------------------------------------------------
(* The answer is merged. *)

\* What integrate() merges against, and from where it counts the device's operations.
MergesFrom(d, base, from) ==
    /\ base = IF sync[d].rejected THEN Base(disk[d]).state ELSE sync[d].flight.snapshot
    /\ from = IF sync[d].rejected THEN Base(disk[d]).ackSeq + 1 ELSE sync[d].flight.endSeq + 1

\* What the merge starts from: the document the screen differs from by the operations
\* after it, and a row of the server that brings nothing back.
LEMMA MergeStart ==
    ASSUME IInv, RowsInv, NEW d \in Devices, sync[d].stage = "integrate", BelievedRow(sync[d]),
           NEW base, NEW from, MergesFrom(d, base, from)
    PROVE  /\ base \in Docs /\ from \in Int
           /\ Apart(Line(d), from, base) /\ Made(Line(d), from, StoreSeq(d), base, view[d])
           /\ \A op \in Line(d) : op.seq >= from /\ base[op.id.check] = Absent =>
                 sync[d].row.doc[op.id.check] = Absent
<1> PICK b : b = Base(disk[d])
  OBVIOUS
<1> PICK f : f = sync[d].flight
  OBVIOUS
<1> PICK row : row = sync[d].row
  OBVIOUS
<1>0. ~New(d) /\ Shown(d) /\ Edits /\ Introduced /\ RowsLanded
  BY DEF New, Shown, RowsInv
<1>1. /\ disk[d] \in HeadSet /\ sync[d] \in SyncSet /\ b \in BaseSet
      /\ BaseOk(d) /\ FlightOk(d) /\ RoundOk(d) /\ ConflictOk(d)
  BY <1>0, DeviceFacts
<1>2. /\ ~InConflict(d) /\ disk[d].flight = {f} /\ HasVersion(row.revision, row.doc)
  BY <1>1 DEF ConflictOk, RoundOk
<1>3. /\ f \in FlightSet /\ f.endSeq \in Nat /\ f.snapshot \in Docs /\ row.revision \in Nat
      /\ b.ackSeq \in Nat /\ b.revision \in Nat /\ b.state \in Docs
  BY <1>1, RoundTyped, FlightTyped DEF BaseSet
<1>4. f.baseRevision = b.revision /\ row.revision > b.revision
  BY <1>1, <1>2 DEF FlightOk, BelievedRow
<1>5. /\ row.revision \in 1..Revision /\ row.doc = server.versions[row.revision].doc
      /\ Revision \in Nat /\ b.revision \in 1..Revision /\ b.state = server.versions[b.revision].doc
  <2>1. Revision \in Nat
    BY VersionsTyped DEF IInv
  <2> QED BY <1>1, <1>2, <2>1 DEF HasVersion, BaseOk
<1>6. /\ AcceptedOk(d) /\ KnownOk(d) /\ FlightMade(d) /\ ViewMade(d)
  BY <1>0 DEF RowsInv, RowsOk
\* A flight of the device that lands on its own revision is the one it waits for.
<1>7. ASSUME NEW i \in 1..Revision, NEW r \in server.versions[i].by, r.device = d,
             r.flight.baseRevision = b.revision
      PROVE  r.flight = f /\ r \in requests /\ Landed(r)
  <2>1. r \in requests /\ Landed(r) /\ RequestOk(r)
    BY VersionFacts
  <2>2. disk[d].flight = {r.flight}
    BY <1>7, <2>1 DEF RequestOk
  <2> QED BY <1>2, <2>1, <2>2
<1>8. CASE sync[d].rejected
  <2>1. base = b.state /\ from = b.ackSeq + 1
    BY <1>8 DEF MergesFrom
  <2>2. Apart(Line(d), from, base) /\ Made(Line(d), from, StoreSeq(d), base, view[d])
    BY <1>0, <1>2, <1>6, <2>1, BaseApart DEF ViewMade
  <2>3. ASSUME NEW op \in Line(d), base[op.id.check] = Absent PROVE row.doc[op.id.check] = Absent
    <3> PICK k : k = b.revision
      OBVIOUS
    <3> PICK c : c = op.id.check
      OBVIOUS
    <3>1. op \in OpSet
      BY <1>0, LineTyped
    <3>2. c \in Checks
      BY <3>1, OpTyped
    <3>3. server.versions[k].doc[c] = Absent /\ k \in 1..Revision /\ Base(disk[d]).revision <= k
      BY <1>3, <1>5, <2>1, <2>3
    <3>4. Known(d, Base(disk[d]).revision, c)
      BY <1>6 DEF KnownOk
    <3>5. ASSUME NEW i \in (k + 1)..Revision, NEW r \in server.versions[i].by, r.device = d
          PROVE  r.flight.baseRevision # Base(disk[d]).revision
      <4> SUFFICES ASSUME r.flight.baseRevision = b.revision PROVE FALSE
        OBVIOUS
      <4>1. i \in 1..Revision
        BY <1>3, <1>5
      <4>2. r.flight = f /\ r \in requests /\ Landed(r)
        BY <1>7, <3>5, <4>1
      <4>3. Refused(d)
        BY <1>8 DEF Refused
      <4> QED BY <1>1, <3>5, <4>2, <4>3 DEF RoundOk
    <3> PICK i : i = row.revision
      OBVIOUS
    <3>6. i \in k..Revision
      BY <1>3, <1>4, <1>5
    <3>7. server.versions[i].doc[c] = Absent
      BY <1>0, <3>2, <3>3, <3>4, <3>5, <3>6, StaysAway
    <3> QED BY <1>5, <3>7
  <2> QED BY <1>3, <2>1, <2>2, <2>3
<1>9. CASE ~sync[d].rejected
  <2>1. base = f.snapshot /\ from = f.endSeq + 1
    BY <1>9 DEF MergesFrom
  <2>2. Apart(Line(d), from, base) /\ Made(Line(d), from, StoreSeq(d), base, view[d])
    <3>1. f \in disk[d].flight
      BY <1>2
    <3>2. Made(Line(d), f.endSeq + 1, StoreSeq(d), f.snapshot, view[d])
      BY <1>6, <3>1 DEF FlightMade
    <3>3. Apart(Line(d), f.endSeq + 1, f.snapshot)
      BY <1>0, <1>6, <3>1, FlightApart
    <3> QED BY <2>1, <3>2, <3>3
  <2>3. PICK k \in 1..row.revision : Accepted(f, k)
    BY <1>6, <1>9 DEF AcceptedOk
  <2>4. /\ k \in b.revision..Revision /\ server.versions[k].doc = f.snapshot
        /\ \A i \in 1..Revision : \A r \in server.versions[i].by :
              r.flight.operationId = f.operationId => i <= k
    BY <1>4, <2>3 DEF Accepted
  <2>5. ASSUME NEW op \in Line(d), base[op.id.check] = Absent PROVE row.doc[op.id.check] = Absent
    <3> PICK c : c = op.id.check
      OBVIOUS
    <3>1. op \in OpSet
      BY <1>0, LineTyped
    <3>2. c \in Checks
      BY <3>1, OpTyped
    <3>3. server.versions[k].doc[c] = Absent /\ k \in 1..Revision /\ Base(disk[d]).revision <= k
      BY <1>3, <1>5, <2>1, <2>4, <2>5
    <3>4. Known(d, Base(disk[d]).revision, c)
      BY <1>6 DEF KnownOk
    <3>5. ASSUME NEW i \in (k + 1)..Revision, NEW r \in server.versions[i].by, r.device = d
          PROVE  r.flight.baseRevision # Base(disk[d]).revision
      <4> SUFFICES ASSUME r.flight.baseRevision = b.revision PROVE FALSE
        OBVIOUS
      <4>1. i \in 1..Revision /\ ~ (i <= k)
        BY <1>5, <3>3
      <4>2. r.flight = f
        BY <1>7, <3>5, <4>1
      <4> QED BY <2>4, <3>5, <4>1, <4>2
    <3> PICK i : i = row.revision
      OBVIOUS
    <3>6. i \in k..Revision
      BY <1>3, <1>5, <2>3
    <3>7. server.versions[i].doc[c] = Absent
      BY <1>0, <3>2, <3>3, <3>4, <3>5, <3>6, StaysAway
    <3> QED BY <1>5, <3>7
  <2> QED BY <1>3, <2>1, <2>2, <2>5
<1> QED BY <1>8, <1>9

LEMMA MergedRow ==
    ASSUME NEW base, NEW local, NEW remote, NEW deletes, NEW merged,
           merged = MergeSharedChecks(base, local, remote, deletes), NEW c \in Checks
    PROVE  merged.checks[c] = remote[c] \/ merged.checks[c] = local[c]
<1> PICK mine : mine = ProtectImplicitDeletes(base, local, deletes)
  OBVIOUS
<1> PICK checks : checks = [x \in Checks |-> IF mine[x] # base[x] THEN mine[x] ELSE remote[x]]
  OBVIOUS
<1>1. mine[c] = base[c] \/ mine[c] = local[c]
  BY DEF ProtectImplicitDeletes
<1>2. merged.checks = checks
  BY DEF MergeSharedChecks
<1>3. checks[c] = IF mine[c] # base[c] THEN mine[c] ELSE remote[c]
  OBVIOUS
<1> QED BY <1>1, <1>2, <1>3

LEMMA MergeRows ==
    ASSUME IInv, RowsInv, NEW d \in Devices, sync[d].stage = "integrate", log[d] = <<>>,
           BelievedRow(sync[d]),
           NEW base, NEW from, MergesFrom(d, base, from),
           NEW merged, merged = MergeSharedChecks(base, Recovered(d).doc, sync[d].row.doc,
                                                  DeleteIntents(disk[d], from, disk[d].seq)),
           NEW state, merged.conflicts = {} => state = merged.checks,
           merged.conflicts # {} => state = Recovered(d).doc
    PROVE  /\ Keeps(Line(d), from, disk[d].seq, state)
           /\ merged.conflicts = {} => Made(Line(d), from, disk[d].seq, sync[d].row.doc, state)
           /\ KnownRows(d, sync[d].row.revision, state)
<1> PICK O : O = Line(d)
  OBVIOUS
<1> PICK n : n = disk[d].seq
  OBVIOUS
<1> PICK row : row = sync[d].row
  OBVIOUS
<1> PICK local : local = view[d]
  OBVIOUS
<1> PICK deletes : deletes = DeleteIntents(disk[d], from, n)
  OBVIOUS
<1>0. ~New(d) /\ Shown(d) /\ Edits
  BY DEF New, Shown, RowsInv
<1>1. /\ base \in Docs /\ from \in Int /\ Apart(O, from, base) /\ Made(O, from, n, base, local)
      /\ \A op \in O : op.seq >= from /\ base[op.id.check] = Absent => row.doc[op.id.check] = Absent
      /\ n = StoreSeq(d)
  <2>1. StoreSeq(d) = n
    BY <1>0, LineTyped
  <2> QED BY <2>1, MergeStart
<1>2. KnownOk(d) /\ ViewMade(d)
  BY <1>0 DEF RowsInv, RowsOk
<1>3. Recovered(d).doc = local
  BY <1>0, <1>2 DEF ViewMade
<1>4. /\ n \in Nat /\ local \in Docs /\ row.doc \in Docs /\ row.revision \in Nat
      /\ HasVersion(row.revision, row.doc) /\ disk[d].flight = {sync[d].flight}
      /\ sync[d].flight.baseRevision = Base(disk[d]).revision /\ Base(disk[d]).revision \in Nat
  <2>1. /\ disk[d] \in HeadSet /\ sync[d] \in SyncSet /\ Base(disk[d]) \in BaseSet /\ view[d] \in Docs
        /\ FlightOk(d) /\ RoundOk(d)
    BY <1>0, DeviceFacts
  <2>2. HasVersion(row.revision, row.doc) /\ disk[d].flight = {sync[d].flight}
    BY <2>1 DEF RoundOk
  <2> QED BY <2>1, <2>2, HeadTyped, RoundTyped DEF FlightOk, BaseSet
<1>5. Ordered(O, n)
  BY <1>0, <1>1, LineOrdered
<1>11. from \in Int /\ n \in Int
  BY <1>1, <1>4
<1>12. row.revision \in 1..row.revision /\ row.doc = server.versions[row.revision].doc
  <2>1. HasVersion(row.revision, row.doc) /\ row.revision \in Nat
    BY <1>4
  <2>2. Revision \in Nat
    BY VersionsTyped DEF IInv
  <2>3. row.revision \in 1..Revision /\ row.doc = server.versions[row.revision].doc
    BY <2>1 DEF HasVersion
  <2>4. row.revision \in 1..Revision /\ Revision \in Nat
    BY <2>2, <2>3
  <2>5. row.revision \in 1..row.revision
    BY ONLY <2>4
  <2> QED BY <2>3, <2>5
<1>6. merged = MergeSharedChecks(base, local, row.doc, deletes)
  BY <1>3
<1>7. ASSUME NEW op \in O, op.seq >= from, op.id.kind = "delete" PROVE op.id.check \in deletes
  <2>1. op.seq \in 1..n
    BY <1>5 DEF Ordered
  <2>2. op \in disk[d].journal
    <3>1. op.seq <= disk[d].seq
      BY <1>4, <2>1
    <3> QED BY <1>0, <3>1, LineTyped
  <2>3. op.seq \in from..n
    BY <1>1, <1>4, <1>7, <2>1
  <2> QED BY <1>7, <2>2, <2>3 DEF DeleteIntents
<1>8. ASSUME merged.conflicts = {} PROVE Made(O, from, n, row.doc, state)
  <2>1. Made(O, from, n, row.doc, merged.checks)
    BY <1>1, <1>4, <1>5, <1>6, <1>7, <1>8, MergedMade
  <2> QED BY <1>8, <2>1
<1>9. Keeps(O, from, n, state)
  <2>1. CASE merged.conflicts = {}
    <3>1. Overlays(O, from, n, row.doc, state)
      BY <1>8, <2>1 DEF Made
    <3> QED BY <1>5, <1>11, <3>1, OverlaysKeeps
  <2>2. CASE merged.conflicts # {}
    <3>1. Overlays(O, from, n, base, local) /\ state = local
      BY <1>1, <1>3, <2>2 DEF Made
    <3> QED BY <1>5, <1>11, <3>1, OverlaysKeeps
  <2> QED BY <2>1, <2>2
<1>10. ASSUME NEW c \in Checks, state[c] # Absent PROVE Known(d, row.revision, c)
  <2>1. CASE local[c] # Absent
    <3> PICK k : k = Base(disk[d]).revision
      OBVIOUS
    <3>1. Known(d, k, c)
      BY <1>2, <2>1 DEF KnownOk, KnownRows
    <3>2. k \in Nat /\ k <= row.revision
      BY <1>4 DEF BelievedRow
    <3> QED BY <1>4, <3>1, <3>2, KnownOver
  <2>2. CASE local[c] = Absent
    <3>1. state[c] = row.doc[c]
      <4>1. state[c] = merged.checks[c]
        BY <1>3, <1>10, <2>2
      <4>2. merged.checks[c] = row.doc[c] \/ merged.checks[c] = local[c]
        BY <1>6, MergedRow
      <4> QED BY <1>10, <2>2, <4>1, <4>2
    <3> QED BY <1>10, <1>12, <3>1 DEF Known
  <2> QED BY <2>1, <2>2
<1> QED BY <1>8, <1>9, <1>10 DEF KnownRows

LEMMA IntegrateRows ==
    ASSUME IInv, RowsInv, NEW d \in Devices, Integrate(d)
    PROVE  RowsInv'
<1>1. CASE ~BelievedRow(sync[d])
  BY <1>1, QuietHalves
<1>2. CASE BelievedRow(sync[d])
  <2> PICK h : h = disk[d]
    OBVIOUS
  <2> PICK o : o = sync[d]
    OBVIOUS
  <2> PICK b : b = Base(h)
    OBVIOUS
  <2>1. PICK base, from, merged, state, control, s :
           /\ MergesFrom(d, base, from)
           /\ merged = MergeSharedChecks(base, Recovered(d).doc, sync[d].row.doc,
                                         DeleteIntents(disk[d], from, disk[d].seq))
           /\ merged.conflicts = {} => state = merged.checks
           /\ merged.conflicts # {} => state = Recovered(d).doc
           /\ control = {} => merged.conflicts = {}
           /\ s.stage = "commit" /\ s.flight = o.flight /\ s.rejected = o.rejected /\ s.row = o.row
           /\ s.cp.seq = h.seq /\ s.cp.state = state /\ s.control = control
           /\ o.stage = "integrate" /\ log[d] = <<>> /\ ~New(d) /\ Shown(d)
           /\ UNCHANGED <<server, requests, disk, log, view, edited>>
           /\ sync' = [sync EXCEPT ![d] = s]
    <3> PICK base : base = IF o.rejected THEN Base(h).state ELSE o.flight.snapshot
      OBVIOUS
    <3> PICK from : from = IF o.rejected THEN Base(h).ackSeq + 1 ELSE o.flight.endSeq + 1
      OBVIOUS
    <3> PICK merged : merged = MergeSharedChecks(base, Recovered(d).doc, o.row.doc,
                                                 DeleteIntents(h, from, h.seq))
      OBVIOUS
    <3> PICK state : state = IF merged.conflicts = {} THEN merged.checks ELSE Recovered(d).doc
      OBVIOUS
    <3> PICK conflict : conflict = [kind |-> "entity-conflict", remoteRevision |-> o.row.revision]
      OBVIOUS
    <3> PICK control : control = IF merged.conflicts = {} THEN {}
                                 ELSE {[retry |-> FALSE, conflict |-> {conflict}]}
      OBVIOUS
    <3> PICK s : s = [stage |-> "commit", flight |-> o.flight, rejected |-> o.rejected,
                      row |-> o.row, cp |-> [seq |-> h.seq, state |-> state], control |-> control]
      OBVIOUS
    <3>1. /\ o.stage = "integrate" /\ log[d] = <<>> /\ ~New(d) /\ Shown(d)
          /\ UNCHANGED <<server, requests, disk, log, view, edited>>
          /\ sync' = [sync EXCEPT ![d] = s]
      BY <1>2 DEF Integrate, New, Shown
    <3>2. /\ s.stage = "commit" /\ s.flight = o.flight /\ s.rejected = o.rejected /\ s.row = o.row
          /\ s.cp.seq = h.seq /\ s.cp.state = state /\ s.control = control
      OBVIOUS
    <3>3. MergesFrom(d, base, from)
      BY DEF MergesFrom
    <3>4. merged = MergeSharedChecks(base, Recovered(d).doc, sync[d].row.doc,
                                     DeleteIntents(disk[d], from, disk[d].seq))
      OBVIOUS
    <3>5. /\ merged.conflicts = {} => state = merged.checks
          /\ merged.conflicts # {} => state = Recovered(d).doc
          /\ control = {} => merged.conflicts = {}
      OBVIOUS
    <3>6. /\ MergesFrom(d, base, from)
          /\ merged = MergeSharedChecks(base, Recovered(d).doc, sync[d].row.doc,
                                        DeleteIntents(disk[d], from, disk[d].seq))
          /\ merged.conflicts = {} => state = merged.checks
          /\ merged.conflicts # {} => state = Recovered(d).doc
          /\ control = {} => merged.conflicts = {}
          /\ s.stage = "commit" /\ s.flight = o.flight /\ s.rejected = o.rejected /\ s.row = o.row
          /\ s.cp.seq = h.seq /\ s.cp.state = state /\ s.control = control
          /\ o.stage = "integrate" /\ log[d] = <<>> /\ ~New(d) /\ Shown(d)
          /\ UNCHANGED <<server, requests, disk, log, view, edited>>
          /\ sync' = [sync EXCEPT ![d] = s]
      BY <3>1, <3>2, <3>3, <3>4, <3>5
    <3> QED BY ONLY <3>6
  <2>2. /\ s.stage = "commit" /\ s.flight = o.flight /\ s.rejected = o.rejected /\ s.row = o.row
        /\ s.cp.seq = h.seq /\ s.cp.state = state /\ s.control = control
    BY <2>1
  <2>3. sync'[d] = s /\ StepOf(d) /\ ~New(d)' /\ Shown(d)'
    <3>1. sync'[d] = s
      BY <2>1 DEF IInv, Typed
    <3> QED BY <2>1, <2>2, <3>1, SameIsStep DEF StepOf, IInv, New, Shown
  <2>4. /\ Keeps(Line(d), from, h.seq, state)
        /\ merged.conflicts = {} => Made(Line(d), from, h.seq, o.row.doc, state)
        /\ KnownRows(d, o.row.revision, state)
    BY <1>2, <2>1, MergeRows
  <2>5. Line(d)' = Line(d) /\ StoreSeq(d)' = StoreSeq(d) /\ Recovered(d)' = Recovered(d)
    BY <2>1, LineSame, RecoveredSame
  <2>6. InConflict(d)' <=> InConflict(d)
    BY <2>1 DEF InConflict
  <2>7. /\ AcceptedOk(d) /\ KnownOk(d) /\ CpMade(d) /\ FlightMade(d) /\ ViewMade(d)
    BY <2>1 DEF RowsInv, RowsOk
  <2>8. AcceptedOk(d)'
    BY <2>1, <2>2, <2>3, <2>7, AcceptedSame
  <2>9. KnownOk(d)'
    <3> PICK n : n = b.revision
      OBVIOUS
    <3> PICK shown : shown = view[d]
      OBVIOUS
    <3> PICK cp : cp = h.cp.state
      OBVIOUS
    <3>1. /\ \A op \in Line(d) : Known(d, n, op.id.check)
          /\ KnownRows(d, n, shown) /\ KnownRows(d, n, cp)
      BY <2>7 DEF KnownOk
    <3>2. /\ Base(disk'[d]).revision = n /\ view'[d] = shown /\ disk'[d].cp.state = cp
          /\ server' = server
      BY <2>1
    <3>3. /\ s.stage = "apply" => KnownRows(d, n, s.doc)
          /\ s.stage = "commit" => KnownRows(d, s.row.revision, s.cp.state)
      BY <2>2, <2>4
    <3> QED BY <2>3, <2>5, <3>1, <3>2, <3>3, KnownKept
  <2>10. CpMade(d)' /\ FlightMade(d)' /\ ViewMade(d)'
    BY <2>1, <2>2, <2>3, <2>5, <2>6, <2>7 DEF CpMade, FlightMade, ViewMade
  <2>11. MergeMade(d)'
    <3>1. from = IF s.rejected THEN Base(disk'[d]).ackSeq + 1 ELSE s.flight.endSeq + 1
      BY <2>1, <2>2 DEF MergesFrom
    <3>2. s.control = {} => merged.conflicts = {}
      BY <2>1, <2>2
    <3>3. h.seq <= h.seq
      <4>1. h.seq \in Nat
        BY <2>1, DeviceFacts, HeadTyped
      <4> QED BY <4>1
    <3>4. /\ s.cp.seq <= disk'[d].seq /\ Keeps(Line(d)', from, s.cp.seq, s.cp.state)
          /\ s.control = {} => Made(Line(d)', from, s.cp.seq, s.row.doc, s.cp.state)
      BY <2>1, <2>2, <2>4, <2>5, <3>2, <3>3
    <3> QED BY <2>3, <3>1, <3>4 DEF MergeMade
  <2>12. RowsOk(d)'
    BY <2>8, <2>9, <2>10, <2>11 DEF RowsOk
  <2> QED BY <2>1, <2>3, <2>5, <2>12, StepRows
<1> QED BY <1>1, <1>2

-----------------------------------------------------------------------------
(* A head is settled at a row of the server. *)

LEMMA SettleRows ==
    ASSUME IInv, RowsInv, NEW d \in Devices, ~New(d), log[d] = <<>>,
           UNCHANGED <<server, requests, log, view, edited>>,
           NEW b, NEW cp, NEW control, NEW g, disk' = [disk EXCEPT ![d] = g],
           g.base = {b}, g.flight = {}, g.control = control, g.cp = cp,
           g.seq = disk[d].seq, g.journal = disk[d].journal,
           NEW s, sync' = [sync EXCEPT ![d] = s], s.stage = "publish",
           cp.seq = disk[d].seq, b.revision \in Nat, Base(disk[d]).revision <= b.revision,
           control # {} => \E c \in control : c.conflict # {},
           KnownRows(d, b.revision, cp.state),
           Keeps(Line(d), b.ackSeq + 1, cp.seq, cp.state),
           control = {} => Made(Line(d), b.ackSeq + 1, cp.seq, b.state, cp.state)
    PROVE  RowsInv'
<1> PICK h : h = disk[d]
  OBVIOUS
<1>1. h \in HeadSet /\ Base(h) \in BaseSet
  BY DeviceFacts
<1>2. /\ g.base = {b} /\ g.flight = {} /\ g.control = control /\ g.cp = cp
      /\ g.seq = h.seq /\ g.journal = h.journal
  OBVIOUS
<1>3. /\ disk'[d] = g /\ sync'[d] = s /\ ~New(d)' /\ StepOf(d) /\ s.stage = "publish"
      /\ log'[d] = log[d] /\ view'[d] = view[d] /\ server' = server
  BY DEF IInv, Typed, StepOf, New
<1>4. Base(disk'[d]) = b
  BY <1>2, <1>3 DEF Base
<1>5. Line(d)' = Line(d) /\ StoreSeq(d)' = StoreSeq(d)
  BY <1>2, <1>3, LineSame
<1>6. KnownOk(d)
  BY DEF RowsInv, RowsOk
<1>7. AcceptedOk(d)' /\ FlightMade(d)' /\ MergeMade(d)'
  BY <1>2, <1>3 DEF AcceptedOk, FlightMade, MergeMade
<1>8. KnownOk(d)'
  <2> PICK n : n = b.revision
    OBVIOUS
  <2> PICK k : k = Base(h).revision
    OBVIOUS
  <2> PICK shown : shown = view[d]
    OBVIOUS
  <2> PICK state : state = cp.state
    OBVIOUS
  <2>1. n \in Nat /\ k \in Nat /\ k <= n
    BY <1>1 DEF BaseSet
  <2>2. /\ \A op \in Line(d) : Known(d, k, op.id.check)
        /\ \A c \in Checks : shown[c] # Absent => Known(d, k, c)
    BY <1>6 DEF KnownOk, KnownRows
  <2>3. \A c : Known(d, k, c) => Known(d, n, c)
    BY <2>1, KnownOver
  <2>4. /\ \A op \in Line(d) : Known(d, n, op.id.check)
        /\ KnownRows(d, n, shown) /\ KnownRows(d, n, state)
    BY <2>2, <2>3 DEF KnownRows
  <2>5. /\ Base(disk'[d]).revision = n /\ view'[d] = shown /\ disk'[d].cp.state = state
        /\ s.stage \notin {"apply", "commit"}
    BY <1>2, <1>3, <1>4
  <2> QED BY <1>3, <1>5, <2>4, <2>5, KnownKept
<1>9. CpMade(d)'
  <2>1. ~InConflict(d)' => control = {}
    BY <1>2, <1>3 DEF InConflict
  <2> QED BY <1>2, <1>3, <1>4, <1>5, <2>1 DEF CpMade
<1>10. ViewMade(d)'
  <2>1. StoreSeq(d) \in Nat /\ StoreSeq(d) = cp.seq /\ \A op \in Line(d) : op.seq \in 1..StoreSeq(d)
    BY LineTyped
  <2>2. \A op \in Line(d) : ~ (op.seq > cp.seq)
    BY <2>1
  <2>3. ~Shown(d)'
    BY <1>3 DEF Shown
  <2> QED BY <1>2, <1>3, <1>5, <2>2, <2>3 DEF ViewMade
<1>11. RowsOk(d)'
  BY <1>7, <1>8, <1>9, <1>10 DEF RowsOk
<1>12. disk[d].journal \subseteq disk'[d].journal /\ edited' = edited
  BY <1>2, <1>3
<1> QED BY <1>3, <1>5, <1>11, <1>12, StepRows

LEMMA CommitAckRows ==
    ASSUME IInv, RowsInv, NEW d \in Devices, CommitAck(d) PROVE RowsInv'
<1> PICK h : h = disk[d]
  OBVIOUS
<1> PICK s : s = sync[d]
  OBVIOUS
<1>1. /\ s.stage = "commit" /\ ~s.rejected /\ ~Stale(d)
      /\ UNCHANGED <<server, requests, log, view, edited>>
  BY DEF CommitAck
<1>2. /\ ~New(d) /\ log[d] = <<>> /\ h.seq = s.cp.seq /\ Base(h) \in BaseSet /\ h \in HeadSet
      /\ MergeOk(d) /\ s.row.revision \in Nat
      /\ s.row.revision > s.flight.baseRevision /\ s.flight.baseRevision = Base(h).revision
  BY <1>1, CommitFacts
<1>3. PICK b, cp, control, g, t :
         /\ b.revision = s.row.revision /\ b.ackSeq = s.flight.endSeq /\ b.state = s.row.doc
         /\ cp = s.cp /\ control = s.control /\ t.stage = "publish"
         /\ g.base = {b} /\ g.flight = {} /\ g.control = control /\ g.cp = cp
         /\ g.seq = disk[d].seq /\ g.journal = disk[d].journal
         /\ disk' = [disk EXCEPT ![d] = g] /\ sync' = [sync EXCEPT ![d] = t]
  <2> PICK b : b = [revision |-> s.row.revision, ackSeq |-> s.flight.endSeq, state |-> s.row.doc]
    OBVIOUS
  <2> PICK t : t = [stage |-> "publish"]
    OBVIOUS
  <2> PICK g : g = [h EXCEPT !.base = {b}, !.flight = {}, !.control = s.control, !.cp = s.cp]
    OBVIOUS
  <2>1. (CHOOSE cp \in {s.cp} : TRUE) = s.cp /\ {s.cp} # {}
    OBVIOUS
  <2>2. Acknowledge(h, b, {s.cp}, s.control) = g
    BY <2>1 DEF Acknowledge
  <2>3. disk' = [disk EXCEPT ![d] = g] /\ sync' = [sync EXCEPT ![d] = t]
    BY <2>2 DEF CommitAck
  <2>4. /\ g.base = {b} /\ g.flight = {} /\ g.control = s.control /\ g.cp = s.cp
        /\ g.seq = h.seq /\ g.journal = h.journal
    BY <1>2 DEF HeadSet
  <2>5. /\ b.revision = s.row.revision /\ b.ackSeq = s.flight.endSeq /\ b.state = s.row.doc
        /\ t.stage = "publish"
    OBVIOUS
  <2> QED BY <2>3, <2>4, <2>5
<1>4. Base(disk[d]).revision <= b.revision /\ b.revision \in Nat /\ cp.seq = disk[d].seq
  BY <1>2, <1>3 DEF BaseSet
<1>5. KnownOk(d) /\ MergeMade(d)
  BY <1>2 DEF RowsInv, RowsOk
<1>6. /\ control # {} => \E c \in control : c.conflict # {}
      /\ KnownRows(d, b.revision, cp.state)
      /\ Keeps(Line(d), b.ackSeq + 1, cp.seq, cp.state)
      /\ control = {} => Made(Line(d), b.ackSeq + 1, cp.seq, b.state, cp.state)
  <2>1. control # {} => \E c \in control : c.conflict # {}
    BY <1>1, <1>2, <1>3 DEF MergeOk
  <2>2. KnownRows(d, s.row.revision, s.cp.state)
    BY <1>1, <1>5 DEF KnownOk
  <2> QED BY <1>1, <1>3, <1>5, <2>1, <2>2 DEF MergeMade
<1> QED BY <1>1, <1>2, <1>3, <1>4, <1>6, SettleRows

LEMMA CommitRejectRows ==
    ASSUME IInv, RowsInv, NEW d \in Devices, CommitReject(d) PROVE RowsInv'
<1> PICK h : h = disk[d]
  OBVIOUS
<1> PICK s : s = sync[d]
  OBVIOUS
<1>1. /\ s.stage = "commit" /\ s.rejected /\ ~Stale(d)
      /\ UNCHANGED <<server, requests, log, view, edited>>
  BY DEF CommitReject
<1>2. /\ ~New(d) /\ log[d] = <<>> /\ h.seq = s.cp.seq /\ Base(h) \in BaseSet /\ h \in HeadSet
      /\ MergeOk(d) /\ s.row.revision \in Nat
      /\ s.row.revision > s.flight.baseRevision /\ s.flight.baseRevision = Base(h).revision
  BY <1>1, CommitFacts
<1>3. PICK b, cp, control, g, t :
         /\ b.revision = s.row.revision /\ b.ackSeq = Base(h).ackSeq /\ b.state = s.row.doc
         /\ cp = s.cp /\ control = s.control /\ t.stage = "publish"
         /\ g.base = {b} /\ g.flight = {} /\ g.control = control /\ g.cp = cp
         /\ g.seq = disk[d].seq /\ g.journal = disk[d].journal
         /\ disk' = [disk EXCEPT ![d] = g] /\ sync' = [sync EXCEPT ![d] = t]
  <2> PICK b : b = [revision |-> s.row.revision, ackSeq |-> Base(h).ackSeq, state |-> s.row.doc]
    OBVIOUS
  <2> PICK t : t = [stage |-> "publish"]
    OBVIOUS
  <2> PICK g : g = [h EXCEPT !.base = {b}, !.flight = {}, !.control = s.control, !.cp = s.cp]
    OBVIOUS
  <2>1. RejectFlight(h, b, s.cp, s.control) = g
    BY <1>2 DEF RejectFlight, HeadSet
  <2>2. disk' = [disk EXCEPT ![d] = g] /\ sync' = [sync EXCEPT ![d] = t]
    BY <2>1 DEF CommitReject
  <2>3. /\ g.base = {b} /\ g.flight = {} /\ g.control = s.control /\ g.cp = s.cp
        /\ g.seq = h.seq /\ g.journal = h.journal
    BY <1>2 DEF HeadSet
  <2>4. /\ b.revision = s.row.revision /\ b.ackSeq = Base(h).ackSeq /\ b.state = s.row.doc
        /\ t.stage = "publish"
    OBVIOUS
  <2> QED BY <2>2, <2>3, <2>4
<1>4. Base(disk[d]).revision <= b.revision /\ b.revision \in Nat /\ cp.seq = disk[d].seq
  BY <1>2, <1>3 DEF BaseSet
<1>5. KnownOk(d) /\ MergeMade(d)
  BY <1>2 DEF RowsInv, RowsOk
<1>6. /\ control # {} => \E c \in control : c.conflict # {}
      /\ KnownRows(d, b.revision, cp.state)
      /\ Keeps(Line(d), b.ackSeq + 1, cp.seq, cp.state)
      /\ control = {} => Made(Line(d), b.ackSeq + 1, cp.seq, b.state, cp.state)
  <2>1. control # {} => \E c \in control : c.conflict # {}
    BY <1>1, <1>2, <1>3 DEF MergeOk
  <2>2. KnownRows(d, s.row.revision, s.cp.state)
    BY <1>1, <1>5 DEF KnownOk
  <2> QED BY <1>1, <1>3, <1>5, <2>1, <2>2 DEF MergeMade
<1>7. /\ g.base = {b} /\ g.flight = {} /\ g.control = control /\ g.cp = cp
      /\ g.seq = disk[d].seq /\ g.journal = disk[d].journal /\ t.stage = "publish"
      /\ disk' = [disk EXCEPT ![d] = g] /\ sync' = [sync EXCEPT ![d] = t]
      /\ ~New(d) /\ log[d] = <<>> /\ UNCHANGED <<server, requests, log, view, edited>>
  BY <1>1, <1>2, <1>3
<1> QED BY <1>4, <1>6, <1>7, SettleRows

LEMMA AdoptRows ==
    ASSUME IInv, RowsInv, NEW d \in Devices, Adopt(d) PROVE RowsInv'
<1> PICK h : h = disk[d]
  OBVIOUS
<1> PICK row : row = sync[d].row
  OBVIOUS
<1>1. /\ sync[d].stage = "adopt" /\ ~New(d)
      /\ UNCHANGED <<server, requests, log, view, edited>>
  BY DEF Adopt, New
<1>2. /\ h \in HeadSet /\ Base(h) \in BaseSet /\ sync[d] \in SyncSet
      /\ RoundOk(d) /\ BaseOk(d)
  BY <1>1, DeviceFacts
<1>3. row.revision \in Nat /\ h.seq \in Nat /\ HasVersion(row.revision, row.doc) /\ Revision \in Nat
  <2>1. row \in RowSet
    BY <1>1, <1>2 DEF SyncSet, Plain, Calling, Merging, Committing, Applying, Adopting
  <2>2. Revision \in Nat
    BY VersionsTyped DEF IInv
  <2> QED BY <1>1, <1>2, <2>1, <2>2, HeadTyped DEF RowSet, RoundOk
<1>4. CASE /\ log[d] = <<>>
           /\ AdoptCloudHeadOk(h, Epoch, d, [seq |-> h.seq, state |-> row.doc],
                  [revision |-> row.revision, ackSeq |-> h.seq, state |-> row.doc])
  <2>1. PICK b, cp, control, g, t :
           /\ b.revision = row.revision /\ b.ackSeq = h.seq /\ b.state = row.doc
           /\ cp.seq = disk[d].seq /\ cp.state = row.doc /\ control = {} /\ t.stage = "publish"
           /\ g.base = {b} /\ g.flight = {} /\ g.control = control /\ g.cp = cp
           /\ g.seq = disk[d].seq /\ g.journal = disk[d].journal
           /\ disk' = [disk EXCEPT ![d] = g] /\ sync' = [sync EXCEPT ![d] = t]
           /\ log[d] = <<>> /\ Base(disk[d]).revision <= b.revision
    <3> PICK cp : cp = [seq |-> h.seq, state |-> row.doc]
      OBVIOUS
    <3> PICK b : b = [revision |-> row.revision, ackSeq |-> h.seq, state |-> row.doc]
      OBVIOUS
    <3> PICK t : t = [stage |-> "publish"]
      OBVIOUS
    <3> PICK g : g = AdoptCloudHead(h, cp, b)
      OBVIOUS
    <3>1. /\ disk' = [disk EXCEPT ![d] = g] /\ sync' = [sync EXCEPT ![d] = t]
          /\ log[d] = <<>> /\ AdoptCloudHeadOk(h, Epoch, d, cp, b)
      BY <1>4 DEF Adopt
    <3>2. h.flight = {} /\ Base(h).revision <= row.revision
      <4>1. h.flight = {} /\ \E x \in h.base : x.ackSeq = h.seq /\ b.revision >= x.revision
        BY <3>1 DEF AdoptCloudHeadOk
      <4>2. h.base = {Base(h)} /\ Base(h).revision \in Nat
        BY <1>2 DEF BaseOk, BaseSet
      <4> QED BY <1>3, <4>1, <4>2
    <3>3. /\ g.base = {b} /\ g.flight = {} /\ g.control = {} /\ g.cp = cp
          /\ g.seq = h.seq /\ g.journal = h.journal
      BY <1>2, <3>2 DEF AdoptCloudHead, HeadSet
    <3>4. /\ b.revision = row.revision /\ b.ackSeq = h.seq /\ b.state = row.doc
          /\ cp.seq = h.seq /\ cp.state = row.doc /\ t.stage = "publish"
      OBVIOUS
    <3> PICK control : control = {}
      OBVIOUS
    <3>5. /\ b.revision = row.revision /\ b.ackSeq = h.seq /\ b.state = row.doc
          /\ cp.seq = disk[d].seq /\ cp.state = row.doc /\ control = {} /\ t.stage = "publish"
          /\ g.base = {b} /\ g.flight = {} /\ g.control = control /\ g.cp = cp
          /\ g.seq = disk[d].seq /\ g.journal = disk[d].journal
          /\ disk' = [disk EXCEPT ![d] = g] /\ sync' = [sync EXCEPT ![d] = t]
          /\ log[d] = <<>> /\ Base(disk[d]).revision <= b.revision
      BY <3>1, <3>2, <3>3, <3>4
    <3> QED BY ONLY <3>5
  <2>2. KnownRows(d, b.revision, cp.state)
    <3>1. row.revision \in 1..row.revision /\ row.doc = server.versions[row.revision].doc
      BY <1>3 DEF HasVersion
    <3> QED BY <2>1, <3>1 DEF KnownRows, Known
  <2>3. Made(Line(d), b.ackSeq + 1, cp.seq, b.state, cp.state)
    <3>1. b.ackSeq + 1 \in Int /\ cp.seq \in Int /\ cp.seq < b.ackSeq + 1 /\ b.state = cp.state
      BY <1>3, <2>1
    <3> QED BY <3>1, EmptyMade
  <2>4. Keeps(Line(d), b.ackSeq + 1, cp.seq, cp.state)
    <3>1. \A k : k \notin (b.ackSeq + 1)..cp.seq
      BY <1>3, <2>1
    <3> QED BY <3>1 DEF Keeps, Last
  <2>5. b.revision \in Nat
    BY <1>3, <2>1
  <2> QED BY <1>1, <2>1, <2>2, <2>3, <2>4, <2>5, SettleRows
<1>5. CASE ~(/\ log[d] = <<>>
             /\ AdoptCloudHeadOk(h, Epoch, d, [seq |-> h.seq, state |-> row.doc],
                    [revision |-> row.revision, ackSeq |-> h.seq, state |-> row.doc]))
  <2>1. disk' = disk /\ sync' = [sync EXCEPT ![d] = Idle]
    BY <1>5 DEF Adopt
  <2> QED BY <2>1, QuietHalves
<1> QED BY <1>4, <1>5

-----------------------------------------------------------------------------
(* The screen is published, or the page restarts. *)

\* What a replay brings back is known.
LEMMA ReplayKnown ==
    ASSUME IInv, Edits, NEW d \in Devices, ~New(d), KnownOk(d)
    PROVE  KnownRows(d, Base(disk[d]).revision, Recovered(d).doc)
<1> PICK n : n = Base(disk[d]).revision
  OBVIOUS
<1>1. Overlays(Line(d), disk[d].cp.seq + 1, StoreSeq(d), disk[d].cp.state, Recovered(d).doc)
  BY ReplayOverlays
<1>2. /\ \A op \in Line(d) : Known(d, n, op.id.check)
      /\ KnownRows(d, n, disk[d].cp.state)
  BY DEF KnownOk
<1>3. ASSUME NEW c \in Checks, Recovered(d).doc[c] # Absent PROVE Known(d, n, c)
  <2>1. CASE Recovered(d).doc[c] = disk[d].cp.state[c]
    BY <1>2, <1>3, <2>1 DEF KnownRows
  <2>2. CASE \E op \in Line(d) : op.id.check = c
    BY <1>2, <2>2
  <2> QED BY <1>1, <2>1, <2>2 DEF Overlays
<1> QED BY <1>3 DEF KnownRows

\* A replay of edits made while the screen was behind completes the checkpoint.
LEMMA ReplayMade ==
    ASSUME IInv, RowsInv, NEW d \in Devices, ~New(d), Recovered(d).ok, ~InConflict(d),
           \A op \in Line(d) : op.seq > disk[d].cp.seq => op.id.early
    PROVE  Made(Line(d), Base(disk[d]).ackSeq + 1, StoreSeq(d), Base(disk[d]).state, Recovered(d).doc)
<1>0. Edits /\ RowsLanded /\ CpMade(d)
  BY DEF RowsInv, RowsOk
<1> PICK O : O = Line(d)
  OBVIOUS
<1> PICK n : n = StoreSeq(d)
  OBVIOUS
<1> PICK m : m = disk[d].cp.seq
  OBVIOUS
<1> PICK from : from = Base(disk[d]).ackSeq + 1
  OBVIOUS
<1> PICK base : base = Base(disk[d]).state
  OBVIOUS
<1> PICK cp : cp = disk[d].cp.state
  OBVIOUS
<1> PICK doc : doc = Recovered(d).doc
  OBVIOUS
<1>1. n \in Nat /\ m \in Int /\ from \in Int /\ from <= m + 1 /\ m <= n
  <2>1. n \in Nat /\ m \in Nat /\ m <= disk[d].seq /\ disk[d].seq <= n /\ disk[d].seq \in Nat
    BY LineTyped, LineTail
  <2>2. Base(disk[d]).ackSeq \in Nat /\ Base(disk[d]).ackSeq <= m
    BY DeviceFacts DEF BaseOk, BaseSet
  <2> QED BY <2>1, <2>2
<1>2. Ordered(O, n) /\ Apart(O, from, base)
  BY <1>0, LineOrdered, BaseApart
<1>3. Made(O, from, m, base, cp)
  BY <1>0 DEF CpMade
<1>4. Overlays(O, m + 1, n, cp, doc) /\ Inserts(O, m + 1, n, cp, doc)
  BY <1>0, ReplayOverlays, ReplayInserts
<1>5. \A op \in O : op.seq > m => op.id.early
  OBVIOUS
<1>6. Made(O, from, n, base, doc)
  BY <1>1, <1>2, <1>3, <1>4, <1>5, JoinMade
<1> QED BY <1>6

LEMMA ScreenRows ==
    ASSUME IInv, RowsInv, NEW d \in Devices, ~New(d), UNCHANGED <<server, requests, disk, log, edited>>,
           NEW shown, view' = [view EXCEPT ![d] = shown],
           NEW s, sync' = [sync EXCEPT ![d] = s], s.stage \in {"idle", "publish", "apply", "dead"},
           KnownRows(d, Base(disk[d]).revision, shown),
           s.stage = "apply" => KnownRows(d, Base(disk[d]).revision, s.doc),
           disk[d].flight # {} => s.stage = "idle" /\ Shown(d) /\ shown = view[d],
           s.stage = "idle" => Recovered(d).ok /\ Recovered(d).doc = shown,
           s.stage = "idle" /\ ~InConflict(d) =>
              Made(Line(d), Base(disk[d]).ackSeq + 1, StoreSeq(d), Base(disk[d]).state, shown),
           s.stage = "apply" => s.seq = StoreSeq(d) /\ Recovered(d).ok /\ s.doc = Recovered(d).doc,
           s.stage \in {"publish", "apply"} => \A op \in Line(d) : op.seq > disk[d].cp.seq => op.id.early
    PROVE  RowsInv'
<1>1. disk'[d] = disk[d] /\ log'[d] = log[d] /\ sync'[d] = s /\ view'[d] = shown /\ server' = server
  BY DEF IInv, Typed
<1>2. StepOf(d) /\ edited' = edited /\ disk[d].journal \subseteq disk'[d].journal
  <2>1. disk = [disk EXCEPT ![d] = disk[d]] /\ log = [log EXCEPT ![d] = log[d]]
    BY SameIsStep DEF IInv
  <2> QED BY <1>1, <2>1 DEF StepOf
<1>3. Line(d)' = Line(d) /\ StoreSeq(d)' = StoreSeq(d)
  BY <1>1, LineSame
<1>4. Recovered(d)' = Recovered(d)
  BY <1>1 DEF Recovered, OpAt
<1>5. AcceptedOk(d) /\ KnownOk(d) /\ CpMade(d) /\ FlightMade(d)
  BY DEF RowsInv, RowsOk
<1>6. AcceptedOk(d)'
  BY <1>1, <1>5, AcceptedSame
<1>7. KnownOk(d)'
  <2> PICK n : n = Base(disk[d]).revision
    OBVIOUS
  <2> PICK state : state = disk[d].cp.state
    OBVIOUS
  <2>1. /\ \A op \in Line(d) : Known(d, n, op.id.check)
        /\ KnownRows(d, n, state) /\ KnownRows(d, n, shown)
        /\ s.stage = "apply" => KnownRows(d, n, s.doc)
    BY <1>5 DEF KnownOk
  <2>2. Base(disk'[d]).revision = n /\ disk'[d].cp.state = state /\ s.stage # "commit"
    BY <1>1
  <2> QED BY <1>1, <1>3, <2>1, <2>2, KnownKept
<1>8. CpMade(d)'
  <2>1. InConflict(d)' <=> InConflict(d)
    BY <1>1 DEF InConflict
  <2> QED BY <1>1, <1>3, <1>5, <2>1 DEF CpMade
<1>9. FlightMade(d)'
  <2>1. s.stage = "idle" => Shown(d)'
    BY <1>1 DEF Shown
  <2> QED BY <1>1, <1>3, <1>5, <2>1 DEF FlightMade
<1>10. ViewMade(d)'
  <2>1. InConflict(d)' <=> InConflict(d)
    BY <1>1 DEF InConflict
  <2>2. Shown(d)' <=> s.stage = "idle"
    BY <1>1 DEF Shown
  <2>3. StoreSeq(d) \in Nat
    BY LineTyped
  <2>4. /\ Shown(d)' => Recovered(d)'.ok /\ Recovered(d)'.doc = view'[d]
        /\ Shown(d)' /\ ~InConflict(d)' =>
              Made(Line(d)', Base(disk'[d]).ackSeq + 1, StoreSeq(d)', Base(disk'[d]).state, view'[d])
    BY <1>1, <1>3, <1>4, <2>1, <2>2
  <2>5. /\ sync'[d].stage = "apply" =>
              /\ sync'[d].seq <= StoreSeq(d)'
              /\ sync'[d].seq = StoreSeq(d)' => Recovered(d)'.ok /\ Recovered(d)'.doc = sync'[d].doc
        /\ sync'[d].stage \in {"publish", "apply"} =>
              \A op \in Line(d)' : op.seq > disk'[d].cp.seq => op.id.early
    BY <1>1, <1>3, <1>4, <2>3
  <2> QED BY <2>4, <2>5 DEF ViewMade
<1>11. MergeMade(d)'
  BY <1>1 DEF MergeMade
<1>12. RowsOk(d)'
  BY <1>6, <1>7, <1>8, <1>9, <1>10, <1>11 DEF RowsOk
<1> QED BY <1>2, <1>3, <1>12, StepRows

LEMMA PublishReadRows ==
    ASSUME IInv, RowsInv, NEW d \in Devices, PublishRead(d) PROVE RowsInv'
<1>1. /\ sync[d].stage = "publish" /\ ~New(d)
      /\ UNCHANGED <<server, requests, disk, log, view, edited>>
  BY DEF PublishRead, New
<1>2. /\ Edits /\ KnownOk(d) /\ FlightMade(d) /\ ViewMade(d)
  BY <1>1 DEF RowsInv, RowsOk
<1>3. disk[d].flight = {} /\ \A op \in Line(d) : op.seq > disk[d].cp.seq => op.id.early
  BY <1>1, <1>2 DEF FlightMade, ViewMade, Shown
<1> PICK shown : shown = view[d]
  OBVIOUS
<1>4. view' = [view EXCEPT ![d] = shown] /\ KnownRows(d, Base(disk[d]).revision, shown)
  BY <1>1, <1>2, SameIsStep DEF IInv, KnownOk
<1>5. KnownRows(d, Base(disk[d]).revision, Recovered(d).doc)
  BY <1>1, <1>2, ReplayKnown
<1>6. CASE Recovered(d).ok
  <2>1. PICK s : /\ s.stage = "apply" /\ s.seq = StoreSeq(d) /\ s.doc = Recovered(d).doc
                 /\ sync' = [sync EXCEPT ![d] = s]
    <3> PICK s : s = [stage |-> "apply", seq |-> StoreSeq(d), doc |-> Recovered(d).doc]
      OBVIOUS
    <3>1. sync' = [sync EXCEPT ![d] = s]
      BY <1>6 DEF PublishRead
    <3>2. s.stage = "apply" /\ s.seq = StoreSeq(d) /\ s.doc = Recovered(d).doc
      OBVIOUS
    <3> QED BY <3>1, <3>2
  <2> QED BY <1>1, <1>3, <1>4, <1>5, <1>6, <2>1, ScreenRows
<1>7. CASE ~Recovered(d).ok
  <2>1. PICK s : s.stage = "dead" /\ sync' = [sync EXCEPT ![d] = s]
    <3>1. sync' = [sync EXCEPT ![d] = Dead]
      BY <1>7 DEF PublishRead
    <3> QED BY <3>1 DEF Dead
  <2> QED BY <1>1, <1>3, <1>4, <2>1, ScreenRows
<1> QED BY <1>6, <1>7

LEMMA PublishApplyRows ==
    ASSUME IInv, RowsInv, NEW d \in Devices, PublishApply(d) PROVE RowsInv'
<1>1. /\ sync[d].stage = "apply" /\ ~New(d)
      /\ UNCHANGED <<server, requests, disk, log, edited>>
  BY DEF PublishApply, New
<1>2. /\ Edits /\ KnownOk(d) /\ FlightMade(d) /\ ViewMade(d)
  BY <1>1 DEF RowsInv, RowsOk
<1>3. disk[d].flight = {} /\ \A op \in Line(d) : op.seq > disk[d].cp.seq => op.id.early
  BY <1>1, <1>2 DEF FlightMade, ViewMade, Shown
<1>4. CASE sync[d].seq = StoreSeq(d)
  <2> PICK shown : shown = sync[d].doc
    OBVIOUS
  <2>1. PICK s : s.stage = "idle" /\ sync' = [sync EXCEPT ![d] = s]
    <3>1. sync' = [sync EXCEPT ![d] = Idle]
      BY <1>4 DEF PublishApply
    <3> QED BY <3>1 DEF Idle
  <2>2. view' = [view EXCEPT ![d] = shown]
    BY <1>4 DEF PublishApply
  <2>3. Recovered(d).ok /\ Recovered(d).doc = shown
    BY <1>1, <1>2, <1>4 DEF ViewMade
  <2>4. KnownRows(d, Base(disk[d]).revision, shown)
    BY <1>1, <1>2 DEF KnownOk
  <2>5. ~InConflict(d) =>
           Made(Line(d), Base(disk[d]).ackSeq + 1, StoreSeq(d), Base(disk[d]).state, Recovered(d).doc)
    BY <1>1, <1>3, <2>3, ReplayMade
  <2>6. ~InConflict(d) =>
           Made(Line(d), Base(disk[d]).ackSeq + 1, StoreSeq(d), Base(disk[d]).state, shown)
    BY <2>3, <2>5
  <2> QED BY <1>1, <1>3, <2>1, <2>2, <2>3, <2>4, <2>6, ScreenRows
<1>5. CASE sync[d].seq # StoreSeq(d)
  <2> PICK shown : shown = view[d]
    OBVIOUS
  <2>1. PICK s : s.stage = "publish" /\ sync' = [sync EXCEPT ![d] = s]
    <3>1. sync' = [sync EXCEPT ![d] = [stage |-> "publish"]]
      BY <1>5 DEF PublishApply
    <3> PICK s : s = [stage |-> "publish"]
      OBVIOUS
    <3>2. s.stage = "publish"
      OBVIOUS
    <3> QED BY <3>1, <3>2
  <2>2. view' = view
    BY <1>5 DEF PublishApply
  <2>3. view' = [view EXCEPT ![d] = shown] /\ KnownRows(d, Base(disk[d]).revision, shown)
    BY <1>2, <2>2, SameIsStep DEF IInv, KnownOk
  <2> QED BY <1>1, <1>3, <2>1, <2>3, ScreenRows
<1> QED BY <1>4, <1>5

LEMMA RestartRows ==
    ASSUME IInv, RowsInv, NEW d \in Devices, Restart(d) PROVE RowsInv'
<1>1. /\ ~New(d) /\ sync[d].stage # "dead"
      /\ UNCHANGED <<server, requests, disk, log, edited>>
  BY DEF Restart, New, Active
<1>2. /\ Edits /\ KnownOk(d) /\ FlightMade(d) /\ ViewMade(d)
  BY <1>1 DEF RowsInv, RowsOk
<1>3. KnownRows(d, Base(disk[d]).revision, Recovered(d).doc) /\ KnownRows(d, Base(disk[d]).revision, view[d])
  BY <1>1, <1>2, ReplayKnown DEF KnownOk
<1>4. disk[d].flight # {} => Shown(d) /\ Recovered(d).ok /\ Recovered(d).doc = view[d]
  BY <1>2 DEF FlightMade, ViewMade
<1>5. CASE Recovered(d).ok
  <2> PICK shown : shown = Recovered(d).doc
    OBVIOUS
  <2>1. PICK s : s.stage = "idle" /\ sync' = [sync EXCEPT ![d] = s]
    <3>1. sync' = [sync EXCEPT ![d] = Idle]
      BY <1>5 DEF Restart
    <3> QED BY <3>1 DEF Idle
  <2>2. view' = [view EXCEPT ![d] = shown]
    BY <1>5 DEF Restart
  <2>3. ~InConflict(d) =>
           Made(Line(d), Base(disk[d]).ackSeq + 1, StoreSeq(d), Base(disk[d]).state, Recovered(d).doc)
    <3>1. CASE Shown(d)
      <4>1. Recovered(d).doc = view[d]
        BY <1>2, <3>1 DEF ViewMade
      <4> QED BY <1>2, <3>1, <4>1 DEF ViewMade
    <3>2. CASE ~Shown(d)
      <4>1. \A op \in Line(d) : op.seq > disk[d].cp.seq => op.id.early
        BY <1>1, <1>2, <3>2 DEF Shown, ViewMade, New
      <4> QED BY <1>1, <1>5, <4>1, ReplayMade
    <3> QED BY <3>1, <3>2
  <2>4. ~InConflict(d) =>
           Made(Line(d), Base(disk[d]).ackSeq + 1, StoreSeq(d), Base(disk[d]).state, shown)
    BY <2>3
  <2> QED BY <1>1, <1>3, <1>4, <1>5, <2>1, <2>2, <2>4, ScreenRows
<1>6. CASE ~Recovered(d).ok
  <2> PICK shown : shown = view[d]
    OBVIOUS
  <2>1. PICK s : s.stage = "dead" /\ sync' = [sync EXCEPT ![d] = s]
    <3>1. sync' = [sync EXCEPT ![d] = Dead]
      BY <1>6 DEF Restart
    <3> QED BY <3>1 DEF Dead
  <2>2. view' = [view EXCEPT ![d] = shown]
    <3>1. view' = view
      BY <1>6 DEF Restart
    <3> QED BY <3>1, SameIsStep DEF IInv
  <2> QED BY <1>1, <1>3, <1>4, <1>6, <2>1, <2>2, ScreenRows
<1> QED BY <1>5, <1>6

-----------------------------------------------------------------------------
(* The server processes a request. *)

\* What a version is made of.
LEMMA SavedMade ==
    ASSUME IInv, RowsInv, NEW r \in requests, Saved(r)
    PROVE  /\ r.device \in Devices /\ ~New(r.device) /\ r.flight \in disk[r.device].flight
           /\ r.flight.startSeq \in Nat /\ r.flight.endSeq \in Nat
           /\ r.flight.endSeq <= disk[r.device].seq
           /\ Made(Line(r.device), r.flight.startSeq, r.flight.endSeq,
                   server.versions[Revision].doc, r.flight.snapshot)
<1> PICK d : d = r.device
  OBVIOUS
<1> PICK f : f = r.flight
  OBVIOUS
<1>1. d \in Devices /\ f.startSeq \in Nat /\ f.endSeq \in Nat
  BY RequestTyped DEF IInv
<1>2. ~New(d)
  BY DEF IInv, Safe, RequestOk
<1>3. f.baseRevision = Revision /\ f \in disk[d].flight
  BY SavedIsCurrent
<1>4. FlightOk(d) /\ BaseOk(d)
  BY <1>1, <1>2, DeviceFacts
<1>5. f.endSeq <= disk[d].seq /\ Base(disk[d]).state = server.versions[Revision].doc
  BY <1>3, <1>4 DEF FlightOk, BaseOk, HasVersion
<1>6. FlightMade(d)
  BY <1>1, <1>2 DEF RowsInv, RowsOk
<1>7. Made(Line(d), f.startSeq, f.endSeq, Base(disk[d]).state, f.snapshot)
  BY <1>3, <1>6 DEF FlightMade
<1> QED BY <1>1, <1>2, <1>3, <1>5, <1>7

LEMMA ServedOperations ==
    ASSUME IInv, RowsInv, NEW r \in requests, server' = Save(r), requests' = requests
    PROVE  OperationsSent'
<1>1. server'.operations \subseteq server.operations \cup {r.flight.operationId}
  <2>1. server'.operations = IF Saved(r) \/ Unchanged(r)
                             THEN server.operations \cup {r.flight.operationId}
                             ELSE server.operations
    BY DEF Save
  <2> QED BY <2>1
<1> QED BY <1>1 DEF OperationsSent, RowsInv

\* The versions so far, and the new one if any.
LEMMA ServedVersions ==
    ASSUME IInv, NEW r \in requests, server' = Save(r)
    PROVE  /\ Revision \in Nat /\ Revision' \in Nat /\ Grows
           /\ \A i \in 1..Revision' :
                 \/ i \in 1..Revision /\ server'.versions[i] = server.versions[i]
                 \/ /\ Saved(r) /\ i = Revision + 1 /\ Revision' = Revision + 1
                    /\ server'.versions[i].doc = r.flight.snapshot /\ server'.versions[i].by = {r}
<1>1. Revision \in Nat /\ Revision' \in Nat /\ Grows
  BY SaveStep, VersionStays
<1>2. CASE server'.versions = server.versions
  <2>1. Revision' = Revision
    BY <1>2 DEF Revision
  <2> QED BY <1>1, <1>2, <2>1
<1>3. CASE /\ Saved(r) /\ Revision' = Revision + 1
           /\ server'.versions[Revision'] = [doc |-> r.flight.snapshot, by |-> {r}]
  <2>1. server'.versions[Revision'].doc = r.flight.snapshot /\ server'.versions[Revision'].by = {r}
    BY <1>3
  <2>2. \A i \in 1..Revision' : i \in 1..Revision \/ i = Revision + 1
    BY <1>1, <1>3
  <2> QED BY <1>1, <1>3, <2>1, <2>2 DEF Grows
<1> QED BY <1>2, <1>3, SaveStep

LEMMA ServedIntroduced ==
    ASSUME IInv, RowsInv, NEW r \in requests, server' = Save(r),
           \A x \in Devices : Line(x)' = Line(x)
    PROVE  Introduced'
<1>0. /\ Revision \in Nat /\ Revision' \in Nat /\ Grows
      /\ \A i \in 1..Revision' :
            \/ i \in 1..Revision /\ server'.versions[i] = server.versions[i]
            \/ /\ Saved(r) /\ i = Revision + 1 /\ Revision' = Revision + 1
               /\ server'.versions[i].doc = r.flight.snapshot /\ server'.versions[i].by = {r}
  BY ServedVersions
<1>1. Introduced
  BY DEF RowsInv
<1>2. server'.versions[1].doc = FirstDocument
  <2>1. 1 \in 1..Revision
    BY <1>0 DEF IInv, Typed
  <2> QED BY <1>0, <1>1, <2>1 DEF Introduced, Grows
<1>3. ASSUME NEW i \in 2..Revision', NEW c \in Checks,
             server'.versions[i].doc[c] # Absent, server'.versions[i - 1].doc[c] = Absent
      PROVE  \E q \in server'.versions[i].by : \E op \in Line(q.device)' :
                /\ op.id.kind = "insert" /\ op.id.check = c
                /\ op.seq \in q.flight.startSeq..q.flight.endSeq
  <2>1. i \in 1..Revision' /\ i - 1 \in 1..Revision'
    BY <1>0
  <2>2. CASE i \in 1..Revision /\ server'.versions[i] = server.versions[i]
    <3>1. i \in 2..Revision /\ i - 1 \in 1..Revision
      BY <1>0, <2>2
    <3>2. server'.versions[i - 1] = server.versions[i - 1]
      BY <1>0, <3>1 DEF Grows
    <3>3. PICK q \in server.versions[i].by : \E op \in Line(q.device) :
             /\ op.id.kind = "insert" /\ op.id.check = c
             /\ op.seq \in q.flight.startSeq..q.flight.endSeq
      BY <1>1, <1>3, <2>2, <3>1, <3>2 DEF Introduced
    <3>4. q.device \in Devices
      BY <2>2, VersionFacts
    <3> QED BY <2>2, <3>3, <3>4
  <2>3. CASE /\ Saved(r) /\ i = Revision + 1
             /\ server'.versions[i].doc = r.flight.snapshot /\ server'.versions[i].by = {r}
    <3>1. i - 1 = Revision /\ Revision \in 1..Revision
      BY <1>0, <2>3
    <3>2. server'.versions[i - 1].doc = server.versions[Revision].doc
      BY <1>0, <3>1 DEF Grows
    <3>3. Inserts(Line(r.device), r.flight.startSeq, r.flight.endSeq,
                  server.versions[Revision].doc, r.flight.snapshot) /\ r.device \in Devices
      BY <2>3, SavedMade DEF Made
    <3>4. PICK op \in Line(r.device) :
             op.id.kind = "insert" /\ op.id.check = c /\ op.seq \in r.flight.startSeq..r.flight.endSeq
      BY <1>3, <2>3, <3>2, <3>3 DEF Inserts
    <3> QED BY <2>3, <3>3, <3>4
  <2> QED BY <1>0, <2>1, <2>2, <2>3
<1> QED BY <1>2, <1>3 DEF Introduced

LEMMA ServedLanded ==
    ASSUME IInv, RowsInv, NEW r \in requests, server' = Save(r),
           \A x \in Devices : Line(x)' = Line(x)
    PROVE  RowsLanded'
<1>0. /\ Revision \in Nat /\ Revision' \in Nat /\ Grows
      /\ \A i \in 1..Revision' :
            \/ i \in 1..Revision /\ server'.versions[i] = server.versions[i]
            \/ /\ Saved(r) /\ i = Revision + 1 /\ Revision' = Revision + 1
               /\ server'.versions[i].doc = r.flight.snapshot /\ server'.versions[i].by = {r}
  BY ServedVersions
<1>1. ASSUME NEW i \in 1..Revision, NEW c \in Checks, server.versions[i].doc[c] > 0
      PROVE  \E j \in 1..i : \E q \in server'.versions[j].by : \E op \in Line(q.device)' :
                op.seq <= q.flight.endSeq /\ op.id.n = server.versions[i].doc[c]
  <2>1. PICK j \in 1..i : \E q \in server.versions[j].by : \E op \in Line(q.device) :
           op.seq <= q.flight.endSeq /\ op.id.n = server.versions[i].doc[c]
    BY <1>1 DEF RowsInv, RowsLanded
  <2>2. PICK q \in server.versions[j].by : \E op \in Line(q.device) :
           op.seq <= q.flight.endSeq /\ op.id.n = server.versions[i].doc[c]
    BY <2>1
  <2>3. j \in 1..Revision
    BY <1>0
  <2>4. q.device \in Devices /\ server'.versions[j] = server.versions[j]
    BY <1>0, <2>3, VersionFacts DEF Grows
  <2> QED BY <2>2, <2>4
<1>2. ASSUME NEW i \in 1..Revision', NEW c \in Checks, server'.versions[i].doc[c] > 0
      PROVE  \E j \in 1..i : \E q \in server'.versions[j].by : \E op \in Line(q.device)' :
                op.seq <= q.flight.endSeq /\ op.id.n = server'.versions[i].doc[c]
  <2>1. CASE i \in 1..Revision /\ server'.versions[i] = server.versions[i]
    BY <1>1, <1>2, <2>1
  <2>2. CASE /\ Saved(r) /\ i = Revision + 1
             /\ server'.versions[i].doc = r.flight.snapshot /\ server'.versions[i].by = {r}
    <3>1. /\ r.device \in Devices /\ ~New(r.device)
          /\ Overlays(Line(r.device), r.flight.startSeq, r.flight.endSeq,
                      server.versions[Revision].doc, r.flight.snapshot)
      BY <2>2, SavedMade DEF Made
    <3>2. CASE r.flight.snapshot[c] = server.versions[Revision].doc[c]
      <4> PICK k : k = Revision
        OBVIOUS
      <4>1. k \in 1..Revision /\ 1..k \subseteq 1..i
        BY <1>0, <2>2 DEF IInv, Typed
      <4>2. server.versions[k].doc[c] = server'.versions[i].doc[c]
        BY <2>2, <3>2
      <4>3. PICK j \in 1..k : \E q \in server'.versions[j].by : \E op \in Line(q.device)' :
               op.seq <= q.flight.endSeq /\ op.id.n = server.versions[k].doc[c]
        BY <1>1, <1>2, <4>1, <4>2
      <4> QED BY <4>1, <4>2, <4>3
    <3>3. CASE \E op \in Line(r.device) :
                  /\ Last(Line(r.device), op, r.flight.startSeq, r.flight.endSeq)
                  /\ op.id.check = c /\ r.flight.snapshot[c] = Value(op.id)
      <4>1. PICK op \in Line(r.device) :
               /\ Last(Line(r.device), op, r.flight.startSeq, r.flight.endSeq)
               /\ op.id.check = c /\ r.flight.snapshot[c] = Value(op.id)
        BY <3>3
      <4>2. op \in OpSet
        BY <3>1, LineTyped
      <4>3. op.id.n = server'.versions[i].doc[c]
        BY <1>2, <2>2, <4>1, <4>2, OpTyped DEF Absent
      <4>4. op.seq <= r.flight.endSeq
        BY <4>1, <2>2, SavedMade DEF Last
      <4>5. i \in 1..i /\ r \in server'.versions[i].by /\ op \in Line(r.device)'
        BY <1>0, <2>2, <3>1
      <4> QED BY <4>3, <4>4, <4>5
    <3> QED BY <3>1, <3>2, <3>3 DEF Overlays
  <2> QED BY <1>0, <2>1, <2>2
<1> QED BY <1>2 DEF RowsLanded

LEMMA ServedSeen ==
    ASSUME IInv, RowsInv, NEW r \in requests, server' = Save(r), disk' = disk,
           \A x \in Devices : Line(x)' = Line(x)
    PROVE  SavedSeen'
<1>0. /\ Revision \in Nat /\ Revision' \in Nat /\ Grows
      /\ \A i \in 1..Revision' :
            \/ i \in 1..Revision /\ server'.versions[i] = server.versions[i]
            \/ /\ Saved(r) /\ i = Revision + 1 /\ Revision' = Revision + 1
               /\ server'.versions[i].doc = r.flight.snapshot /\ server'.versions[i].by = {r}
  BY ServedVersions
<1> SUFFICES ASSUME NEW i \in 2..Revision', NEW q \in server'.versions[i].by, NEW c \in Checks,
                    server'.versions[i].doc[c] # server'.versions[i - 1].doc[c]
             PROVE  \E op \in disk'[q.device].journal :
                       /\ First(Line(q.device)', op, q.flight.startSeq) /\ op.id.check = c
                       /\ op.seq <= q.flight.endSeq
                       /\ op.id.over = server'.versions[i - 1].doc[c] \/ op.id.early
  BY DEF SavedSeen
<1>1. i \in 1..Revision' /\ i - 1 \in 1..Revision'
  BY <1>0
<1>2. CASE i \in 1..Revision /\ server'.versions[i] = server.versions[i]
  <2>1. i \in 2..Revision /\ i - 1 \in 1..Revision
    BY <1>0, <1>2
  <2>2. server'.versions[i - 1] = server.versions[i - 1] /\ q \in server.versions[i].by
    BY <1>0, <1>2, <2>1 DEF Grows
  <2>3. q.device \in Devices
    BY <1>2, <2>2, VersionFacts
  <2>4. PICK op \in disk[q.device].journal :
           /\ First(Line(q.device), op, q.flight.startSeq) /\ op.id.check = c
           /\ op.seq <= q.flight.endSeq
           /\ op.id.over = server.versions[i - 1].doc[c] \/ op.id.early
    BY <1>2, <2>1, <2>2 DEF RowsInv, SavedSeen
  <2> QED BY <2>2, <2>3, <2>4
<1>3. CASE /\ Saved(r) /\ i = Revision + 1
           /\ server'.versions[i].doc = r.flight.snapshot /\ server'.versions[i].by = {r}
  <2> PICK d : d = r.device
    OBVIOUS
  <2> PICK f : f = r.flight
    OBVIOUS
  <2> PICK base : base = server.versions[Revision].doc
    OBVIOUS
  <2>1. i - 1 = Revision /\ Revision \in 1..Revision
    BY <1>0, <1>3
  <2>2. server'.versions[i - 1].doc = base /\ q = r /\ f.snapshot[c] # base[c]
    BY <1>0, <1>3, <2>1 DEF Grows
  <2>3. /\ d \in Devices /\ ~New(d) /\ f.startSeq \in Nat /\ f.endSeq \in Nat
        /\ f.endSeq <= disk[d].seq
        /\ Overlays(Line(d), f.startSeq, f.endSeq, base, f.snapshot)
        /\ Sees(Line(d), f.startSeq, base, f.snapshot)
    BY <1>3, SavedMade DEF Made
  <2>4. PICK op \in Line(d) :
           First(Line(d), op, f.startSeq) /\ op.id.check = c /\ (op.id.over = base[c] \/ op.id.early)
    BY <2>2, <2>3 DEF Sees
  <2>5. PICK x \in Line(d) : Last(Line(d), x, f.startSeq, f.endSeq) /\ x.id.check = c
    BY <2>2, <2>3 DEF Overlays
  <2>6. /\ op.seq \in 1..StoreSeq(d) /\ x.seq \in 1..StoreSeq(d) /\ StoreSeq(d) \in Nat
        /\ disk[d].seq \in Nat /\ (op.seq <= disk[d].seq <=> op \in disk[d].journal)
    BY <2>3, LineTyped
  <2>7. x.seq \in f.startSeq..f.endSeq /\ op.seq <= x.seq
    <3>1. x.seq \in f.startSeq..f.endSeq
      BY <2>5 DEF Last
    <3>2. x.seq >= f.startSeq
      BY <2>3, <3>1
    <3> QED BY <2>4, <2>5, <3>1, <3>2 DEF First
  <2>8. op.seq <= f.endSeq /\ op \in disk[d].journal
    BY <2>3, <2>6, <2>7
  <2> QED BY <2>2, <2>3, <2>4, <2>8
<1> QED BY <1>0, <1>1, <1>2, <1>3

\* A flight the server has recorded stays accepted.
LEMMA AcceptedStays ==
    ASSUME IInv, NEW r \in requests, server' = Save(r), NEW f, f.operationId \in server.operations,
           f.baseRevision \in Nat,
           NEW k \in 1..Revision, Accepted(f, k)
    PROVE  Accepted(f, k)'
<1>0. /\ Revision \in Nat /\ Revision' \in Nat /\ Grows
      /\ \A i \in 1..Revision' :
            \/ i \in 1..Revision /\ server'.versions[i] = server.versions[i]
            \/ /\ Saved(r) /\ i = Revision + 1 /\ Revision' = Revision + 1
               /\ server'.versions[i].doc = r.flight.snapshot /\ server'.versions[i].by = {r}
  BY ServedVersions
<1>1. k \in f.baseRevision..Revision /\ server.versions[k].doc = f.snapshot
  BY DEF Accepted
<1>2. k \in f.baseRevision..Revision' /\ server'.versions[k].doc = f.snapshot
  BY <1>0, <1>1 DEF Grows
<1>3. ASSUME NEW i \in 1..Revision', NEW q \in server'.versions[i].by,
             q.flight.operationId = f.operationId
      PROVE  i <= k
  <2>1. CASE i \in 1..Revision /\ server'.versions[i] = server.versions[i]
    BY <1>3, <2>1 DEF Accepted
  <2>2. CASE Saved(r) /\ server'.versions[i].by = {r}
    BY <1>3, <2>2 DEF Saved, Replayed
  <2> QED BY <1>0, <2>1, <2>2
<1> QED BY <1>2, <1>3 DEF Accepted

\* A flight the server records is accepted.
LEMMA FlightAccepted ==
    ASSUME IInv, RowsInv, NEW r \in requests, server' = Save(r), NEW d \in Devices, ~New(d),
           NEW f \in disk[d].flight, f.operationId \in server'.operations
    PROVE  \E k \in 1..Revision' : Accepted(f, k)'
<1>0. /\ Revision \in Nat /\ Revision' \in Nat /\ Grows /\ Revision <= Revision'
      /\ \A i \in 1..Revision' :
            \/ i \in 1..Revision /\ server'.versions[i] = server.versions[i]
            \/ /\ Saved(r) /\ i = Revision + 1 /\ Revision' = Revision + 1
               /\ server'.versions[i].doc = r.flight.snapshot /\ server'.versions[i].by = {r}
  BY ServedVersions DEF Grows
<1>1. /\ FlightOk(d) /\ BaseOk(d) /\ f.baseRevision \in Nat
  BY DeviceFacts, HeadTyped, FlightTyped
<1>2. PICK q \in requests : q.device = d /\ q.flight = f
  BY <1>1 DEF FlightOk
<1>3. /\ f.operationId = <<d, f.baseRevision, f.startSeq>> /\ disk[d].flight = {f}
      /\ f.baseRevision = Base(disk[d]).revision
      /\ Base(disk[d]).revision \in 1..Revision
  BY <1>1, <1>2 DEF FlightOk, BaseOk, HasVersion, IInv, Safe, RequestOk
<1>4. CASE f.operationId \in server.operations
  <2>1. PICK k \in 1..Revision : Accepted(f, k)
    BY <1>4 DEF RowsInv, RowsOk, AcceptedOk
  <2>2. Accepted(f, k)'
    BY <1>1, <1>4, <2>1, AcceptedStays
  <2>3. k \in 1..Revision'
    BY <1>0, <2>1
  <2> QED BY <2>2, <2>3
<1>5. CASE f.operationId \notin server.operations
  <2>1. f.operationId = r.flight.operationId /\ (Saved(r) \/ Unchanged(r))
    <3>1. server'.operations = IF Saved(r) \/ Unchanged(r)
                               THEN server.operations \cup {r.flight.operationId}
                               ELSE server.operations
      BY DEF Save
    <3> QED BY <1>5, <3>1
  <2>2. r.flight = f
    <3>1. RequestOk(r)
      BY DEF IInv, Safe
    <3>2. r.flight.operationId = <<r.device, r.flight.baseRevision, r.flight.startSeq>>
      BY <3>1 DEF RequestOk
    <3>3. r.device = d /\ r.flight.baseRevision = f.baseRevision
      BY <1>3, <2>1, <3>2
    <3>4. disk[d].flight = {r.flight}
      BY <1>3, <3>1, <3>3 DEF RequestOk
    <3> QED BY <1>3, <3>4
  <2>3. CASE Saved(r)
    <3>1. /\ Revision' = Revision + 1 /\ server'.versions[Revision'].doc = f.snapshot
      <4>1. server'.versions # server.versions
        BY <2>3, <1>0 DEF Save, Revision
      <4>2. Revision' = Revision + 1
        BY <4>1, SaveStep
      <4>3. Revision' \in 1..Revision' /\ Revision' \notin 1..Revision
        BY <1>0, <4>2
      <4>4. server'.versions[Revision'].doc = r.flight.snapshot
        BY <1>0, <4>3
      <4> QED BY <2>2, <4>2, <4>4
    <3>2. Revision' \in 1..Revision' /\ Revision' \in f.baseRevision..Revision'
      BY <1>0, <1>1, <1>3, <3>1
    <3>3. \A i \in 1..Revision' : i <= Revision'
      BY <1>0
    <3> PICK k : k = Revision'
      OBVIOUS
    <3>4. Accepted(f, k)'
      BY <3>1, <3>2, <3>3 DEF Accepted
    <3> QED BY <3>2, <3>4
  <2>4. CASE Unchanged(r)
    <3>1. server'.versions = server.versions /\ Revision' = Revision
      BY <2>4 DEF Save, Saved, Revision
    <3>2. server.versions[Revision].doc = f.snapshot
      BY <2>2, <2>4 DEF Unchanged, Document
    <3>3. Revision \in 1..Revision /\ Revision \in f.baseRevision..Revision
      BY <1>0, <1>1, <1>3
    <3> PICK k : k = Revision
      OBVIOUS
    <3>4. Accepted(f, k)'
      BY <3>1, <3>2, <3>3 DEF Accepted
    <3> QED BY <3>1, <3>3, <3>4
  <2> QED BY <2>1, <2>3, <2>4
<1> QED BY <1>4, <1>5

\* A round that was answered.
LEMMA RoundAccepted ==
    ASSUME IInv, RowsInv, NEW r \in requests, server' = Save(r), NEW d \in Devices, ~New(d),
           sync[d].stage \in {"integrate", "commit"}, ~sync[d].rejected
    PROVE  \E k \in 1..sync[d].row.revision : \E f : f = sync[d].flight /\ Accepted(f, k)'
<1> PICK f : f = sync[d].flight
  OBVIOUS
<1>1. RoundOk(d) /\ disk[d] \in HeadSet
  BY DeviceFacts
<1>2. f \in disk[d].flight /\ f.operationId \in server.operations
  BY <1>1 DEF RoundOk
<1>3. f.baseRevision \in Nat
  BY <1>1, <1>2, HeadTyped, FlightTyped
<1>4. PICK k \in 1..sync[d].row.revision : Accepted(f, k)
  BY DEF RowsInv, RowsOk, AcceptedOk
<1>5. k \in 1..Revision
  <2>1. sync[d].row.revision \in 1..Revision /\ Revision \in Nat
    BY <1>1, VersionFacts, ServedVersions DEF RoundOk, HasVersion
  <2> QED BY <1>4, <2>1
<1>6. Accepted(f, k)'
  BY <1>2, <1>3, <1>4, <1>5, AcceptedStays
<1> QED BY <1>4, <1>6

LEMMA ServedGlobal ==
    ASSUME IInv, RowsInv, NEW r \in requests, server' = Save(r),
           UNCHANGED <<requests, disk, log, edited>>
    PROVE  /\ Edits' /\ Introduced' /\ RowsLanded' /\ OperationsSent' /\ SavedSeen'
           /\ \A x \in Devices : Line(x)' = Line(x) /\ StoreSeq(x)' = StoreSeq(x)
<1>1. \A x \in Devices : Line(x)' = Line(x) /\ StoreSeq(x)' = StoreSeq(x)
  BY LineSame
<1>2. Edits'
  BY <1>1 DEF RowsInv, Edits
<1>3. Introduced' /\ RowsLanded' /\ SavedSeen'
  BY <1>1, ServedIntroduced, ServedLanded, ServedSeen
<1> QED BY <1>1, <1>2, <1>3, ServedOperations

\* A device whose round does not hear of it, or goes on without a merge.
LEMMA ServedDevice ==
    ASSUME IInv, RowsInv, NEW r \in requests, server' = Save(r),
           UNCHANGED <<requests, disk, log, view, edited>>, NEW d \in Devices, ~New(d),
           \/ sync'[d] = sync[d]
           \/ /\ Shown(d) /\ Shown(d)' /\ sync'[d].stage # "commit"
              /\ sync'[d].stage = "integrate" =>
                    /\ sync'[d].flight \in disk[d].flight /\ sync'[d].row.revision = Revision'
                    /\ sync'[d].flight.operationId \in server'.operations
    PROVE  RowsOk(d)'
<1>1. \A f \in disk[d].flight :
         f.operationId \in server'.operations => \E k \in 1..Revision' : Accepted(f, k)'
  BY FlightAccepted
<1>2. ASSUME sync'[d].stage \in {"integrate", "commit"}, ~sync'[d].rejected
      PROVE  \E k \in 1..sync'[d].row.revision : Accepted(sync[d].flight, k)'
  <2>1. \E k \in 1..sync'[d].row.revision : \E f : f = sync'[d].flight /\ Accepted(f, k)'
    <3>1. CASE sync'[d] = sync[d]
      BY <1>2, <3>1, RoundAccepted
    <3>2. CASE sync'[d] # sync[d]
      <4>1. /\ sync'[d].flight \in disk[d].flight /\ sync'[d].row.revision = Revision'
            /\ sync'[d].flight.operationId \in server'.operations
        BY <1>2, <3>2
      <4> PICK f \in disk[d].flight : f = sync'[d].flight
        BY <4>1
      <4>2. PICK k \in 1..Revision' : Accepted(f, k)'
        BY <1>1, <4>1
      <4> QED BY <4>1, <4>2
    <3> QED BY <3>1, <3>2
  <2>2. PICK k \in 1..sync'[d].row.revision : \E f : f = sync'[d].flight /\ Accepted(f, k)'
    BY <2>1
  <2>3. PICK f : f = sync'[d].flight /\ Accepted(f, k)'
    BY <2>2
  <2>4. Accepted(sync[d].flight, k)'
    BY <2>3 DEF Accepted
  <2> QED BY <2>4
<1>3. AcceptedOk(d)'
  BY <1>1, <1>2 DEF AcceptedOk
<1>4. /\ disk'[d] = disk[d] /\ log'[d] = log[d] /\ view'[d] = view[d]
      /\ Line(d)' = Line(d) /\ StoreSeq(d)' = StoreSeq(d)
  BY LineSame
<1>5. Recovered(d)' = Recovered(d) /\ (InConflict(d)' <=> InConflict(d))
  BY RecoveredSame DEF InConflict
<1>6. disk[d].seq \in Nat /\ Grows
  BY LineTyped, SaveStep
<1>7. RowsOk(d)
  BY DEF RowsInv
<1>8. disk[d].seq <= disk'[d].seq /\ disk'[d].seq \in Nat
  BY <1>4, <1>6
<1>9. \/ sync'[d] = sync[d]
      \/ Shown(d) /\ Shown(d)' /\ sync'[d].stage # "commit"
  OBVIOUS
<1> QED BY <1>3, <1>4, <1>5, <1>6, <1>7, <1>8, <1>9, DeviceStays

LEMMA ServeRows ==
    ASSUME IInv, RowsInv, NEW r \in requests, Serve(r) PROVE RowsInv'
<1>1. server' = Save(r) /\ UNCHANGED <<requests, disk, log, view, edited>> /\ sync' = sync
  BY DEF Serve
<1>2. /\ Edits' /\ Introduced' /\ RowsLanded' /\ OperationsSent' /\ SavedSeen'
  BY <1>1, ServedGlobal
<1>3. ASSUME NEW x \in Devices PROVE RowsOk(x)'
  <2>1. CASE New(x)
    BY <1>1, <2>1 DEF RowsOk, New
  <2>2. CASE ~New(x)
    BY <1>1, <2>2, ServedDevice
  <2> QED BY <2>1, <2>2
<1> QED BY <1>2, <1>3 DEF RowsInv

LEMMA ServeAndReplyRows ==
    ASSUME IInv, RowsInv, NEW r \in requests, ServeAndReply(r) PROVE RowsInv'
<1>1. server' = Save(r) /\ UNCHANGED <<requests, disk, log, view, edited>>
  BY DEF ServeAndReply
<1>2. /\ Edits' /\ Introduced' /\ RowsLanded' /\ OperationsSent' /\ SavedSeen'
  BY <1>1, ServedGlobal
<1> PICK d : d = r.device
  OBVIOUS
<1>3. /\ d \in Devices /\ ~New(d) /\ sync'[d].stage \in {"rejected", "integrate", "failed"}
      /\ RoundOk(d)'
  BY ReplyRound
<1>4. sync[d].stage = "rpc" /\ \A x \in Devices \ {d} : sync'[x] = sync[x]
  BY <1>3 DEF ServeAndReply, Awaited, IInv, Typed
<1>5. RowsOk(d)'
  <2>1. Shown(d) /\ Shown(d)' /\ sync'[d].stage # "commit"
    BY <1>3, <1>4 DEF Shown
  <2>2. ASSUME sync'[d].stage = "integrate"
        PROVE  /\ sync'[d].flight \in disk[d].flight /\ sync'[d].row.revision = Revision'
               /\ sync'[d].flight.operationId \in server'.operations
    <3>1. sync'[d] = IF RevisionConflict(r) THEN [stage |-> "rejected", flight |-> r.flight]
                     ELSE IF Saved(r) \/ Unchanged(r) \/ Replayed(r)
                     THEN [stage |-> "integrate", flight |-> r.flight, rejected |-> FALSE,
                           row |-> Row']
                     ELSE [stage |-> "failed"]
      BY <1>3 DEF ServeAndReply, IInv, Typed
    <3>2. sync'[d] = [stage |-> "integrate", flight |-> r.flight, rejected |-> FALSE, row |-> Row']
      BY <2>2, <3>1
    <3>3. ~sync'[d].rejected /\ sync'[d].row.revision = Revision'
      BY <3>2 DEF Row
    <3>4. disk'[d].flight = {sync'[d].flight} /\ sync'[d].flight.operationId \in server'.operations
      BY <1>3, <2>2, <3>3 DEF RoundOk
    <3> QED BY <1>1, <3>3, <3>4
  <2> QED BY <1>1, <1>3, <2>1, <2>2, ServedDevice
<1>6. ASSUME NEW x \in Devices, x # d PROVE RowsOk(x)'
  <2>1. sync'[x] = sync[x]
    BY <1>4, <1>6
  <2>2. CASE New(x)
    BY <2>1, <2>2 DEF RowsOk, New
  <2>3. CASE ~New(x)
    BY <1>1, <1>6, <2>1, <2>3, ServedDevice
  <2> QED BY <2>2, <2>3
<1> QED BY <1>2, <1>5, <1>6 DEF RowsInv

-----------------------------------------------------------------------------
(* The rows in every reachable state. *)

LEMMA InitRows == Init => RowsInv
<1> SUFFICES ASSUME Init PROVE RowsInv
  OBVIOUS
<1>1. \A d \in Devices : New(d) /\ disk[d].journal = {} /\ log[d] = <<>>
  BY DEF Init, New, EmptyHead
<1>2. \A d \in Devices : Line(d) = {}
  <2>1. ASSUME NEW d \in Devices PROVE Line(d) = {}
    <3>1. DOMAIN log[d] = {}
      BY <1>1
    <3> QED BY <1>1, <3>1 DEF Line
  <2> QED BY <2>1
<1>3. Revision = 1 /\ server.versions[1].doc = FirstDocument /\ server.operations = {}
  BY DEF Init, Revision
<1>4. Edits /\ OperationsSent /\ \A d \in Devices : RowsOk(d)
  BY <1>1, <1>2, <1>3 DEF Edits, OperationsSent, RowsOk
<1>5. Introduced /\ SavedSeen
  <2>1. 2..Revision = {}
    BY <1>3
  <2> QED BY <1>3, <2>1 DEF Introduced, SavedSeen
<1>6. RowsLanded
  <2>1. ASSUME NEW i \in 1..Revision, NEW c \in Checks PROVE ~ (server.versions[i].doc[c] > 0)
    <3>1. i = 1
      BY <1>3
    <3>2. server.versions[i].doc[c] = IF c \in Original THEN 0 ELSE -1
      BY <1>3, <3>1 DEF FirstDocument, Absent
    <3> QED BY <3>2
  <2> QED BY <2>1 DEF RowsLanded
<1> QED BY <1>4, <1>5, <1>6 DEF RowsInv

LEMMA NextRows == IInv /\ IInv' /\ RowsInv /\ [Next]_vars => RowsInv'
<1> SUFFICES ASSUME IInv, IInv', RowsInv, [Next]_vars PROVE RowsInv'
  OBVIOUS
<1>1. ASSUME NEW r \in requests, Serve(r) PROVE RowsInv'
  BY <1>1, ServeRows
<1>2. ASSUME NEW r \in requests, ServeAndReply(r) PROVE RowsInv'
  BY <1>2, ServeAndReplyRows
<1>3. ASSUME NEW d \in Devices, NEW c \in Checks, Insert(d, c) \/ Replace(d, c) \/ Delete(d, c)
      PROVE  RowsInv'
  BY <1>3, EditRows
<1>4. ASSUME NEW d \in Devices, Initialize(d) \/ Commit(d) \/ Upload(d) PROVE RowsInv'
  BY <1>4, InitializeRows, CommitRows, UploadRows
<1>5. ASSUME NEW d \in Devices,
             ReadRemote(d) \/ Timeout(d) \/ Fail(d) \/ Retry(d) \/ Poll(d)
      PROVE  RowsInv'
  BY <1>5, QuietSteps
<1>6. ASSUME NEW d \in Devices, Integrate(d) \/ CommitAck(d) \/ CommitReject(d) \/ Adopt(d)
      PROVE  RowsInv'
  BY <1>6, IntegrateRows, CommitAckRows, CommitRejectRows, AdoptRows
<1>7. ASSUME NEW d \in Devices, PublishRead(d) \/ PublishApply(d) \/ Restart(d) PROVE RowsInv'
  BY <1>7, PublishReadRows, PublishApplyRows, RestartRows
<1>8. CASE UNCHANGED vars
  BY <1>8, StutterRows
<1> QED BY <1>1, <1>2, <1>3, <1>4, <1>5, <1>6, <1>7, <1>8 DEF Next

-----------------------------------------------------------------------------
(* The theorems *)

\* The invariant holds in every reachable state of the devices, the network and the
\* server, whatever is lost, repeated, late or restarted.
THEOREM SyncInvariant == Spec => []IInv
<1> QED BY InitInvariant, NextInvariant, PTL DEF Spec

\* save_shared_checks_document lands every edit in at most one version, and the edits
\* of a device in the order it made them: the ledger of operation ids, the compare-and-
\* swap and the rule that a device settles one flight before it starts the next.
THEOREM EditsLandOnce == Spec => []EditsAppliedOnce
<1> QED BY AppliedOnce, SyncInvariant, PTL

\* What a device merges against is a version the server had, of the same revision and
\* with the same rows; a device with nothing to send holds no more than that.
THEOREM BasesAreVersions == Spec => []BaseIsServerVersion
<1>1. IInv => BaseIsServerVersion
  <2> SUFFICES ASSUME IInv, NEW d \in Devices, NEW b \in disk[d].base
               PROVE  /\ b.revision \in 1..Revision /\ b.state = server.versions[b.revision].doc
                      /\ Active(d) /\ Unacked(d) = {} => disk[d].cp.state = b.state
    BY DEF BaseIsServerVersion
  <2>1. ~New(d)
    BY DEF IInv, Typed, EmptyHead
  <2>2. /\ disk[d] \in HeadSet /\ Base(disk[d]) \in BaseSet /\ log[d] \in Seq(EditSet)
        /\ BaseOk(d)
    BY <2>1, DeviceFacts
  <2>3. b = Base(disk[d])
    BY <2>2 DEF BaseOk
  <2>4. ASSUME Unacked(d) = {} PROVE disk[d].cp.state = b.state
    <3>1. disk[d].seq \in Nat /\ b.ackSeq \in Nat /\ b.ackSeq <= disk[d].seq
      BY <2>2, <2>3, HeadTyped DEF BaseOk, BaseSet
    <3>2. log[d] = <<>>
      <4>1. DOMAIN log[d] = {}
        BY <2>4 DEF Unacked
      <4>2. Len(log[d]) \in Nat /\ DOMAIN log[d] = 1..Len(log[d])
        BY <2>2
      <4>3. Len(log[d]) # 0 => 1 \in DOMAIN log[d]
        BY <4>2
      <4>4. Len(log[d]) = 0
        BY <4>1, <4>3
      <4> QED BY <2>2, <4>4
    <3>3. b.ackSeq = disk[d].seq
      <4> SUFFICES ASSUME b.ackSeq # disk[d].seq PROVE FALSE
        OBVIOUS
      <4>1. disk[d].seq \in 1..disk[d].seq /\ disk[d].seq > b.ackSeq
        BY <3>1
      <4>2. PICK op \in disk[d].journal : op.seq = disk[d].seq
        BY <2>2, <4>1 DEF BaseOk, JournalFull
      <4>3. op \in PendingOps(disk[d])
        BY <4>1, <4>2 DEF PendingOps
      <4> QED BY <2>4, <4>3 DEF Unacked
    <3> QED BY <2>2, <2>3, <3>2, <3>3 DEF BaseOk
  <2> QED BY <2>2, <2>3, <2>4 DEF BaseOk, HasVersion
<1> QED BY <1>1, SyncInvariant, PTL

\* An edit a device counts as acknowledged was carried by a request whose operation the
\* ledger has: no answer, lost, repeated or late, acknowledges more than was recorded.
THEOREM AcksAreEarned == Spec => []AckedEditsStored
<1>1. IInv => AckedEditsStored
  <2> SUFFICES ASSUME IInv, NEW d \in Devices, NEW b \in disk[d].base, NEW n \in 1..b.ackSeq
               PROVE  \E r \in requests :
                         /\ r.device = d /\ n \in r.flight.startSeq..r.flight.endSeq
                         /\ r.flight.operationId \in server.operations
    BY DEF AckedEditsStored
  <2>1. ~New(d)
    BY DEF IInv, Typed, EmptyHead
  <2>2. b = Base(disk[d]) /\ Earned(d)
    BY <2>1, DeviceFacts DEF BaseOk
  <2> QED BY <2>2 DEF Earned
<1> QED BY <1>1, SyncInvariant, PTL

\* The rows a flight takes away from the version it was made on are among the deletions
\* it declares: the merge and the replay of checks-merge.js lose no row on the way.
THEOREM DeletesAreDeclared == Spec => []FlightDeletesDeclared
<1>1. IInv => FlightDeletesDeclared
  BY DEF IInv, Safe, RequestOk, Declared, FlightDeletesDeclared, Removed
<1> QED BY <1>1, SyncInvariant, PTL

\* While a conflict waits for its user the head keeps it, its base and no flight, and
\* the device sends nothing, through edits, polls, failures and restarts.
THEOREM ConflictsWait == Spec => ConflictHolds
<1> DEFINE Held(d) ==
              InConflict(d) =>
                 /\ disk'[d].control = disk[d].control
                 /\ disk'[d].base = disk[d].base /\ disk'[d].flight = {}
                 /\ \A r \in requests' \ requests : r.device # d
<1>1. ASSUME IInv, [Next]_vars, NEW d \in Devices, InConflict(d)
      PROVE  /\ disk'[d].control = disk[d].control
             /\ disk'[d].base = disk[d].base /\ disk'[d].flight = {}
             /\ \A r \in requests' \ requests : r.device # d
  <2>0. ~New(d)
    BY <1>1 DEF InConflict, IInv, Typed, EmptyHead
  <2>1. /\ disk[d] \in HeadSet /\ disk[d].flight = {} /\ disk \in [Devices -> HeadSet \cup {EmptyHead}]
        /\ sync[d].stage \in {"idle", "publish", "apply", "dead"}
    BY <1>1, <2>0, DeviceFacts DEF ConflictOk, IInv, Typed
  <2>2. CASE UNCHANGED <<requests, disk>>
    BY <2>1, <2>2
  <2>3. ASSUME NEW x \in Devices, x # d,
               \/ Initialize(x) \/ Commit(x) \/ Upload(x) \/ Fail(x)
               \/ CommitAck(x) \/ CommitReject(x) \/ Adopt(x)
        PROVE  disk'[d] = disk[d] /\ \A r \in requests' \ requests : r.device = x
    BY <2>1, <2>3 DEF Initialize, Commit, Upload, Fail, CommitAck, CommitReject, Adopt
  <2>4. CASE Commit(d)
    BY <2>1, <2>4 DEF Commit, AppendOp, HeadSet
  <2>5. ~(Initialize(d) \/ Upload(d) \/ Fail(d) \/ CommitAck(d) \/ CommitReject(d) \/ Adopt(d))
    BY <1>1, <2>0, <2>1 DEF Initialize, Upload, MaySync, Fail, CommitAck, CommitReject, Adopt, New
  <2>6. \/ UNCHANGED <<requests, disk>>
        \/ \E x \in Devices :
              \/ Initialize(x) \/ Commit(x) \/ Upload(x) \/ Fail(x)
              \/ CommitAck(x) \/ CommitReject(x) \/ Adopt(x)
    <3>1. ASSUME NEW r \in requests, Serve(r) \/ ServeAndReply(r) PROVE UNCHANGED <<requests, disk>>
      BY <3>1 DEF Serve, ServeAndReply
    <3>2. ASSUME NEW x \in Devices, NEW c \in Checks, Insert(x, c) \/ Replace(x, c) \/ Delete(x, c)
          PROVE  UNCHANGED <<requests, disk>>
      BY <3>2 DEF Insert, Replace, Delete, Edit
    <3>3. ASSUME NEW x \in Devices,
                 \/ ReadRemote(x) \/ Timeout(x) \/ Integrate(x) \/ Retry(x)
                 \/ PublishRead(x) \/ PublishApply(x) \/ Poll(x) \/ Restart(x)
          PROVE  UNCHANGED <<requests, disk>>
      BY <3>3 DEF ReadRemote, Timeout, Integrate, Retry, PublishRead, PublishApply, Poll, Restart
    <3>4. CASE UNCHANGED vars
      BY <3>4 DEF vars
    <3> QED BY <1>1, <3>1, <3>2, <3>3, <3>4 DEF Next
  <2> QED BY <2>1, <2>2, <2>3, <2>4, <2>5, <2>6
<1>2. IInv /\ [Next]_vars => [\A d \in Devices : Held(d)]_vars
  BY <1>1
<1> QED BY <1>2, SyncInvariant, PTL DEF Spec, ConflictHolds

\* Every document of the device and of the server, at every moment of every run, is made
\* of the edits it counts and of nothing else.
THEOREM RowsInvariant == Spec => []RowsInv
<1>1. IInv /\ IInv' /\ RowsInv /\ [Next]_vars => RowsInv'
  BY NextRows
<1> QED BY <1>1, InitRows, SyncInvariant, PTL DEF Spec

\* merge, settlement, adoption and restart keep the last unacknowledged edit of every
\* check in the device's own document.
THEOREM UnackedEditsSurvive == Spec => []PendingEditKept
<1>1. IInv /\ RowsInv => PendingEditKept
  <2> SUFFICES ASSUME IInv, RowsInv, NEW d \in Devices, ~New(d), NEW c \in Checks,
                      NEW e \in LastUnacked(d, c)
               PROVE  Recovered(d).doc[c] = Value(e)
    BY DEF PendingEditKept, New, Value
  <2>0. Edits /\ CpMade(d)
    BY DEF RowsInv, RowsOk
  <2> PICK O : O = Line(d)
    OBVIOUS
  <2> PICK ack : ack = Base(disk[d]).ackSeq
    OBVIOUS
  <2> PICK m : m = disk[d].cp.seq
    OBVIOUS
  <2> PICK n : n = StoreSeq(d)
    OBVIOUS
  <2> PICK cp : cp = disk[d].cp.state
    OBVIOUS
  <2> PICK doc : doc = Recovered(d).doc
    OBVIOUS
  <2>1. /\ O \subseteq OpSet /\ n \in Nat /\ disk[d].seq \in Nat /\ disk[d].seq <= n
        /\ \A op \in O : op.seq \in 1..n
        /\ \A x, y \in O : x.seq = y.seq => x = y
    BY LineTyped
  <2>2. m \in Nat /\ ack \in Nat /\ ack <= m /\ m <= n /\ ack <= disk[d].seq
    <3>1. m \in Nat /\ m <= disk[d].seq
      BY LineTail
    <3>2. ack \in Nat /\ ack <= m
      BY DeviceFacts DEF BaseOk, BaseSet
    <3> QED BY <2>1, <3>1, <3>2
  <2>3. disk[d].base = {Base(disk[d])}
    BY DeviceFacts DEF BaseOk
  <2>4. ASSUME NEW x \in O, x.seq > ack PROVE x.id \in Unacked(d)
    <3>1. CASE x \in disk[d].journal
      BY <2>3, <2>4, <3>1 DEF Unacked, PendingOps
    <3>2. CASE \E i \in DOMAIN log[d] : x = [seq |-> disk[d].seq + i, id |-> log[d][i]]
      BY <3>2 DEF Unacked
    <3> QED BY <3>1, <3>2 DEF Line
  <2>5. PICK op \in O : op.id = e /\ op.seq > ack
    <3>1. CASE \E x \in PendingOps(disk[d]) : x.id = e
      <4>1. PICK x \in PendingOps(disk[d]) : x.id = e
        BY <3>1
      <4>2. x \in disk[d].journal /\ x.seq > ack
        BY <2>3 DEF PendingOps
      <4> QED BY <4>1, <4>2 DEF Line
    <3>2. CASE \E i \in DOMAIN log[d] : log[d][i] = e
      <4>1. PICK i \in DOMAIN log[d] : log[d][i] = e
        BY <3>2
      <4>2. PICK x \in O : x.seq = disk[d].seq + i /\ x.id = e
        <5> PICK x : x = [seq |-> disk[d].seq + i, id |-> log[d][i]]
          OBVIOUS
        <5>1. x \in O
          BY DEF Line
        <5>2. x.seq = disk[d].seq + i /\ x.id = e
          BY <4>1
        <5> QED BY <5>1, <5>2
      <4>3. i \in Nat /\ i >= 1
        BY DeviceFacts
      <4>4. x.seq > ack
        BY <2>1, <2>2, <4>2, <4>3
      <4> QED BY <4>2, <4>4
    <3> QED BY <3>1, <3>2 DEF LastUnacked, Unacked
  <2>6. e.check = c /\ \A u \in Unacked(d) : u.check = c => u.n <= e.n
    BY DEF LastUnacked
  <2>7. ASSUME NEW x \in O, x.id.check = c, x.seq > ack PROVE x.seq <= op.seq
    <3>1. x.id.n <= op.id.n
      BY <2>4, <2>5, <2>6, <2>7
    <3>2. x.id.n \in Nat /\ op.id.n \in Nat /\ x.seq \in Nat /\ op.seq \in Nat
      BY <2>1, OpTyped
    <3>3. op.seq < x.seq => op.id.n < x.id.n
      BY <2>0 DEF Edits
    <3> QED BY <3>1, <3>2, <3>3
  <2>8. op.seq \in Nat /\ op.seq <= n
    BY <2>1
  <2>9. Overlays(O, m + 1, n, cp, doc)
    BY <2>0, ReplayOverlays
  <2>10. CASE (\A x \in O : x.id.check = c => x.seq \notin (m + 1)..n) /\ doc[c] = cp[c]
    <3>1. op.seq \in (ack + 1)..m
      BY <2>2, <2>5, <2>6, <2>8, <2>10
    <3>2. \A x \in O : x.seq \in (ack + 1)..m => x.seq > ack
      BY <2>2
    <3>3. Last(O, op, ack + 1, m)
      BY <2>5, <2>6, <2>7, <3>1, <3>2 DEF Last
    <3>4. Keeps(O, ack + 1, m, cp)
      BY <2>0 DEF CpMade
    <3> QED BY <2>5, <2>6, <2>10, <3>3, <3>4 DEF Keeps
  <2>11. CASE \E x \in O : Last(O, x, m + 1, n) /\ x.id.check = c /\ doc[c] = Value(x.id)
    <3>1. PICK x \in O : Last(O, x, m + 1, n) /\ x.id.check = c /\ doc[c] = Value(x.id)
      BY <2>11
    <3>2. x.seq \in (m + 1)..n
      BY <3>1 DEF Last
    <3>3. x.seq > ack /\ x.seq \in Nat
      BY <2>2, <3>2
    <3>4. x.seq <= op.seq
      BY <2>7, <3>1, <3>3
    <3>5. op.seq \in (m + 1)..n
      BY <2>2, <2>8, <3>2, <3>4
    <3>6. op.seq <= x.seq
      BY <2>5, <2>6, <3>1, <3>5 DEF Last
    <3>7. x = op
      BY <2>1, <2>8, <3>3, <3>4, <3>6
    <3> QED BY <2>5, <3>1, <3>7
  <2> QED BY <2>9, <2>10, <2>11 DEF Overlays
<1> QED BY <1>1, SyncInvariant, RowsInvariant, PTL

\* A version of the server replaces a row only by the edits of a user who had that row on
\* the screen, or whose screen was behind a checkpoint being published.
THEOREM UpdatesAreSeen == Spec => []NoLostUpdate
<1>1. IInv /\ RowsInv => NoLostUpdate
  <2> SUFFICES ASSUME IInv, RowsInv, NEW i \in DOMAIN server.versions,
                      NEW r \in server.versions[i].by, NEW c \in ChangedBy(i)
               PROVE  \E e \in FirstEdit(r, c) : e.over = server.versions[i - 1].doc[c] \/ e.early
    BY DEF NoLostUpdate, SeenBeforeReplaced
  <2>1. c \in Checks /\ server.versions[i].doc[c] # server.versions[i - 1].doc[c]
    BY DEF ChangedBy
  <2>2. i \in 1..Revision
    BY VersionsTyped DEF IInv
  <2>3. /\ r.device \in Devices /\ ~New(r.device) /\ r.flight.baseRevision = i - 1
        /\ r.flight.startSeq \in Nat /\ r.flight.endSeq \in Nat /\ RequestOk(r) /\ Revision \in Nat
    BY <2>2, VersionFacts
  <2>4. i \in 2..Revision
    <3>1. r.flight.baseRevision \in 1..Base(disk[r.device]).revision
      BY <2>3 DEF RequestOk
    <3> QED BY <2>2, <2>3, <3>1
  <2>5. PICK op \in disk[r.device].journal :
           /\ First(Line(r.device), op, r.flight.startSeq) /\ op.id.check = c
           /\ op.seq <= r.flight.endSeq
           /\ op.id.over = server.versions[i - 1].doc[c] \/ op.id.early
    BY <2>1, <2>4 DEF RowsInv, SavedSeen
  <2>6. disk[r.device].journal \subseteq Line(r.device)
    BY DEF Line
  <2>7. \A y \in Line(r.device) : y.seq \in Nat
    BY <2>3, LineTyped, OpTyped
  <2>8. op.seq \in r.flight.startSeq..r.flight.endSeq
    BY <2>3, <2>5, <2>6, <2>7 DEF First
  <2>9. ASSUME NEW y \in disk[r.device].journal, y.seq \in r.flight.startSeq..(op.seq - 1)
        PROVE  y.id.check # c
    <3>1. y.seq >= r.flight.startSeq /\ ~ (op.seq <= y.seq)
      BY <2>3, <2>6, <2>7, <2>9
    <3> QED BY <2>5, <2>6, <3>1 DEF First
  <2>10. op.id \in FirstEdit(r, c)
    BY <2>5, <2>8, <2>9 DEF FirstEdit
  <2> QED BY <2>5, <2>10
<1> QED BY <1>1, SyncInvariant, RowsInvariant, PTL

=============================================================================
