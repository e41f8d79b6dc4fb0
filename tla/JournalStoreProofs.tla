--------------------------- MODULE JournalStoreProofs ---------------------------
(***************************************************************************)
(* What JournalStore promises, for every set of epochs, writers, states    *)
(* and ids and every bound.                                                *)
(***************************************************************************)
EXTENDS JournalStore, TLAPS

USE NoneAssumption, BoundsAssumption

\* The inductive invariant: TypeOK and the four readings of a head at once.
\* None of the readings is inductive alone: a transaction that moves the cursor
\* keeps PendingOk only because the flight it settles agreed with the base
\* (CloudHeadOk), and one that deletes operations keeps ReplayOk only because
\* keys are unique and committed.
HeadInv ==
    /\ head \in Heads
    /\ CloudHeadOk(head)
    /\ ReplayOk(head)
    /\ PendingOk(head)
    /\ JournalKeysOk(head)

LEMMA MaybeElement ==
    ASSUME NEW S, NEW m \in Maybe(S)
    PROVE  m = {} \/ \E x \in S : m = {x}
BY DEF Maybe

LEMMA MaybeMember ==
    ASSUME NEW S, NEW m \in Maybe(S), NEW x \in m
    PROVE  x \in S /\ m = {x}
BY DEF Maybe

LEMMA MaybeOne ==
    ASSUME NEW S, NEW x \in S
    PROVE  {x} \in Maybe(S) /\ {} \in Maybe(S)
BY DEF Maybe

\* A new epoch satisfies the invariant whatever it replaces.
LEMMA FreshHeadCorrect ==
    ASSUME NEW e \in Epochs, NEW w \in Writers, NEW s \in States,
           NEW base \in Maybe(Bases),
           \A b \in base : b.ackSeq = 0,
           head' = FreshHead(e, w, s, base)
    PROVE  HeadInv'
<1>1. head' \in Heads
  BY MaybeElement DEF FreshHead, Heads, Seqs, Maybe
<1>2. CloudHeadOk(head') /\ ReplayOk(head') /\ PendingOk(head') /\ JournalKeysOk(head')
  BY MaybeElement DEF FreshHead, CloudHeadOk, ReplayOk, PendingOk, JournalKeysOk, Bases, Seqs
<1> QED BY <1>1, <1>2 DEF HeadInv

LEMMA InitCorrect == Init => HeadInv
BY DEF Init, HeadInv, EmptyHead, Heads, Seqs, Maybe, CloudHeadOk, ReplayOk, PendingOk,
       JournalKeysOk

LEMMA InitializeCorrect ==
    ASSUME HeadInv, NEW e \in Epochs, NEW w \in Writers, InitializeCloudHeadTx(e, w)
    PROVE  HeadInv'
<1>1. PICK s \in States, b \in Bases, entry \in Maybe(Operations) :
          /\ b.ackSeq = 0
          /\ InitializeCloudHeadOk(head, entry)
          /\ head' = InitializeCloudHead(e, w, s, b, entry)
  BY DEF InitializeCloudHeadTx
<1>2. {b} \in Maybe(Bases)
  BY MaybeOne
<1>3. CASE entry = {}
  <2>1. head' = FreshHead(e, w, s, {b})
    BY <1>1, <1>3 DEF InitializeCloudHead, FreshHead
  <2> QED BY <1>1, <1>2, <2>1, FreshHeadCorrect
<1>4. ASSUME NEW op \in Operations, entry = {op}
      PROVE  HeadInv'
  <2>1. op.seq = 1 /\ op.seq \in 1..MaxSeq
    BY <1>1, <1>4 DEF InitializeCloudHeadOk, Operations
  <2>2. head' = [epoch |-> e, seq |-> 1, writer |-> w, cp |-> [seq |-> 0, state |-> s],
                 journal |-> {op}, base |-> {b}, flight |-> {}, control |-> {}]
    BY <1>1, <1>4 DEF InitializeCloudHead, FreshHead
  <2>3. head' \in Heads
    BY <1>2, <2>1, <2>2 DEF Heads, Seqs, Maybe
  <2>4. CloudHeadOk(head') /\ ReplayOk(head') /\ PendingOk(head') /\ JournalKeysOk(head')
    BY <1>1, <2>1, <2>2 DEF CloudHeadOk, ReplayOk, PendingOk, JournalKeysOk, Bases, Seqs
  <2> QED BY <2>3, <2>4 DEF HeadInv
<1> QED BY <1>3, <1>4, MaybeElement

LEMMA ClaimCorrect ==
    ASSUME HeadInv, NEW e \in Epochs, NEW w \in Writers, ClaimTx(e, w)
    PROVE  HeadInv'
BY DEF ClaimTx, Claim, HeadInv, Heads, CloudHeadOk, ReplayOk, PendingOk, JournalKeysOk

\* Either the record is already there and nothing changes, or it is the next in
\* turn.
LEMMA AppendedCorrect ==
    ASSUME HeadInv, NEW op \in Operations, op.seq = head.seq + 1,
           head' = [head EXCEPT !.journal = @ \cup {op}, !.seq = op.seq]
    PROVE  HeadInv'
<1>0. op.seq \in Seqs
  BY DEF Operations, Seqs
<1>1. head' \in Heads
  BY <1>0 DEF HeadInv, Heads
<1>2. CloudHeadOk(head')
  BY DEF HeadInv, Heads, Operations, CloudHeadOk, Maybe, Bases, Flights, Seqs
<1>3. ReplayOk(head')
  BY DEF HeadInv, Heads, Operations, ReplayOk, Seqs
<1>4. PendingOk(head')
  BY DEF HeadInv, Heads, Operations, PendingOk, Maybe, Bases, Seqs
<1>5. JournalKeysOk(head')
  BY DEF HeadInv, Heads, Operations, JournalKeysOk, Seqs
<1> QED BY <1>1, <1>2, <1>3, <1>4, <1>5 DEF HeadInv

LEMMA AppendCorrect ==
    ASSUME HeadInv, NEW e \in Epochs, NEW w \in Writers, AppendTx(e, w)
    PROVE  HeadInv'
<1>1. PICK op \in Operations : AppendOk(head, e, w, op) /\ head' = AppendOp(head, op)
  BY DEF AppendTx
<1>2. CASE op \in head.journal
  BY <1>1, <1>2 DEF AppendOp, HeadInv
<1>3. CASE op \notin head.journal
  BY <1>1, <1>3, AppendedCorrect DEF AppendOk, AppendOp
<1> QED BY <1>2, <1>3

LEMMA AppendBoundaryCorrect ==
    ASSUME HeadInv, NEW e \in Epochs, NEW w \in Writers, AppendBoundaryTx(e, w)
    PROVE  HeadInv'
BY AppendedCorrect DEF AppendBoundaryTx, AppendBoundaryOk, AppendBoundary

\* The bound of a compaction is not past the new checkpoint, nor past the cursor.
LEMMA CompactedThroughBound ==
    ASSUME HeadInv, NEW cp \in Checkpoints
    PROVE  /\ CompactedThrough(head, cp) \in Nat
           /\ CompactedThrough(head, cp) <= cp.seq
           /\ \A b \in head.base : CompactedThrough(head, cp) <= b.ackSeq
<1>1. CASE head.base = {}
  BY <1>1 DEF CompactedThrough, Checkpoints, Seqs
<1>2. ASSUME NEW b \in Bases, head.base = {b}
      PROVE  CompactedThrough(head, cp) = Min2(cp.seq, b.ackSeq)
  <2>1. {Min2(cp.seq, c.ackSeq) : c \in head.base} = {Min2(cp.seq, b.ackSeq)}
    BY <1>2
  <2> QED BY <1>2, <2>1 DEF CompactedThrough
<1>3. head.base = {} \/ \E b \in Bases : head.base = {b}
  BY MaybeElement DEF HeadInv, Heads
<1> QED BY <1>1, <1>2, <1>3 DEF Min2, Checkpoints, Bases, Seqs

LEMMA CompactCorrect ==
    ASSUME HeadInv, NEW e \in Epochs, NEW w \in Writers, CompactTx(e, w)
    PROVE  HeadInv'
<1>1. PICK cp \in Checkpoints : CompactOk(head, e, w, cp) /\ head' = Compact(head, cp)
  BY DEF CompactTx
<1> DEFINE through == CompactedThrough(head, cp)
<1>2. /\ through \in Nat
      /\ through <= cp.seq
      /\ \A b \in head.base : through <= b.ackSeq
  BY CompactedThroughBound
<1>3. head' = [head EXCEPT !.cp = cp, !.journal = {op \in @ : op.seq > through}]
  BY <1>1 DEF Compact
<1> HIDE DEF through
<1>4. head' \in Heads
  BY <1>3 DEF HeadInv, Heads, Checkpoints
<1>5. CloudHeadOk(head')
  BY <1>3 DEF HeadInv, Heads, CloudHeadOk
<1>6. ReplayOk(head')
  BY <1>1, <1>2, <1>3 DEF CompactOk, HeadInv, Heads, ReplayOk, Checkpoints, Operations, Seqs
<1>7. PendingOk(head')
  BY <1>2, <1>3 DEF HeadInv, Heads, PendingOk, Maybe, Bases, Operations, Seqs
<1>8. JournalKeysOk(head')
  BY <1>3 DEF HeadInv, Heads, JournalKeysOk
<1> QED BY <1>4, <1>5, <1>6, <1>7, <1>8 DEF HeadInv

LEMMA ReplaceLocalCheckpointCorrect ==
    ASSUME HeadInv, NEW e \in Epochs, NEW w \in Writers, ReplaceLocalCheckpointTx(e, w)
    PROVE  HeadInv'
<1>1. PICK cp \in Checkpoints, expectedSeq \in Seqs :
          /\ ReplaceLocalCheckpointOk(head, e, w, cp, expectedSeq)
          /\ head' = ReplaceLocalCheckpoint(head, cp)
  BY DEF ReplaceLocalCheckpointTx
<1>2. head' \in Heads
  BY <1>1 DEF ReplaceLocalCheckpoint, HeadInv, Heads, Checkpoints
<1>3. CloudHeadOk(head') /\ ReplayOk(head') /\ PendingOk(head') /\ JournalKeysOk(head')
  BY <1>1 DEF ReplaceLocalCheckpointOk, ReplaceLocalCheckpoint, HeadInv, Heads, CloudHeadOk,
              ReplayOk, PendingOk, JournalKeysOk, Seqs
<1> QED BY <1>2, <1>3 DEF HeadInv

LEMMA CursorKept ==
    ASSUME HeadInv, NEW c \in head.base
    PROVE  \E b \in head.base : b.ackSeq <= c.ackSeq
<1>1. c \in Bases
  BY MaybeMember DEF HeadInv, Heads
<1>2. c.ackSeq <= c.ackSeq
  BY <1>1 DEF Bases, Seqs
<1> QED BY <1>2

\* The transactions that leave the journal and the committed sequence alone:
\* they may replace the checkpoint by one at the committed sequence and the
\* cloud records by a consistent set whose cursor is not behind the old one.
LEMMA HeadUpdateCorrect ==
    ASSUME HeadInv,
           NEW cp \in [seq : Seqs, state : States \cup {NoState}],
           NEW base \in Maybe(Bases), NEW flight \in Maybe(Flights),
           NEW control \in Maybe(Controls),
           cp = head.cp \/ cp.seq = head.seq,
           \A c \in base : \E b \in head.base : b.ackSeq <= c.ackSeq,
           head' = [head EXCEPT !.cp = cp, !.base = base, !.flight = flight,
                                !.control = control],
           CloudHeadOk(head')
    PROVE  HeadInv'
<1>1. head' \in Heads
  BY DEF HeadInv, Heads
<1>2. ReplayOk(head')
  BY DEF HeadInv, Heads, ReplayOk, Seqs
<1>3. PendingOk(head')
  <2> SUFFICES ASSUME NEW c \in base, NEW n \in (c.ackSeq + 1)..head.seq
               PROVE  \E op \in head.journal : op.seq = n
    BY DEF HeadInv, Heads, PendingOk
  <2>1. PICK b \in head.base : b.ackSeq <= c.ackSeq
    OBVIOUS
  <2>2. c \in Bases /\ b \in Bases
    BY MaybeElement DEF HeadInv, Heads
  <2>3. n \in (b.ackSeq + 1)..head.seq
    BY <2>1, <2>2 DEF Bases, Seqs, HeadInv, Heads
  <2> QED BY <2>1, <2>3 DEF HeadInv, PendingOk
<1>4. JournalKeysOk(head')
  BY DEF HeadInv, Heads, JournalKeysOk
<1> QED BY <1>1, <1>2, <1>3, <1>4 DEF HeadInv

LEMMA ReplaceCheckpointCorrect ==
    ASSUME HeadInv, NEW e \in Epochs, NEW w \in Writers, ReplaceCheckpointTx(e, w)
    PROVE  HeadInv'
<1>1. PICK cp \in Checkpoints :
          /\ ReplaceCheckpointOk(head, e, w, cp)
          /\ head' = [head EXCEPT !.cp = cp]
  BY DEF ReplaceCheckpointTx, ReplaceCheckpoint
<1>2. cp \in [seq : Seqs, state : States \cup {NoState}] /\ cp.seq = head.seq
  BY <1>1 DEF ReplaceCheckpointOk, Checkpoints
<1>3. head' = [head EXCEPT !.cp = cp, !.base = head.base, !.flight = head.flight,
                           !.control = head.control]
  BY <1>1 DEF HeadInv, Heads
<1>4. CloudHeadOk(head')
  BY <1>1 DEF HeadInv, Heads, CloudHeadOk
<1>5. \A c \in head.base : \E b \in head.base : b.ackSeq <= c.ackSeq
  BY CursorKept
<1> QED BY <1>2, <1>3, <1>4, <1>5, HeadUpdateCorrect DEF HeadInv, Heads

LEMMA BeginFlightCorrect ==
    ASSUME HeadInv, NEW e \in Epochs, NEW w \in Writers, BeginFlightTx(e, w)
    PROVE  HeadInv'
<1>1. PICK f \in Flights :
          BeginFlightOk(head, e, w, f) /\ head' = [head EXCEPT !.flight = {f}]
  BY DEF BeginFlightTx, BeginFlight
<1>2. {f} \in Maybe(Flights)
  BY MaybeOne
<1>3. head' = [head EXCEPT !.cp = head.cp, !.base = head.base, !.flight = {f},
                           !.control = head.control]
  BY <1>1 DEF HeadInv, Heads
<1>4. CloudHeadOk(head')
  BY <1>1 DEF BeginFlightOk, HeadInv, Heads, CloudHeadOk
<1>5. \A c \in head.base : \E b \in head.base : b.ackSeq <= c.ackSeq
  BY CursorKept
<1> QED BY <1>2, <1>3, <1>4, <1>5, HeadUpdateCorrect DEF HeadInv, Heads

\* The flight's range starts right after the cursor it was built on, so the
\* acknowledged sequence only moves forward.
LEMMA AcknowledgeCorrect ==
    ASSUME HeadInv, NEW e \in Epochs, NEW w \in Writers, AcknowledgeTx(e, w)
    PROVE  HeadInv'
<1>1. PICK id \in FlightIds, base \in Bases, checkpoint \in Maybe(Checkpoints),
           control \in Maybe(Controls) :
          /\ AcknowledgeOk(head, e, w, id, base, checkpoint)
          /\ head' = Acknowledge(head, base, checkpoint, control)
  BY DEF AcknowledgeTx
<1> DEFINE cp == IF checkpoint = {} THEN head.cp ELSE CHOOSE c \in checkpoint : TRUE
<1>2. PICK f \in head.flight : base.ackSeq = f.endSeq
  BY <1>1 DEF AcknowledgeOk
<1>3. f \in Flights
  BY <1>2, MaybeElement DEF HeadInv, Heads
<1>4. f.startSeq <= f.endSeq /\ f.endSeq <= head.seq
  BY <1>2 DEF HeadInv, CloudHeadOk
<1>5. PICK b \in head.base : f.startSeq = b.ackSeq + 1
  BY <1>2 DEF HeadInv, CloudHeadOk
<1>6. b \in Bases
  BY <1>5, MaybeElement DEF HeadInv, Heads
<1>7. /\ cp \in [seq : Seqs, state : States \cup {NoState}]
      /\ cp = head.cp \/ cp.seq = head.seq
  <2>1. CASE checkpoint = {}
    BY <2>1 DEF HeadInv, Heads
  <2>2. ASSUME NEW c \in Checkpoints, checkpoint = {c}
        PROVE  cp \in Checkpoints /\ cp.seq = head.seq
    <3>1. cp = c
      BY <2>2
    <3> QED BY <1>1, <2>2, <3>1 DEF AcknowledgeOk
  <2>3. \/ checkpoint = {}
        \/ \E c \in Checkpoints : checkpoint = {c}
    BY MaybeElement
  <2>4. CASE cp \in Checkpoints /\ cp.seq = head.seq
    BY <2>4 DEF Checkpoints
  <2> QED BY <2>1, <2>2, <2>3, <2>4
<1>8. head' = [head EXCEPT !.cp = cp, !.base = {base}, !.flight = {}, !.control = control]
  BY <1>1 DEF Acknowledge, HeadInv, Heads
<1> HIDE DEF cp
<1>9. CloudHeadOk(head')
  BY <1>2, <1>4, <1>8 DEF CloudHeadOk, HeadInv, Heads
<1>10. \A c \in {base} : \E d \in head.base : d.ackSeq <= c.ackSeq
  BY <1>2, <1>3, <1>4, <1>5, <1>6 DEF Bases, Flights, Seqs
<1>11. {base} \in Maybe(Bases) /\ {} \in Maybe(Flights)
  BY MaybeOne DEF Maybe
<1> QED BY <1>7, <1>8, <1>9, <1>10, <1>11, HeadUpdateCorrect

LEMMA RejectFlightCorrect ==
    ASSUME HeadInv, NEW e \in Epochs, NEW w \in Writers, RejectFlightTx(e, w)
    PROVE  HeadInv'
<1>1. PICK id \in FlightIds, base \in Bases, cp \in Checkpoints, expectedSeq \in Seqs,
           control \in Maybe(Controls) :
          /\ RejectFlightOk(head, e, w, id, base, cp, expectedSeq)
          /\ head' = [head EXCEPT !.base = {base}, !.flight = {}, !.cp = cp,
                                  !.control = control]
  BY DEF RejectFlightTx, RejectFlight
<1>2. PICK b \in head.base : base.ackSeq = b.ackSeq
  BY <1>1 DEF RejectFlightOk
<1>3. b \in Bases
  BY <1>2, MaybeElement DEF HeadInv, Heads
<1>4. cp \in [seq : Seqs, state : States \cup {NoState}] /\ cp.seq = head.seq
  BY <1>1 DEF RejectFlightOk, Checkpoints
<1>5. head' = [head EXCEPT !.cp = cp, !.base = {base}, !.flight = {}, !.control = control]
  BY <1>1 DEF HeadInv, Heads
<1>6. CloudHeadOk(head')
  BY <1>2, <1>5 DEF CloudHeadOk, HeadInv, Heads
<1>7. \A c \in {base} : \E d \in head.base : d.ackSeq <= c.ackSeq
  BY <1>2, <1>3 DEF Bases, Seqs
<1>8. {base} \in Maybe(Bases) /\ {} \in Maybe(Flights)
  BY MaybeOne DEF Maybe
<1> QED BY <1>4, <1>5, <1>6, <1>7, <1>8, HeadUpdateCorrect

LEMMA AdoptCloudHeadCorrect ==
    ASSUME HeadInv, NEW e \in Epochs, NEW w \in Writers, AdoptCloudHeadTx(e, w)
    PROVE  HeadInv'
<1>1. PICK cp \in Checkpoints, base \in Bases :
          /\ AdoptCloudHeadOk(head, e, w, cp, base)
          /\ head' = [head EXCEPT !.cp = cp, !.base = {base}, !.control = {}]
  BY DEF AdoptCloudHeadTx, AdoptCloudHead
<1>2. cp \in [seq : Seqs, state : States \cup {NoState}] /\ cp.seq = head.seq
  BY <1>1 DEF AdoptCloudHeadOk, Checkpoints
<1>3. head.flight = {} /\ base.ackSeq = head.seq
  BY <1>1 DEF AdoptCloudHeadOk
<1>4. head' = [head EXCEPT !.cp = cp, !.base = {base}, !.flight = {}, !.control = {}]
  BY <1>1, <1>3 DEF HeadInv, Heads
<1>5. CloudHeadOk(head')
  BY <1>3, <1>4 DEF CloudHeadOk, HeadInv, Heads, Bases, Seqs
<1>6. \A c \in {base} : \E d \in head.base : d.ackSeq <= c.ackSeq
  BY <1>1, <1>3 DEF AdoptCloudHeadOk, Bases, Seqs
<1>7. {base} \in Maybe(Bases) /\ {} \in Maybe(Flights) /\ {} \in Maybe(Controls)
  BY MaybeOne DEF Maybe
<1> QED BY <1>2, <1>4, <1>5, <1>6, <1>7, HeadUpdateCorrect

LEMMA CommitCloudRecoveryCorrect ==
    ASSUME HeadInv, NEW e \in Epochs, NEW w \in Writers, CommitCloudRecoveryTx(e, w)
    PROVE  HeadInv'
<1>1. PICK cp \in Checkpoints, kind \in ConflictKinds \cup {"none"} :
          /\ CommitCloudRecoveryOk(head, e, w, cp, kind)
          /\ head' = [head EXCEPT !.cp = cp, !.control = {}]
  BY DEF CommitCloudRecoveryTx, CommitCloudRecovery
<1>2. cp \in [seq : Seqs, state : States \cup {NoState}] /\ cp.seq = head.seq
  BY <1>1 DEF CommitCloudRecoveryOk, Checkpoints
<1>3. head' = [head EXCEPT !.cp = cp, !.base = head.base, !.flight = head.flight,
                           !.control = {}]
  BY <1>1 DEF HeadInv, Heads
<1>4. CloudHeadOk(head')
  BY <1>1 DEF HeadInv, Heads, CloudHeadOk
<1>5. \A c \in head.base : \E b \in head.base : b.ackSeq <= c.ackSeq
  BY CursorKept
<1>6. {} \in Maybe(Controls)
  BY DEF Maybe
<1> QED BY <1>2, <1>3, <1>4, <1>5, <1>6, HeadUpdateCorrect DEF HeadInv, Heads

\* setControl and clearControl touch nothing but the control.
LEMMA ControlCorrect ==
    ASSUME HeadInv, NEW control \in Maybe(Controls), head' = [head EXCEPT !.control = control]
    PROVE  HeadInv'
BY DEF HeadInv, Heads, CloudHeadOk, ReplayOk, PendingOk, JournalKeysOk

LEMMA EpochCorrect ==
    ASSUME HeadInv, NEW e \in Epochs \cup {NoEpoch}, NEW w \in Writers,
           InstallTx(e, w) \/ ResetStateTx(e, w) \/ ResetCloudHeadTx(e, w)
    PROVE  HeadInv'
<1>1. CASE InstallTx(e, w)
  BY <1>1, FreshHeadCorrect, MaybeOne DEF InstallTx, Install, Maybe
<1>2. CASE ResetStateTx(e, w)
  BY <1>2, FreshHeadCorrect, MaybeOne DEF ResetStateTx, ResetState, Maybe
<1>3. CASE ResetCloudHeadTx(e, w)
  <2>1. PICK next \in Epochs, s \in States, b \in Bases :
            b.ackSeq = 0 /\ head' = FreshHead(next, w, s, {b})
    BY <1>3 DEF ResetCloudHeadTx, ResetCloudHeadOk, ResetCloudHead
  <2>2. {b} \in Maybe(Bases)
    BY MaybeOne
  <2> QED BY <2>1, <2>2, FreshHeadCorrect
<1> QED BY <1>1, <1>2, <1>3

LEMMA NextCorrect == HeadInv /\ [Next]_head => HeadInv'
<1> SUFFICES ASSUME HeadInv, [Next]_head
             PROVE  HeadInv'
  OBVIOUS
<1>1. ASSUME NEW e \in Epochs \cup {NoEpoch}, NEW w \in Writers, InstallTx(e, w)
      PROVE  HeadInv'
  BY <1>1, EpochCorrect
<1>2. ASSUME NEW e \in Epochs, NEW w \in Writers,
             InitializeCloudHeadTx(e, w) \/ ClaimTx(e, w)
      PROVE  HeadInv'
  BY <1>2, InitializeCorrect, ClaimCorrect
<1>3. ASSUME NEW e \in Epochs, NEW w \in Writers, FencedTx(e, w)
      PROVE  HeadInv'
  <2>1. CASE \/ AppendTx(e, w) \/ AppendBoundaryTx(e, w) \/ CompactTx(e, w)
             \/ ReplaceCheckpointTx(e, w) \/ ReplaceLocalCheckpointTx(e, w)
    BY <2>1, AppendCorrect, AppendBoundaryCorrect, CompactCorrect,
       ReplaceCheckpointCorrect, ReplaceLocalCheckpointCorrect
  <2>2. CASE \/ BeginFlightTx(e, w) \/ AcknowledgeTx(e, w) \/ RejectFlightTx(e, w)
             \/ AdoptCloudHeadTx(e, w) \/ CommitCloudRecoveryTx(e, w)
    BY <2>2, BeginFlightCorrect, AcknowledgeCorrect, RejectFlightCorrect,
       AdoptCloudHeadCorrect, CommitCloudRecoveryCorrect
  <2>3. CASE SetControlTx(e, w) \/ ClearControlTx(e, w)
    BY <2>3, ControlCorrect, MaybeOne DEF SetControlTx, ClearControlTx, SetControl,
       ClearControl, Maybe
  <2>4. CASE ResetStateTx(e, w) \/ ResetCloudHeadTx(e, w)
    BY <2>4, EpochCorrect
  <2> QED BY <1>3, <2>1, <2>2, <2>3, <2>4 DEF FencedTx
<1>4. CASE UNCHANGED head
  BY <1>4 DEF HeadInv, CloudHeadOk, ReplayOk, PendingOk, JournalKeysOk
<1> QED BY <1>1, <1>2, <1>3, <1>4 DEF Next

THEOREM HeadAlwaysCorrect == Spec => []HeadInv
BY InitCorrect, NextCorrect, PTL DEF Spec

\* The head is well typed in every reachable state.
THEOREM TypeCorrect == Spec => []TypeOK
<1>1. HeadInv => TypeOK
  BY DEF HeadInv, TypeOK
<1> QED BY <1>1, HeadAlwaysCorrect, PTL

\* No sequence of transactions, whoever issues them and however stale their
\* arguments, leaves a head that recovery refuses.
THEOREM HeadReadableCorrect == Spec => []HeadReadable
<1>1. HeadInv => HeadReadable
  BY DEF HeadInv, HeadReadable
<1> QED BY <1>1, HeadAlwaysCorrect, PTL

\* Every operation after the cloud cursor can be found by the next flight.
THEOREM PendingRetainedCorrect == Spec => []PendingRetained
<1>1. HeadInv => PendingRetained
  BY DEF HeadInv, PendingRetained
<1> QED BY <1>1, HeadAlwaysCorrect, PTL

-----------------------------------------------------------------------------
(* Steps inside an epoch. *)

\* The transactions that start an epoch change the fence's epoch, so a step that
\* keeps it is a claim, one of the fenced transactions, or the initialization
\* of an owner that has nothing to lose.
LEMMA SameEpochStep ==
    ASSUME HeadInv, [Next]_head, head'.epoch = head.epoch
    PROVE  \/ head' = head
           \/ \E e \in Epochs, w \in Writers :
                 \/ ClaimTx(e, w)
                 \/ AppendTx(e, w) \/ AppendBoundaryTx(e, w)
                 \/ CompactTx(e, w)
                 \/ ReplaceCheckpointTx(e, w) \/ ReplaceLocalCheckpointTx(e, w)
                 \/ BeginFlightTx(e, w) \/ AcknowledgeTx(e, w) \/ RejectFlightTx(e, w)
                 \/ AdoptCloudHeadTx(e, w) \/ CommitCloudRecoveryTx(e, w)
                 \/ SetControlTx(e, w) \/ ClearControlTx(e, w)
<1>1. ASSUME NEW e \in Epochs \cup {NoEpoch}, NEW w \in Writers, InstallTx(e, w)
      PROVE  FALSE
  BY <1>1 DEF InstallTx, InstallOk, Install, FreshHead
<1>2. ASSUME NEW e \in Epochs, NEW w \in Writers, InitializeCloudHeadTx(e, w)
      PROVE  FALSE
  <2>1. head.epoch = NoEpoch
    BY <1>2 DEF InitializeCloudHeadTx, InitializeCloudHeadOk, EmptyHead
  <2>2. head'.epoch = e
    BY <1>2 DEF InitializeCloudHeadTx, InitializeCloudHead, FreshHead
  <2> QED BY <2>1, <2>2
<1>3. ASSUME NEW e \in Epochs, NEW w \in Writers, ResetStateTx(e, w)
      PROVE  FALSE
  BY <1>3 DEF ResetStateTx, ResetStateOk, FullFence, Fenced, ResetState, FreshHead
<1>4. ASSUME NEW e \in Epochs, NEW w \in Writers, ResetCloudHeadTx(e, w)
      PROVE  FALSE
  BY <1>4 DEF ResetCloudHeadTx, ResetCloudHeadOk, FullFence, Fenced, ResetCloudHead, FreshHead
<1> QED BY <1>1, <1>2, <1>3, <1>4 DEF Next, FencedTx

\* The three transactions that move the cursor, and how each moves it.
LEMMA CursorStep ==
    ASSUME HeadInv, NEW e \in Epochs, NEW w \in Writers,
           AcknowledgeTx(e, w) \/ RejectFlightTx(e, w) \/ AdoptCloudHeadTx(e, w)
    PROVE  \E b \in head.base, c \in Bases :
              /\ b \in Bases /\ head.base = {b} /\ head'.base = {c}
              /\ head'.flight = {} /\ head'.journal = head.journal
              /\ c.revision >= b.revision /\ c.ackSeq >= b.ackSeq
              /\ \A f \in head.flight :
                    \/ c.ackSeq = f.endSeq
                    \/ c.ackSeq = b.ackSeq /\ c.revision > b.revision
<1>1. CASE AcknowledgeTx(e, w)
  <2>1. PICK id \in FlightIds, c \in Bases, checkpoint \in Maybe(Checkpoints),
             control \in Maybe(Controls) :
            /\ AcknowledgeOk(head, e, w, id, c, checkpoint)
            /\ head' = Acknowledge(head, c, checkpoint, control)
    BY <1>1 DEF AcknowledgeTx
  <2>2. PICK f \in head.flight : c.ackSeq = f.endSeq /\ c.revision >= f.baseRevision
    BY <2>1 DEF AcknowledgeOk
  <2>3. PICK b \in head.base : f.baseRevision = b.revision /\ f.startSeq = b.ackSeq + 1
    BY <2>2 DEF HeadInv, CloudHeadOk
  <2>4. f.startSeq <= f.endSeq
    BY <2>2 DEF HeadInv, CloudHeadOk
  <2>5. f \in Flights /\ head.flight = {f} /\ b \in Bases /\ head.base = {b}
    BY <2>2, <2>3, MaybeMember DEF HeadInv, Heads
  <2>6. head'.base = {c} /\ head'.flight = {} /\ head'.journal = head.journal
    BY <2>1 DEF Acknowledge, HeadInv, Heads
  <2>7. c.revision >= b.revision /\ c.ackSeq >= b.ackSeq
    BY <2>2, <2>3, <2>4, <2>5 DEF Flights, Bases, Seqs, Revisions
  <2> QED BY <2>2, <2>5, <2>6, <2>7
<1>2. CASE RejectFlightTx(e, w)
  <2>1. PICK id \in FlightIds, c \in Bases, cp \in Checkpoints, expectedSeq \in Seqs,
             control \in Maybe(Controls) :
            /\ RejectFlightOk(head, e, w, id, c, cp, expectedSeq)
            /\ head' = RejectFlight(head, c, cp, control)
    BY <1>2 DEF RejectFlightTx
  <2>2. PICK f \in head.flight : c.revision > f.baseRevision
    BY <2>1 DEF RejectFlightOk
  <2>3. PICK b \in head.base : f.baseRevision = b.revision
    BY <2>2 DEF HeadInv, CloudHeadOk
  <2>4. b \in Bases /\ head.base = {b}
    BY <2>3, MaybeMember DEF HeadInv, Heads
  <2>5. c.ackSeq = b.ackSeq
    BY <2>1, <2>4 DEF RejectFlightOk
  <2>6. head'.base = {c} /\ head'.flight = {} /\ head'.journal = head.journal
    BY <2>1 DEF RejectFlight, HeadInv, Heads
  <2>7. c.revision >= b.revision /\ c.revision > b.revision /\ c.ackSeq >= b.ackSeq
    BY <2>2, <2>3, <2>4, <2>5 DEF Bases, Seqs, Revisions
  <2> QED BY <2>4, <2>5, <2>6, <2>7
<1>3. CASE AdoptCloudHeadTx(e, w)
  <2>1. PICK cp \in Checkpoints, c \in Bases :
            AdoptCloudHeadOk(head, e, w, cp, c) /\ head' = AdoptCloudHead(head, cp, c)
    BY <1>3 DEF AdoptCloudHeadTx
  <2>2. PICK b \in head.base : b.ackSeq = head.seq /\ c.revision >= b.revision
    BY <2>1 DEF AdoptCloudHeadOk
  <2>3. b \in Bases /\ head.base = {b}
    BY <2>2, MaybeMember DEF HeadInv, Heads
  <2>4. c.ackSeq = head.seq /\ head.flight = {}
    BY <2>1 DEF AdoptCloudHeadOk
  <2>5. head'.base = {c} /\ head'.flight = {} /\ head'.journal = head.journal
    BY <2>1, <2>4 DEF AdoptCloudHead, HeadInv, Heads
  <2>6. c.ackSeq >= b.ackSeq
    BY <2>2, <2>3, <2>4 DEF Bases, Seqs
  <2> QED BY <2>2, <2>3, <2>4, <2>5, <2>6
<1> QED BY <1>1, <1>2, <1>3

\* Every other step inside an epoch leaves the base and a present flight as they
\* are.
LEMMA QuietStep ==
    ASSUME HeadInv, NEW e \in Epochs, NEW w \in Writers,
           \/ ClaimTx(e, w) \/ AppendTx(e, w) \/ AppendBoundaryTx(e, w)
           \/ CompactTx(e, w) \/ ReplaceCheckpointTx(e, w)
           \/ ReplaceLocalCheckpointTx(e, w) \/ BeginFlightTx(e, w)
           \/ CommitCloudRecoveryTx(e, w) \/ SetControlTx(e, w) \/ ClearControlTx(e, w)
    PROVE  /\ head'.base = head.base
           /\ head.flight \subseteq head'.flight
           /\ PendingOps(head) \subseteq head'.journal
<1>1. CASE ClaimTx(e, w) \/ SetControlTx(e, w) \/ ClearControlTx(e, w)
  BY <1>1 DEF ClaimTx, Claim, SetControlTx, SetControl, ClearControlTx, ClearControl,
              HeadInv, Heads, PendingOps
<1>2. CASE AppendTx(e, w) \/ AppendBoundaryTx(e, w)
  BY <1>2 DEF AppendTx, AppendOp, AppendBoundaryTx, AppendBoundary, HeadInv, Heads, PendingOps
<1>3. CASE CompactTx(e, w)
  <2>1. PICK cp \in Checkpoints : head' = Compact(head, cp)
    BY <1>3 DEF CompactTx
  <2>2. /\ CompactedThrough(head, cp) \in Nat
        /\ \A b \in head.base : CompactedThrough(head, cp) <= b.ackSeq
    BY CompactedThroughBound
  <2>3. head'.base = head.base /\ head'.flight = head.flight
    BY <2>1 DEF Compact, HeadInv, Heads
  <2>4. head'.journal = {op \in head.journal : op.seq > CompactedThrough(head, cp)}
    BY <2>1 DEF Compact, HeadInv, Heads
  <2>5. ASSUME NEW op \in PendingOps(head)
        PROVE  op \in head'.journal
    <3>1. PICK b \in head.base : op \in head.journal /\ op.seq > b.ackSeq
      BY DEF PendingOps
    <3>2. op \in Operations /\ b \in Bases
      BY <3>1, MaybeMember DEF HeadInv, Heads
    <3>3. op.seq > CompactedThrough(head, cp)
      BY <2>2, <3>1, <3>2 DEF Operations, Bases, Seqs
    <3> QED BY <2>4, <3>1, <3>3
  <2> QED BY <2>3, <2>5
<1>4. CASE ReplaceCheckpointTx(e, w) \/ CommitCloudRecoveryTx(e, w)
  BY <1>4 DEF ReplaceCheckpointTx, ReplaceCheckpoint, CommitCloudRecoveryTx,
              CommitCloudRecovery, HeadInv, Heads, PendingOps
<1>5. CASE ReplaceLocalCheckpointTx(e, w)
  BY <1>5 DEF ReplaceLocalCheckpointTx, ReplaceLocalCheckpointOk, ReplaceLocalCheckpoint,
              HeadInv, Heads, PendingOps
<1>6. CASE BeginFlightTx(e, w)
  BY <1>6 DEF BeginFlightTx, BeginFlightOk, BeginFlight, HeadInv, Heads, PendingOps
<1> QED BY <1>1, <1>2, <1>3, <1>4, <1>5, <1>6

\* What the cloud has not acknowledged survives every step inside an epoch.
THEOREM UnackedNeverDroppedCorrect == Spec => UnackedNeverDropped
<1>1. ASSUME HeadInv, [Next]_head, head'.epoch = head.epoch
      PROVE  PendingOps(head) \subseteq head'.journal
  BY <1>1, SameEpochStep, CursorStep, QuietStep DEF PendingOps
<1>2. HeadInv /\ [Next]_head =>
          [head'.epoch = head.epoch => PendingOps(head) \subseteq head'.journal]_head
  BY <1>1
<1> QED BY <1>2, HeadAlwaysCorrect, PTL DEF Spec, UnackedNeverDropped

\* The cursor never moves back inside an epoch.
THEOREM CursorMonotonicCorrect == Spec => CursorMonotonic
<1>1. ASSUME HeadInv, [Next]_head, head'.epoch = head.epoch, NEW b \in head.base
      PROVE  \E c \in head'.base : c.revision >= b.revision /\ c.ackSeq >= b.ackSeq
  <2>1. CASE head'.base = head.base
    <3>1. b \in Bases
      BY <1>1, MaybeMember DEF HeadInv, Heads
    <3>2. b.revision >= b.revision /\ b.ackSeq >= b.ackSeq
      BY <3>1 DEF Bases, Seqs, Revisions
    <3> QED BY <2>1, <3>2
  <2> QED BY <1>1, <2>1, SameEpochStep, CursorStep, QuietStep
<1>2. HeadInv /\ [Next]_head =>
          [head'.epoch = head.epoch =>
              \A b \in head.base : \E c \in head'.base :
                 c.revision >= b.revision /\ c.ackSeq >= b.ackSeq]_head
  BY <1>1
<1> QED BY <1>2, HeadAlwaysCorrect, PTL DEF Spec, CursorMonotonic

\* A flight is settled exactly once, by an acknowledgement of exactly its range
\* or by a rejection that leaves the cursor for the next flight.
THEOREM FlightSettledOnceCorrect == Spec => FlightSettledOnce
<1>1. ASSUME HeadInv, [Next]_head, head'.epoch = head.epoch, NEW f \in head.flight
      PROVE  \/ f \in head'.flight
             \/ /\ head'.flight = {}
                /\ \E b \in head.base, c \in head'.base :
                      \/ c.ackSeq = f.endSeq
                      \/ c.ackSeq = b.ackSeq /\ c.revision > b.revision
  <2>1. CASE head' = head
    BY <2>1
  <2>2. ASSUME NEW e \in Epochs, NEW w \in Writers,
               AcknowledgeTx(e, w) \/ RejectFlightTx(e, w) \/ AdoptCloudHeadTx(e, w)
        PROVE  /\ head'.flight = {}
               /\ \E b \in head.base, c \in head'.base :
                     \/ c.ackSeq = f.endSeq
                     \/ c.ackSeq = b.ackSeq /\ c.revision > b.revision
    BY <1>1, <2>2, CursorStep
  <2> QED BY <1>1, <2>1, <2>2, SameEpochStep, QuietStep
<1>2. HeadInv /\ [Next]_head =>
          [head'.epoch = head.epoch =>
              \A f \in head.flight :
                 \/ f \in head'.flight
                 \/ /\ head'.flight = {}
                    /\ \E b \in head.base, c \in head'.base :
                          \/ c.ackSeq = f.endSeq
                          \/ c.ackSeq = b.ackSeq /\ c.revision > b.revision]_head
  BY <1>1
<1> QED BY <1>2, HeadAlwaysCorrect, PTL DEF Spec, FlightSettledOnce
=============================================================================
