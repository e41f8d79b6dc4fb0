--------------------------- MODULE FinanceLeaseProofs ---------------------------
(***************************************************************************)
(* The safety of the finance lease, for every set of jobs, manual or not,  *)
(* every number of losses, repetitions, expiries and departures.           *)
(***************************************************************************)
EXTENDS FinanceLease, SequenceTheorems, TLAPS

Owned(j) == row.token = j /\ row.live

(***************************************************************************)
(* The inductive invariant.  The order of the writes needs only that what  *)
(* was published is not ahead of the row; the release needs the calls.     *)
(***************************************************************************)

\* The server: what it took is behind its row, and of the row's epoch only
\* from the row's token.
BehindRow ==
    \A i \in 1..Len(published) :
        /\ published[i].epoch <= row.epoch
        /\ published[i].epoch = row.epoch => published[i].job = row.token

OrderInv == BehindRow /\ RefreshesDoNotInterleave

\* A call that is heard has one copy, which is a request or an answer, and
\* the job waits for it.
CallsMatch ==
    /\ \A m \in wire : m.heard => m.kind \in Awaiting(m.job)
    /\ \A r \in replies : r.kind \in Awaiting(r.job)
    /\ \A m, n \in wire :
          m.heard /\ n.heard /\ m.job = n.job /\ m.kind = n.kind => m = n
    /\ \A r, s \in replies : r.job = s.job /\ r.kind = s.kind => r = s
    /\ \A m \in wire, r \in replies : m.heard => m.job # r.job \/ m.kind # r.kind

\* The heartbeat beats under a grant that is held, and is joined by the release.
BeatsMatch ==
    \A j \in Jobs :
        /\ ~job[j].held => job[j].beat = "off"
        /\ job[j].pc \in {"new", "claiming"} => ~job[j].held
        /\ job[j].pc \in {"working", "writing"} => job[j].held
        /\ job[j].pc \in {"releasing", "done"} => job[j].beat # "renewing"

\* Nobody knows an epoch the server has not reached.
EpochsBehind ==
    /\ \A m \in wire : m.epoch <= row.epoch
    /\ \A r \in replies : r.epoch <= row.epoch
    /\ \A j \in Jobs : job[j].epoch <= row.epoch

\* A job that sent its release is past its work, and once the server processed
\* it no write of the job matches the row again.
FreedInv ==
    /\ \A m \in wire : m.kind = "release" => job[m.job].pc \in {"releasing", "done"}
    /\ \A j \in freed : job[j].pc \in {"releasing", "done"}
    /\ \A m \in wire : m.kind = "write" /\ m.job \in freed => ~Fence(m)

\* A job whose calls all came through, and which has not been granted the
\* lease or got the answer to its release, does not own the row.
Unheld(j) ==
    \/ job[j].pc \in {"new", "done"}
    \/ job[j].pc = "claiming" /\ \A r \in replies : r.job = j => ~r.ok
    \/ job[j].pc = "closing" /\ ~job[j].held
    \/ job[j].pc = "releasing" /\ \E r \in replies : r.job = j

LeaseInv ==
    /\ \A m \in wire : ~m.heard => job[m.job].lost
    /\ \A j \in Jobs \ retired : ~job[j].lost /\ Unheld(j) => ~Owned(j)

IInv == TypeOK /\ CallsMatch /\ BeatsMatch /\ EpochsBehind /\ FreedInv /\ LeaseInv

-----------------------------------------------------------------------------
(* Types *)

LEMMA Bounds ==
    /\ MaxExpiries \in Nat /\ MaxLosses \in Nat /\ MaxRenewals \in Nat
    /\ Manual \subseteq Jobs /\ NoJob \notin Jobs
BY JobsAssumption, BoundsAssumption

LEMMA RequestType ==
    ASSUME TypeOK, NEW j \in Jobs, NEW kind \in Kinds
    PROVE  Request(j, kind, job[j].epoch) \in Requests
BY DEF TypeOK, Request, Requests, JobStates

LEMMA AnswerType ==
    ASSUME TypeOK, NEW m \in wire, NEW ok \in BOOLEAN, NEW epoch \in Nat
    PROVE  Answer(m, ok, epoch) \subseteq Answers
BY DEF TypeOK, Answer, Requests, Answers

\* Giving up a call changes nothing on the wire but who listens.
LEMMA UnheardType ==
    ASSUME TypeOK, NEW j \in Jobs, NEW kind \in Kinds
    PROVE  Unheard(j, kind) \subseteq Requests /\ Unanswered(j, kind) \subseteq replies
BY DEF TypeOK, Unheard, Unanswered, Requests

LEMMA OverType ==
    ASSUME NEW r \in JobStates
    PROVE  Over(r) \in JobStates
<1>1. 0 \in Nat /\ 0 \in 0..MaxRenewals /\ 0 \in 0..Writes
  BY Bounds DEF Writes
<1>2. NewJob \in JobStates
  BY <1>1 DEF NewJob, JobStates
<1> QED BY <1>2 DEF Over, JobStates

\* What a step of job j leaves alone is typed; what is left is its own record.
LEMMA JobStepType ==
    ASSUME TypeOK, NEW j \in Jobs, NEW r \in JobStates, Became(j, r), Calm,
           wire' \subseteq Requests, replies' \subseteq Answers
    PROVE  TypeOK'
BY DEF TypeOK, Became, Calm

LEMMA TypeNext ==
    ASSUME TypeOK, [Next]_vars
    PROVE  TypeOK'
<1>0. /\ \A j \in Jobs : job[j] \in JobStates
      /\ \A j \in Jobs, kind \in Kinds : Send(j, kind) => wire' \subseteq Requests
      /\ wire \subseteq Requests /\ replies \subseteq Answers
  BY RequestType DEF TypeOK, Send
<1>1. ASSUME NEW j \in Jobs, Acquire(j) PROVE TypeOK'
  <2>1. [job[j] EXCEPT !.pc = "claiming", !.claims = @ + 1] \in JobStates
    <3>1. job[j].claims + 1 \in Nat
      BY <1>0 DEF JobStates
    <3> QED BY <1>0, <3>1 DEF JobStates
  <2> QED BY <1>0, <1>1, <2>1, JobStepType DEF Acquire, Kinds
<1>2. ASSUME NEW j \in Jobs, Write(j) PROVE TypeOK'
  <2>1. [job[j] EXCEPT !.pc = "writing", !.writes = @ + 1] \in JobStates
    <3>1. job[j].writes + 1 \in 0..Writes
      BY <1>0, <1>2 DEF JobStates, Write, Writes
    <3> QED BY <1>0, <3>1 DEF JobStates
  <2> QED BY <1>0, <1>2, <2>1, JobStepType DEF Write, Kinds
<1>3. ASSUME NEW j \in Jobs, Close(j) PROVE TypeOK'
  <2>1. [job[j] EXCEPT !.closing = TRUE, !.pc = IF @ = "working" THEN "closing" ELSE @]
            \in JobStates
    BY <1>0 DEF JobStates
  <2> QED BY <1>0, <1>3, <2>1, JobStepType DEF Close
<1>4. ASSUME NEW j \in Jobs, Renew(j) PROVE TypeOK'
  <2>1. [job[j] EXCEPT !.beat = "off", !.failed = TRUE] \in JobStates
    BY <1>0 DEF JobStates
  <2>2. [job[j] EXCEPT !.beat = "renewing", !.renewals = @ + 1] \in JobStates
    <3>1. job[j].renewals + 1 \in 0..MaxRenewals
      BY <1>0, <1>4, Bounds DEF JobStates, Renew
    <3> QED BY <1>0, <3>1 DEF JobStates
  <2> QED BY <1>0, <1>4, <2>1, <2>2, JobStepType DEF Renew, Kinds
<1>5. ASSUME NEW j \in Jobs, Release(j) PROVE TypeOK'
  <2>1. [job[j] EXCEPT !.pc = "releasing"] \in JobStates
    BY <1>0 DEF JobStates
  <2> QED BY <1>0, <1>5, <2>1, OverType, JobStepType DEF Release, Kinds
<1>6. ASSUME NEW j \in Jobs, ClaimAnswered(j) PROVE TypeOK'
  <2>1. \A r \in replies : Granted(j, r) \in JobStates
    BY <1>0 DEF JobStates, Granted, Answers
  <2>2. Refused(j) \in JobStates
    BY <1>0 DEF JobStates, Refused
  <2> QED BY <1>0, <1>6, <2>1, <2>2, JobStepType DEF ClaimAnswered
<1>7. ASSUME NEW j \in Jobs, WriteAnswered(j) PROVE TypeOK'
  <2>1. \A pc \in {"working", "closing"} : [job[j] EXCEPT !.pc = pc] \in JobStates
    BY <1>0 DEF JobStates
  <2> QED BY <1>0, <1>7, <2>1, JobStepType DEF WriteAnswered
<1>8. ASSUME NEW j \in Jobs, RenewAnswered(j) PROVE TypeOK'
  <2>1. \A beat \in {"armed", "off"}, failed \in BOOLEAN :
            [job[j] EXCEPT !.beat = beat, !.failed = failed] \in JobStates
    BY <1>0 DEF JobStates
  <2> QED BY <1>0, <1>8, <2>1, JobStepType DEF RenewAnswered
<1>9. ASSUME NEW j \in Jobs, ReleaseAnswered(j) PROVE TypeOK'
  BY <1>0, <1>9, OverType, JobStepType DEF ReleaseAnswered
<1>10. ASSUME NEW j \in Jobs, Lose(j) PROVE TypeOK'
  <2>1. PICK kind \in Kinds : GiveUp(j, kind) \/ Resend(j, kind)
    BY <1>10 DEF Lose, Kinds
  <2>2. [job[j] EXCEPT !.lost = TRUE] \in JobStates
    BY <1>0 DEF JobStates
  <2>3. \A r \in JobStates : /\ [r EXCEPT !.beat = "off", !.failed = TRUE] \in JobStates
                            /\ [r EXCEPT !.pc = "closing"] \in JobStates
    BY DEF JobStates
  <2>4. \E r \in JobStates : Became(j, r)
    BY <2>1, <2>2, <2>3, OverType DEF GiveUp, Resend
  <2>5. wire' \subseteq Requests /\ replies' \subseteq replies
    BY <2>1, UnheardType, RequestType DEF GiveUp, Resend
  <2>6. faults' \in [expiries : 0..MaxExpiries, losses : 0..MaxLosses]
    <3>1. faults.losses + 1 \in 0..MaxLosses
      BY <1>10, Bounds DEF Lose, TypeOK
    <3> QED BY <1>10, <3>1 DEF Lose, TypeOK
  <2> QED BY <1>0, <1>10, <2>4, <2>5, <2>6 DEF Lose, TypeOK, Became
<1>11. ASSUME NEW j \in Jobs, Dispose(j) \/ Retire(j) PROVE TypeOK'
  BY <1>11 DEF Dispose, Retire, TypeOK
<1>12. ASSUME NEW m \in wire, Serve(m) PROVE TypeOK'
  <2>1. wire' \subseteq Requests
    BY <1>0, <1>12 DEF Serve
  <2>2. m.job \in Jobs /\ m.epoch \in Nat /\ ClaimedRow(m.job) \in Rows /\ row.epoch \in Nat
    BY <1>0 DEF TypeOK, ClaimedRow, Requests, Rows
  <2>3. CASE ServeClaim(m)
    <3>1. row' \in Rows
      BY <2>2, <2>3 DEF ServeClaim, TypeOK
    <3>2. replies' \subseteq Answers
      BY <1>0, <2>3, <3>1, AnswerType DEF ServeClaim, Rows, TypeOK
    <3> QED BY <1>12, <2>1, <2>3, <3>1, <3>2 DEF Serve, ServeClaim, TypeOK
  <2>4. CASE ServeRelease(m)
    <3>1. row' \in Rows
      BY <2>4 DEF ServeRelease, TypeOK, Rows
    <3> QED BY <1>0, <1>12, <2>1, <2>2, <2>4, <3>1, AnswerType DEF Serve, ServeRelease, TypeOK
  <2>5. CASE ServeWrite(m)
    <3>1. published' \in Seq([job : Jobs, epoch : Nat])
      <4>1. [job |-> m.job, epoch |-> m.epoch] \in [job : Jobs, epoch : Nat]
        BY <2>2
      <4>2. Append(published, [job |-> m.job, epoch |-> m.epoch])
                \in Seq([job : Jobs, epoch : Nat])
        BY <4>1, AppendProperties DEF TypeOK
      <4> QED BY <2>5, <4>2 DEF ServeWrite, TypeOK
    <3> QED BY <1>0, <1>12, <2>1, <2>5, <3>1, AnswerType DEF Serve, ServeWrite, Fence, TypeOK
  <2> QED BY <1>12, <2>3, <2>4, <2>5 DEF Serve
<1>13. CASE Expire
  <2>1. row' \in Rows
    BY <1>13 DEF Expire, TypeOK, Rows
  <2>2. faults' \in [expiries : 0..MaxExpiries, losses : 0..MaxLosses]
    <3>1. faults.expiries + 1 \in 0..MaxExpiries
      BY <1>13, Bounds DEF Expire, TypeOK
    <3> QED BY <1>13, <3>1 DEF Expire, TypeOK
  <2> QED BY <1>13, <2>1, <2>2 DEF Expire, TypeOK
<1>14. CASE UNCHANGED vars
  BY <1>14 DEF vars, TypeOK
<1> QED
  BY <1>1, <1>2, <1>3, <1>4, <1>5, <1>6, <1>7, <1>8, <1>9, <1>10, <1>11, <1>12, <1>13, <1>14
     DEF Next, Answered

LEMMA TypeInit == Init => TypeOK
BY Bounds DEF Init, TypeOK, Rows, JobStates, NewJob, Writes

\* Every variable keeps its type, whatever is lost, repeated or late.
THEOREM LeaseTypes == Spec => []TypeOK
BY TypeInit, TypeNext, PTL DEF Spec

-----------------------------------------------------------------------------
(* The order of the writes *)

\* What a step does to the row and to what was published: nothing, the end of
\* the lease, a claim that renews the epoch or moves past it, or a write of
\* the row's job in the row's epoch.
LEMMA ServerStep ==
    ASSUME TypeOK, [Next]_vars
    PROVE  \/ row' = row /\ published' = published
           \/ /\ row'.epoch = row.epoch /\ row'.token = row.token
              /\ published' = published
           \/ row'.epoch = row.epoch + 1 /\ published' = published
           \/ /\ row' = row /\ row.token \in Jobs
              /\ published' = Append(published, [job |-> row.token, epoch |-> row.epoch])
<1>1. ASSUME NEW j \in Jobs,
             Acquire(j) \/ Write(j) \/ Close(j) \/ Renew(j) \/ Release(j) \/ Answered(j)
      PROVE  row' = row /\ published' = published
  BY <1>1 DEF Acquire, Write, Close, Renew, Release, Answered, ClaimAnswered, WriteAnswered,
              RenewAnswered, ReleaseAnswered, Calm
<1>2. ASSUME NEW j \in Jobs, Lose(j) \/ Dispose(j) \/ Retire(j)
      PROVE  row' = row /\ published' = published
  BY <1>2 DEF Lose, Dispose, Retire
<1>3. ASSUME NEW m \in wire, ServeClaim(m)
      PROVE  /\ published' = published
             /\ \/ row' = row
                \/ row'.epoch = row.epoch /\ row'.token = row.token
                \/ row'.epoch = row.epoch + 1
  BY <1>3 DEF ServeClaim, ClaimedRow
<1>4. ASSUME NEW m \in wire, ServeRelease(m)
      PROVE  row'.epoch = row.epoch /\ row'.token = row.token /\ published' = published
  BY <1>4 DEF ServeRelease, TypeOK, Rows
<1>5. ASSUME NEW m \in wire, ServeWrite(m)
      PROVE  /\ row' = row
             /\ \/ published' = published
                \/ /\ row.token \in Jobs
                   /\ published' = Append(published, [job |-> row.token, epoch |-> row.epoch])
  BY <1>5 DEF ServeWrite, Fence, TypeOK, Requests
<1>6. CASE Expire
  BY <1>6 DEF Expire, TypeOK, Rows
<1>7. CASE UNCHANGED vars
  BY <1>7 DEF vars
<1> QED BY <1>1, <1>2, <1>3, <1>4, <1>5, <1>6, <1>7 DEF Next, Serve

LEMMA OrderNext ==
    ASSUME TypeOK, OrderInv, [Next]_vars
    PROVE  OrderInv'
<1>1. /\ row.epoch \in Nat /\ Len(published) \in Nat
      /\ \A i \in 1..Len(published) : published[i].epoch \in Nat
  <2>1. \A i \in 1..Len(published) : published[i] \in [job : Jobs, epoch : Nat]
    BY ElementOfSeq DEF TypeOK
  <2> QED BY <2>1 DEF TypeOK, Rows
<1>2. CASE published' = published /\ row'.epoch = row.epoch /\ row'.token = row.token
  BY <1>2 DEF OrderInv, BehindRow, RefreshesDoNotInterleave
<1>3. CASE published' = published /\ row'.epoch = row.epoch + 1
  <2>1. \A i \in 1..Len(published) : published[i].epoch < row'.epoch
    BY <1>1, <1>3 DEF OrderInv, BehindRow
  <2>2. BehindRow'
    BY <1>1, <1>3, <2>1 DEF BehindRow
  <2> QED BY <1>3, <2>2 DEF OrderInv, RefreshesDoNotInterleave
<1>4. CASE /\ row' = row /\ row.token \in Jobs
           /\ published' = Append(published, [job |-> row.token, epoch |-> row.epoch])
  <2> DEFINE w == [job |-> row.token, epoch |-> row.epoch]
  <2>1. /\ Len(published') = Len(published) + 1
        /\ published'[Len(published) + 1] = w
        /\ \A i \in 1..Len(published) : published'[i] = published[i]
    BY <1>1, <1>4, AppendProperties DEF TypeOK
  <2>2. \A i \in 1..Len(published') : i \in 1..Len(published) \/ i = Len(published) + 1
    BY <1>1, <2>1
  <2>3. BehindRow'
    BY <1>1, <1>4, <2>1, <2>2 DEF OrderInv, BehindRow
  <2>4. RefreshesDoNotInterleave'
    BY <1>1, <1>4, <2>1, <2>2 DEF OrderInv, BehindRow, RefreshesDoNotInterleave
  <2> QED BY <2>3, <2>4 DEF OrderInv
<1> QED BY <1>2, <1>3, <1>4, ServerStep

\* The writes of two refreshes, or of a refresh and a manual edit, never
\* interleave on the server, however many leases expire and requests come late
\* or twice: the fence of finance-lease-owner.js suffices without any clock.
THEOREM WritesInOrder == Spec => []RefreshesDoNotInterleave
<1>1. Init => OrderInv
  BY DEF Init, OrderInv, BehindRow, RefreshesDoNotInterleave
<1>2. TypeOK /\ OrderInv /\ [Next]_vars => OrderInv'
  BY OrderNext
<1>3. OrderInv => RefreshesDoNotInterleave
  BY DEF OrderInv
<1> QED BY <1>1, <1>2, <1>3, LeaseTypes, PTL DEF Spec

-----------------------------------------------------------------------------
(* Calls and heartbeats *)

LEMMA BecameOnly ==
    ASSUME TypeOK, NEW j \in Jobs, NEW r, Became(j, r)
    PROVE  /\ job'[j] = r
           /\ \A k \in Jobs \ {j} : job'[k] = job[k] /\ Awaiting(k)' = Awaiting(k)
BY DEF TypeOK, Became, Awaiting, Awaited

\* What the steps of a job do to the fields the invariants look at.
Kept(j) ==
    /\ job'[j].held = job[j].held
    /\ job'[j].lost = job[j].lost
    /\ job'[j].epoch = job[j].epoch

LEMMA JobType == TypeOK => \A j \in Jobs : job[j] \in JobStates
BY DEF TypeOK

LEMMA AcquireStep ==
    ASSUME TypeOK, NEW j \in Jobs, Acquire(j)
    PROVE  /\ job[j].pc = "new" /\ job'[j].pc = "claiming"
           /\ job'[j].beat = job[j].beat /\ Kept(j)
<1>1. job[j] \in JobStates
  BY JobType
<1>2. job'[j] = [job[j] EXCEPT !.pc = "claiming", !.claims = @ + 1]
  BY BecameOnly DEF Acquire
<1>3. job[j].pc = "new"
  BY DEF Acquire
<1> QED BY <1>1, <1>2, <1>3 DEF JobStates, Kept

LEMMA WriteStep ==
    ASSUME TypeOK, NEW j \in Jobs, Write(j)
    PROVE  /\ job[j].pc = "working" /\ job'[j].pc = "writing"
           /\ job'[j].beat = job[j].beat /\ Kept(j)
<1>1. job[j] \in JobStates
  BY JobType
<1>2. job'[j] = [job[j] EXCEPT !.pc = "writing", !.writes = @ + 1]
  BY BecameOnly DEF Write
<1>3. job[j].pc = "working"
  BY DEF Write
<1> QED BY <1>1, <1>2, <1>3 DEF JobStates, Kept

LEMMA CloseStep ==
    ASSUME TypeOK, NEW j \in Jobs, Close(j)
    PROVE  /\ \/ job[j].pc = "claiming" /\ job'[j].pc = "claiming"
              \/ job[j].pc = "working" /\ job'[j].pc = "closing"
           /\ job'[j].beat = job[j].beat /\ Kept(j)
<1>1. job[j] \in JobStates
  BY JobType
<1>2. job'[j] = [job[j] EXCEPT !.closing = TRUE,
                               !.pc = IF @ = "working" THEN "closing" ELSE @]
  BY BecameOnly DEF Close
<1>3. job[j].pc \in {"claiming", "working"}
  BY DEF Close
<1> QED BY <1>1, <1>2, <1>3 DEF JobStates, Kept

LEMMA RenewStep ==
    ASSUME TypeOK, NEW j \in Jobs, Renew(j)
    PROVE  /\ job[j].pc \in {"working", "writing"} /\ job'[j].pc = job[j].pc
           /\ job[j].beat = "armed" /\ Kept(j)
           /\ \/ job'[j].beat = "off" /\ UNCHANGED wire
              \/ job'[j].beat = "renewing" /\ Send(j, "renew")
<1>1. job[j] \in JobStates
  BY JobType
<1>2. \/ /\ job'[j] = [job[j] EXCEPT !.beat = "off", !.failed = TRUE]
         /\ UNCHANGED wire
      \/ /\ job'[j] = [job[j] EXCEPT !.beat = "renewing", !.renewals = @ + 1]
         /\ Send(j, "renew")
  BY BecameOnly DEF Renew
<1>3. job[j].pc \in {"working", "writing"} /\ job[j].beat = "armed"
  BY DEF Renew
<1> QED BY <1>1, <1>2, <1>3 DEF JobStates, Kept

LEMMA OverStep ==
    ASSUME TypeOK, NEW j \in Jobs, Became(j, Over(job[j]))
    PROVE  /\ job'[j].pc = "done" /\ job'[j].beat = "off" /\ ~job'[j].held
           /\ job'[j].lost = job[j].lost /\ job'[j].epoch = 0
<1>1. job'[j] = Over(job[j])
  BY BecameOnly
<1> QED BY <1>1 DEF Over, NewJob

LEMMA ReleaseStep ==
    ASSUME TypeOK, NEW j \in Jobs, Release(j)
    PROVE  /\ job[j].pc = "closing" /\ job[j].beat # "renewing"
           /\ \/ /\ job'[j].pc = "releasing" /\ job'[j].beat = job[j].beat /\ Kept(j)
                 /\ job[j].held /\ Send(j, "release")
              \/ /\ job'[j].pc = "done" /\ job'[j].beat = "off" /\ ~job'[j].held
                 /\ job'[j].lost = job[j].lost /\ job'[j].epoch = 0
                 /\ ~job[j].held \/ j \in retired
                 /\ UNCHANGED wire
BY JobType, BecameOnly, OverStep DEF JobStates, Release, Kept

\* The answer a step of job j takes.
Takes(j, r) == r.job = j /\ replies' = replies \ {r} /\ UNCHANGED wire

LEMMA GrantedStep ==
    ASSUME TypeOK, NEW j \in Jobs, NEW r \in replies, Became(j, Granted(j, r)),
           job[j].pc = "claiming"
    PROVE  /\ job'[j].lost = job[j].lost
           /\ job'[j].pc \in {"working", "closing"}
           /\ \/ /\ j \in retired /\ job'[j].pc = "closing"
                 /\ Kept(j) /\ job'[j].beat = job[j].beat
              \/ job'[j].held /\ job'[j].epoch = r.epoch /\ job'[j].beat \in {"armed", "off"}
<1>1. job[j] \in JobStates
  BY JobType
<1>2. job'[j] = Granted(j, r)
  BY BecameOnly
<1> QED BY <1>1, <1>2 DEF JobStates, Granted, Kept

LEMMA RefusedStep ==
    ASSUME TypeOK, NEW j \in Jobs, Became(j, Refused(j))
    PROVE  /\ job'[j].pc \in {"new", "closing"}
           /\ job'[j].beat = job[j].beat /\ Kept(j)
BY JobType, BecameOnly DEF JobStates, Refused, Kept

LEMMA WriteAnsweredStep ==
    ASSUME TypeOK, CallsMatch, NEW j \in Jobs, WriteAnswered(j)
    PROVE  /\ job[j].pc = "writing" /\ job'[j].pc \in {"working", "closing"}
           /\ job'[j].beat = job[j].beat /\ Kept(j)
           /\ \E r \in replies : r.kind = "write" /\ Takes(j, r)
<1>1. PICK r \in replies :
          /\ r.kind = "write" /\ Takes(j, r)
          /\ Became(j, [job[j] EXCEPT !.pc = IF r.ok THEN "working" ELSE "closing"])
  BY DEF WriteAnswered, Takes
<1>2. job[j].pc = "writing"
  BY <1>1 DEF CallsMatch, Awaiting, Awaited, Takes
<1>3. job'[j] \in {[job[j] EXCEPT !.pc = pc] : pc \in {"working", "closing"}}
  BY <1>1, BecameOnly
<1> QED BY <1>1, <1>2, <1>3, JobType DEF JobStates, Kept

LEMMA RenewAnsweredStep ==
    ASSUME TypeOK, CallsMatch, NEW j \in Jobs, RenewAnswered(j)
    PROVE  /\ job[j].beat = "renewing" /\ job'[j].beat \in {"armed", "off"}
           /\ job'[j].pc = job[j].pc /\ Kept(j)
           /\ \E r \in replies : r.kind = "renew" /\ Takes(j, r)
<1>1. PICK r \in replies, beat \in {"armed", "off"}, failed \in BOOLEAN :
          /\ r.kind = "renew" /\ Takes(j, r)
          /\ Became(j, [job[j] EXCEPT !.beat = beat, !.failed = failed])
  BY DEF RenewAnswered, Takes
<1>2. job[j].beat = "renewing"
  BY <1>1 DEF CallsMatch, Awaiting, Awaited, Takes
<1>3. job'[j] = [job[j] EXCEPT !.beat = beat, !.failed = failed]
  BY <1>1, BecameOnly
<1> QED BY <1>1, <1>2, <1>3, JobType DEF JobStates, Kept

LEMMA ReleaseAnsweredStep ==
    ASSUME TypeOK, CallsMatch, NEW j \in Jobs, ReleaseAnswered(j)
    PROVE  /\ job[j].pc = "releasing" /\ job'[j].pc = "done"
           /\ job'[j].beat = "off" /\ ~job'[j].held
           /\ job'[j].lost = job[j].lost /\ job'[j].epoch = 0
           /\ \E r \in replies : r.kind = "release" /\ Takes(j, r)
BY OverStep DEF ReleaseAnswered, CallsMatch, Awaiting, Awaited, Takes

LEMMA ClaimAnsweredStep ==
    ASSUME TypeOK, CallsMatch, BeatsMatch, NEW j \in Jobs, ClaimAnswered(j)
    PROVE  /\ job[j].pc = "claiming" /\ ~job[j].held /\ job[j].beat = "off"
           /\ \E r \in replies :
                 /\ r.kind = "claim" /\ Takes(j, r)
                 /\ Became(j, IF r.ok THEN Granted(j, r) ELSE Refused(j))
BY DEF ClaimAnswered, CallsMatch, BeatsMatch, Awaiting, Awaited, Takes

LEMMA GiveUpStep ==
    ASSUME TypeOK, BeatsMatch, NEW j \in Jobs, NEW kind \in Kinds, GiveUp(j, kind)
    PROVE  /\ job'[j].lost
           /\ \/ /\ kind = "renew" /\ job[j].beat = "renewing" /\ job'[j].beat = "off"
                 /\ job'[j].pc = job[j].pc
                 /\ job'[j].epoch = job[j].epoch /\ job'[j].held = job[j].held
              \/ /\ kind = "release" /\ job[j].pc = "releasing" /\ job[j].beat # "renewing"
                 /\ job'[j].pc = "done" /\ job'[j].beat = "off" /\ job'[j].epoch = 0
                 /\ ~job'[j].held
              \/ /\ kind = "claim" /\ job[j].pc = "claiming" /\ job'[j].pc = "closing"
                 /\ job'[j].beat = job[j].beat
                 /\ job'[j].epoch = job[j].epoch /\ job'[j].held = job[j].held
              \/ /\ kind = "write" /\ job[j].pc = "writing" /\ job'[j].pc = "closing"
                 /\ job'[j].beat = job[j].beat
                 /\ job'[j].epoch = job[j].epoch /\ job'[j].held = job[j].held
<1>1. job[j] \in JobStates
  BY JobType
<1> DEFINE r == [job[j] EXCEPT !.lost = TRUE]
<1>2. r \in JobStates /\ r.lost /\ r.pc = job[j].pc /\ r.beat = job[j].beat
      /\ r.epoch = job[j].epoch /\ r.held = job[j].held
  BY <1>1 DEF JobStates
<1>3. /\ kind \in Awaiting(j)
      /\ job'[j] = CASE kind = "renew"   -> [r EXCEPT !.beat = "off", !.failed = TRUE]
                     [] kind = "release" -> Over(r)
                     [] OTHER            -> [r EXCEPT !.pc = "closing"]
  BY BecameOnly DEF GiveUp
<1> HIDE DEF r
<1>4. CASE kind = "renew"
  <2>1. job'[j] = [r EXCEPT !.beat = "off", !.failed = TRUE]
    BY <1>3, <1>4
  <2>2. job[j].beat = "renewing"
    BY <1>3, <1>4 DEF Awaiting, Awaited
  <2> QED BY <1>2, <1>4, <2>1, <2>2 DEF JobStates
<1>5. CASE kind = "release"
  <2>1. job'[j] = Over(r)
    BY <1>3, <1>5
  <2>2. job[j].pc = "releasing" /\ job[j].beat # "renewing"
    BY <1>3, <1>5 DEF Awaiting, Awaited, BeatsMatch
  <2> QED BY <1>2, <1>5, <2>1, <2>2 DEF Over, NewJob
<1>6. CASE kind \in {"claim", "write"}
  <2>1. job'[j] = [r EXCEPT !.pc = "closing"]
    BY <1>3, <1>6
  <2>2. \/ kind = "claim" /\ job[j].pc = "claiming"
        \/ kind = "write" /\ job[j].pc = "writing"
    BY <1>3, <1>6 DEF Awaiting, Awaited
  <2> QED BY <1>2, <2>1, <2>2 DEF JobStates
<1> QED BY <1>4, <1>5, <1>6 DEF Kinds

LEMMA ResendStep ==
    ASSUME TypeOK, NEW j \in Jobs, NEW kind \in Kinds, Resend(j, kind)
    PROVE  /\ kind \in Awaiting(j)
           /\ job'[j].lost
           /\ job'[j].pc = job[j].pc /\ job'[j].beat = job[j].beat
           /\ job'[j].epoch = job[j].epoch /\ job'[j].held = job[j].held
BY JobType, BecameOnly DEF Resend, JobStates

\* A job that still waits for all it waited for, or for more.
LEMMA CallsKept ==
    ASSUME TypeOK, CallsMatch, UNCHANGED <<wire, replies>>,
           \A k \in Jobs : Awaiting(k) \subseteq Awaiting(k)'
    PROVE  CallsMatch'
BY DEF TypeOK, CallsMatch, Requests, Answers

\* A call is sent only when the job has none of its kind in progress.
LEMMA CallSent ==
    ASSUME TypeOK, CallsMatch, NEW j \in Jobs, NEW kind \in Kinds \ Awaiting(j),
           Send(j, kind), UNCHANGED replies,
           Awaiting(j) \cup {kind} \subseteq Awaiting(j)',
           \A k \in Jobs \ {j} : Awaiting(k)' = Awaiting(k)
    PROVE  CallsMatch'
<1> DEFINE q == Request(j, kind, job[j].epoch)
<1>1. q.job = j /\ q.kind = kind /\ wire' = wire \cup {q}
  BY DEF Request, Send
<1>2. \A k \in Jobs : Awaiting(k) \subseteq Awaiting(k)'
  OBVIOUS
<1>3. \A m \in wire : m.heard => m.job # j \/ m.kind # kind
  BY DEF CallsMatch
<1>4. \A r \in replies : r.job # j \/ r.kind # kind
  BY DEF CallsMatch
<1> HIDE DEF q
<1> QED BY <1>1, <1>2, <1>3, <1>4 DEF TypeOK, CallsMatch, Requests, Answers

\* Its answer ends it.
LEMMA CallTaken ==
    ASSUME TypeOK, CallsMatch, NEW r \in replies, replies' = replies \ {r}, UNCHANGED wire,
           Awaiting(r.job) \ {r.kind} \subseteq Awaiting(r.job)',
           \A k \in Jobs \ {r.job} : Awaiting(k)' = Awaiting(k)
    PROVE  CallsMatch'
<1>1. \A m \in wire : m.heard /\ m.job = r.job => m.kind # r.kind
  BY DEF CallsMatch
<1>2. \A s \in replies' : s.job = r.job => s.kind # r.kind
  BY DEF CallsMatch
<1> QED BY <1>1, <1>2 DEF TypeOK, CallsMatch, Requests, Answers

\* Nobody hears a call that was given up.
LEMMA CallUnheard ==
    ASSUME TypeOK, CallsMatch, NEW j \in Jobs, NEW kind \in Kinds
    PROVE  /\ \A m \in Unheard(j, kind) :
                  m.heard => m \in wire /\ (m.job # j \/ m.kind # kind)
           /\ \A r \in Unanswered(j, kind) : r \in replies /\ (r.job # j \/ r.kind # kind)
<1>1. ASSUME NEW n \in wire, [n EXCEPT !.heard = @ /\ ~(n.job = j /\ n.kind = kind)].heard
      PROVE  /\ [n EXCEPT !.heard = @ /\ ~(n.job = j /\ n.kind = kind)] = n
             /\ n.job # j \/ n.kind # kind
  BY <1>1 DEF TypeOK, Requests
<1> QED BY <1>1 DEF Unheard, Unanswered

LEMMA CallsNext ==
    ASSUME TypeOK, CallsMatch, BeatsMatch, [Next]_vars
    PROVE  CallsMatch'
<1>0. \A j \in Jobs : /\ Awaiting(j) = Awaited(j) \cup IF job[j].beat = "renewing"
                                                     THEN {"renew"} ELSE {}
                      /\ Awaiting(j)' = Awaited(j)' \cup IF job'[j].beat = "renewing"
                                                       THEN {"renew"} ELSE {}
  BY DEF Awaiting
<1>1. ASSUME NEW j \in Jobs, Acquire(j) PROVE CallsMatch'
  <2>1. Awaited(j) = {} /\ Awaited(j)' = {"claim"} /\ job'[j].beat = job[j].beat
    BY <1>1, AcquireStep DEF Awaited
  <2> QED BY <1>0, <1>1, <2>1, BecameOnly, CallSent DEF Acquire, Kinds
<1>2. ASSUME NEW j \in Jobs, Write(j) PROVE CallsMatch'
  <2>1. Awaited(j) = {} /\ Awaited(j)' = {"write"} /\ job'[j].beat = job[j].beat
    BY <1>2, WriteStep DEF Awaited
  <2> QED BY <1>0, <1>2, <2>1, BecameOnly, CallSent DEF Write, Kinds
<1>3. ASSUME NEW j \in Jobs, Close(j) PROVE CallsMatch'
  <2>1. Awaited(j)' = Awaited(j) /\ job'[j].beat = job[j].beat
    BY <1>3, CloseStep DEF Awaited
  <2> QED BY <1>0, <1>3, <2>1, BecameOnly, CallsKept DEF Close
<1>4. ASSUME NEW j \in Jobs, Renew(j) PROVE CallsMatch'
  <2>1. /\ Awaited(j)' = Awaited(j) /\ job[j].beat = "armed" /\ "renew" \notin Awaited(j)
    BY <1>4, RenewStep DEF Awaited
  <2>2. \A k \in Jobs \ {j} : Awaiting(k)' = Awaiting(k)
    BY <1>4, BecameOnly DEF Renew
  <2>3. CASE UNCHANGED wire
    BY <1>0, <1>4, <2>1, <2>2, <2>3, CallsKept DEF Renew
  <2>4. CASE job'[j].beat = "renewing" /\ Send(j, "renew")
    BY <1>0, <1>4, <2>1, <2>2, <2>4, CallSent DEF Renew, Kinds
  <2> QED BY <1>4, <2>3, <2>4, RenewStep
<1>5. ASSUME NEW j \in Jobs, Release(j) PROVE CallsMatch'
  <2>1. Awaiting(j) = {}
    BY <1>0, <1>5, ReleaseStep DEF Awaited
  <2>2. \A k \in Jobs \ {j} : Awaiting(k)' = Awaiting(k)
    BY <1>5, BecameOnly DEF Release
  <2>3. CASE Send(j, "release") /\ job'[j].pc = "releasing"
    <3>1. "release" \in Awaiting(j)'
      BY <1>0, <2>3 DEF Awaited
    <3> QED BY <1>5, <2>1, <2>2, <2>3, <3>1, CallSent DEF Release, Kinds
  <2>4. CASE UNCHANGED wire
    BY <1>5, <2>1, <2>2, <2>4, CallsKept DEF Release
  <2> QED BY <1>5, <2>3, <2>4, ReleaseStep
<1>6. ASSUME NEW j \in Jobs, ClaimAnswered(j) PROVE CallsMatch'
  <2>1. PICK r \in replies : /\ r.kind = "claim" /\ Takes(j, r)
                             /\ Became(j, IF r.ok THEN Granted(j, r) ELSE Refused(j))
    BY <1>6, ClaimAnsweredStep
  <2>2. Awaiting(j) = {"claim"}
    BY <1>0, <1>6, ClaimAnsweredStep DEF Awaited
  <2> QED BY <2>1, <2>2, BecameOnly, CallTaken DEF Takes
<1>7. ASSUME NEW j \in Jobs, WriteAnswered(j) PROVE CallsMatch'
  <2>1. PICK r \in replies : r.kind = "write" /\ Takes(j, r)
    BY <1>7, WriteAnsweredStep
  <2>2. Awaiting(j) \ {"write"} \subseteq Awaiting(j)'
    BY <1>0, <1>7, WriteAnsweredStep DEF Awaited
  <2> QED BY <1>7, <2>1, <2>2, BecameOnly, CallTaken DEF Takes, WriteAnswered
<1>8. ASSUME NEW j \in Jobs, RenewAnswered(j) PROVE CallsMatch'
  <2>1. PICK r \in replies : r.kind = "renew" /\ Takes(j, r)
    BY <1>8, RenewAnsweredStep
  <2>2. Awaiting(j) \ {"renew"} \subseteq Awaiting(j)'
    BY <1>0, <1>8, RenewAnsweredStep DEF Awaited
  <2> QED BY <1>8, <2>1, <2>2, BecameOnly, CallTaken DEF Takes, RenewAnswered
<1>9. ASSUME NEW j \in Jobs, ReleaseAnswered(j) PROVE CallsMatch'
  <2>1. PICK r \in replies : r.kind = "release" /\ Takes(j, r)
    BY <1>9, ReleaseAnsweredStep
  <2>2. Awaiting(j) \subseteq {"release"}
    BY <1>0, <1>9, ReleaseAnsweredStep DEF Awaited, BeatsMatch
  <2> QED BY <1>9, <2>1, <2>2, BecameOnly, CallTaken DEF Takes, ReleaseAnswered
<1>10. ASSUME NEW j \in Jobs, NEW kind \in Kinds, GiveUp(j, kind) PROVE CallsMatch'
  <2>1. Awaiting(j) \ {kind} \subseteq Awaiting(j)'
    BY <1>0, <1>10, GiveUpStep DEF Awaited
  <2>2. \A k \in Jobs \ {j} : Awaiting(k)' = Awaiting(k)
    BY <1>10, BecameOnly DEF GiveUp
  <2>3. wire' = Unheard(j, kind) /\ replies' = Unanswered(j, kind)
    BY <1>10 DEF GiveUp
  <2> QED BY <2>1, <2>2, <2>3, CallUnheard DEF TypeOK, CallsMatch, Requests, Answers
<1>11. ASSUME NEW j \in Jobs, NEW kind \in Kinds, Resend(j, kind) PROVE CallsMatch'
  <2> DEFINE q == Request(j, kind, job[j].epoch)
  <2>1. \A k \in Jobs : Awaiting(k)' = Awaiting(k)
    <3>1. Awaiting(j)' = Awaiting(j)
      BY <1>0, <1>11, ResendStep DEF Awaited
    <3> QED BY <1>11, <3>1, BecameOnly DEF Resend
  <2>2. q.job = j /\ q.kind = kind /\ kind \in Awaiting(j)
    BY <1>11, ResendStep DEF Request
  <2>3. wire' = Unheard(j, kind) \cup {q} /\ replies' = Unanswered(j, kind)
    BY <1>11 DEF Resend
  <2> HIDE DEF q
  <2>4. /\ \A m \in wire' : m.heard => m = q \/ (m \in wire /\ (m.job # j \/ m.kind # kind))
        /\ \A r \in replies' : r \in replies /\ (r.job # j \/ r.kind # kind)
    BY <2>3, CallUnheard
  <2> QED BY <2>1, <2>2, <2>4 DEF TypeOK, CallsMatch, Requests, Answers
<1>12. ASSUME NEW m \in wire, Serve(m) PROVE CallsMatch'
  <2>1. PICK ok, epoch : replies' = replies \cup Answer(m, ok, epoch)
    BY <1>12 DEF Serve, ServeClaim, ServeRelease, ServeWrite
  <2>2. wire' = wire \ {m} /\ \A k \in Jobs : Awaiting(k)' = Awaiting(k)
    BY <1>12 DEF Serve, Awaiting, Awaited
  <2>3. \A r \in replies' : r \in replies \/ (m.heard /\ r.job = m.job /\ r.kind = m.kind)
    BY <2>1 DEF Answer
  <2>4. \A r, s \in replies' : r.job = s.job /\ r.kind = s.kind => r = s
    BY <2>1 DEF Answer, CallsMatch
  <2> QED BY <2>2, <2>3, <2>4 DEF TypeOK, CallsMatch, Requests, Answers
<1>13. CASE UNCHANGED <<wire, replies, job>>
  BY <1>13, CallsKept DEF Awaiting, Awaited
<1> QED
  BY <1>1, <1>2, <1>3, <1>4, <1>5, <1>6, <1>7, <1>8, <1>9, <1>10, <1>11, <1>12, <1>13
     DEF Next, Answered, Lose, Dispose, Retire, Expire, vars, Kinds

LEMMA BeatsNext ==
    ASSUME TypeOK, CallsMatch, BeatsMatch, [Next]_vars
    PROVE  BeatsMatch'
<1> DEFINE Ok(r) == /\ ~r.held => r.beat = "off"
                    /\ r.pc \in {"new", "claiming"} => ~r.held
                    /\ r.pc \in {"working", "writing"} => r.held
                    /\ r.pc \in {"releasing", "done"} => r.beat # "renewing"
<1>0. /\ \A j \in Jobs : Ok(job[j])
      /\ (\A j \in Jobs : Ok(job'[j])) => BeatsMatch'
  BY DEF BeatsMatch
<1> DEFINE Only(j) == \A k \in Jobs \ {j} : job'[k] = job[k]
<1>1. ASSUME NEW j \in Jobs, Acquire(j) PROVE Only(j) /\ Ok(job'[j])
  BY <1>0, <1>1, BecameOnly, AcquireStep DEF Acquire, Kept
<1>2. ASSUME NEW j \in Jobs, Write(j) PROVE Only(j) /\ Ok(job'[j])
  BY <1>0, <1>2, BecameOnly, WriteStep DEF Write, Kept
<1>3. ASSUME NEW j \in Jobs, Close(j) PROVE Only(j) /\ Ok(job'[j])
  BY <1>0, <1>3, BecameOnly, CloseStep DEF Close, Kept
<1>4. ASSUME NEW j \in Jobs, Renew(j) PROVE Only(j) /\ Ok(job'[j])
  BY <1>0, <1>4, BecameOnly, RenewStep DEF Renew, Kept
<1>5. ASSUME NEW j \in Jobs, Release(j) PROVE Only(j) /\ Ok(job'[j])
  BY <1>0, <1>5, BecameOnly, ReleaseStep DEF Release, Kept
<1>6. ASSUME NEW j \in Jobs, ClaimAnswered(j) PROVE Only(j) /\ Ok(job'[j])
  <2>1. PICK r \in replies : Became(j, IF r.ok THEN Granted(j, r) ELSE Refused(j))
    BY <1>6, ClaimAnsweredStep
  <2>2. job[j].pc = "claiming" /\ ~job[j].held /\ job[j].beat = "off"
    BY <1>6, ClaimAnsweredStep
  <2>3. Ok(job'[j])
    BY <2>1, <2>2, GrantedStep, RefusedStep DEF Kept
  <2> QED BY <2>1, <2>3, BecameOnly
<1>7. ASSUME NEW j \in Jobs, WriteAnswered(j) PROVE Only(j) /\ Ok(job'[j])
  BY <1>0, <1>7, BecameOnly, WriteAnsweredStep DEF WriteAnswered, Kept
<1>8. ASSUME NEW j \in Jobs, RenewAnswered(j) PROVE Only(j) /\ Ok(job'[j])
  BY <1>0, <1>8, BecameOnly, RenewAnsweredStep DEF RenewAnswered, Kept
<1>9. ASSUME NEW j \in Jobs, ReleaseAnswered(j) PROVE Only(j) /\ Ok(job'[j])
  BY <1>0, <1>9, BecameOnly, ReleaseAnsweredStep DEF ReleaseAnswered, Kept
<1>10. ASSUME NEW j \in Jobs, NEW kind \in Kinds, GiveUp(j, kind)
       PROVE  Only(j) /\ Ok(job'[j])
  <2>1. PICK r : Became(j, r)
    BY <1>10 DEF GiveUp
  <2>2. Only(j)
    BY <2>1, BecameOnly
  <2>3. Ok(job'[j])
    BY <1>0, <1>10, GiveUpStep
  <2> QED BY <2>2, <2>3
<1>11. ASSUME NEW j \in Jobs, NEW kind \in Kinds, Resend(j, kind)
       PROVE  Only(j) /\ Ok(job'[j])
  BY <1>0, <1>11, BecameOnly, ResendStep DEF Resend
<1>12. ASSUME NEW j \in Jobs, Only(j), Ok(job'[j]) PROVE BeatsMatch'
  BY <1>0, <1>12
<1>13. ASSUME UNCHANGED job PROVE BeatsMatch'
  BY <1>0, <1>13
<1> HIDE DEF Ok, Only
<1> QED
  BY <1>1, <1>2, <1>3, <1>4, <1>5, <1>6, <1>7, <1>8, <1>9, <1>10, <1>11, <1>12, <1>13
     DEF Next, Answered, Lose, Dispose, Retire, Expire, Serve, vars, Kinds

-----------------------------------------------------------------------------
(* Nothing after the release *)

\* What a step sends carries the epoch its job knew.
LEMMA EpochsNext ==
    ASSUME TypeOK, CallsMatch, BeatsMatch, EpochsBehind, [Next]_vars
    PROVE  EpochsBehind'
<1>0. /\ row.epoch \in Nat /\ row'.epoch \in Nat /\ row.epoch <= row'.epoch
      /\ \A m \in wire : m.epoch \in Nat
      /\ \A r \in replies : r.epoch \in Nat /\ r.job \in Jobs
      /\ \A j \in Jobs : job[j].epoch \in Nat
  <2>1. row.epoch \in Nat /\ row.epoch <= row'.epoch
    BY ServerStep DEF TypeOK, Rows
  <2>2. row'.epoch \in Nat
    BY TypeNext DEF TypeOK, Rows
  <2> QED BY <2>1, <2>2 DEF TypeOK, Requests, Answers, JobStates
<1>1. \A m \in wire' : \/ \E n \in wire : m.epoch = n.epoch
                       \/ \E j \in Jobs : m.epoch = job[j].epoch
  <2>1. ASSUME NEW j \in Jobs, NEW kind, Send(j, kind)
        PROVE  \A m \in wire' : m \in wire \/ m.epoch = job[j].epoch
    BY <2>1 DEF Send, Request
  <2>2. ASSUME NEW j \in Jobs, NEW kind
        PROVE  \A m \in Unheard(j, kind) : \E n \in wire : m.epoch = n.epoch
    BY DEF Unheard, TypeOK, Requests
  <2>3. CASE \E j \in Jobs : Acquire(j) \/ Write(j) \/ Close(j) \/ Renew(j) \/ Release(j)
    BY <2>1, <2>3 DEF Acquire, Write, Close, Renew, Release
  <2>4. CASE \E j \in Jobs : Answered(j) \/ Dispose(j) \/ Retire(j)
    BY <2>4 DEF Answered, ClaimAnswered, WriteAnswered, RenewAnswered, ReleaseAnswered,
                Dispose, Retire
  <2>5. ASSUME NEW j \in Jobs, NEW kind \in Kinds, GiveUp(j, kind) \/ Resend(j, kind)
        PROVE  \A m \in wire' : \/ m \in Unheard(j, kind)
                               \/ m.epoch = job[j].epoch
    BY <2>5 DEF GiveUp, Resend, Request
  <2>6. CASE (\E m \in wire : Serve(m)) \/ Expire \/ UNCHANGED vars
    BY <2>6 DEF Serve, Expire, vars
  <2> QED BY <2>2, <2>3, <2>4, <2>5, <2>6 DEF Next, Lose, Kinds
<1>2. \A r \in replies' : r \in replies \/ r.epoch = row'.epoch \/ r.epoch = 0
  <2>1. CASE \E j \in Jobs : Acquire(j) \/ Write(j) \/ Close(j) \/ Renew(j) \/ Release(j)
    BY <2>1 DEF Acquire, Write, Close, Renew, Release
  <2>2. CASE \E j \in Jobs : Answered(j) \/ Dispose(j) \/ Retire(j)
    BY <2>2 DEF Answered, ClaimAnswered, WriteAnswered, RenewAnswered, ReleaseAnswered,
                Dispose, Retire
  <2>3. CASE \E j \in Jobs : Lose(j)
    BY <2>3 DEF Lose, GiveUp, Resend, Unanswered
  <2>4. ASSUME NEW m \in wire, Serve(m)
        PROVE  \E ok : \/ replies' = replies \cup Answer(m, ok, row'.epoch)
                      \/ replies' = replies \cup Answer(m, ok, 0)
    BY <2>4 DEF Serve, ServeClaim, ServeRelease, ServeWrite
  <2>5. CASE Expire \/ UNCHANGED vars
    BY <2>5 DEF Expire, vars
  <2> QED BY <2>1, <2>2, <2>3, <2>4, <2>5 DEF Next, Answer
<1>3. \A j \in Jobs : \/ job'[j].epoch = job[j].epoch \/ job'[j].epoch = 0
                      \/ \E r \in replies : job'[j].epoch = r.epoch
  <2> DEFINE Known(j) == /\ \/ job'[j].epoch = job[j].epoch \/ job'[j].epoch = 0
                            \/ \E r \in replies : job'[j].epoch = r.epoch
                         /\ \A k \in Jobs \ {j} : job'[k] = job[k]
  <2>1. ASSUME NEW j \in Jobs, Acquire(j) PROVE Known(j)
    BY <2>1, BecameOnly, AcquireStep DEF Acquire, Kept
  <2>2. ASSUME NEW j \in Jobs, Write(j) PROVE Known(j)
    BY <2>2, BecameOnly, WriteStep DEF Write, Kept
  <2>3. ASSUME NEW j \in Jobs, Close(j) PROVE Known(j)
    BY <2>3, BecameOnly, CloseStep DEF Close, Kept
  <2>4. ASSUME NEW j \in Jobs, Renew(j) PROVE Known(j)
    BY <2>4, BecameOnly, RenewStep DEF Renew, Kept
  <2>5. ASSUME NEW j \in Jobs, Release(j) PROVE Known(j)
    BY <2>5, BecameOnly, ReleaseStep DEF Release, Kept
  <2>6. ASSUME NEW j \in Jobs, ClaimAnswered(j) PROVE Known(j)
    <3>1. PICK r \in replies : Became(j, IF r.ok THEN Granted(j, r) ELSE Refused(j))
      BY <2>6, ClaimAnsweredStep
    <3>2. job[j].pc = "claiming"
      BY <2>6, ClaimAnsweredStep
    <3>3. job'[j].epoch = job[j].epoch \/ job'[j].epoch = r.epoch
      BY <3>1, <3>2, GrantedStep, RefusedStep DEF Kept
    <3> QED BY <3>1, <3>3, BecameOnly
  <2>7. ASSUME NEW j \in Jobs, WriteAnswered(j) PROVE Known(j)
    BY <2>7, BecameOnly, WriteAnsweredStep DEF WriteAnswered, Kept
  <2>8. ASSUME NEW j \in Jobs, RenewAnswered(j) PROVE Known(j)
    BY <2>8, BecameOnly, RenewAnsweredStep DEF RenewAnswered, Kept
  <2>9. ASSUME NEW j \in Jobs, ReleaseAnswered(j) PROVE Known(j)
    BY <2>9, BecameOnly, ReleaseAnsweredStep DEF ReleaseAnswered
  <2>10. ASSUME NEW j \in Jobs, NEW kind \in Kinds, GiveUp(j, kind) PROVE Known(j)
    <3>1. PICK r : Became(j, r)
      BY <2>10 DEF GiveUp
    <3>2. \A k \in Jobs \ {j} : job'[k] = job[k]
      BY <3>1, BecameOnly
    <3>3. job'[j].epoch = job[j].epoch \/ job'[j].epoch = 0
      BY <2>10, GiveUpStep
    <3> QED BY <3>2, <3>3
  <2>11. ASSUME NEW j \in Jobs, NEW kind \in Kinds, Resend(j, kind) PROVE Known(j)
    BY <2>11, BecameOnly, ResendStep DEF Resend
  <2>12. UNCHANGED job \/ \E j \in Jobs : Known(j)
    <3> HIDE DEF Known
    <3> QED BY <2>1, <2>2, <2>3, <2>4, <2>5, <2>6, <2>7, <2>8, <2>9, <2>10, <2>11
               DEF Next, Answered, Lose, Dispose, Retire, Expire, Serve, vars, Kinds
  <2> QED BY <2>12
<1>4. \A m \in wire' : m.epoch \in Nat
  BY TypeNext DEF TypeOK, Requests
<1> QED BY <1>0, <1>1, <1>2, <1>3, <1>4 DEF EpochsBehind

\* A write on the wire that does not match the row never will: a late claim
\* moves the row past its epoch.
LEMMA FenceLost ==
    ASSUME TypeOK, EpochsBehind, [Next]_vars, NEW m \in wire, ~Fence(m)
    PROVE  ~Fence(m)'
<1>1. row.epoch \in Nat /\ m.epoch \in Nat /\ m.epoch <= row.epoch
  BY DEF TypeOK, Rows, Requests, EpochsBehind
<1>2. ASSUME NEW n \in wire, ServeClaim(n) PROVE ~Fence(m)'
  <2>1. CASE row' = row
    BY <2>1 DEF Fence
  <2>2. CASE row' = ClaimedRow(n.job)
    BY <1>1, <2>2 DEF Fence, ClaimedRow
  <2> QED BY <1>2, <2>1, <2>2 DEF ServeClaim
<1>3. ASSUME NEW n \in wire, ServeRelease(n) PROVE ~Fence(m)'
  BY <1>3 DEF ServeRelease, Fence, TypeOK, Rows
<1>4. CASE Expire
  BY <1>4 DEF Expire, Fence, TypeOK, Rows
<1>5. CASE row' = row
  BY <1>5 DEF Fence
<1>6. \/ row' = row \/ Expire \/ \E n \in wire : ServeClaim(n) \/ ServeRelease(n)
  BY DEF Next, Acquire, Write, Close, Renew, Release, Answered, ClaimAnswered, WriteAnswered,
         RenewAnswered, ReleaseAnswered, Calm, Lose, Dispose, Retire, Serve, ServeWrite, vars
<1> QED BY <1>2, <1>3, <1>4, <1>5, <1>6

\* A step that puts a release on the wire has a job that releases, one that
\* puts a write there has a job that writes; the rest was there before.
LEMMA WireStep ==
    ASSUME TypeOK, CallsMatch, BeatsMatch, [Next]_vars, NEW m \in wire'
    PROVE  \/ \E n \in wire : n.job = m.job /\ n.kind = m.kind /\ n.epoch = m.epoch
           \/ m.kind \in {"claim", "renew"}
           \/ m.kind = "release" /\ job'[m.job].pc = "releasing"
           \/ m.kind = "write" /\ job'[m.job].pc = "writing"
<1>1. ASSUME NEW j, NEW kind, Send(j, kind)
      PROVE  m \in wire \/ (m.job = j /\ m.kind = kind)
  BY <1>1 DEF Send, Request
<1>2. ASSUME NEW j \in Jobs, NEW kind, m \in Unheard(j, kind)
      PROVE  \E n \in wire : n.job = m.job /\ n.kind = m.kind /\ n.epoch = m.epoch
  BY <1>2 DEF Unheard, TypeOK, Requests
<1>3. CASE \E j \in Jobs : Acquire(j) \/ Close(j) \/ Renew(j)
  BY <1>1, <1>3 DEF Acquire, Close, Renew
<1>4. ASSUME NEW j \in Jobs, Write(j)
      PROVE  m \in wire \/ (m.kind = "write" /\ job'[m.job].pc = "writing")
  BY <1>1, <1>4, WriteStep DEF Write
<1>5. ASSUME NEW j \in Jobs, Release(j)
      PROVE  m \in wire \/ (m.kind = "release" /\ job'[m.job].pc = "releasing")
  BY <1>1, <1>5, ReleaseStep
<1>6. CASE \E j \in Jobs : Answered(j) \/ Dispose(j) \/ Retire(j)
  BY <1>6 DEF Answered, ClaimAnswered, WriteAnswered, RenewAnswered, ReleaseAnswered,
              Dispose, Retire
<1>7. ASSUME NEW j \in Jobs, NEW kind \in Kinds, GiveUp(j, kind)
      PROVE  \E n \in wire : n.job = m.job /\ n.kind = m.kind /\ n.epoch = m.epoch
  BY <1>2, <1>7 DEF GiveUp
<1>8. ASSUME NEW j \in Jobs, NEW kind \in Kinds, Resend(j, kind)
      PROVE  \/ \E n \in wire : n.job = m.job /\ n.kind = m.kind /\ n.epoch = m.epoch
             \/ m.kind \in {"claim", "renew"}
             \/ m.kind = "release" /\ job'[m.job].pc = "releasing"
  <2>1. m \in Unheard(j, kind) \/ (m.job = j /\ m.kind = kind)
    BY <1>8 DEF Resend, Request
  <2>2. kind # "write" /\ (kind = "release" => job'[j].pc = "releasing")
    BY <1>8, ResendStep DEF Resend, Awaiting, Awaited
  <2> QED BY <1>2, <2>1, <2>2 DEF Kinds
<1>9. CASE (\E n \in wire : Serve(n)) \/ Expire \/ UNCHANGED vars
  BY <1>9 DEF Serve, Expire, vars
<1> QED BY <1>3, <1>4, <1>5, <1>6, <1>7, <1>8, <1>9 DEF Next, Lose, Kinds

\* A job never comes back from its release.
LEMMA PastStays ==
    ASSUME TypeOK, CallsMatch, BeatsMatch, [Next]_vars, NEW k \in Jobs,
           job[k].pc \in {"releasing", "done"}
    PROVE  job'[k].pc \in {"releasing", "done"}
<1> DEFINE Stays(j) == /\ j = k => job'[k].pc \in {"releasing", "done"}
                       /\ j # k => job'[k] = job[k]
<1>1. ASSUME NEW j \in Jobs, Acquire(j) PROVE Stays(j)
  BY <1>1, BecameOnly, AcquireStep DEF Acquire
<1>2. ASSUME NEW j \in Jobs, Write(j) PROVE Stays(j)
  BY <1>2, BecameOnly, WriteStep DEF Write
<1>3. ASSUME NEW j \in Jobs, Close(j) PROVE Stays(j)
  BY <1>3, BecameOnly, CloseStep DEF Close
<1>4. ASSUME NEW j \in Jobs, Renew(j) PROVE Stays(j)
  BY <1>4, BecameOnly, RenewStep DEF Renew
<1>5. ASSUME NEW j \in Jobs, Release(j) PROVE Stays(j)
  BY <1>5, BecameOnly, ReleaseStep DEF Release
<1>6. ASSUME NEW j \in Jobs, ClaimAnswered(j) PROVE Stays(j)
  BY <1>6, BecameOnly, ClaimAnsweredStep
<1>7. ASSUME NEW j \in Jobs, WriteAnswered(j) PROVE Stays(j)
  BY <1>7, BecameOnly, WriteAnsweredStep DEF WriteAnswered
<1>8. ASSUME NEW j \in Jobs, RenewAnswered(j) PROVE Stays(j)
  BY <1>8, BecameOnly, RenewAnsweredStep DEF RenewAnswered
<1>9. ASSUME NEW j \in Jobs, ReleaseAnswered(j) PROVE Stays(j)
  BY <1>9, BecameOnly, ReleaseAnsweredStep DEF ReleaseAnswered
<1>10. ASSUME NEW j \in Jobs, NEW kind \in Kinds, GiveUp(j, kind) PROVE Stays(j)
  <2>1. PICK r : Became(j, r)
    BY <1>10 DEF GiveUp
  <2>2. \A i \in Jobs \ {j} : job'[i] = job[i]
    BY <2>1, BecameOnly
  <2> QED BY <1>10, <2>2, GiveUpStep
<1>11. ASSUME NEW j \in Jobs, NEW kind \in Kinds, Resend(j, kind) PROVE Stays(j)
  BY <1>11, BecameOnly, ResendStep DEF Resend
<1>12. UNCHANGED job \/ \E j \in Jobs : Stays(j)
  <2> HIDE DEF Stays
  <2> QED BY <1>1, <1>2, <1>3, <1>4, <1>5, <1>6, <1>7, <1>8, <1>9, <1>10, <1>11
             DEF Next, Answered, Lose, Dispose, Retire, Expire, Serve, vars, Kinds
<1> QED BY <1>12

LEMMA FreedNext ==
    ASSUME TypeOK, CallsMatch, BeatsMatch, EpochsBehind, FreedInv, [Next]_vars
    PROVE  FreedInv'
<1>1. ASSUME NEW m \in wire', m.kind = "release"
      PROVE  job'[m.job].pc \in {"releasing", "done"}
  BY <1>1, WireStep, PastStays DEF FreedInv, TypeOK, Requests
<1>2. \/ freed' = freed
      \/ \E n \in wire : ServeRelease(n) /\ UNCHANGED job
  BY DEF Next, Acquire, Write, Close, Renew, Release, Answered, ClaimAnswered, WriteAnswered,
         RenewAnswered, ReleaseAnswered, Calm, Lose, Dispose, Retire, Serve, ServeClaim,
         ServeWrite, Expire, vars
<1>3. ASSUME NEW j \in freed' PROVE job'[j].pc \in {"releasing", "done"}
  <2>1. CASE j \in freed
    BY <2>1, PastStays DEF FreedInv, TypeOK
  <2>2. CASE j \notin freed
    BY <1>2, <1>3, <2>2 DEF ServeRelease, FreedInv
  <2> QED BY <2>1, <2>2
<1>4. ASSUME NEW m \in wire', m.kind = "write", m.job \in freed'
      PROVE  ~Fence(m)'
  <2>1. PICK n \in wire : n.job = m.job /\ n.kind = "write" /\ n.epoch = m.epoch
    BY <1>3, <1>4, WireStep
  <2>2. CASE m.job \in freed
    BY <2>1, <2>2, FenceLost DEF FreedInv, Fence
  <2>3. CASE m.job \notin freed
    BY <1>2, <1>4, <2>3 DEF ServeRelease, Fence, TypeOK, Rows
  <2> QED BY <2>2, <2>3
<1> QED BY <1>1, <1>3, <1>4 DEF FreedInv

-----------------------------------------------------------------------------
(* No lease left behind *)

\* What a step of job j leaves to the others: their records, the answers to
\* them and the row.
Alone(j) ==
    /\ row' = row
    /\ \A k \in Jobs \ {j} : job'[k] = job[k]
    /\ \A r \in replies : r.job # j => r \in replies'
    /\ replies' \subseteq replies

\* A lost call is remembered, and a job that stays clear of the lease in a
\* step of its own was clear of it.
LEMMA JobLeaseStep ==
    ASSUME TypeOK, CallsMatch, BeatsMatch, NEW j \in Jobs,
           \/ Acquire(j) \/ Write(j) \/ Close(j) \/ Renew(j) \/ Release(j) \/ Answered(j)
           \/ \E kind \in Kinds : (GiveUp(j, kind) \/ Resend(j, kind)) /\ row' = row
    PROVE  /\ Alone(j)
           /\ job[j].lost => job'[j].lost
           /\ j \notin retired /\ ~job'[j].lost /\ Unheld(j)' => Unheld(j)
<1>1. CASE Acquire(j)
  <2>1. Alone(j)
    BY <1>1, BecameOnly DEF Acquire, Alone, Calm
  <2> QED BY <1>1, <2>1, AcquireStep DEF Kept, Unheld
<1>2. CASE Write(j)
  <2>1. Alone(j)
    BY <1>2, BecameOnly DEF Write, Alone, Calm
  <2> QED BY <1>2, <2>1, WriteStep DEF Kept, Unheld
<1>3. CASE Close(j)
  <2>1. Alone(j) /\ replies' = replies
    BY <1>3, BecameOnly DEF Close, Alone, Calm
  <2> QED BY <1>3, <2>1, CloseStep DEF Kept, Unheld, BeatsMatch
<1>4. CASE Renew(j)
  <2>1. Alone(j)
    BY <1>4, BecameOnly DEF Renew, Alone, Calm
  <2> QED BY <1>4, <2>1, RenewStep DEF Kept, Unheld
<1>5. CASE Release(j)
  <2>1. Alone(j) /\ replies' = replies
    BY <1>5, BecameOnly DEF Release, Alone, Calm
  <2>2. \A r \in replies : r.job # j
    BY <1>5, ReleaseStep DEF CallsMatch, Awaiting, Awaited
  <2> QED BY <1>5, <2>1, <2>2, ReleaseStep DEF Kept, Unheld
<1>6. CASE ClaimAnswered(j)
  <2>1. PICK r \in replies : /\ r.kind = "claim" /\ Takes(j, r)
                             /\ Became(j, IF r.ok THEN Granted(j, r) ELSE Refused(j))
    BY <1>6, ClaimAnsweredStep
  <2>2. Alone(j)
    BY <1>6, <2>1, BecameOnly DEF ClaimAnswered, Alone, Calm, Takes
  <2>3. job[j].pc = "claiming" /\ ~job[j].held /\ job[j].beat = "off"
    BY <1>6, ClaimAnsweredStep
  <2>4. CASE r.ok
    BY <2>1, <2>2, <2>3, <2>4, GrantedStep DEF Unheld, Kept
  <2>5. CASE ~r.ok
    <3>1. \A q \in replies : q.job = j => q = r
      BY <2>1, <2>3 DEF CallsMatch, Awaiting, Awaited, Takes
    <3> QED BY <2>1, <2>2, <2>3, <2>5, <3>1, RefusedStep DEF Unheld, Kept
  <2> QED BY <2>4, <2>5
<1>7. CASE WriteAnswered(j)
  <2>1. Alone(j)
    BY <1>7, BecameOnly DEF WriteAnswered, Alone, Calm
  <2> QED BY <1>7, <2>1, WriteAnsweredStep DEF Kept, Unheld, BeatsMatch
<1>8. CASE RenewAnswered(j)
  <2>1. Alone(j)
    BY <1>8, BecameOnly DEF RenewAnswered, Alone, Calm
  <2> QED BY <1>8, <2>1, RenewAnsweredStep DEF Kept, Unheld, BeatsMatch
<1>9. CASE ReleaseAnswered(j)
  <2>1. Alone(j)
    BY <1>9, BecameOnly DEF ReleaseAnswered, Alone, Calm
  <2> QED BY <1>9, <2>1, ReleaseAnsweredStep DEF Takes, Unheld
<1>10. ASSUME NEW kind \in Kinds, GiveUp(j, kind), row' = row
       PROVE  Alone(j) /\ job'[j].lost
  <2>1. PICK r : Became(j, r)
    BY <1>10 DEF GiveUp
  <2>2. \A k \in Jobs \ {j} : job'[k] = job[k]
    BY <2>1, BecameOnly
  <2> QED BY <1>10, <2>2, GiveUpStep DEF GiveUp, Unanswered, Alone
<1>11. ASSUME NEW kind \in Kinds, Resend(j, kind), row' = row
       PROVE  Alone(j) /\ job'[j].lost
  BY <1>11, BecameOnly, ResendStep DEF Resend, Unanswered, Alone
<1> QED BY <1>1, <1>2, <1>3, <1>4, <1>5, <1>6, <1>7, <1>8, <1>9, <1>10, <1>11 DEF Answered

\* What the server does for one job leaves the lease to the others, and gives
\* it only to a job that will hear of it.
LEMMA ServeLeaseStep ==
    ASSUME TypeOK, CallsMatch, BeatsMatch, LeaseInv, NEW m \in wire, Serve(m),
           NEW k \in Jobs \ retired, ~job[k].lost, Unheld(k)'
    PROVE  ~Owned(k)'
<1>0. /\ m.job = k => m.heard /\ m.kind \in Awaiting(k)
      /\ UNCHANGED <<job, retired>>
      /\ Unheld(k) => ~Owned(k)
  BY DEF LeaseInv, CallsMatch, Serve
<1>1. ASSUME NEW ok, NEW epoch, replies' = replies \cup Answer(m, ok, epoch), m.job # k
      PROVE  Unheld(k)
  BY <1>0, <1>1 DEF Unheld, Answer
<1>2. CASE ServeClaim(m) /\ m.job # k
  <2>1. Unheld(k)
    BY <1>1, <1>2 DEF ServeClaim
  <2> QED BY <1>0, <1>2, <2>1 DEF ServeClaim, ClaimedRow, Owned
<1>3. CASE ServeClaim(m) /\ m.job = k
  <2>1. CASE m.kind = "renew"
    BY <1>0, <1>3, <2>1 DEF Unheld, BeatsMatch, Awaiting, Awaited
  <2>2. CASE m.kind = "claim"
    <3>1. job[k].pc = "claiming" /\ m.heard
      BY <1>0, <1>3, <2>2 DEF Awaiting, Awaited
    <3> DEFINE won == ~row.live \/ row.token = k
               a == [job |-> k, kind |-> m.kind, ok |-> won, epoch |-> row'.epoch]
    <3>2. a \in replies'
      BY <1>3, <3>1 DEF ServeClaim, Answer
    <3>3. \A r \in replies' : r.job = k => ~r.ok
      BY <1>0, <3>1 DEF Unheld
    <3>4. ~won
      BY <3>2, <3>3
    <3> QED BY <1>3, <3>4 DEF ServeClaim, Owned
  <2> QED BY <1>3, <2>1, <2>2 DEF ServeClaim
<1>4. CASE ServeRelease(m) /\ m.job = k
  BY <1>4 DEF ServeRelease, Owned, TypeOK, Rows
<1>5. CASE ServeRelease(m) /\ m.job # k
  <2>1. Unheld(k)
    BY <1>1, <1>5 DEF ServeRelease
  <2> QED BY <1>0, <1>5, <2>1 DEF ServeRelease, Owned, TypeOK, Rows
<1>6. CASE ServeWrite(m) /\ m.job # k
  <2>1. Unheld(k)
    BY <1>1, <1>6 DEF ServeWrite
  <2> QED BY <1>0, <1>6, <2>1 DEF ServeWrite, Owned
<1>7. CASE ServeWrite(m) /\ m.job = k
  BY <1>0, <1>7 DEF ServeWrite, Unheld, Awaiting, Awaited
<1> QED BY <1>2, <1>3, <1>4, <1>5, <1>6, <1>7 DEF Serve

LEMMA LeaseNext ==
    ASSUME TypeOK, CallsMatch, BeatsMatch, LeaseInv, [Next]_vars
    PROVE  LeaseInv'
<1> DEFINE Own(j) ==
        \/ Acquire(j) \/ Write(j) \/ Close(j) \/ Renew(j) \/ Release(j) \/ Answered(j)
        \/ \E kind \in Kinds : /\ GiveUp(j, kind) \/ Resend(j, kind)
                             /\ UNCHANGED <<row, retired>>
<1>0. \/ \E j \in Jobs : Own(j)
      \/ \E m \in wire : Serve(m)
      \/ UNCHANGED <<job, replies, wire>> /\ retired \subseteq retired'
         /\ (row' = row \/ ~row'.live)
  BY DEF Next, Lose, Dispose, Retire, Expire, vars, Kinds, TypeOK, Rows
<1>1. ASSUME NEW j \in Jobs, Own(j)
      PROVE  /\ Alone(j)
             /\ job[j].lost => job'[j].lost
             /\ j \notin retired /\ ~job'[j].lost /\ Unheld(j)' => Unheld(j)
  BY <1>1, JobLeaseStep
<1>2. \A j \in Jobs : job[j].lost => job'[j].lost
  BY <1>0, <1>1 DEF Alone, Serve
<1>3. \A m \in wire' : ~m.heard => job'[m.job].lost
  <2>1. ASSUME NEW m \in wire', ~m.heard,
               m \in wire \/ \E j \in Jobs, kind \in Kinds :
                                  m = Request(j, kind, job[j].epoch)
        PROVE  job'[m.job].lost
    BY <1>2, <2>1 DEF LeaseInv, TypeOK, Requests, Request
  <2>2. ASSUME NEW j \in Jobs, NEW kind \in Kinds, job'[j].lost,
               NEW m \in Unheard(j, kind), ~m.heard
        PROVE  job'[m.job].lost
    <3>1. PICK n \in wire : m = [n EXCEPT !.heard = @ /\ ~(n.job = j /\ n.kind = kind)]
      BY DEF Unheard
    <3>2. n \in Requests
      BY DEF TypeOK
    <3>3. m.job = n.job /\ (~n.heard \/ n.job = j)
      BY <2>2, <3>1, <3>2 DEF Requests
    <3> QED BY <1>2, <2>2, <3>2, <3>3 DEF LeaseInv, Requests
  <2>3. ASSUME NEW j \in Jobs,
               Acquire(j) \/ Write(j) \/ Close(j) \/ Renew(j) \/ Release(j) \/ Answered(j)
        PROVE  \A m \in wire' : m \in wire \/ \E kind \in Kinds :
                                                   m = Request(j, kind, job[j].epoch)
    BY <2>3 DEF Acquire, Write, Close, Renew, Release, Answered, ClaimAnswered, WriteAnswered,
                RenewAnswered, ReleaseAnswered, Send, Kinds
  <2>4. ASSUME NEW j \in Jobs, NEW kind \in Kinds, GiveUp(j, kind) \/ Resend(j, kind)
        PROVE  /\ job'[j].lost
               /\ \A m \in wire' : m \in Unheard(j, kind) \/ m = Request(j, kind, job[j].epoch)
    BY <2>4, GiveUpStep, ResendStep DEF GiveUp, Resend
  <2>5. ASSUME NEW m \in wire, Serve(m) PROVE wire' \subseteq wire
    BY <2>5 DEF Serve
  <2> QED BY <1>0, <2>1, <2>2, <2>3, <2>4, <2>5
<1>4. ASSUME NEW k \in Jobs \ retired', ~job'[k].lost, Unheld(k)'
      PROVE  ~Owned(k)'
  <2>1. ~job[k].lost
    BY <1>2, <1>4
  <2>2. ASSUME NEW j \in Jobs, Own(j) PROVE ~Owned(k)'
    <3>1. retired' = retired
      BY <2>2 DEF Acquire, Write, Close, Renew, Release, Answered, ClaimAnswered,
                  WriteAnswered, RenewAnswered, ReleaseAnswered, Calm
    <3>2. Unheld(k)
      BY <1>1, <1>4, <2>2, <3>1 DEF Alone, Unheld
    <3> QED BY <1>1, <1>4, <2>1, <2>2, <3>1, <3>2 DEF Alone, Owned, LeaseInv
  <2>3. ASSUME NEW m \in wire, Serve(m) PROVE ~Owned(k)'
    BY <1>4, <2>1, <2>3, ServeLeaseStep DEF Serve
  <2>4. ASSUME UNCHANGED <<job, replies>>, retired \subseteq retired', row' = row \/ ~row'.live
        PROVE  ~Owned(k)'
    BY <1>4, <2>1, <2>4 DEF LeaseInv, Unheld, Owned
  <2> QED BY <1>0, <2>2, <2>3, <2>4
<1> QED BY <1>3, <1>4 DEF LeaseInv

-----------------------------------------------------------------------------
(* The theorems *)

LEMMA IInvInit == Init => IInv
<1> SUFFICES ASSUME Init PROVE IInv
  OBVIOUS
<1>1. /\ row = [token |-> NoJob, live |-> FALSE, epoch |-> 0]
      /\ wire = {} /\ replies = {} /\ freed = {} /\ retired = {}
      /\ \A j \in Jobs : job[j] = NewJob
  BY DEF Init
<1>2. CallsMatch /\ FreedInv
  BY <1>1 DEF CallsMatch, FreedInv
<1>3. BeatsMatch /\ EpochsBehind
  BY <1>1 DEF BeatsMatch, EpochsBehind, NewJob
<1>4. LeaseInv
  BY <1>1 DEF LeaseInv, Owned
<1> QED BY <1>2, <1>3, <1>4, TypeInit DEF IInv

LEMMA IInvNext == IInv /\ [Next]_vars => IInv'
BY TypeNext, CallsNext, BeatsNext, EpochsNext, FreedNext, LeaseNext DEF IInv

LEMMA IInvCorrect == Spec => []IInv
BY IInvInit, IInvNext, PTL DEF Spec

\* Once the server has processed the release of a job, no write of that job is
\* taken, although a late claim or renewal of it may win the row again: the
\* new epoch is past that of every write on the wire.
THEOREM ReleaseIsFinal == Spec => NothingAfterRelease
<1>1. ASSUME IInv, [Next]_vars
      PROVE  [published' # published => published'[Len(published')].job \notin freed]_vars
  <2>1. SUFFICES ASSUME published' # published
                 PROVE  published'[Len(published')].job \notin freed
    OBVIOUS
  <2>2. PICK m \in wire : ServeWrite(m) /\ Fence(m)
    BY <1>1, <2>1 DEF Next, Acquire, Write, Close, Renew, Release, Answered, ClaimAnswered,
           WriteAnswered, RenewAnswered, ReleaseAnswered, Calm, Lose, Dispose, Retire, Serve,
           ServeClaim, ServeRelease, ServeWrite, Expire, vars
  <2> DEFINE w == [job |-> m.job, epoch |-> m.epoch]
  <2>3. published' = Append(published, w) /\ w \in [job : Jobs, epoch : Nat]
    BY <1>1, <2>2 DEF ServeWrite, IInv, TypeOK, Requests
  <2>4. published'[Len(published')] = w
    BY <1>1, <2>3, AppendProperties DEF IInv, TypeOK
  <2>5. m.job \notin freed
    BY <1>1, <2>2 DEF ServeWrite, IInv, FreedInv
  <2> QED BY <2>4, <2>5
<1> QED BY <1>1, IInvCorrect, PTL DEF Spec, NothingAfterRelease

\* A job that is over holds no live lease, unless a call of it was lost or
\* repeated or its account is gone: the heartbeat is joined before the release
\* and a grant that comes after the close is released.
THEOREM LeaseIsGivenBack == Spec => []NoLeaseLeftBehind
<1>1. IInv => NoLeaseLeftBehind
  BY DEF IInv, LeaseInv, Unheld, Owned, NoLeaseLeftBehind
<1> QED BY <1>1, IInvCorrect, PTL

=============================================================================
