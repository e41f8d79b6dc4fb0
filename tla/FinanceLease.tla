------------------------------ MODULE FinanceLease ------------------------------
(***************************************************************************)
(* The server lease around a bank or credit refresh.  An operation claims  *)
(* the lease under a token of its own (finance-lease-owner.js), renews it  *)
(* on a timer (finance-lease-heartbeat.js), publishes what the provider    *)
(* answered in several fenced writes, and releases it at the end.  Manual  *)
(* edits queue for the same lease without a heartbeat (finance-fence.js).  *)
(* The server (claim_, release_, assert_finance_sync_...) keeps one row    *)
(* with the token, its expiry and a fence epoch.                           *)
(*                                                                         *)
(* The client uses no clock to judge its lease, so the lease may expire at *)
(* any time (Expire).  Requests may be lost, answered too late, or sent    *)
(* again by the transport (networkRetry) while the first copy still waits. *)
(* Each job runs on a computer of its own; local grants are left out.      *)
(***************************************************************************)
EXTENDS Naturals, Sequences, FiniteSets

CONSTANTS
    Jobs,           \* operations; a job is also its token
    Manual,         \* those of createFinanceManualQueue
    NoJob,
    MaxExpiries,    \* bound on the leases that expire
    MaxLosses,      \* bound on requests lost or repeated
    MaxLeaves,      \* bound on the disposals and the changes of account
    MaxRenewals,    \* bound on the renewals of one job
    MaxClaims       \* claims a manual job makes before it reports the lease busy

ASSUME JobsAssumption == Manual \subseteq Jobs /\ NoJob \notin Jobs

ASSUME BoundsAssumption ==
    {MaxExpiries, MaxLosses, MaxLeaves, MaxRenewals, MaxClaims} \subseteq Nat

VARIABLES
    row,        \* finance_sync_leases: [token, live, epoch]
    published,  \* the fenced writes the server took: <<[job, epoch], ...>>
    wire,       \* requests the server has not processed
    replies,    \* answers on their way
    job,        \* the state of each job
    disposed,   \* jobs whose component is closed
    retired,    \* jobs whose account or storage authority is gone
    faults,     \* [expiries, losses]
    freed       \* jobs whose release the server has processed (for the properties)

vars == <<row, published, wire, replies, job, disposed, retired, faults, freed>>

Writes == 2     \* bank transactions, then the balance snapshot (bank-refresh.js)

NewJob == [pc |-> "new", epoch |-> 0, held |-> FALSE, beat |-> "off", failed |-> FALSE,
           closing |-> FALSE, lost |-> FALSE, renewals |-> 0, claims |-> 0, writes |-> 0]

\* What is left of a job that is over.
Over(r) == [NewJob EXCEPT !.pc = "done", !.lost = r.lost]

-----------------------------------------------------------------------------
(* Requests and answers.  A job has one call of its own and one of its     *)
(* heartbeat in progress; heard tells the copy it still listens to.        *)

Request(j, kind, epoch) == [job |-> j, kind |-> kind, epoch |-> epoch, heard |-> TRUE]

Answer(m, ok, epoch) ==
    IF m.heard THEN {[job |-> m.job, kind |-> m.kind, ok |-> ok, epoch |-> epoch]} ELSE {}

Awaited(j) ==
    CASE job[j].pc = "claiming"  -> {"claim"}
      [] job[j].pc = "writing"   -> {"write"}
      [] job[j].pc = "releasing" -> {"release"}
      [] OTHER -> {}

Awaiting(j) == Awaited(j) \cup IF job[j].beat = "renewing" THEN {"renew"} ELSE {}

\* The guard of the owner: account, component, close and heartbeat.
Current(j) == j \notin retired \cup disposed /\ ~job[j].closing /\ ~job[j].failed

Init ==
    /\ row = [token |-> NoJob, live |-> FALSE, epoch |-> 0]
    /\ published = <<>>
    /\ wire = {} /\ replies = {}
    /\ job = [j \in Jobs |-> NewJob]
    /\ disposed = {} /\ retired = {} /\ freed = {}
    /\ faults = [expiries |-> 0, losses |-> 0]

-----------------------------------------------------------------------------
(* The server *)

\* claim_finance_sync_lease: only a renewal of a live lease keeps the epoch.
ClaimedRow(j) ==
    [token |-> j, live |-> TRUE,
     epoch |-> IF row.token = j /\ row.live THEN row.epoch ELSE row.epoch + 1]

ServeClaim(m) ==
    LET won == ~row.live \/ row.token = m.job IN
    /\ m.kind \in {"claim", "renew"}
    /\ row' = IF won THEN ClaimedRow(m.job) ELSE row
    /\ replies' = replies \cup Answer(m, won, row'.epoch)
    /\ UNCHANGED <<published, freed>>

\* release_finance_sync_lease: by token, whatever the epoch.
ServeRelease(m) ==
    /\ m.kind = "release"
    /\ row' = IF row.token = m.job THEN [row EXCEPT !.live = FALSE] ELSE row
    /\ freed' = freed \cup {m.job}
    /\ replies' = replies \cup Answer(m, TRUE, 0)
    /\ UNCHANGED published

\* Mutant: a fence without the epoch.
FenceByToken(m) == row.token = m.job /\ row.live

\* Mutant: a fence that does not look at the expiry.
FenceWithoutExpiry(m) == row.token = m.job /\ row.epoch = m.epoch

\* assert_finance_sync_fence, in the transaction of the write.
Fence(m) == row.token = m.job /\ row.epoch = m.epoch /\ row.live

ServeWrite(m) ==
    /\ m.kind = "write"
    /\ published' = IF Fence(m) THEN Append(published, [job |-> m.job, epoch |-> m.epoch])
                    ELSE published
    /\ replies' = replies \cup Answer(m, Fence(m), 0)
    /\ UNCHANGED <<row, freed>>

Serve(m) ==
    /\ m \in wire
    /\ wire' = wire \ {m}
    /\ ServeClaim(m) \/ ServeRelease(m) \/ ServeWrite(m)
    /\ UNCHANGED <<job, disposed, retired, faults>>

Expire ==
    /\ row.live /\ faults.expiries < MaxExpiries
    /\ row' = [row EXCEPT !.live = FALSE]
    /\ faults' = [faults EXCEPT !.expiries = @ + 1]
    /\ UNCHANGED <<published, wire, replies, job, disposed, retired, freed>>

-----------------------------------------------------------------------------
(* A job *)

Send(j, kind) == wire' = wire \cup {Request(j, kind, job[j].epoch)}

Became(j, r) == job' = [job EXCEPT ![j] = r]

Calm == UNCHANGED <<row, published, disposed, retired, faults, freed>>

\* acquire, or one more claim of the manual queue.
Acquire(j) ==
    /\ job[j].pc = "new"
    /\ j \notin retired \cup disposed
    /\ Became(j, [job[j] EXCEPT !.pc = "claiming", !.claims = @ + 1])
    /\ Send(j, "claim")
    /\ UNCHANGED replies /\ Calm

\* ready: the grant is held before the guard is asked, so a grant that comes
\* after close or disposal is released.  An answer for a retired account is
\* dropped by the transport.
Granted(j, r) ==
    IF j \in retired THEN [job[j] EXCEPT !.pc = "closing"]
    ELSE [job[j] EXCEPT !.held = TRUE, !.epoch = r.epoch,
                        !.pc = IF Current(j) THEN "working" ELSE "closing",
                        !.beat = IF Current(j) /\ j \notin Manual THEN "armed" ELSE "off"]

Refused(j) ==
    [job[j] EXCEPT !.pc = IF j \in Manual /\ Current(j) /\ job[j].claims < MaxClaims
                          THEN "new" ELSE "closing"]

ClaimAnswered(j) == \E r \in replies :
    /\ r.job = j /\ r.kind = "claim"
    /\ replies' = replies \ {r}
    /\ Became(j, IF r.ok THEN Granted(j, r) ELSE Refused(j))
    /\ UNCHANGED wire /\ Calm

\* One fenced write, under the guard.
Write(j) ==
    /\ job[j].pc = "working"
    /\ Current(j)
    /\ job[j].writes < Writes
    /\ Became(j, [job[j] EXCEPT !.pc = "writing", !.writes = @ + 1])
    /\ Send(j, "write")
    /\ UNCHANGED replies /\ Calm

WriteAnswered(j) == \E r \in replies :
    /\ r.job = j /\ r.kind = "write"
    /\ replies' = replies \ {r}
    /\ Became(j, [job[j] EXCEPT !.pc = IF r.ok THEN "working" ELSE "closing"])
    /\ UNCHANGED wire /\ Calm

\* The work is done, the provider failed or the guard threw: finally, close().
\* The owner also takes a close before the claim is answered.
Close(j) ==
    /\ job[j].pc \in {"claiming", "working"}
    /\ ~job[j].closing
    /\ j \notin Manual \/ job[j].pc = "working"
    /\ Became(j, [job[j] EXCEPT !.closing = TRUE,
                                !.pc = IF @ = "working" THEN "closing" ELSE @])
    /\ UNCHANGED <<wire, replies>> /\ Calm

\* The timer of the heartbeat; disposal and close stop it.
Renew(j) ==
    /\ job[j].beat = "armed"
    /\ job[j].pc \in {"working", "writing"} /\ j \notin disposed
    /\ job[j].renewals < MaxRenewals
    /\ IF j \in retired
       THEN /\ Became(j, [job[j] EXCEPT !.beat = "off", !.failed = TRUE])
            /\ UNCHANGED wire
       ELSE /\ Became(j, [job[j] EXCEPT !.beat = "renewing", !.renewals = @ + 1])
            /\ Send(j, "renew")
    /\ UNCHANGED replies /\ Calm

\* A renewal that is refused or comes with another epoch fails the guard.
RenewAnswered(j) == \E r \in replies :
    LET same == r.ok /\ r.epoch = job[j].epoch /\ j \notin retired IN
    /\ r.job = j /\ r.kind = "renew"
    /\ replies' = replies \ {r}
    /\ Became(j, [job[j] EXCEPT !.beat = IF same THEN "armed" ELSE "off", !.failed = ~same])
    /\ UNCHANGED wire /\ Calm

\* Mutant: close does not wait for the renewal in progress.
ReleaseAtOnce(j) ==
    /\ job[j].pc = "closing"
    /\ IF job[j].held /\ j \notin retired
       THEN Became(j, [job[j] EXCEPT !.pc = "releasing"]) /\ Send(j, "release")
       ELSE Became(j, Over(job[j])) /\ UNCHANGED wire
    /\ UNCHANGED replies /\ Calm

\* Mutant: close waits for the timer of the heartbeat to stop by itself.
ReleaseAfterTimer(j) ==
    /\ job[j].pc = "closing"
    /\ job[j].beat = "off"
    /\ IF job[j].held /\ j \notin retired
       THEN Became(j, [job[j] EXCEPT !.pc = "releasing"]) /\ Send(j, "release")
       ELSE Became(j, Over(job[j])) /\ UNCHANGED wire
    /\ UNCHANGED replies /\ Calm

\* close joins the renewal in progress, then releases what it holds; the lease
\* of a retired account is left to its expiry.
Release(j) ==
    /\ job[j].pc = "closing"
    /\ job[j].beat # "renewing"
    /\ IF job[j].held /\ j \notin retired
       THEN Became(j, [job[j] EXCEPT !.pc = "releasing"]) /\ Send(j, "release")
       ELSE Became(j, Over(job[j])) /\ UNCHANGED wire
    /\ UNCHANGED replies /\ Calm

ReleaseAnswered(j) == \E r \in replies :
    /\ r.job = j /\ r.kind = "release"
    /\ replies' = replies \ {r}
    /\ Became(j, Over(job[j]))
    /\ UNCHANGED wire /\ Calm

-----------------------------------------------------------------------------
(* Faults *)

Unheard(j, kind) ==
    {[m EXCEPT !.heard = @ /\ ~(m.job = j /\ m.kind = kind)] : m \in wire}

Unanswered(j, kind) == {r \in replies : r.job # j \/ r.kind # kind}

\* The client gives up a call: what it sent may still arrive.
GiveUp(j, kind) ==
    /\ kind \in Awaiting(j)
    /\ wire' = Unheard(j, kind)
    /\ replies' = Unanswered(j, kind)
    /\ LET r == [job[j] EXCEPT !.lost = TRUE] IN
       Became(j, CASE kind = "renew"   -> [r EXCEPT !.beat = "off", !.failed = TRUE]
                   [] kind = "release" -> Over(r)
                   [] OTHER            -> [r EXCEPT !.pc = "closing"])

\* The transport sends a claim or a release again.
Resend(j, kind) ==
    /\ kind \in Awaiting(j) \ {"write"}
    /\ wire' = Unheard(j, kind) \cup {Request(j, kind, job[j].epoch)}
    /\ replies' = Unanswered(j, kind)
    /\ Became(j, [job[j] EXCEPT !.lost = TRUE])

Lose(j) ==
    /\ faults.losses < MaxLosses
    /\ \E kind \in {"claim", "renew", "write", "release"} : GiveUp(j, kind) \/ Resend(j, kind)
    /\ faults' = [faults EXCEPT !.losses = @ + 1]
    /\ UNCHANGED <<row, published, disposed, retired, freed>>

Dispose(j) ==
    /\ job[j].pc \notin {"new", "done"} /\ j \notin disposed \cup Manual
    /\ Cardinality(disposed) + Cardinality(retired) < MaxLeaves
    /\ disposed' = disposed \cup {j}
    /\ UNCHANGED <<row, published, wire, replies, job, retired, faults, freed>>

\* The user logs out or changes account, or the tab loses its authority.
Retire(j) ==
    /\ job[j].pc \notin {"new", "done"} /\ j \notin retired
    /\ Cardinality(disposed) + Cardinality(retired) < MaxLeaves
    /\ retired' = retired \cup {j}
    /\ UNCHANGED <<row, published, wire, replies, job, disposed, faults, freed>>

Answered(j) ==
    ClaimAnswered(j) \/ WriteAnswered(j) \/ RenewAnswered(j) \/ ReleaseAnswered(j)

Next ==
    \/ \E j \in Jobs : \/ Acquire(j) \/ Write(j) \/ Close(j) \/ Renew(j) \/ Release(j)
                       \/ Answered(j) \/ Lose(j) \/ Dispose(j) \/ Retire(j)
    \/ \E m \in wire : Serve(m)
    \/ Expire

Spec == Init /\ [][Next]_vars

\* Requests are answered or given up (here: answered, losses being bounded), the
\* provider's work ends, and a finished job closes.
FairSpec ==
    /\ Spec
    /\ WF_vars(\E m \in wire : Serve(m))
    /\ \A j \in Jobs : /\ WF_vars(Answered(j)) /\ WF_vars(Release(j))
                       /\ WF_vars(job[j].pc = "working" /\ Close(j))
                       /\ WF_vars(job[j].claims > 0 /\ Acquire(j))

-----------------------------------------------------------------------------
(* Properties *)

Kinds == {"claim", "renew", "write", "release"}

Rows == [token : Jobs \cup {NoJob}, live : BOOLEAN, epoch : Nat]

Requests == [job : Jobs, kind : Kinds, epoch : Nat, heard : BOOLEAN]

Answers == [job : Jobs, kind : Kinds, ok : BOOLEAN, epoch : Nat]

JobStates ==
    [pc : {"new", "claiming", "working", "writing", "closing", "releasing", "done"},
     epoch : Nat, held : BOOLEAN, beat : {"off", "armed", "renewing"},
     failed : BOOLEAN, closing : BOOLEAN, lost : BOOLEAN,
     renewals : 0..MaxRenewals, claims : Nat, writes : 0..Writes]

TypeOK ==
    /\ row \in Rows
    /\ published \in Seq([job : Jobs, epoch : Nat])
    /\ wire \subseteq Requests /\ replies \subseteq Answers
    /\ job \in [Jobs -> JobStates]
    /\ disposed \subseteq Jobs /\ retired \subseteq Jobs /\ freed \subseteq Jobs
    /\ faults \in [expiries : 0..MaxExpiries, losses : 0..MaxLosses]

\* The writes of two refreshes do not interleave: what the server took is in the
\* order of the fence epochs, and an epoch belongs to one job.
RefreshesDoNotInterleave ==
    \A i, k \in 1..Len(published) : i < k =>
        /\ published[i].epoch <= published[k].epoch
        /\ published[i].epoch = published[k].epoch => published[i].job = published[k].job

\* Nothing a job sent is taken after its release was, whatever late claim or
\* write of it still arrives.
NothingAfterRelease ==
    [][published' # published => published'[Len(published')].job \notin freed]_vars

\* A job that is over leaves no live lease behind, unless one of its requests
\* was lost or repeated or its account is gone: a renewal in progress is joined
\* before the release, a grant that comes after the close is released.
NoLeaseLeftBehind ==
    \A j \in Jobs : job[j].pc = "done" /\ ~job[j].lost /\ j \notin retired =>
        ~(row.token = j /\ row.live)

\* An accepted operation comes to its end, so that drain() does.
JobsEnd == \A j \in Jobs : job[j].pc = "claiming" ~> job[j].pc \in {"done", "new"}

=============================================================================
