-------------------------------- MODULE TabLock --------------------------------
(***************************************************************************)
(* The primary-tab lock (tab-lock.js): of the tabs of one browser one may  *)
(* write.  A tab asks the browser for an exclusive Web Lock; where there   *)
(* are none, or the request throws, it falls back to a lease in            *)
(* localStorage that every tab reads and writes without a lock: storage    *)
(* events and a broadcast channel tell the others, and a heartbeat renews  *)
(* and re-reads it.  A tab that was refused or demoted stays read-only     *)
(* until it is reloaded, which is a new tab here.                          *)
(*                                                                         *)
(* A step of a tab is one access to localStorage: tabs are processes, so   *)
(* the accesses of one function interleave with those of other tabs, while *)
(* the callbacks of one tab never interleave with each other.              *)
(*                                                                         *)
(* Time passes in ticks.  A tab that is not frozen does what is due before *)
(* the next one (Tick); Freeze lifts this for a suspended or throttled tab.*)
(***************************************************************************)
EXTENDS Integers, FiniteSets

CONSTANTS
    Tabs,           \* loads of the page; each has a fresh identity
    NoTab,
    NativeLocks,    \* navigator.locks exists
    SettleTime,     \* the wait of acquireFallback and of an election, in ticks
    HeartbeatTime,  \* HEARTBEAT_MS
    LeaseTime,      \* LEASE_MS
    MaxFreezes      \* bound on the tabs frozen

ASSUME TabsAssumption == NoTab \notin Tabs /\ NativeLocks \in BOOLEAN

ASSUME TimesAssumption ==
    /\ SettleTime \in Nat /\ HeartbeatTime \in Nat /\ LeaseTime \in Nat
    /\ 0 < SettleTime /\ SettleTime < HeartbeatTime /\ HeartbeatTime < LeaseTime
    /\ MaxFreezes \in Nat

VARIABLES
    lock,       \* the tab that holds the Web Lock
    lease,      \* localStorage: [id, left]; left = 0 once it has expired
    tab,        \* the state of each tab
    mail,       \* storage events and channel messages on their way
    freezes     \* tabs frozen so far

vars == <<lock, lease, tab, mail, freezes>>

NoLease == [id |-> NoTab, left |-> 0]

Off == -1       \* a timer that is not set

Unopened == [phase |-> "new", pc |-> "idle", intent |-> "claim",
             primary |-> FALSE, readOnly |-> FALSE, settled |-> FALSE, unproven |-> FALSE,
             settle |-> Off, heartbeat |-> Off, retry |-> Off, frozen |-> FALSE]

-----------------------------------------------------------------------------
(* The lease *)

Live(l) == l.left > 0

Blocks(l, t) == l.id # t /\ Live(l)

\* Tabs whose listeners and authority an event can still change.
Listeners(t) == {u \in Tabs \ {t} : tab[u].phase = "fallback" /\ ~tab[u].readOnly}

Stored(t, l) == {[to |-> u, kind |-> "stored", left |-> l.left] : u \in Listeners(t)}

Claimed(t) == {[to |-> u, kind |-> "claimed", left |-> 0] : u \in Listeners(t)}

-----------------------------------------------------------------------------
(* What a callback leaves behind *)

\* Mutant: a resolved acquisition keeps its answer.
AuthorityOnce(r, won) ==
    IF won \/ r.settled THEN [r EXCEPT !.primary = @ \/ won]
    ELSE [r EXCEPT !.readOnly = TRUE, !.heartbeat = Off, !.retry = Off]

\* setPrimary: read-only is for good, and the later timers of a read-only tab
\* find nothing to do.
Authority(r, won) ==
    IF won THEN [r EXCEPT !.primary = TRUE]
    ELSE [r EXCEPT !.primary = FALSE, !.readOnly = TRUE, !.heartbeat = Off, !.retry = Off]

\* Mutant: acquireFallback resolves with the first claim.
DoneAtOnce(r) == [r EXCEPT !.pc = "idle", !.intent = "claim", !.settled = TRUE]

\* The callback returns; acquireFallback resolves after the heartbeat that
\* follows its wait.
Done(r) == [r EXCEPT !.pc = "idle", !.intent = "claim", !.settled = @ \/ r.settle = Off]

Closed == [Unopened EXCEPT !.phase = "closed", !.readOnly = TRUE, !.settled = TRUE]

\* scheduleElection: nothing to elect in a read-only tab.
Elect(r) == IF r.readOnly THEN r ELSE [r EXCEPT !.retry = SettleTime]

Begin(r, intent) == [r EXCEPT !.pc = "read", !.intent = intent]

Awake(t) == tab[t].phase = "fallback" /\ ~tab[t].frozen

Idle(t) == Awake(t) /\ tab[t].pc = "idle"

-----------------------------------------------------------------------------
(* Acquisition *)

Init ==
    /\ lock = NoTab
    /\ lease = NoLease
    /\ tab = [t \in Tabs |-> Unopened]
    /\ mail = {}
    /\ freezes = 0

\* acquirePrimaryTabLock, the Web Lock granted or denied at once (ifAvailable).
HoldNative(t) ==
    /\ NativeLocks
    /\ tab[t].phase = "new"
    /\ lock' = IF lock = NoTab THEN t ELSE lock
    /\ tab' = [tab EXCEPT ![t] = [Authority(@, lock = NoTab) EXCEPT
                                    !.phase = "native", !.settled = TRUE]]
    /\ UNCHANGED <<lease, mail, freezes>>

\* startFallback: no Web Locks, or the request threw.
StartFallback(t) ==
    /\ tab[t].phase = "new"
    /\ tab' = [tab EXCEPT ![t] = [Begin(@, "claim") EXCEPT !.phase = "fallback",
                                    !.settle = SettleTime, !.heartbeat = HeartbeatTime]]
    /\ UNCHANGED <<lock, lease, mail, freezes>>

\* Mutant: the expired lease of a tab that died still blocks.
ReadLeaseOfTheDead(t) ==
    /\ Awake(t)
    /\ tab[t].pc = "read"
    /\ tab' = [tab EXCEPT ![t] = IF lease.id \in {t, NoTab} THEN [@ EXCEPT !.pc = "write"]
                                ELSE Done(Authority(@, FALSE))]
    /\ UNCHANGED <<lock, lease, mail, freezes>>

\* The first access: claimFallbackLease and heartbeat give way to the live
\* lease of another tab, an election to any live lease.
ReadLease(t) ==
    /\ Awake(t)
    /\ tab[t].pc = "read"
    /\ tab' = [tab EXCEPT ![t] =
                CASE @.intent = "elect" /\ Live(lease) -> Done(@)
                  [] @.intent = "elect" /\ ~Live(lease) -> Begin(@, "claim")
                  [] @.intent # "elect" /\ Blocks(lease, t) -> Done(Authority(@, FALSE))
                  [] OTHER -> [@ EXCEPT !.pc = "write"]]
    /\ UNCHANGED <<lock, lease, mail, freezes>>

WriteLease(t) ==
    /\ Awake(t)
    /\ tab[t].pc = "write"
    /\ lease' = [id |-> t, left |-> LeaseTime]
    /\ mail' = mail \cup Stored(t, lease')
    /\ tab' = [tab EXCEPT ![t].pc = "verify"]
    /\ UNCHANGED <<lock, freezes>>

\* writeLease reads its own lease back; a claim that won is announced.
VerifyLease(t) ==
    LET won == lease.id = t IN
    /\ Awake(t)
    /\ tab[t].pc = "verify"
    /\ tab' = [tab EXCEPT ![t] = Done(Authority(@, won))]
    /\ mail' = mail \cup (IF won /\ tab[t].intent = "claim" THEN Claimed(t) ELSE {})
    /\ UNCHANGED <<lock, lease, freezes>>

\* localStorage throws or holds no lease: failClosed.
FailClosed(t) ==
    /\ Awake(t)
    /\ tab[t].pc # "idle" /\ tab[t].pc # "drop"
    /\ tab' = [tab EXCEPT ![t] = Done([Authority(@, FALSE) EXCEPT !.unproven = TRUE])]
    /\ UNCHANGED <<lock, lease, mail, freezes>>

-----------------------------------------------------------------------------
(* Timers and events *)

\* heartbeat: a tab without authority has nothing to renew.
Renewed(r) == IF r.primary THEN Begin(r, "renew") ELSE Done(r)

\* The wait of acquireFallback is over.
Settle(t) ==
    /\ Idle(t)
    /\ tab[t].settle = 0
    /\ tab' = [tab EXCEPT ![t] = Renewed([@ EXCEPT !.settle = Off])]
    /\ UNCHANGED <<lock, lease, mail, freezes>>

Heartbeat(t) ==
    /\ Idle(t)
    /\ tab[t].heartbeat = 0
    /\ tab' = [tab EXCEPT ![t] = Renewed([@ EXCEPT !.heartbeat = HeartbeatTime])]
    /\ UNCHANGED <<lock, lease, mail, freezes>>

\* The timer of scheduleElection.
Election(t) ==
    /\ Idle(t)
    /\ tab[t].retry = 0
    /\ tab' = [tab EXCEPT ![t] = Begin([@ EXCEPT !.retry = Off], "elect")]
    /\ UNCHANGED <<lock, lease, mail, freezes>>

\* The storage listener goes by the event's value, the channel listener by the
\* lease as it is now.
Receive(t) ==
    \E m \in mail :
        LET taken == IF m.kind = "stored" THEN m.left > 0 ELSE lease.id # t IN
        /\ m.to = t
        /\ Idle(t)
        /\ mail' = mail \ {m}
        /\ tab' = [tab EXCEPT ![t] = CASE taken -> Authority(@, FALSE)
                                       [] ~taken /\ m.kind = "stored" -> Elect(@)
                                       [] OTHER -> @]
        /\ UNCHANGED <<lock, lease, freezes>>

-----------------------------------------------------------------------------
(* The end of a tab *)

\* dispose, on pagehide: the lease goes only if it is the tab's own.
Dispose(t) ==
    /\ tab[t].phase = "native" \/ Idle(t)
    /\ tab' = [tab EXCEPT ![t] =
                IF @.phase = "fallback" /\ lease.id = t
                THEN [Authority(@, FALSE) EXCEPT !.pc = "drop"]
                ELSE Closed]
    /\ lock' = IF lock = t THEN NoTab ELSE lock
    /\ mail' = {m \in mail : m.to # t}
    /\ UNCHANGED <<lease, freezes>>

DropLease(t) ==
    /\ Awake(t)
    /\ tab[t].pc = "drop"
    /\ lease' = NoLease
    /\ mail' = mail \cup Stored(t, NoLease)
    /\ tab' = [tab EXCEPT ![t] = Closed]
    /\ UNCHANGED <<lock, freezes>>

\* The process dies: no pagehide, the browser frees the Web Lock.
Crash(t) ==
    /\ tab[t].phase \in {"native", "fallback"}
    /\ tab' = [tab EXCEPT ![t] = Closed]
    /\ lock' = IF lock = t THEN NoTab ELSE lock
    /\ mail' = {m \in mail : m.to # t}
    /\ UNCHANGED <<lease, freezes>>

-----------------------------------------------------------------------------
(* Time *)

Freeze(t) ==
    /\ freezes < MaxFreezes
    /\ Awake(t)
    /\ ~tab[t].readOnly
    /\ tab' = [tab EXCEPT ![t].frozen = TRUE]
    /\ freezes' = freezes + 1
    /\ UNCHANGED <<lock, lease, mail>>

Thaw(t) ==
    /\ tab[t].frozen
    /\ tab' = [tab EXCEPT ![t].frozen = FALSE]
    /\ UNCHANGED <<lock, lease, mail, freezes>>

Due(t) ==
    /\ Awake(t)
    /\ \/ tab[t].pc # "idle"
       \/ 0 \in {tab[t].settle, tab[t].heartbeat, tab[t].retry}
       \/ \E m \in mail : m.to = t

\* Every tab that runs has done what was due.
Quiet == \A t \in Tabs : ~Due(t)

Earlier(n) == IF n > 0 THEN n - 1 ELSE n

Tick ==
    /\ Quiet
    /\ \E t \in Tabs : tab[t].phase = "fallback"
    /\ lease' = [lease EXCEPT !.left = Earlier(@)]
    /\ tab' = [t \in Tabs |-> [tab[t] EXCEPT !.settle = Earlier(@), !.retry = Earlier(@),
                                             !.heartbeat = Earlier(@)]]
    /\ mail' = {[m EXCEPT !.left = Earlier(@)] : m \in mail}
    /\ UNCHANGED <<lock, freezes>>

Step(t) ==
    \/ ReadLease(t) \/ WriteLease(t) \/ VerifyLease(t)
    \/ Settle(t) \/ Heartbeat(t) \/ Election(t) \/ Receive(t) \/ DropLease(t)

Next ==
    \/ \E t \in Tabs :
        \/ Step(t)
        \/ HoldNative(t) \/ StartFallback(t) \/ FailClosed(t)
        \/ Dispose(t) \/ Crash(t) \/ Freeze(t) \/ Thaw(t)
    \/ Tick

Spec == Init /\ [][Next]_vars

\* Timers and events come, and a frozen tab is resumed or closed.
FairSpec == Spec /\ WF_vars(Tick) /\ \A t \in Tabs : WF_vars(Step(t)) /\ WF_vars(Thaw(t))

-----------------------------------------------------------------------------
(* Properties *)

Timers == {Off} \cup Nat

Leases == [id : Tabs \cup {NoTab}, left : 0..LeaseTime]

TabStates ==
    [phase : {"new", "native", "fallback", "closed"},
     pc : {"idle", "read", "write", "verify", "drop"}, intent : {"claim", "renew", "elect"},
     primary : BOOLEAN, readOnly : BOOLEAN, settled : BOOLEAN, unproven : BOOLEAN,
     settle : Timers, heartbeat : Timers, retry : Timers, frozen : BOOLEAN]

Messages == [to : Tabs, kind : {"stored", "claimed"}, left : 0..LeaseTime]

TypeOK ==
    /\ lock \in Tabs \cup {NoTab}
    /\ lease \in Leases
    /\ tab \in [Tabs -> TabStates]
    /\ mail \subseteq Messages
    /\ freezes \in 0..MaxFreezes

\* A tab the application lets write: its acquisition resolved to true.
Writers(phase) == {t \in Tabs : tab[t].phase = phase /\ tab[t].settled /\ tab[t].primary}

\* "Of the tabs of a browser one may write", by either mechanism, as long as no
\* tab was frozen: two tabs that claimed the lease at the same time find each
\* other out before either acquisition resolves.
OneWriter ==
    /\ Cardinality(Writers("native")) <= 1
    /\ freezes = 0 => Cardinality(Writers("fallback")) <= 1

\* Two writers, after a freeze that hid a takeover from one of them, do not
\* last: an event or its next heartbeat demotes it.
TwoWritersEnd == []<>(Cardinality(Writers("fallback")) <= 1)

Alone(t) == \A u \in Tabs \ {t} : tab[u].phase \in {"new", "closed"}

\* A tab that starts alone and finds no live lease gets to write, unless its
\* storage fails or it does not stay alone.  (The event of a lease removed since
\* would still demote it for good: the storage listener goes by the event.)
LoneTabWrites ==
    \A t \in Tabs :
        tab[t].phase = "fallback" /\ ~tab[t].settled /\ tab[t].pc = "read"
            /\ ~Blocks(lease, t) /\ Alone(t) /\ mail = {}
        ~> t \in Writers("fallback") \/ tab[t].unproven \/ tab[t].phase = "closed" \/ ~Alone(t)

=============================================================================
