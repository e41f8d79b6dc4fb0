----------------------------- MODULE TabLockProofs -----------------------------
(***************************************************************************)
(* One writer among the tabs of a browser, for any number of tabs and any  *)
(* times that satisfy TimesAssumption.                                     *)
(***************************************************************************)
EXTENDS TabLock, FiniteSetTheorems, TLAPS

(***************************************************************************)
(* The inductive invariant.                                                *)
(***************************************************************************)

\* The Web Lock: who is primary by it holds it.
LockInv == \A t \in Tabs : tab[t].phase = "native" /\ tab[t].primary => lock = t

\* A tab between two callbacks knows whether it may write, and read-only is
\* for good: no access to the lease follows it but the drop of dispose.
Decided(r) == r.primary \/ r.readOnly

FallbackOk(r) ==
    /\ r.readOnly => ~r.primary /\ r.pc \in {"idle", "drop"} /\ r.retry = Off
    /\ r.pc = "drop" => r.readOnly
    /\ r.pc = "idle" \/ r.intent = "elect" => Decided(r)
    /\ r.settled => r.settle = Off
    /\ freezes = 0 => ~r.frozen /\ (r.settle # SettleTime => Decided(r))

TabsOk ==
    \A t \in Tabs :
        /\ tab[t].phase = "new" => ~tab[t].primary /\ ~tab[t].readOnly /\ ~tab[t].settled
        /\ tab[t].phase = "fallback" => FallbackOk(tab[t])
        /\ tab[t].frozen => tab[t].phase = "fallback"

\* A tab that wrote the lease and has not given way.
Claims(t) ==
    /\ tab[t].phase = "fallback"
    /\ tab[t].primary \/ tab[t].pc = "verify"

\* Of two tabs that wrote the lease the first was told by the second.
RivalsTold ==
    freezes = 0 =>
        \A t, u \in Tabs : t # u /\ Claims(t) /\ Claims(u) =>
            \E m \in mail : m.to \in {t, u} /\ m.kind = "stored" /\ m.left > 0

\* A primary tab whose acquisition lasted a tick at least.
Aged(t) == tab[t].phase = "fallback" /\ tab[t].primary /\ tab[t].settle # SettleTime

OneAged == freezes = 0 => \A t, u \in Tabs : Aged(t) /\ Aged(u) => t = u

IInv == TypeOK /\ LockInv /\ TabsOk /\ RivalsTold /\ OneAged

-----------------------------------------------------------------------------
(* Types *)

LEMMA Times ==
    /\ SettleTime \in Nat /\ HeartbeatTime \in Nat /\ LeaseTime \in Nat
    /\ 0 < SettleTime /\ 0 < LeaseTime /\ MaxFreezes \in Nat
    /\ Off \in Timers /\ SettleTime \in Timers /\ HeartbeatTime \in Timers
    /\ Off # 0 /\ Off # SettleTime
BY TimesAssumption DEF Timers, Off

LEMMA EarlierTimer == \A n \in Timers : Earlier(n) \in Timers
BY DEF Timers, Off, Earlier

LEMMA EarlierLeft == \A n \in 0..LeaseTime : Earlier(n) \in 0..LeaseTime
BY Times DEF Earlier

LEMMA RecordTypes ==
    /\ Unopened \in TabStates /\ Closed \in TabStates
    /\ \A r \in TabStates, won \in BOOLEAN : Authority(r, won) \in TabStates
    /\ \A r \in TabStates : Elect(r) \in TabStates
    /\ \A r \in TabStates, intent \in {"claim", "renew", "elect"} :
          Begin(r, intent) \in TabStates
<1>1. Unopened \in TabStates
  BY Times DEF Unopened, TabStates
<1>2. Closed \in TabStates
  BY <1>1 DEF Closed, TabStates
<1>3. \A r \in TabStates, won \in BOOLEAN : Authority(r, won) \in TabStates
  BY Times DEF Authority, TabStates
<1>4. \A r \in TabStates : Elect(r) \in TabStates
  BY Times DEF Elect, TabStates
<1>5. \A r \in TabStates, intent \in {"claim", "renew", "elect"} :
         Begin(r, intent) \in TabStates
  BY DEF Begin, TabStates
<1> QED BY <1>1, <1>2, <1>3, <1>4, <1>5

LEMMA DoneType == \A r \in TabStates : Done(r) \in TabStates
<1> SUFFICES ASSUME NEW r \in TabStates PROVE Done(r) \in TabStates
  OBVIOUS
<1>1. (r.settled \/ r.settle = Off) \in BOOLEAN
  OBVIOUS
<1>2. \A b \in BOOLEAN :
         [r EXCEPT !.pc = "idle", !.intent = "claim", !.settled = b] \in TabStates
  BY DEF TabStates
<1> QED BY <1>1, <1>2 DEF Done

LEMMA RenewedType == \A r \in TabStates : Renewed(r) \in TabStates
BY RecordTypes, DoneType DEF Renewed

\* A message of a tab goes to another tab.
LEMMA MailTypes ==
    ASSUME NEW t \in Tabs
    PROVE  /\ \A l \in Leases : Stored(t, l) \subseteq Messages
           /\ Claimed(t) \subseteq Messages
           /\ NoLease \in Leases
           /\ [id |-> t, left |-> LeaseTime] \in Leases
BY Times DEF Stored, Claimed, Listeners, Leases, Messages, NoLease

\* What is left of typing a step is the record of its tab.
LEMMA TabStepType ==
    ASSUME TypeOK, NEW t \in Tabs, NEW r \in TabStates, tab' = [tab EXCEPT ![t] = r],
           mail' \subseteq Messages, lease' \in Leases, lock' \in {lock, t, NoTab},
           freezes' \in 0..MaxFreezes
    PROVE  TypeOK'
BY DEF TypeOK

LEMMA TypeNext ==
    ASSUME TypeOK, [Next]_vars
    PROVE  TypeOK'
<1>0. /\ \A t \in Tabs : tab[t] \in TabStates
      /\ mail \subseteq Messages /\ lease \in Leases
      /\ freezes \in 0..MaxFreezes
  BY DEF TypeOK
<1>1. ASSUME NEW t \in Tabs, HoldNative(t) PROVE TypeOK'
  <2>1. \A r \in TabStates : [r EXCEPT !.phase = "native", !.settled = TRUE] \in TabStates
    BY DEF TabStates
  <2>2. [Authority(tab[t], lock = NoTab) EXCEPT !.phase = "native", !.settled = TRUE]
            \in TabStates
    BY <1>0, <2>1, RecordTypes
  <2> QED BY <1>0, <1>1, <2>2, TabStepType DEF HoldNative
<1>2. ASSUME NEW t \in Tabs, StartFallback(t) PROVE TypeOK'
  <2>1. \A r \in TabStates : [r EXCEPT !.phase = "fallback", !.settle = SettleTime,
                                       !.heartbeat = HeartbeatTime] \in TabStates
    BY Times DEF TabStates
  <2>2. [Begin(tab[t], "claim") EXCEPT !.phase = "fallback", !.settle = SettleTime,
                                       !.heartbeat = HeartbeatTime] \in TabStates
    BY <1>0, <2>1, RecordTypes
  <2> QED BY <1>0, <1>2, <2>2, TabStepType DEF StartFallback
<1>3. ASSUME NEW t \in Tabs, ReadLease(t) PROVE TypeOK'
  <2>1. [tab[t] EXCEPT !.pc = "write"] \in TabStates
    BY <1>0 DEF TabStates
  <2>2. Done(Authority(tab[t], FALSE)) \in TabStates /\ Done(tab[t]) \in TabStates
        /\ Begin(tab[t], "claim") \in TabStates
    BY <1>0, RecordTypes, DoneType
  <2>3. \E r \in TabStates : tab' = [tab EXCEPT ![t] = r]
    BY <1>3, <2>1, <2>2 DEF ReadLease
  <2> QED BY <1>0, <1>3, <2>3, TabStepType DEF ReadLease
<1>4. ASSUME NEW t \in Tabs, WriteLease(t) PROVE TypeOK'
  <2>1. [tab[t] EXCEPT !.pc = "verify"] \in TabStates
    BY <1>0 DEF TabStates
  <2>2. tab' = [tab EXCEPT ![t] = [tab[t] EXCEPT !.pc = "verify"]]
    BY <1>4 DEF WriteLease
  <2> QED BY <1>0, <1>4, <2>1, <2>2, TabStepType, MailTypes DEF WriteLease
<1>5. ASSUME NEW t \in Tabs, VerifyLease(t) PROVE TypeOK'
  BY <1>0, <1>5, RecordTypes, DoneType, TabStepType, MailTypes DEF VerifyLease
<1>6. ASSUME NEW t \in Tabs, FailClosed(t) PROVE TypeOK'
  <2>1. \A r \in TabStates : [r EXCEPT !.unproven = TRUE] \in TabStates
    BY DEF TabStates
  <2> QED BY <1>0, <1>6, <2>1, RecordTypes, DoneType, TabStepType DEF FailClosed
<1>7. ASSUME NEW t \in Tabs, Settle(t) \/ Heartbeat(t) \/ Election(t) PROVE TypeOK'
  <2>1. /\ [tab[t] EXCEPT !.settle = Off] \in TabStates
        /\ [tab[t] EXCEPT !.heartbeat = HeartbeatTime] \in TabStates
        /\ [tab[t] EXCEPT !.retry = Off] \in TabStates
    BY <1>0, Times DEF TabStates
  <2> QED BY <1>0, <1>7, <2>1, RecordTypes, RenewedType, TabStepType
          DEF Settle, Heartbeat, Election
<1>8. ASSUME NEW t \in Tabs, Receive(t) PROVE TypeOK'
  <2>1. \E r \in TabStates : tab' = [tab EXCEPT ![t] = r]
    BY <1>0, <1>8, RecordTypes DEF Receive
  <2>2. mail' \subseteq mail /\ UNCHANGED <<lock, lease, freezes>>
    BY <1>8 DEF Receive
  <2> QED BY <1>0, <2>1, <2>2, TabStepType
<1>9. ASSUME NEW t \in Tabs, Dispose(t) PROVE TypeOK'
  <2>1. \A r \in TabStates : [r EXCEPT !.pc = "drop"] \in TabStates
    BY DEF TabStates
  <2>2. \E r \in TabStates : tab' = [tab EXCEPT ![t] = r]
    BY <1>0, <1>9, <2>1, RecordTypes DEF Dispose
  <2> QED BY <1>0, <1>9, <2>2, TabStepType DEF Dispose
<1>10. ASSUME NEW t \in Tabs, DropLease(t) PROVE TypeOK'
  BY <1>0, <1>10, RecordTypes, MailTypes, TabStepType DEF DropLease
<1>11. ASSUME NEW t \in Tabs, Crash(t) PROVE TypeOK'
  BY <1>0, <1>11, RecordTypes, TabStepType DEF Crash
<1>12. ASSUME NEW t \in Tabs, Freeze(t) \/ Thaw(t) PROVE TypeOK'
  <2>1. \A b \in BOOLEAN : [tab[t] EXCEPT !.frozen = b] \in TabStates
    BY <1>0 DEF TabStates
  <2>2. \E b \in BOOLEAN : tab' = [tab EXCEPT ![t] = [tab[t] EXCEPT !.frozen = b]]
    BY <1>12 DEF Freeze, Thaw
  <2>3. freezes' \in 0..MaxFreezes
    BY <1>0, <1>12, Times DEF Freeze, Thaw
  <2> QED BY <1>0, <1>12, <2>1, <2>2, <2>3, TabStepType DEF Freeze, Thaw
<1>13. CASE Tick
  <2>1. \A t \in Tabs : [tab[t] EXCEPT !.settle = Earlier(@), !.retry = Earlier(@),
                                       !.heartbeat = Earlier(@)] \in TabStates
    BY <1>0, EarlierTimer DEF TabStates
  <2>2. \A m \in mail : [m EXCEPT !.left = Earlier(@)] \in Messages
    BY <1>0, EarlierLeft DEF Messages
  <2>3. [lease EXCEPT !.left = Earlier(@)] \in Leases
    BY <1>0, EarlierLeft DEF Leases
  <2> QED BY <1>13, <2>1, <2>2, <2>3 DEF Tick, TypeOK
<1>14. CASE UNCHANGED vars
  BY <1>14 DEF vars, TypeOK
<1> QED
  BY <1>1, <1>2, <1>3, <1>4, <1>5, <1>6, <1>7, <1>8, <1>9, <1>10, <1>11, <1>12, <1>13, <1>14
     DEF Next, Step

LEMMA TypeInit == Init => TypeOK
BY RecordTypes, Times DEF Init, TypeOK, Leases, NoLease

-----------------------------------------------------------------------------
(* What a step of one tab does *)

\* The step is of tab t alone, and leaves a record r that fits the invariant.
Steps(t, r) == tab' = [tab EXCEPT ![t] = r]

LEMMA StepsOnly ==
    ASSUME TypeOK, NEW t \in Tabs, NEW r, Steps(t, r)
    PROVE  tab'[t] = r /\ \A u \in Tabs \ {t} : tab'[u] = tab[u]
BY DEF TypeOK, Steps

\* The fields a callback leaves.
LEMMA RecordFields ==
    /\ \A r \in TabStates :
          /\ Authority(r, TRUE) = [r EXCEPT !.primary = TRUE]
          /\ Authority(r, FALSE) = [r EXCEPT !.primary = FALSE, !.readOnly = TRUE,
                                            !.heartbeat = Off, !.retry = Off]
    /\ \A r \in TabStates :
          /\ Done(r).pc = "idle" /\ Done(r).intent = "claim"
          /\ Done(r).settled <=> r.settled \/ r.settle = Off
          /\ Done(r).phase = r.phase /\ Done(r).primary = r.primary
          /\ Done(r).readOnly = r.readOnly /\ Done(r).settle = r.settle
          /\ Done(r).retry = r.retry /\ Done(r).frozen = r.frozen
<1>1. \A r \in TabStates : Authority(r, TRUE) = [r EXCEPT !.primary = TRUE]
  BY DEF Authority
<1>2. \A r \in TabStates :
          Authority(r, FALSE) = [r EXCEPT !.primary = FALSE, !.readOnly = TRUE,
                                          !.heartbeat = Off, !.retry = Off]
  BY DEF Authority
<1>3. \A r \in TabStates :
          /\ Done(r).pc = "idle" /\ Done(r).intent = "claim"
          /\ Done(r).settled <=> r.settled \/ r.settle = Off
          /\ Done(r).phase = r.phase /\ Done(r).primary = r.primary
          /\ Done(r).readOnly = r.readOnly /\ Done(r).settle = r.settle
          /\ Done(r).retry = r.retry /\ Done(r).frozen = r.frozen
  BY DEF Done, TabStates
<1> QED BY <1>1, <1>2, <1>3

LEMMA BeginFields ==
    ASSUME NEW r \in TabStates, NEW intent \in {"claim", "renew", "elect"}
    PROVE  /\ Begin(r, intent).pc = "read" /\ Begin(r, intent).intent = intent
           /\ Begin(r, intent).phase = r.phase /\ Begin(r, intent).primary = r.primary
           /\ Begin(r, intent).readOnly = r.readOnly /\ Begin(r, intent).settled = r.settled
           /\ Begin(r, intent).settle = r.settle /\ Begin(r, intent).retry = r.retry
           /\ Begin(r, intent).frozen = r.frozen /\ Begin(r, intent) \in TabStates
<1>1. Begin(r, intent) \in TabStates
  BY RecordTypes
<1>2. /\ Begin(r, intent).pc = "read" /\ Begin(r, intent).intent = intent
  BY DEF Begin, TabStates
<1>3. /\ Begin(r, intent).phase = r.phase /\ Begin(r, intent).primary = r.primary
      /\ Begin(r, intent).readOnly = r.readOnly /\ Begin(r, intent).settled = r.settled
  BY DEF Begin, TabStates
<1>4. /\ Begin(r, intent).settle = r.settle /\ Begin(r, intent).retry = r.retry
      /\ Begin(r, intent).frozen = r.frozen
  BY DEF Begin, TabStates
<1> QED BY <1>1, <1>2, <1>3, <1>4

\* A tab that gives way fits the invariant, whatever it was about to do.
LEMMA GivesWay ==
    ASSUME NEW r \in TabStates, r.phase = "fallback", FallbackOk(r)
    PROVE  /\ Done(Authority(r, FALSE)).phase = "fallback"
           /\ FallbackOk(Done(Authority(r, FALSE)))
           /\ ~Done(Authority(r, FALSE)).primary
<1> DEFINE a == Authority(r, FALSE)
<1>1. a \in TabStates /\ a = [r EXCEPT !.primary = FALSE, !.readOnly = TRUE,
                                       !.heartbeat = Off, !.retry = Off]
  BY RecordTypes, RecordFields
<1>2. /\ ~a.primary /\ a.readOnly /\ a.retry = Off /\ a.phase = "fallback"
      /\ a.settled = r.settled /\ a.settle = r.settle /\ a.frozen = r.frozen
  BY <1>1 DEF TabStates
<1> HIDE DEF a
<1>3. /\ Done(a).pc = "idle" /\ Done(a).intent = "claim"
      /\ Done(a).settled <=> a.settled \/ a.settle = Off
      /\ Done(a).phase = a.phase /\ Done(a).primary = a.primary
      /\ Done(a).readOnly = a.readOnly /\ Done(a).settle = a.settle
      /\ Done(a).retry = a.retry /\ Done(a).frozen = a.frozen
  BY <1>1, RecordFields
<1>4. FallbackOk(Done(a)) /\ Done(a).phase = "fallback" /\ ~Done(a).primary
  BY <1>2, <1>3 DEF FallbackOk, Decided
<1> QED BY <1>4 DEF a

\* What an authority that t keeps or loses cannot disturb.
Harmless(t) ==
    /\ \A u \in Tabs \ {t} : tab'[u] = tab[u]
    /\ freezes' = freezes
    /\ lock' = lock \/ lock \in {t, NoTab}
    /\ tab'[t].phase # "new"
    /\ tab'[t].phase = "native" /\ tab'[t].primary => lock' = t
    /\ tab'[t].frozen => tab'[t].phase = "fallback"
    /\ tab'[t].phase = "fallback" => FallbackOk(tab[t])'
    /\ Claims(t)' => Claims(t)
    /\ freezes = 0 => (Aged(t)' => Aged(t))
    /\ \A m \in mail : m.kind = "stored" /\ m.left > 0 =>
          m \in mail' \/ (m.to = t /\ ~Claims(t)')

LEMMA HarmlessKeeps ==
    ASSUME IInv, NEW t \in Tabs, Harmless(t)
    PROVE  LockInv' /\ TabsOk' /\ RivalsTold' /\ OneAged'
<1>1. LockInv'
  BY TabsAssumption DEF IInv, Harmless, LockInv, TypeOK
<1>2. TabsOk'
  <2> SUFFICES ASSUME NEW u \in Tabs
               PROVE  /\ tab'[u].phase = "new" =>
                            ~tab'[u].primary /\ ~tab'[u].readOnly /\ ~tab'[u].settled
                      /\ tab'[u].phase = "fallback" => FallbackOk(tab[u])'
                      /\ tab'[u].frozen => tab'[u].phase = "fallback"
    BY DEF TabsOk
  <2>1. CASE u = t
    BY <2>1 DEF Harmless
  <2>2. CASE u # t
    <3>1. tab'[u] = tab[u] /\ freezes' = freezes
      BY <2>2 DEF Harmless
    <3> QED BY <3>1 DEF IInv, TabsOk, FallbackOk
  <2> QED BY <2>1, <2>2
<1>3. \A u \in Tabs : Claims(u)' => Claims(u)
  BY DEF Harmless, Claims
<1>4. RivalsTold'
  <2> SUFFICES ASSUME freezes' = 0, NEW u \in Tabs, NEW v \in Tabs, u # v,
                      Claims(u)', Claims(v)'
               PROVE  \E m \in mail' : m.to \in {u, v} /\ m.kind = "stored" /\ m.left > 0
    BY DEF RivalsTold, Claims
  <2>1. PICK m \in mail : m.to \in {u, v} /\ m.kind = "stored" /\ m.left > 0
    BY <1>3 DEF IInv, RivalsTold, Harmless
  <2> QED BY <2>1 DEF Harmless
<1>5. freezes = 0 => \A u \in Tabs : Aged(u)' => Aged(u)
  BY DEF Harmless, Aged
<1>6. OneAged'
  BY <1>5 DEF IInv, OneAged, Harmless, Aged
<1> QED BY <1>1, <1>2, <1>4, <1>6

\* A step of a tab in fallback that leaves the mail for it unless it gives way.
LEMMA FallbackStep ==
    ASSUME IInv, NEW t \in Tabs, tab[t].phase = "fallback", NEW r \in TabStates, Steps(t, r),
           freezes' = freezes, lock' = lock,
           r.phase = "fallback", FallbackOk(r),
           r.primary \/ r.pc = "verify" => Claims(t),
           freezes = 0 /\ r.primary /\ r.settle # SettleTime => Aged(t),
           \A m \in mail : m.kind = "stored" /\ m.left > 0 =>
               m \in mail' \/ (m.to = t /\ ~r.primary /\ r.pc # "verify")
    PROVE  Harmless(t)
<1>1. tab'[t] = r /\ \A u \in Tabs \ {t} : tab'[u] = tab[u]
  BY StepsOnly DEF IInv
<1>2. FallbackOk(tab[t])'
  BY <1>1 DEF FallbackOk
<1>3. (Claims(t)' <=> r.primary \/ r.pc = "verify") /\ (freezes = 0 /\ Aged(t)' => Aged(t))
  BY <1>1 DEF Claims, Aged
<1> QED BY <1>1, <1>2, <1>3 DEF Harmless

LEMMA ReadStep ==
    ASSUME IInv, NEW t \in Tabs, ReadLease(t)
    PROVE  Harmless(t)
<1>1. /\ tab[t] \in TabStates /\ tab[t].phase = "fallback" /\ FallbackOk(tab[t])
      /\ tab[t].pc = "read" /\ UNCHANGED <<lock, mail, freezes>>
  BY DEF IInv, TypeOK, TabsOk, ReadLease, Awake
<1>2. CASE Steps(t, Done(tab[t])) /\ tab[t].intent = "elect"
  <2> DEFINE r == Done(tab[t])
  <2>1. r \in TabStates /\ r.phase = "fallback" /\ FallbackOk(r)
    BY <1>1, <1>2, DoneType, RecordFields DEF FallbackOk, Decided
  <2>2. r.pc = "idle" /\ r.primary = tab[t].primary /\ r.settle = tab[t].settle
    BY <1>1, RecordFields
  <2> HIDE DEF r
  <2>3. Steps(t, r)
    BY <1>2 DEF r
  <2> QED BY <1>1, <2>1, <2>2, <2>3, FallbackStep DEF Claims, Aged
<1>3. CASE Steps(t, Begin(tab[t], "claim"))
  <2> DEFINE r == Begin(tab[t], "claim")
  <2>1. r = [tab[t] EXCEPT !.pc = "read", !.intent = "claim"]
    BY DEF Begin
  <2>2. r \in TabStates
    BY <1>1, RecordTypes
  <2> HIDE DEF r
  <2>3. r.phase = "fallback" /\ FallbackOk(r) /\ r.pc = "read"
        /\ r.primary = tab[t].primary /\ r.settle = tab[t].settle
    BY <1>1, <2>1 DEF TabStates, FallbackOk, Decided
  <2>4. Steps(t, r)
    BY <1>3 DEF r
  <2> QED BY <1>1, <2>2, <2>3, <2>4, FallbackStep DEF Claims, Aged
<1>4. CASE Steps(t, Done(Authority(tab[t], FALSE)))
  <2> DEFINE r == Done(Authority(tab[t], FALSE))
  <2>1. r \in TabStates /\ r.phase = "fallback" /\ FallbackOk(r) /\ ~r.primary /\ r.pc = "idle"
    BY <1>1, GivesWay, RecordTypes, DoneType, RecordFields
  <2> HIDE DEF r
  <2>2. Steps(t, r)
    BY <1>4 DEF r
  <2> QED BY <1>1, <2>1, <2>2, FallbackStep
<1>5. CASE Steps(t, [tab[t] EXCEPT !.pc = "write"])
  <2> DEFINE r == [tab[t] EXCEPT !.pc = "write"]
  <2>1. r \in TabStates /\ r.phase = "fallback" /\ FallbackOk(r) /\ r.pc = "write"
        /\ r.primary = tab[t].primary /\ r.settle = tab[t].settle
    BY <1>1 DEF TabStates, FallbackOk, Decided
  <2> HIDE DEF r
  <2>2. Steps(t, r)
    BY <1>5 DEF r
  <2> QED BY <1>1, <2>1, <2>2, FallbackStep DEF Claims, Aged
<1> QED BY <1>2, <1>3, <1>4, <1>5 DEF ReadLease, Steps

LEMMA VerifyStep ==
    ASSUME IInv, NEW t \in Tabs, VerifyLease(t) \/ FailClosed(t)
    PROVE  Harmless(t)
<1>1. /\ tab[t] \in TabStates /\ tab[t].phase = "fallback" /\ FallbackOk(tab[t])
      /\ tab[t].pc \notin {"idle", "drop"} /\ UNCHANGED <<lock, freezes>>
      /\ mail \subseteq mail'
  BY DEF IInv, TypeOK, TabsOk, VerifyLease, FailClosed, Awake
<1>2. CASE Steps(t, Done(Authority(tab[t], FALSE)))
  <2> DEFINE r == Done(Authority(tab[t], FALSE))
  <2>1. r \in TabStates /\ r.phase = "fallback" /\ FallbackOk(r) /\ ~r.primary /\ r.pc = "idle"
    BY <1>1, GivesWay, RecordTypes, DoneType, RecordFields
  <2> HIDE DEF r
  <2>2. Steps(t, r)
    BY <1>2 DEF r
  <2> QED BY <1>1, <2>1, <2>2, FallbackStep
<1>3. CASE tab[t].pc = "verify" /\ Steps(t, Done(Authority(tab[t], TRUE)))
  <2> DEFINE a == Authority(tab[t], TRUE)
             r == Done(a)
  <2>1. a \in TabStates /\ a = [tab[t] EXCEPT !.primary = TRUE]
    BY <1>1, RecordTypes, RecordFields
  <2>2. /\ a.primary /\ ~a.readOnly /\ a.phase = "fallback"
        /\ a.settled = tab[t].settled /\ a.settle = tab[t].settle /\ a.frozen = tab[t].frozen
    BY <1>1, <1>3, <2>1 DEF TabStates, FallbackOk
  <2> HIDE DEF a
  <2>3. /\ r.pc = "idle" /\ r.intent = "claim" /\ (r.settled <=> a.settled \/ a.settle = Off)
        /\ r.phase = a.phase /\ r.primary = a.primary /\ r.readOnly = a.readOnly
        /\ r.settle = a.settle /\ r.frozen = a.frozen /\ r \in TabStates
    BY <2>1, RecordFields, DoneType
  <2>4. Steps(t, r)
    BY <1>3 DEF a
  <2> HIDE DEF r
  <2>5. FallbackOk(r)
    BY <1>1, <2>2, <2>3 DEF FallbackOk, Decided
  <2>6. freezes = 0 /\ tab[t].settle # SettleTime => tab[t].primary
    BY <1>1, <1>3 DEF FallbackOk, Decided
  <2> QED BY <1>1, <1>3, <2>2, <2>3, <2>4, <2>5, <2>6, FallbackStep DEF Claims, Aged
<1>4. CASE Steps(t, Done([Authority(tab[t], FALSE) EXCEPT !.unproven = TRUE]))
  <2> DEFINE a == [Authority(tab[t], FALSE) EXCEPT !.unproven = TRUE]
             r == Done(a)
  <2>1. Authority(tab[t], FALSE) = [tab[t] EXCEPT !.primary = FALSE, !.readOnly = TRUE,
                                                  !.heartbeat = Off, !.retry = Off]
        /\ Authority(tab[t], FALSE) \in TabStates
    BY <1>1, RecordTypes, RecordFields
  <2>2. /\ ~a.primary /\ a.readOnly /\ a.retry = Off /\ a.phase = "fallback"
        /\ a.settled = tab[t].settled /\ a.settle = tab[t].settle
        /\ a.frozen = tab[t].frozen /\ a \in TabStates
    BY <1>1, <2>1 DEF TabStates
  <2> HIDE DEF a
  <2>3. /\ r.pc = "idle" /\ r.intent = "claim" /\ (r.settled <=> a.settled \/ a.settle = Off)
        /\ r.phase = a.phase /\ r.primary = a.primary /\ r.readOnly = a.readOnly
        /\ r.settle = a.settle /\ r.frozen = a.frozen /\ r.retry = a.retry /\ r \in TabStates
    BY <2>2, RecordFields, DoneType
  <2>4. Steps(t, r)
    BY <1>4 DEF a
  <2> HIDE DEF r
  <2>5. FallbackOk(r)
    BY <1>1, <2>2, <2>3 DEF FallbackOk, Decided
  <2> QED BY <1>1, <2>2, <2>3, <2>4, <2>5, FallbackStep
<1> QED BY <1>2, <1>3, <1>4 DEF VerifyLease, FailClosed, Steps

LEMMA TimerStep ==
    ASSUME IInv, NEW t \in Tabs, Settle(t) \/ Heartbeat(t) \/ Election(t)
    PROVE  Harmless(t)
<1>1. /\ tab[t] \in TabStates /\ tab[t].phase = "fallback" /\ FallbackOk(tab[t])
      /\ tab[t].pc = "idle" /\ UNCHANGED <<lock, mail, freezes>>
  BY DEF IInv, TypeOK, TabsOk, Settle, Heartbeat, Election, Idle, Awake
<1>2. ASSUME NEW a \in TabStates, Steps(t, Renewed(a)),
             a.phase = "fallback", a.pc = "idle", a.intent = tab[t].intent,
             a.primary = tab[t].primary, a.readOnly = tab[t].readOnly,
             a.settled = tab[t].settled, a.frozen = tab[t].frozen, a.retry = tab[t].retry,
             a.settle = tab[t].settle \/ (a.settle = Off /\ tab[t].settle = 0)
      PROVE  Harmless(t)
  <2> DEFINE r == Renewed(a)
  <2>2. /\ r.phase = "fallback" /\ r.pc \in {"read", "idle"} /\ r.intent # "elect"
        /\ r.primary = tab[t].primary /\ r.readOnly = tab[t].readOnly
        /\ r.frozen = tab[t].frozen /\ r.retry = tab[t].retry /\ r.settle = a.settle
        /\ r.settled => tab[t].settled \/ a.settle = Off
        /\ r.pc = "read" => r.primary
        /\ r \in TabStates
    <3>1. CASE a.primary
      <4>1. r = Begin(a, "renew")
        BY <3>1 DEF Renewed
      <4> HIDE DEF r
      <4>2. /\ r.pc = "read" /\ r.intent = "renew" /\ r.phase = a.phase
            /\ r.primary = a.primary /\ r.readOnly = a.readOnly /\ r.settled = a.settled
            /\ r.settle = a.settle /\ r.retry = a.retry /\ r.frozen = a.frozen
            /\ r \in TabStates
        BY <4>1, BeginFields
      <4> QED BY <1>2, <3>1, <4>2
    <3>2. CASE ~a.primary
      BY <1>2, <3>2, RecordFields, RenewedType DEF Renewed
    <3> QED BY <3>1, <3>2
  <2>3. Steps(t, r)
    BY <1>2
  <2> HIDE DEF r
  <2>4. FallbackOk(r)
    BY <1>1, <1>2, <2>2 DEF FallbackOk, Decided
  <2>5. r.settle # SettleTime => tab[t].settle # SettleTime
    BY <1>2, <2>2, Times
  <2> QED BY <1>1, <2>2, <2>3, <2>4, <2>5, FallbackStep DEF Claims, Aged
<1>3. CASE Settle(t)
  <2> DEFINE a == [tab[t] EXCEPT !.settle = Off]
  <2>1. a \in TabStates
    BY <1>1, Times DEF TabStates
  <2>2. Steps(t, Renewed(a)) /\ tab[t].settle = 0
    BY <1>3 DEF Settle, Steps
  <2> QED BY <1>1, <1>2, <2>1, <2>2 DEF TabStates
<1>4. CASE Heartbeat(t)
  <2> DEFINE a == [tab[t] EXCEPT !.heartbeat = HeartbeatTime]
  <2>1. a \in TabStates
    BY <1>1, Times DEF TabStates
  <2>2. Steps(t, Renewed(a))
    BY <1>4 DEF Heartbeat, Steps
  <2> QED BY <1>1, <1>2, <2>1, <2>2 DEF TabStates
<1>5. CASE Election(t)
  <2> DEFINE a == [tab[t] EXCEPT !.retry = Off]
             r == Begin(a, "elect")
  <2>2. tab[t].primary /\ ~tab[t].readOnly
    BY <1>1, <1>5, Times DEF Election, FallbackOk, Decided
  <2>3. /\ a \in TabStates /\ a.phase = "fallback" /\ a.primary /\ ~a.readOnly /\ a.retry = Off
        /\ a.settled = tab[t].settled /\ a.settle = tab[t].settle /\ a.frozen = tab[t].frozen
    BY <1>1, <2>2, Times DEF TabStates
  <2> HIDE DEF a
  <2>4. /\ r \in TabStates /\ r.phase = "fallback" /\ FallbackOk(r) /\ r.pc = "read"
        /\ r.primary = tab[t].primary /\ r.settle = tab[t].settle
    BY <1>1, <2>2, <2>3, BeginFields DEF FallbackOk, Decided
  <2>5. Steps(t, r)
    BY <1>5 DEF Election, Steps, a
  <2> HIDE DEF r
  <2> QED BY <1>1, <2>4, <2>5, FallbackStep DEF Claims, Aged
<1> QED BY <1>3, <1>4, <1>5

LEMMA ReceiveStep ==
    ASSUME IInv, NEW t \in Tabs, Receive(t)
    PROVE  Harmless(t)
<1>1. /\ tab[t] \in TabStates /\ tab[t].phase = "fallback" /\ FallbackOk(tab[t])
      /\ tab[t].pc = "idle" /\ UNCHANGED <<lock, freezes>>
  BY DEF IInv, TypeOK, TabsOk, Receive, Idle, Awake
<1>2. PICK m \in mail :
          /\ m.to = t /\ mail' = mail \ {m}
          /\ \/ Steps(t, Authority(tab[t], FALSE))
             \/ /\ ~(m.kind = "stored" /\ m.left > 0)
                /\ Steps(t, Elect(tab[t])) \/ Steps(t, tab[t])
  BY DEF Receive, Steps
<1>3. CASE Steps(t, Authority(tab[t], FALSE))
  <2> DEFINE r == Authority(tab[t], FALSE)
  <2>1. r \in TabStates /\ r = [tab[t] EXCEPT !.primary = FALSE, !.readOnly = TRUE,
                                              !.heartbeat = Off, !.retry = Off]
    BY <1>1, RecordTypes, RecordFields
  <2>2. r.phase = "fallback" /\ FallbackOk(r) /\ ~r.primary /\ r.pc = "idle"
    BY <1>1, <2>1 DEF TabStates, FallbackOk, Decided
  <2> HIDE DEF r
  <2>3. Steps(t, r)
    BY <1>3 DEF r
  <2> QED BY <1>1, <1>2, <2>1, <2>2, <2>3, FallbackStep
<1>4. ASSUME NEW r \in TabStates, Steps(t, r), r \in {Elect(tab[t]), tab[t]},
             ~(m.kind = "stored" /\ m.left > 0)
      PROVE  Harmless(t)
  <2>1. \/ r = tab[t]
        \/ ~tab[t].readOnly /\ r = [tab[t] EXCEPT !.retry = SettleTime]
    BY <1>4 DEF Elect
  <2>2. /\ r.phase = "fallback" /\ FallbackOk(r) /\ r.pc = "idle"
        /\ r.primary = tab[t].primary /\ r.settle = tab[t].settle
    BY <1>1, <2>1 DEF TabStates, FallbackOk, Decided
  <2> QED BY <1>1, <1>2, <1>4, <2>2, FallbackStep DEF Claims, Aged
<1> QED BY <1>1, <1>2, <1>3, <1>4, RecordTypes

LEMMA EndStep ==
    ASSUME IInv, NEW t \in Tabs, Dispose(t) \/ DropLease(t) \/ Crash(t)
    PROVE  Harmless(t)
<1>1. /\ tab[t] \in TabStates /\ freezes' = freezes
      /\ tab[t].phase = "fallback" => FallbackOk(tab[t])
      /\ lock' = lock \/ lock = t
      /\ \A m \in mail : m \in mail' \/ m.to = t
  BY DEF IInv, TypeOK, TabsOk, Dispose, DropLease, Crash
<1>2. CASE Steps(t, Closed)
  <2>1. tab'[t] = Closed /\ \A u \in Tabs \ {t} : tab'[u] = tab[u]
    BY <1>2, StepsOnly DEF IInv
  <2>2. Closed.phase = "closed" /\ Closed.frozen = FALSE
    BY DEF Closed, Unopened
  <2> QED BY <1>1, <2>1, <2>2 DEF Harmless, Claims, Aged
<1>3. CASE /\ tab[t].phase = "fallback" /\ Idle(t) /\ Dispose(t)
           /\ Steps(t, [Authority(tab[t], FALSE) EXCEPT !.pc = "drop"])
  <2> DEFINE a == Authority(tab[t], FALSE)
             r == [a EXCEPT !.pc = "drop"]
  <2>1. a \in TabStates /\ a = [tab[t] EXCEPT !.primary = FALSE, !.readOnly = TRUE,
                                              !.heartbeat = Off, !.retry = Off]
    BY <1>1, RecordTypes, RecordFields
  <2>2. /\ ~a.primary /\ a.readOnly /\ a.retry = Off /\ a.phase = "fallback"
        /\ a.settled = tab[t].settled /\ a.settle = tab[t].settle /\ a.frozen = tab[t].frozen
    BY <1>1, <1>3, <2>1 DEF TabStates
  <2> HIDE DEF a
  <2>0. /\ r \in TabStates /\ r.pc = "drop"
        /\ r.primary = a.primary /\ r.readOnly = a.readOnly /\ r.retry = a.retry
        /\ r.phase = a.phase /\ r.settled = a.settled /\ r.settle = a.settle
        /\ r.frozen = a.frozen /\ r.intent = a.intent
    <3>1. a \in TabStates
      BY <2>1
    <3>2. r \in TabStates /\ r.pc = "drop"
      BY <3>1 DEF TabStates
    <3> QED BY <3>1, <3>2 DEF TabStates
  <2>3. r.phase = "fallback" /\ FallbackOk(r) /\ ~r.primary /\ r.pc = "drop"
    BY <1>1, <1>3, <2>0, <2>2 DEF FallbackOk, Decided
  <2>4. Steps(t, r)
    BY <1>3 DEF a
  <2> HIDE DEF r
  <2>5. tab'[t] = r /\ \A u \in Tabs \ {t} : tab'[u] = tab[u]
    BY <2>4, StepsOnly DEF IInv
  <2>6. FallbackOk(tab[t])'
    BY <1>1, <2>3, <2>5 DEF FallbackOk
  <2> QED BY <1>1, <2>3, <2>5, <2>6 DEF Harmless, Claims, Aged
<1>4. tab[t].phase = "native" => tab[t].phase # "fallback"
  OBVIOUS
<1> QED BY <1>2, <1>3, <1>4 DEF Dispose, DropLease, Crash, Steps

LEMMA StartStep ==
    ASSUME IInv, NEW t \in Tabs, HoldNative(t) \/ StartFallback(t)
    PROVE  Harmless(t)
<1>1. /\ tab[t] \in TabStates /\ tab[t].phase = "new" /\ UNCHANGED <<mail, freezes>>
      /\ ~tab[t].primary /\ ~tab[t].readOnly /\ ~tab[t].settled /\ ~tab[t].frozen
  BY DEF IInv, TypeOK, TabsOk, HoldNative, StartFallback
<1>2. CASE HoldNative(t)
  <2> DEFINE a == Authority(tab[t], lock = NoTab)
             r == [a EXCEPT !.phase = "native", !.settled = TRUE]
  <2>1. a \in TabStates /\ (a.primary => lock = NoTab) /\ ~a.frozen
    <3>1. a \in TabStates
      BY <1>1, RecordTypes
    <3>2. (a.primary => lock = NoTab) /\ ~a.frozen
      BY <1>1 DEF Authority, TabStates
    <3> QED BY <3>1, <3>2
  <2> HIDE DEF a
  <2>2. r.phase = "native" /\ (r.primary => lock = NoTab) /\ ~r.frozen
    BY <2>1 DEF TabStates
  <2>3. Steps(t, r) /\ lock' = IF lock = NoTab THEN t ELSE lock
    BY <1>2 DEF HoldNative, Steps, a
  <2> HIDE DEF r
  <2>4. tab'[t] = r /\ \A u \in Tabs \ {t} : tab'[u] = tab[u]
    BY <2>3, StepsOnly DEF IInv
  <2> QED BY <1>1, <2>2, <2>3, <2>4 DEF Harmless, Claims, Aged
<1>3. CASE StartFallback(t)
  <2> DEFINE a == Begin(tab[t], "claim")
             r == [a EXCEPT !.phase = "fallback", !.settle = SettleTime,
                            !.heartbeat = HeartbeatTime]
  <2>1. /\ a \in TabStates /\ a.pc = "read" /\ a.intent = "claim" /\ ~a.primary
        /\ ~a.readOnly /\ ~a.settled /\ ~a.frozen
    BY <1>1, BeginFields
  <2> HIDE DEF a
  <2>2. /\ r.phase = "fallback" /\ r.settle = SettleTime /\ r.pc = "read" /\ r.intent = "claim"
        /\ ~r.primary /\ ~r.readOnly /\ ~r.settled /\ ~r.frozen
    BY <2>1 DEF TabStates
  <2>3. Steps(t, r) /\ lock' = lock
    BY <1>3 DEF StartFallback, Steps, a
  <2> HIDE DEF r
  <2>4. tab'[t] = r /\ \A u \in Tabs \ {t} : tab'[u] = tab[u]
    BY <2>3, StepsOnly DEF IInv
  <2>5. FallbackOk(tab[t])'
    BY <2>2, <2>4 DEF FallbackOk
  <2> QED BY <1>1, <2>2, <2>3, <2>4, <2>5 DEF Harmless, Claims, Aged
<1> QED BY <1>2, <1>3

LEMMA ThawStep ==
    ASSUME IInv, NEW t \in Tabs, Thaw(t)
    PROVE  Harmless(t)
<1>1. /\ tab[t] \in TabStates /\ tab[t].phase = "fallback" /\ FallbackOk(tab[t])
      /\ tab[t].frozen /\ UNCHANGED <<lock, mail, freezes>>
  BY DEF IInv, TypeOK, TabsOk, Thaw
<1> DEFINE r == [tab[t] EXCEPT !.frozen = FALSE]
<1>2. r \in TabStates
  BY <1>1 DEF TabStates
<1>3. /\ r.phase = tab[t].phase /\ r.pc = tab[t].pc /\ r.intent = tab[t].intent
      /\ r.primary = tab[t].primary /\ r.readOnly = tab[t].readOnly
      /\ r.settled = tab[t].settled /\ r.settle = tab[t].settle /\ r.retry = tab[t].retry
  BY <1>1 DEF TabStates
<1>4. Steps(t, r)
  BY DEF Thaw, Steps
<1> HIDE DEF r
<1>5. FallbackOk(r)
  BY <1>1, <1>3 DEF FallbackOk, Decided
<1> QED BY <1>1, <1>2, <1>3, <1>4, <1>5, FallbackStep DEF Claims, Aged

\* A tab that writes the lease tells every tab that wrote it before and may
\* still write: they all listen.
LEMMA WriteStep ==
    ASSUME IInv, NEW t \in Tabs, WriteLease(t)
    PROVE  LockInv' /\ TabsOk' /\ RivalsTold' /\ OneAged'
<1>1. /\ tab[t] \in TabStates /\ tab[t].phase = "fallback" /\ FallbackOk(tab[t])
      /\ tab[t].pc = "write" /\ UNCHANGED <<lock, freezes>>
  BY DEF IInv, TypeOK, TabsOk, WriteLease, Awake
<1> DEFINE r == [tab[t] EXCEPT !.pc = "verify"]
<1>2. /\ r.phase = "fallback" /\ r.pc = "verify" /\ r.intent = tab[t].intent
      /\ r.primary = tab[t].primary /\ r.readOnly = tab[t].readOnly
      /\ r.settled = tab[t].settled /\ r.settle = tab[t].settle /\ r.retry = tab[t].retry
      /\ r.frozen = tab[t].frozen
  BY <1>1 DEF TabStates
<1>3. Steps(t, r)
  BY DEF WriteLease, Steps
<1> HIDE DEF r
<1>4. tab'[t] = r /\ \A u \in Tabs \ {t} : tab'[u] = tab[u]
  BY <1>3, StepsOnly DEF IInv
<1>5. LockInv'
  BY <1>1, <1>2, <1>4 DEF IInv, LockInv
<1>6. TabsOk'
  <2>1. FallbackOk(tab[t])'
    BY <1>1, <1>2, <1>4 DEF FallbackOk, Decided
  <2>2. \A u \in Tabs \ {t} : FallbackOk(tab[u]) => FallbackOk(tab[u])'
    BY <1>1, <1>4 DEF FallbackOk
  <2> QED BY <1>1, <1>2, <1>4, <2>1, <2>2 DEF IInv, TabsOk
<1>7. RivalsTold'
  <2>1. mail' = mail \cup Stored(t, lease') /\ lease'.left = LeaseTime
    BY DEF WriteLease
  <2>2. ASSUME NEW u \in Tabs \ {t}, Claims(u)
        PROVE  [to |-> u, kind |-> "stored", left |-> LeaseTime] \in mail'
    <3>1. u \in Listeners(t)
      BY <2>2 DEF IInv, TabsOk, FallbackOk, Claims, Listeners
    <3> QED BY <2>1, <3>1 DEF Stored
  <2>3. \A u \in Tabs \ {t} : Claims(u)' <=> Claims(u)
    BY <1>4 DEF Claims
  <2>4. ASSUME NEW u \in Tabs \ {t}, Claims(u)
        PROVE  \E m \in mail' : m.to = u /\ m.kind = "stored" /\ m.left > 0
    BY <2>2, <2>4, Times
  <2>5. freezes' = 0 => freezes = 0
    BY <1>1
  <2> SUFFICES ASSUME freezes' = 0, NEW u \in Tabs, NEW v \in Tabs, u # v,
                      Claims(u)', Claims(v)'
               PROVE  \E m \in mail' : m.to \in {u, v} /\ m.kind = "stored" /\ m.left > 0
    BY DEF RivalsTold, Claims
  <2>6. CASE u = t \/ v = t
    BY <2>3, <2>4, <2>6
  <2>7. CASE u # t /\ v # t
    BY <2>1, <2>3, <2>5, <2>7 DEF IInv, RivalsTold
  <2> QED BY <2>6, <2>7
<1>8. OneAged'
  <2>1. \A u \in Tabs : Aged(u)' => Aged(u)
    BY <1>1, <1>2, <1>4 DEF Aged
  <2> QED BY <1>1, <2>1 DEF IInv, OneAged, Aged
<1> QED BY <1>5, <1>6, <1>7, <1>8

LEMMA FreezeStep ==
    ASSUME IInv, NEW t \in Tabs, Freeze(t)
    PROVE  LockInv' /\ TabsOk' /\ RivalsTold' /\ OneAged'
<1>1. /\ tab[t] \in TabStates /\ tab[t].phase = "fallback" /\ FallbackOk(tab[t])
      /\ UNCHANGED lock /\ freezes' # 0
  BY DEF IInv, TypeOK, TabsOk, Freeze, Awake
<1> DEFINE r == [tab[t] EXCEPT !.frozen = TRUE]
<1>2. /\ r.phase = tab[t].phase /\ r.pc = tab[t].pc /\ r.intent = tab[t].intent
      /\ r.primary = tab[t].primary /\ r.readOnly = tab[t].readOnly
      /\ r.settled = tab[t].settled /\ r.settle = tab[t].settle /\ r.retry = tab[t].retry
  BY <1>1 DEF TabStates
<1>3. Steps(t, r)
  BY DEF Freeze, Steps
<1> HIDE DEF r
<1>4. tab'[t] = r /\ \A u \in Tabs \ {t} : tab'[u] = tab[u]
  BY <1>3, StepsOnly DEF IInv
<1>5. LockInv'
  BY <1>1, <1>2, <1>4 DEF IInv, LockInv
<1>6. TabsOk'
  <2>1. FallbackOk(tab[t])'
    BY <1>1, <1>2, <1>4 DEF FallbackOk, Decided
  <2>2. \A u \in Tabs \ {t} : FallbackOk(tab[u]) => FallbackOk(tab[u])'
    BY <1>1, <1>4 DEF FallbackOk
  <2> QED BY <1>1, <1>2, <1>4, <2>1, <2>2 DEF IInv, TabsOk
<1> QED BY <1>1, <1>5, <1>6 DEF RivalsTold, OneAged

\* Time passes only when every tab has read its mail: without a frozen tab,
\* one claimant is left.
LEMMA TickStep ==
    ASSUME IInv, Tick
    PROVE  LockInv' /\ TabsOk' /\ RivalsTold' /\ OneAged'
<1> DEFINE r(t) == [tab[t] EXCEPT !.settle = Earlier(@), !.retry = Earlier(@),
                                  !.heartbeat = Earlier(@)]
<1>1. /\ \A t \in Tabs : tab[t] \in TabStates
      /\ \A t \in Tabs : tab'[t] = r(t)
      /\ UNCHANGED <<lock, freezes>> /\ Quiet
  BY DEF IInv, TypeOK, Tick
<1>2. \A t \in Tabs :
         /\ r(t).phase = tab[t].phase /\ r(t).pc = tab[t].pc /\ r(t).intent = tab[t].intent
         /\ r(t).primary = tab[t].primary /\ r(t).readOnly = tab[t].readOnly
         /\ r(t).settled = tab[t].settled /\ r(t).frozen = tab[t].frozen
         /\ r(t).settle = Earlier(tab[t].settle) /\ r(t).retry = Earlier(tab[t].retry)
  BY <1>1 DEF TabStates
<1> HIDE DEF r
<1>3. Earlier(Off) = Off
  BY DEF Earlier, Off
<1>4. \A t \in Tabs : freezes = 0 /\ tab[t].phase = "fallback" =>
         tab[t].pc = "idle" /\ ~\E m \in mail : m.to = t
  BY <1>1 DEF Quiet, Due, Awake, IInv, TabsOk, FallbackOk
<1>5. LockInv'
  BY <1>1, <1>2 DEF IInv, LockInv
<1>6. TabsOk'
  <2>1. ASSUME NEW t \in Tabs, tab[t].phase = "fallback" PROVE FallbackOk(tab[t])'
    <3>1. FallbackOk(tab[t])
      BY <2>1 DEF IInv, TabsOk
    <3> QED BY <1>1, <1>2, <1>3, <1>4, <2>1, <3>1 DEF FallbackOk, Decided
  <2> QED BY <1>1, <1>2, <2>1 DEF IInv, TabsOk
<1>7. \A t \in Tabs : Claims(t)' <=> Claims(t)
  BY <1>1, <1>2 DEF Claims
<1>8. freezes = 0 => \A t, u \in Tabs : Claims(t) /\ Claims(u) => t = u
  BY <1>4 DEF IInv, RivalsTold, Claims
<1>9. RivalsTold'
  BY <1>1, <1>7, <1>8 DEF RivalsTold
<1>10. OneAged'
  BY <1>1, <1>2, <1>7, <1>8 DEF OneAged, Aged, Claims
<1> QED BY <1>5, <1>6, <1>9, <1>10

-----------------------------------------------------------------------------
(* The theorems *)

LEMMA IInvInit == Init => IInv
<1> SUFFICES ASSUME Init PROVE IInv
  OBVIOUS
<1>1. \A t \in Tabs : tab[t].phase = "new" /\ ~tab[t].primary /\ ~tab[t].readOnly
                      /\ ~tab[t].settled /\ ~tab[t].frozen
  BY DEF Init, Unopened
<1> QED BY <1>1, TypeInit DEF IInv, LockInv, TabsOk, RivalsTold, OneAged, Claims, Aged

LEMMA IInvNext == IInv /\ [Next]_vars => IInv'
<1> SUFFICES ASSUME IInv, [Next]_vars PROVE IInv'
  OBVIOUS
<1>1. TypeOK'
  BY TypeNext DEF IInv
<1>2. CASE \E t \in Tabs : Harmless(t)
  BY <1>1, <1>2, HarmlessKeeps DEF IInv
<1>3. CASE \E t \in Tabs : WriteLease(t)
  BY <1>1, <1>3, WriteStep DEF IInv
<1>4. CASE \E t \in Tabs : Freeze(t)
  BY <1>1, <1>4, FreezeStep DEF IInv
<1>5. CASE Tick
  BY <1>1, <1>5, TickStep DEF IInv
<1>6. CASE UNCHANGED vars
  BY <1>1, <1>6 DEF vars, IInv, LockInv, TabsOk, FallbackOk, Decided, RivalsTold, OneAged,
                    Claims, Aged
<1> QED
  BY <1>2, <1>3, <1>4, <1>5, <1>6, ReadStep, VerifyStep, TimerStep, ReceiveStep, EndStep,
     StartStep, ThawStep
     DEF Next, Step

\* Every variable keeps its type.
THEOREM LockTypes == Spec => []TypeOK
<1>1. IInv => TypeOK
  BY DEF IInv
<1> QED BY <1>1, IInvInit, IInvNext, PTL DEF Spec

\* Of the tabs of a browser one may write: by the Web Lock always, by the lease
\* in localStorage as long as no tab was frozen.  The lease needs no lock for
\* it: of two claimants the later told the earlier one, which reads its mail
\* before a tick passes, and an acquisition lasts a tick.
THEOREM OneWriterOnly == Spec => []OneWriter
<1>1. IInv => OneWriter
  <2> SUFFICES ASSUME IInv PROVE OneWriter
    OBVIOUS
  <2>1. ASSUME NEW S, \A t, u \in S : t = u PROVE Cardinality(S) <= 1
    <3>1. S = {} \/ \E t \in S : S = {t}
      BY <2>1
    <3>2. Cardinality({}) = 0 /\ \A t : Cardinality({t}) = 1
      BY FS_EmptySet, FS_Singleton
    <3> QED BY <3>1, <3>2
  <2>2. \A t, u \in Writers("native") : t = u
    BY DEF IInv, LockInv, Writers
  <2>3. freezes = 0 => \A t, u \in Writers("fallback") : t = u
    <3>1. \A t \in Writers("fallback") : Aged(t)
      BY Times DEF IInv, TabsOk, FallbackOk, Writers, Aged
    <3> QED BY <3>1 DEF IInv, OneAged, Writers
  <2>4. Cardinality(Writers("native")) <= 1
    BY <2>1, <2>2
  <2>5. freezes = 0 => Cardinality(Writers("fallback")) <= 1
    BY <2>1, <2>3
  <2> QED BY <2>4, <2>5 DEF OneWriter
<1> QED BY <1>1, IInvInit, IInvNext, PTL DEF Spec

=============================================================================
