---------------------------- MODULE BoundaryProofs ----------------------------
(***************************************************************************)
(* The safety of restores and imports, for any sets of imports, groups and *)
(* marks and any number of faults, as long as imports do not overlap.      *)
(***************************************************************************)
EXTENDS Boundary, TLAPS

\* No import runs beside another one, or over the durable intent of another one.
Alone ==
    \A i, j \in Imports :
        i # j /\ ~At(i, "off") => At(j, "off") /\ ~(Pending /\ record.plan.id = j)

-----------------------------------------------------------------------------
(* Types, over the marks that were used so far.                            *)

Used == Marks \ unused
HeadsOf(M) == [revision : Nat, content : SUBSET M]
FlightsOf(M) == [seq : Nat, content : SUBSET M]
JournalsOf(M) ==
    [seq : Nat, ack : Nat, content : SUBSET M, flight : SUBSET FlightsOf(M),
     boundary : (Ids \cap M) \cup {NoId}, base : HeadsOf(M)]
Versions == [seq : Nat, revision : Nat]
PlansOf(M) ==
    [id : (Ids \cap M) \cup {NoId}, source : [Sides -> Versions],
     target : [Sides -> HeadsOf(M)]]
JobsOf(M) == [step : Steps, plan : PlansOf(M)]
Phases == {"none", "prepared", "shared-applied", "main-applied", "complete"}
RecordsOf(M) == [phase : Phases, plan : PlansOf(M)]
Boots == {"recover", "list", "source", "stage", "serve", "heads", "run", "clear",
          "ready", "failed"}

TypedOver(M) ==
    /\ server \in [Sides -> HeadsOf(M)]
    /\ journal \in [Sides -> JournalsOf(M)]
    /\ record \in RecordsOf(M)
    /\ job \in [Callers -> JobsOf(M)]

TypedControl ==
    /\ group \in [Groups -> {"absent", "staged", "completed"}]
    /\ staged \subseteq Groups
    /\ boot \in Boots /\ current \in Groups \cup {NoId} /\ locked \in BOOLEAN
    /\ unused \subseteq Marks /\ unused \cap Groups = {}

Typed == TypedOver(Used) /\ TypedControl

-----------------------------------------------------------------------------
(* The inductive invariant. *)

Early == {"lock", "check-shared", "check-main", "begin"}
Recovery == {"pending", "read", "apply", "advance", "complete", "confirm"}

\* The start of the page and the imports take turns.
Turns ==
    /\ boot = "recover" => job[Starter].step \in Recovery
    /\ boot = "run" => job[Starter].step \notin {"off", "pending"}
    /\ boot \notin {"recover", "run"} => At(Starter, "off")
    /\ ~Ready => \A i \in Imports : At(i, "off")
    /\ boot \in {"source", "stage", "serve", "heads", "run", "clear"} => current \in Groups
    /\ boot \in {"stage", "serve", "heads", "run"} => job[Starter].plan.id = current
    /\ \A i \in Imports : At(i, "off") \/ (job[i].plan.id = i /\ ~At(i, "pending"))

\* A durable intent keeps the gate closed, and is that of an import once the page
\* is ready: its start does not get past one.
Gate ==
    /\ boot \in {"list", "source", "stage", "serve", "heads", "clear"} => ~Pending
    /\ Ready /\ Pending => locked /\ record.plan.id \in Imports

\* What the phase of the record says of the journals.
RecordOk ==
    /\ Pending => record.plan.id \in Ids
    /\ ~Pending \/ record.phase = "main-applied" =>
          \A s \in Sides : journal[s].boundary = record.plan.id
    /\ record.phase = "shared-applied" => journal["shared"].boundary = record.plan.id

\* What a run knows at each of its steps.
StepOk(c) ==
    /\ job[c].step \in Early =>
          IF c = Starter THEN ~Pending ELSE record.plan.id # c
    /\ At(c, "check-main") => Unchanged("shared", job[c].plan.source)
    /\ At(c, "begin") => \A s \in Sides : Unchanged(s, job[c].plan.source)
    /\ At(c, "apply") => record.phase \in {"prepared", "shared-applied"}
    /\ At(c, "advance") =>
          /\ record.phase \in {"prepared", "shared-applied"}
          /\ journal[SideOf(record.phase)].boundary = record.plan.id
    /\ At(c, "complete") => record.phase = "main-applied"
    /\ At(c, "confirm") => record.phase = "complete"
    /\ c \in Imports /\ job[c].step \notin {"off", "lock"} => locked

\* A journal with nothing to send holds what the cloud does, and a flight holds
\* whatever of the base is still in the document.
JournalOk(j) ==
    /\ j.ack <= j.seq
    /\ j.seq = j.ack /\ j.flight = {} => j.content = j.base.content
    /\ \A f \in j.flight :
          /\ f.seq > j.ack /\ f.seq <= j.seq
          /\ j.content \cap j.base.content \subseteq f.content
          /\ f.seq = j.seq => f.content = j.content

Safe ==
    /\ Turns /\ Gate /\ RecordOk
    /\ \A c \in Callers : StepOk(c)
    /\ \A s \in Sides : JournalOk(journal[s])
    /\ IntentApplicable

IInv == Typed /\ Safe

-----------------------------------------------------------------------------
(* Types *)

LEMMA Mono ==
    ASSUME NEW M, NEW N, M \subseteq N
    PROVE  /\ HeadsOf(M) \subseteq HeadsOf(N) /\ JournalsOf(M) \subseteq JournalsOf(N)
           /\ PlansOf(M) \subseteq PlansOf(N) /\ JobsOf(M) \subseteq JobsOf(N)
           /\ RecordsOf(M) \subseteq RecordsOf(N)
<1>1. HeadsOf(M) \subseteq HeadsOf(N) /\ FlightsOf(M) \subseteq FlightsOf(N)
  BY DEF HeadsOf, FlightsOf
<1>2. JournalsOf(M) \subseteq JournalsOf(N)
  BY <1>1 DEF JournalsOf
<1>3. [Sides -> HeadsOf(M)] \subseteq [Sides -> HeadsOf(N)]
  BY <1>1
<1>4. PlansOf(M) \subseteq PlansOf(N)
  BY <1>3 DEF PlansOf
<1> QED BY <1>1, <1>2, <1>4 DEF JobsOf, RecordsOf

LEMMA MoreUsed == ASSUME NEW M, NEW N, M \subseteq N, TypedOver(M) PROVE TypedOver(N)
<1>1. /\ HeadsOf(M) \subseteq HeadsOf(N) /\ JournalsOf(M) \subseteq JournalsOf(N)
      /\ JobsOf(M) \subseteq JobsOf(N) /\ RecordsOf(M) \subseteq RecordsOf(N)
  BY Mono
<1> QED BY <1>1 DEF TypedOver

LEMMA NothingTyped ==
    ASSUME NEW M
    PROVE  NoPlan \in PlansOf(M) /\ Idle \in JobsOf(M) /\ Fresh \in [Callers -> JobsOf(M)]
<1>1. NoPlan \in PlansOf(M)
  <2>1. [revision |-> 0, content |-> {}] \in HeadsOf(M) /\ [seq |-> 0, revision |-> 0] \in Versions
    BY DEF HeadsOf, Versions
  <2> QED BY <2>1 DEF NoPlan, PlansOf
<1>2. Idle \in JobsOf(M)
  BY <1>1 DEF Idle, JobsOf, Steps
<1>3. [Idle EXCEPT !.step = "pending"] \in JobsOf(M)
  BY <1>2 DEF JobsOf, Steps
<1> QED BY <1>1, <1>2, <1>3 DEF Fresh

\* One caller takes a step, or stops.
LEMMA Moved ==
    ASSUME NEW M, job \in [Callers -> JobsOf(M)], NEW c \in Callers, NEW x \in Steps, Goto(c, x)
    PROVE  /\ job' \in [Callers -> JobsOf(M)]
           /\ job'[c].step = x /\ job'[c].plan = job[c].plan
           /\ \A d \in Callers \ {c} : job'[d] = job[d]
<1>1. job[c] \in JobsOf(M) /\ [job[c] EXCEPT !.step = x] \in JobsOf(M)
  BY DEF JobsOf
<1>2. job' = [job EXCEPT ![c] = [job[c] EXCEPT !.step = x]]
  BY DEF Goto
<1>3. job'[c] = [job[c] EXCEPT !.step = x]
  BY <1>2
<1> QED BY <1>1, <1>2, <1>3 DEF JobsOf

LEMMA Stopped ==
    ASSUME NEW M, job \in [Callers -> JobsOf(M)], NEW c \in Callers, job' = [job EXCEPT ![c] = Idle]
    PROVE  /\ job' \in [Callers -> JobsOf(M)] /\ job'[c].step = "off"
           /\ \A d \in Callers \ {c} : job'[d] = job[d]
BY NothingTyped DEF Idle

LEMMA SameUsed ==
    ASSUME Typed, unused' = unused, TypedOver(Used)', TypedControl'
    PROVE  Typed'
BY DEF Typed

\* The callers, and what each may be doing.
LEMMA Solo ==
    ASSUME IInv, Alone, NEW c \in Callers, NEW d \in Callers, c # d, ~At(c, "off")
    PROVE  At(d, "off")
<1>1. CASE c = Starter
  <2>1. d \in Imports /\ ~Ready
    BY <1>1 DEF Callers, IInv, Safe, Turns, Ready
  <2> QED BY <2>1 DEF IInv, Safe, Turns
<1>2. CASE c # Starter
  <2>1. c \in Imports /\ Ready
    BY <1>2 DEF Callers, IInv, Safe, Turns
  <2>2. CASE d = Starter
    BY <2>1, <2>2 DEF IInv, Safe, Turns, Ready
  <2>3. CASE d # Starter
    BY <2>1, <2>3 DEF Callers, Alone
  <2> QED BY <2>2, <2>3
<1> QED BY <1>1, <1>2

LEMMA Quiet ==
    ASSUME IInv, Alone, NEW c \in Callers, job[c].step \in Early
    PROVE  ~Pending
<1>0. StepOk(c) /\ Turns /\ Gate
  BY DEF IInv, Safe
<1>1. CASE c = Starter
  BY <1>0, <1>1 DEF StepOk
<1>2. CASE c # Starter
  <2>1. c \in Imports /\ ~At(c, "off")
    BY <1>2 DEF Callers, At, Early
  <2>2. Ready /\ record.plan.id # c
    BY <1>0, <1>2, <2>1 DEF Turns, StepOk
  <2> SUFFICES ASSUME Pending PROVE FALSE
    OBVIOUS
  <2>3. record.plan.id \in Imports
    BY <1>0, <2>2 DEF Gate
  <2> QED BY <2>1, <2>2, <2>3 DEF Alone
<1> QED BY <1>1, <1>2

\* A caller that runs is the start of the page before it is ready, an import after.
LEMMA Running ==
    ASSUME IInv, NEW c \in Callers, ~At(c, "off")
    PROVE  /\ c = Starter => boot \in {"recover", "run"}
           /\ c # Starter => Ready /\ c \in Imports
BY DEF Callers, IInv, Safe, Turns

LEMMA OffOk == ASSUME NEW d, job[d].step = "off" PROVE StepOk(d)
BY DEF StepOk, At, Early

LEMMA OthersOff ==
    ASSUME IInv, Alone, NEW c \in Callers, ~At(c, "off"),
           \A d \in Callers \ {c} : job'[d] = job[d], StepOk(c)'
    PROVE  \A d \in Callers : StepOk(d)'
<1> TAKE d \in Callers
<1>1. CASE d = c
  BY <1>1
<1>2. CASE d # c
  <2>1. job'[d].step = "off"
    BY <1>2, Solo DEF At
  <2> QED BY <2>1 DEF StepOk, At, Early
<1> QED BY <1>1, <1>2

\* What depends on the journals and the record only.
Data ==
    /\ RecordOk /\ IntentApplicable
    /\ \A s \in Sides : JournalOk(journal[s])

LEMMA SameData ==
    ASSUME IInv, UNCHANGED <<journal, record>>
    PROVE  Data' /\ (Pending' <=> Pending)
<1>1. Data
  BY DEF IInv, Safe, Data
<1> QED BY <1>1 DEF Data, RecordOk, IntentApplicable, Pending, Unchanged, Head, Clean, JournalOk

-----------------------------------------------------------------------------
(* What a step of a run may do: go on, throw or return. *)

LEMMA ContinueControl ==
    ASSUME IInv, Alone, NEW c \in Callers, ~At(c, "off"),
           NEW x \in Steps \ {"off", "pending"}, boot = "recover" => x \in Recovery,
           Continue(c, x), current' = current, StepOk(c)',
           Ready /\ Pending' => record'.plan.id \in Imports
    PROVE  Turns' /\ Gate' /\ \A d \in Callers : StepOk(d)'
<1>0. Turns /\ job \in [Callers -> JobsOf(Used)] /\ Starter \in Callers
  BY DEF IInv, Safe, Typed, TypedOver, Callers
<1>1. /\ job'[c].step = x /\ job'[c].plan = job[c].plan
      /\ \A d \in Callers \ {c} : job'[d] = job[d]
  BY <1>0, Moved DEF Continue
<1>2. locked' = TRUE /\ boot' = boot
  BY DEF Continue
<1>3. /\ c = Starter => boot \in {"recover", "run"}
      /\ c # Starter => Ready /\ c \in Imports
  BY Running
<1>4. Turns'
  <2>1. CASE c = Starter
    <3>1. \A i \in Imports : job'[i] = job[i]
      BY <1>1, <2>1, IdsAssumption DEF Callers
    <3> QED BY <1>0, <1>1, <1>2, <1>3, <2>1, <3>1 DEF Turns, At, Ready
  <2>2. CASE c # Starter
    <3>1. job'[Starter] = job[Starter] /\ c \in Imports /\ boot = "ready"
      BY <1>0, <1>1, <1>3, <2>2 DEF Ready
    <3>2. \A i \in Imports : i # c => job'[i] = job[i]
      BY <1>1 DEF Callers
    <3> QED BY <1>0, <1>1, <1>2, <3>1, <3>2 DEF Turns, At, Ready
  <2> QED BY <2>1, <2>2
<1>5. Gate'
  BY <1>2, <1>3 DEF Gate, Ready
<1> QED BY <1>1, <1>4, <1>5, OthersOff

LEMMA ContinueSafe ==
    ASSUME IInv, Alone, NEW c \in Callers, ~At(c, "off"),
           NEW x \in Steps \ {"off", "pending"}, boot = "recover" => x \in Recovery,
           Continue(c, x), UNCHANGED <<journal, record, current>>, StepOk(c)'
    PROVE  Safe'
<1>1. Data' /\ (Pending' <=> Pending)
  BY SameData
<1>2. Ready /\ Pending' => record'.plan.id \in Imports
  BY <1>1 DEF IInv, Safe, Gate
<1>3. Turns' /\ Gate' /\ \A d \in Callers : StepOk(d)'
  BY <1>2, ContinueControl
<1> QED BY <1>1, <1>3 DEF Safe, Data

\* The caller is idle again.
LEMMA StopSafe ==
    ASSUME IInv, Alone, NEW c \in Callers, ~At(c, "off") \/ (c = Starter /\ ~Ready),
           job' = [job EXCEPT ![c] = Idle], UNCHANGED <<journal, record, current>>,
           c = Starter => boot' \in {"failed", "list", "clear"},
           boot' = "clear" => current \in Groups,
           c # Starter => boot' = boot,
           boot' \in {"failed", "list", "clear"} \/ Ready,
           Pending => boot' = "failed" \/ (Ready /\ locked' = TRUE)
    PROVE  Safe'
<1>0. Turns /\ Gate /\ job \in [Callers -> JobsOf(Used)] /\ Starter \in Callers
  BY DEF IInv, Safe, Typed, TypedOver, Callers
<1>1. job'[c].step = "off" /\ \A d \in Callers \ {c} : job'[d] = job[d]
  BY <1>0, Stopped
<1>2. Data' /\ (Pending' <=> Pending) /\ record' = record
  BY SameData
<1>3. ~Ready \/ (c # Starter /\ c \in Imports /\ Ready)
  BY <1>0, Running DEF Ready
<1>4. CASE c = Starter
  <2>1. ~Ready /\ boot' \in {"failed", "list", "clear"} /\ job'[Starter].step = "off"
    BY <1>1, <1>3, <1>4
  <2>2. \A i \in Imports : job'[i].step = "off"
    BY <1>0, <1>1, <1>4, <2>1, IdsAssumption DEF Callers, Turns, At
  <2>3. Turns' /\ Gate'
    BY <1>2, <2>1, <2>2 DEF Turns, Gate, At, Ready
  <2>4. \A d \in Callers : StepOk(d)'
    BY <2>1, <2>2 DEF Callers, StepOk, At, Early
  <2> QED BY <1>2, <2>3, <2>4 DEF Safe, Data
<1>5. CASE c # Starter
  <2>1. boot' = boot /\ ~At(c, "off") /\ Ready /\ c \in Imports /\ job'[Starter] = job[Starter]
    BY <1>0, <1>1, <1>5, Running
  <2>2. \A i \in Imports : i # c => job'[i] = job[i]
    BY <1>1 DEF Callers
  <2>3. Turns'
    BY <1>0, <1>1, <2>1, <2>2 DEF Turns, At, Ready
  <2>4. Gate'
    BY <1>0, <1>2, <2>1 DEF Gate, Ready
  <2>5. StepOk(c)'
    BY <1>1 DEF StepOk, At, Early
  <2>6. \A d \in Callers : StepOk(d)'
    BY <1>1, <2>1, <2>5, OthersOff
  <2> QED BY <1>2, <2>3, <2>4, <2>6 DEF Safe, Data
<1> QED BY <1>4, <1>5

LEMMA FailSafe ==
    ASSUME IInv, Alone, NEW c \in Callers, ~At(c, "off"), NEW held, Fail(c, held),
           c \in Imports /\ Pending => held = TRUE, UNCHANGED <<journal, record, current>>
    PROVE  Safe'
<1>1. /\ job' = [job EXCEPT ![c] = Idle] /\ locked' = held
      /\ c = Starter => boot' = "failed"
      /\ c # Starter => boot' = boot
  BY DEF Fail
<1>2. c # Starter => Ready /\ c \in Imports
  BY Running
<1> QED BY <1>1, <1>2, StopSafe DEF Ready

LEMMA ReturnSafe ==
    ASSUME IInv, Alone, NEW c \in Callers, ~At(c, "off"), Return(c), ~Pending,
           UNCHANGED <<journal, record, current>>
    PROVE  Safe'
<1>1. /\ c = Starter => boot \in {"recover", "run"}
      /\ c # Starter => Ready /\ c \in Imports
  BY Running
<1>2. boot = "run" => current \in Groups
  BY DEF IInv, Safe, Turns
<1>3. job' = [job EXCEPT ![c] = Idle]
  BY DEF Return
<1>4. CASE c # Starter
  <2>1. boot' = boot
    BY <1>1, <1>4 DEF Return, Ready
  <2> QED BY <1>1, <1>3, <1>4, <2>1, StopSafe DEF Ready
<1>5. CASE c = Starter /\ boot = "recover"
  <2>1. boot' = "list"
    BY <1>5 DEF Return
  <2> QED BY <1>3, <1>5, <2>1, StopSafe DEF Ready
<1>6. CASE c = Starter /\ boot = "run"
  <2>1. boot' = "clear"
    BY <1>6 DEF Return
  <2> QED BY <1>2, <1>3, <1>6, <2>1, StopSafe DEF Ready
<1> QED BY <1>1, <1>4, <1>5, <1>6

-----------------------------------------------------------------------------
(* The steps of a run. *)

\* Where a caller goes with its plan.
LEMMA WentOn ==
    ASSUME IInv, NEW c \in Callers, NEW x \in Steps, Continue(c, x)
    PROVE  /\ job'[c].step = x /\ job'[c].plan = job[c].plan
           /\ \A d \in Callers \ {c} : job'[d] = job[d]
           /\ locked' = TRUE /\ boot' = boot
BY Moved DEF IInv, Typed, TypedOver, Continue

LEMMA SameVersions ==
    ASSUME UNCHANGED journal, NEW s, NEW source
    PROVE  Unchanged(s, source)' <=> Unchanged(s, source)
BY DEF Unchanged, Head, Clean

LEMMA LockSafe == ASSUME IInv, Alone, NEW c \in Callers, Lock(c) PROVE Safe'
<1>0. At(c, "lock") /\ ~At(c, "off") /\ job[c].step \in Early /\ UNCHANGED <<journal, record, current>>
  BY DEF Lock, At, Early, durables
<1>1. ~Pending /\ StepOk(c)
  BY <1>0, Quiet DEF IInv, Safe
<1>2. CASE Return(c)
  BY <1>0, <1>1, <1>2, ReturnSafe
<1>3. CASE Fail(c, FALSE)
  BY <1>0, <1>1, <1>3, FailSafe
<1>4. CASE Continue(c, "check-shared")
  <2>1. boot # "recover"
    BY <1>0, Running DEF IInv, Safe, Turns, At, Recovery, Ready
  <2>2. "check-shared" \in Steps \ {"off", "pending"}
    BY DEF Steps
  <2>3. job'[c].step = "check-shared" /\ locked' = TRUE
    BY <1>4, <2>2, WentOn
  <2>4. Pending' = Pending /\ record' = record
    BY <1>0 DEF Pending
  <2>5. StepOk(c)'
    BY <1>0, <1>1, <2>3, <2>4 DEF StepOk, At, Early
  <2> QED BY <1>0, <1>4, <2>1, <2>2, <2>5, ContinueSafe
<1> QED BY <1>1, <1>2, <1>3, <1>4 DEF Lock, Pending

LEMMA CheckSharedSafe ==
    ASSUME IInv, Alone, NEW c \in Callers, Check(c, "shared", "check-shared", "check-main")
    PROVE  Safe'
<1> PICK source : source = job[c].plan.source
  OBVIOUS
<1>0. /\ At(c, "check-shared") /\ ~At(c, "off") /\ job[c].step \in Early
      /\ UNCHANGED <<journal, record, current>>
  BY DEF Check, At, Early, durables
<1>1. ~Pending /\ StepOk(c)
  BY <1>0, Quiet DEF IInv, Safe
<1>2. CASE Fail(c, FALSE)
  BY <1>0, <1>1, <1>2, FailSafe
<1>3. CASE Continue(c, "check-main") /\ Unchanged("shared", job[c].plan.source)
  <2>1. boot # "recover"
    BY <1>0, Running DEF IInv, Safe, Turns, At, Recovery, Ready
  <2>2. "check-main" \in Steps \ {"off", "pending"}
    BY DEF Steps
  <2>3. job'[c].step = "check-main" /\ locked' = TRUE /\ job'[c].plan = job[c].plan
    BY <1>3, <2>2, WentOn
  <2>4. Pending' = Pending /\ record' = record
    BY <1>0 DEF Pending
  <2>5. Unchanged("shared", source)'
    BY <1>0, <1>3, SameVersions
  <2>6. StepOk(c)'
    BY <1>0, <1>1, <2>3, <2>4, <2>5 DEF StepOk, At, Early
  <2> QED BY <1>0, <1>3, <2>1, <2>2, <2>6, ContinueSafe
<1> QED BY <1>2, <1>3 DEF Check

LEMMA CheckMainSafe ==
    ASSUME IInv, Alone, NEW c \in Callers, Check(c, "main", "check-main", "begin")
    PROVE  Safe'
<1> PICK source : source = job[c].plan.source
  OBVIOUS
<1>0. /\ At(c, "check-main") /\ ~At(c, "off") /\ job[c].step \in Early
      /\ UNCHANGED <<journal, record, current>>
  BY DEF Check, At, Early, durables
<1>1. ~Pending /\ StepOk(c)
  BY <1>0, Quiet DEF IInv, Safe
<1>2. CASE Fail(c, FALSE)
  BY <1>0, <1>1, <1>2, FailSafe
<1>3. CASE Continue(c, "begin") /\ Unchanged("main", job[c].plan.source)
  <2>1. boot # "recover"
    BY <1>0, Running DEF IInv, Safe, Turns, At, Recovery, Ready
  <2>2. "begin" \in Steps \ {"off", "pending"}
    BY DEF Steps
  <2>3. job'[c].step = "begin" /\ locked' = TRUE /\ job'[c].plan = job[c].plan
    BY <1>3, <2>2, WentOn
  <2>4. Pending' = Pending /\ record' = record
    BY <1>0 DEF Pending
  <2>5. \A s \in Sides : Unchanged(s, source)
    BY <1>0, <1>1, <1>3 DEF StepOk, Sides
  <2>6. \A s \in Sides : Unchanged(s, source)'
    BY <1>0, <2>5, SameVersions
  <2>7. StepOk(c)'
    BY <1>0, <1>1, <2>3, <2>4, <2>6 DEF StepOk, At, Early
  <2> QED BY <1>0, <1>3, <2>1, <2>2, <2>7, ContinueSafe
<1> QED BY <1>2, <1>3 DEF Check

LEMMA BeginSafe == ASSUME IInv, Alone, NEW c \in Callers, Begin(c) PROVE Safe'
<1> PICK plan : plan = job[c].plan
  OBVIOUS
<1>0. /\ At(c, "begin") /\ ~At(c, "off") /\ job[c].step \in Early
      /\ UNCHANGED <<journal, current>>
  BY DEF Begin, At, Early
<1>1. ~Pending /\ StepOk(c) /\ Turns /\ Data
  BY <1>0, Quiet DEF IInv, Safe, Data
<1>2. Continue(c, "read") /\ record' = [phase |-> "prepared", plan |-> plan]
  BY <1>1 DEF Begin
<1>3. record'.phase = "prepared" /\ record'.plan = plan
  BY <1>2
<1>4. /\ c = Starter => boot = "run" /\ plan.id \in Groups
      /\ c # Starter => Ready /\ c \in Imports /\ plan.id = c
  <2>1. c = Starter => boot = "run"
    BY <1>0, <1>1, Running DEF Turns, At, Recovery
  <2>2. c # Starter => Ready /\ c \in Imports
    BY <1>0, Running
  <2> QED BY <1>0, <1>1, <2>1, <2>2 DEF Turns
<1>5. job'[c].step = "read" /\ locked' = TRUE /\ "read" \in Steps \ {"off", "pending"}
  BY <1>2, WentOn DEF Steps
<1>6. StepOk(c)'
  BY <1>5 DEF StepOk, At, Early
<1>7. Ready /\ Pending' => record'.plan.id \in Imports
  BY <1>3, <1>4 DEF Ready
<1>8. Turns' /\ Gate' /\ \A d \in Callers : StepOk(d)'
  BY <1>0, <1>2, <1>5, <1>6, <1>7, ContinueControl DEF Recovery
<1>9. Data'
  <2>1. plan.id \in Ids
    BY <1>4 DEF Ids
  <2>2. \A s \in Sides : Unchanged(s, plan.source)
    BY <1>0, <1>1 DEF StepOk
  <2>3. \A s \in Sides : Unchanged(s, plan.source)'
    BY <1>0, <2>2 DEF Unchanged, Head, Clean
  <2>4. RecordOk' /\ IntentApplicable'
    BY <1>3, <2>1, <2>3 DEF RecordOk, IntentApplicable, Pending
  <2> QED BY <1>0, <1>1, <2>4 DEF Data, JournalOk
<1> QED BY <1>8, <1>9 DEF Safe, Data

LEMMA ReadSafe == ASSUME IInv, Alone, NEW c \in Callers, ReadRecord(c) PROVE Safe'
<1>0. At(c, "read") /\ ~At(c, "off") /\ UNCHANGED <<journal, record, current>>
  BY DEF ReadRecord, At, durables
<1>1. CASE ~Pending
  <2>1. Return(c)
    BY <1>1 DEF ReadRecord, Pending
  <2> QED BY <1>0, <1>1, <2>1, ReturnSafe
<1>2. CASE record.phase = "main-applied"
  <2>1. Continue(c, "complete") /\ "complete" \in Steps \ {"off", "pending"}
    BY <1>2 DEF ReadRecord, Pending, Steps
  <2>2. job'[c].step = "complete" /\ locked' = TRUE
    BY <2>1, WentOn
  <2>3. StepOk(c)'
    BY <1>0, <1>2, <2>2 DEF StepOk, At, Early
  <2> QED BY <1>0, <2>1, <2>3, ContinueSafe DEF Recovery
<1>3. CASE record.phase \in {"prepared", "shared-applied"}
  <2>1. Continue(c, "apply") /\ "apply" \in Steps \ {"off", "pending"}
    BY <1>3 DEF ReadRecord, Pending, Steps
  <2>2. job'[c].step = "apply" /\ locked' = TRUE
    BY <2>1, WentOn
  <2>3. StepOk(c)'
    BY <1>0, <1>3, <2>2 DEF StepOk, At, Early
  <2> QED BY <1>0, <2>1, <2>3, ContinueSafe DEF Recovery
<1> QED BY <1>1, <1>2, <1>3 DEF Pending

LEMMA ConfirmSafe == ASSUME IInv, Alone, NEW c \in Callers, Confirm(c) PROVE Safe'
<1>0. At(c, "confirm") /\ ~At(c, "off") /\ UNCHANGED <<journal, record, current>>
  BY DEF Confirm, At, durables
<1>1. ~Pending
  BY <1>0 DEF IInv, Safe, StepOk, Pending
<1> QED BY <1>0, <1>1, ReturnSafe DEF Confirm

LEMMA StepFailsSafe == ASSUME IInv, Alone, NEW c \in Callers, StepFails(c) PROVE Safe'
<1> DEFINE held == locked /\ job[c].step \in {"read", "apply", "advance", "complete", "confirm"}
<1>0. Fail(c, held) /\ UNCHANGED <<journal, record, current>>
  BY DEF StepFails, durables
<1>1. CASE c = Starter
  <2>1. boot \notin {"ready", "failed"} /\ job' = [job EXCEPT ![c] = Idle] /\ boot' = "failed"
    BY <1>0, <1>1 DEF StepFails, Fail
  <2> QED BY <1>0, <1>1, <2>1, StopSafe DEF Ready
<1>2. CASE c # Starter
  <2>1. ~At(c, "off") /\ c \in Imports /\ Ready
    BY <1>2, Running DEF StepFails
  <2>2. ASSUME Pending PROVE held = TRUE
    <3>1. locked = TRUE
      BY <2>1, <2>2 DEF IInv, Safe, Gate, Typed, TypedControl
    <3>2. job[c].step \notin Early
      BY <2>2, Quiet
    <3>3. job[c].step \in Steps /\ job[c].step \notin {"off", "pending"}
      <4>1. job[c] \in JobsOf(Used)
        BY DEF IInv, Typed, TypedOver
      <4> QED BY <2>1, <4>1 DEF JobsOf, IInv, Safe, Turns, At
    <3> QED BY <3>1, <3>2, <3>3 DEF Steps, Early
  <2> HIDE DEF held
  <2> QED BY <1>0, <2>1, <2>2, FailSafe
<1> QED BY <1>1, <1>2

LEMMA AdvanceSafe == ASSUME IInv, Alone, NEW c \in Callers, Advance(c) PROVE Safe'
<1> PICK id : id = record.plan.id
  OBVIOUS
<1>0. /\ At(c, "advance") /\ ~At(c, "off") /\ UNCHANGED <<journal, current>>
      /\ StepOk(c) /\ RecordOk /\ Gate /\ IntentApplicable
      /\ \A s \in Sides : JournalOk(journal[s])
  BY DEF Advance, At, IInv, Safe
<1>1. /\ record.phase \in {"prepared", "shared-applied"} /\ Pending
      /\ journal[SideOf(record.phase)].boundary = id
  BY <1>0 DEF StepOk, Pending
<1>2. /\ record'.plan = record.plan
      /\ record.phase = "prepared" => record'.phase = "shared-applied"
      /\ record.phase = "shared-applied" => record'.phase = "main-applied"
  <2>1. record \in RecordsOf(Used)
    BY DEF IInv, Typed, TypedOver
  <2> QED BY <1>1, <2>1 DEF Advance, RecordsOf
<1>3. \A source : \A s \in Sides : Unchanged(s, source)' <=> Unchanged(s, source)
  BY <1>0 DEF Unchanged, Head, Clean
<1>4. Pending'
  BY <1>1, <1>2 DEF Pending
<1>5. Data'
  <2>1. RecordOk'
    <3>1. record.phase = "prepared" => journal["shared"].boundary = id
      BY <1>1 DEF SideOf
    <3>2. record.phase = "shared-applied" =>
              journal["shared"].boundary = id /\ journal["main"].boundary = id
      BY <1>0, <1>1 DEF SideOf, RecordOk
    <3> QED BY <1>0, <1>1, <1>2, <1>4, <3>1, <3>2 DEF RecordOk, Sides
  <2>2. IntentApplicable'
    BY <1>0, <1>1, <1>2, <1>3 DEF IntentApplicable
  <2> QED BY <1>0, <2>1, <2>2 DEF Data, JournalOk
<1>6. Ready /\ Pending' => record'.plan.id \in Imports
  BY <1>0, <1>1, <1>2 DEF Gate
<1>7. "apply" \in Steps \ {"off", "pending"} /\ "complete" \in Steps \ {"off", "pending"}
  BY DEF Steps
<1>8. CASE record.phase = "prepared"
  <2>1. Continue(c, "apply")
    BY <1>8 DEF Advance
  <2>2. job'[c].step = "apply" /\ locked' = TRUE
    BY <1>7, <2>1, WentOn
  <2>3. StepOk(c)'
    BY <1>2, <1>8, <2>2 DEF StepOk, At, Early
  <2>4. Turns' /\ Gate' /\ \A d \in Callers : StepOk(d)'
    BY <1>0, <1>6, <1>7, <2>1, <2>3, ContinueControl DEF Recovery
  <2> QED BY <1>5, <2>4 DEF Safe, Data
<1>9. CASE record.phase = "shared-applied"
  <2>1. Continue(c, "complete")
    BY <1>9 DEF Advance
  <2>2. job'[c].step = "complete" /\ locked' = TRUE
    BY <1>7, <2>1, WentOn
  <2>3. StepOk(c)'
    BY <1>2, <1>9, <2>2 DEF StepOk, At, Early
  <2>4. Turns' /\ Gate' /\ \A d \in Callers : StepOk(d)'
    BY <1>0, <1>6, <1>7, <2>1, <2>3, ContinueControl DEF Recovery
  <2> QED BY <1>5, <2>4 DEF Safe, Data
<1> QED BY <1>1, <1>8, <1>9

LEMMA CompleteSafe == ASSUME IInv, Alone, NEW c \in Callers, Complete(c) PROVE Safe'
<1>0. /\ At(c, "complete") /\ ~At(c, "off") /\ UNCHANGED <<journal, current>>
      /\ StepOk(c) /\ RecordOk /\ Continue(c, "confirm")
      /\ \A s \in Sides : JournalOk(journal[s])
  BY DEF Complete, At, IInv, Safe
<1>1. record'.phase = "complete" /\ record'.plan.id = record.plan.id
  BY DEF Complete, NoPlan
<1>2. ~Pending'
  BY <1>1 DEF Pending
<1>3. \A s \in Sides : journal[s].boundary = record.plan.id
  BY <1>0 DEF StepOk, RecordOk
<1>4. Data'
  <2>1. RecordOk' /\ IntentApplicable'
    BY <1>0, <1>1, <1>2, <1>3 DEF RecordOk, IntentApplicable
  <2> QED BY <1>0, <2>1 DEF Data, JournalOk
<1>5. "confirm" \in Steps \ {"off", "pending"}
  BY DEF Steps
<1>6. job'[c].step = "confirm" /\ locked' = TRUE
  BY <1>0, <1>5, WentOn
<1>7. StepOk(c)'
  BY <1>1, <1>6 DEF StepOk, At, Early
<1>8. Turns' /\ Gate' /\ \A d \in Callers : StepOk(d)'
  BY <1>0, <1>2, <1>5, <1>7, ContinueControl DEF Recovery
<1> QED BY <1>4, <1>8 DEF Safe, Data

\* A replaced journal is sound.
LEMMA ResetOk ==
    ASSUME NEW M, NEW j \in JournalsOf(M), NEW id, NEW head
    PROVE  /\ JournalOk(Reset(j, id, head)) /\ Reset(j, id, head).boundary = id
           /\ Reset(j, id, head).content = head.content /\ Reset(j, id, head).base = head
<1> PICK k : k = Reset(j, id, head)
  OBVIOUS
<1>1. /\ k.seq = 0 /\ k.ack = 0 /\ k.flight = {} /\ k.content = head.content
      /\ k.base = head /\ k.boundary = id
  BY DEF Reset, JournalsOf
<1> QED BY <1>1 DEF JournalOk

LEMMA ReplaceOk ==
    ASSUME NEW M, NEW j \in JournalsOf(M), NEW id, NEW head, j.seq = j.ack, j.flight = {}
    PROVE  LET k == ReplaceWithPending(j, id, head)
           IN  JournalOk(k) /\ k.boundary = id /\ k.content = head.content /\ k.base = j.base
<1> PICK k : k = ReplaceWithPending(j, id, head)
  OBVIOUS
<1>1. /\ k.seq = j.seq + 1 /\ k.ack = j.ack /\ k.flight = {} /\ k.content = head.content
      /\ k.base = j.base /\ k.boundary = id
  BY DEF ReplaceWithPending, JournalsOf
<1>2. j.seq \in Nat /\ j.ack \in Nat
  BY DEF JournalsOf
<1>3. JournalOk(k)
  BY <1>1, <1>2 DEF JournalOk
<1> QED BY <1>1, <1>3

\* What an application does to the two journals.
Applied(s, id) ==
    /\ journal'[s].boundary = id /\ JournalOk(journal'[s])
    /\ \A t \in Sides \ {s} : journal'[t] = journal[t]

LEMMA ApplyStep ==
    ASSUME IInv, NEW c \in Callers, Apply(c)
    PROVE  LET s == SideOf(record.phase)
               plan == record.plan
           IN  /\ s \in Sides /\ Pending /\ plan.id \in Ids
               /\ \/ /\ Continue(c, "advance") /\ journal' = journal
                     /\ journal[s].boundary = plan.id
                  \/ /\ Continue(c, "advance") /\ plan.id \in Groups
                     /\ journal[s].boundary # plan.id
                     /\ journal' = [journal EXCEPT ![s] = Reset(@, plan.id, plan.target[s])]
                  \/ /\ Continue(c, "advance") /\ plan.id \in Imports
                     /\ journal[s].boundary # plan.id /\ Unchanged(s, plan.source)
                     /\ journal' = [journal EXCEPT ![s] =
                                       ReplaceWithPending(@, plan.id, plan.target[s])]
<1> PICK s : s = SideOf(record.phase)
  OBVIOUS
<1> PICK plan : plan = record.plan
  OBVIOUS
<1>1. StepOk(c) /\ RecordOk /\ IntentApplicable /\ At(c, "apply")
  BY DEF IInv, Safe, Apply
<1>2. s \in Sides /\ Pending /\ plan.id \in Ids
  BY <1>1 DEF StepOk, Pending, SideOf, Sides, RecordOk
<1>3. plan.id \in Imports => plan.id \notin Groups
  BY IdsAssumption
<1>4. plan.id \in Imports => journal[s].boundary = plan.id \/ Unchanged(s, plan.source)
  BY <1>1, <1>2 DEF IntentApplicable
<1>5. CASE journal[s].boundary = plan.id
  <2>1. Continue(c, "advance") /\ journal' = journal
    BY <1>5 DEF Apply
  <2> QED BY <1>2, <1>5, <2>1
<1>6. CASE journal[s].boundary # plan.id /\ plan.id \in Groups
  <2>1. /\ Continue(c, "advance")
        /\ journal' = [journal EXCEPT ![s] = Reset(@, plan.id, plan.target[s])]
    BY <1>3, <1>6 DEF Apply
  <2> QED BY <1>2, <1>6, <2>1
<1>7. CASE journal[s].boundary # plan.id /\ plan.id \in Imports
  <2>1. /\ Continue(c, "advance")
        /\ journal' = [journal EXCEPT ![s] = ReplaceWithPending(@, plan.id, plan.target[s])]
    BY <1>3, <1>4, <1>7 DEF Apply
  <2> QED BY <1>2, <1>4, <1>7, <2>1
<1> QED BY <1>2, <1>5, <1>6, <1>7 DEF Ids

LEMMA ApplySafe == ASSUME IInv, Alone, NEW c \in Callers, Apply(c) PROVE Safe'
<1> PICK s : s = SideOf(record.phase)
  OBVIOUS
<1> PICK plan : plan = record.plan
  OBVIOUS
<1>0. /\ At(c, "apply") /\ ~At(c, "off") /\ UNCHANGED <<record, current>>
      /\ StepOk(c) /\ RecordOk /\ Gate /\ IntentApplicable /\ TypedOver(Used)
      /\ \A t \in Sides : JournalOk(journal[t])
  BY DEF Apply, At, IInv, Safe, Typed
<1>1. s \in Sides /\ Pending /\ plan.id \in Ids /\ Continue(c, "advance")
  BY ApplyStep
<1>2. Applied(s, plan.id)
  <2>0. journal[s] \in JournalsOf(Used) /\ DOMAIN journal = Sides
    BY <1>0, <1>1 DEF TypedOver
  <2>1. CASE journal' = journal /\ journal[s].boundary = plan.id
    BY <1>0, <1>1, <2>1 DEF Applied
  <2>2. CASE journal' = [journal EXCEPT ![s] = Reset(@, plan.id, plan.target[s])]
    <3>1. /\ journal'[s] = Reset(journal[s], plan.id, plan.target[s])
          /\ \A t \in Sides \ {s} : journal'[t] = journal[t]
      BY <1>1, <2>0, <2>2
    <3> QED BY <2>0, <3>1, ResetOk DEF Applied
  <2>3. CASE /\ journal' = [journal EXCEPT ![s] = ReplaceWithPending(@, plan.id, plan.target[s])]
             /\ Unchanged(s, plan.source)
    <3>1. /\ journal'[s] = ReplaceWithPending(journal[s], plan.id, plan.target[s])
          /\ \A t \in Sides \ {s} : journal'[t] = journal[t]
      BY <1>1, <2>0, <2>3
    <3>2. journal[s].seq = journal[s].ack /\ journal[s].flight = {}
      BY <2>3 DEF Unchanged, Clean
    <3> QED BY <2>0, <3>1, <3>2, ReplaceOk DEF Applied
  <2> QED BY <2>1, <2>2, <2>3, ApplyStep
<1>3. \A t \in Sides : JournalOk(journal'[t])
  BY <1>0, <1>2 DEF Applied
<1>4. record.phase \in {"prepared", "shared-applied"}
  BY <1>0 DEF StepOk
<1>5. RecordOk'
  <2>1. record.phase = "shared-applied" => journal'["shared"].boundary = plan.id
    <3>1. record.phase = "shared-applied" => s = "main" /\ journal["shared"].boundary = plan.id
      BY <1>0 DEF SideOf, RecordOk
    <3> QED BY <1>2, <3>1 DEF Applied, Sides
  <2> QED BY <1>0, <1>1, <1>4, <2>1 DEF RecordOk, Pending
<1>6. IntentApplicable'
  <2> SUFFICES ASSUME Pending', plan.id \in Imports, NEW t \in Sides
               PROVE  journal'[t].boundary = plan.id \/ Unchanged(t, plan.source)'
    BY <1>0 DEF IntentApplicable
  <2>1. CASE t = s
    BY <1>2, <2>1 DEF Applied
  <2>2. CASE t # s
    BY <1>0, <1>1, <1>2, <2>2 DEF Applied, IntentApplicable, Unchanged, Head, Clean
  <2> QED BY <2>1, <2>2
<1>7. job'[c].step = "advance" /\ locked' = TRUE /\ "advance" \in Steps \ {"off", "pending"}
  BY <1>1, WentOn DEF Steps
<1>8. StepOk(c)'
  BY <1>0, <1>2, <1>4, <1>7 DEF StepOk, At, Early, Applied
<1>9. Ready /\ Pending' => record'.plan.id \in Imports
  BY <1>0, <1>1 DEF Gate
<1>10. Turns' /\ Gate' /\ \A d \in Callers : StepOk(d)'
  BY <1>0, <1>1, <1>7, <1>8, <1>9, ContinueControl DEF Recovery
<1> QED BY <1>3, <1>5, <1>6, <1>10 DEF Safe

-----------------------------------------------------------------------------
(* The start of the page. *)

LEMMA RecoverSafe == ASSUME IInv, RecoverPrimary PROVE Safe'
<1>0. /\ Turns /\ At(Starter, "pending") /\ UNCHANGED <<journal, record, boot, current>>
      /\ Goto(Starter, "read") /\ Starter \in Callers /\ "read" \in Steps
      /\ job \in [Callers -> JobsOf(Used)]
  BY DEF RecoverPrimary, IInv, Safe, Typed, TypedOver, durables, Callers, Steps
<1>1. Data' /\ (Pending' <=> Pending)
  BY <1>0, SameData
<1>2. /\ job'[Starter].step = "read" /\ job'[Starter].plan = job[Starter].plan
      /\ \A i \in Imports : job'[i] = job[i]
  BY <1>0, Moved, IdsAssumption DEF Callers
<1>3. boot = "recover"
  BY <1>0 DEF Turns, At
<1>4. Turns' /\ Gate'
  BY <1>0, <1>2, <1>3 DEF Turns, Gate, At, Ready, Recovery
<1>5. \A i \in Imports : job'[i].step = "off"
  BY <1>0, <1>2, <1>3 DEF Turns, At, Ready
<1>6. \A c \in Callers : StepOk(c)'
  BY <1>2, <1>5, IdsAssumption DEF Callers, StepOk, At, Early
<1> QED BY <1>1, <1>4, <1>6 DEF Safe, Data

\* The start goes from one of its own steps to another.
LEMMA BootSafe ==
    ASSUME IInv, boot \in {"list", "source", "stage", "serve", "heads", "clear"},
           boot' \in {"list", "source", "stage", "serve", "heads", "ready", "failed"},
           UNCHANGED <<journal, record, locked>>, At(Starter, "off")',
           \A i \in Imports : job'[i] = job[i],
           boot' \in {"source", "stage", "serve", "heads"} => current' \in Groups,
           boot' \in {"stage", "serve", "heads"} => job'[Starter].plan.id = current'
    PROVE  Safe'
<1>0. Turns /\ Gate /\ ~Pending
  BY DEF IInv, Safe, Gate
<1>1. Data' /\ (Pending' <=> Pending)
  BY SameData
<1>2. \A i \in Imports : job'[i].step = "off"
  BY <1>0 DEF Turns, At, Ready
<1>3. Turns' /\ Gate'
  BY <1>0, <1>1, <1>2 DEF Turns, Gate, At, Ready
<1>4. \A c \in Callers : StepOk(c)'
  BY <1>2 DEF Callers, StepOk, At, Early
<1> QED BY <1>1, <1>3, <1>4 DEF Safe, Data

LEMMA ListSafe == ASSUME IInv, ListGroups \/ StartOffline PROVE Safe'
<1>0. /\ boot = "list" /\ UNCHANGED <<journal, record, locked, job>> /\ Turns /\ staged \subseteq Groups
  BY DEF ListGroups, StartOffline, durables, Volatile, IInv, Safe, Typed, TypedControl
<1>1. boot' \in {"source", "ready"} /\ (boot' = "source" => current' \in Groups)
  BY <1>0 DEF ListGroups, StartOffline
<1>2. At(Starter, "off")'
  BY <1>0 DEF Turns, At
<1> QED BY <1>0, <1>1, <1>2, BootSafe

LEMMA SourceSafe == ASSUME IInv, ReadSource PROVE Safe'
<1> DEFINE plan == RestorePlan(current, [s \in Sides |-> Head(s)], NoPlan.target)
<1>0. /\ boot = "source" /\ UNCHANGED <<journal, record, locked, current>> /\ Turns
      /\ job \in [Callers -> JobsOf(Used)] /\ Starter \in Callers
  BY DEF ReadSource, durables, IInv, Safe, Typed, TypedOver, Callers
<1>1. At(Starter, "off") /\ current \in Groups
  BY <1>0 DEF Turns
<1>2. CASE boot' = "stage" /\ job' = [job EXCEPT ![Starter].plan = plan]
  <2>1. plan.id = current
    BY DEF RestorePlan
  <2> HIDE DEF plan
  <2>2. job[Starter] \in JobsOf(Used)
    BY <1>0
  <2>3. job'[Starter].step = "off" /\ job'[Starter].plan.id = current
    BY <1>0, <1>1, <1>2, <2>1, <2>2 DEF At, JobsOf
  <2>4. \A i \in Imports : job'[i] = job[i]
    BY <1>0, <1>2, IdsAssumption DEF Callers
  <2> QED BY <1>0, <1>1, <1>2, <2>3, <2>4, BootSafe DEF At
<1>3. CASE boot' = "failed" /\ job' = job
  BY <1>0, <1>1, <1>3, BootSafe DEF At
<1> QED BY <1>2, <1>3 DEF ReadSource

LEMMA ServeSafe ==
    ASSUME IInv, StageServerPending \/ ApplyRestoreGroup \/ CompleteServerPending
    PROVE  Safe'
<1>0. /\ boot \in {"stage", "serve", "clear"} /\ UNCHANGED <<journal, record, locked, job, current>>
      /\ Turns /\ current \in Groups
      /\ boot' \in {"serve", "heads", "failed", "list"}
  BY DEF StageServerPending, ApplyRestoreGroup, CompleteServerPending, Volatile, IInv, Safe, Turns
<1>1. At(Starter, "off")' /\ (boot' \in {"serve", "heads"} => job[Starter].plan.id = current)
  BY <1>0 DEF Turns, At, StageServerPending, ApplyRestoreGroup, CompleteServerPending
<1> QED BY <1>0, <1>1, BootSafe

LEMMA HeadsSafe == ASSUME IInv, ReadHeads PROVE Safe'
<1> DEFINE plan == [job[Starter].plan EXCEPT !.target = server]
<1>0. /\ boot = "heads" /\ boot' = "run" /\ UNCHANGED <<journal, record, locked, current>>
      /\ Turns /\ Gate /\ job \in [Callers -> JobsOf(Used)] /\ Starter \in Callers
      /\ job' = [job EXCEPT ![Starter] = [step |-> "lock", plan |-> plan]]
  BY DEF ReadHeads, durables, IInv, Safe, Typed, TypedOver, Callers
<1>1. current \in Groups /\ job[Starter].plan.id = current /\ ~Pending
  BY <1>0 DEF Turns, Gate
<1>2. plan.id = current
  <2>1. job[Starter].plan \in PlansOf(Used)
    BY <1>0 DEF JobsOf
  <2> QED BY <1>1, <2>1 DEF PlansOf
<1> HIDE DEF plan
<1>3. job'[Starter] = [step |-> "lock", plan |-> plan] /\ \A i \in Imports : job'[i] = job[i]
  BY <1>0, IdsAssumption DEF Callers
<1>4. job'[Starter].step = "lock" /\ job'[Starter].plan.id = current
  BY <1>2, <1>3
<1>5. Data' /\ (Pending' <=> Pending)
  BY <1>0, SameData
<1>6. \A i \in Imports : job'[i].step = "off"
  BY <1>0, <1>3 DEF Turns, At, Ready
<1>7. Turns' /\ Gate'
  BY <1>0, <1>1, <1>4, <1>6 DEF Turns, Gate, At, Ready
<1>8. \A c \in Callers : StepOk(c)'
  BY <1>1, <1>4, <1>5, <1>6, IdsAssumption DEF Callers, StepOk, At, Early
<1> QED BY <1>5, <1>7, <1>8 DEF Safe, Data

-----------------------------------------------------------------------------
(* Imports, ordinary work, failures. *)

LEMMA ImportSafe == ASSUME IInv, NEW i \in Imports, BeginImport(i) PROVE Safe'
<1> DEFINE plan == ImportPlan(i, [s \in Sides |-> Head(s)])
<1>0. /\ Ready /\ UNCHANGED <<journal, record, locked, current, boot>> /\ i \in unused
      /\ Turns /\ Gate /\ job \in [Callers -> JobsOf(Used)] /\ i \in Callers
      /\ job' = [job EXCEPT ![i] = [step |-> "lock", plan |-> plan]]
      /\ \A c \in Callers : StepOk(c)
  BY DEF BeginImport, IInv, Safe, Typed, TypedOver, Callers
<1>1. plan.id = i
  BY DEF ImportPlan
<1> HIDE DEF plan
<1>2. /\ job'[i].step = "lock" /\ job'[i].plan.id = i
      /\ \A c \in Callers : c # i => job'[c] = job[c]
  BY <1>0, <1>1
<1>3. Data' /\ (Pending' <=> Pending) /\ record' = record
  BY <1>0, SameData
<1>4. record.plan.id # i
  <2>1. record.plan.id \in (Ids \cap Used) \cup {NoId}
    BY DEF IInv, Typed, TypedOver, RecordsOf, PlansOf
  <2> QED BY <1>0, <2>1, IdsAssumption DEF Used
<1>5. job'[Starter] = job[Starter] /\ \A d \in Imports : d # i => job'[d] = job[d]
  BY <1>2, IdsAssumption DEF Callers
<1>6. Turns' /\ Gate'
  BY <1>0, <1>2, <1>3, <1>5 DEF Turns, Gate, At, Ready
<1>7. \A c \in Callers : StepOk(c)'
  <2> TAKE c \in Callers
  <2>1. CASE c = i
    BY <1>2, <1>3, <1>4, <2>1, IdsAssumption DEF StepOk, At, Early
  <2>2. CASE c # i
    <3>1. \A source : \A s \in Sides : Unchanged(s, source)' <=> Unchanged(s, source)
      BY <1>0, SameVersions
    <3>2. job'[c] = job[c]
      BY <1>2, <2>2
    <3> PICK source : source = job[c].plan.source
      OBVIOUS
    <3>3. "shared" \in Sides
      BY DEF Sides
    <3> QED BY <1>0, <1>3, <3>1, <3>2, <3>3 DEF StepOk, At
  <2> QED BY <2>1, <2>2
<1> QED BY <1>3, <1>6, <1>7 DEF Safe, Data

LEMMA SafeSame ==
    ASSUME IInv, UNCHANGED <<journal, record, boot, current, locked, job>>
    PROVE  Safe'
<1>1. Data' /\ (Pending' <=> Pending)
  BY SameData
<1>2. Turns' /\ Gate'
  BY <1>1 DEF IInv, Safe, Turns, Gate, At, Ready
<1>3. \A c \in Callers : StepOk(c)'
  BY <1>1 DEF IInv, Safe, StepOk, At, Unchanged, Head, Clean
<1> QED BY <1>1, <1>2, <1>3 DEF Safe, Data

\* Nothing is pending where an edit is possible.
LEMMA Editable == ASSUME IInv, Ready, ~locked PROVE ~Pending
BY DEF IInv, Safe, Gate

LEMMA WorkSafe ==
    ASSUME IInv, Ready, ~locked, UNCHANGED <<record, boot, current, locked, job>>,
           NEW s \in Sides, \A t \in Sides \ {s} : journal'[t] = journal[t],
           journal'[s].boundary = journal[s].boundary, JournalOk(journal'[s])
    PROVE  Safe'
<1>0. /\ ~Pending /\ Turns /\ Gate /\ RecordOk
      /\ \A t \in Sides : JournalOk(journal[t])
      /\ \A c \in Callers : StepOk(c)
  BY Editable DEF IInv, Safe
<1>1. ~Pending'
  BY <1>0 DEF Pending
<1>2. \A t \in Sides : JournalOk(journal'[t]) /\ journal'[t].boundary = journal[t].boundary
  BY <1>0
<1>3. RecordOk' /\ IntentApplicable'
  <2>1. "shared" \in Sides
    BY DEF Sides
  <2> QED BY <1>0, <1>1, <1>2, <2>1 DEF RecordOk, IntentApplicable
<1>4. Turns' /\ Gate'
  BY <1>0, <1>1 DEF Turns, Gate, At, Ready
<1>5. \A c \in Callers : StepOk(c)'
  <2> TAKE c \in Callers
  <2>1. job[c].step \in {"off", "lock"}
    <3>1. CASE c = Starter
      BY <1>0, <3>1 DEF Turns, At, Ready
    <3>2. CASE c # Starter
      BY <1>0, <3>2 DEF Callers, StepOk
    <3> QED BY <3>1, <3>2
  <2> QED BY <1>0, <1>1, <2>1 DEF StepOk, At, Early
<1> QED BY <1>2, <1>3, <1>4, <1>5 DEF Safe

LEMMA ReopenSafe == ASSUME IInv, Reopen, UNCHANGED <<journal, record>> PROVE Safe'
<1>1. Data' /\ (Pending' <=> Pending)
  BY SameData
<1>2. job'[Starter].step = "pending" /\ \A i \in Imports : job'[i].step = "off"
  BY IdsAssumption DEF Reopen, Fresh, Idle, Callers
<1>3. Turns' /\ Gate'
  BY <1>2 DEF Reopen, Turns, Gate, At, Ready, Recovery
<1>4. \A c \in Callers : StepOk(c)'
  BY <1>2, IdsAssumption DEF Callers, StepOk, At, Early
<1> QED BY <1>1, <1>3, <1>4 DEF Safe, Data

\* What an edit, an upload and an adoption leave in the journal.
LEMMA EditStep ==
    ASSUME IInv, NEW s \in Sides, EditDocument(s)
    PROVE  \E e \in unused \cap Edits :
              LET j == journal[s]
                  k == journal'[s]
              IN  /\ unused' = unused \ {e} /\ e \in Marks /\ e \notin j.content \cup j.base.content
                  /\ k = [j EXCEPT !.seq = j.seq + 1, !.content = j.content \cup {e}]
                  /\ k.seq = j.seq + 1 /\ k.ack = j.ack /\ k.content = j.content \cup {e}
                  /\ k.base = j.base /\ k.flight = j.flight /\ k.boundary = j.boundary
                  /\ \A t \in Sides \ {s} : journal'[t] = journal[t]
<1> PICK e \in unused \cap Edits :
       /\ unused' = unused \ {e}
       /\ journal' = [journal EXCEPT ![s].seq = @ + 1, ![s].content = @ \cup {e}]
  BY DEF EditDocument
<1> PICK j : j = journal[s]
  OBVIOUS
<1> PICK k : k = [j EXCEPT !.seq = j.seq + 1, !.content = j.content \cup {e}]
  OBVIOUS
<1>1. journal \in [Sides -> JournalsOf(Used)] /\ j \in JournalsOf(Used)
  BY DEF IInv, Typed, TypedOver
<1>2. journal'[s] = k /\ \A t \in Sides \ {s} : journal'[t] = journal[t]
  BY <1>1 DEF JournalsOf
<1>3. /\ k.seq = j.seq + 1 /\ k.ack = j.ack /\ k.content = j.content \cup {e}
      /\ k.base = j.base /\ k.flight = j.flight /\ k.boundary = j.boundary
  BY <1>1 DEF JournalsOf
<1>4. e \in Marks /\ e \notin j.content \cup j.base.content
  <2>1. j.content \subseteq Used /\ j.base.content \subseteq Used
    BY <1>1 DEF JournalsOf, HeadsOf
  <2> QED BY <2>1 DEF Used, Marks
<1> QED BY <1>2, <1>3, <1>4

LEMMA EditSafe == ASSUME IInv, NEW s \in Sides, EditDocument(s) PROVE Safe'
<1> PICK j : j = journal[s]
  OBVIOUS
<1> PICK k : k = journal'[s]
  OBVIOUS
<1>0. Ready /\ ~locked /\ UNCHANGED <<record, boot, current, locked, job>>
  BY DEF EditDocument, Volatile
<1>1. PICK e : /\ e \notin j.content \cup j.base.content
               /\ k.seq = j.seq + 1 /\ k.ack = j.ack /\ k.content = j.content \cup {e}
               /\ k.base = j.base /\ k.flight = j.flight /\ k.boundary = j.boundary
               /\ \A t \in Sides \ {s} : journal'[t] = journal[t]
  BY EditStep
<1>2. JournalOk(j) /\ j \in JournalsOf(Used)
  BY DEF IInv, Safe, Typed, TypedOver
<1>3. /\ j.seq \in Nat /\ j.ack \in Nat /\ j.flight \subseteq FlightsOf(Used)
      /\ \A f \in j.flight : f.seq \in Nat
  BY <1>2 DEF JournalsOf, FlightsOf
<1>4. \A m, n \in Nat : m <= n => m <= n + 1 /\ m # n + 1
  OBVIOUS
<1>5. k.ack <= k.seq /\ k.seq # k.ack
  BY <1>1, <1>2, <1>3, <1>4 DEF JournalOk
<1>6. ASSUME NEW f \in k.flight
      PROVE  /\ f.seq > k.ack /\ f.seq <= k.seq /\ f.seq # k.seq
             /\ k.content \cap k.base.content \subseteq f.content
  BY <1>1, <1>2, <1>3, <1>4 DEF JournalOk
<1>7. JournalOk(k)
  BY <1>5, <1>6 DEF JournalOk
<1> QED BY <1>0, <1>1, <1>7, WorkSafe

LEMMA UploadStep ==
    ASSUME IInv, NEW s \in Sides, BeginUpload(s)
    PROVE  LET j == journal[s]
               f == [seq |-> j.seq, content |-> j.content]
               k == journal'[s]
           IN  /\ k = [j EXCEPT !.flight = {f}]
               /\ k.flight = {f} /\ k.seq = j.seq /\ k.ack = j.ack /\ k.content = j.content
               /\ k.base = j.base /\ k.boundary = j.boundary /\ j.seq > j.ack
               /\ \A t \in Sides \ {s} : journal'[t] = journal[t]
<1> PICK j : j = journal[s]
  OBVIOUS
<1> PICK f : f = [seq |-> j.seq, content |-> j.content]
  OBVIOUS
<1> PICK k : k = [j EXCEPT !.flight = {f}]
  OBVIOUS
<1>1. journal \in [Sides -> JournalsOf(Used)] /\ j \in JournalsOf(Used)
  BY DEF IInv, Typed, TypedOver
<1>2. journal' = [journal EXCEPT ![s].flight = {f}] /\ j.seq > j.ack
  BY DEF BeginUpload
<1>3. journal'[s] = k /\ \A t \in Sides \ {s} : journal'[t] = journal[t]
  BY <1>1, <1>2
<1>4. /\ k.flight = {f} /\ k.seq = j.seq /\ k.ack = j.ack /\ k.content = j.content
      /\ k.base = j.base /\ k.boundary = j.boundary
  BY <1>1 DEF JournalsOf
<1> QED BY <1>2, <1>3, <1>4

LEMMA UploadSafe == ASSUME IInv, NEW s \in Sides, BeginUpload(s) PROVE Safe'
<1> PICK j : j = journal[s]
  OBVIOUS
<1> PICK f : f = [seq |-> j.seq, content |-> j.content]
  OBVIOUS
<1> PICK k : k = journal'[s]
  OBVIOUS
<1>0. Ready /\ ~locked /\ UNCHANGED <<record, boot, current, locked, job>>
  BY DEF BeginUpload, Volatile
<1>1. /\ k.flight = {f} /\ k.seq = j.seq /\ k.ack = j.ack /\ k.content = j.content
      /\ k.base = j.base /\ k.boundary = j.boundary /\ j.seq > j.ack
      /\ \A t \in Sides \ {s} : journal'[t] = journal[t]
  BY UploadStep
<1>2. JournalOk(j) /\ j.seq \in Nat
  BY DEF IInv, Safe, Typed, TypedOver, JournalsOf
<1>3. f.seq = j.seq /\ f.content = j.content /\ k.flight # {}
  BY <1>1
<1>4. j.seq <= j.seq
  BY <1>2
<1>5. \A g \in k.flight : g = f
  BY <1>1
<1>6. JournalOk(k)
  BY <1>1, <1>2, <1>3, <1>4, <1>5 DEF JournalOk
<1> QED BY <1>0, <1>1, <1>6, WorkSafe

\* The two ways a flight ends.
LEMMA EndStep ==
    ASSUME IInv, NEW s \in Sides, EndUpload(s)
    PROVE  \E f \in journal[s].flight :
              LET j == journal[s]
                  k == journal'[s]
              IN  /\ f \in FlightsOf(Used)
                  /\ k.flight = {} /\ k.seq = j.seq /\ k.boundary = j.boundary
                  /\ k \in JournalsOf(Used)
                  /\ \A t \in Sides \ {s} : journal'[t] = journal[t]
                  /\ \/ /\ k.ack = f.seq /\ k.content = j.content /\ k.base.content = f.content
                        /\ server' = [server EXCEPT ![s] = k.base] /\ k.base \in HeadsOf(Used)
                     \/ /\ k.ack = j.ack /\ k.base = server[s] /\ server' = server
                        /\ k.content = server[s].content \cup (j.content \ j.base.content)
<1> PICK j : j = journal[s]
  OBVIOUS
<1> PICK k : k = journal'[s]
  OBVIOUS
<1>1. /\ journal \in [Sides -> JournalsOf(Used)] /\ j \in JournalsOf(Used)
      /\ server[s] \in HeadsOf(Used)
  BY DEF IInv, Typed, TypedOver
<1> PICK f \in j.flight :
       IF server[s].revision = j.base.revision
       THEN LET next == [revision |-> server[s].revision + 1, content |-> f.content] IN
            /\ server' = [server EXCEPT ![s] = next]
            /\ journal' = [journal EXCEPT ![s].flight = {}, ![s].ack = f.seq, ![s].base = next]
       ELSE /\ journal' = [journal EXCEPT ![s].flight = {}, ![s].base = server[s],
                              ![s].content = server[s].content \cup (@ \ j.base.content)]
            /\ UNCHANGED server
  BY DEF EndUpload
<1>2. f \in FlightsOf(Used)
  BY <1>1 DEF JournalsOf
<1>3. CASE server[s].revision = j.base.revision
  <2> PICK next : next = [revision |-> server[s].revision + 1, content |-> f.content]
    OBVIOUS
  <2>1. next \in HeadsOf(Used) /\ next.content = f.content
    BY <1>1, <1>2 DEF HeadsOf, FlightsOf
  <2>2. k = [j EXCEPT !.flight = {}, !.ack = f.seq, !.base = next]
        /\ \A t \in Sides \ {s} : journal'[t] = journal[t]
    BY <1>1, <1>3
  <2>3. f.seq \in Nat
    BY <1>2 DEF FlightsOf
  <2>4. /\ k.flight = {} /\ k.seq = j.seq /\ k.boundary = j.boundary /\ k \in JournalsOf(Used)
        /\ k.ack = f.seq /\ k.content = j.content /\ k.base = next
    BY <1>1, <2>1, <2>2, <2>3 DEF JournalsOf
  <2>5. server' = [server EXCEPT ![s] = next]
    BY <1>3
  <2> QED BY <1>2, <2>1, <2>2, <2>4, <2>5
<1>4. CASE server[s].revision # j.base.revision
  <2> PICK content : content = server[s].content \cup (j.content \ j.base.content)
    OBVIOUS
  <2>1. content \subseteq Used
    BY <1>1 DEF JournalsOf, HeadsOf
  <2>2. k = [j EXCEPT !.flight = {}, !.base = server[s], !.content = content]
        /\ \A t \in Sides \ {s} : journal'[t] = journal[t]
    BY <1>1, <1>4
  <2>3. /\ k.flight = {} /\ k.seq = j.seq /\ k.boundary = j.boundary /\ k \in JournalsOf(Used)
        /\ k.ack = j.ack /\ k.content = content /\ k.base = server[s]
    BY <1>1, <2>1, <2>2 DEF JournalsOf
  <2> QED BY <1>2, <1>4, <2>2, <2>3
<1> QED BY <1>3, <1>4

LEMMA EndSafe == ASSUME IInv, NEW s \in Sides, EndUpload(s) PROVE Safe'
<1> PICK j : j = journal[s]
  OBVIOUS
<1> PICK k : k = journal'[s]
  OBVIOUS
<1>0. Ready /\ ~locked /\ UNCHANGED <<record, boot, current, locked, job>>
  BY DEF EndUpload, Volatile
<1>1. PICK f \in j.flight :
        /\ f \in FlightsOf(Used)
        /\ k.flight = {} /\ k.seq = j.seq /\ k.boundary = j.boundary
        /\ \A t \in Sides \ {s} : journal'[t] = journal[t]
        /\ \/ k.ack = f.seq /\ k.content = j.content /\ k.base.content = f.content
           \/ k.ack = j.ack
  BY EndStep
<1>2. JournalOk(j) /\ j.seq \in Nat /\ j.ack \in Nat /\ f.seq \in Nat
  BY <1>1 DEF IInv, Safe, Typed, TypedOver, JournalsOf, FlightsOf
<1>3. /\ f.seq > j.ack /\ f.seq <= j.seq /\ j.seq # j.ack
      /\ f.seq = j.seq => f.content = j.content
  <2>1. f.seq > j.ack /\ f.seq <= j.seq /\ (f.seq = j.seq => f.content = j.content)
    BY <1>1, <1>2 DEF JournalOk
  <2> QED BY <1>2, <2>1
<1>4. k.ack <= k.seq /\ (k.seq = k.ack => k.content = k.base.content)
  <2>1. CASE k.ack = f.seq /\ k.content = j.content /\ k.base.content = f.content
    BY <1>1, <1>3, <2>1
  <2>2. CASE k.ack = j.ack
    BY <1>1, <1>2, <1>3, <2>2 DEF JournalOk
  <2> QED BY <1>1, <2>1, <2>2
<1>5. JournalOk(k)
  BY <1>1, <1>4 DEF JournalOk
<1> QED BY <1>0, <1>1, <1>5, WorkSafe

LEMMA AdoptStep ==
    ASSUME IInv, NEW s \in Sides, Adopt(s)
    PROVE  LET j == journal[s]
               k == journal'[s]
           IN  /\ k \in JournalsOf(Used) /\ k.base = server[s] /\ k.content = server[s].content
               /\ k.seq = j.seq /\ k.ack = j.ack /\ k.flight = {} /\ k.boundary = j.boundary
               /\ j.content = j.base.content
               /\ \A t \in Sides \ {s} : journal'[t] = journal[t]
<1> PICK j : j = journal[s]
  OBVIOUS
<1> PICK h : h = server[s]
  OBVIOUS
<1> PICK k : k = [j EXCEPT !.base = h, !.content = h.content]
  OBVIOUS
<1>1. /\ journal \in [Sides -> JournalsOf(Used)] /\ j \in JournalsOf(Used)
      /\ h \in HeadsOf(Used) /\ JournalOk(j)
  BY DEF IInv, Typed, TypedOver, Safe
<1>2. /\ journal' = [journal EXCEPT ![s].base = h, ![s].content = h.content]
      /\ j.seq = j.ack /\ j.flight = {}
  BY DEF Adopt, Clean
<1>3. journal'[s] = k /\ \A t \in Sides \ {s} : journal'[t] = journal[t]
  BY <1>1, <1>2
<1>4. /\ k \in JournalsOf(Used) /\ k.base = h /\ k.content = h.content
      /\ k.seq = j.seq /\ k.ack = j.ack /\ k.flight = j.flight /\ k.boundary = j.boundary
  BY <1>1 DEF JournalsOf, HeadsOf
<1>5. j.content = j.base.content
  BY <1>1, <1>2 DEF JournalOk
<1> QED BY <1>2, <1>3, <1>4, <1>5

LEMMA AdoptSafe == ASSUME IInv, NEW s \in Sides, Adopt(s) PROVE Safe'
<1> PICK j : j = journal[s]
  OBVIOUS
<1> PICK k : k = journal'[s]
  OBVIOUS
<1>0. Ready /\ ~locked /\ UNCHANGED <<record, boot, current, locked, job>>
  BY DEF Adopt, Volatile
<1>1. /\ k.base = server[s] /\ k.content = server[s].content
      /\ k.seq = j.seq /\ k.ack = j.ack /\ k.flight = {} /\ k.boundary = j.boundary
      /\ \A t \in Sides \ {s} : journal'[t] = journal[t]
  BY AdoptStep
<1>2. JournalOk(j)
  BY DEF IInv, Safe
<1>3. JournalOk(k)
  BY <1>1, <1>2 DEF JournalOk
<1> QED BY <1>0, <1>1, <1>3, WorkSafe

LEMMA SafeNext == ASSUME IInv, Alone, [Next]_vars PROVE Safe'
<1>1. CASE UNCHANGED vars
  BY <1>1, SafeSame DEF vars
<1>2. CASE Start
  BY <1>2, RecoverSafe, ListSafe, SourceSafe, ServeSafe, HeadsSafe DEF Start
<1>3. CASE \E c \in Callers : Run(c) \/ StepFails(c)
  <2> PICK c \in Callers : Run(c) \/ StepFails(c)
    BY <1>3
  <2> QED BY LockSafe, CheckSharedSafe, CheckMainSafe, BeginSafe, ReadSafe, ApplySafe,
             AdvanceSafe, CompleteSafe, ConfirmSafe, StepFailsSafe DEF Run
<1>4. CASE \E i \in Imports : BeginImport(i)
  BY <1>4, ImportSafe
<1>5. CASE \E s \in Sides : EditDocument(s) \/ BeginUpload(s) \/ EndUpload(s) \/ Adopt(s)
  BY <1>5, EditSafe, UploadSafe, EndSafe, AdoptSafe
<1>6. CASE \E s \in Sides : RemoteSave(s)
  BY <1>6, SafeSame DEF RemoteSave, Volatile
<1>7. CASE Crash \/ Reload
  BY <1>7, ReopenSafe DEF Crash, Reload, durables
<1> QED BY <1>1, <1>2, <1>3, <1>4, <1>5, <1>6, <1>7 DEF Next

-----------------------------------------------------------------------------
(* The types are kept. *)

LEMMA Retyped ==
    ASSUME NEW M, M = Used, unused' = unused, TypedOver(M)', TypedControl'
    PROVE  Typed'
BY DEF Typed, TypedOver, Used

\* A mark is used.
LEMMA MarkTyped ==
    ASSUME NEW N, NEW m \in unused, N = Used \cup {m}, unused' = unused \ {m},
           Typed, TypedOver(N)', TypedControl'
    PROVE  Typed'
<1>1. Used' = N
  BY DEF Used, Typed, TypedControl
<1> QED BY <1>1 DEF Typed, TypedOver

LEMMA JobTyped ==
    ASSUME Typed, NEW M, M = Used, NEW c \in Callers,
           \/ \E x \in Steps : Continue(c, x)
           \/ \E held \in BOOLEAN : Fail(c, held)
           \/ Return(c)
    PROVE  job' \in [Callers -> JobsOf(M)] /\ boot' \in Boots /\ locked' \in BOOLEAN
<1>0. job \in [Callers -> JobsOf(M)] /\ boot \in Boots
  BY DEF Typed, TypedOver, TypedControl
<1>1. ASSUME NEW x \in Steps, Continue(c, x)
      PROVE  job' \in [Callers -> JobsOf(M)] /\ boot' \in Boots /\ locked' \in BOOLEAN
  BY <1>0, <1>1, Moved DEF Continue
<1>2. ASSUME NEW held \in BOOLEAN, Fail(c, held)
      PROVE  job' \in [Callers -> JobsOf(M)] /\ boot' \in Boots /\ locked' \in BOOLEAN
  <2>1. job' \in [Callers -> JobsOf(M)]
    BY <1>0, <1>2, Stopped DEF Fail
  <2> QED BY <1>0, <1>2, <2>1 DEF Fail, Boots
<1>3. ASSUME Return(c)
      PROVE  job' \in [Callers -> JobsOf(M)] /\ boot' \in Boots /\ locked' \in BOOLEAN
  <2>1. job' \in [Callers -> JobsOf(M)] /\ locked' = FALSE
    BY <1>0, <1>3, Stopped DEF Return
  <2>2. boot' = CASE c # Starter -> boot [] boot = "recover" -> "list" [] OTHER -> "clear"
    BY <1>3 DEF Return
  <2>3. boot' \in {boot, "list", "clear"}
    <3>1. CASE c = Starter /\ boot = "recover"
      BY <2>2, <3>1
    <3>2. CASE c = Starter /\ boot # "recover"
      BY <2>2, <3>2
    <3>3. CASE c # Starter /\ boot # "recover"
      BY <2>2, <3>3
    <3>4. CASE c # Starter /\ boot = "recover"
      BY <2>2, <3>4
    <3> QED BY <3>1, <3>2, <3>3, <3>4
  <2> QED BY <1>0, <2>1, <2>3 DEF Boots
<1> QED BY <1>1, <1>2, <1>3

\* The steps of a run that leave journals and record alone.
LEMMA QuietRunTyped ==
    ASSUME Typed, NEW c \in Callers,
           \/ Lock(c)
           \/ Check(c, "shared", "check-shared", "check-main")
           \/ Check(c, "main", "check-main", "begin")
           \/ ReadRecord(c) \/ Confirm(c) \/ StepFails(c)
    PROVE  Typed'
<1> PICK M : M = Used
  OBVIOUS
<1>0. UNCHANGED <<server, group, journal, record, staged, unused, current>>
  BY DEF Lock, Check, ReadRecord, Confirm, StepFails, durables
<1>1. \/ \E x \in Steps : Continue(c, x)
      \/ \E held \in BOOLEAN : Fail(c, held)
      \/ Return(c)
  <2>1. CASE Lock(c)
    BY <2>1 DEF Lock, Steps
  <2>2. CASE \/ Check(c, "shared", "check-shared", "check-main")
             \/ Check(c, "main", "check-main", "begin")
    BY <2>2 DEF Check, Steps
  <2>3. CASE ReadRecord(c)
    BY <2>3 DEF ReadRecord, Steps
  <2>4. CASE Confirm(c)
    BY <2>4 DEF Confirm
  <2>5. CASE StepFails(c)
    <3> DEFINE held == locked /\ job[c].step \in {"read", "apply", "advance", "complete", "confirm"}
    <3>1. held \in BOOLEAN /\ Fail(c, held)
      BY <2>5 DEF StepFails
    <3> HIDE DEF held
    <3> QED BY <3>1
  <2> QED BY <2>1, <2>2, <2>3, <2>4, <2>5
<1>2. job' \in [Callers -> JobsOf(M)] /\ boot' \in Boots /\ locked' \in BOOLEAN
  BY <1>1, JobTyped
<1>3. TypedOver(M)' /\ TypedControl'
  BY <1>0, <1>2 DEF Typed, TypedOver, TypedControl
<1> QED BY <1>0, <1>3, Retyped

\* The steps that write the record.
LEMMA RecordTyped ==
    ASSUME Typed, NEW c \in Callers, Begin(c) \/ Advance(c) \/ Complete(c)
    PROVE  Typed'
<1> PICK M : M = Used
  OBVIOUS
<1>0. /\ UNCHANGED <<server, group, journal, staged, unused, current>>
      /\ record \in RecordsOf(M) /\ job[c] \in JobsOf(M)
  BY DEF Begin, Advance, Complete, Typed, TypedOver
<1>1. \/ \E x \in Steps : Continue(c, x)
      \/ \E held \in BOOLEAN : Fail(c, held)
  BY DEF Begin, Advance, Complete, Steps
<1>2. job' \in [Callers -> JobsOf(M)] /\ boot' \in Boots /\ locked' \in BOOLEAN
  BY <1>1, JobTyped
<1>3. record' \in RecordsOf(M)
  <2>1. CASE Begin(c)
    <3> PICK plan : plan = job[c].plan
      OBVIOUS
    <3>1. plan \in PlansOf(M)
      BY <1>0 DEF JobsOf
    <3>2. record' = record \/ record' = [phase |-> "prepared", plan |-> plan]
      BY <2>1 DEF Begin
    <3> QED BY <1>0, <3>1, <3>2 DEF RecordsOf, Phases
  <2>2. CASE Advance(c)
    BY <1>0, <2>2 DEF Advance, RecordsOf, Phases
  <2>3. CASE Complete(c)
    <3> PICK plan : plan = [NoPlan EXCEPT !.id = record.plan.id]
      OBVIOUS
    <3>1. record.plan.id \in (Ids \cap M) \cup {NoId} /\ NoPlan \in PlansOf(M)
      BY <1>0, NothingTyped DEF RecordsOf, PlansOf
    <3>2. plan \in PlansOf(M)
      BY <3>1 DEF PlansOf
    <3>3. record' = [phase |-> "complete", plan |-> plan]
      BY <2>3 DEF Complete
    <3> QED BY <3>2, <3>3 DEF RecordsOf, Phases
  <2> QED BY <2>1, <2>2, <2>3
<1>4. TypedOver(M)' /\ TypedControl'
  BY <1>0, <1>2, <1>3 DEF Typed, TypedOver, TypedControl
<1> QED BY <1>0, <1>4, Retyped

LEMMA ApplyTyped == ASSUME IInv, NEW c \in Callers, Apply(c) PROVE Typed'
<1> PICK M : M = Used
  OBVIOUS
<1> PICK s : s = SideOf(record.phase)
  OBVIOUS
<1> PICK plan : plan = record.plan
  OBVIOUS
<1>0. /\ UNCHANGED <<server, group, record, staged, unused, current>> /\ Typed
      /\ plan \in PlansOf(M) /\ journal \in [Sides -> JournalsOf(M)]
  BY DEF Apply, IInv, Typed, TypedOver, RecordsOf
<1>1. s \in Sides /\ Continue(c, "advance") /\ "advance" \in Steps
  BY ApplyStep DEF Steps
<1>2. job' \in [Callers -> JobsOf(M)] /\ boot' \in Boots /\ locked' \in BOOLEAN
  BY <1>0, <1>1, JobTyped
<1>3. /\ plan.target[s] \in HeadsOf(M) /\ plan.id \in (Ids \cap M) \cup {NoId}
      /\ journal[s] \in JournalsOf(M)
  BY <1>0, <1>1 DEF PlansOf
<1> PICK j : j = journal[s]
  OBVIOUS
<1> PICK h : h = plan.target[s]
  OBVIOUS
<1>4. Reset(j, plan.id, h) \in JournalsOf(M)
  <2>1. h \in HeadsOf(M) /\ h.content \subseteq M /\ j \in JournalsOf(M)
    BY <1>3 DEF HeadsOf
  <2> QED BY <1>3, <2>1 DEF Reset, JournalsOf
<1>5. ReplaceWithPending(j, plan.id, h) \in JournalsOf(M)
  <2>1. j.seq + 1 \in Nat /\ h.content \subseteq M
    BY <1>3 DEF JournalsOf, HeadsOf
  <2> QED BY <1>3, <2>1 DEF ReplaceWithPending, JournalsOf
<1>6. journal' \in [Sides -> JournalsOf(M)]
  <2>1. \/ journal' = journal
        \/ journal' = [journal EXCEPT ![s] = Reset(j, plan.id, h)]
        \/ journal' = [journal EXCEPT ![s] = ReplaceWithPending(j, plan.id, h)]
    BY ApplyStep
  <2> QED BY <1>0, <1>4, <1>5, <2>1
<1>7. TypedOver(M)' /\ TypedControl'
  BY <1>0, <1>2, <1>6 DEF Typed, TypedOver, TypedControl
<1> QED BY <1>0, <1>7, Retyped

LEMMA StartTyped == ASSUME IInv, Start PROVE Typed'
<1> PICK M : M = Used
  OBVIOUS
<1>0. /\ Typed /\ TypedOver(M) /\ TypedControl /\ Starter \in Callers /\ Turns
      /\ UNCHANGED <<journal, record, unused>>
  BY DEF IInv, Safe, Typed, Callers, Start, RecoverPrimary, ListGroups, StartOffline, ReadSource,
         StageServerPending, ApplyRestoreGroup, ReadHeads, CompleteServerPending, durables
<1>1. CASE RecoverPrimary
  <2>1. job' \in [Callers -> JobsOf(M)]
    <3>1. job \in [Callers -> JobsOf(M)] /\ "read" \in Steps /\ Goto(Starter, "read")
      BY <1>0, <1>1 DEF TypedOver, Steps, RecoverPrimary
    <3> QED BY <1>0, <3>1, Moved
  <2>2. locked' \in BOOLEAN
    BY <1>1 DEF RecoverPrimary, Pending
  <2>3. TypedOver(M)' /\ TypedControl'
    BY <1>0, <1>1, <2>1, <2>2 DEF RecoverPrimary, TypedOver, TypedControl, durables
  <2> QED BY <1>0, <2>3, Retyped
<1>2. CASE ListGroups \/ StartOffline
  <2>1. UNCHANGED <<server, group, staged, locked, job>>
    BY <1>2 DEF ListGroups, StartOffline, durables, Volatile
  <2>2. boot' \in Boots /\ current' \in Groups \cup {NoId}
    BY <1>0, <1>2 DEF ListGroups, StartOffline, TypedControl, Boots
  <2>3. TypedOver(M)' /\ TypedControl'
    BY <1>0, <2>1, <2>2 DEF TypedOver, TypedControl
  <2> QED BY <1>0, <2>3, Retyped
<1>3. CASE ReadSource
  <2> PICK plan : plan = RestorePlan(current, [s \in Sides |-> Head(s)], NoPlan.target)
    OBVIOUS
  <2>1. current \in Groups /\ UNCHANGED <<server, group, staged, locked, current>>
    BY <1>0, <1>3 DEF ReadSource, Turns, durables
  <2>2. plan \in PlansOf(M)
    <3>1. NoPlan.target \in [Sides -> HeadsOf(M)]
      BY NothingTyped DEF PlansOf
    <3>2. [s \in Sides |-> Head(s)] \in [Sides -> Versions]
      <4>1. ASSUME NEW s \in Sides PROVE Head(s) \in Versions
        <5>1. journal[s] \in JournalsOf(M)
          BY <1>0 DEF TypedOver
        <5> QED BY <5>1 DEF JournalsOf, HeadsOf, Versions, Head
      <4> QED BY <4>1
    <3>3. current \in Ids \cap M
      BY <1>0, <2>1 DEF TypedControl, Used, Ids, Marks
    <3> QED BY <3>1, <3>2, <3>3 DEF RestorePlan, PlansOf
  <2>3. job' \in [Callers -> JobsOf(M)] /\ boot' \in Boots
    <3>1. job \in [Callers -> JobsOf(M)] /\ job[Starter] \in JobsOf(M)
      BY <1>0 DEF TypedOver
    <3>2. [job[Starter] EXCEPT !.plan = plan] \in JobsOf(M)
      BY <2>2, <3>1 DEF JobsOf
    <3>3. /\ job' = job \/ job' = [job EXCEPT ![Starter] = [job[Starter] EXCEPT !.plan = plan]]
          /\ boot' \in {"stage", "failed"}
      BY <1>3 DEF ReadSource
    <3> QED BY <3>1, <3>2, <3>3 DEF Boots
  <2>4. TypedOver(M)' /\ TypedControl'
    BY <1>0, <2>1, <2>3 DEF TypedOver, TypedControl
  <2> QED BY <1>0, <2>4, Retyped
<1>4. CASE StageServerPending \/ CompleteServerPending
  <2>1. /\ UNCHANGED <<server, group, locked, job, current>> /\ boot' \in Boots
        /\ staged' \subseteq Groups
    BY <1>0, <1>4 DEF StageServerPending, CompleteServerPending, Volatile, Boots, Turns
  <2>2. TypedOver(M)' /\ TypedControl'
    BY <1>0, <2>1 DEF TypedOver, TypedControl
  <2> QED BY <1>0, <2>2, Retyped
<1>5. CASE ApplyRestoreGroup
  <2>1. UNCHANGED <<staged, locked, job, current>> /\ current \in Groups
    BY <1>0, <1>5 DEF ApplyRestoreGroup, Volatile, Turns
  <2>2. CASE UNCHANGED <<server, group>> /\ boot' \in {"heads", "failed"}
    <3>1. TypedOver(M)' /\ TypedControl'
      BY <1>0, <2>1, <2>2 DEF TypedOver, TypedControl, Boots
    <3> QED BY <1>0, <3>1, Retyped
  <2>3. CASE /\ server' = [s \in Sides |-> [revision |-> StagedAt + 1, content |-> {current}]]
             /\ group' = [group EXCEPT ![current] = "completed"] /\ boot' = "heads"
    <3>1. [revision |-> StagedAt + 1, content |-> {current}] \in HeadsOf(M)
      BY <1>0, <2>1 DEF StagedAt, HeadsOf, TypedControl, Used, Marks, Ids
    <3>2. TypedOver(M)' /\ TypedControl'
      BY <1>0, <2>1, <2>3, <3>1 DEF TypedOver, TypedControl, Boots
    <3> QED BY <1>0, <3>2, Retyped
  <2>4. \/ UNCHANGED <<server, group>> /\ boot' \in {"heads", "failed"}
        \/ /\ server' = [s \in Sides |-> [revision |-> StagedAt + 1, content |-> {current}]]
           /\ group' = [group EXCEPT ![current] = "completed"] /\ boot' = "heads"
    <3>1. CASE group[current] = "completed"
      BY <1>5, <3>1 DEF ApplyRestoreGroup
    <3>2. CASE group[current] = "staged" /\ \A s \in Sides : server[s].revision = StagedAt
      BY <1>5, <3>2 DEF ApplyRestoreGroup
    <3>3. CASE /\ group[current] # "completed"
               /\ ~(group[current] = "staged" /\ \A s \in Sides : server[s].revision = StagedAt)
      BY <1>5, <3>3 DEF ApplyRestoreGroup
    <3> QED BY <3>1, <3>2, <3>3
  <2> QED BY <2>2, <2>3, <2>4
<1>6. CASE ReadHeads
  <2> PICK plan : plan = [job[Starter].plan EXCEPT !.target = server]
    OBVIOUS
  <2>1. plan \in PlansOf(M)
    <3>1. job[Starter].plan \in PlansOf(M) /\ server \in [Sides -> HeadsOf(M)]
      BY <1>0 DEF TypedOver, JobsOf
    <3> QED BY <3>1 DEF PlansOf
  <2>2. job' = [job EXCEPT ![Starter] = [step |-> "lock", plan |-> plan]]
    BY <1>6 DEF ReadHeads
  <2>3. [step |-> "lock", plan |-> plan] \in JobsOf(M)
    BY <2>1 DEF JobsOf, Steps
  <2>4. job' \in [Callers -> JobsOf(M)]
    BY <1>0, <2>2, <2>3 DEF TypedOver
  <2>5. TypedOver(M)' /\ TypedControl'
    BY <1>0, <1>6, <2>4 DEF ReadHeads, TypedOver, TypedControl, durables, Boots
  <2> QED BY <1>0, <2>5, Retyped
<1> QED BY <1>1, <1>2, <1>3, <1>4, <1>5, <1>6 DEF Start

LEMMA ImportTyped == ASSUME IInv, NEW i \in Imports, BeginImport(i) PROVE Typed'
<1> PICK N : N = Used \cup {i}
  OBVIOUS
<1> PICK plan : plan = ImportPlan(i, [s \in Sides |-> Head(s)])
  OBVIOUS
<1>0. /\ Typed /\ TypedControl /\ i \in unused /\ unused' = unused \ {i} /\ i \in Callers
      /\ UNCHANGED <<server, group, journal, record, staged, boot, current, locked>>
      /\ job' = [job EXCEPT ![i] = [step |-> "lock", plan |-> plan]]
  BY DEF BeginImport, IInv, Typed, Callers
<1>1. TypedOver(N)
  BY <1>0, MoreUsed DEF Typed
<1>2. ASSUME NEW s \in Sides
      PROVE  /\ Head(s) \in Versions
             /\ [revision |-> Head(s).revision, content |-> {i}] \in HeadsOf(N)
  <2>1. journal[s] \in JournalsOf(N)
    BY <1>1 DEF TypedOver
  <2>2. Head(s) \in Versions
    BY <2>1 DEF JournalsOf, HeadsOf, Versions, Head
  <2> QED BY <2>2 DEF Versions, HeadsOf
<1>3. plan \in PlansOf(N)
  <2>1. i \in Ids \cap N
    BY DEF Ids
  <2> QED BY <1>2, <2>1 DEF ImportPlan, PlansOf
<1>4. [step |-> "lock", plan |-> plan] \in JobsOf(N)
  BY <1>3 DEF JobsOf, Steps
<1>5. TypedOver(N)' /\ TypedControl'
  BY <1>0, <1>1, <1>4 DEF TypedOver, TypedControl
<1> QED BY <1>0, <1>5, MarkTyped

LEMMA EditTyped == ASSUME IInv, NEW s \in Sides, EditDocument(s) PROVE Typed'
<1>0. /\ UNCHANGED <<server, group, record, staged, boot, current, locked, job>>
      /\ Typed /\ TypedControl
  BY DEF EditDocument, Volatile, IInv, Typed
<1> PICK j : j = journal[s]
  OBVIOUS
<1> PICK k : k = journal'[s]
  OBVIOUS
<1>1. PICK e \in unused :
        /\ unused' = unused \ {e}
        /\ k = [j EXCEPT !.seq = j.seq + 1, !.content = j.content \cup {e}]
        /\ \A t \in Sides \ {s} : journal'[t] = journal[t]
  BY EditStep
<1> PICK N : N = Used \cup {e}
  OBVIOUS
<1>2. TypedOver(N) /\ j \in JournalsOf(N)
  BY <1>0, MoreUsed DEF Typed, TypedOver
<1>3. k \in JournalsOf(N)
  <2>1. j.seq + 1 \in Nat /\ j.content \cup {e} \subseteq N
    BY <1>2 DEF JournalsOf
  <2> QED BY <1>1, <1>2, <2>1 DEF JournalsOf
<1>4. journal' \in [Sides -> JournalsOf(N)]
  <2>1. journal' = [t \in Sides |-> journal'[t]]
    BY <1>2 DEF TypedOver, EditDocument
  <2>2. \A t \in Sides : journal'[t] \in JournalsOf(N)
    BY <1>1, <1>2, <1>3 DEF TypedOver
  <2> QED BY <2>1, <2>2
<1>5. TypedOver(N)' /\ TypedControl'
  BY <1>0, <1>1, <1>2, <1>4 DEF TypedOver, TypedControl
<1> QED BY <1>0, <1>1, <1>5, MarkTyped

LEMMA WorkTyped ==
    ASSUME IInv, NEW s \in Sides, BeginUpload(s) \/ EndUpload(s) \/ Adopt(s)
    PROVE  Typed'
<1> PICK M : M = Used
  OBVIOUS
<1>0. /\ UNCHANGED <<group, record, staged, unused, boot, current, locked, job>>
      /\ Typed /\ TypedControl /\ TypedOver(M) /\ DOMAIN journal' = Sides
  BY DEF BeginUpload, EndUpload, Adopt, Volatile, IInv, Typed, TypedOver
<1>1. journal'[s] \in JournalsOf(M) /\ \A t \in Sides \ {s} : journal'[t] = journal[t]
  <2>1. CASE BeginUpload(s)
    <3> PICK j : j = journal[s]
      OBVIOUS
    <3> PICK f : f = [seq |-> j.seq, content |-> j.content]
      OBVIOUS
    <3>1. journal'[s] = [j EXCEPT !.flight = {f}] /\ \A t \in Sides \ {s} : journal'[t] = journal[t]
      BY <2>1, UploadStep
    <3>2. j \in JournalsOf(M)
      BY <1>0 DEF TypedOver
    <3>3. f \in FlightsOf(M)
      BY <3>2 DEF JournalsOf, FlightsOf
    <3> QED BY <3>1, <3>2, <3>3 DEF JournalsOf
  <2>2. CASE EndUpload(s)
    BY <2>2, EndStep
  <2>3. CASE Adopt(s)
    BY <2>3, AdoptStep
  <2> QED BY <2>1, <2>2, <2>3
<1>2. journal' \in [Sides -> JournalsOf(M)]
  <2>1. journal' = [t \in Sides |-> journal'[t]]
    BY <1>0 DEF BeginUpload, EndUpload, Adopt, TypedOver
  <2>2. \A t \in Sides : journal'[t] \in JournalsOf(M)
    BY <1>0, <1>1 DEF TypedOver
  <2> QED BY <2>1, <2>2
<1>3. server' \in [Sides -> HeadsOf(M)]
  <2>1. server \in [Sides -> HeadsOf(M)]
    BY <1>0 DEF TypedOver
  <2>2. CASE BeginUpload(s) \/ Adopt(s)
    BY <2>1, <2>2 DEF BeginUpload, Adopt
  <2>3. CASE EndUpload(s)
    <3> PICK h : h = journal'[s].base
      OBVIOUS
    <3>1. server' = server \/ (server' = [server EXCEPT ![s] = h] /\ h \in HeadsOf(M))
      BY <2>3, EndStep
    <3> QED BY <2>1, <3>1
  <2> QED BY <2>2, <2>3
<1>4. TypedOver(M)' /\ TypedControl'
  BY <1>0, <1>2, <1>3 DEF TypedOver, TypedControl
<1> QED BY <1>0, <1>4, Retyped

LEMMA RemoteTyped == ASSUME IInv, NEW s \in Sides, RemoteSave(s) PROVE Typed'
<1>0. /\ UNCHANGED <<group, journal, record, staged, boot, current, locked, job>>
      /\ Typed /\ TypedControl
  BY DEF RemoteSave, Volatile, IInv, Typed
<1> PICK m \in unused :
      /\ unused' = unused \ {m}
      /\ server' = [server EXCEPT ![s].revision = @ + 1, ![s].content = @ \cup {m}]
  BY DEF RemoteSave
<1> PICK N : N = Used \cup {m}
  OBVIOUS
<1>1. TypedOver(N) /\ server \in [Sides -> HeadsOf(N)] /\ server[s] \in HeadsOf(N)
  BY <1>0, MoreUsed DEF Typed, TypedOver
<1> PICK h : h = [server[s] EXCEPT !.revision = @ + 1, !.content = @ \cup {m}]
  OBVIOUS
<1>2. h \in HeadsOf(N)
  <2>1. /\ server[s].revision + 1 \in Nat /\ server[s].content \cup {m} \subseteq N
        /\ server[s] \in HeadsOf(N)
    BY <1>1 DEF HeadsOf
  <2>2. h = [revision |-> server[s].revision + 1, content |-> server[s].content \cup {m}]
    BY <2>1 DEF HeadsOf
  <2> QED BY <2>1, <2>2 DEF HeadsOf
<1>3. server' = [server EXCEPT ![s] = h]
  OBVIOUS
<1>4. server' \in [Sides -> HeadsOf(N)]
  BY <1>1, <1>2, <1>3
<1>5. TypedOver(N)' /\ TypedControl'
  BY <1>0, <1>1, <1>4 DEF TypedOver, TypedControl
<1> QED BY <1>0, <1>5, MarkTyped

LEMMA ReopenTyped ==
    ASSUME Typed, Reopen, UNCHANGED <<server, group, journal, record, staged, unused>>
    PROVE  Typed'
<1> PICK M : M = Used
  OBVIOUS
<1>1. job' \in [Callers -> JobsOf(M)]
  BY NothingTyped DEF Reopen
<1>2. TypedOver(M)' /\ TypedControl'
  BY <1>1 DEF Reopen, Typed, TypedOver, TypedControl, Boots
<1> QED BY <1>2, Retyped

LEMMA TypedNext == ASSUME IInv, [Next]_vars PROVE Typed'
<1>0. Typed
  BY DEF IInv
<1>1. CASE UNCHANGED vars
  BY <1>0, <1>1 DEF vars, Typed, TypedOver, TypedControl, Used
<1>2. CASE Start
  BY <1>2, StartTyped
<1>3. CASE \E c \in Callers : Run(c) \/ StepFails(c)
  <2> PICK c \in Callers : Run(c) \/ StepFails(c)
    BY <1>3
  <2> QED BY <1>0, QuietRunTyped, RecordTyped, ApplyTyped DEF Run
<1>4. CASE \E i \in Imports : BeginImport(i)
  BY <1>4, ImportTyped
<1>5. CASE \E s \in Sides :
              EditDocument(s) \/ BeginUpload(s) \/ EndUpload(s) \/ Adopt(s) \/ RemoteSave(s)
  BY <1>5, EditTyped, WorkTyped, RemoteTyped
<1>6. CASE Crash \/ Reload
  BY <1>0, <1>6, ReopenTyped DEF Crash, Reload, durables
<1> QED BY <1>1, <1>2, <1>3, <1>4, <1>5, <1>6 DEF Next

LEMMA InitOk == Init => IInv
<1> SUFFICES ASSUME Init PROVE IInv
  OBVIOUS
<1> PICK M : M = Used
  OBVIOUS
<1> PICK h : h = [revision |-> 0, content |-> {}]
  OBVIOUS
<1> PICK j : j = [seq |-> 0, ack |-> 0, content |-> {}, flight |-> {}, boundary |-> NoId,
                  base |-> h]
  OBVIOUS
<1>0. NoPlan \in PlansOf(M) /\ Fresh \in [Callers -> JobsOf(M)] /\ NoPlan.id = NoId
  BY NothingTyped DEF NoPlan
<1>1. server = [s \in Sides |-> h] /\ journal = [s \in Sides |-> j]
  BY DEF Init
<1>2. h \in HeadsOf(M)
  BY DEF HeadsOf
<1>3. j \in JournalsOf(M)
  BY <1>2 DEF JournalsOf
<1>4. record \in RecordsOf(M) /\ record.phase = "none" /\ record.plan = NoPlan
  BY <1>0 DEF Init, RecordsOf, Phases
<1>5. TypedOver(M)
  BY <1>0, <1>1, <1>2, <1>3, <1>4 DEF TypedOver, Init
<1>6. TypedControl
  BY DEF TypedControl, Init, Boots, Marks, Ids
<1>7. Typed
  BY <1>5, <1>6 DEF Typed
<1>8. ~Pending
  BY <1>4 DEF Pending
<1>9. /\ At(Starter, "pending") /\ \A c \in Callers : c = Starter \/ At(c, "off")
      /\ \A i \in Imports : At(i, "off")
  BY IdsAssumption DEF Init, Fresh, Idle, At, Callers
<1>10. \A c \in Callers : StepOk(c)
  BY <1>8, <1>9 DEF StepOk, At, Early
<1>11. Turns /\ Gate
  BY <1>8, <1>9 DEF Turns, Gate, Init, At, Recovery, Ready
<1>12. \A s \in Sides : journal[s] = j /\ j.boundary = NoId
  BY <1>1
<1>13. RecordOk
  BY <1>0, <1>4, <1>8, <1>12 DEF RecordOk
<1>14. \A s \in Sides : JournalOk(journal[s])
  BY <1>12 DEF JournalOk
<1>15. IntentApplicable
  BY <1>8 DEF IntentApplicable
<1> QED BY <1>7, <1>10, <1>11, <1>13, <1>14, <1>15 DEF IInv, Safe

LEMMA IInvNext == ASSUME IInv, Alone, [Next]_vars PROVE IInv'
<1>1. Typed'
  BY TypedNext
<1>2. Safe'
  BY SafeNext
<1> QED BY <1>1, <1>2 DEF IInv

-----------------------------------------------------------------------------
(* The theorems. *)

\* As long as the imports of a page do not overlap, a boundary ends with both
\* documents or with neither: the start of the page (restore-server-recovery.js)
\* and the gate (storage-v2-boundary.js) let nobody edit one journal that went
\* through it beside one that did not.
THEOREM DocumentsStayPaired == Spec /\ []Alone => []PairedWhenEditable
<1>1. Init => IInv
  BY InitOk
<1>2. IInv /\ Alone /\ [Next]_vars => IInv'
  BY IInvNext
<1>3. IInv => PairedWhenEditable
  <2> SUFFICES ASSUME IInv, Ready, ~locked
               PROVE  journal["main"].boundary = journal["shared"].boundary
    BY DEF PairedWhenEditable
  <2>1. ~Pending
    BY DEF IInv, Safe, Gate
  <2> QED BY <2>1 DEF IInv, Safe, RecordOk, Sides
<1> QED BY <1>1, <1>2, <1>3, PTL DEF Spec

\* An import whose intent is durable is never refused for the version of a
\* journal it has still to replace: what resume checks again before it replaces
\* it (storage-v2-boundary.js) was true when the intent was written, and the gate
\* keeps it true over crashes.
THEOREM ImportStaysApplicable == Spec /\ []Alone => []IntentApplicable
<1>1. Init => IInv
  BY InitOk
<1>2. IInv /\ Alone /\ [Next]_vars => IInv'
  BY IInvNext
<1>3. IInv => IntentApplicable
  BY DEF IInv, Safe
<1> QED BY <1>1, <1>2, <1>3, PTL DEF Spec

-----------------------------------------------------------------------------
(* The boundary replaces both documents at once. *)

Docs == [s \in Sides |-> Document(s)]
Unsents == [s \in Sides |-> Unsent(s)]
Clouds == [s \in Sides |-> server[s].content]
Pair(s) == IF Awaited(s) THEN record.plan.id ELSE journal[s].boundary
Pairs == [s \in Sides |-> Pair(s)]

Mapped ==
    /\ Docs \in [Sides -> SUBSET Marks] /\ Unsents \in [Sides -> SUBSET Marks]
    /\ Clouds \in [Sides -> SUBSET Marks] /\ Pairs \in [Sides -> Ids \cup {NoId}]

LEMMA TypedMapped == Typed => Mapped
<1> SUFFICES ASSUME Typed PROVE Mapped
  OBVIOUS
<1> PICK M : M = Used
  OBVIOUS
<1>0. /\ server \in [Sides -> HeadsOf(M)] /\ journal \in [Sides -> JournalsOf(M)]
      /\ record.plan \in PlansOf(M) /\ M \subseteq Marks
  BY DEF Typed, TypedOver, RecordsOf, Used
<1>1. ASSUME NEW s \in Sides
      PROVE  /\ Document(s) \subseteq Marks /\ Unsent(s) \subseteq Marks
             /\ server[s].content \subseteq Marks /\ Pair(s) \in Ids \cup {NoId}
  <2>1. server[s].content \subseteq M
    BY <1>0 DEF HeadsOf
  <2>2. journal[s].content \subseteq M /\ journal[s].boundary \in Ids \cup {NoId}
    BY <1>0 DEF JournalsOf
  <2>3. record.plan.target[s] \in HeadsOf(M) /\ record.plan.id \in Ids \cup {NoId}
    BY <1>0 DEF PlansOf
  <2>4. record.plan.target[s].content \subseteq M
    BY <2>3 DEF HeadsOf
  <2>5. Document(s) \subseteq Marks
    BY <1>0, <2>2, <2>4 DEF Document
  <2>6. Unsent(s) \subseteq Marks
    BY <2>5 DEF Unsent
  <2> QED BY <1>0, <2>1, <2>2, <2>3, <2>5, <2>6 DEF Pair
<1> QED BY <1>1 DEF Mapped, Docs, Unsents, Clouds, Pairs

LEMMA InitRefined == Init => Atomic!Init
<1> SUFFICES ASSUME Init PROVE Atomic!Init
  OBVIOUS
<1>1. IInv /\ Mapped
  BY InitOk, TypedMapped DEF IInv
<1>2. record.phase = "none" /\ \A s \in Sides : journal[s].boundary = NoId
  BY DEF Init
<1>3. Pairs = [s \in Sides |-> NoId]
  BY <1>2 DEF Pairs, Pair, Awaited, Pending
<1>4. Atomic!TypeOK
  BY <1>1 DEF Atomic!TypeOK, Mapped, Docs, Unsents, Clouds, Pairs, Pair
<1>5. \E id \in Ids \cup {NoId} : Pairs = [s \in Sides |-> id]
  BY <1>3
<1> QED BY <1>4, <1>5 DEF Atomic!Init, Pairs, Pair

LEMMA Stutters ==
    ASSUME \A s \in Sides :
               /\ Document(s)' = Document(s) /\ Unsent(s)' = Unsent(s) /\ Pair(s)' = Pair(s)
               /\ server'[s].content = server[s].content
    PROVE  UNCHANGED Atomic!vars
<1>1. Docs' = Docs /\ Unsents' = Unsents /\ Clouds' = Clouds /\ Pairs' = Pairs
  BY DEF Docs, Unsents, Clouds, Pairs
<1> QED BY <1>1 DEF Atomic!vars, Docs, Unsents, Clouds, Pairs, Pair

\* The run reads, or only its own progress changes.
LEMMA QuietRefined == ASSUME UNCHANGED <<server, journal, record>> PROVE UNCHANGED Atomic!vars
<1>1. ASSUME NEW s \in Sides
      PROVE  /\ Document(s)' = Document(s) /\ Unsent(s)' = Unsent(s) /\ Pair(s)' = Pair(s)
             /\ server'[s].content = server[s].content
  BY DEF Document, Unsent, Pair, Awaited, Pending
<1> QED BY <1>1, Stutters

LEMMA RemoteRefined ==
    ASSUME UNCHANGED <<journal, record>>, Typed' PROVE Atomic!Remote
<1>1. Mapped'
  BY TypedMapped, PTL
<1>2. \A s \in Sides :
          Document(s)' = Document(s) /\ Unsent(s)' = Unsent(s) /\ Pair(s)' = Pair(s)
  BY DEF Document, Unsent, Pair, Awaited, Pending
<1>3. Docs' = Docs /\ Unsents' = Unsents /\ Pairs' = Pairs
  BY <1>2 DEF Docs, Unsents, Pairs
<1> QED BY <1>1, <1>3 DEF Atomic!Remote, Mapped, Docs, Unsents, Clouds, Pairs, Pair

\* The intent becomes durable: both documents are replaced, and neither had an
\* edit the cloud lacks.
LEMMA BeginRefined ==
    ASSUME IInv, IInv', NEW c \in Callers, Begin(c)
    PROVE  [Atomic!Next]_(Atomic!vars)
<1>1. CASE Pending
  BY <1>1, QuietRefined DEF Begin
<1>2. CASE ~Pending
  <2> PICK plan : plan = job[c].plan
    OBVIOUS
  <2>1. record' = [phase |-> "prepared", plan |-> plan] /\ UNCHANGED <<server, journal>>
    BY <1>2 DEF Begin
  <2>2. Pending' /\ record'.plan = plan
    BY <2>1 DEF Pending
  <2>3. plan.id \in Ids
    BY <2>2 DEF IInv, Safe, RecordOk
  <2>4. \A s \in Sides : Unsent(s) = {}
    <3> SUFFICES ASSUME NEW s \in Sides PROVE Unsent(s) = {}
      OBVIOUS
    <3>1. Clean(s) /\ JournalOk(journal[s])
      BY DEF Begin, IInv, Safe, StepOk, Unchanged
    <3>2. journal[s].content = journal[s].base.content
      BY <3>1 DEF Clean, JournalOk
    <3> QED BY <1>2, <3>2 DEF Unsent, Document, Awaited
  <2>5. \A s \in Sides : Pair(s)' = plan.id
    BY <2>2 DEF Pair, Awaited
  <2>6. Unsents = [s \in Sides |-> {}] /\ Pairs' = [s \in Sides |-> plan.id] /\ Clouds' = Clouds
    BY <2>1, <2>4, <2>5 DEF Unsents, Pairs, Clouds
  <2>7. Mapped'
    BY TypedMapped, PTL DEF IInv
  <2>8. Atomic!Replace(plan.id)
    BY <2>6, <2>7 DEF Atomic!Replace, Mapped, Docs, Unsents, Clouds, Pairs, Pair
  <2> QED BY <2>3, <2>8 DEF Atomic!Next
<1> QED BY <1>1, <1>2

\* A side reaches what the replacement already made of it.
LEMMA ApplyRefined ==
    ASSUME IInv, NEW c \in Callers, Apply(c) PROVE UNCHANGED Atomic!vars
<1> PICK s : s = SideOf(record.phase)
  OBVIOUS
<1> PICK plan : plan = record.plan
  OBVIOUS
<1> PICK j : j = journal[s]
  OBVIOUS
<1> PICK h : h = plan.target[s]
  OBVIOUS
<1>0. UNCHANGED <<server, record>> /\ Pending /\ Pending' /\ s \in Sides
  BY ApplyStep DEF Apply, Pending
<1>1. journal \in [Sides -> JournalsOf(Used)] /\ j \in JournalsOf(Used)
  BY <1>0 DEF IInv, Typed, TypedOver
<1>2. CASE journal' = journal
  BY <1>0, <1>2, QuietRefined
<1>3. CASE journal' # journal
  <2>1. /\ j.boundary # plan.id
        /\ \/ plan.id \in Groups /\ journal' = [journal EXCEPT ![s] = Reset(j, plan.id, h)]
           \/ /\ plan.id \in Imports
              /\ journal' = [journal EXCEPT ![s] = ReplaceWithPending(j, plan.id, h)]
    BY <1>3, ApplyStep
  <2> PICK k : k = journal'[s]
    OBVIOUS
  <2>2. /\ \A t \in Sides \ {s} : journal'[t] = journal[t]
        /\ k.boundary = plan.id /\ k.content = h.content
        /\ \/ plan.id \in Groups /\ k.base = h
           \/ plan.id \in Imports /\ k.base = j.base
    <3>1. CASE plan.id \in Groups /\ journal' = [journal EXCEPT ![s] = Reset(j, plan.id, h)]
      <4>1. k = Reset(j, plan.id, h)
        BY <1>0, <1>1, <3>1
      <4>2. k.boundary = plan.id /\ k.content = h.content /\ k.base = h
        BY <1>1, <4>1 DEF Reset, JournalsOf
      <4> QED BY <1>1, <3>1, <4>2
    <3>2. CASE /\ plan.id \in Imports
               /\ journal' = [journal EXCEPT ![s] = ReplaceWithPending(j, plan.id, h)]
      <4>1. k = ReplaceWithPending(j, plan.id, h)
        BY <1>0, <1>1, <3>2
      <4>2. k.boundary = plan.id /\ k.content = h.content /\ k.base = j.base
        BY <1>1, <4>1 DEF ReplaceWithPending, JournalsOf
      <4> QED BY <1>1, <3>2, <4>2
    <3> QED BY <2>1, <3>1, <3>2
  <2>3. ASSUME NEW t \in Sides
        PROVE  /\ Document(t)' = Document(t) /\ Unsent(t)' = Unsent(t) /\ Pair(t)' = Pair(t)
               /\ server'[t].content = server[t].content
    <3>1. CASE t # s
      <4>1. journal'[t] = journal[t]
        BY <2>2, <3>1
      <4> QED BY <1>0, <4>1 DEF Document, Unsent, Pair, Awaited
    <3>2. CASE t = s
      <4>1. Awaited(s) /\ ~Awaited(s)'
        BY <1>0, <2>1, <2>2 DEF Awaited
      <4>2. Document(s) = h.content /\ Document(s)' = h.content
        BY <2>2, <4>1 DEF Document
      <4>3. Pair(s) = plan.id /\ Pair(s)' = plan.id
        BY <2>2, <4>1 DEF Pair
      <4>4. Unsent(s)' = Document(s)' \ k.base.content
        BY <4>1 DEF Unsent
      <4>5. Unsent(s)' = Unsent(s)
        <5>1. CASE plan.id \in Groups /\ k.base = h
          <6>1. Unsent(s) = {}
            BY <4>1, <5>1 DEF Unsent
          <6> QED BY <4>2, <4>4, <5>1, <6>1
        <5>2. CASE plan.id \in Imports /\ k.base = j.base
          <6>1. Unsent(s) = Document(s) \ j.base.content
            BY <5>2, IdsAssumption DEF Unsent
          <6> QED BY <4>2, <4>4, <5>2, <6>1
        <5> QED BY <2>2, <5>1, <5>2
      <4> QED BY <1>0, <3>2, <4>2, <4>3, <4>5
    <3> QED BY <3>1, <3>2
  <2> QED BY <2>3, Stutters
<1> QED BY <1>2, <1>3

LEMMA AdvanceRefined ==
    ASSUME IInv, NEW c \in Callers, Advance(c) PROVE UNCHANGED Atomic!vars
<1>0. /\ StepOk(c) /\ At(c, "advance") /\ record \in RecordsOf(Used)
      /\ UNCHANGED <<server, journal>>
  BY DEF Advance, IInv, Safe, Typed, TypedOver
<1>1. Pending
  BY <1>0 DEF StepOk, Pending
<1>2. Pending' /\ record'.plan = record.plan
  BY <1>0 DEF Advance, Pending, RecordsOf, Phases
<1>3. \A s \in Sides :
          /\ Document(s)' = Document(s) /\ Unsent(s)' = Unsent(s) /\ Pair(s)' = Pair(s)
          /\ server'[s].content = server[s].content
  BY <1>0, <1>1, <1>2 DEF Document, Unsent, Pair, Awaited
<1> QED BY <1>3, Stutters

LEMMA CompleteRefined ==
    ASSUME IInv, NEW c \in Callers, Complete(c) PROVE UNCHANGED Atomic!vars
<1>0. StepOk(c) /\ RecordOk /\ At(c, "complete") /\ UNCHANGED <<server, journal>>
  BY DEF Complete, IInv, Safe
<1>1. \A s \in Sides : ~Awaited(s)
  BY <1>0 DEF StepOk, RecordOk, Awaited
<1>2. \A s \in Sides : ~Awaited(s)'
  BY DEF Complete, Awaited, Pending
<1>3. \A s \in Sides :
          /\ Document(s)' = Document(s) /\ Unsent(s)' = Unsent(s) /\ Pair(s)' = Pair(s)
          /\ server'[s].content = server[s].content
  BY <1>0, <1>1, <1>2 DEF Document, Unsent, Pair
<1> QED BY <1>3, Stutters

\* While the page can be edited the documents are the journals'.
LEMMA EditableView ==
    ASSUME IInv, Ready, ~locked, record' = record
    PROVE  \A s \in Sides :
              /\ Document(s) = journal[s].content /\ Document(s)' = journal'[s].content
              /\ Unsent(s) = journal[s].content \ journal[s].base.content
              /\ Unsent(s)' = journal'[s].content \ journal'[s].base.content
              /\ Pair(s) = journal[s].boundary /\ Pair(s)' = journal'[s].boundary
<1>1. ~Pending /\ ~Pending'
  BY Editable DEF Pending
<1>2. \A s \in Sides : ~Awaited(s) /\ ~Awaited(s)'
  BY <1>1 DEF Awaited
<1>3. ASSUME NEW s \in Sides
      PROVE  /\ Document(s) = journal[s].content /\ Document(s)' = journal'[s].content
             /\ Pair(s) = journal[s].boundary /\ Pair(s)' = journal'[s].boundary
  BY <1>2 DEF Document, Pair
<1>4. ASSUME NEW s \in Sides
      PROVE  /\ Unsent(s) = Document(s) \ journal[s].base.content
             /\ Unsent(s)' = Document(s)' \ journal'[s].base.content
  BY <1>2 DEF Unsent
<1> QED BY <1>3, <1>4

LEMMA EditRefined ==
    ASSUME IInv, NEW s \in Sides, EditDocument(s) PROVE Atomic!Next
<1>0. Ready /\ ~locked /\ UNCHANGED <<record, server>>
  BY DEF EditDocument
<1> PICK j : j = journal[s]
  OBVIOUS
<1> PICK k : k = journal'[s]
  OBVIOUS
<1>1. PICK e : /\ e \in Marks /\ e \notin j.content \cup j.base.content
               /\ k.content = j.content \cup {e}
               /\ k.base = j.base /\ k.boundary = j.boundary
               /\ \A t \in Sides \ {s} : journal'[t] = journal[t]
  BY EditStep
<1>2. /\ Document(s) = j.content /\ Unsent(s) = j.content \ j.base.content
      /\ Document(s)' = k.content /\ Unsent(s)' = k.content \ k.base.content
  BY <1>0, EditableView
<1>3. /\ Document(s)' = Document(s) \cup {e} /\ Unsent(s)' = Unsent(s) \cup {e}
      /\ e \notin Document(s)
  BY <1>1, <1>2
<1>4. \A t \in Sides :
          /\ Pair(t)' = Pair(t)
          /\ t # s => Document(t)' = Document(t) /\ Unsent(t)' = Unsent(t)
  <2> TAKE t \in Sides
  <2>1. journal'[t].boundary = journal[t].boundary /\ (t # s => journal'[t] = journal[t])
    BY <1>1
  <2>2. Pair(t)' = Pair(t)
    BY <1>0, <2>1, EditableView
  <2>3. CASE t # s
    BY <1>0, <2>1, <2>2, <2>3, EditableView
  <2> QED BY <2>2, <2>3
<1>5. Docs' = [Docs EXCEPT ![s] = Docs[s] \cup {e}]
  BY <1>3, <1>4 DEF Docs
<1>6. Unsents' = [Unsents EXCEPT ![s] = Unsents[s] \cup {e}]
  BY <1>3, <1>4 DEF Unsents
<1>7. Clouds' = Clouds /\ Pairs' = Pairs /\ e \in Marks \ Docs[s]
  BY <1>0, <1>1, <1>3, <1>4 DEF Clouds, Pairs, Docs
<1>8. Atomic!Edit(s)
  BY <1>5, <1>6, <1>7 DEF Atomic!Edit, Docs, Unsents, Clouds, Pairs, Pair
<1> QED BY <1>8 DEF Atomic!Next

LEMMA UploadRefined ==
    ASSUME IInv, NEW s \in Sides, BeginUpload(s) PROVE UNCHANGED Atomic!vars
<1>0. Ready /\ ~locked /\ UNCHANGED <<record, server>>
  BY DEF BeginUpload
<1>1. \A t \in Sides :
          /\ journal'[t].content = journal[t].content /\ journal'[t].base = journal[t].base
          /\ journal'[t].boundary = journal[t].boundary
  BY UploadStep
<1>2. \A t \in Sides :
          /\ Document(t)' = Document(t) /\ Unsent(t)' = Unsent(t) /\ Pair(t)' = Pair(t)
          /\ server'[t].content = server[t].content
  BY <1>0, <1>1, EditableView
<1> QED BY <1>2, Stutters

LEMMA SyncView ==
    ASSUME Typed', NEW s \in Sides, \A t \in Sides : Pair(t)' = Pair(t),
           \A t \in Sides \ {s} :
               /\ Document(t)' = Document(t) /\ Unsent(t)' = Unsent(t)
               /\ server'[t] = server[t],
           Unsent(s)' \subseteq Unsent(s) \cap Document(s)',
           Unsent(s) \ Unsent(s)' \subseteq server'[s].content
    PROVE  Atomic!Next
<1>1. Mapped'
  BY TypedMapped, PTL
<1>2. (Atomic!TypeOK)'
  BY <1>1 DEF Atomic!TypeOK, Mapped, Docs, Unsents, Clouds, Pairs, Pair
<1>3. Pairs' = Pairs
  BY DEF Pairs
<1>4. /\ \A r \in Sides \ {s} :
            Docs'[r] = Docs[r] /\ Unsents'[r] = Unsents[r] /\ Clouds'[r] = Clouds[r]
      /\ Unsents'[s] \subseteq Unsents[s] \cap Docs'[s]
      /\ Unsents[s] \ Unsents'[s] \subseteq Clouds'[s]
  BY DEF Docs, Unsents, Clouds
<1>5. Atomic!Sync(s)
  BY <1>2, <1>3, <1>4 DEF Atomic!Sync, Docs, Unsents, Clouds, Pairs, Pair
<1> QED BY <1>5 DEF Atomic!Next

LEMMA EndRefined ==
    ASSUME IInv, IInv', NEW s \in Sides, EndUpload(s) PROVE Atomic!Next
<1>0. /\ Ready /\ ~locked /\ record' = record /\ Typed' /\ JournalOk(journal[s])
      /\ server \in [Sides -> HeadsOf(Used)]
  BY DEF EndUpload, IInv, Safe, Typed, TypedOver
<1> PICK j : j = journal[s]
  OBVIOUS
<1> PICK k : k = journal'[s]
  OBVIOUS
<1>1. PICK f \in j.flight :
          /\ k.boundary = j.boundary
          /\ \A t \in Sides \ {s} : journal'[t] = journal[t]
          /\ \/ /\ k.content = j.content /\ k.base.content = f.content
                /\ server' = [server EXCEPT ![s] = k.base]
             \/ /\ k.base = server[s] /\ server' = server
                /\ k.content = server[s].content \cup (j.content \ j.base.content)
  BY EndStep
<1>2. /\ Document(s)' = k.content /\ Unsent(s) = j.content \ j.base.content
      /\ Unsent(s)' = k.content \ k.base.content
  BY <1>0, EditableView
<1>3. /\ \A t \in Sides : Pair(t)' = Pair(t)
      /\ \A t \in Sides \ {s} :
            Document(t)' = Document(t) /\ Unsent(t)' = Unsent(t) /\ server'[t] = server[t]
  <2>1. \A t \in Sides : journal'[t].boundary = journal[t].boundary
    BY <1>1
  <2>2. \A t \in Sides \ {s} : server'[t] = server[t]
    BY <1>0, <1>1
  <2>3. ASSUME NEW t \in Sides PROVE Pair(t)' = Pair(t)
    BY <1>0, <2>1, EditableView
  <2>4. ASSUME NEW t \in Sides \ {s}
        PROVE  Document(t)' = Document(t) /\ Unsent(t)' = Unsent(t)
    <3>1. journal'[t] = journal[t]
      BY <1>1
    <3> QED BY <1>0, <3>1, EditableView
  <2> QED BY <2>2, <2>3, <2>4
<1>4. j.content \cap j.base.content \subseteq f.content
  BY <1>0 DEF JournalOk
<1>5. server'[s].content = k.base.content
  BY <1>0, <1>1
<1>6. /\ Unsent(s)' \subseteq Unsent(s) \cap Document(s)'
      /\ Unsent(s) \ Unsent(s)' \subseteq server'[s].content
  BY <1>1, <1>2, <1>4, <1>5
<1> QED BY <1>0, <1>3, <1>6, SyncView

LEMMA AdoptRefined ==
    ASSUME IInv, IInv', NEW s \in Sides, Adopt(s) PROVE Atomic!Next
<1>0. Ready /\ ~locked /\ UNCHANGED <<record, server>> /\ Typed'
  BY DEF Adopt, IInv
<1>1. /\ journal'[s].base = server[s] /\ journal'[s].content = server[s].content
      /\ journal'[s].boundary = journal[s].boundary
      /\ journal[s].content = journal[s].base.content
      /\ \A t \in Sides \ {s} : journal'[t] = journal[t]
  BY AdoptStep
<1>2. Unsent(s) = {} /\ Unsent(s)' = {}
  BY <1>0, <1>1, EditableView
<1>3. /\ \A t \in Sides : Pair(t)' = Pair(t)
      /\ \A t \in Sides \ {s} :
            Document(t)' = Document(t) /\ Unsent(t)' = Unsent(t) /\ server'[t] = server[t]
  <2>1. \A t \in Sides : journal'[t].boundary = journal[t].boundary
    BY <1>1
  <2>2. \A t \in Sides \ {s} : server'[t] = server[t]
    BY <1>0, <1>1
  <2>3. ASSUME NEW t \in Sides PROVE Pair(t)' = Pair(t)
    BY <1>0, <2>1, EditableView
  <2>4. ASSUME NEW t \in Sides \ {s}
        PROVE  Document(t)' = Document(t) /\ Unsent(t)' = Unsent(t)
    <3>1. journal'[t] = journal[t]
      BY <1>1
    <3> QED BY <1>0, <3>1, EditableView
  <2> QED BY <2>2, <2>3, <2>4
<1> QED BY <1>0, <1>2, <1>3, SyncView

LEMMA NextRefined ==
    ASSUME IInv, IInv', [Next]_vars PROVE [Atomic!Next]_(Atomic!vars)
<1>0. Typed'
  BY DEF IInv
<1>1. CASE UNCHANGED vars
  BY <1>1, QuietRefined DEF vars
<1>2. CASE Start
  <2>1. CASE ApplyRestoreGroup
    <3>1. Atomic!Remote
      BY <1>0, <2>1, RemoteRefined DEF ApplyRestoreGroup
    <3> QED BY <3>1 DEF Atomic!Next
  <2>2. CASE UNCHANGED <<server, journal, record>>
    BY <2>2, QuietRefined
  <2>3. ApplyRestoreGroup \/ UNCHANGED <<server, journal, record>>
    BY <1>2 DEF Start, RecoverPrimary, ListGroups, StartOffline, ReadSource, StageServerPending,
                ReadHeads, CompleteServerPending, durables
  <2> QED BY <2>1, <2>2, <2>3
<1>3. CASE \E c \in Callers : Run(c) \/ StepFails(c)
  <2> PICK c \in Callers : Run(c) \/ StepFails(c)
    BY <1>3
  <2>1. CASE \/ Lock(c) \/ ReadRecord(c) \/ Confirm(c) \/ StepFails(c)
             \/ Check(c, "shared", "check-shared", "check-main")
             \/ Check(c, "main", "check-main", "begin")
    <3>1. UNCHANGED <<server, journal, record>>
      BY <2>1 DEF Lock, ReadRecord, Confirm, StepFails, Check, durables
    <3> QED BY <3>1, QuietRefined
  <2>2. CASE Begin(c)
    BY <2>2, BeginRefined
  <2>3. CASE Apply(c) \/ Advance(c) \/ Complete(c)
    BY <2>3, ApplyRefined, AdvanceRefined, CompleteRefined
  <2> QED BY <2>1, <2>2, <2>3 DEF Run
<1>4. CASE \E i \in Imports : BeginImport(i)
  BY <1>4, QuietRefined DEF BeginImport
<1>5. CASE \E s \in Sides : EditDocument(s) \/ EndUpload(s) \/ Adopt(s)
  BY <1>5, EditRefined, EndRefined, AdoptRefined
<1>6. CASE \E s \in Sides : BeginUpload(s)
  BY <1>6, UploadRefined
<1>7. CASE \E s \in Sides : RemoteSave(s)
  <2>1. Atomic!Remote
    BY <1>0, <1>7, RemoteRefined DEF RemoteSave
  <2> QED BY <2>1 DEF Atomic!Next
<1>8. CASE Crash \/ Reload
  BY <1>8, QuietRefined DEF Crash, Reload, durables
<1> QED BY <1>1, <1>2, <1>3, <1>4, <1>5, <1>6, <1>7, <1>8 DEF Next

\* The two phases of a boundary, its repetitions and the crashes between its
\* storage steps (storage-v2-boundary.js, storage-journal-idb.js) together are one
\* replacement of both documents, at the moment the intent becomes durable and at
\* a moment when neither has an edit the cloud lacks; between boundaries an unsent
\* edit leaves a document only for the cloud.
THEOREM BoundaryIsAtomic == Spec /\ []Alone => AtomicSpec
<1>1. Init => IInv /\ Atomic!Init
  BY InitOk, InitRefined
<1>2. IInv /\ Alone /\ [Next]_vars => IInv'
  BY IInvNext
<1>3. IInv /\ IInv' /\ [Next]_vars => [Atomic!Next]_(Atomic!vars)
  BY NextRefined
<1> QED BY <1>1, <1>2, <1>3, PTL DEF Spec, AtomicSpec, Atomic!Spec

\* With one import at a time there is nothing to suppose: the documents are paired
\* whenever they can be edited, a durable import goes through, and the boundary is
\* one replacement (storage-v2-local-import.js on storage-v2-boundary.js).
COROLLARY OneImportIsSafe ==
    (\A i, j \in Imports : i = j) =>
        (Spec => []PairedWhenEditable /\ []IntentApplicable /\ AtomicSpec)
<1> SUFFICES ASSUME \A i, j \in Imports : i = j
             PROVE  Spec => []PairedWhenEditable /\ []IntentApplicable /\ AtomicSpec
  OBVIOUS
<1>1. Alone
  BY DEF Alone
<1> QED BY <1>1, DocumentsStayPaired, ImportStaysApplicable, BoundaryIsAtomic, PTL

=============================================================================
