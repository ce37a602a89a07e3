----------------------- MODULE SpaceAutomationProofs -----------------------
(***************************************************************************)
(* TLAPS proofs about SpaceAutomation, for every set of automations,       *)
(* events and workers, every number of versions, policies and minutes and  *)
(* every batch size.  The inductive invariant IndInv comes first; then     *)
(* what a step may do to a run: a finished run is final, every step is,    *)
(* for each run, a step of the gate of OnceGate or none at all, and a run  *)
(* whose definition or policy was withdrawn before its gate never acts.    *)
(***************************************************************************)
EXTENDS SpaceAutomation, FiniteSetTheorems, WellFoundedInduction, TLAPS

Exists(k) == run[k] # NoRun

(* The definitions and the runs they have started.  A stream has at most   *)
(* one active version; its cursor is ahead of every run of the stream, not *)
(* only of its own, so a run started now is the first for its minute.      *)
OneActive ==
    \A a \in Automations, v, w \in Versions :
       ver[a][v] = "active" /\ ver[a][w] = "active" => v = w

PastRuns ==
    \A k \in Keys : k[1] \in Scheduled /\ Exists(k) => k[3] <= now

StreamAhead ==
    \A a \in Scheduled, v \in Versions :
       ver[a][v] = "active" =>
          \A k \in Keys : k[1] = a /\ Exists(k) => k[3] < cursor[a][v]

OneRun ==
    \A j, k \in Keys : SameOccasion(j, k) /\ Exists(j) /\ Exists(k) => j = k

(* Event runs, started or about to be, are under versions that existed     *)
(* when the event was captured.                                            *)
EventRuns ==
    /\ \A k \in Keys : k[1] \notin Scheduled /\ Exists(k) =>
          run[k].version \in 1..captured[k[3]][k[1]]
    /\ \A p \in picked :
          /\ p.key[1] \notin Scheduled
          /\ p.version \in 1..captured[p.key[3]][p.key[1]]

TriggerInv == OneActive /\ PastRuns /\ StreamAhead /\ OneRun /\ EventRuns

(* One run and what has left for it.                                       *)
RunOK(k) ==
    /\ run[k].status = "none" <=> run[k] = NoRun
    /\ run[k].status # "processing" => run[k].claim = "none"
    /\ run[k].status = "queued" => run[k].outcome = "none" /\ ~run[k].gate
    /\ run[k].outcome \in {"sending", "sent"} => run[k].gate
    /\ run[k].outcome = "unknown" => run[k].status = "failed"
    /\ run[k].outcome = "sent" => run[k].status = "completed"

LeftOK(k) ==
    /\ text[k] <= 1 /\ seen[k] <= text[k]
    /\ ~run[k].gate => text[k] = 0
    /\ run[k].outcome = "sent" => seen[k] = 1
    /\ text[k] > 0 => run[k].outcome \in {"sending", "sent", "unknown"}

(* A busy worker owns its run: it is processing, or was reconciled.        *)
Busy(x) == executor[x].pc \notin {"idle", "claim"}

Owned(k) ==
    \/ run[k].status = "processing"
    \/ run[k].status = "failed" /\ run[k].outcome = "unknown"

ProgressOf(k, pc) ==
    /\ pc \in {"plan", "turn", "roster", "read", "gate"} => ~run[k].gate
    /\ pc \notin {"sent", "ambiguous"} => text[k] = 0
    /\ pc \in {"send", "sent", "ambiguous"} =>
          run[k].gate /\ run[k].outcome \in {"sending", "unknown"}
    /\ pc = "sent" => seen[k] = 1

Owns ==
    \A x \in Executors : Busy(x) =>
       /\ executor[x].key \in Keys
       /\ Owned(executor[x].key)
       /\ ProgressOf(executor[x].key, executor[x].pc)

SoleExecutor ==
    \A x, y \in Executors :
       Busy(x) /\ Busy(y) /\ executor[x].key = executor[y].key => x = y

ExecutionInv ==
    /\ \A k \in Keys : RunOK(k) /\ LeftOK(k)
    /\ Owns
    /\ SoleExecutor

IndInv == TypeOK /\ TriggerInv /\ ExecutionInv

-----------------------------------------------------------------------------
(* Keys, minutes and records.                                              *)

LEMMA Numbers ==
    /\ MaxVersion \in Nat /\ MaxPolicy \in Nat /\ Horizon \in Nat
    /\ Never \in Nat /\ Never = Horizon + 1
    /\ Scheduled \subseteq Automations
    /\ \A S \in Crons : S \in SUBSET Minutes
BY SpaceConstants DEF Never, Minutes

LEMMA KeyKinds ==
    ASSUME NEW k \in Keys
    PROVE  \/ /\ k[1] \in Scheduled /\ k[2] \in Versions /\ k[3] \in Minutes
              /\ k = <<k[1], k[2], k[3]>>
           \/ /\ k[1] \in Automations \ Scheduled /\ k[2] = 0 /\ k[3] \in Events
              /\ k = <<k[1], 0, k[3]>>
<1>1. CASE \E a \in Scheduled, v \in Versions, m \in Minutes : k = <<a, v, m>>
  BY <1>1
<1>2. CASE \E a \in Automations \ Scheduled, e \in Events : k = <<a, 0, e>>
  BY <1>2
<1> QED
  BY <1>1, <1>2 DEF Keys, ScheduleKey, EventKey

LEMMA LeastNat ==
    ASSUME NEW S \in SUBSET Nat, S # {}
    PROVE  \E m \in S : \A n \in S : m <= n
<1>1. IsWellFoundedOn({q \in Nat \X Nat : q[1] < q[2]}, Nat)
  BY NatLessThanWellFounded, Zenon DEF OpToRel
<1>2. PICK m \in S :
         \A n \in S : ~(<<n, m>> \in {q \in Nat \X Nat : q[1] < q[2]})
  BY <1>1, WFMin
<1>3. \A n \in S : ~(n < m)
  BY <1>2
<1> QED
  BY <1>3

(* The next occurrence is later than now, and within the calendar.         *)
LEMMA NextRun ==
    ASSUME NEW S \in SUBSET Minutes, NEW t \in 0..Horizon
    PROVE  NextScheduleRun(S, t) \in 1..Never /\ NextScheduleRun(S, t) > t
<1> DEFINE T == {m \in S \cup {Never} : m > t}
<1>1. S \cup {Never} \subseteq 1..Never
  BY Numbers DEF Minutes
<1>2. Never \in T
  BY Numbers
<1>3. T \in SUBSET Nat
  BY <1>1, Numbers
<1>4. PICK m \in T : \A n \in T : m <= n
  BY <1>2, <1>3, LeastNat
<1>5. /\ m \in S \cup {Never}
      /\ m > t /\ \A n \in S : n > t => m <= n
  BY <1>4
<1>6. /\ NextScheduleRun(S, t) \in S \cup {Never}
      /\ NextScheduleRun(S, t) > t
  BY <1>5 DEF NextScheduleRun
<1> QED
  BY <1>1, <1>6

LEMMA NoRunType == NoRun \in Run /\ NoRun.status = "none"
BY Numbers DEF NoRun, Run, RunStatus, SendOutcome

LEMMA QueuedRunType ==
    ASSUME NEW v \in 0..MaxVersion, NEW q \in 0..MaxPolicy
    PROVE  QueuedRun(v, q) \in Run
BY DEF QueuedRun, Run, RunStatus, SendOutcome

(* The updates of a run that its execution makes.                          *)
LEMMA RunUpdates ==
    ASSUME NEW r \in Run, NEW o \in SendOutcome
    PROVE  /\ [r EXCEPT !.status = "failed", !.claim = "none", !.outcome = o] \in Run
           /\ [r EXCEPT !.status = "completed", !.claim = "none", !.outcome = o] \in Run
           /\ [r EXCEPT !.status = "processing", !.claim = "live",
                        !.outcome = "pending"] \in Run
           /\ [r EXCEPT !.outcome = o] \in Run
           /\ [r EXCEPT !.outcome = "sending", !.gate = TRUE] \in Run
           /\ [r EXCEPT !.claim = "expired"] \in Run
BY DEF Run, RunStatus, SendOutcome

(* What those updates leave in the fields the invariant is about.          *)
LEMMA RunFields ==
    ASSUME NEW r \in Run, NEW f, NEW o,
           f \in {[r EXCEPT !.status = "failed", !.claim = "none", !.outcome = o],
                  [r EXCEPT !.status = "completed", !.claim = "none", !.outcome = o],
                  [r EXCEPT !.status = "processing", !.claim = "live",
                            !.outcome = "pending"],
                  [r EXCEPT !.outcome = o],
                  [r EXCEPT !.outcome = "sending", !.gate = TRUE],
                  [r EXCEPT !.claim = "expired"]}
    PROVE  /\ f.version = r.version
           /\ f.gate = r.gate \/ (f.gate = TRUE /\ f.outcome = "sending")
BY DEF Run

-----------------------------------------------------------------------------
(* Type correctness.                                                       *)

LEMMA InitType == Init => TypeOK
<1> SUFFICES ASSUME Init
             PROVE  TypeOK
  OBVIOUS
<1>1. executor \in [Executors -> [pc : ExecutorPc, key : Keys \cup {NoKey}]]
  BY DEF Init, Idle, ExecutorPc
<1>2. run \in [Keys -> Run]
  BY NoRunType DEF Init
<1>3. cursor \in [Automations -> [Versions -> 1..Never]]
  BY Numbers DEF Init
<1>4. /\ captured \in [Events -> [Automations -> 0..MaxVersion]]
      /\ now \in 0..Horizon /\ policy \in 0..MaxPolicy /\ policies \in 0..MaxPolicy
  BY Numbers DEF Init
<1> QED
  BY <1>1, <1>2, <1>3, <1>4 DEF Init, TypeOK

LEMMA DefineType ==
    ASSUME TypeOK, Define
    PROVE  TypeOK'
<1>1. ASSUME NEW a \in Automations, NEW status \in PublishedStatus,
             NEW S \in Crons, ApplyAutomation(a, status, S)
      PROVE  TypeOK'
  <2>1. PICK v \in Versions :
           /\ ver' = [ver EXCEPT ![a] = [w \in Versions |->
                         CASE w = v -> status
                           [] w # v /\ ver[a][w] \in RetiredBy(status) -> "retired"
                           [] OTHER -> ver[a][w]]]
           /\ cron' = [cron EXCEPT ![a][v] = S]
           /\ cursor' = [cursor EXCEPT ![a] = [w \in Versions |->
                            CASE w = v -> IF status = "active" /\ a \in Scheduled
                                          THEN NextScheduleRun(S, now)
                                          ELSE Never
                              [] w # v /\ ver[a][w] \in RetiredBy(status) -> Never
                              [] OTHER -> cursor[a][w]]]
    BY <1>1 DEF ApplyAutomation
  <2>2. NextScheduleRun(S, now) \in 1..Never /\ Never \in 1..Never
    BY NextRun, Numbers DEF TypeOK
  <2>3. cursor' \in [Automations -> [Versions -> 1..Never]]
    BY <2>1, <2>2 DEF TypeOK
  <2>4. ver' \in [Automations -> [Versions -> {"none"} \cup PublishedStatus]]
    BY <2>1 DEF TypeOK, PublishedStatus
  <2>5. cron' \in [Automations -> [Versions -> SUBSET Minutes]]
    BY <2>1, Numbers DEF TypeOK
  <2> QED
    BY <1>1, <2>3, <2>4, <2>5
       DEF ApplyAutomation, TypeOK, triggers, outside
<1>2. ASSUME NEW status \in PublishedStatus, ApplyPolicy(status)
      PROVE  TypeOK'
  <2>1. policies + 1 \in 0..MaxPolicy
    BY <1>2, Numbers DEF ApplyPolicy, TypeOK
  <2>2. policy' \in 0..MaxPolicy /\ policies' \in 0..MaxPolicy
    BY <1>2, <2>1, Numbers DEF ApplyPolicy, TypeOK
  <2> QED
    BY <1>2, <2>2 DEF ApplyPolicy, TypeOK, triggers, outside
<1>3. CASE Switch
  <2>1. enabled' \in BOOLEAN
    BY <1>3 DEF Switch
  <2> QED
    BY <1>3, <2>1 DEF Switch, TypeOK, triggers, outside
<1> QED
  BY <1>1, <1>2, <1>3 DEF Define

LEMMA DispatchType ==
    ASSUME TypeOK, NEW S, DispatchOnce(S)
    PROVE  TypeOK'
<1>1. PICK B \in SUBSET (Scheduled \X Versions) :
         /\ run' = [k \in Keys |->
                       IF run[k] = NoRun /\ \E d \in B : DueKey(d) = k
                       THEN QueuedRun(k[2], policy)
                       ELSE run[k]]
         /\ cursor' = [a \in Automations |-> [v \in Versions |->
                          IF <<a, v>> \in B THEN CursorAfter(<<a, v>>)
                          ELSE cursor[a][v]]]
  BY DEF DispatchOnce
<1>2. \A k \in Keys : QueuedRun(k[2], policy) \in Run
  <2>1. \A k \in Keys : k[2] \in 0..MaxVersion
    BY KeyKinds, Numbers DEF Versions
  <2> QED
    BY <2>1, QueuedRunType DEF TypeOK
<1>3. \A a \in Automations, v \in Versions : CursorAfter(<<a, v>>) \in 1..Never
  BY NextRun DEF CursorAfter, TypeOK
<1>4. run' \in [Keys -> Run]
  BY <1>1, <1>2 DEF TypeOK
<1>5. cursor' \in [Automations -> [Versions -> 1..Never]]
  BY <1>1, <1>3 DEF TypeOK
<1> QED
  BY <1>4, <1>5 DEF DispatchOnce, TypeOK, triggers, outside

LEMMA EventType ==
    ASSUME TypeOK, NEW e \in Events,
           \/ CaptureEvent(e)
           \/ \E a \in Automations \ Scheduled, v \in Versions :
                 SelectEventAutomation(a, v, e)
    PROVE  TypeOK'
<1>1. CASE CaptureEvent(e)
  <2>1. \A a \in Automations :
           Cardinality({v \in Versions : ver[a][v] # "none"}) \in 0..MaxVersion
    <3>1. IsFiniteSet(Versions) /\ Cardinality(Versions) = MaxVersion
      BY FS_Interval, Numbers DEF Versions
    <3>2. \A T \in SUBSET Versions : Cardinality(T) \in 0..MaxVersion
      BY <3>1, FS_Subset, FS_CardinalityType, Numbers
    <3> QED
      BY <3>2
  <2>2. captured' \in [Events -> [Automations -> 0..MaxVersion]]
    BY <1>1, <2>1 DEF CaptureEvent, TypeOK
  <2> QED
    BY <1>1, <2>2 DEF CaptureEvent, TypeOK, definitions, outside
<1>2. ASSUME NEW a \in Automations \ Scheduled, NEW v \in Versions,
             SelectEventAutomation(a, v, e)
      PROVE  TypeOK'
  <2>1. policy \in 1..MaxPolicy
    BY <1>2 DEF SelectEventAutomation, EventStarts, Startable, TypeOK
  <2>2. EventKey(a, e) \in Keys
    BY DEF Keys
  <2>3. [key |-> EventKey(a, e), version |-> v, policy |-> policy] \in Picked
    BY <2>1, <2>2 DEF Picked
  <2> QED
    BY <1>2, <2>3 DEF SelectEventAutomation, TypeOK, definitions, outside
<1> QED
  BY <1>1, <1>2

LEMMA PickedType ==
    ASSUME TypeOK, NEW p \in picked, InsertEventRun(p) \/ ConsumerExit(p)
    PROVE  TypeOK'
<1>1. p.key \in Keys /\ p.version \in 0..MaxVersion /\ p.policy \in 0..MaxPolicy
  BY Numbers DEF TypeOK, Picked, Versions
<1>2. picked' \subseteq Picked
  BY DEF InsertEventRun, ConsumerExit, TypeOK
<1>3. run' \in [Keys -> Run]
  BY <1>1, QueuedRunType DEF InsertEventRun, ConsumerExit, TypeOK
<1> QED
  BY <1>2, <1>3 DEF InsertEventRun, ConsumerExit, TypeOK, definitions, outside

LEMMA ExecutorRecords ==
    /\ Idle \in [pc : ExecutorPc, key : Keys \cup {NoKey}]
    /\ \A r \in [pc : ExecutorPc, key : Keys \cup {NoKey}], c \in ExecutorPc :
          [r EXCEPT !.pc = c] \in [pc : ExecutorPc, key : Keys \cup {NoKey}]
BY DEF Idle, ExecutorPc

LEMMA MoveType ==
    ASSUME TypeOK, NEW x \in Executors, NEW c \in ExecutorPc, Move(x, c)
    PROVE  executor' \in [Executors -> [pc : ExecutorPc, key : Keys \cup {NoKey}]]
BY ExecutorRecords DEF Move, TypeOK

LEMMA ReconcileType ==
    ASSUME TypeOK, NEW x \in Executors, NEW S, ReconcileStaleAttempts(x, S)
    PROVE  TypeOK'
<1>1. \A k \in Keys : Reconciled(k) \in Run
  BY RunUpdates DEF Reconciled, Failed, TypeOK, SendOutcome
<1>2. run' \in [Keys -> Run]
  BY <1>1 DEF ReconcileStaleAttempts, TypeOK
<1>3. executor' \in [Executors -> [pc : ExecutorPc, key : Keys \cup {NoKey}]]
  BY MoveType DEF ReconcileStaleAttempts, ExecutorPc
<1> QED
  BY Zenon, <1>2, <1>3
     DEF ReconcileStaleAttempts, TypeOK, definitions, triggers, outside

LEMMA ClaimType ==
    ASSUME TypeOK, NEW x \in Executors, ClaimOne(x)
    PROVE  TypeOK'
<1>1. \A k \in Keys :
         /\ Claimed(k) \in Run
         /\ [pc |-> "plan", key |-> k] \in [pc : ExecutorPc, key : Keys \cup {NoKey}]
  BY RunUpdates DEF Claimed, TypeOK, SendOutcome, ExecutorPc
<1>2. run' \in [Keys -> Run]
  BY <1>1 DEF ClaimOne, TypeOK
<1>3. executor' \in [Executors -> [pc : ExecutorPc, key : Keys \cup {NoKey}]]
  <2>1. \E q \in [pc : ExecutorPc, key : Keys \cup {NoKey}] :
           executor' = [executor EXCEPT ![x] = q]
    BY <1>1, ExecutorRecords DEF ClaimOne
  <2> QED
    BY <2>1 DEF TypeOK
<1> QED
  BY Zenon, <1>2, <1>3 DEF ClaimOne, TypeOK, definitions, triggers, outside

LEMMA StepType ==
    ASSUME TypeOK, Owns, NEW x \in Executors,
           \/ BuildPlan(x) \/ ExecuteAgentTurn(x) \/ CommitRosterAccessGate(x)
           \/ ReadRoster(x) \/ CommitSendGate(x) \/ SendText(x) \/ Finish(x)
           \/ ExecutorExit(x)
    PROVE  TypeOK'
<1>1. PICK k : k = executor[x].key
  OBVIOUS
<1>2. Busy(x) => k \in Keys
  BY <1>1 DEF Owns
<1>3. CASE BuildPlan(x) \/ ReadRoster(x)
  <2>1. \E c \in ExecutorPc : Move(x, c)
    BY <1>3 DEF BuildPlan, ReadRoster, ExecutorPc
  <2> QED
    BY <1>3, <2>1, MoveType
       DEF BuildPlan, ReadRoster, TypeOK, definitions, triggers, outside
<1>4. CASE ExecuteAgentTurn(x)
  <2>1. k \in Keys
    BY Zenon, <1>2, <1>4 DEF ExecuteAgentTurn, Busy
  <2>2. Completed(k, "none") \in Run
    BY <2>1, RunUpdates DEF Completed, TypeOK, SendOutcome
  <2>3. run' \in [Keys -> Run] /\ turns' \subseteq Keys
    BY <1>1, <1>4, <2>1, <2>2 DEF ExecuteAgentTurn, TypeOK
  <2> QED
    BY <1>4, <2>3, ExecutorRecords
       DEF ExecuteAgentTurn, TypeOK, definitions, triggers
<1>5. CASE CommitRosterAccessGate(x) \/ CommitSendGate(x)
  <2>1. k \in Keys
    BY <1>2, <1>5 DEF CommitRosterAccessGate, CommitSendGate, Busy
  <2>2. \E c \in ExecutorPc : Move(x, c)
    BY <1>5 DEF CommitRosterAccessGate, CommitSendGate, ExecutorPc
  <2>3. \/ run' = run
        \/ run' = [run EXCEPT ![k] = [run[k] EXCEPT !.outcome = "not_sent"]]
        \/ run' = [run EXCEPT ![k] = [run[k] EXCEPT !.outcome = "sending",
                                                   !.gate = TRUE]]
    BY <1>1, <1>5 DEF CommitRosterAccessGate, CommitSendGate
  <2>4. /\ [run[k] EXCEPT !.outcome = "not_sent"] \in Run
        /\ [run[k] EXCEPT !.outcome = "sending", !.gate = TRUE] \in Run
    BY <2>1, RunUpdates DEF TypeOK, SendOutcome
  <2>5. run' \in [Keys -> Run]
    BY <2>1, <2>3, <2>4 DEF TypeOK
  <2> QED
    BY <1>5, <2>2, <2>5, MoveType
       DEF CommitRosterAccessGate, CommitSendGate, TypeOK, definitions,
           triggers, outside
<1>6. CASE SendText(x)
  <2>1. k \in Keys
    BY <1>2, <1>6 DEF SendText, Busy
  <2>2. PICK c \in {"sent", "failed", "ambiguous"}, l \in 0..1, d \in 0..1 :
           /\ Move(x, c)
           /\ text' = [text EXCEPT ![executor[x].key] = @ + l]
           /\ seen' = [seen EXCEPT ![executor[x].key] = @ + d]
    BY <1>6, Zenon DEF SendText
  <2>3. text' \in [Keys -> Nat] /\ seen' \in [Keys -> Nat]
    BY <1>1, <2>1, <2>2 DEF TypeOK
  <2>4. executor' \in [Executors -> [pc : ExecutorPc, key : Keys \cup {NoKey}]]
    BY <2>2, MoveType DEF ExecutorPc
  <2> QED
    BY <1>6, <2>3, <2>4 DEF SendText, TypeOK, definitions, triggers
<1>7. CASE Finish(x)
  <2>1. k \in Keys
    BY Zenon, <1>2, <1>7 DEF Finish, Busy
  <2>2. Terminal(k, executor[x].pc) \in Run
    BY <1>7, <2>1, RunUpdates
       DEF Finish, Terminal, Completed, Failed, TypeOK, SendOutcome
  <2>3. run' \in [Keys -> Run]
    BY <1>1, <1>7, <2>1, <2>2 DEF Finish, TypeOK
  <2> QED
    BY <1>7, <2>3, ExecutorRecords
       DEF Finish, TypeOK, definitions, triggers, outside
<1>8. CASE ExecutorExit(x)
  BY <1>8, ExecutorRecords
     DEF ExecutorExit, TypeOK, definitions, triggers, outside
<1> QED
  BY <1>3, <1>4, <1>5, <1>6, <1>7, <1>8

LEMMA TimeType ==
    ASSUME TypeOK, Tick \/ \E k \in Keys : ClaimExpires(k)
    PROVE  TypeOK'
<1>1. CASE Tick
  <2>1. now' \in 0..Horizon
    BY <1>1, Numbers DEF Tick, TypeOK
  <2> QED
    BY <1>1, <2>1 DEF Tick, TypeOK, definitions, outside
<1>2. ASSUME NEW k \in Keys, ClaimExpires(k)
      PROVE  TypeOK'
  <2>1. run' = [run EXCEPT ![k] = [run[k] EXCEPT !.claim = "expired"]]
    BY Zenon, <1>2 DEF ClaimExpires
  <2>2. run' \in [Keys -> Run]
    BY <2>1, RunUpdates DEF TypeOK, SendOutcome
  <2> QED
    BY <1>2, <2>2 DEF ClaimExpires, TypeOK, definitions, triggers, outside
<1> QED
  BY <1>1, <1>2

-----------------------------------------------------------------------------
(* The definitions and the runs they start.                                *)

(* A step that starts no run and touches no definition.                    *)
RunStep(k) ==
    \/ run'[k] = run[k]
    \/ /\ run[k].status # "none" /\ run'[k].status # "none"
       /\ run'[k].version = run[k].version
       /\ run'[k].policy = run[k].policy

LEMMA TriggersKept ==
    ASSUME TypeOK, TriggerInv, ExecutionInv,
           UNCHANGED <<ver, cursor, now, captured, picked>>,
           \A k \in Keys : RunStep(k)
    PROVE  TriggerInv'
<1>1. NoRun.status = "none"
  BY NoRunType
<1>2. \A k \in Keys : Exists(k)' <=> Exists(k)
  BY <1>1 DEF RunStep, Exists, ExecutionInv, RunOK
<1>3. \A k \in Keys : run'[k].version = run[k].version
  BY DEF RunStep
<1>4. OneActive'
  BY DEF TriggerInv, OneActive
<1>5. PastRuns'
  BY <1>2 DEF TriggerInv, PastRuns
<1>6. StreamAhead'
  BY <1>2 DEF TriggerInv, StreamAhead
<1>7. OneRun'
  BY <1>2 DEF TriggerInv, OneRun
<1>8. EventRuns'
  BY <1>2, <1>3 DEF TriggerInv, EventRuns
<1> QED
  BY <1>4, <1>5, <1>6, <1>7, <1>8 DEF TriggerInv

LEMMA DefineTriggers ==
    ASSUME TypeOK, TriggerInv, Define
    PROVE  TriggerInv'
<1>1. ASSUME NEW a \in Automations, NEW status \in PublishedStatus,
             NEW S \in Crons, ApplyAutomation(a, status, S)
      PROVE  TriggerInv'
  <2>1. PICK v \in Versions :
           /\ ver' = [ver EXCEPT ![a] = [w \in Versions |->
                         CASE w = v -> status
                           [] w # v /\ ver[a][w] \in RetiredBy(status) -> "retired"
                           [] OTHER -> ver[a][w]]]
           /\ cursor' = [cursor EXCEPT ![a] = [w \in Versions |->
                            CASE w = v -> IF status = "active" /\ a \in Scheduled
                                          THEN NextScheduleRun(S, now)
                                          ELSE Never
                              [] w # v /\ ver[a][w] \in RetiredBy(status) -> Never
                              [] OTHER -> cursor[a][w]]]
    BY <1>1 DEF ApplyAutomation
  <2>2. UNCHANGED <<run, now, captured, picked>>
    BY <1>1 DEF ApplyAutomation, triggers
  <2>3. \A b \in Automations : b # a => ver'[b] = ver[b] /\ cursor'[b] = cursor[b]
    BY <2>1 DEF TypeOK
  <2>4. ver'[a][v] = status
    BY <2>1 DEF TypeOK
  <2>5. \A w \in Versions : w # v =>
           \/ ver'[a][w] = "retired"
           \/ /\ ver'[a][w] = ver[a][w] /\ cursor'[a][w] = cursor[a][w]
              /\ ver[a][w] \notin RetiredBy(status)
    BY <2>1 DEF TypeOK
  <2>6. status = "active" => \A w \in Versions : w # v => ver'[a][w] # "active"
    BY <2>5 DEF RetiredBy, SupersedesActive
  <2>7. OneActive'
    <3>1. \A w \in Versions : w # v /\ ver'[a][w] = "active" => ver[a][w] = "active"
      BY <2>5
    <3>2. \A u, w \in Versions :
             ver'[a][u] = "active" /\ ver'[a][w] = "active" => u = w
      BY <2>4, <2>6, <3>1 DEF TriggerInv, OneActive
    <3> QED
      BY <2>3, <3>2 DEF TriggerInv, OneActive
  <2>8. StreamAhead'
    <3> SUFFICES ASSUME NEW b \in Scheduled, NEW w \in Versions,
                        ver'[b][w] = "active",
                        NEW k \in Keys, k[1] = b, Exists(k)
                 PROVE  k[3] < cursor'[b][w]
      BY <2>2 DEF StreamAhead, Exists
    <3>1. CASE b # a \/ w # v
      <4>1. ver[b][w] = "active" /\ cursor'[b][w] = cursor[b][w]
        BY <2>3, <2>5, <3>1, Numbers
      <4> QED
        BY <4>1 DEF TriggerInv, StreamAhead
    <3>2. CASE b = a /\ w = v
      <4>1. cursor'[a][v] = NextScheduleRun(S, now)
        BY <2>1, <2>4, <3>2 DEF TypeOK
      <4>2. NextScheduleRun(S, now) > now /\ NextScheduleRun(S, now) \in Nat
        BY NextRun, Numbers DEF TypeOK
      <4>3. k[3] \in Nat /\ k[3] <= now /\ now \in Nat
        BY KeyKinds DEF TriggerInv, PastRuns, TypeOK, Minutes
      <4> QED
        BY <3>2, <4>1, <4>2, <4>3
    <3> QED
      BY <3>1, <3>2
  <2> QED
    BY <2>2, <2>7, <2>8
       DEF TriggerInv, PastRuns, OneRun, EventRuns, Exists
<1>2. CASE Switch \/ \E status \in PublishedStatus : ApplyPolicy(status)
  BY <1>2
     DEF Switch, ApplyPolicy, triggers, TriggerInv, OneActive, PastRuns,
         StreamAhead, OneRun, EventRuns, Exists
<1> QED
  BY <1>1, <1>2 DEF Define

LEMMA DispatchTriggers ==
    ASSUME TypeOK, TriggerInv, NEW S, DispatchOnce(S)
    PROVE  TriggerInv'
<1>1. PICK B \in SUBSET (Scheduled \X Versions) :
         /\ Batch(B, S)
         /\ run' = [k \in Keys |->
                       IF run[k] = NoRun /\ \E d \in B : DueKey(d) = k
                       THEN QueuedRun(k[2], policy)
                       ELSE run[k]]
         /\ cursor' = [a \in Automations |-> [v \in Versions |->
                          IF <<a, v>> \in B THEN CursorAfter(<<a, v>>)
                          ELSE cursor[a][v]]]
  BY DEF DispatchOnce
<1>2. UNCHANGED <<ver, now, captured, picked>>
  BY DEF DispatchOnce, triggers
<1>3. \A d \in B : /\ d[1] \in Scheduled /\ d[2] \in Versions
                   /\ d = <<d[1], d[2]>>
                   /\ ver[d[1]][d[2]] = "active"
                   /\ cursor[d[1]][d[2]] <= now
  BY <1>1 DEF Batch, Due, Startable
(* A run that exists now existed before, or was due.                       *)
<1>4. \A k \in Keys : Exists(k)' =>
         \/ Exists(k) /\ run'[k] = run[k]
         \/ ~Exists(k) /\ \E d \in B : k = <<d[1], d[2], cursor[d[1]][d[2]]>>
  BY <1>1 DEF Exists, DueKey, ScheduleKey
<1>5. OneActive'
  BY <1>2 DEF TriggerInv, OneActive
<1>6. PastRuns'
  <2> SUFFICES ASSUME NEW k \in Keys, k[1] \in Scheduled, Exists(k)'
               PROVE  k[3] <= now
    BY <1>2 DEF PastRuns
  <2>1. CASE Exists(k)
    BY <2>1 DEF TriggerInv, PastRuns
  <2>2. CASE \E d \in B : k = <<d[1], d[2], cursor[d[1]][d[2]]>>
    BY <1>3, <2>2
  <2> QED
    BY <1>4, <2>1, <2>2
<1>7. StreamAhead'
  <2> SUFFICES ASSUME NEW a \in Scheduled, NEW v \in Versions,
                      ver[a][v] = "active",
                      NEW k \in Keys, k[1] = a, Exists(k)'
               PROVE  k[3] < cursor'[a][v]
    BY <1>2 DEF StreamAhead
  <2>1. a \in Automations
    BY Numbers
  <2>2. CASE <<a, v>> \in B
    <3>1. cursor'[a][v] = NextScheduleRun(cron[a][v], now)
      BY <1>1, <2>1, <2>2 DEF CursorAfter
    <3>2. NextScheduleRun(cron[a][v], now) > now
          /\ NextScheduleRun(cron[a][v], now) \in Nat
      BY <2>1, NextRun, Numbers DEF TypeOK
    <3>3. k[3] \in Nat /\ k[3] <= now /\ now \in Nat
      BY <1>2, <1>6, KeyKinds DEF PastRuns, TypeOK, Minutes
    <3> QED
      BY <3>1, <3>2, <3>3
  <2>3. CASE <<a, v>> \notin B
    <3>1. cursor'[a][v] = cursor[a][v]
      BY <1>1, <2>1, <2>3
    <3>2. Exists(k)
      <4> SUFFICES ASSUME NEW d \in B, k = <<d[1], d[2], cursor[d[1]][d[2]]>>
                   PROVE  FALSE
        BY <1>4
      <4>1. d[1] = a /\ d[2] = v
        BY <1>3, <2>1 DEF TriggerInv, OneActive
      <4> QED
        BY <1>3, <2>3, <4>1
    <3> QED
      BY <3>1, <3>2 DEF TriggerInv, StreamAhead
  <2> QED
    BY <2>2, <2>3
<1>8. OneRun'
  <2> SUFFICES ASSUME NEW j \in Keys, NEW k \in Keys, SameOccasion(j, k),
                      Exists(j)', Exists(k)'
               PROVE  j = k
    BY DEF OneRun
  (* An old run is behind the cursor a new one takes its minute from.      *)
  <2>1. ASSUME NEW i \in Keys, NEW d \in B, Exists(i), i[1] = d[1]
        PROVE  i[3] # cursor[d[1]][d[2]]
    <3>1. i[3] < cursor[d[1]][d[2]]
      BY <1>3, <2>1 DEF TriggerInv, StreamAhead
    <3>2. i[3] \in Nat
      BY <1>3, <2>1, KeyKinds DEF Minutes
    <3> QED
      BY <3>1, <3>2
  <2>2. CASE Exists(j) /\ Exists(k)
    BY <2>2 DEF TriggerInv, OneRun
  <2>3. CASE Exists(j) /\ ~Exists(k)
    <3>1. PICK d \in B : k = <<d[1], d[2], cursor[d[1]][d[2]]>>
      BY <1>4, <2>3
    <3> QED
      BY <2>1, <2>3, <3>1 DEF SameOccasion
  <2>4. CASE ~Exists(j) /\ Exists(k)
    <3>1. PICK d \in B : j = <<d[1], d[2], cursor[d[1]][d[2]]>>
      BY <1>4, <2>4
    <3> QED
      BY <2>1, <2>4, <3>1 DEF SameOccasion
  <2>5. CASE ~Exists(j) /\ ~Exists(k)
    <3>1. PICK c \in B : j = <<c[1], c[2], cursor[c[1]][c[2]]>>
      BY <1>4, <2>5
    <3>2. PICK d \in B : k = <<d[1], d[2], cursor[d[1]][d[2]]>>
      BY <1>4, <2>5
    <3>3. c[1] = d[1]
      BY <3>1, <3>2 DEF SameOccasion
    <3>4. c[2] = d[2]
      BY <1>3, <3>3, Numbers DEF TriggerInv, OneActive
    <3> QED
      BY <3>1, <3>2, <3>3, <3>4
  <2> QED
    BY <2>2, <2>3, <2>4, <2>5
<1>9. EventRuns'
  <2>1. \A k \in Keys : k[1] \notin Scheduled /\ Exists(k)' =>
           Exists(k) /\ run'[k] = run[k]
    BY <1>3, <1>4
  <2> QED
    BY <1>2, <2>1 DEF TriggerInv, EventRuns
<1> QED
  BY <1>5, <1>6, <1>7, <1>8, <1>9 DEF TriggerInv

LEMMA EventTriggers ==
    ASSUME TypeOK, TriggerInv, NEW e \in Events,
           \/ CaptureEvent(e)
           \/ \E a \in Automations \ Scheduled, v \in Versions :
                 SelectEventAutomation(a, v, e)
    PROVE  TriggerInv'
<1>1. CASE CaptureEvent(e)
  <2>1. /\ \A a \in Automations : captured[e][a] = 0
        /\ \A f \in Events : f # e => captured'[f] = captured[f]
        /\ UNCHANGED <<now, picked, ver, cursor, run>>
    BY <1>1 DEF CaptureEvent, TypeOK, definitions
  (* Nothing has started for an event that was not captured.               *)
  <2>2. \A k \in Keys : k[1] \notin Scheduled /\ Exists(k) => k[3] \in Events /\ k[3] # e
    BY <2>1, KeyKinds DEF TriggerInv, EventRuns
  <2>3. \A p \in picked : p.key[3] \in Events /\ p.key[3] # e
    <3> SUFFICES ASSUME NEW p \in picked
                 PROVE  p.key[3] \in Events /\ p.key[3] # e
      OBVIOUS
    <3>1. p.key \in Keys
      BY DEF TypeOK, Picked
    <3> QED
      BY <2>1, <3>1, KeyKinds DEF TriggerInv, EventRuns
  <2>4. EventRuns'
    BY <2>1, <2>2, <2>3 DEF TriggerInv, EventRuns, Exists
  <2> QED
    BY <2>1, <2>4
       DEF TriggerInv, OneActive, PastRuns, StreamAhead, OneRun, Exists
<1>2. ASSUME NEW a \in Automations \ Scheduled, NEW v \in Versions,
             SelectEventAutomation(a, v, e)
      PROVE  TriggerInv'
  <2>1. PICK q : /\ q = [key |-> EventKey(a, e), version |-> v, policy |-> policy]
                 /\ picked' = picked \cup {q}
    BY <1>2 DEF SelectEventAutomation
  <2>2. v \in 1..captured[e][a]
    BY <1>2, Numbers
       DEF SelectEventAutomation, EventStarts, Versions, TypeOK
  <2>3. q.version = v /\ q.key[1] = a /\ q.key[3] = e
    BY <2>1 DEF EventKey
  <2>4. UNCHANGED <<now, captured, ver, cursor, run>>
    BY <1>2 DEF SelectEventAutomation, definitions
  <2>5. EventRuns'
    BY <2>1, <2>2, <2>3, <2>4 DEF TriggerInv, EventRuns, Exists
  <2> QED
    BY <2>4, <2>5
       DEF TriggerInv, OneActive, PastRuns, StreamAhead, OneRun, Exists
<1> QED
  BY <1>1, <1>2

LEMMA PickedTriggers ==
    ASSUME TypeOK, TriggerInv, NEW p \in picked,
           InsertEventRun(p) \/ ConsumerExit(p)
    PROVE  TriggerInv'
<1>1. /\ UNCHANGED <<now, captured, ver, cursor>>
      /\ picked' = picked \ {p}
  BY DEF InsertEventRun, ConsumerExit, definitions
<1>2. /\ p.key \in Keys /\ p.key[1] \notin Scheduled
      /\ p.version \in 1..captured[p.key[3]][p.key[1]]
  BY DEF TypeOK, Picked, TriggerInv, EventRuns
<1>3. \/ run' = run
      \/ run' = [run EXCEPT ![p.key] = QueuedRun(p.version, p.policy)]
  BY DEF InsertEventRun, ConsumerExit
<1>4. \A k \in Keys :
         \/ run'[k] = run[k]
         \/ k = p.key /\ run'[k] = QueuedRun(p.version, p.policy)
  BY <1>2, <1>3 DEF TypeOK
<1>5. \A k \in Keys : Exists(k)' => Exists(k) \/ k = p.key
  BY <1>4 DEF Exists
<1>6. OneRun'
  <2> SUFFICES ASSUME NEW j \in Keys, NEW k \in Keys, SameOccasion(j, k),
                      Exists(j)', Exists(k)'
               PROVE  j = k
    BY DEF OneRun
  <2>1. CASE j = p.key \/ k = p.key
    BY <1>2, <2>1, KeyKinds DEF SameOccasion
  <2>2. CASE j # p.key /\ k # p.key
    BY <1>5, <2>2 DEF TriggerInv, OneRun
  <2> QED
    BY <2>1, <2>2
<1>7. EventRuns'
  <2>1. QueuedRun(p.version, p.policy).version = p.version
    BY DEF QueuedRun
  <2>2. \A k \in Keys : k[1] \notin Scheduled /\ Exists(k)' =>
           run'[k].version \in 1..captured[k[3]][k[1]]
    BY <1>2, <1>4, <2>1 DEF TriggerInv, EventRuns, Exists
  <2> QED
    BY <1>1, <2>2 DEF TriggerInv, EventRuns
<1>8. PastRuns' /\ StreamAhead' /\ OneActive'
  BY <1>1, <1>2, <1>5 DEF TriggerInv, PastRuns, StreamAhead, OneActive
<1> QED
  BY <1>6, <1>7, <1>8 DEF TriggerInv

LEMMA TickTriggers ==
    ASSUME TypeOK, TriggerInv, Tick
    PROVE  TriggerInv'
<1>1. UNCHANGED <<ver, cursor, captured, picked, run>> /\ now' = now + 1
  BY DEF Tick, definitions
<1>2. PastRuns'
  <2> SUFFICES ASSUME NEW k \in Keys, k[1] \in Scheduled, Exists(k)
               PROVE  k[3] <= now + 1
    BY <1>1 DEF PastRuns, Exists
  <2>1. k[3] \in Nat /\ now \in Nat /\ k[3] <= now
    BY KeyKinds DEF Minutes, TypeOK, TriggerInv, PastRuns
  <2> QED
    BY <2>1
<1> QED
  BY <1>1, <1>2 DEF TriggerInv, OneActive, StreamAhead, OneRun, EventRuns, Exists

-----------------------------------------------------------------------------
(* The execution of runs.                                                  *)

(* Steps of definitions and triggers: at most they queue new runs.         *)
LEMMA ExecutionKept ==
    ASSUME TypeOK, ExecutionInv, UNCHANGED <<executor, text, seen>>,
           \A k \in Keys : \/ run'[k] = run[k]
                           \/ /\ run[k] = NoRun
                              /\ \E v, q : run'[k] = QueuedRun(v, q)
    PROVE  ExecutionInv'
<1>1. ASSUME NEW k \in Keys, run[k] = NoRun, NEW v, NEW q,
             run'[k] = QueuedRun(v, q)
      PROVE  RunOK(k)' /\ LeftOK(k)'
  <2>1. text[k] = 0 /\ seen[k] = 0
    BY <1>1 DEF ExecutionInv, LeftOK, NoRun, TypeOK
  <2>2. /\ run'[k].status = "queued" /\ run'[k].claim = "none"
        /\ run'[k].outcome = "none"
    BY <1>1 DEF QueuedRun
  <2>3. run'[k].gate = FALSE
    BY <1>1 DEF QueuedRun
  <2>4. run'[k] # NoRun
    BY <2>2, NoRunType
  <2> QED
    BY <2>1, <2>2, <2>3, <2>4 DEF RunOK, LeftOK
<1>2. \A k \in Keys : RunOK(k)' /\ LeftOK(k)'
  <2> SUFFICES ASSUME NEW k \in Keys
               PROVE  RunOK(k)' /\ LeftOK(k)'
    OBVIOUS
  <2>1. CASE run'[k] = run[k]
    BY <2>1 DEF ExecutionInv, RunOK, LeftOK
  <2> QED
    BY <1>1, <2>1
<1>3. \A k \in Keys : Owned(k) => run'[k] = run[k]
  BY NoRunType DEF Owned
<1>4. Owns'
  <2> SUFFICES ASSUME NEW x \in Executors, Busy(x)
               PROVE  /\ executor[x].key \in Keys
                      /\ Owned(executor[x].key)'
                      /\ ProgressOf(executor[x].key, executor[x].pc)'
    BY DEF Owns, Busy
  <2>1. /\ executor[x].key \in Keys
        /\ Owned(executor[x].key)
        /\ ProgressOf(executor[x].key, executor[x].pc)
    BY DEF ExecutionInv, Owns
  <2>2. run'[executor[x].key] = run[executor[x].key]
    BY <1>3, <2>1
  <2> QED
    BY <2>1, <2>2 DEF Owned, ProgressOf
<1>5. SoleExecutor'
  BY DEF ExecutionInv, SoleExecutor, Busy
<1> QED
  BY <1>2, <1>4, <1>5 DEF ExecutionInv

(* A step of worker x on the run k it owns, which leaves everything else.  *)
LEMMA OwnerStep ==
    ASSUME TypeOK, ExecutionInv, NEW x \in Executors, NEW k \in Keys, NEW c,
           Busy(x), executor[x].key = k,
           \A y \in Executors : y # x => executor'[y] = executor[y],
           \A j \in Keys : j # k =>
              run'[j] = run[j] /\ text'[j] = text[j] /\ seen'[j] = seen[j],
           RunOK(k)', LeftOK(k)',
           executor'[x].pc = c,
           \/ c \in {"idle", "claim"}
           \/ executor'[x].key = k /\ Owned(k)' /\ ProgressOf(k, c)'
    PROVE  ExecutionInv'
<1>1. \A j \in Keys : RunOK(j)' /\ LeftOK(j)'
  BY DEF ExecutionInv, RunOK, LeftOK
<1>2. \A y \in Executors : y # x /\ Busy(y) => executor[y].key # k
  BY DEF ExecutionInv, SoleExecutor
<1>3. Owns'
  <2> SUFFICES ASSUME NEW y \in Executors, Busy(y)'
               PROVE  /\ executor'[y].key \in Keys
                      /\ Owned(executor[y].key)'
                      /\ ProgressOf(executor[y].key, executor[y].pc)'
    BY DEF Owns
  <2>1. CASE y = x
    BY <2>1 DEF Busy
  <2>2. CASE y # x
    <3>1. Busy(y) /\ executor'[y] = executor[y]
      BY <2>2 DEF Busy
    <3>2. /\ executor[y].key \in Keys /\ executor[y].key # k
          /\ Owned(executor[y].key)
          /\ ProgressOf(executor[y].key, executor[y].pc)
      BY <1>2, <2>2, <3>1 DEF ExecutionInv, Owns
    <3> QED
      BY <3>1, <3>2 DEF Owned, ProgressOf
  <2> QED
    BY <2>1, <2>2
<1>4. SoleExecutor'
  BY <1>2 DEF ExecutionInv, SoleExecutor, Busy
<1> QED
  BY <1>1, <1>3, <1>4 DEF ExecutionInv

LEMMA ReconcileExecution ==
    ASSUME TypeOK, ExecutionInv, NEW x \in Executors, NEW S,
           ReconcileStaleAttempts(x, S)
    PROVE  ExecutionInv' /\ \A k \in Keys : RunStep(k)
<1>1. /\ executor[x].pc = "idle" /\ Move(x, "claim")
      /\ UNCHANGED <<text, seen>>
      /\ run' = [k \in Keys |->
                    IF k \in S /\ Stale(k) THEN Reconciled(k) ELSE run[k]]
  BY DEF ReconcileStaleAttempts, outside
<1>2. \A y \in Executors : /\ Busy(y)' <=> Busy(y)
                           /\ Busy(y) => executor'[y] = executor[y]
  BY <1>1 DEF Move, Busy, TypeOK
<1>3. \A k \in Keys :
         \/ run'[k] = run[k]
         \/ /\ run[k].status = "processing"
            /\ run'[k].status = "failed" /\ run'[k].claim = "none"
            /\ run'[k].outcome = "unknown" /\ run'[k].version = run[k].version
            /\ run'[k].policy = run[k].policy
  <2> SUFFICES ASSUME NEW k \in Keys, run'[k] # run[k]
               PROVE  /\ run[k].status = "processing"
                      /\ run'[k].status = "failed" /\ run'[k].claim = "none"
                      /\ run'[k].outcome = "unknown" /\ run'[k].version = run[k].version
                      /\ run'[k].policy = run[k].policy
    OBVIOUS
  <2>1. run[k].status = "processing" /\ run'[k] = Reconciled(k)
    BY <1>1 DEF Stale
  <2>2. run[k] \in Run
    BY DEF TypeOK
  <2> QED
    BY <2>1, <2>2 DEF Reconciled, Failed, Run
<1>4. \A k \in Keys : run'[k].gate = run[k].gate
  <2> SUFFICES ASSUME NEW k \in Keys PROVE run'[k].gate = run[k].gate
    OBVIOUS
  <2>1. run'[k] = run[k] \/ run'[k] = Reconciled(k)
    BY <1>1
  <2>2. run[k] \in Run
    BY DEF TypeOK
  <2> QED
    BY <2>1, <2>2 DEF Reconciled, Failed, Run
<1>5. \A k \in Keys : RunOK(k)' /\ LeftOK(k)'
  BY <1>1, <1>3, <1>4, NoRunType DEF ExecutionInv, RunOK, LeftOK
<1>6. Owns'
  <2> SUFFICES ASSUME NEW y \in Executors, Busy(y)
               PROVE  /\ executor'[y].key \in Keys
                      /\ Owned(executor[y].key)'
                      /\ ProgressOf(executor[y].key, executor[y].pc)'
    BY <1>2 DEF Owns
  <2>1. /\ executor'[y] = executor[y] /\ executor[y].key \in Keys
        /\ Owned(executor[y].key)
        /\ ProgressOf(executor[y].key, executor[y].pc)
    BY <1>2 DEF ExecutionInv, Owns
  <2>2. Owned(executor[y].key)'
    BY <1>3, <2>1 DEF Owned
  <2>3. ProgressOf(executor[y].key, executor[y].pc)'
    BY <1>1, <1>3, <1>4, <2>1 DEF ProgressOf
  <2> QED
    BY <2>1, <2>2, <2>3
<1>7. SoleExecutor'
  BY <1>2 DEF ExecutionInv, SoleExecutor
<1>8. \A k \in Keys : RunStep(k)
  BY <1>3 DEF RunStep
<1> QED
  BY <1>5, <1>6, <1>7, <1>8 DEF ExecutionInv

LEMMA ClaimExecution ==
    ASSUME TypeOK, ExecutionInv, NEW x \in Executors, ClaimOne(x)
    PROVE  ExecutionInv' /\ \A k \in Keys : RunStep(k)
<1>1. ~Busy(x) /\ UNCHANGED <<text, seen>>
  BY DEF ClaimOne, Busy, outside
<1>2. ASSUME NEW k \in Keys, Eligible(k),
             run' = [run EXCEPT ![k] = Claimed(k)],
             executor' = [executor EXCEPT ![x] = [pc |-> "plan", key |-> k]]
      PROVE  ExecutionInv' /\ \A j \in Keys : RunStep(j)
  <2>1. /\ \A j \in Keys : j # k => run'[j] = run[j]
        /\ \A y \in Executors : y # x => executor'[y] = executor[y]
        /\ executor'[x].pc = "plan" /\ executor'[x].key = k
    BY <1>2 DEF TypeOK
  <2>2. run[k].status = "queued" /\ run[k].outcome = "none" /\ ~run[k].gate
    BY <1>2 DEF Eligible, ExecutionInv, RunOK
  <2>3. /\ run'[k].status = "processing" /\ run'[k].claim = "live"
        /\ run'[k].outcome = "pending" /\ run'[k].version = run[k].version
        /\ run'[k].policy = run[k].policy
    BY <1>2 DEF Claimed, TypeOK, Run
  <2>4. run'[k].gate = run[k].gate
    BY <1>2 DEF Claimed, TypeOK, Run
  <2>5. text[k] = 0 /\ seen[k] = 0
    BY <2>2 DEF ExecutionInv, LeftOK, TypeOK
  <2>6. RunOK(k)' /\ LeftOK(k)'
    BY <1>1, <2>2, <2>3, <2>4, <2>5, NoRunType DEF RunOK, LeftOK
  <2>7. \A j \in Keys : RunOK(j)' /\ LeftOK(j)'
    BY <1>1, <2>1, <2>6 DEF ExecutionInv, RunOK, LeftOK
  (* Nobody owns a queued run.                                             *)
  <2>8. \A y \in Executors : Busy(y) => executor[y].key # k
    BY <2>2 DEF ExecutionInv, Owns, Owned
  <2>9. Owns'
    <3> SUFFICES ASSUME NEW y \in Executors, Busy(y)'
                 PROVE  /\ executor'[y].key \in Keys
                        /\ Owned(executor[y].key)'
                        /\ ProgressOf(executor[y].key, executor[y].pc)'
      BY DEF Owns
    <3>1. CASE y = x
      <4>1. Owned(k)'
        BY <2>3 DEF Owned
      <4>2. ProgressOf(k, "plan")'
        BY <1>1, <2>2, <2>4, <2>5 DEF ProgressOf
      <4> QED
        BY <2>1, <3>1, <4>1, <4>2
    <3>2. CASE y # x
      <4>1. Busy(y) /\ executor'[y] = executor[y]
        BY <2>1, <3>2 DEF Busy
      <4>2. /\ executor[y].key \in Keys /\ executor[y].key # k
            /\ Owned(executor[y].key)
            /\ ProgressOf(executor[y].key, executor[y].pc)
        BY <2>8, <4>1 DEF ExecutionInv, Owns
      <4> QED
        BY <1>1, <2>1, <4>1, <4>2 DEF Owned, ProgressOf
    <3> QED
      BY <3>1, <3>2
  <2>10. SoleExecutor'
    BY <2>1, <2>8 DEF ExecutionInv, SoleExecutor, Busy
  <2>11. \A j \in Keys : RunStep(j)
    BY <2>1, <2>2, <2>3 DEF RunStep
  <2> QED
    BY <2>7, <2>9, <2>10, <2>11 DEF ExecutionInv
<1>3. CASE executor' = [executor EXCEPT ![x] = Idle] /\ run' = run
  <2>1. \A y \in Executors : /\ Busy(y)' => Busy(y)
                             /\ Busy(y)' => executor'[y] = executor[y]
    BY <1>1, <1>3 DEF Idle, Busy, TypeOK
  <2>2. Owns'
    BY <1>1, <1>3, <2>1 DEF ExecutionInv, Owns, Owned, ProgressOf
  <2>3. SoleExecutor'
    BY <2>1 DEF ExecutionInv, SoleExecutor
  <2> QED
    BY <1>1, <1>3, <2>2, <2>3 DEF ExecutionInv, RunOK, LeftOK, RunStep
<1> QED
  BY <1>2, <1>3 DEF ClaimOne

LEMMA ExpiryExecution ==
    ASSUME TypeOK, ExecutionInv, NEW k \in Keys, ClaimExpires(k)
    PROVE  ExecutionInv' /\ \A j \in Keys : RunStep(j)
<1>1. run' = [run EXCEPT ![k] = [run[k] EXCEPT !.claim = "expired"]]
  BY DEF ClaimExpires
<1>2. UNCHANGED <<executor, text, seen>>
  BY DEF ClaimExpires, outside
<1>3. run[k].status = "processing"
  BY DEF ClaimExpires, ExecutionInv, RunOK
<1>4. \A j \in Keys : /\ run'[j].status = run[j].status
                      /\ run'[j].outcome = run[j].outcome
                      /\ run'[j].version = run[j].version
                      /\ run'[j].policy = run[j].policy
                      /\ j # k => run'[j] = run[j]
  BY <1>1 DEF TypeOK, Run
<1>5. \A j \in Keys : run'[j].gate = run[j].gate
  BY <1>1 DEF TypeOK, Run
<1>6. \A j \in Keys : RunOK(j)' /\ LeftOK(j)'
  BY <1>2, <1>3, <1>4, <1>5, NoRunType DEF ExecutionInv, RunOK, LeftOK
<1>7. Owns' /\ SoleExecutor'
  BY <1>2, <1>4, <1>5
     DEF ExecutionInv, Owns, Owned, ProgressOf, SoleExecutor, Busy
<1>8. \A j \in Keys : RunStep(j)
  BY <1>3, <1>4 DEF RunStep
<1> QED
  BY <1>6, <1>7, <1>8 DEF ExecutionInv

LEMMA OwnerExecution ==
    ASSUME TypeOK, ExecutionInv, NEW x \in Executors,
           \/ BuildPlan(x) \/ ExecuteAgentTurn(x) \/ CommitRosterAccessGate(x)
           \/ ReadRoster(x) \/ CommitSendGate(x) \/ SendText(x) \/ Finish(x)
    PROVE  ExecutionInv' /\ \A k \in Keys : RunStep(k)
<1>1. Busy(x)
  BY DEF BuildPlan, ExecuteAgentTurn, CommitRosterAccessGate, ReadRoster,
         CommitSendGate, SendText, Finish, Busy
<1>2. PICK k \in Keys : executor[x].key = k
  BY <1>1 DEF ExecutionInv, Owns
<1>3. PICK pc : executor[x].pc = pc
  OBVIOUS
<1>4. Owned(k) /\ ProgressOf(k, pc) /\ RunOK(k) /\ LeftOK(k)
  BY <1>1, <1>2, <1>3 DEF ExecutionInv, Owns
<1>5. run[k] \in Run /\ text[k] \in Nat /\ seen[k] \in Nat
  BY DEF TypeOK
<1>6. \A c : Move(x, c) =>
         /\ executor'[x].pc = c /\ executor'[x].key = k
         /\ \A y \in Executors : y # x => executor'[y] = executor[y]
  BY <1>2 DEF Move, TypeOK
<1>7. executor' = [executor EXCEPT ![x] = Idle] =>
         /\ executor'[x].pc = "idle"
         /\ \A y \in Executors : y # x => executor'[y] = executor[y]
  BY DEF Idle, TypeOK
<1>8. CASE BuildPlan(x) \/ ReadRoster(x)
  <2>1. UNCHANGED <<run, text, seen>>
    BY <1>8 DEF BuildPlan, ReadRoster, outside
  <2>2. PICK c \in {"failed", "turn", "roster", "gate", "done"} : Move(x, c)
    BY <1>8 DEF BuildPlan, ReadRoster
  <2>3. ~run[k].gate /\ text[k] = 0
    BY <1>3, <1>4, <1>8 DEF BuildPlan, ReadRoster, ProgressOf
  <2>4. /\ Owned(k)' /\ RunOK(k)' /\ LeftOK(k)'
        /\ ProgressOf(k, c)'
    BY <1>4, <2>1, <2>3 DEF Owned, RunOK, LeftOK, ProgressOf
  <2>5. ExecutionInv'
    BY <1>1, <1>2, <1>6, <2>1, <2>2, <2>4, OwnerStep
  <2> QED
    BY <2>1, <2>5 DEF RunStep
<1>9. CASE ExecuteAgentTurn(x)
  <2>1. /\ UNCHANGED <<text, seen>>
        /\ run' = [run EXCEPT ![k] = Completed(k, "none")]
        /\ executor' = [executor EXCEPT ![x] = Idle]
        /\ run[k].status = "processing"
        /\ pc = "turn"
    BY <1>2, <1>3, <1>9 DEF ExecuteAgentTurn, Authorized
  <2>2. /\ run'[k].status = "completed" /\ run'[k].claim = "none"
        /\ run'[k].outcome = "none" /\ run'[k].version = run[k].version
        /\ run'[k].policy = run[k].policy
        /\ \A j \in Keys : j # k => run'[j] = run[j]
    BY <2>1 DEF Completed, TypeOK, Run
  <2>3. run'[k].gate = run[k].gate
    BY <2>1 DEF Completed, TypeOK, Run
  <2>4. text[k] = 0
    BY <1>4, <2>1 DEF ProgressOf
  <2>5. RunOK(k)' /\ LeftOK(k)'
    BY <1>4, <1>5, <2>1, <2>2, <2>3, <2>4, NoRunType DEF RunOK, LeftOK
  <2>6. ExecutionInv'
    BY <1>1, <1>2, <1>7, <2>1, <2>2, <2>5, OwnerStep
  <2> QED
    BY <2>1, <2>2, <2>6 DEF RunStep
<1>10. CASE CommitRosterAccessGate(x) \/ CommitSendGate(x)
  <2>1. /\ UNCHANGED <<text, seen>>
        /\ ~run[k].gate /\ text[k] = 0
    BY <1>3, <1>4, <1>10
       DEF CommitRosterAccessGate, CommitSendGate, outside, ProgressOf
  <2>2. \/ run' = run /\ Move(x, "failed")
        \/ /\ run[k].status = "processing"
           /\ run' = [run EXCEPT ![k] = [run[k] EXCEPT !.outcome = "not_sent"]]
           /\ Move(x, "read") \/ Move(x, "failed")
        \/ /\ run[k].status = "processing"
           /\ run' = [run EXCEPT ![k] = [run[k] EXCEPT !.outcome = "sending",
                                                       !.gate = TRUE]]
           /\ Move(x, "send") \/ Move(x, "failed")
    BY <1>2, <1>10 DEF CommitRosterAccessGate, CommitSendGate, Authorized
  <2>3. CASE run' = run /\ Move(x, "failed")
    <3>1. /\ Owned(k)' /\ RunOK(k)' /\ LeftOK(k)'
          /\ ProgressOf(k, "failed")'
      BY <1>4, <2>1, <2>3 DEF Owned, RunOK, LeftOK, ProgressOf
    <3>2. ExecutionInv'
      BY <1>1, <1>2, <1>6, <2>1, <2>3, <3>1, OwnerStep
    <3> QED
      BY <2>3, <3>2 DEF RunStep
  <2>4. CASE /\ run[k].status = "processing"
             /\ run' = [run EXCEPT ![k] = [run[k] EXCEPT !.outcome = "not_sent"]]
             /\ Move(x, "read") \/ Move(x, "failed")
    <3>1. PICK c \in {"read", "failed"} : Move(x, c)
      BY <2>4
    <3>2. /\ run'[k].status = "processing" /\ run'[k].outcome = "not_sent"
          /\ run'[k].version = run[k].version
          /\ run'[k].policy = run[k].policy
          /\ \A j \in Keys : j # k => run'[j] = run[j]
      BY <2>4 DEF TypeOK, Run
    <3>3. run'[k].gate = run[k].gate
      BY <2>4 DEF TypeOK, Run
    <3>4. /\ Owned(k)' /\ RunOK(k)' /\ LeftOK(k)'
          /\ ProgressOf(k, c)'
      BY <1>4, <2>1, <3>2, <3>3, NoRunType DEF Owned, RunOK, LeftOK, ProgressOf
    <3>5. ExecutionInv'
      BY <1>1, <1>2, <1>6, <2>1, <3>1, <3>2, <3>4, OwnerStep
    <3> QED
      BY <2>4, <3>2, <3>5 DEF RunStep
  <2>5. CASE /\ run[k].status = "processing"
             /\ run' = [run EXCEPT ![k] = [run[k] EXCEPT !.outcome = "sending",
                                                         !.gate = TRUE]]
             /\ Move(x, "send") \/ Move(x, "failed")
    <3>1. PICK c \in {"send", "failed"} : Move(x, c)
      BY <2>5
    <3>2. /\ run'[k].status = "processing" /\ run'[k].outcome = "sending"
          /\ run'[k].version = run[k].version
          /\ run'[k].policy = run[k].policy
          /\ \A j \in Keys : j # k => run'[j] = run[j]
      BY <2>5 DEF TypeOK, Run
    <3>3. run'[k].gate = TRUE
      BY <2>5 DEF TypeOK, Run
    <3>4. /\ Owned(k)' /\ RunOK(k)' /\ LeftOK(k)'
          /\ ProgressOf(k, c)'
      BY <1>4, <2>1, <3>2, <3>3, NoRunType DEF Owned, RunOK, LeftOK, ProgressOf
    <3>5. ExecutionInv'
      BY <1>1, <1>2, <1>6, <2>1, <3>1, <3>2, <3>4, OwnerStep
    <3> QED
      BY <2>5, <3>2, <3>5 DEF RunStep
  <2> QED
    BY <2>2, <2>3, <2>4, <2>5
<1>11. CASE SendText(x)
  <2>1. PICK c \in {"sent", "failed", "ambiguous"}, l \in 0..1, d \in 0..1 :
           /\ d <= l
           /\ c = "sent" => d = 1
           /\ c = "failed" => l = 0
           /\ Move(x, c)
           /\ text' = [text EXCEPT ![executor[x].key] = @ + l]
           /\ seen' = [seen EXCEPT ![executor[x].key] = @ + d]
    BY <1>11, Zenon DEF SendText
  <2>2. run' = run
    BY <1>11 DEF SendText
  <2>3. /\ text[k] = 0 /\ seen[k] = 0
        /\ run[k].gate /\ run[k].outcome \in {"sending", "unknown"}
    BY <1>3, <1>4, <1>5, <1>11 DEF SendText, ProgressOf, LeftOK
  <2>4. /\ text'[k] = l /\ seen'[k] = d
        /\ \A j \in Keys : j # k => text'[j] = text[j] /\ seen'[j] = seen[j]
    BY <1>2, <2>1, <2>3 DEF TypeOK
  <2>5. /\ Owned(k)' /\ RunOK(k)' /\ LeftOK(k)'
        /\ ProgressOf(k, c)'
    BY <1>4, <2>1, <2>2, <2>3, <2>4 DEF Owned, RunOK, LeftOK, ProgressOf
  <2>6. ExecutionInv'
    BY <1>1, <1>2, <1>6, <2>1, <2>2, <2>4, <2>5, OwnerStep
  <2> QED
    BY <2>2, <2>6 DEF RunStep
<1>12. CASE Finish(x)
  <2>1. /\ UNCHANGED <<text, seen>>
        /\ executor' = [executor EXCEPT ![x] = Idle]
        /\ pc \in {"done", "sent", "failed", "ambiguous"}
        /\ run' = IF run[k].status = "processing"
                  THEN [run EXCEPT ![k] = Terminal(k, pc)]
                  ELSE run
    BY <1>2, <1>3, <1>12 DEF Finish, OwnsClaim, outside
  <2>2. CASE run' = run
    <3>1. RunOK(k)' /\ LeftOK(k)'
      BY <1>4, <2>1, <2>2 DEF RunOK, LeftOK
    <3>2. ExecutionInv'
      BY <1>1, <1>2, <1>7, <2>1, <2>2, <3>1, OwnerStep
    <3> QED
      BY <2>2, <3>2 DEF RunStep
  <2>3. CASE run[k].status = "processing"
    <3>1. run' = [run EXCEPT ![k] = Terminal(k, pc)]
      BY <2>1, <2>3
    <3>2. /\ run'[k].status \in {"completed", "failed"}
          /\ pc = "sent" => run'[k].status = "completed" /\ run'[k].outcome = "sent"
          /\ pc = "ambiguous" => run'[k].status = "failed" /\ run'[k].outcome = "unknown"
          /\ pc \in {"done", "failed"} => run'[k].outcome = "not_sent"
          /\ run'[k].claim = "none" /\ run'[k].version = run[k].version
          /\ run'[k].policy = run[k].policy
          /\ \A j \in Keys : j # k => run'[j] = run[j]
      <4>1. \A j \in Keys : run'[j] = IF j = k THEN Terminal(k, pc) ELSE run[j]
        BY <3>1 DEF TypeOK
      <4>2. ASSUME NEW o
            PROVE  /\ Completed(k, o).status = "completed"
                   /\ Completed(k, o).outcome = o /\ Completed(k, o).claim = "none"
                   /\ Completed(k, o).version = run[k].version
                   /\ Completed(k, o).policy = run[k].policy
                   /\ Failed(k, o).status = "failed"
                   /\ Failed(k, o).outcome = o /\ Failed(k, o).claim = "none"
                   /\ Failed(k, o).version = run[k].version
                   /\ Failed(k, o).policy = run[k].policy
        BY <1>5 DEF Completed, Failed, Run
      <4>3. run'[k] = CASE pc = "done" -> Completed(k, "not_sent")
                        [] pc = "sent" -> Completed(k, "sent")
                        [] pc = "failed" -> Failed(k, "not_sent")
                        [] pc = "ambiguous" -> Failed(k, "unknown")
        BY <4>1 DEF Terminal
      <4> QED
        BY <2>1, <4>1, <4>2, <4>3
    <3>3. run'[k].gate = run[k].gate
      BY <2>1, <3>1 DEF Terminal, Completed, Failed, TypeOK, Run
    <3>4. RunOK(k)'
      BY <1>4, <2>1, <3>2, <3>3, NoRunType DEF RunOK, ProgressOf
    <3>5. LeftOK(k)'
      BY <1>4, <1>5, <2>1, <3>2, <3>3 DEF LeftOK, ProgressOf
    <3>6. ExecutionInv'
      BY <1>1, <1>2, <1>7, <2>1, <3>2, <3>4, <3>5, OwnerStep
    <3> QED
      BY <2>3, <3>2, <3>6 DEF RunStep
  <2> QED
    BY <2>1, <2>2, <2>3
<1> QED
  BY <1>8, <1>9, <1>10, <1>11, <1>12

LEMMA ExitExecution ==
    ASSUME TypeOK, ExecutionInv, NEW x \in Executors, ExecutorExit(x)
    PROVE  ExecutionInv' /\ \A k \in Keys : RunStep(k)
<1>1. UNCHANGED <<run, text, seen>>
  BY DEF ExecutorExit, outside
<1>2. \A y \in Executors : Busy(y)' => Busy(y) /\ executor'[y] = executor[y]
  BY DEF ExecutorExit, Idle, Busy, TypeOK
<1>3. Owns'
  BY <1>1, <1>2 DEF ExecutionInv, Owns, Owned, ProgressOf
<1>4. SoleExecutor'
  BY <1>2 DEF ExecutionInv, SoleExecutor
<1> QED
  BY <1>1, <1>3, <1>4 DEF ExecutionInv, RunOK, LeftOK, RunStep

-----------------------------------------------------------------------------
(* The invariant is inductive.                                             *)

LEMMA InitInd == Init => IndInv
<1> SUFFICES ASSUME Init
             PROVE  IndInv
  OBVIOUS
<1>1. TypeOK
  BY InitType
<1>2. \A k \in Keys : run[k] = NoRun /\ text[k] = 0 /\ seen[k] = 0
  BY DEF Init
<1>3. \A a \in Automations, v \in Versions : ver[a][v] = "none"
  BY DEF Init
<1>4. picked = {} /\ \A x \in Executors : ~Busy(x)
  BY DEF Init, Busy, Idle
<1>5. TriggerInv
  BY <1>2, <1>3, <1>4, Numbers
     DEF TriggerInv, OneActive, PastRuns, StreamAhead, OneRun, EventRuns, Exists
<1>6. \A k \in Keys : RunOK(k) /\ LeftOK(k)
  BY <1>2 DEF RunOK, LeftOK, NoRun
<1>7. Owns /\ SoleExecutor
  BY <1>4 DEF Owns, SoleExecutor
<1> QED
  BY <1>1, <1>5, <1>6, <1>7 DEF IndInv, ExecutionInv

(* Definitions and triggers start runs; they leave the others alone.       *)
LEMMA StartingSteps ==
    ASSUME TypeOK, Define \/ Trigger \/ Tick
    PROVE  /\ UNCHANGED <<executor, text, seen>>
           /\ \A k \in Keys : \/ run'[k] = run[k]
                              \/ /\ run[k] = NoRun
                                 /\ \E v, q : run'[k] = QueuedRun(v, q)
<1>1. CASE Define
  BY <1>1 DEF Define, ApplyAutomation, ApplyPolicy, Switch, outside
<1>2. ASSUME NEW S, DispatchOnce(S)
      PROVE  /\ UNCHANGED <<executor, text, seen>>
             /\ \A k \in Keys : \/ run'[k] = run[k]
                                \/ /\ run[k] = NoRun
                                   /\ \E v, q : run'[k] = QueuedRun(v, q)
  <2>1. UNCHANGED <<executor, text, seen>>
    BY <1>2 DEF DispatchOnce, outside
  <2>2. PICK B \in SUBSET (Scheduled \X Versions) :
           run' = [k \in Keys |->
                      IF run[k] = NoRun /\ \E d \in B : DueKey(d) = k
                      THEN QueuedRun(k[2], policy)
                      ELSE run[k]]
    BY <1>2 DEF DispatchOnce
  <2>3. \A k \in Keys : \/ run'[k] = run[k]
                        \/ run[k] = NoRun /\ run'[k] = QueuedRun(k[2], policy)
    BY <2>2
  <2> QED
    BY <2>1, <2>3
<1>3. ASSUME NEW e \in Events,
             \/ CaptureEvent(e)
             \/ \E a \in Automations \ Scheduled, v \in Versions :
                   SelectEventAutomation(a, v, e)
      PROVE  UNCHANGED <<executor, text, seen, run>>
  BY <1>3 DEF CaptureEvent, SelectEventAutomation, outside
<1>4. ASSUME NEW p \in picked, InsertEventRun(p) \/ ConsumerExit(p)
      PROVE  /\ UNCHANGED <<executor, text, seen>>
             /\ \A k \in Keys : \/ run'[k] = run[k]
                                \/ /\ run[k] = NoRun
                                   /\ \E v, q : run'[k] = QueuedRun(v, q)
  <2>1. UNCHANGED <<executor, text, seen>>
    BY <1>4 DEF InsertEventRun, ConsumerExit, outside
  <2>2. p.key \in Keys
    BY DEF TypeOK, Picked
  <2>3. \/ run' = run
        \/ /\ run[p.key] = NoRun
           /\ run' = [run EXCEPT ![p.key] = QueuedRun(p.version, p.policy)]
    BY <1>4 DEF InsertEventRun, ConsumerExit
  <2>4. \A k \in Keys : \/ run'[k] = run[k]
                        \/ /\ run[k] = NoRun
                           /\ run'[k] = QueuedRun(p.version, p.policy)
    BY <2>2, <2>3 DEF TypeOK
  <2> QED
    BY <2>1, <2>4
<1>5. CASE Tick
  BY <1>5 DEF Tick, outside
<1> QED
  BY <1>1, <1>2, <1>3, <1>4, <1>5 DEF Trigger

(* The others execute runs; they start none and touch no definition.       *)
ExecutionStep ==
    \/ \E x \in Executors :
          \/ \E S \in SUBSET {k \in Keys : Stale(k)} :
                ReconcileStaleAttempts(x, S)
          \/ ExecutorStep(x)
          \/ ExecutorExit(x)
    \/ \E k \in Keys : ClaimExpires(k)

LEMMA ExecutionSteps ==
    ASSUME IndInv, ExecutionStep
    PROVE  IndInv' /\ \A k \in Keys : RunStep(k)
<1>1. TypeOK /\ TriggerInv /\ ExecutionInv /\ Owns
  BY DEF IndInv, ExecutionInv
<1>2. UNCHANGED <<ver, cursor, now, captured, picked>>
  BY DEF ExecutionStep, ReconcileStaleAttempts, ExecutorStep, ClaimOne, BuildPlan,
         ExecuteAgentTurn, CommitRosterAccessGate, ReadRoster, CommitSendGate,
         SendText, Finish, ExecutorExit, ClaimExpires, definitions, triggers
<1>3. TypeOK'
  <2>1. ASSUME NEW x \in Executors, ExecutorStep(x)
        PROVE  TypeOK'
    BY <1>1, <2>1, ClaimType, StepType DEF ExecutorStep
  <2> QED
    BY <1>1, <2>1, ReconcileType, StepType, TimeType DEF ExecutionStep
<1>4. ExecutionInv' /\ \A k \in Keys : RunStep(k)
  <2>1. ASSUME NEW x \in Executors, ExecutorStep(x)
        PROVE  ExecutionInv' /\ \A k \in Keys : RunStep(k)
    BY <1>1, <2>1, ClaimExecution, OwnerExecution DEF ExecutorStep
  <2> QED
    BY <1>1, <2>1, ReconcileExecution, ExitExecution, ExpiryExecution
       DEF ExecutionStep
<1>5. TriggerInv'
  BY <1>1, <1>2, <1>4, TriggersKept
<1> QED
  BY <1>3, <1>4, <1>5 DEF IndInv

LEMMA NextInd == IndInv /\ [Next]_vars => IndInv'
<1> SUFFICES ASSUME IndInv, [Next]_vars
             PROVE  IndInv'
  OBVIOUS
<1>1. TypeOK /\ TriggerInv /\ ExecutionInv
  BY DEF IndInv
<1>2. CASE Define \/ Trigger \/ Tick
  <2>1. TypeOK'
    BY <1>1, <1>2, DefineType, DispatchType, EventType, PickedType, TimeType
       DEF Trigger
  <2>2. TriggerInv'
    BY <1>1, <1>2, DefineTriggers, DispatchTriggers, EventTriggers,
       PickedTriggers, TickTriggers DEF Trigger
  <2>3. ExecutionInv'
    BY <1>1, <1>2, StartingSteps, ExecutionKept
  <2> QED
    BY <2>1, <2>2, <2>3 DEF IndInv
<1>3. CASE ExecutionStep
  BY <1>3, ExecutionSteps
<1>4. CASE UNCHANGED vars
  BY <1>4
     DEF vars, definitions, triggers, outside, IndInv, TypeOK, TriggerInv,
         OneActive, PastRuns, StreamAhead, OneRun, EventRuns, Exists,
         ExecutionInv, RunOK, LeftOK, Owns, Owned, ProgressOf, SoleExecutor, Busy
<1> QED
  BY <1>2, <1>3, <1>4 DEF Next, ExecutionStep

(* IndInv holds in every reachable state.                                  *)
THEOREM Inductive == Spec => []IndInv
BY InitInd, NextInd, PTL DEF Spec

(* Every variable keeps its type: cursors stay within the calendar, runs   *)
(* are records of the work-item table, outcomes are those the schema has.  *)
THEOREM TypeCorrect == Spec => []TypeOK
<1>1. IndInv => TypeOK
  BY DEF IndInv
<1> QED
  BY <1>1, Inductive, PTL

(* Two runs for the same minute or event of a stream never exist, whatever *)
(* is published between two dispatches, and no run sends two texts.        *)
THEOREM OneRunPerOccasion == Spec => []OncePerOccasion
<1>1. IndInv => OncePerOccasion
  BY DEF IndInv, TriggerInv, OneRun, ExecutionInv, LeftOK, OncePerOccasion, Exists
<1> QED
  BY <1>1, Inductive, PTL

(* dispatch_once never takes a minute that its version has already run.    *)
THEOREM Ahead == Spec => []CursorAhead
<1>1. IndInv => CursorAhead
  BY DEF IndInv, TriggerInv, StreamAhead, CursorAhead, Exists
<1> QED
  BY <1>1, Inductive, PTL

(* No event runs under a version activated after the event was captured,   *)
(* even when the consumer inserts the run long after it read the version.  *)
THEOREM NoRetroaction == Spec => []NotRetroactive
<1>1. IndInv => NotRetroactive
  <2> SUFFICES ASSUME IndInv, NEW k \in Keys, k[1] \notin Scheduled, Exists(k)
               PROVE  run[k].version <= captured[k[3]][k[1]]
    BY DEF NotRetroactive, Exists
  <2> QED
    BY DEF IndInv, TriggerInv, EventRuns
<1> QED
  BY <1>1, Inductive, PTL

(* What a run records about its text is true: `sent` only if it arrived,   *)
(* and never `not_sent` if it may have left.                               *)
THEOREM HonestRuns == Spec => []RunHonest
<1>1. IndInv => RunHonest
  BY DEF IndInv, ExecutionInv, LeftOK, RunHonest
<1> QED
  BY <1>1, Inductive, PTL

-----------------------------------------------------------------------------
(* The abstract phase of a run, from its status and recorded outcome.      *)
PhaseFor(st, o) ==
    CASE o = "sent" -> "sent"
      [] o = "unknown" -> "unknown"
      [] st \in {"completed", "failed"} /\ o \notin {"sent", "unknown"} -> "denied"
      [] o = "sending" /\ st = "processing" -> "open"
      [] OTHER -> "closed"

LEMMA GateValue ==
    ASSUME NEW k \in Keys
    PROVE  /\ GateOf(k) = [phase |-> PhaseFor(run[k].status, run[k].outcome),
                           gate |-> run[k].gate,
                           calls |-> text[k], effect |-> seen[k]]
           /\ GateOf(k)' = [phase |-> PhaseFor(run'[k].status, run'[k].outcome),
                            gate |-> run'[k].gate,
                            calls |-> text'[k], effect |-> seen'[k]]
BY DEF GateOf, PhaseFor

LEMMA Phases ==
    /\ \A st \in {"none", "queued"} : PhaseFor(st, "none") = "closed"
    /\ \A o \in {"none", "pending", "not_sent"} :
          PhaseFor("processing", o) = "closed"
    /\ PhaseFor("processing", "sending") = "open"
    /\ PhaseFor("failed", "unknown") = "unknown"
    /\ PhaseFor("completed", "sent") = "sent"
    /\ \A st \in {"completed", "failed"}, o \in {"none", "not_sent"} :
          PhaseFor(st, o) = "denied"
BY DEF PhaseFor

-----------------------------------------------------------------------------
(* The steps of one run.                                                   *)

GateStep(k) ==
    \/ GateOf(k)' = GateOf(k)
    \/ Gate!JobStep(GateOf(k), GateOf(k)')

FinalStep(k) ==
    run[k].status \in {"completed", "failed"} => run'[k] = run[k]

Unsent(k) == text'[k] = text[k] /\ seen'[k] = seen[k]

LEMMA SameRun ==
    ASSUME NEW k \in Keys, Unsent(k), run'[k] = run[k]
    PROVE  GateStep(k) /\ FinalStep(k)
BY GateValue DEF GateStep, FinalStep, Unsent

LEMMA SamePhase ==
    ASSUME NEW k \in Keys, Unsent(k), run'[k].gate = run[k].gate,
           PhaseFor(run'[k].status, run'[k].outcome) =
              PhaseFor(run[k].status, run[k].outcome)
    PROVE  GateStep(k)
BY GateValue DEF GateStep, Unsent

(* A run in process that is settled: given up, denied before anything      *)
(* left, or confirmed once it arrived.                                     *)
LEMMA Settled ==
    ASSUME TypeOK, NEW k \in Keys, RunOK(k), Unsent(k),
           run[k].status = "processing", run'[k].gate = run[k].gate,
           \/ run'[k].status = "failed" /\ run'[k].outcome = "unknown"
           \/ /\ run'[k].status \in {"completed", "failed"}
              /\ run'[k].outcome \in {"none", "not_sent"}
              /\ text[k] = 0
           \/ /\ run'[k].status = "completed" /\ run'[k].outcome = "sent"
              /\ run[k].outcome = "sending" /\ seen[k] = 1
    PROVE  GateStep(k)
<1>1. PICK c : c = PhaseFor(run'[k].status, run'[k].outcome)
  OBVIOUS
<1>2. GateOf(k)' = [GateOf(k) EXCEPT !.phase = c]
  BY <1>1, GateValue DEF Unsent
<1>3. /\ GateOf(k).phase = PhaseFor(run[k].status, run[k].outcome)
      /\ GateOf(k).calls = text[k] /\ GateOf(k).effect = seen[k]
  BY GateValue
<1>4. run[k].outcome \in {"none", "pending", "not_sent", "sending"}
  BY DEF TypeOK, Run, SendOutcome, RunOK
<1>5. /\ GateOf(k).phase \in {"closed", "open"}
      /\ run[k].outcome = "sending" => GateOf(k).phase = "open"
  BY <1>3, <1>4, Phases
<1>6. \/ c = "unknown"
      \/ c = "denied" /\ text[k] = 0
      \/ c = "sent" /\ run[k].outcome = "sending" /\ seen[k] = 1
  BY <1>1, Phases
<1> QED
  BY <1>2, <1>3, <1>5, <1>6
     DEF GateStep, Gate!JobStep, Gate!GiveUp, Gate!Deny, Gate!Confirm

-----------------------------------------------------------------------------
(* The steps of the system.                                                *)

LEMMA StartingGate ==
    ASSUME IndInv, Define \/ Trigger \/ Tick, NEW k \in Keys
    PROVE  GateStep(k) /\ FinalStep(k)
<1>1. TypeOK
  BY DEF IndInv
<1>2. /\ Unsent(k)
      /\ \/ run'[k] = run[k]
         \/ /\ run[k] = NoRun
            /\ \E v, q : run'[k] = QueuedRun(v, q)
  BY <1>1, StartingSteps DEF Unsent
<1>3. ASSUME run[k] = NoRun, NEW v, NEW q, run'[k] = QueuedRun(v, q)
      PROVE  GateStep(k) /\ FinalStep(k)
  <2>1. /\ run[k].status = "none" /\ run[k].outcome = "none"
        /\ run'[k].status = "queued" /\ run'[k].outcome = "none"
    BY <1>3 DEF NoRun, QueuedRun
  <2>2. run[k].gate = FALSE /\ run'[k].gate = FALSE
    BY <1>3 DEF NoRun, QueuedRun
  <2> QED
    BY <1>2, <2>1, <2>2, Phases, SamePhase DEF FinalStep
<1> QED
  BY <1>2, <1>3, SameRun

LEMMA ReconcileGate ==
    ASSUME IndInv, NEW x \in Executors, NEW S, ReconcileStaleAttempts(x, S),
           NEW k \in Keys
    PROVE  GateStep(k) /\ FinalStep(k)
<1>1. /\ Unsent(k)
      /\ run'[k] = IF k \in S /\ Stale(k) THEN Reconciled(k) ELSE run[k]
  BY DEF ReconcileStaleAttempts, outside, Unsent
<1>2. CASE k \in S /\ Stale(k)
  <2>1. /\ run[k].status = "processing"
        /\ run'[k].status = "failed" /\ run'[k].outcome = "unknown"
    BY <1>1, <1>2 DEF Stale, Reconciled, Failed, IndInv, TypeOK, Run
  <2>2. run'[k].gate = run[k].gate
    BY <1>1, <1>2 DEF Reconciled, Failed, IndInv, TypeOK, Run
  <2> QED
    BY <1>1, <2>1, <2>2, Settled DEF FinalStep, IndInv, ExecutionInv
<1> QED
  BY <1>1, <1>2, SameRun

LEMMA ClaimGate ==
    ASSUME IndInv, NEW x \in Executors, ClaimOne(x), NEW k \in Keys
    PROVE  GateStep(k) /\ FinalStep(k)
<1>1. Unsent(k)
  BY DEF ClaimOne, outside, Unsent
<1>2. ASSUME Eligible(k), run'[k] = Claimed(k)
      PROVE  GateStep(k) /\ FinalStep(k)
  <2>1. run[k].status = "queued" /\ run[k].outcome = "none"
    BY <1>2 DEF Eligible, IndInv, ExecutionInv, RunOK
  <2>2. run'[k].status = "processing" /\ run'[k].outcome = "pending"
    BY <1>2 DEF Claimed, IndInv, TypeOK, Run
  <2>3. run'[k].gate = run[k].gate
    BY <1>2 DEF Claimed, IndInv, TypeOK, Run
  <2> QED
    BY <1>1, <2>1, <2>2, <2>3, Phases, SamePhase DEF FinalStep
<1>3. run'[k] = run[k] \/ (Eligible(k) /\ run'[k] = Claimed(k))
  BY DEF ClaimOne, IndInv, TypeOK
<1> QED
  BY <1>1, <1>2, <1>3, SameRun

LEMMA ExpiryGate ==
    ASSUME IndInv, NEW j \in Keys, ClaimExpires(j), NEW k \in Keys
    PROVE  GateStep(k) /\ FinalStep(k)
<1>1. Unsent(k)
  BY DEF ClaimExpires, outside, Unsent
<1>2. run' = [run EXCEPT ![j] = [run[j] EXCEPT !.claim = "expired"]]
  BY DEF ClaimExpires
<1>3. run'[k].status = run[k].status /\ run'[k].outcome = run[k].outcome
  BY <1>2 DEF IndInv, TypeOK, Run
<1>4. run'[k].gate = run[k].gate
  BY <1>2 DEF IndInv, TypeOK, Run
<1>5. FinalStep(k)
  BY <1>2 DEF FinalStep, ClaimExpires, IndInv, TypeOK, ExecutionInv, RunOK
<1> QED
  BY <1>1, <1>3, <1>4, <1>5, SamePhase

LEMMA OwnerGate ==
    ASSUME IndInv, NEW x \in Executors, NEW j \in Keys,
           \/ BuildPlan(x) \/ ExecuteAgentTurn(x) \/ CommitRosterAccessGate(x)
           \/ ReadRoster(x) \/ CommitSendGate(x) \/ SendText(x) \/ Finish(x)
           \/ ExecutorExit(x)
    PROVE  GateStep(j) /\ FinalStep(j)
<1>1. CASE BuildPlan(x) \/ ReadRoster(x) \/ ExecutorExit(x)
  BY <1>1, SameRun DEF BuildPlan, ReadRoster, ExecutorExit, outside, Unsent
<1> SUFFICES ASSUME ~(BuildPlan(x) \/ ReadRoster(x) \/ ExecutorExit(x))
             PROVE  GateStep(j) /\ FinalStep(j)
  BY <1>1
<1>2. Busy(x)
  BY DEF ExecuteAgentTurn, CommitRosterAccessGate, CommitSendGate, SendText,
         Finish, Busy
<1>3. PICK k \in Keys : executor[x].key = k
  BY <1>2 DEF IndInv, ExecutionInv, Owns
<1>4. PICK pc : executor[x].pc = pc
  OBVIOUS
<1>5. TypeOK /\ Owned(k) /\ ProgressOf(k, pc) /\ RunOK(k) /\ LeftOK(k)
  BY <1>2, <1>3, <1>4 DEF IndInv, ExecutionInv, Owns
<1>6. run[k] \in Run /\ text[k] \in Nat /\ seen[k] \in Nat
  BY <1>5 DEF TypeOK
<1>7. CASE ExecuteAgentTurn(x)
  <2>1. /\ UNCHANGED <<text, seen>>
        /\ run' = [run EXCEPT ![k] = Completed(k, "none")]
        /\ run[k].status = "processing"
        /\ pc = "turn"
    BY <1>3, <1>4, <1>7 DEF ExecuteAgentTurn, Authorized
  <2>2. /\ run'[k].status = "completed" /\ run'[k].outcome = "none"
        /\ j # k => run'[j] = run[j]
    BY <1>5, <2>1 DEF Completed, TypeOK, Run
  <2>3. run'[k].gate = run[k].gate
    BY <1>5, <2>1 DEF Completed, TypeOK, Run
  <2>4. text[k] = 0
    BY <1>5, <2>1 DEF ProgressOf
  <2>5. CASE j = k
    BY <1>5, <2>1, <2>2, <2>3, <2>4, <2>5, Settled DEF Unsent, FinalStep
  <2> QED
    BY <2>1, <2>2, <2>5, SameRun DEF Unsent
<1>8. CASE CommitRosterAccessGate(x)
  <2>1. /\ UNCHANGED <<text, seen>>
        /\ ~run[k].gate
        /\ \/ run' = run
           \/ /\ run[k].status = "processing"
              /\ run' = [run EXCEPT ![k] = [run[k] EXCEPT !.outcome = "not_sent"]]
    BY <1>3, <1>4, <1>5, <1>8
       DEF CommitRosterAccessGate, Authorized, outside, ProgressOf
  <2>2. CASE run' # run /\ j = k
    <3>1. run'[k].status = "processing" /\ run'[k].outcome = "not_sent"
      BY <1>5, <2>1, <2>2 DEF TypeOK, Run
    <3>2. run'[k].gate = run[k].gate
      BY <1>5, <2>1 DEF TypeOK, Run
    <3>3. run[k].outcome \in {"none", "pending", "not_sent"}
      BY <1>5, <1>6, <2>1, <2>2 DEF Run, SendOutcome, RunOK
    <3> QED
      BY <2>1, <2>2, <3>1, <3>2, <3>3, Phases, SamePhase DEF Unsent, FinalStep
  <2>3. CASE run' = run \/ j # k
    <3>1. run'[j] = run[j]
      BY <1>5, <2>1, <2>3 DEF TypeOK
    <3> QED
      BY <2>1, <3>1, SameRun DEF Unsent
  <2> QED
    BY <2>2, <2>3
<1>9. CASE CommitSendGate(x)
  <2>1. /\ UNCHANGED <<text, seen>>
        /\ ~run[k].gate
        /\ \/ run' = run
           \/ /\ run[k].status = "processing"
              /\ run' = [run EXCEPT ![k] = [run[k] EXCEPT !.outcome = "sending",
                                                          !.gate = TRUE]]
    BY <1>3, <1>4, <1>5, <1>9
       DEF CommitSendGate, Authorized, outside, ProgressOf
  <2>2. CASE run' # run /\ j = k
    <3>0. /\ run[k].status = "processing"
          /\ run' = [run EXCEPT ![k] = [run[k] EXCEPT !.outcome = "sending",
                                                      !.gate = TRUE]]
      BY <2>1, <2>2
    <3>1. run'[k].status = "processing" /\ run'[k].outcome = "sending"
      BY <1>5, <3>0 DEF TypeOK, Run
    <3>2. run'[k].gate = TRUE
      BY <1>5, <3>0 DEF TypeOK, Run
    <3>3. run[k].outcome \in {"none", "pending", "not_sent"}
      BY <1>5, <1>6, <2>1, <2>2 DEF Run, SendOutcome, RunOK
    <3>4. /\ GateOf(k).phase = "closed"
          /\ GateOf(k).calls = text[k] /\ GateOf(k).effect = seen[k]
      <4>1. PhaseFor(run[k].status, run[k].outcome) = "closed"
        BY <3>0, <3>3, Phases
      <4> QED
        BY <4>1, GateValue
    <3>5. GateOf(k)' = [phase |-> "open", gate |-> TRUE,
                        calls |-> text[k], effect |-> seen[k]]
      BY <2>1, <3>1, <3>2, GateValue, Phases
    <3> QED
      BY <2>2, <3>0, <3>4, <3>5 DEF GateStep, Gate!JobStep, Gate!Open, FinalStep
  <2>3. CASE run' = run \/ j # k
    <3>1. run'[j] = run[j]
      BY <1>5, <2>1, <2>3 DEF TypeOK
    <3> QED
      BY <2>1, <3>1, SameRun DEF Unsent
  <2> QED
    BY <2>2, <2>3
<1>10. CASE SendText(x)
  <2>1. PICK c \in {"sent", "failed", "ambiguous"}, l \in 0..1, d \in 0..1 :
           /\ d <= l
           /\ text' = [text EXCEPT ![executor[x].key] = @ + l]
           /\ seen' = [seen EXCEPT ![executor[x].key] = @ + d]
    BY <1>10, Zenon DEF SendText
  <2>2. run' = run
    BY <1>10 DEF SendText
  <2>3. /\ text[k] = 0 /\ seen[k] = 0
        /\ run[k].gate /\ run[k].outcome \in {"sending", "unknown"}
    BY <1>4, <1>5, <1>6, <1>10 DEF SendText, ProgressOf, LeftOK
  <2>4. /\ text'[k] = l /\ seen'[k] = d
        /\ j # k => text'[j] = text[j] /\ seen'[j] = seen[j]
    BY <1>3, <1>5, <2>1, <2>3 DEF TypeOK
  <2>5. CASE j # k \/ l = 0
    <3>1. d \in Nat /\ l \in Nat
      BY <2>1
    <3>2. Unsent(j)
      BY <2>1, <2>3, <2>4, <2>5, <3>1 DEF Unsent
    <3> QED
      BY <2>2, <3>2, SameRun
  <2>6. CASE j = k /\ l = 1
    <3>1. PICK f : f = PhaseFor(run[k].status, run[k].outcome)
      OBVIOUS
    <3>2. f \in {"open", "unknown"}
      BY <1>5, <2>3, <3>1, Phases DEF Owned, RunOK
    <3>3. run[k].gate = TRUE
      BY <1>6, <2>3 DEF Run
    <3>4. GateOf(k) = [phase |-> f, gate |-> TRUE, calls |-> 0, effect |-> 0]
      BY <2>3, <3>1, <3>3, GateValue
    <3>5. GateOf(k)' = [phase |-> f, gate |-> TRUE, calls |-> 1, effect |-> d]
      BY <2>2, <2>4, <2>6, <3>1, <3>3, GateValue
    <3>6. Gate!Call(GateOf(k), GateOf(k)')
      <4>1. PICK s : s = GateOf(k)
        OBVIOUS
      <4>2. PICK t : t = GateOf(k)'
        OBVIOUS
      <4>3. s.phase = f /\ s.calls = 0
        BY <3>4, <4>1
      <4>4. s.gate = TRUE
        BY <3>4, <4>1
      <4>5. t = [phase |-> s.phase, gate |-> TRUE, calls |-> 1, effect |-> d]
        BY <3>5, <4>2, <4>3
      <4>6. Gate!Call(s, t)
        BY <2>1, <3>2, <4>3, <4>4, <4>5 DEF Gate!Call
      <4> QED
        BY <4>1, <4>2, <4>6
    <3> QED
      BY <2>2, <2>6, <3>6 DEF GateStep, Gate!JobStep, FinalStep
  <2> QED
    BY <2>5, <2>6
<1>11. CASE Finish(x)
  <2>1. /\ UNCHANGED <<text, seen>>
        /\ pc \in {"done", "sent", "failed", "ambiguous"}
        /\ run' = IF run[k].status = "processing"
                  THEN [run EXCEPT ![k] = Terminal(k, pc)]
                  ELSE run
    BY <1>3, <1>4, <1>11 DEF Finish, OwnsClaim, outside
  <2>2. CASE run[k].status # "processing" \/ j # k
    <3>1. run'[j] = run[j]
      BY <1>5, <2>1, <2>2 DEF TypeOK
    <3> QED
      BY <2>1, <3>1, SameRun DEF Unsent
  <2>3. CASE run[k].status = "processing" /\ j = k
    <3>1. run'[k] = Terminal(k, pc)
      BY <1>5, <2>1, <2>3 DEF TypeOK
    <3>2. ASSUME NEW o
          PROVE  /\ Completed(k, o).status = "completed"
                 /\ Completed(k, o).outcome = o
                 /\ Failed(k, o).status = "failed"
                 /\ Failed(k, o).outcome = o
      BY <1>6 DEF Completed, Failed, Run
    <3>3. ASSUME NEW o
          PROVE  Completed(k, o).gate = run[k].gate /\ Failed(k, o).gate = run[k].gate
      BY <1>6 DEF Completed, Failed, Run
    <3>4. run'[k].gate = run[k].gate
      BY <2>1, <3>1, <3>3 DEF Terminal
    <3>5. /\ pc = "sent" => run'[k].status = "completed" /\ run'[k].outcome = "sent"
          /\ pc = "ambiguous" => run'[k].status = "failed" /\ run'[k].outcome = "unknown"
          /\ pc \in {"done", "failed"} =>
                /\ run'[k].status \in {"completed", "failed"}
                /\ run'[k].outcome = "not_sent"
      BY <2>1, <3>1, <3>2 DEF Terminal
    <3>6. /\ pc \in {"done", "failed"} => text[k] = 0
          /\ pc = "sent" => run[k].outcome = "sending" /\ seen[k] = 1
      BY <1>5, <2>3 DEF ProgressOf, RunOK
    <3> QED
      BY <1>5, <2>1, <2>3, <3>4, <3>5, <3>6, Settled DEF Unsent, FinalStep
  <2> QED
    BY <2>2, <2>3
<1> QED
  BY <1>7, <1>8, <1>9, <1>10, <1>11

LEMMA NextGate ==
    ASSUME IndInv, [Next]_vars, NEW k \in Keys
    PROVE  GateStep(k) /\ FinalStep(k)
<1>1. CASE Define \/ Trigger \/ Tick
  BY <1>1, StartingGate
<1>2. ASSUME NEW x \in Executors, ExecutorStep(x) \/ ExecutorExit(x)
      PROVE  GateStep(k) /\ FinalStep(k)
  BY <1>2, ClaimGate, OwnerGate DEF ExecutorStep
<1>3. CASE UNCHANGED vars
  BY <1>3, SameRun DEF vars, outside, Unsent
<1> QED
  BY <1>1, <1>2, <1>3, ReconcileGate, ExpiryGate DEF Next

LEMMA GateTyped ==
    ASSUME IndInv', NEW k \in Keys
    PROVE  GateOf(k)' \in Gate!JobState
<1>1. PhaseFor(run'[k].status, run'[k].outcome) \in Gate!Phases
  BY DEF PhaseFor, Gate!Phases
<1>2. run'[k].gate \in BOOLEAN
  BY DEF IndInv, TypeOK, Run
<1>3. text'[k] \in 0..1 /\ seen'[k] \in 0..1
  <2>1. text'[k] \in Nat /\ seen'[k] \in Nat
    BY DEF IndInv, TypeOK
  <2>2. text'[k] <= 1 /\ seen'[k] <= text'[k]
    BY DEF IndInv, ExecutionInv, LeftOK
  <2> QED
    BY <2>1, <2>2
<1> QED
  BY <1>1, <1>2, <1>3, GateValue DEF Gate!JobState

(* A completed or failed run is never rewritten: not by the worker whose   *)
(* attempt was reconciled meanwhile, not by a later reconciliation.        *)
THEOREM RunsFinal == Spec => RunsAreFinal
<1>1. IndInv /\ [Next]_vars =>
         [\A k \in Keys : run[k].status \in {"completed", "failed"} =>
             run'[k] = run[k]]_vars
  BY NextGate DEF FinalStep
<1> QED
  BY <1>1, Inductive, PTL DEF Spec, RunsAreFinal

(* The execution of automation runs keeps the promise of OnceGate: a run's *)
(* gate opens at most once, one text at most leaves through it, and what   *)
(* is recorded as sent, denied or unknown is true.                         *)
THEOREM Refinement == Spec => ImplementsOnceGate
<1>1. Init => Gate!Init
  <2> SUFFICES ASSUME Init
               PROVE  [k \in Keys |-> GateOf(k)] = [k \in Keys |-> Gate!Closed]
    BY DEF Gate!Init
  <2>1. ASSUME NEW k \in Keys
        PROVE  GateOf(k) = Gate!Closed
    <3>1. /\ run[k].status = "none" /\ run[k].outcome = "none"
          /\ text[k] = 0 /\ seen[k] = 0
      BY DEF Init, NoRun
    <3>2. run[k].gate = FALSE
      BY DEF Init, NoRun
    <3> QED
      BY <3>1, <3>2, GateValue, Phases DEF Gate!Closed
  <2> QED
    BY <2>1
<1>2. IndInv /\ IndInv' /\ [Next]_vars =>
         [Gate!Next]_([k \in Keys |-> GateOf(k)])
  <2> SUFFICES ASSUME IndInv, IndInv', [Next]_vars
               PROVE  Gate!Next
    OBVIOUS
  <2>1. \A k \in Keys : GateStep(k) /\ GateOf(k)' \in Gate!JobState
    BY NextGate, GateTyped
  <2> QED
    BY <2>1 DEF Gate!Next, GateStep
<1> QED
  BY <1>1, <1>2, Inductive, PTL DEF Spec, ImplementsOnceGate, Gate!Spec

-----------------------------------------------------------------------------
(* Withdrawal.  Versions and policies are never published again under the  *)
(* same number, and every run is under numbers that have been published.   *)

UnderDefined(a, v, q) ==
    v \in Versions /\ ver[a][v] # "none" /\ q \in 1..policies

DefinedInv ==
    /\ policy <= policies
    /\ \A k \in Keys : Exists(k) =>
          UnderDefined(k[1], run[k].version, run[k].policy)
    /\ \A p \in picked : UnderDefined(p.key[1], p.version, p.policy)

(* What a step may do to the definitions.                                  *)
Grow ==
    /\ \A a \in Automations, v \in Versions : ver[a][v] # "none" =>
          /\ ver'[a][v] # "none"
          /\ ver[a][v] # "active" => ver'[a][v] # "active"
    /\ policies' \in Nat /\ policies <= policies' /\ policy' <= policies'
    /\ policy' = policy \/ policy' = 0 \/ policy' > policies

LEMMA DefinitionsGrow ==
    ASSUME IndInv, DefinedInv, [Next]_vars
    PROVE  Grow
<1>1. ASSUME NEW a \in Automations, NEW status \in PublishedStatus,
             NEW S \in Crons, ApplyAutomation(a, status, S)
      PROVE  Grow
  <2>1. PICK v \in Versions :
           /\ NextVersion(a, v)
           /\ ver' = [ver EXCEPT ![a] = [w \in Versions |->
                         CASE w = v -> status
                           [] w # v /\ ver[a][w] \in RetiredBy(status) -> "retired"
                           [] OTHER -> ver[a][w]]]
    BY <1>1 DEF ApplyAutomation
  <2>2. \A b \in Automations : b # a => ver'[b] = ver[b]
    BY <2>1 DEF IndInv, TypeOK
  <2>3. \A w \in Versions : w # v => ver'[a][w] \in {"retired", ver[a][w]}
    BY <2>1 DEF IndInv, TypeOK
  <2>4. ver[a][v] = "none"
    BY <2>1 DEF NextVersion, Versions
  <2>5. UNCHANGED <<policy, policies>>
    BY <1>1 DEF ApplyAutomation
  <2>6. \A b \in Automations, w \in Versions : ver[b][w] # "none" =>
           /\ ver'[b][w] # "none"
           /\ ver[b][w] # "active" => ver'[b][w] # "active"
    BY <2>2, <2>3, <2>4
  <2>7. policies \in Nat /\ policy \in Nat
    BY DEF IndInv, TypeOK
  <2> QED
    BY <2>5, <2>6, <2>7 DEF Grow, DefinedInv
<1>2. ASSUME NEW status \in PublishedStatus, ApplyPolicy(status)
      PROVE  Grow
  <2>1. ver' = ver /\ policies' = policies + 1 /\ (policy' = policies + 1 \/ policy' = 0 \/ policy' = policy)
    BY <1>2 DEF ApplyPolicy
  <2>2. policies \in Nat /\ policy \in Nat /\ policy <= policies
    BY DEF DefinedInv, IndInv, TypeOK
  <2> QED
    BY <2>1, <2>2 DEF Grow
<1>3. CASE UNCHANGED <<ver, policy, policies>>
  BY <1>3 DEF Grow, DefinedInv, IndInv, TypeOK
<1>4. ASSUME Switch \/ Trigger \/ Tick \/ ExecutionStep \/ UNCHANGED vars
      PROVE  UNCHANGED <<ver, policy, policies>>
  BY <1>4
     DEF Switch, Trigger, DispatchOnce, CaptureEvent, SelectEventAutomation,
         InsertEventRun, ConsumerExit, Tick, ExecutionStep,
         ReconcileStaleAttempts, ExecutorStep, ClaimOne, BuildPlan,
         ExecuteAgentTurn, CommitRosterAccessGate, ReadRoster, CommitSendGate,
         SendText, Finish, ExecutorExit, ClaimExpires, definitions, vars
<1> QED
  BY <1>1, <1>2, <1>3, <1>4 DEF Next, Define, ExecutionStep

LEMMA StillDefined ==
    ASSUME Grow, IndInv, NEW a \in Automations, NEW v, NEW q,
           UnderDefined(a, v, q)
    PROVE  UnderDefined(a, v, q)'
BY DEF Grow, UnderDefined, IndInv, TypeOK

LEMMA KeyStream ==
    /\ \A k \in Keys : k[1] \in Automations
    /\ TypeOK => \A p \in picked : p.key \in Keys
BY KeyKinds, Numbers DEF TypeOK, Picked

LEMMA DefinedStep ==
    ASSUME IndInv, DefinedInv, [Next]_vars
    PROVE  DefinedInv'
<1>1. Grow /\ TypeOK
  BY DefinitionsGrow DEF IndInv
(* It is enough that every run and every picked automation was there       *)
(* before, or is under what was defined before.                            *)
<1>2. ASSUME \A k \in Keys : Exists(k)' =>
                UnderDefined(k[1], run'[k].version, run'[k].policy),
             \A p \in picked' : p.key \in Keys
                                /\ UnderDefined(p.key[1], p.version, p.policy)
      PROVE  DefinedInv'
  <2>1. \A k \in Keys : Exists(k)' =>
           UnderDefined(k[1], run[k].version, run[k].policy)'
    <3> SUFFICES ASSUME NEW k \in Keys, Exists(k)'
                 PROVE  UnderDefined(k[1], run[k].version, run[k].policy)'
      OBVIOUS
    <3>1. PICK v : v = run'[k].version
      OBVIOUS
    <3>2. PICK q : q = run'[k].policy
      OBVIOUS
    <3>3. UnderDefined(k[1], v, q)'
      BY <1>1, <1>2, <3>1, <3>2, KeyStream, StillDefined
    <3> QED
      BY <3>1, <3>2, <3>3
  <2>2. \A p \in picked' : UnderDefined(p.key[1], p.version, p.policy)'
    BY <1>1, <1>2, KeyStream, StillDefined
  <2> QED
    BY <1>1, <2>1, <2>2 DEF DefinedInv, Grow
<1>3. CASE run' = run /\ picked' = picked
  BY <1>1, <1>2, <1>3, KeyStream DEF DefinedInv, Exists
<1>4. ASSUME NEW S, DispatchOnce(S)
      PROVE  DefinedInv'
  <2>1. PICK B \in SUBSET (Scheduled \X Versions) :
           /\ Batch(B, S)
           /\ run' = [k \in Keys |->
                         IF run[k] = NoRun /\ \E d \in B : DueKey(d) = k
                         THEN QueuedRun(k[2], policy)
                         ELSE run[k]]
    BY <1>4 DEF DispatchOnce
  <2>2. picked' = picked
    BY <1>4 DEF DispatchOnce, triggers
  <2>3. ASSUME NEW k \in Keys, NEW d \in B, DueKey(d) = k
        PROVE  UnderDefined(k[1], k[2], policy)
    <3>1. /\ d[1] \in Scheduled /\ d[2] \in Versions
          /\ ver[d[1]][d[2]] = "active" /\ policy # 0
      BY <2>1 DEF Batch, Due, Startable
    <3>2. k[1] = d[1] /\ k[2] = d[2]
      BY <2>3 DEF DueKey, ScheduleKey
    <3> QED
      BY <1>1, <3>1, <3>2 DEF UnderDefined, DefinedInv, TypeOK
  <2>4. \A v, q : QueuedRun(v, q).version = v /\ QueuedRun(v, q).policy = q
    BY DEF QueuedRun
  <2>5. \A k \in Keys : Exists(k)' =>
           UnderDefined(k[1], run'[k].version, run'[k].policy)
    <3> SUFFICES ASSUME NEW k \in Keys, Exists(k)'
                 PROVE  UnderDefined(k[1], run'[k].version, run'[k].policy)
      OBVIOUS
    <3>1. CASE run'[k] = run[k]
      BY <3>1 DEF DefinedInv, Exists
    <3>2. CASE run'[k] = QueuedRun(k[2], policy) /\ \E d \in B : DueKey(d) = k
      BY <2>3, <2>4, <3>2
    <3> QED
      BY <2>1, <3>1, <3>2
  <2> QED
    BY <1>1, <1>2, <2>2, <2>5, KeyStream DEF DefinedInv
<1>5. ASSUME NEW e \in Events, NEW a \in Automations \ Scheduled,
             NEW v \in Versions, SelectEventAutomation(a, v, e)
      PROVE  DefinedInv'
  <2>1. PICK n : n = [key |-> EventKey(a, e), version |-> v, policy |-> policy]
    OBVIOUS
  <2>2. run' = run /\ picked' = picked \cup {n}
    BY <1>5, <2>1 DEF SelectEventAutomation
  <2>3. n.key = EventKey(a, e) /\ n.version = v /\ n.policy = policy
    BY <2>1
  <2>4. n.key \in Keys /\ n.key[1] = a
    BY <2>3 DEF Keys, EventKey
  <2>5. UnderDefined(a, v, policy)
    BY <1>1, <1>5
       DEF SelectEventAutomation, EventStarts, Startable, UnderDefined,
           DefinedInv, TypeOK
  <2> QED
    BY <1>1, <1>2, <2>2, <2>3, <2>4, <2>5, KeyStream DEF DefinedInv, Exists
<1>6. ASSUME NEW p \in picked, InsertEventRun(p) \/ ConsumerExit(p)
      PROVE  DefinedInv'
  <2>1. /\ picked' \subseteq picked
        /\ \/ run' = run
           \/ run' = [run EXCEPT ![p.key] = QueuedRun(p.version, p.policy)]
    BY <1>6 DEF InsertEventRun, ConsumerExit
  <2>2. \A v, q : QueuedRun(v, q).version = v /\ QueuedRun(v, q).policy = q
    BY DEF QueuedRun
  <2>3. \A k \in Keys : \/ run'[k] = run[k]
                        \/ /\ k = p.key
                           /\ run'[k] = QueuedRun(p.version, p.policy)
    BY <1>1, <2>1 DEF TypeOK
  <2>4. \A k \in Keys : Exists(k)' =>
           UnderDefined(k[1], run'[k].version, run'[k].policy)
    BY <2>2, <2>3 DEF DefinedInv, Exists
  <2> QED
    BY <1>1, <1>2, <2>1, <2>4, KeyStream DEF DefinedInv
<1>7. CASE ExecutionStep
  <2>1. picked' = picked
    BY <1>7
       DEF ExecutionStep, ReconcileStaleAttempts, ExecutorStep, ClaimOne,
           BuildPlan, ExecuteAgentTurn, CommitRosterAccessGate, ReadRoster,
           CommitSendGate, SendText, Finish, ExecutorExit, ClaimExpires, triggers
  <2>2. \A k \in Keys : RunStep(k)
    BY <1>7, ExecutionSteps
  <2>3. \A k \in Keys : Exists(k)' => Exists(k)
    BY <2>2, NoRunType DEF RunStep, Exists
  <2>4. \A k \in Keys : Exists(k)' =>
           UnderDefined(k[1], run'[k].version, run'[k].policy)
    BY <2>2, <2>3 DEF DefinedInv, RunStep
  <2> QED
    BY <1>1, <1>2, <2>1, <2>4, KeyStream DEF DefinedInv
<1>8. ASSUME \/ Define \/ Tick \/ UNCHANGED vars
             \/ \E e \in Events : CaptureEvent(e)
      PROVE  run' = run /\ picked' = picked
  BY <1>8 DEF Define, ApplyAutomation, ApplyPolicy, Switch, Tick, CaptureEvent,
              triggers, vars
<1> QED
  BY <1>3, <1>4, <1>5, <1>6, <1>7, <1>8 DEF Next, Trigger, ExecutionStep

(* Only a worker whose run is authorized opens its gate or hands over its  *)
(* agent turn.                                                             *)
LEMMA OnlyAuthorizedActs ==
    ASSUME IndInv, [Next]_vars, NEW k \in Keys, ~Authorized(k)
    PROVE  /\ run'[k].gate => run[k].gate
           /\ k \in turns' => k \in turns
<1>1. TypeOK
  BY DEF IndInv
<1>2. CASE Define \/ Trigger \/ Tick
  <2>1. \A v, q : QueuedRun(v, q).gate = FALSE
    BY DEF QueuedRun
  <2>2. run'[k].gate => run[k].gate
    BY <1>1, <1>2, <2>1, StartingSteps
  <2>3. turns' = turns
    BY <1>2
       DEF Define, ApplyAutomation, ApplyPolicy, Switch, Trigger, DispatchOnce,
           CaptureEvent, SelectEventAutomation, InsertEventRun, ConsumerExit,
           Tick, outside
  <2> QED
    BY <2>2, <2>3
<1>3. ASSUME NEW x \in Executors, NEW S, ReconcileStaleAttempts(x, S)
      PROVE  run'[k].gate = run[k].gate /\ turns' = turns
  <2>1. run' = [j \in Keys |-> IF j \in S /\ Stale(j) THEN Reconciled(j) ELSE run[j]]
        /\ turns' = turns
    BY <1>3 DEF ReconcileStaleAttempts, outside
  <2>2. run'[k] = run[k] \/ run'[k] = Reconciled(k)
    BY <1>1, <2>1
  <2>3. run[k] \in Run
    BY <1>1 DEF TypeOK
  <2> QED
    BY <2>1, <2>2, <2>3 DEF Reconciled, Failed, Run
<1>4. ASSUME NEW x \in Executors, ClaimOne(x)
      PROVE  run'[k].gate = run[k].gate /\ turns' = turns
  <2>1. turns' = turns
    BY <1>4 DEF ClaimOne, outside
  <2>2. run'[k] = run[k] \/ run'[k] = Claimed(k)
    BY <1>1, <1>4 DEF ClaimOne, TypeOK
  <2>3. Claimed(k).gate = run[k].gate
    BY <1>1 DEF Claimed, TypeOK, Run
  <2> QED
    BY <2>1, <2>2, <2>3
<1>5. ASSUME NEW x \in Executors,
             BuildPlan(x) \/ ReadRoster(x) \/ SendText(x) \/ ExecutorExit(x)
      PROVE  run' = run /\ turns' = turns
  BY <1>5 DEF BuildPlan, ReadRoster, SendText, ExecutorExit, outside
<1>6. ASSUME NEW x \in Executors, ExecuteAgentTurn(x)
      PROVE  run'[k] = run[k] /\ (k \in turns' => k \in turns)
  BY <1>1, <1>6 DEF ExecuteAgentTurn, TypeOK
<1>7. ASSUME NEW x \in Executors, CommitSendGate(x)
      PROVE  run'[k] = run[k] /\ turns' = turns
  BY <1>1, <1>7 DEF CommitSendGate, TypeOK, outside
<1>8. ASSUME NEW x \in Executors, CommitRosterAccessGate(x)
      PROVE  run'[k] = run[k] /\ turns' = turns
  BY <1>1, <1>8 DEF CommitRosterAccessGate, TypeOK, outside
<1>9. ASSUME NEW x \in Executors, Finish(x)
      PROVE  run'[k].gate = run[k].gate /\ turns' = turns
  <2>1. PICK j : executor[x].key = j
    OBVIOUS
  <2>2. PICK pc : executor[x].pc = pc
    OBVIOUS
  <2>3. /\ turns' = turns
        /\ pc \in {"done", "sent", "failed", "ambiguous"}
        /\ run' = run \/ run' = [run EXCEPT ![j] = Terminal(j, pc)]
    BY <1>9, <2>1, <2>2 DEF Finish, outside
  <2>4. \A o : Completed(k, o).gate = run[k].gate /\ Failed(k, o).gate = run[k].gate
    BY <1>1 DEF Completed, Failed, TypeOK, Run
  <2>5. Terminal(k, pc).gate = run[k].gate
    BY <2>3, <2>4 DEF Terminal
  <2>6. run'[k] = run[k] \/ run'[k] = Terminal(k, pc)
    BY <1>1, <2>3 DEF TypeOK
  <2> QED
    BY <2>3, <2>5, <2>6
<1>10. ASSUME NEW j \in Keys, ClaimExpires(j)
       PROVE  run'[k].gate = run[k].gate /\ turns' = turns
  BY <1>1, <1>10 DEF ClaimExpires, TypeOK, Run, outside
<1>11. CASE UNCHANGED vars
  BY <1>11 DEF vars, outside
<1> QED
  BY <1>2, <1>3, <1>4, <1>5, <1>6, <1>7, <1>8, <1>9, <1>10, <1>11
     DEF Next, ExecutorStep

Blocked(k) == Withdrawn(k) /\ ~run[k].gate /\ k \notin turns

LEMMA BlockedStep ==
    ASSUME IndInv, DefinedInv, [Next]_vars, NEW k \in Keys, Blocked(k)
    PROVE  Blocked(k)'
<1>1. Grow /\ TypeOK
  BY DefinitionsGrow DEF IndInv
<1>2. Exists(k) /\ k[1] \in Automations
  BY KeyStream DEF Blocked, Withdrawn, Exists
<1>3. UnderDefined(k[1], run[k].version, run[k].policy)
  BY <1>2 DEF DefinedInv
<1>4. /\ run'[k] # NoRun
      /\ run'[k].version = run[k].version /\ run'[k].policy = run[k].policy
  <2>1. CASE Define \/ Trigger \/ Tick
    BY <1>1, <1>2, <2>1, StartingSteps DEF Exists
  <2>2. CASE ExecutionStep
    BY <1>2, <2>2, ExecutionSteps, NoRunType DEF RunStep, Exists
  <2>3. CASE UNCHANGED vars
    BY <1>2, <2>3 DEF vars, Exists
  <2> QED
    BY <2>1, <2>2, <2>3 DEF Next, ExecutionStep
<1>5. \/ ver'[k[1]][run[k].version] # "active"
      \/ run[k].policy # policy'
  <2>1. CASE ver[k[1]][run[k].version] # "active"
    BY <1>1, <1>2, <1>3, <2>1 DEF Grow, UnderDefined
  <2>2. CASE run[k].policy # policy
    <3>1. run[k].policy \in Nat /\ run[k].policy # 0 /\ run[k].policy <= policies
      BY <1>1, <1>3 DEF UnderDefined, TypeOK
    <3>2. policies \in Nat /\ policy' \in Nat
      BY NextInd DEF IndInv, TypeOK
    <3> QED
      BY <1>1, <2>2, <3>1, <3>2 DEF Grow
  <2> QED
    BY <2>1, <2>2 DEF Blocked, Withdrawn, AutomationOf
<1>6. ~Authorized(k)
  BY DEF Blocked, Withdrawn, Authorized
<1>7. ~run'[k].gate /\ k \notin turns'
  BY <1>6, OnlyAuthorizedActs DEF Blocked
<1> QED
  BY <1>4, <1>5, <1>7 DEF Blocked, Withdrawn, AutomationOf

(* Once the definition version or the policy of a run is withdrawn before  *)
(* its send gate, its text never leaves and its agent turn is never handed *)
(* over, wherever its worker is and whatever is published later.           *)
THEOREM WithdrawnStops == Spec => WithdrawnNeverActs
<1>1. Init => DefinedInv
  BY DEF Init, DefinedInv, Exists
<1>2. IndInv /\ DefinedInv /\ [Next]_vars => DefinedInv'
  BY DefinedStep
<1>3. Spec => []DefinedInv
  BY <1>1, <1>2, Inductive, PTL DEF Spec
<1>4. ASSUME NEW k \in Keys
      PROVE  Spec => [](Blocked(k) => [](text[k] = 0 /\ k \notin turns))
  <2>1. IndInv /\ DefinedInv /\ [Next]_vars /\ Blocked(k) => Blocked(k)'
    BY BlockedStep
  <2>2. IndInv /\ Blocked(k) => text[k] = 0 /\ k \notin turns
    BY DEF IndInv, ExecutionInv, LeftOK, Blocked
  <2> QED
    BY <1>3, <2>1, <2>2, Inductive, PTL DEF Spec
<1>5. Spec => \A k \in Keys : [](Blocked(k) => [](text[k] = 0 /\ k \notin turns))
  BY <1>4, Zenon
<1> QED
  BY <1>5 DEF WithdrawnNeverActs, Blocked

=============================================================================
