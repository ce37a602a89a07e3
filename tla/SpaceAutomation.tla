-------------------------- MODULE SpaceAutomation --------------------------
(***************************************************************************)
(* How one Space's confirmed automation definitions become messages:       *)
(* versions are published and superseded (space_configuration.rs), the     *)
(* schedule dispatcher and the channel event consumer turn them into       *)
(* queued space_automation_run work items (automation_dispatcher.rs,       *)
(* channel_event_mapping.rs), and execution workers claim each run, check  *)
(* again that what it was created under still holds, and send one text or  *)
(* hand over one agent turn (space_automation_execution.rs).               *)
(*                                                                         *)
(* Postgres holds the definition versions (ver, cron, cursor, policy), the *)
(* capability and conversation switches (enabled), the captured raw events *)
(* (captured) and the runs.  picked are event automations a consumer has   *)
(* read but not yet inserted a run for.  text, seen and turns are what     *)
(* happened outside: texts that may have left, texts that arrived, agent   *)
(* turns handed to the runner.                                             *)
(*                                                                         *)
(* A business definition is superseded only together with the automations  *)
(* bound to it, so a version here stands for an automation version with    *)
(* the business and event mapping versions it binds.                       *)
(***************************************************************************)
EXTENDS Naturals, FiniteSets

CONSTANTS
    Automations,    \* automation definition streams of the Space
    Scheduled,      \* those with a schedule trigger; the others have events
    AgentTurns,     \* those whose business runs as an agent turn
    Addressed,      \* those whose text names members, so needs the roster
    MaxVersion,     \* bound: versions of one stream
    MaxPolicy,      \* bound: versions of the default Space policy
    Horizon,        \* bound: the last minute of the clock
    Crons,          \* sets of minutes a cron expression may select
    Events,         \* provider events, each in a raw event of its own
    BatchSize,      \* dispatcher batch size
    Executors,      \* space automation execution workers
    NoKey           \* value of an idle executor's run

ASSUME SpaceConstants ==
    /\ Scheduled \subseteq Automations
    /\ AgentTurns \subseteq Automations
    /\ Addressed \subseteq Automations
    /\ MaxVersion \in Nat \ {0}
    /\ MaxPolicy \in Nat \ {0}
    /\ Horizon \in Nat \ {0}
    /\ Crons \subseteq SUBSET (1..Horizon)
    /\ BatchSize \in Nat \ {0}

VARIABLES now, ver, cron, cursor, policy, policies, enabled,
          captured, picked, run, executor, text, seen, turns

definitions == <<ver, cron, cursor, policy, policies, enabled>>
triggers == <<now, captured, picked>>
outside == <<text, seen, turns>>

vars == <<definitions, triggers, run, executor, outside>>

Versions == 1..MaxVersion
Minutes == 1..Horizon
Never == Horizon + 1

(* The idempotency keys: a scheduled run is keyed by the version's row and *)
(* the minute, an event run by the stream and the event.                   *)
ScheduleKey(a, v, m) == <<a, v, m>>

EventKey(a, e) == <<a, 0, e>>

Keys ==
    {ScheduleKey(a, v, m) : a \in Scheduled, v \in Versions, m \in Minutes}
    \cup {EventKey(a, e) : a \in Automations \ Scheduled, e \in Events}

AutomationOf(k) == k[1]

PublishedStatus == {"draft", "shadow", "active", "paused", "retired"}
RunStatus == {"none", "queued", "processing", "completed", "failed"}
SendOutcome == {"none", "pending", "not_sent", "sending", "sent", "unknown"}

Run == [status : RunStatus,
        version : 0..MaxVersion,
        policy : 0..MaxPolicy,
        claim : {"none", "live", "expired"},
        outcome : SendOutcome,
        gate : BOOLEAN]

NoRun == [status |-> "none", version |-> 0, policy |-> 0,
          claim |-> "none", outcome |-> "none", gate |-> FALSE]

QueuedRun(v, p) == [status |-> "queued", version |-> v, policy |-> p,
                    claim |-> "none", outcome |-> "none", gate |-> FALSE]

Picked == [key : Keys, version : Versions, policy : 1..MaxPolicy]

ExecutorPc == {"idle", "claim", "plan", "turn", "roster", "read", "gate",
               "send", "done", "failed", "sent", "ambiguous"}

Idle == [pc |-> "idle", key |-> NoKey]

Init ==
    /\ now = 0
    /\ ver = [a \in Automations |-> [v \in Versions |-> "none"]]
    /\ cron = [a \in Automations |-> [v \in Versions |-> {}]]
    /\ cursor = [a \in Automations |-> [v \in Versions |-> Never]]
    /\ policy = 0
    /\ policies = 0
    /\ enabled = TRUE
    /\ captured = [e \in Events |-> [a \in Automations |-> 0]]
    /\ picked = {}
    /\ run = [k \in Keys |-> NoRun]
    /\ executor = [x \in Executors |-> Idle]
    /\ text = [k \in Keys |-> 0]
    /\ seen = [k \in Keys |-> 0]
    /\ turns = {}

-----------------------------------------------------------------------------
(* Definitions: confirm applies one change of an approved proposal.        *)

\* max(version) + 1 of a stream.
NextVersion(a, v) ==
    \A w \in Versions : ver[a][w] # "none" <=> w < v

SupersedesActive(status) == status \in {"active", "paused", "retired"}

\* Mutant: the new version retires nothing.
RetiredByMutant(status) == {}

\* The statuses a published version retires in its stream.
RetiredBy(status) ==
    CASE status = "shadow" -> {"shadow"}
      [] SupersedesActive(status) -> {"active", "shadow"}
      [] OTHER -> {}

\* Mutant: the search starts with the minute it is asked about.
NextScheduleRunMutant(S, t) ==
    CHOOSE m \in S \cup {Never} :
       m >= t /\ \A n \in S : n >= t => m <= n

\* next_schedule_run: the first minute the cron selects after t.
NextScheduleRun(S, t) ==
    CHOOSE m \in S \cup {Never} :
       m > t /\ \A n \in S : n > t => m <= n

\* apply_automation_definition
ApplyAutomation(a, status, S) ==
    \E v \in Versions :
       /\ NextVersion(a, v)
       /\ ver' = [ver EXCEPT ![a] = [w \in Versions |->
                     CASE w = v -> status
                       [] w # v /\ ver[a][w] \in RetiredBy(status) -> "retired"
                       [] OTHER -> ver[a][w]]]
       /\ cron' = [cron EXCEPT ![a][v] = S]
       /\ cursor' = [cursor EXCEPT ![a] = [w \in Versions |->
                        CASE w = v -> IF status = "active" /\ a \in Scheduled
                                      THEN NextScheduleRun(S, now)
                                      ELSE Never
                          [] w # v /\ ver[a][w] \in RetiredBy(status) -> Never
                          [] OTHER -> cursor[a][w]]]
       /\ UNCHANGED <<policy, policies, enabled, triggers, run, executor, outside>>

\* apply_space_policy, the `default` stream.
ApplyPolicy(status) ==
    /\ policies < MaxPolicy
    /\ policies' = policies + 1
    /\ policy' = IF status = "active" THEN policies + 1
                 ELSE IF SupersedesActive(status) THEN 0
                 ELSE policy
    /\ UNCHANGED <<ver, cron, cursor, enabled, triggers, run, executor, outside>>

\* An owner switches a capability, the agent-turn runtime becomes ready or
\* stops being so, or the conversation's status changes.  One flag stands for
\* all of them: a step that needs only some is taken while the flag is up.
Switch ==
    /\ enabled' = ~enabled
    /\ UNCHANGED <<ver, cron, cursor, policy, policies, triggers, run, executor,
                   outside>>

-----------------------------------------------------------------------------
(* Triggers.                                                               *)

\* Version v of a may start runs, as both trigger queries require.
Startable(a, v) == ver[a][v] = "active" /\ policy # 0 /\ enabled

Due ==
    {d \in Scheduled \X Versions :
        Startable(d[1], d[2]) /\ cursor[d[1]][d[2]] <= now}

\* The batch taken from the unlocked rows S, earliest cursors first.
Batch(B, S) ==
    LET open == Due \cap S
    IN  /\ B \subseteq open
        /\ B # {}
        /\ Cardinality(B) <= BatchSize
        /\ Cardinality(B) < BatchSize => B = open
        /\ \A b \in B, d \in open \ B :
              cursor[b[1]][b[2]] <= cursor[d[1]][d[2]]

\* The key of the run that a due version d would start now.
DueKey(d) == ScheduleKey(d[1], d[2], cursor[d[1]][d[2]])

\* Mutant: the cursor stays where it is.
CursorAfterMutant(d) == cursor[d[1]][d[2]]

\* misfire policy run_once: occurrences missed before now are skipped.  The
\* search starts from now.max(scheduled_for), which is now for a due row.
CursorAfter(d) ==
    NextScheduleRun(cron[d[1]][d[2]], now)

\* dispatch_once: one transaction over the batch.
DispatchOnce(S) ==
    \E B \in SUBSET (Scheduled \X Versions) :
       /\ Batch(B, S)
       /\ run' = [k \in Keys |->
                     IF run[k] = NoRun /\ \E d \in B : DueKey(d) = k
                     THEN QueuedRun(k[2], policy)
                     ELSE run[k]]
       /\ cursor' = [a \in Automations |-> [v \in Versions |->
                        IF <<a, v>> \in B THEN CursorAfter(<<a, v>>)
                        ELSE cursor[a][v]]]
       /\ UNCHANGED <<ver, cron, policy, policies, enabled, triggers, executor,
                      outside>>

\* The consumer persists raw event e; created_at, which later deliveries keep,
\* orders it after every version that exists now.  An event that arrives
\* before any version exists starts nothing.
CaptureEvent(e) ==
    /\ \A a \in Automations : captured[e][a] = 0
    /\ captured' = [captured EXCEPT ![e] = [a \in Automations |->
                       Cardinality({v \in Versions : ver[a][v] # "none"})]]
    /\ UNCHANGED <<now, picked, definitions, run, executor, outside>>

\* Mutant: an event also starts versions activated after it arrived.
EventStartsMutant(a, v, e) ==
    /\ captured[e][a] # 0
    /\ Startable(a, v)

\* Event e may start version v: active now, and activated before e arrived.
EventStarts(a, v, e) ==
    /\ v <= captured[e][a]
    /\ Startable(a, v)

\* dispatch_event_automations, its query.  Any number of deliveries of e.
SelectEventAutomation(a, v, e) ==
    /\ EventStarts(a, v, e)
    /\ picked' = picked \cup
                    {[key |-> EventKey(a, e), version |-> v, policy |-> policy]}
    /\ UNCHANGED <<now, captured, definitions, run, executor, outside>>

\* dispatch_event_automations, the insert of one run.
InsertEventRun(p) ==
    /\ picked' = picked \ {p}
    /\ run' = IF run[p.key] = NoRun
              THEN [run EXCEPT ![p.key] = QueuedRun(p.version, p.policy)]
              ELSE run
    /\ UNCHANGED <<now, captured, definitions, executor, outside>>

\* The consumer dies between the query and the insert.
ConsumerExit(p) ==
    /\ picked' = picked \ {p}
    /\ UNCHANGED <<now, captured, definitions, run, executor, outside>>

-----------------------------------------------------------------------------
(* The execution worker.                                                   *)

Move(x, pc) == executor' = [executor EXCEPT ![x].pc = pc]

\* Mutant: only an attempt that was about to send is looked for.
StaleMutant(k) ==
    /\ run[k].status = "processing"
    /\ run[k].claim = "expired"
    /\ run[k].outcome = "sending"

Stale(k) == run[k].status = "processing" /\ run[k].claim = "expired"

Failed(k, outcome) == [run[k] EXCEPT !.status = "failed", !.claim = "none",
                                     !.outcome = outcome]
Completed(k, outcome) == [run[k] EXCEPT !.status = "completed", !.claim = "none",
                                        !.outcome = outcome]

\* Mutant: an expired attempt is queued again.
ReconciledMutant(k) == QueuedRun(run[k].version, run[k].policy)

\* What an expired attempt becomes, whether or not its gate was opened.
Reconciled(k) == Failed(k, "unknown")

\* reconcile_stale_attempts: every expired attempt among the unlocked runs S.
ReconcileStaleAttempts(x, S) ==
    /\ executor[x].pc = "idle"
    /\ run' = [k \in Keys |->
                  IF k \in S /\ Stale(k) THEN Reconciled(k) ELSE run[k]]
    /\ Move(x, "claim")
    /\ UNCHANGED <<definitions, triggers, outside>>

\* eligible_claim_query: what run k is pinned to is still what is active.  No
\* trigger starts a shadow version and none becomes one later, so the query's
\* shadow branch and the Shadow plan it leads to are left out.
Eligible(k) ==
    /\ run[k].status = "queued"
    /\ ver[AutomationOf(k)][run[k].version] = "active"
    /\ run[k].policy = policy
    /\ enabled

\* claim_one
Claimed(k) == [run[k] EXCEPT !.status = "processing", !.claim = "live",
                             !.outcome = "pending"]

ClaimOne(x) ==
    /\ executor[x].pc = "claim"
    /\ \/ \E k \in Keys :
             /\ Eligible(k)
             /\ run' = [run EXCEPT ![k] = Claimed(k)]
             /\ executor' = [executor EXCEPT ![x] = [pc |-> "plan", key |-> k]]
       \/ /\ \A k \in Keys : ~Eligible(k)
          /\ executor' = [executor EXCEPT ![x] = Idle]
          /\ UNCHANGED run
    /\ UNCHANGED <<definitions, triggers, outside>>

\* validate_claim_and_build_plan
BuildPlan(x) ==
    LET k == executor[x].key
        a == AutomationOf(k)
    IN  /\ executor[x].pc = "plan"
        /\ \/ Move(x, "failed")
           \/ Move(x, IF a \in AgentTurns THEN "turn"
                      ELSE IF a \in Addressed THEN "roster"
                      ELSE "gate")
        /\ UNCHANGED <<definitions, triggers, run, outside>>

\* Mutant: the definitions are not checked again after the claim.
AuthorizedMutant(k) ==
    /\ run[k].status = "processing"
    /\ run[k].claim = "live"
    /\ enabled

\* Mutant: a claim that has expired is accepted.
AuthorizedMutantExpired(k) ==
    /\ ver[AutomationOf(k)][run[k].version] = "active"
    /\ run[k].policy = policy
    /\ enabled

\* authorize_live_claim_in_tx
Authorized(k) ==
    /\ run[k].status = "processing"
    /\ run[k].claim = "live"
    /\ ver[AutomationOf(k)][run[k].version] = "active"
    /\ run[k].policy = policy
    /\ enabled

\* execute_agent_turn: authorization, the child work item and the completion
\* of the run in one transaction; any error ends the process.
ExecuteAgentTurn(x) ==
    LET k == executor[x].key
    IN  /\ executor[x].pc = "turn"
        /\ Authorized(k)
        /\ turns' = turns \cup {k}
        /\ run' = [run EXCEPT ![k] = Completed(k, "none")]
        /\ executor' = [executor EXCEPT ![x] = Idle]
        /\ UNCHANGED <<definitions, triggers, text, seen>>

\* commit_qiwe_roster_access_gate; refused, failed, or committed with the
\* acknowledgement lost, the run is then failed as not sent.
CommitRosterAccessGate(x) ==
    LET k == executor[x].key
    IN  /\ executor[x].pc = "roster"
        /\ \/ /\ Authorized(k)
              /\ run' = [run EXCEPT ![k].outcome = "not_sent"]
              /\ Move(x, "read") \/ Move(x, "failed")
           \/ Move(x, "failed") /\ UNCHANGED run
        /\ UNCHANGED <<definitions, triggers, outside>>

\* load_exact_room_roster and the names in it: found, none left, or failed.
ReadRoster(x) ==
    /\ executor[x].pc = "read"
    /\ \E pc \in {"gate", "done", "failed"} : Move(x, pc)
    /\ UNCHANGED <<definitions, triggers, run, outside>>

\* commit_qiwe_send_gate, with the same three outcomes.
CommitSendGate(x) ==
    LET k == executor[x].key
    IN  /\ executor[x].pc = "gate"
        /\ \/ /\ Authorized(k)
              /\ run' = [run EXCEPT ![k].outcome = "sending", ![k].gate = TRUE]
              /\ Move(x, "send") \/ Move(x, "failed")
           \/ Move(x, "failed") /\ UNCHANGED run
        /\ UNCHANGED <<definitions, triggers, outside>>

\* Mutant: a response that is no confirmation counts as not sent.
SendTextMutant(x) ==
    LET k == executor[x].key
    IN  /\ executor[x].pc = "send"
        /\ \E pc \in {"sent", "failed"}, l, d \in 0..1 :
              /\ d <= l
              /\ pc = "sent" => d = 1
              /\ Move(x, pc)
              /\ text' = [text EXCEPT ![k] = @ + l]
              /\ seen' = [seen EXCEPT ![k] = @ + d]
        /\ UNCHANGED <<definitions, triggers, run, turns>>

\* send_qiwe_text: confirmed; never left; or ambiguous, when it may have left
\* (l) and may have been delivered (d).
SendText(x) ==
    LET k == executor[x].key
    IN  /\ executor[x].pc = "send"
        /\ \E pc \in {"sent", "failed", "ambiguous"}, l, d \in 0..1 :
              /\ d <= l
              /\ pc = "sent" => d = 1
              /\ pc = "failed" => l = 0
              /\ Move(x, pc)
              /\ text' = [text EXCEPT ![k] = @ + l]
              /\ seen' = [seen EXCEPT ![k] = @ + d]
        /\ UNCHANGED <<definitions, triggers, run, turns>>

\* Mutant: a run with nobody to greet gets an outcome the schema lacks.
TerminalMutant(k, pc) ==
    CASE pc = "done" -> Completed(k, "skipped")
      [] pc = "sent" -> Completed(k, "sent")
      [] pc = "failed" -> Failed(k, "not_sent")
      [] pc = "ambiguous" -> Failed(k, "unknown")

\* The run after the terminal transaction that pc stands for.
Terminal(k, pc) ==
    CASE pc = "done" -> Completed(k, "not_sent")
      [] pc = "sent" -> Completed(k, "sent")
      [] pc = "failed" -> Failed(k, "not_sent")
      [] pc = "ambiguous" -> Failed(k, "unknown")

\* Mutant: the claim is not compared.
OwnsClaimMutant(k) == TRUE

\* The terminal updates need the exact claim, expired or not.  A run is
\* claimed once, so the claim is this attempt's while it is processing.
OwnsClaim(k) == run[k].status = "processing"

\* terminal_success, terminal_failure, terminal_ambiguous; a lost claim is an
\* error that ends the process.
Finish(x) ==
    LET k == executor[x].key
        pc == executor[x].pc
    IN  /\ pc \in {"done", "sent", "failed", "ambiguous"}
        /\ run' = IF OwnsClaim(k)
                  THEN [run EXCEPT ![k] = Terminal(k, pc)]
                  ELSE run
        /\ executor' = [executor EXCEPT ![x] = Idle]
        /\ UNCHANGED <<definitions, triggers, outside>>

\* The process dies or exits on an error and is started again.
ExecutorExit(x) ==
    /\ executor[x].pc # "idle"
    /\ executor' = [executor EXCEPT ![x] = Idle]
    /\ UNCHANGED <<definitions, triggers, run, outside>>

-----------------------------------------------------------------------------
(* Time.                                                                   *)

Tick ==
    /\ now < Horizon
    /\ now' = now + 1
    /\ UNCHANGED <<captured, picked, definitions, run, executor, outside>>

\* claim_expires_at passes.
ClaimExpires(k) ==
    /\ run[k].claim = "live"
    /\ run' = [run EXCEPT ![k].claim = "expired"]
    /\ UNCHANGED <<definitions, triggers, executor, outside>>

Define ==
    \/ \E a \in Automations, status \in PublishedStatus, S \in Crons :
          ApplyAutomation(a, status, S)
    \/ \E status \in PublishedStatus : ApplyPolicy(status)
    \/ Switch

Trigger ==
    \/ \E S \in SUBSET (Scheduled \X Versions) : DispatchOnce(S)
    \/ \E e \in Events :
          \/ CaptureEvent(e)
          \/ \E a \in Automations \ Scheduled, v \in Versions :
                SelectEventAutomation(a, v, e)
    \/ \E p \in picked : InsertEventRun(p) \/ ConsumerExit(p)

ExecutorStep(x) ==
    \/ ClaimOne(x)
    \/ BuildPlan(x)
    \/ ExecuteAgentTurn(x)
    \/ CommitRosterAccessGate(x)
    \/ ReadRoster(x)
    \/ CommitSendGate(x)
    \/ SendText(x)
    \/ Finish(x)

Next ==
    \/ Define
    \/ Trigger
    \/ \E x \in Executors :
          \/ \E S \in SUBSET {k \in Keys : Stale(k)} :
                ReconcileStaleAttempts(x, S)
          \/ ExecutorStep(x)
          \/ ExecutorExit(x)
    \/ Tick
    \/ \E k \in Keys : ClaimExpires(k)

Spec == Init /\ [][Next]_vars

(* The dispatcher timer fires again and finds no row locked; the execution *)
(* service is restarted when it exits and its loop goes on; row locks last *)
(* one transaction, so not every reconciliation skips the same row; claims *)
(* expire.  Nothing makes an administrator publish, or an event arrive.    *)
Fairness ==
    /\ WF_vars(DispatchOnce(Scheduled \X Versions))
    /\ \A x \in Executors :
          /\ SF_vars(ReconcileStaleAttempts(x, Keys))
          /\ WF_vars(ExecutorStep(x) \/ ExecutorExit(x))
    /\ \A k \in Keys : WF_vars(ClaimExpires(k))

FairSpec == Spec /\ Fairness

-----------------------------------------------------------------------------
(* Properties.                                                             *)

TypeOK ==
    /\ now \in 0..Horizon
    /\ ver \in [Automations -> [Versions -> {"none"} \cup PublishedStatus]]
    /\ cron \in [Automations -> [Versions -> SUBSET Minutes]]
    /\ cursor \in [Automations -> [Versions -> 1..Never]]
    /\ policy \in 0..MaxPolicy
    /\ policies \in 0..MaxPolicy
    /\ enabled \in BOOLEAN
    /\ captured \in [Events -> [Automations -> 0..MaxVersion]]
    /\ picked \subseteq Picked
    /\ run \in [Keys -> Run]
    /\ executor \in [Executors -> [pc : ExecutorPc, key : Keys \cup {NoKey}]]
    /\ text \in [Keys -> Nat]
    /\ seen \in [Keys -> Nat]
    /\ turns \subseteq Keys

\* Two runs for the same occasion: the same stream and the same minute or event.
SameOccasion(j, k) == j[1] = k[1] /\ j[3] = k[3]

\* An occasion is served once: however definitions are superseded between a
\* dispatch and the next, an automation gets at most one run for one minute
\* and sends at most one text for it.
OncePerOccasion ==
    \A j, k \in Keys :
       SameOccasion(j, k) /\ run[j] # NoRun /\ run[k] # NoRun =>
          j = k /\ text[k] <= 1

\* The cursor of an active version is ahead of every run it has started, so a
\* dispatch that is repeated or follows a crash never silently drops a new
\* occurrence on the idempotency key of an old one.
CursorAhead ==
    \A a \in Scheduled, v \in Versions :
       ver[a][v] = "active" =>
          \A k \in Keys :
             k[1] = a /\ k[2] = v /\ run[k] # NoRun => k[3] < cursor[a][v]

\* Activation is not retroactive: an event never runs under a version that was
\* activated after the event was first persisted, however often the consumer
\* processes it again.
NotRetroactive ==
    \A k \in Keys :
       k[1] \notin Scheduled /\ run[k] # NoRun =>
          run[k].version <= captured[k[3]][k[1]]

\* What a finished run records is true: `sent` means the text arrived, and a
\* text that may have left is never recorded as not sent.
RunHonest ==
    \A k \in Keys :
       /\ run[k].outcome = "sent" => seen[k] = 1
       /\ text[k] > 0 => run[k].outcome \in {"sending", "sent", "unknown"}

\* What run k was created under has been withdrawn for good.
Withdrawn(k) ==
    /\ run[k] # NoRun
    /\ \/ ver[AutomationOf(k)][run[k].version] # "active"
       \/ run[k].policy # policy

\* Withdrawing a definition or the policy stops every run that has not passed
\* its send gate, wherever its worker is: no text and no agent turn follows.
WithdrawnNeverActs ==
    \A k \in Keys :
       [](Withdrawn(k) /\ ~run[k].gate /\ k \notin turns =>
             [](text[k] = 0 /\ k \notin turns))

\* A finished run is final: no late worker or reconciliation rewrites it.
RunsAreFinal ==
    [][\A k \in Keys :
          run[k].status \in {"completed", "failed"} => run'[k] = run[k]]_vars

\* A due version is dispatched, unless it is withdrawn or switched off first.
DueDispatched ==
    \A a \in Scheduled, v \in Versions :
       (Startable(a, v) /\ cursor[a][v] <= now) ~>
          ~(Startable(a, v) /\ cursor[a][v] <= now)

\* No run stays claimed, also when its worker died.
ProcessingResolves ==
    \A k \in Keys :
       run[k].status = "processing" ~> run[k].status # "processing"

(* The promise the execution of a run makes to the rest of the system.     *)
GateOf(k) ==
    [phase |-> CASE run[k].outcome = "sent" -> "sent"
                 [] run[k].outcome = "unknown" -> "unknown"
                 [] run[k].status \in {"completed", "failed"}
                    /\ run[k].outcome \notin {"sent", "unknown"} -> "denied"
                 [] run[k].outcome = "sending" /\ run[k].status = "processing" -> "open"
                 [] OTHER -> "closed",
     gate |-> run[k].gate,
     calls |-> text[k],
     effect |-> seen[k]]

Gate == INSTANCE OnceGate
            WITH Jobs <- Keys, job <- [k \in Keys |-> GateOf(k)]

\* The execution of automation runs implements the abstract once-only gate.
ImplementsOnceGate == Gate!Spec

=============================================================================
