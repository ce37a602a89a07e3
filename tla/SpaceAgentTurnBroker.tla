------------------------ MODULE SpaceAgentTurnBroker ------------------------
(***************************************************************************)
(* The broker between the confined agent-turn runner and the database      *)
(* (space_agent_turn_broker.rs).  An automation run that ends in an agent  *)
(* turn leaves a queued space_agent_turn work item whose payload pins the  *)
(* definitions and the capability ceiling of that moment.  The runner      *)
(* claims it over a socket, may call capabilities with call ids of its     *)
(* own, and finishes it once; every request is one transaction that locks  *)
(* the item and checks the live definitions again.  A reconciliation loop  *)
(* fails claims that outlived their fifteen minutes.                       *)
(*                                                                         *)
(* Requests are not exactly-once: the reply may be lost after the commit   *)
(* (HANDLE_TIMEOUT, a broken socket), and a runner that knows a claim      *)
(* token may send any request again, or late.  A request the broker        *)
(* refuses without writing is a stuttering step.                           *)
(***************************************************************************)
EXTENDS Naturals, FiniteSets, Sequences

CONSTANTS
    Turns,                \* child work items, numbered in creation order
    Calls,                \* call ids a runner draws
    Capabilities,         \* capabilities an agent turn may be granted
    Handoff,              \* erhua.space_agent_turn, the capability to run one
    Outputs,              \* what the member lookup may return over time
    MaxCapabilityCalls,   \* MAX_CAPABILITY_CALLS
    MaxInvalid,           \* MAX_INVALID_CANDIDATES
    ExpiredBatch          \* EXPIRED_CLAIM_BATCH_SIZE

ASSUME BrokerConstants ==
    /\ Turns \subseteq Nat /\ IsFiniteSet(Turns)
    /\ IsFiniteSet(Calls)
    /\ Handoff \notin Capabilities
    /\ MaxCapabilityCalls \in Nat
    /\ MaxInvalid \in Nat \ {0}
    /\ ExpiredBatch \in Nat \ {0}

VARIABLES
    item,       \* the work item of each turn
    pinned,     \* the capability ceiling in its payload
    receipt,    \* capability call receipts, keyed by turn and call id
    result,     \* result artifacts of each turn
    parent,     \* events the child appended to its parent run
    bound,      \* the pinned definitions are still the active ones
    enabled,    \* capabilities switched on
    member,     \* what the member lookup answers now
    held,       \* turns whose claim token reached the runner
    answered    \* outputs the runner was ever given for a call

vars == <<item, pinned, receipt, result, parent, bound, enabled, member,
          held, answered>>

live == <<bound, enabled, member>>

Status == {"absent", "queued", "processing", "completed", "failed"}
Ended == {"completed", "failed"}

NoReceipt == [cap |-> Handoff, out |-> CHOOSE o \in Outputs : TRUE]
Receipt == [cap : Capabilities, out : Outputs] \cup {NoReceipt}

Usage == [Capabilities -> 0..Cardinality(Calls)]

Init ==
    /\ item = [t \in Turns |-> [status |-> "absent", fresh |-> FALSE]]
    /\ pinned = [t \in Turns |-> {}]
    /\ receipt = [t \in Turns |-> [c \in Calls |-> NoReceipt]]
    /\ result = [t \in Turns |-> <<>>]
    /\ parent = [t \in Turns |-> <<>>]
    /\ bound = [t \in Turns |-> TRUE]
    /\ enabled = Capabilities \cup {Handoff}
    /\ member \in Outputs
    /\ held = {}
    /\ answered = [t \in Turns |-> [c \in Calls |-> {}]]

-----------------------------------------------------------------------------
(* The live binding.                                                       *)

\* load_capability_catalog: granted capabilities that are enabled now.
LoadCapabilityCatalog == enabled \ {Handoff}

\* Mutant: the ceiling pinned at handoff is not compared with the live one.
LoadLiveTurnMutant(t) == bound[t] /\ Handoff \in enabled

\* validate_payload_shape, validate_trigger, validate_parent_binding: the
\* payload still names the parent run and the active definitions.
PayloadBound(t) == bound[t]

\* load_live_turn: the payload holds, the handoff is enabled, and the
\* ceiling did not change since.
LoadLiveTurn(t) ==
    /\ PayloadBound(t)
    /\ Handoff \in enabled
    /\ LoadCapabilityCatalog = pinned[t]

\* load_persisted_capability_usage: receipts counted by capability.
PersistedUsage(t) ==
    [k \in Capabilities |-> Cardinality({c \in Calls : receipt[t][c].cap = k})]

CallCount(t) == Cardinality({c \in Calls : receipt[t][c] # NoReceipt})

\* Mutant: the parent run is not told.
FailTurnsMutant(ts) ==
    /\ item' = [t \in Turns |->
                  IF t \in ts THEN [status |-> "failed", fresh |-> FALSE]
                  ELSE item[t]]
    /\ UNCHANGED parent

\* fail_claim, terminalize_*: the item fails with one event on the parent.
FailTurns(ts) ==
    /\ item' = [t \in Turns |->
                  IF t \in ts THEN [status |-> "failed", fresh |-> FALSE]
                  ELSE item[t]]
    /\ parent' = [t \in Turns |->
                    IF t \in ts THEN Append(parent[t], "child_failed")
                    ELSE parent[t]]

-----------------------------------------------------------------------------
(* Outside: the automation worker, administrators, time.                   *)

\* queue_agent_turn of the automation worker: the ceiling of this moment.
QueueAgentTurn(t) ==
    /\ item[t].status = "absent"
    /\ \A u \in Turns : u < t => item[u].status # "absent"
    /\ Handoff \in enabled
    /\ item' = [item EXCEPT ![t].status = "queued"]
    /\ pinned' = [pinned EXCEPT ![t] = LoadCapabilityCatalog]
    /\ UNCHANGED <<receipt, result, parent, live, held, answered>>

\* A pinned version is superseded, a policy replaced: for good.
Supersede(t) ==
    /\ bound[t]
    /\ bound' = [bound EXCEPT ![t] = FALSE]
    /\ UNCHANGED <<item, pinned, receipt, result, parent, enabled, member,
                   held, answered>>

SwitchCapability(k) ==
    /\ enabled' = (enabled \ {k}) \cup ({k} \ enabled)
    /\ UNCHANGED <<item, pinned, receipt, result, parent, bound, member,
                   held, answered>>

MemberChanges ==
    /\ member' \in Outputs
    /\ UNCHANGED <<item, pinned, receipt, result, parent, bound, enabled,
                   held, answered>>

ClaimExpires(t) ==
    /\ item[t].status = "processing" /\ item[t].fresh
    /\ item' = [item EXCEPT ![t].fresh = FALSE]
    /\ UNCHANGED <<pinned, receipt, result, parent, live, held, answered>>

-----------------------------------------------------------------------------
(* The broker.                                                             *)

Expired == {t \in Turns : item[t].status = "processing" /\ ~item[t].fresh}

\* terminalize_expired_claims: a full batch of those not locked elsewhere.
ExpiredClaimBatch(S) ==
    /\ S \subseteq Expired
    /\ Cardinality(S) <= ExpiredBatch

\* reconcile_all_expired_claims: one transaction of the loop.
ReconcileExpiredClaims ==
    /\ \E S \in SUBSET Expired :
          S # {} /\ ExpiredClaimBatch(S) /\ FailTurns(S)
    /\ UNCHANGED <<pinned, receipt, result, live, held, answered>>

\* Mutant: an invalid candidate at the head is left where it is.
ClaimedCandidatesMutant(free, B, T) ==
    /\ B = {}
    /\ Cardinality(T) <= 1
    /\ \A t \in T : LoadLiveTurn(t) /\ \A u \in free \ {t} : t < u

\* The candidates one claim takes, oldest first among the queued items no
\* other transaction has locked: invalid ones B, then at most one valid one.
ClaimedCandidates(free, B, T) ==
    /\ B \cap T = {}
    /\ Cardinality(T) <= 1
    /\ \A b \in B : ~LoadLiveTurn(b)
    /\ \A t \in T : LoadLiveTurn(t) /\ \A b \in B : b < t
    /\ \A t \in B \cup T, u \in free \ (B \cup T) : t < u
    /\ IF T = {} THEN Cardinality(B) = MaxInvalid \/ B = free
       ELSE Cardinality(B) < MaxInvalid

\* The writes of one claim: expired and invalid items fail, T is claimed.
ClaimWrites(E, B, T) ==
    /\ item' = [t \in Turns |->
                  CASE t \in T -> [status |-> "processing", fresh |-> TRUE]
                    [] t \in E \cup B -> [status |-> "failed", fresh |-> FALSE]
                    [] OTHER -> item[t]]
    /\ parent' = [t \in Turns |->
                    IF t \in E \cup B THEN Append(parent[t], "child_failed")
                    ELSE parent[t]]

\* claim: the reply with the token may be lost.
Claim ==
    \E free \in SUBSET {t \in Turns : item[t].status = "queued"} :
    \E B \in SUBSET free : \E T \in SUBSET free : \E E \in SUBSET Expired :
       /\ ExpiredClaimBatch(E)
       /\ ClaimedCandidates(free, B, T)
       /\ ClaimWrites(E, B, T)
       /\ held' \in {held, held \cup T}
       /\ UNCHANGED <<pinned, receipt, result, live, answered>>

\* A request with the right token for an item still processing.
OwnsClaim(t) == t \in held /\ item[t].status = "processing"

\* terminalize_exact_expired_claim, in invoke and in finish.
RejectExpired(t) ==
    /\ OwnsClaim(t) /\ ~item[t].fresh
    /\ FailTurns({t})
    /\ UNCHANGED <<pinned, receipt, result, live, held, answered>>

\* Mutant: a repeated call id is executed again.
OutputOfMutant(t, c) == member

\* The stored output of a call id that was answered before, a new lookup
\* otherwise.
OutputOf(t, c) ==
    IF receipt[t][c] # NoReceipt THEN receipt[t][c].out ELSE member

\* The capability is in the live catalog, a replay matches its receipt, and
\* a new call is within the limit.
MayInvoke(t, c, k) ==
    /\ k \in LoadCapabilityCatalog
    /\ receipt[t][c] # NoReceipt => receipt[t][c].cap = k
    /\ receipt[t][c] = NoReceipt => CallCount(t) < MaxCapabilityCalls

\* invoke: a receipt is stored with the call; the reply may be lost.
Invoke(t, c, k) ==
    /\ OwnsClaim(t) /\ item[t].fresh
    /\ LoadLiveTurn(t)
    /\ MayInvoke(t, c, k)
    /\ receipt' = [receipt EXCEPT ![t][c] = [cap |-> k, out |-> OutputOf(t, c)]]
    /\ answered' \in {answered,
          [answered EXCEPT ![t][c] = @ \cup {OutputOf(t, c)}]}
    /\ UNCHANGED <<item, pinned, result, parent, live, held>>

\* finish refused: authority revoked, the runner failed, or its result does
\* not fit the output contract or the persisted usage.
FinishFailed(t) ==
    /\ OwnsClaim(t) /\ item[t].fresh
    /\ FailTurns({t})
    /\ UNCHANGED <<pinned, receipt, result, live, held, answered>>

\* validate_capability_usage: what the runner reports is what was stored.
UsageMatches(t, usage) == usage = PersistedUsage(t)

\* Mutant: the reported usage is stored without comparing it.
FinishSucceededMutant(t, usage) ==
    /\ OwnsClaim(t) /\ item[t].fresh
    /\ LoadLiveTurn(t)
    /\ result' = [result EXCEPT ![t] = Append(@, usage)]
    /\ item' = [item EXCEPT ![t] = [status |-> "completed", fresh |-> FALSE]]
    /\ parent' = [parent EXCEPT ![t] = Append(@, "child_completed")]
    /\ UNCHANGED <<pinned, receipt, live, held, answered>>

\* finish accepted: the artifact, the item and the parent event together.
FinishSucceeded(t, usage) ==
    /\ OwnsClaim(t) /\ item[t].fresh
    /\ LoadLiveTurn(t)
    /\ UsageMatches(t, usage)
    /\ result' = [result EXCEPT ![t] = Append(@, usage)]
    /\ item' = [item EXCEPT ![t] = [status |-> "completed", fresh |-> FALSE]]
    /\ parent' = [parent EXCEPT ![t] = Append(@, "child_completed")]
    /\ UNCHANGED <<pinned, receipt, live, held, answered>>

-----------------------------------------------------------------------------

Next ==
    \/ \E t \in Turns : QueueAgentTurn(t) \/ Supersede(t) \/ ClaimExpires(t)
    \/ \E k \in enabled \cup Capabilities \cup {Handoff} : SwitchCapability(k)
    \/ MemberChanges
    \/ ReconcileExpiredClaims
    \/ Claim
    \/ \E t \in Turns : RejectExpired(t) \/ FinishFailed(t)
    \/ \E t \in Turns, c \in Calls, k \in Capabilities : Invoke(t, c, k)
    \/ \E t \in Turns, usage \in Usage : FinishSucceeded(t, usage)

Spec == Init /\ [][Next]_vars

(* The reconciliation loop runs every thirty seconds in the broker process,*)
(* claims expire by the database clock, and the runner polls for work.     *)
Fairness ==
    /\ WF_vars(ReconcileExpiredClaims)
    /\ \A t \in Turns : WF_vars(ClaimExpires(t))
    /\ WF_vars(Claim)

LiveSpec == Spec /\ Fairness

-----------------------------------------------------------------------------

\* However a claim ends (finished, refused, expired under the loop, under
\* another claim or under a late request), the parent run hears of it
\* exactly once, and there is a result artifact exactly when it completed.
OneOutcomePerTurn ==
    \A t \in Turns :
       /\ Len(parent[t]) = IF item[t].status \in Ended THEN 1 ELSE 0
       /\ Len(result[t]) = IF item[t].status = "completed" THEN 1 ELSE 0
       /\ item[t].status = "completed" <=> parent[t] = <<"child_completed">>

\* The usage stored with a result is what the receipts of that turn say, for
\* ever: no call is added once the result was recorded.
ResultMatchesReceipts ==
    \A t \in Turns : \A i \in 1..Len(result[t]) :
       \A k \in Capabilities :
          result[t][i][k] = Cardinality({c \in Calls : receipt[t][c].cap = k})

\* A call id has one output: a runner that repeats a call after a lost reply
\* is told the same thing however often the member data changed meanwhile,
\* and no turn makes more calls than the limit.
CallsAnsweredOnce ==
    \A t \in Turns :
       /\ \A c \in Calls : answered[t][c] \subseteq {receipt[t][c].out}
       /\ CallCount(t) <= MaxCapabilityCalls

\* Nothing a turn produces (a receipt, a result) is written under authority
\* that was withdrawn since the handoff: a superseded definition, a disabled
\* handoff or a changed capability ceiling.
WritesUnderLiveAuthority ==
    [][\A t \in Turns :
         receipt'[t] # receipt[t] \/ result'[t] # result[t] =>
            /\ bound[t] /\ Handoff \in enabled
            /\ enabled \ {Handoff} = pinned[t]]_vars

\* Every queued turn is eventually claimed or rejected and every claim
\* eventually ends, also when the runner lost its token or died.
EveryTurnEnds ==
    \A t \in Turns :
       item[t].status \in {"queued", "processing"} ~> item[t].status \in Ended

=============================================================================
