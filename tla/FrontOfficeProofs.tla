-------------------------- MODULE FrontOfficeProofs --------------------------
(***************************************************************************)
(* What holds of the ways in which the service is spoken to, for every set *)
(* of turns, calls, messages, policies, publications, archived files and   *)
(* work items, and for every limit: an inductive invariant for each of     *)
(* SpaceAgentTurnBroker, MessageLog, RawArchive, ConversationIngress and   *)
(* TaskMirror.                                                             *)
(***************************************************************************)
EXTENDS RawArchive, SpaceAgentTurnBroker, ConversationIngress, MessageLog,
        TaskMirror, FiniteSetTheorems, WellFoundedInduction, TLAPS

(***************************************************************************)
(* Turns.  What the parent run was told and what is stored as a result are *)
(* functions of the status of the item, a result is the usage of the       *)
(* receipts, and what a runner was told of a call is its receipt.          *)
(***************************************************************************)

ItemType ==
    item \in [Turns -> [status : Status, fresh : BOOLEAN]]

ReceiptType ==
    receipt \in [Turns -> [Calls -> Receipt]]

\* The parent run was told of the end of a turn, once, and of nothing else.
ParentTold ==
    /\ parent \in [Turns -> Seq({"child_failed", "child_completed"})]
    /\ \A t \in Turns :
          parent[t] = CASE item[t].status = "completed" -> <<"child_completed">>
                        [] item[t].status = "failed" -> <<"child_failed">>
                        [] OTHER -> <<>>

\* The result of a completed turn is the usage its receipts say.
ResultStored ==
    /\ result \in [Turns -> Seq(Usage)]
    /\ \A t \in Turns :
          result[t] = IF item[t].status = "completed" THEN <<PersistedUsage(t)>>
                      ELSE <<>>

\* What a runner was told of a call is what its receipt holds.
AnswersStored ==
    /\ answered \in [Turns -> [Calls -> SUBSET Outputs]]
    /\ \A t \in Turns, c \in Calls :
          answered[t][c] \subseteq IF receipt[t][c] = NoReceipt THEN {}
                                   ELSE {receipt[t][c].out}

CallsLimited == \A t \in Turns : CallCount(t) <= MaxCapabilityCalls

\* The inductive invariant.
BrokerInv ==
    /\ ItemType /\ ReceiptType
    /\ member \in Outputs /\ held \subseteq Turns
    /\ ParentTold /\ ResultStored /\ AnswersStored /\ CallsLimited

-----------------------------------------------------------------------------
(* Steps that change the status of items and tell the parents, and leave    *)
(* receipts, results and answers alone.                                     *)

\* An item that has not ended goes on, or fails and tells its parent.
StatusMoves ==
    \A t \in Turns :
       \/ item'[t].status = item[t].status /\ parent'[t] = parent[t]
       \/ /\ item[t].status \notin Ended /\ item'[t].status \notin Ended
          /\ parent'[t] = parent[t]
       \/ /\ item[t].status \notin Ended /\ item'[t].status = "failed"
          /\ parent'[t] = Append(parent[t], "child_failed")

\* Whatever moves items and tells parents in this way keeps the invariant.
LEMMA StatusStep ==
    ASSUME BrokerInv, StatusMoves, UNCHANGED <<receipt, result, answered>>,
           item' \in [Turns -> [status : Status, fresh : BOOLEAN]],
           parent' \in [Turns -> Seq({"child_failed", "child_completed"})],
           member' \in Outputs, held' \subseteq Turns
    PROVE  BrokerInv'
<1>1. ItemType' /\ ReceiptType'
  BY DEF BrokerInv, ItemType, ReceiptType
<1>2. ParentTold'
  <2>. SUFFICES ASSUME NEW t \in Turns
                PROVE  parent'[t] = CASE item'[t].status = "completed" -> <<"child_completed">>
                                      [] item'[t].status = "failed" -> <<"child_failed">>
                                      [] OTHER -> <<>>
    BY DEF ParentTold
  <2>1. item[t].status \in Status /\ item'[t].status \in Status
    BY DEF BrokerInv, ItemType
  <2>2. parent[t] = CASE item[t].status = "completed" -> <<"child_completed">>
                      [] item[t].status = "failed" -> <<"child_failed">>
                      [] OTHER -> <<>>
    BY DEF BrokerInv, ParentTold
  <2>3. Append(<<>>, "child_failed") = <<"child_failed">>
    OBVIOUS
  <2>. QED
    BY <2>1, <2>2, <2>3 DEF StatusMoves, Status, Ended
<1>3. ResultStored'
  <2>1. ASSUME NEW t \in Turns
        PROVE  item'[t].status = "completed" <=> item[t].status = "completed"
    BY DEF StatusMoves, Ended
  <2>. QED
    BY <2>1 DEF BrokerInv, ResultStored, PersistedUsage
<1>4. AnswersStored' /\ CallsLimited'
  BY DEF BrokerInv, AnswersStored, CallsLimited, CallCount
<1>. QED
  BY <1>1, <1>2, <1>3, <1>4 DEF BrokerInv

\* The failure of items that have not ended, as the broker writes it.
LEMMA FailStep ==
    ASSUME BrokerInv, NEW ts \in SUBSET Turns, FailTurns(ts),
           \A t \in ts : item[t].status \notin Ended,
           UNCHANGED <<receipt, result, member, held, answered>>
    PROVE  BrokerInv'
<1>1. item' \in [Turns -> [status : Status, fresh : BOOLEAN]]
  BY DEF FailTurns, BrokerInv, ItemType, Status
<1>2. parent' \in [Turns -> Seq({"child_failed", "child_completed"})]
  <2>1. \A t \in Turns : Append(parent[t], "child_failed") \in Seq({"child_failed", "child_completed"})
    BY DEF BrokerInv, ParentTold
  <2>. QED
    BY <2>1 DEF FailTurns, BrokerInv, ParentTold
<1>3. StatusMoves
  <2>. SUFFICES ASSUME NEW t \in Turns
                PROVE  \/ item'[t].status = item[t].status /\ parent'[t] = parent[t]
                       \/ /\ item[t].status \notin Ended /\ item'[t].status = "failed"
                          /\ parent'[t] = Append(parent[t], "child_failed")
    BY DEF StatusMoves
  <2>. QED
    BY DEF FailTurns
<1>. QED
  BY <1>1, <1>2, <1>3, StatusStep DEF BrokerInv

-----------------------------------------------------------------------------

LEMMA InitInv == Init => BrokerInv
<1>. SUFFICES ASSUME Init PROVE BrokerInv
  OBVIOUS
<1>1. ItemType /\ ReceiptType /\ member \in Outputs /\ held \subseteq Turns
  BY DEF Init, ItemType, ReceiptType, Receipt, Status
<1>2. ParentTold /\ ResultStored
  BY DEF Init, ParentTold, ResultStored, Ended
<1>3. AnswersStored
  BY DEF Init, AnswersStored
<1>4. CallsLimited
  <2>. SUFFICES ASSUME NEW t \in Turns PROVE CallCount(t) <= MaxCapabilityCalls
    BY DEF CallsLimited
  <2>1. {c \in Calls : receipt[t][c] # NoReceipt} = {}
    BY DEF Init
  <2>. QED
    BY <2>1, FS_EmptySet, BrokerConstants DEF CallCount
<1>. QED
  BY <1>1, <1>2, <1>3, <1>4 DEF BrokerInv

\* A call stores the receipt of its id, and no other.
LEMMA InvokeStep ==
    ASSUME BrokerInv, NEW t \in Turns, NEW c \in Calls, NEW k \in Capabilities,
           Invoke(t, c, k)
    PROVE  BrokerInv'
<1>. DEFINE new == [cap |-> k, out |-> OutputOf(t, c)]
<1>1. new \in [cap : Capabilities, out : Outputs] /\ new # NoReceipt
  <2>1. OutputOf(t, c) \in Outputs
    BY DEF BrokerInv, ReceiptType, Receipt, OutputOf
  <2>2. new.cap = k /\ NoReceipt.cap = Handoff
    BY DEF NoReceipt
  <2>. QED
    BY <2>1, <2>2, BrokerConstants
<1>2. receipt' = [receipt EXCEPT ![t][c] = new]
  BY DEF Invoke
<1>. HIDE DEF new
<1>3. ReceiptType'
  BY <1>1, <1>2 DEF BrokerInv, ReceiptType, Receipt
<1>4. /\ receipt'[t][c] = new
      /\ \A d \in Calls \ {c} : receipt'[t][d] = receipt[t][d]
      /\ \A u \in Turns \ {t} : receipt'[u] = receipt[u]
  BY <1>2 DEF BrokerInv, ReceiptType
<1>5. item[t].status = "processing"
  BY DEF Invoke, OwnsClaim
<1>6. ResultStored'
  <2>. SUFFICES ASSUME NEW u \in Turns
                PROVE  result'[u] = IF item'[u].status = "completed" THEN <<PersistedUsage(u)'>> ELSE <<>>
    BY DEF Invoke, BrokerInv, ResultStored
  <2>1. CASE u = t
    BY <2>1, <1>5 DEF Invoke, BrokerInv, ResultStored
  <2>2. CASE u # t
    <3>1. receipt'[u] = receipt[u]
      BY <1>4, <2>2
    <3>2. PersistedUsage(u)' = PersistedUsage(u)
      BY <3>1 DEF PersistedUsage
    <3>. QED
      BY <3>2 DEF Invoke, BrokerInv, ResultStored
  <2>. QED
    BY <2>1, <2>2
<1>7. AnswersStored'
  <2>1. new.out = OutputOf(t, c) /\ OutputOf(t, c) \in Outputs
    BY <1>1 DEF new
  <2>2. receipt[t][c] # NoReceipt => receipt[t][c].out = OutputOf(t, c)
    BY DEF OutputOf
  <2>3. answered' \in [Turns -> [Calls -> SUBSET Outputs]]
    BY <2>1 DEF Invoke, BrokerInv, AnswersStored
  <2>4. ASSUME NEW u \in Turns, NEW d \in Calls
        PROVE  answered'[u][d] \subseteq IF receipt'[u][d] = NoReceipt THEN {} ELSE {receipt'[u][d].out}
    <3>1. CASE u = t /\ d = c
      <4>1. answered[t][c] \subseteq {OutputOf(t, c)}
        BY <2>2 DEF BrokerInv, AnswersStored
      <4>2. answered'[t][c] \subseteq {OutputOf(t, c)}
        BY <4>1 DEF Invoke, BrokerInv, AnswersStored
      <4>. QED
        BY <3>1, <4>2, <1>1, <1>4, <2>1
    <3>2. CASE ~(u = t /\ d = c)
      <4>1. answered'[u][d] = answered[u][d]
        BY <3>2 DEF Invoke, BrokerInv, AnswersStored
      <4>2. receipt'[u][d] = receipt[u][d]
        BY <3>2, <1>4
      <4>. QED
        BY <4>1, <4>2 DEF BrokerInv, AnswersStored
    <3>. QED
      BY <3>1, <3>2
  <2>. QED
    BY <2>3, <2>4 DEF AnswersStored
<1>8. CallsLimited'
  <2>. SUFFICES ASSUME NEW u \in Turns PROVE CallCount(u)' <= MaxCapabilityCalls
    BY DEF CallsLimited
  <2>. DEFINE S == {d \in Calls : receipt[u][d] # NoReceipt}
              R == {d \in Calls : receipt'[u][d] # NoReceipt}
  <2>1. CallCount(u) = Cardinality(S) /\ CallCount(u)' = Cardinality(R) /\ Cardinality(S) <= MaxCapabilityCalls
    BY DEF CallCount, BrokerInv, CallsLimited
  <2>2. CASE u # t \/ receipt[t][c] # NoReceipt
    <3>1. R = S
      BY <2>2, <1>1, <1>4
    <3>. QED
      BY <3>1, <2>1
  <2>3. CASE u = t /\ receipt[t][c] = NoReceipt
    <3>1. R = S \cup {c} /\ c \notin S
      BY <2>3, <1>1, <1>4
    <3>2. IsFiniteSet(S)
      BY FS_Subset, BrokerConstants
    <3>3. Cardinality(R) = Cardinality(S) + 1 /\ Cardinality(S) \in Nat
      BY <3>1, <3>2, FS_AddElement, FS_CardinalityType
    <3>4. Cardinality(S) < MaxCapabilityCalls
      BY <2>1, <2>3 DEF Invoke, MayInvoke
    <3>. QED
      BY <2>1, <3>3, <3>4, BrokerConstants
  <2>. QED
    BY <2>2, <2>3
<1>9. ItemType' /\ ParentTold' /\ member' \in Outputs /\ held' \subseteq Turns
  BY DEF Invoke, live, BrokerInv, ItemType, ParentTold
<1>. QED
  BY <1>3, <1>6, <1>7, <1>8, <1>9 DEF BrokerInv

\* A result is stored together with the end of its item.
LEMMA SucceedStep ==
    ASSUME BrokerInv, NEW t \in Turns, NEW usage \in Usage, FinishSucceeded(t, usage)
    PROVE  BrokerInv'
<1>1. item[t].status = "processing" /\ usage = PersistedUsage(t)
  BY DEF FinishSucceeded, OwnsClaim, UsageMatches
<1>2. result[t] = <<>> /\ parent[t] = <<>>
  BY <1>1 DEF BrokerInv, ResultStored, ParentTold
<1>3. /\ item' = [item EXCEPT ![t] = [status |-> "completed", fresh |-> FALSE]]
      /\ result' = [result EXCEPT ![t] = <<usage>>]
      /\ parent' = [parent EXCEPT ![t] = <<"child_completed">>]
      /\ UNCHANGED <<receipt, member, held, answered>>
  BY <1>2 DEF FinishSucceeded, live, BrokerInv, ResultStored, ParentTold
<1>4. ItemType' /\ ReceiptType' /\ member' \in Outputs /\ held' \subseteq Turns
  BY <1>3 DEF BrokerInv, ItemType, ReceiptType, Status
<1>5. ParentTold'
  <2>1. <<"child_completed">> \in Seq({"child_failed", "child_completed"})
    OBVIOUS
  <2>2. parent' \in [Turns -> Seq({"child_failed", "child_completed"})]
    BY <1>3, <2>1 DEF BrokerInv, ParentTold
  <2>. QED
    BY <2>2, <1>3 DEF BrokerInv, ParentTold, ItemType
<1>6. ResultStored'
  <2>1. <<usage>> \in Seq(Usage)
    OBVIOUS
  <2>2. result' \in [Turns -> Seq(Usage)]
    BY <1>3, <2>1 DEF BrokerInv, ResultStored
  <2>3. \A u \in Turns : PersistedUsage(u)' = PersistedUsage(u)
    BY <1>3 DEF PersistedUsage
  <2>. QED
    BY <2>2, <2>3, <1>1, <1>3 DEF BrokerInv, ResultStored, ItemType
<1>7. AnswersStored' /\ CallsLimited'
  BY <1>3 DEF BrokerInv, AnswersStored, CallsLimited, CallCount
<1>. QED
  BY <1>4, <1>5, <1>6, <1>7 DEF BrokerInv

\* Items that expired or do not validate fail, and one is claimed.
LEMMA ClaimStep == ASSUME BrokerInv, Claim PROVE BrokerInv'
<1>. DEFINE Queued == {t \in Turns : item[t].status = "queued"}
<1>1. PICK free \in SUBSET Queued :
         \E B \in SUBSET free : \E T \in SUBSET free : \E E \in SUBSET Expired :
            /\ ExpiredClaimBatch(E)
            /\ ClaimedCandidates(free, B, T)
            /\ ClaimWrites(E, B, T)
            /\ held' \in {held, held \cup T}
            /\ UNCHANGED <<pinned, receipt, result, live, answered>>
  BY Zenon DEF Claim
<1>0. PICK B \in SUBSET free, T \in SUBSET free, E \in SUBSET Expired :
              /\ ClaimWrites(E, B, T)
              /\ held' \in {held, held \cup T}
              /\ B \cap T = {}
  BY <1>1, Zenon DEF ClaimedCandidates
<1>2. UNCHANGED <<pinned, receipt, result, live, answered>>
  BY DEF Claim
<1>3. \A t \in B \cup T \cup E : t \in Turns /\ item[t].status \notin Ended
  BY DEF Expired, Ended
<1>4. item' \in [Turns -> [status : Status, fresh : BOOLEAN]]
  <2>1. [status |-> "processing", fresh |-> TRUE] \in [status : Status, fresh : BOOLEAN]
    BY DEF Status
  <2>2. [status |-> "failed", fresh |-> FALSE] \in [status : Status, fresh : BOOLEAN]
    BY DEF Status
  <2>. QED
    BY <1>0, <2>1, <2>2 DEF ClaimWrites, BrokerInv, ItemType
<1>5. parent' \in [Turns -> Seq({"child_failed", "child_completed"})]
  <2>1. \A t \in Turns : Append(parent[t], "child_failed") \in Seq({"child_failed", "child_completed"})
    BY DEF BrokerInv, ParentTold
  <2>. QED
    BY <1>0, <2>1 DEF ClaimWrites, BrokerInv, ParentTold
<1>6. StatusMoves
  <2>. SUFFICES ASSUME NEW t \in Turns
                PROVE  \/ item'[t].status = item[t].status /\ parent'[t] = parent[t]
                       \/ /\ item[t].status \notin Ended /\ item'[t].status \notin Ended
                          /\ parent'[t] = parent[t]
                       \/ /\ item[t].status \notin Ended /\ item'[t].status = "failed"
                          /\ parent'[t] = Append(parent[t], "child_failed")
    BY DEF StatusMoves
  <2>1. T \cap (E \cup B) = {}
    BY <1>0 DEF Expired
  <2>2. CASE t \in T
    BY <1>0, <1>3, <2>1, <2>2 DEF ClaimWrites, Ended
  <2>3. CASE t \in E \cup B
    BY <1>0, <1>3, <2>1, <2>3 DEF ClaimWrites, Ended
  <2>4. CASE t \notin T /\ t \notin E \cup B
    BY <1>0, <2>4 DEF ClaimWrites
  <2>. QED
    BY <2>2, <2>3, <2>4
<1>7. member' \in Outputs /\ held' \subseteq Turns
  BY <1>0, <1>2 DEF live, BrokerInv
<1>. QED
  BY <1>2, <1>4, <1>5, <1>6, <1>7, StatusStep

\* The steps outside the broker: time, the worker and administrators.
LEMMA OutsideStep ==
    ASSUME BrokerInv,
           \/ \E t \in Turns : QueueAgentTurn(t) \/ Supersede(t) \/ ClaimExpires(t)
           \/ \E k \in enabled \cup Capabilities \cup {Handoff} : SwitchCapability(k)
           \/ MemberChanges
           \/ UNCHANGED vars
    PROVE  BrokerInv'
<1>1. UNCHANGED <<receipt, result, parent, held, answered>>
  BY DEF QueueAgentTurn, Supersede, ClaimExpires, SwitchCapability, MemberChanges, vars
<1>2. item \in [Turns -> [status : Status, fresh : BOOLEAN]]
  BY DEF BrokerInv, ItemType
<1>3. /\ item' \in [Turns -> [status : Status, fresh : BOOLEAN]]
      /\ \A t \in Turns : \/ item'[t].status = item[t].status
                          \/ item[t].status \notin Ended /\ item'[t].status \notin Ended
  <2>1. CASE \E t \in Turns : QueueAgentTurn(t)
    <3>1. PICK t \in Turns : item[t].status = "absent" /\ item' = [item EXCEPT ![t].status = "queued"]
      BY <2>1 DEF QueueAgentTurn
    <3> QED
      BY <1>2, <3>1 DEF Status, Ended
  <2>2. CASE \E t \in Turns : ClaimExpires(t)
    <3>1. PICK t \in Turns : item' = [item EXCEPT ![t].fresh = FALSE]
      BY <2>2 DEF ClaimExpires
    <3> QED
      BY <1>2, <3>1
  <2>3. CASE \/ \E t \in Turns : Supersede(t)
             \/ \E k \in enabled \cup Capabilities \cup {Handoff} : SwitchCapability(k)
             \/ MemberChanges
             \/ UNCHANGED vars
    <3>1. item' = item
      BY <2>3 DEF Supersede, SwitchCapability, MemberChanges, vars
    <3> QED
      BY <1>2, <3>1
  <2> QED
    BY <2>1, <2>2, <2>3
<1>4. StatusMoves
  BY <1>1, <1>3 DEF StatusMoves
<1>5. parent' \in [Turns -> Seq({"child_failed", "child_completed"})] /\ held' \subseteq Turns
  BY <1>1 DEF BrokerInv, ParentTold
<1>6. member' \in Outputs
  BY DEF QueueAgentTurn, Supersede, ClaimExpires, SwitchCapability, MemberChanges, vars, live, BrokerInv
<1>. QED
  BY <1>1, <1>3, <1>4, <1>5, <1>6, StatusStep

LEMMA NextInv == BrokerInv /\ [Next]_vars => BrokerInv'
<1>. SUFFICES ASSUME BrokerInv, [Next]_vars PROVE BrokerInv'
  OBVIOUS
<1>1. CASE \/ \E t \in Turns : QueueAgentTurn(t) \/ Supersede(t) \/ ClaimExpires(t)
           \/ \E k \in enabled \cup Capabilities \cup {Handoff} : SwitchCapability(k)
           \/ MemberChanges
           \/ UNCHANGED vars
  BY <1>1, OutsideStep
<1>2. CASE ReconcileExpiredClaims
  <2>1. PICK S \in SUBSET Expired : FailTurns(S)
    BY <1>2, Zenon DEF ReconcileExpiredClaims
  <2>2. S \in SUBSET Turns /\ \A t \in S : item[t].status \notin Ended
    BY DEF Expired, Ended
  <2>. QED
    BY <1>2, <2>1, <2>2, FailStep DEF ReconcileExpiredClaims, live
<1>3. CASE Claim
  BY <1>3, ClaimStep
<1>4. ASSUME NEW t \in Turns, RejectExpired(t) \/ FinishFailed(t)
      PROVE  BrokerInv'
  <2>1. FailTurns({t}) /\ item[t].status \notin Ended
    BY <1>4 DEF RejectExpired, FinishFailed, OwnsClaim, Ended
  <2>. QED
    BY <1>4, <2>1, FailStep DEF RejectExpired, FinishFailed, live
<1>5. ASSUME NEW t \in Turns, NEW c \in Calls, NEW k \in Capabilities, Invoke(t, c, k)
      PROVE  BrokerInv'
  BY <1>5, InvokeStep
<1>6. ASSUME NEW t \in Turns, NEW usage \in Usage, FinishSucceeded(t, usage)
      PROVE  BrokerInv'
  BY <1>6, SucceedStep
<1>. QED
  BY <1>1, <1>2, <1>3, <1>4, <1>5, <1>6 DEF Next

\* The invariant holds in every state of the broker.
THEOREM Inductive == Spec => []BrokerInv
<1>. QED
  BY InitInv, NextInv, PTL DEF Spec

-----------------------------------------------------------------------------

\* The parent hears once of the end of a turn, and a result exists exactly
\* when it completed: however many turns, late requests and lapsed claims
\* the broker meets (FailTurns, FinishSucceeded, claim).
THEOREM OneOutcome == Spec => []OneOutcomePerTurn
<1>1. BrokerInv => OneOutcomePerTurn
  <2>. SUFFICES ASSUME BrokerInv, NEW t \in Turns
                PROVE  /\ Len(parent[t]) = IF item[t].status \in Ended THEN 1 ELSE 0
                       /\ Len(result[t]) = IF item[t].status = "completed" THEN 1 ELSE 0
                       /\ item[t].status = "completed" <=> parent[t] = <<"child_completed">>
    BY DEF OneOutcomePerTurn
  <2>1. item[t].status \in Status
    BY DEF BrokerInv, ItemType
  <2>2. Len(parent[t]) = IF item[t].status \in Ended THEN 1 ELSE 0
    BY <2>1 DEF BrokerInv, ParentTold, Status, Ended
  <2>3. Len(result[t]) = IF item[t].status = "completed" THEN 1 ELSE 0
    BY DEF BrokerInv, ResultStored
  <2>4. /\ <<"child_completed">>[1] = "child_completed" /\ <<"child_failed">>[1] = "child_failed"
        /\ <<"child_completed">> # <<>>
    OBVIOUS
  <2>5. item[t].status = "completed" <=> parent[t] = <<"child_completed">>
    BY <2>1, <2>4 DEF BrokerInv, ParentTold, Status
  <2>. QED
    BY <2>2, <2>3, <2>5
<1>. QED
  BY <1>1, Inductive, PTL

\* The usage stored with a result is the usage of the receipts, whatever the
\* runner reported and called afterwards (finish, invoke).
THEOREM ResultIsUsage == Spec => []ResultMatchesReceipts
<1>1. BrokerInv => ResultMatchesReceipts
  BY DEF BrokerInv, ResultStored, ResultMatchesReceipts, PersistedUsage
<1>. QED
  BY <1>1, Inductive, PTL

\* A call id has one answer, and a turn has no more calls than the limit,
\* also when replies are lost and the member data changes (invoke).
THEOREM OneAnswerPerCall == Spec => []CallsAnsweredOnce
<1>1. BrokerInv => CallsAnsweredOnce
  BY DEF BrokerInv, AnswersStored, CallsLimited, CallsAnsweredOnce
<1>. QED
  BY <1>1, Inductive, PTL

\* Receipts and results are written only while everything pinned at the
\* handoff is still in force (invoke and finish lock and check it again).
THEOREM LiveAuthority == Spec => WritesUnderLiveAuthority
<1>1. ASSUME BrokerInv, [Next]_vars, NEW t \in Turns,
             receipt'[t] # receipt[t] \/ result'[t] # result[t]
      PROVE  bound[t] /\ Handoff \in enabled /\ enabled \ {Handoff} = pinned[t]
  <2>1. ASSUME UNCHANGED <<receipt, result>> PROVE FALSE
    BY <1>1, <2>1
  <2>2. ASSUME NEW u \in Turns, NEW c \in Calls, NEW k \in Capabilities, Invoke(u, c, k)
        PROVE  LoadLiveTurn(t)
    <3>1. u = t
      BY <1>1, <2>2 DEF Invoke, BrokerInv, ReceiptType
    <3>. QED
      BY <3>1, <2>2 DEF Invoke
  <2>3. ASSUME NEW u \in Turns, NEW usage \in Usage, FinishSucceeded(u, usage)
        PROVE  LoadLiveTurn(t)
    <3>1. u = t
      BY <1>1, <2>3 DEF FinishSucceeded, BrokerInv, ResultStored
    <3>. QED
      BY <3>1, <2>3 DEF FinishSucceeded
  <2>4. \/ \E u \in Turns, c \in Calls, k \in Capabilities : Invoke(u, c, k)
        \/ \E u \in Turns, usage \in Usage : FinishSucceeded(u, usage)
    BY <1>1, <2>1 DEF Next, vars, live, QueueAgentTurn, Supersede, ClaimExpires, SwitchCapability,
                      MemberChanges, ReconcileExpiredClaims, Claim, RejectExpired, FinishFailed
  <2>. QED
    BY <2>2, <2>3, <2>4 DEF LoadLiveTurn, PayloadBound, LoadCapabilityCatalog
<1>2. BrokerInv /\ [Next]_vars =>
        [\A t \in Turns :
           receipt'[t] # receipt[t] \/ result'[t] # result[t] =>
              /\ bound[t] /\ Handoff \in enabled
              /\ enabled \ {Handoff} = pinned[t]]_vars
  BY <1>1
<1>. QED
  BY <1>2, Inductive, PTL DEF Spec, WritesUnderLiveAuthority

-----------------------------------------------------------------------------
(***************************************************************************)
(* The way of a message from the stream into the tables                    *)
(***************************************************************************)

Kinds_ == {b.kind : b \in Bulletins}
Msgs_ == {b.msg : b \in Bulletins}
Texts_ == {b.text : b \in Bulletins} \cup {Blank}
Pubs == [kind : Kinds_, msg : Msgs_, text : Texts_, given : Nat, st : {"waits", "acked"}]
JobRows == [st : {"pending", "processing", "completed", "failed", "skipped"}, tries : Nat, due : BOOLEAN,
            lock : {"none", "new", "old"}]
Hands == [todo : SUBSET [msg : Msgs_, tries : Nat], asking : Msgs_ \cup {"none"}, text : Texts_]

Delivered(m, t) == \E i \in DOMAIN stream : stream[i].msg = m /\ stream[i].text = t /\ stream[i].given > 0

LogTypes ==
    /\ stream \in Seq(Pubs) /\ rows_ \in [DOMAIN rows_ -> Texts_] /\ queue_ \in [DOMAIN queue_ -> JobRows]
    /\ hand \in [Embedders -> Hands] /\ DOMAIN queue_ \subseteq DOMAIN rows_ /\ DOMAIN rows_ \subseteq Msgs_
DeliveriesInv ==
    /\ \A i \in DOMAIN stream : stream[i].st = "acked" => Handled(i)
    /\ \A m \in DOMAIN rows_ : Delivered(m, rows_[m])
    /\ \A i \in DOMAIN stream : stream[i].kind = "text" /\ stream[i].st = "acked" => stream[i].msg \in DOMAIN queue_
VectorsInv == \A v \in vectors : Delivered(v.msg, v.text) /\ v.text # Blank
JobsInv ==
    \A m \in DOMAIN queue_ :
        /\ queue_[m].st = "completed" => \E v \in vectors : v.msg = m
        /\ queue_[m].st = "failed" => queue_[m].tries = MaxAttempts
        /\ queue_[m].st \in {"pending", "processing"} => queue_[m].tries < MaxAttempts
        /\ queue_[m].tries <= MaxAttempts

\* What a worker holds was a job to be tried, and it asks for a text that was
\* published.
HandsInv ==
    \A w \in Embedders :
        /\ \A j \in hand[w].todo : j.msg \in DOMAIN queue_ /\ j.tries < MaxAttempts
        /\ hand[w].asking # "none" => Delivered(hand[w].asking, hand[w].text) /\ hand[w].text # Blank
LogInv == LogTypes /\ DeliveriesInv /\ VectorsInv /\ JobsInv /\ HandsInv

LEMMA StreamFacts ==
  ASSUME LogTypes
  PROVE  \A i \in DOMAIN stream : /\ stream[i] \in Pubs /\ stream[i].given \in Nat /\ stream[i].msg \in Msgs_
                                  /\ stream[i].text \in Texts_
<1>1. \A i \in DOMAIN stream : stream[i] \in Pubs
  BY DEF LogTypes
<1> QED
  BY <1>1 DEF Pubs

LEMMA LogInitInv == LogInit => LogInv
BY DEF LogInit, LogInv, LogTypes, DeliveriesInv, VectorsInv, JobsInv, HandsInv, NoHand, Hands, Texts_, Msgs_

\* A publication that was delivered stays so, while publications are added
\* and delivered again.
LEMMA StaysDelivered ==
  ASSUME LogTypes, DOMAIN stream \subseteq DOMAIN stream',
         \A i \in DOMAIN stream : /\ stream'[i].msg = stream[i].msg /\ stream'[i].text = stream[i].text
                                  /\ stream'[i].given >= stream[i].given /\ stream'[i].given \in Nat
  PROVE  \A m, t : Delivered(m, t) => Delivered(m, t)'
<1>1. SUFFICES ASSUME NEW m, NEW t, Delivered(m, t)
              PROVE  Delivered(m, t)'
  OBVIOUS
<1>2. PICK i \in DOMAIN stream : stream[i].msg = m /\ stream[i].text = t /\ stream[i].given > 0
  BY <1>1 DEF Delivered
<1>3. stream[i].given \in Nat /\ stream'[i].given > 0
  BY <1>2, StreamFacts
<1> QED
  BY <1>2, <1>3 DEF Delivered

LEMMA PublishStep ==
  ASSUME LogInv, NEW b \in Bulletins, PublishMessage(b)
  PROVE  LogInv'
<1>1. PICK e : e = [kind |-> b.kind, msg |-> b.msg, text |-> b.text, given |-> 0, st |-> "waits"]
  OBVIOUS
<1>2. e \in Pubs /\ stream' = Append(stream, e) /\ UNCHANGED <<rows_, dead, queue_, vectors, hand>>
  BY <1>1 DEF PublishMessage, Pubs, Kinds_, Msgs_, Texts_
<1>3. /\ stream' \in Seq(Pubs) /\ DOMAIN stream \subseteq DOMAIN stream'
      /\ \A i \in DOMAIN stream : stream'[i] = stream[i]
      /\ \A i \in DOMAIN stream' : i \in DOMAIN stream \/ stream'[i].st = "waits"
  BY <1>1, <1>2 DEF LogInv, LogTypes
<1>4. \A m, t : Delivered(m, t) => Delivered(m, t)'
  <2>1. \A i \in DOMAIN stream : stream[i].given \in Nat
    BY StreamFacts DEF LogInv
  <2> QED
    BY <1>3, <2>1, StaysDelivered DEF LogInv
<1>5. LogTypes'
  BY <1>2, <1>3 DEF LogInv, LogTypes
<1>6. DeliveriesInv'
  BY <1>2, <1>3, <1>4 DEF LogInv, DeliveriesInv, Handled
<1> QED
  BY <1>2, <1>4, <1>5, <1>6 DEF LogInv, VectorsInv, JobsInv, HandsInv

\* What recording a publication makes of rows and jobs.
LEMMA Recorded ==
  ASSUME LogInv, NEW i \in DOMAIN stream, persist_message(stream[i])
  PROVE  /\ rows_' \in [DOMAIN rows_ \cup {stream[i].msg} -> Texts_] /\ rows_'[stream[i].msg] = stream[i].text
         /\ \A m \in DOMAIN rows_ : m # stream[i].msg => rows_'[m] = rows_[m]
         /\ queue_' \in [DOMAIN queue_' -> JobRows]
         /\ DOMAIN queue_ \subseteq DOMAIN queue_' /\ DOMAIN queue_' \subseteq DOMAIN queue_ \cup {stream[i].msg}
         /\ \A m \in DOMAIN queue_ : queue_'[m] = queue_[m]
         /\ \A m \in DOMAIN queue_' \ DOMAIN queue_ : queue_'[m] = NewJob
         /\ stream[i].kind # "system" => stream[i].msg \in DOMAIN queue_'
<1>1. stream[i] \in Pubs /\ stream[i].text \in Texts_
  BY StreamFacts DEF LogInv
<1>2. NewJob \in JobRows
  BY DEF NewJob, JobRows
<1> QED
  BY <1>1, <1>2 DEF LogInv, LogTypes, persist_message, Set

LEMMA DeliverStep ==
  ASSUME LogInv, NEW i \in DOMAIN stream, NEW o \in {"acked", "lost", "nak"}, handle_nats_message(i, o)
  PROVE  LogInv'
<1>1. /\ stream[i].st = "waits" /\ UNCHANGED <<vectors, hand>>
      /\ stream' = [stream EXCEPT ![i].given = @ + 1, ![i].st = IF o = "acked" THEN "acked" ELSE "waits"]
  BY DEF handle_nats_message
<1>2. stream[i] \in Pubs /\ stream[i].msg \in Msgs_
  BY StreamFacts DEF LogInv
<1>3. /\ stream' \in Seq(Pubs) /\ DOMAIN stream' = DOMAIN stream
      /\ \A k \in DOMAIN stream : /\ stream'[k].kind = stream[k].kind /\ stream'[k].msg = stream[k].msg
                                  /\ stream'[k].text = stream[k].text
                                  /\ stream[k].given \in Nat /\ stream'[k].given \in Nat
                                  /\ stream'[k].given >= stream[k].given
      /\ \A k \in DOMAIN stream \ {i} : stream'[k].st = stream[k].st
      /\ stream'[i].given > 0 /\ (stream'[i].st = "acked" => o = "acked")
  <2>1. PICK e : e = [stream[i] EXCEPT !.given = @ + 1, !.st = IF o = "acked" THEN "acked" ELSE "waits"]
    OBVIOUS
  <2>2. /\ e \in Pubs /\ e.kind = stream[i].kind /\ e.msg = stream[i].msg /\ e.text = stream[i].text
        /\ stream[i].given \in Nat /\ e.given = stream[i].given + 1 /\ (e.st = "acked" => o = "acked")
    <3>1. PICK p : p = stream[i]
      OBVIOUS
    <3>2. p \in Pubs /\ p.given \in Nat /\ p.given + 1 \in Nat
      BY <1>2, <3>1 DEF Pubs
    <3>3. PICK st \in {"waits", "acked"} : st = (IF o = "acked" THEN "acked" ELSE "waits") /\ (st = "acked" => o = "acked")
      OBVIOUS
    <3>4. e = [[p EXCEPT !.given = p.given + 1] EXCEPT !.st = st]
      BY <2>1, <3>1, <3>3
    <3> QED
      BY <3>1, <3>2, <3>3, <3>4 DEF Pubs
  <2>3. stream' = [stream EXCEPT ![i] = e]
    BY <1>1, <2>1
  <2>4. stream \in Seq(Pubs) /\ \A k \in DOMAIN stream : stream[k].given \in Nat
    BY StreamFacts DEF LogInv, LogTypes
  <2>5. stream' \in Seq(Pubs) /\ DOMAIN stream' = DOMAIN stream
    BY <2>2, <2>3, <2>4
  <2>6. \A k \in DOMAIN stream : stream'[k] = IF k = i THEN e ELSE stream[k]
    BY <2>3, <2>4
  <2>7. stream'[i] = e /\ \A k \in DOMAIN stream \ {i} : stream'[k] = stream[k]
    BY <2>6
  <2>8. \A n \in Nat : n >= n /\ n + 1 >= n /\ n + 1 > 0 /\ n + 1 \in Nat
    OBVIOUS
  <2>9. \A k \in DOMAIN stream : /\ stream'[k].kind = stream[k].kind /\ stream'[k].msg = stream[k].msg
                                 /\ stream'[k].text = stream[k].text
                                 /\ stream[k].given \in Nat /\ stream'[k].given \in Nat
                                 /\ stream'[k].given >= stream[k].given
    <3>1. SUFFICES ASSUME NEW k \in DOMAIN stream
                  PROVE  /\ stream'[k].kind = stream[k].kind /\ stream'[k].msg = stream[k].msg
                         /\ stream'[k].text = stream[k].text
                         /\ stream[k].given \in Nat /\ stream'[k].given \in Nat
                         /\ stream'[k].given >= stream[k].given
      OBVIOUS
    <3>2. CASE k = i
      BY <2>2, <2>7, <2>8, <3>2
    <3>3. CASE k # i
      BY <2>4, <2>7, <2>8, <3>3
    <3> QED
      BY <3>2, <3>3
  <2> QED
    BY <2>2, <2>5, <2>7, <2>8, <2>9
<1>4. \A m, t : Delivered(m, t) => Delivered(m, t)'
  BY <1>3, StaysDelivered DEF LogInv
<1>5. VectorsInv'
  BY <1>1, <1>4 DEF LogInv, VectorsInv
<1>6. CASE o = "nak"
  <2>1. UNCHANGED <<rows_, queue_, dead>>
    BY <1>6 DEF handle_nats_message
  <2>2. LogTypes' /\ DeliveriesInv'
    BY <1>1, <1>3, <1>4, <1>6, <2>1 DEF LogInv, LogTypes, DeliveriesInv, Handled
  <2> QED
    BY <1>1, <1>4, <1>5, <2>1, <2>2 DEF LogInv, JobsInv, HandsInv
<1>7. CASE o # "nak" /\ stream[i].kind = "junk"
  <2>1. dead' = dead \cup {i} /\ UNCHANGED <<rows_, queue_>>
    BY <1>7 DEF handle_nats_message
  <2>2. LogTypes' /\ DeliveriesInv'
    BY <1>1, <1>3, <1>4, <1>7, <2>1 DEF LogInv, LogTypes, DeliveriesInv, Handled
  <2> QED
    BY <1>1, <1>4, <1>5, <2>1, <2>2 DEF LogInv, JobsInv, HandsInv
<1>8. CASE o # "nak" /\ stream[i].kind # "junk"
  <2>1. persist_message(stream[i]) /\ UNCHANGED dead
    BY <1>8 DEF handle_nats_message
  <2>2. LogTypes'
    <3>1. /\ rows_' \in [DOMAIN rows_ \cup {stream[i].msg} -> Texts_] /\ queue_' \in [DOMAIN queue_' -> JobRows]
          /\ DOMAIN queue_' \subseteq DOMAIN queue_ \cup {stream[i].msg}
      BY <2>1, Recorded
    <3>2. DOMAIN rows_' = DOMAIN rows_ \cup {stream[i].msg} /\ rows_' \in [DOMAIN rows_' -> Texts_]
      BY <3>1
    <3> QED
      BY <1>1, <1>2, <1>3, <3>1, <3>2 DEF LogInv, LogTypes
  <2>3. \A m \in DOMAIN rows_' : Delivered(m, rows_[m])'
    <3>1. Delivered(stream[i].msg, stream[i].text)'
      BY <1>3 DEF Delivered
    <3>2. SUFFICES ASSUME NEW m \in DOMAIN rows_' PROVE Delivered(m, rows_[m])'
      OBVIOUS
    <3>3. CASE m = stream[i].msg
      <4>1. rows_'[m] = stream[i].text
        BY <2>1, <3>3, Recorded
      <4>2. i \in DOMAIN stream' /\ stream'[i].msg = m /\ stream'[i].text = rows_'[m] /\ stream'[i].given > 0
        BY <1>3, <3>3, <4>1
      <4> QED
        BY <4>2 DEF Delivered
    <3>4. CASE m # stream[i].msg
      <4>1. m \in DOMAIN rows_ /\ rows_'[m] = rows_[m]
        BY <2>1, <3>4, Recorded
      <4>2. Delivered(m, rows_[m])
        BY <4>1 DEF LogInv, DeliveriesInv
      <4>3. PICK t : t = rows_[m]
        OBVIOUS
      <4>4. Delivered(m, t)'
        BY <1>4, <4>2, <4>3
      <4>5. rows_'[m] = t
        BY <4>1, <4>3
      <4> QED
        BY <4>4, <4>5 DEF Delivered
    <3> QED
      BY <3>3, <3>4
  <2>4. DeliveriesInv'
    <3>1. \A k \in DOMAIN stream : Handled(k) => Handled(k)'
      BY <1>3, <2>1, Recorded DEF Handled
    <3>2. Handled(i)'
      BY <1>3, <1>8, <2>1, Recorded DEF Handled
    <3>3. stream[i].kind = "text" => stream[i].msg \in DOMAIN queue_'
      BY <2>1, Recorded
    <3>4. DOMAIN queue_ \subseteq DOMAIN queue_'
      BY <2>1, Recorded
    <3> QED
      BY <1>3, <2>3, <3>1, <3>2, <3>3, <3>4 DEF LogInv, DeliveriesInv
  <2>5. JobsInv' /\ HandsInv'
    <3>1. MaxAttempts \in Nat \ {0} /\ NewJob.st = "pending" /\ NewJob.tries = 0
      BY JobsTried DEF NewJob
    <3>2. /\ DOMAIN queue_ \subseteq DOMAIN queue_' /\ \A m \in DOMAIN queue_ : queue_'[m] = queue_[m]
          /\ \A m \in DOMAIN queue_' \ DOMAIN queue_ : queue_'[m] = NewJob
      BY <2>1, Recorded
    <3>3. JobsInv'
      BY <1>1, <3>1, <3>2 DEF LogInv, JobsInv
    <3>4. HandsInv'
      BY <1>1, <1>4, <3>2 DEF LogInv, HandsInv
    <3> QED
      BY <3>3, <3>4
  <2> QED
    BY <1>5, <2>2, <2>4, <2>5 DEF LogInv
<1> QED
  BY <1>6, <1>7, <1>8

\* A worker takes jobs that are to be tried.
LEMMA TakeJobsStep ==
  ASSUME LogInv, NEW w \in Embedders, NEW S \in SUBSET DOMAIN queue_, claim_jobs(w, S)
  PROVE  LogInv'
<1>1. /\ S \subseteq Claimable /\ UNCHANGED <<stream, rows_, dead, vectors>>
      /\ hand' = [hand EXCEPT ![w].todo = {[msg |-> m, tries |-> queue_[m].tries] : m \in S}]
      /\ queue_' = [m \in DOMAIN queue_ |-> IF m \in S THEN [queue_[m] EXCEPT !.st = "processing", !.lock = "new"]
                                            ELSE queue_[m]]
  BY DEF claim_jobs
<1>2. \A m \in DOMAIN queue_ : queue_[m] \in JobRows
  BY DEF LogInv, LogTypes
<1>3. \A m \in S : queue_[m].tries \in Nat /\ queue_[m].tries < MaxAttempts
  BY <1>1, <1>2 DEF Claimable, LogInv, JobsInv, JobRows
<1>4. PICK T : T = {[msg |-> m, tries |-> queue_[m].tries] : m \in S}
  OBVIOUS
<1>5. /\ T \in SUBSET [msg : Msgs_, tries : Nat]
      /\ \A j \in T : j.msg \in DOMAIN queue_ /\ j.tries < MaxAttempts
  BY <1>3, <1>4 DEF LogInv, LogTypes
<1>6. /\ hand' \in [Embedders -> Hands] /\ hand'[w].todo = T
      /\ hand'[w].asking = hand[w].asking /\ hand'[w].text = hand[w].text
      /\ \A u \in Embedders : u # w => hand'[u] = hand[u]
  <2>1. hand[w] \in Hands /\ hand' = [hand EXCEPT ![w].todo = T] /\ hand \in [Embedders -> Hands]
    BY <1>1, <1>4 DEF LogInv, LogTypes
  <2> QED
    BY <1>5, <2>1 DEF Hands
<1>7. /\ DOMAIN queue_' = DOMAIN queue_ /\ queue_' \in [DOMAIN queue_ -> JobRows]
      /\ \A m \in DOMAIN queue_ : /\ m \notin S => queue_'[m] = queue_[m]
                                  /\ m \in S => queue_'[m].st = "processing" /\ queue_'[m].tries = queue_[m].tries
  <2>1. \A m \in DOMAIN queue_ : [queue_[m] EXCEPT !.st = "processing", !.lock = "new"] \in JobRows
    BY <1>2 DEF JobRows
  <2>2. \A m \in DOMAIN queue_ : /\ [queue_[m] EXCEPT !.st = "processing", !.lock = "new"].st = "processing"
                                 /\ [queue_[m] EXCEPT !.st = "processing", !.lock = "new"].tries = queue_[m].tries
    BY <1>2 DEF JobRows
  <2> QED
    BY <1>1, <1>2, <2>1, <2>2
<1>8. UNCHANGED <<stream, rows_, dead, vectors>>
  BY <1>1
<1>9. LogTypes' /\ DeliveriesInv' /\ VectorsInv'
  BY <1>6, <1>7, <1>8 DEF LogInv, LogTypes, DeliveriesInv, VectorsInv, Handled, Delivered
<1>10. JobsInv'
  <2>1. MaxAttempts \in Nat /\ vectors' = vectors /\ DOMAIN queue_' = DOMAIN queue_
    BY <1>7, <1>8, JobsTried
  <2>2. \A m \in S : queue_'[m].st = "processing" /\ queue_'[m].tries < MaxAttempts /\ queue_'[m].tries <= MaxAttempts
    BY <1>3, <1>7, <2>1
  <2>3. \A m \in DOMAIN queue_ \ S : queue_'[m] = queue_[m]
    BY <1>7
  <2> QED
    BY <2>1, <2>2, <2>3 DEF LogInv, JobsInv
<1>11. HandsInv'
  BY <1>5, <1>6, <1>7, <1>8 DEF LogInv, HandsInv, Delivered
<1> QED
  BY <1>9, <1>10, <1>11 DEF LogInv

\* Each job by itself: what a step makes of one job and of the worker that
\* holds it.
LEMMA JobStep ==
  ASSUME LogInv, NEW w \in Embedders, NEW j \in hand[w].todo, NEW r \in JobRows,
         UNCHANGED <<stream, rows_, dead>>, vectors \subseteq vectors', VectorsInv',
         queue_' = [queue_ EXCEPT ![j.msg] = r], hand' = Dropped(w, j),
         r.st = "completed" => \E v \in vectors' : v.msg = j.msg,
         r.st = "failed" => r.tries = MaxAttempts,
         r.st \in {"pending", "processing"} => r.tries < MaxAttempts,
         r.tries <= MaxAttempts
  PROVE  LogInv'
<1>1. hand[w] \in Hands /\ hand[w].todo \subseteq [msg : Msgs_, tries : Nat] /\ j.msg \in DOMAIN queue_
  BY DEF LogInv, LogTypes, Hands, HandsInv
<1>2. /\ queue_' \in [DOMAIN queue_ -> JobRows] /\ DOMAIN queue_' = DOMAIN queue_ /\ queue_'[j.msg] = r
      /\ \A m \in DOMAIN queue_ : m # j.msg => queue_'[m] = queue_[m]
  BY <1>1 DEF LogInv, LogTypes
<1>3. /\ hand' \in [Embedders -> Hands] /\ hand'[w].todo \subseteq hand[w].todo /\ hand'[w].asking = "none"
      /\ \A u \in Embedders : u # w => hand'[u] = hand[u]
  <2>1. [todo |-> hand[w].todo \ {j}, asking |-> "none", text |-> Blank] \in Hands
    BY <1>1 DEF Hands, Texts_
  <2> QED
    BY <2>1 DEF Dropped, LogInv, LogTypes
<1>4. LogTypes' /\ DeliveriesInv'
  BY <1>2, <1>3 DEF LogInv, LogTypes, DeliveriesInv, Handled, Delivered
<1>5. JobsInv'
  BY <1>2 DEF LogInv, JobsInv
<1>6. HandsInv'
  BY <1>2, <1>3 DEF LogInv, HandsInv, Delivered
<1> QED
  BY <1>4, <1>5, <1>6 DEF LogInv

\* The job a worker holds, before and after it is done with.
LEMMA HeldJob ==
  ASSUME LogInv, NEW w \in Embedders, NEW j \in hand[w].todo, NEW st \in {"completed", "skipped"}
  PROVE  /\ j.msg \in DOMAIN queue_ /\ queue_[j.msg] \in JobRows /\ j.msg \in Msgs_
         /\ j.tries \in Nat /\ j.tries < MaxAttempts /\ queue_[j.msg].tries <= MaxAttempts
         /\ \E r \in JobRows : r.st = st /\ r.tries = queue_[j.msg].tries /\ Completed(j.msg, st) = [queue_ EXCEPT ![j.msg] = r]
<1>1. hand[w].todo \subseteq [msg : Msgs_, tries : Nat]
  BY DEF LogInv, LogTypes, Hands
<1>2. j.msg \in DOMAIN queue_ /\ j.tries < MaxAttempts
  BY DEF LogInv, HandsInv
<1>3. queue_[j.msg] \in JobRows /\ queue_[j.msg].tries <= MaxAttempts
  BY <1>2 DEF LogInv, LogTypes, JobsInv
<1>4. PICK r : r = [queue_[j.msg] EXCEPT !.st = st, !.lock = "none"]
  OBVIOUS
<1>5. r \in JobRows /\ r.st = st /\ r.tries = queue_[j.msg].tries
  BY <1>3, <1>4 DEF JobRows
<1>6. Completed(j.msg, st) = [queue_ EXCEPT ![j.msg] = r]
  BY <1>2, <1>4 DEF Completed
<1> QED
  BY <1>1, <1>2, <1>3, <1>5, <1>6

LEMMA ProcessStep ==
  ASSUME LogInv, NEW w \in Embedders, NEW j \in hand[w].todo, process_job(w, j)
  PROVE  LogInv'
<1>1. j.msg \in DOMAIN queue_ /\ j.msg \in DOMAIN rows_ /\ j.msg \in Msgs_
  BY HeldJob DEF LogInv, LogTypes
<1>2. CASE rows_[j.msg] = Blank
  <2>1. PICK r \in JobRows : /\ r.st = "skipped" /\ r.tries = queue_[j.msg].tries
                             /\ Completed(j.msg, "skipped") = [queue_ EXCEPT ![j.msg] = r]
    BY HeldJob
  <2>2. queue_[j.msg].tries <= MaxAttempts
    BY HeldJob
  <2>3. /\ queue_' = [queue_ EXCEPT ![j.msg] = r] /\ hand' = Dropped(w, j)
        /\ UNCHANGED <<stream, rows_, dead, vectors>>
    BY <1>2, <2>1 DEF process_job
  <2>4. VectorsInv'
    BY <2>3 DEF LogInv, VectorsInv, Delivered
  <2> QED
    BY <2>1, <2>2, <2>3, <2>4, JobStep
<1>3. CASE rows_[j.msg] # Blank
  <2>1. /\ hand' = [hand EXCEPT ![w].asking = j.msg, ![w].text = rows_[j.msg]]
        /\ UNCHANGED <<stream, rows_, dead, vectors, queue_>>
    BY <1>3 DEF process_job
  <2>2. hand[w] \in Hands /\ rows_[j.msg] \in Texts_ /\ Delivered(j.msg, rows_[j.msg])
    BY <1>1 DEF LogInv, LogTypes, DeliveriesInv
  <2>3. /\ hand' \in [Embedders -> Hands] /\ hand'[w].todo = hand[w].todo
        /\ hand'[w].asking = j.msg /\ hand'[w].text = rows_[j.msg]
        /\ \A u \in Embedders : u # w => hand'[u] = hand[u]
    BY <1>1, <2>1, <2>2 DEF LogInv, LogTypes, Hands
  <2> QED
    <3>1. \A m, t : Delivered(m, t) <=> Delivered(m, t)'
      BY <2>1 DEF Delivered
    <3>2. LogTypes' /\ JobsInv'
      BY <2>1, <2>3 DEF LogInv, LogTypes, JobsInv
    <3>3. DeliveriesInv' /\ VectorsInv'
      BY <2>1, <3>1 DEF LogInv, DeliveriesInv, VectorsInv, Handled
    <3>4. HandsInv'
      BY <1>3, <2>1, <2>2, <2>3, <3>1 DEF LogInv, HandsInv
    <3> QED
      BY <3>2, <3>3, <3>4 DEF LogInv
<1> QED
  BY <1>2, <1>3

LEMMA WriteStep ==
  ASSUME LogInv, NEW w \in Embedders, NEW j \in hand[w].todo, write_embedding(w, j)
  PROVE  LogInv'
<1>1. /\ hand[w].asking = j.msg /\ vectors' = vectors \cup {[msg |-> j.msg, text |-> hand[w].text]}
      /\ queue_' = Completed(j.msg, "completed") /\ hand' = Dropped(w, j) /\ UNCHANGED <<stream, rows_, dead>>
  BY DEF write_embedding
<1>2. PICK r \in JobRows : /\ r.st = "completed" /\ r.tries = queue_[j.msg].tries
                           /\ Completed(j.msg, "completed") = [queue_ EXCEPT ![j.msg] = r]
  BY HeldJob
<1>3. queue_[j.msg].tries <= MaxAttempts /\ j.msg # "none"
  <2>1. j.msg \in Msgs_
    BY HeldJob
  <2> QED
    BY <2>1, HeldJob, JobsTried DEF Msgs_
<1>4. VectorsInv'
  BY <1>1, <1>3 DEF LogInv, VectorsInv, HandsInv, Delivered
<1>5. vectors \subseteq vectors' /\ \E v \in vectors' : v.msg = j.msg
  <2>1. PICK v : v = [msg |-> j.msg, text |-> hand[w].text]
    OBVIOUS
  <2>2. v.msg = j.msg /\ vectors' = vectors \cup {v}
    BY <1>1, <2>1
  <2> QED
    BY <2>2
<1>6. queue_' = [queue_ EXCEPT ![j.msg] = r] /\ hand' = Dropped(w, j) /\ UNCHANGED <<stream, rows_, dead>> /\ r.tries <= MaxAttempts
  BY <1>1, <1>2, <1>3
<1>7. r.st # "failed" /\ r.st \notin {"pending", "processing"}
  BY <1>2
<1> QED
  BY <1>4, <1>5, <1>6, <1>7, JobStep

LEMMA FailedStep ==
  ASSUME LogInv, NEW w \in Embedders, NEW j \in hand[w].todo, mark_failed(w, j)
  PROVE  LogInv'
<1>1. MaxAttempts \in Nat \ {0} /\ j.tries \in Nat /\ j.tries < MaxAttempts
  BY JobsTried, HeldJob
<1>2. PICK r : r = IF j.tries + 1 >= MaxAttempts
                   THEN [st |-> "failed", tries |-> j.tries + 1, due |-> TRUE, lock |-> "none"]
                   ELSE [st |-> "pending", tries |-> j.tries + 1, due |-> FALSE, lock |-> "none"]
  OBVIOUS
<1>3. /\ r \in JobRows /\ r.st \in {"failed", "pending"} /\ r.tries = j.tries + 1
      /\ r.st = "failed" => j.tries + 1 >= MaxAttempts
      /\ r.st = "pending" => j.tries + 1 < MaxAttempts
  BY <1>1, <1>2 DEF JobRows
<1>4. queue_' = [queue_ EXCEPT ![j.msg] = r] /\ hand' = Dropped(w, j) /\ UNCHANGED <<stream, rows_, dead, vectors>>
  BY <1>2 DEF mark_failed
<1>5. VectorsInv'
  BY <1>4 DEF LogInv, VectorsInv, Delivered
<1>6. /\ r.st # "completed" /\ (r.st = "failed" => r.tries = MaxAttempts) /\ r.tries <= MaxAttempts
      /\ (r.st \in {"pending", "processing"} => r.tries < MaxAttempts)
  BY <1>1, <1>3
<1>7. r \in JobRows /\ vectors \subseteq vectors' /\ UNCHANGED <<stream, rows_, dead>>
  BY <1>3, <1>4
<1> QED
  BY <1>4, <1>5, <1>6, <1>7, JobStep

\* Time passes over a job.
LEMMA AgeStep ==
  ASSUME LogInv, NEW m \in DOMAIN queue_, LockAges(m) \/ BackoffEnds(m)
  PROVE  LogInv'
<1>1. /\ UNCHANGED <<stream, rows_, dead, vectors, hand>>
      /\ queue_' = [queue_ EXCEPT ![m].lock = "old"] \/ queue_' = [queue_ EXCEPT ![m].due = TRUE]
  BY DEF LockAges, BackoffEnds
<1>2. \A n \in DOMAIN queue_ : queue_[n] \in JobRows
  BY DEF LogInv, LogTypes
<1>3. /\ queue_' \in [DOMAIN queue_ -> JobRows] /\ DOMAIN queue_' = DOMAIN queue_
      /\ \A n \in DOMAIN queue_ : queue_'[n].st = queue_[n].st /\ queue_'[n].tries = queue_[n].tries
  <2>1. ASSUME NEW r \in JobRows, r.st = queue_[m].st, r.tries = queue_[m].tries, queue_' = [queue_ EXCEPT ![m] = r]
        PROVE  /\ queue_' \in [DOMAIN queue_ -> JobRows] /\ DOMAIN queue_' = DOMAIN queue_
               /\ \A n \in DOMAIN queue_ : queue_'[n].st = queue_[n].st /\ queue_'[n].tries = queue_[n].tries
    BY <1>2, <2>1 DEF LogInv, LogTypes
  <2>2. CASE queue_' = [queue_ EXCEPT ![m].lock = "old"]
    <3>1. PICK r : r = [queue_[m] EXCEPT !.lock = "old"]
      OBVIOUS
    <3>2. r \in JobRows /\ r.st = queue_[m].st /\ r.tries = queue_[m].tries
      BY <1>2, <3>1 DEF JobRows
    <3>3. queue_' = [queue_ EXCEPT ![m] = r]
      BY <2>2, <3>1
    <3> QED
      BY <2>1, <3>2, <3>3
  <2>3. CASE queue_' = [queue_ EXCEPT ![m].due = TRUE]
    <3>1. PICK r : r = [queue_[m] EXCEPT !.due = TRUE]
      OBVIOUS
    <3>2. r \in JobRows /\ r.st = queue_[m].st /\ r.tries = queue_[m].tries
      BY <1>2, <3>1 DEF JobRows
    <3>3. queue_' = [queue_ EXCEPT ![m] = r]
      BY <2>3, <3>1
    <3> QED
      BY <2>1, <3>2, <3>3
  <2> QED
    BY <1>1, <2>2, <2>3
<1>4. LogTypes'
  BY <1>1, <1>3 DEF LogInv, LogTypes
<1>5. DeliveriesInv' /\ VectorsInv'
  BY <1>1, <1>3 DEF LogInv, DeliveriesInv, VectorsInv, Handled, Delivered
<1>6. JobsInv'
  BY <1>1, <1>3 DEF LogInv, JobsInv
<1>7. HandsInv'
  BY <1>1, <1>3 DEF LogInv, HandsInv, Delivered
<1> QED
  BY <1>4, <1>5, <1>6, <1>7 DEF LogInv

LEMMA StopsStep ==
  ASSUME LogInv, NEW w \in Embedders, EmbedderStops(w)
  PROVE  LogInv'
<1>1. hand' = [hand EXCEPT ![w] = NoHand] /\ UNCHANGED <<stream, rows_, dead, queue_, vectors>>
  BY DEF EmbedderStops
<1>2. NoHand \in Hands /\ NoHand.todo = {} /\ NoHand.asking = "none"
  BY DEF NoHand, Hands, Texts_
<1>3. /\ hand' \in [Embedders -> Hands] /\ hand'[w] = NoHand
      /\ \A u \in Embedders : u # w => hand'[u] = hand[u]
  BY <1>1, <1>2 DEF LogInv, LogTypes
<1> QED
  BY <1>1, <1>2, <1>3 DEF LogInv, LogTypes, DeliveriesInv, VectorsInv, JobsInv, HandsInv, Handled, Delivered

LEMMA LogNextInv ==
  ASSUME LogInv, LogNext
  PROVE  LogInv'
BY PublishStep, DeliverStep, TakeJobsStep, ProcessStep, WriteStep, FailedStep, AgeStep, StopsStep DEF LogNext

\* What is published is recorded and embedded once and as it was said, for any
\* number of publications, deliveries, jobs and workers, whichever of them stop
\* (MessagesTrue; consumer.rs, embedding_worker.rs).
THEOREM Recording == LogInit /\ [][LogNext]_lvars => []MessagesTrue
<1>1. LogInit => LogInv
  BY LogInitInv
<1>2. LogInv /\ [LogNext]_lvars => LogInv'
  <2>1. ASSUME LogInv, UNCHANGED lvars PROVE LogInv'
    BY <2>1 DEF lvars, LogInv, LogTypes, DeliveriesInv, VectorsInv, JobsInv, HandsInv, Handled, Delivered
  <2> QED
    BY <2>1, LogNextInv
<1>3. LogInv => MessagesTrue
  BY DEF LogInv, LogTypes, DeliveriesInv, VectorsInv, JobsInv, Delivered, MessagesTrue
<1> QED
  BY <1>1, <1>2, <1>3, PTL

-----------------------------------------------------------------------------
(***************************************************************************)
(* The archive                                                             *)
(***************************************************************************)

Holds(r) == batch_[r].at \in {"writing", "written"}

\* A batch takes no more than the limit, and passes over no older message of
\* a chat it takes from.
BatchOK(S) ==
    /\ S \subseteq 1 .. aged /\ Cardinality(S) <= ArchiveLimit
    /\ \A i \in S : /\ OldMessages[i] \in TargetChats
                    /\ \A j \in 1 .. i : OldMessages[j] = OldMessages[i] => j \in S \cup DOMAIN marks

RunnerOK(r) ==
    /\ DOMAIN batch_[r] = {"at", "of", "name"}
    /\ batch_[r].at \in {"idle", "loaded", "writing", "written"}
    /\ batch_[r].at # "idle" => BatchOK(batch_[r].of)
    /\ Holds(r) => batch_[r].name \in DOMAIN created
RunnersInv ==
    /\ aged \in Nat /\ DOMAIN files = DOMAIN created /\ \A n \in DOMAIN created : created[n] \in Nat \ {0}
    /\ batch_ = [r \in Runners |-> batch_[r]]
    /\ \A r \in Runners : RunnerOK(r)

\* A file that was created once is one runner's until it is recorded.
OwnersInv ==
    \A r \in Runners : Holds(r) /\ created[batch_[r].name] = 1 =>
        /\ \A q \in Runners : Holds(q) /\ batch_[q].name = batch_[r].name => q = r
        /\ \A a \in archives : a.name # batch_[r].name
        /\ batch_[r].at = "written" => files[batch_[r].name] = batch_[r].of
ArchivesInv ==
    /\ \A i \in DOMAIN marks : \E a \in archives : a.name = marks[i] /\ i \in a.of
    /\ \A a \in archives : /\ a.name \in DOMAIN created /\ BatchOK(a.of) /\ a.of \subseteq DOMAIN marks
                           /\ created[a.name] = 1 => files[a.name] = a.of
ArchiveInv == RunnersInv /\ OwnersInv /\ ArchivesInv

LEMMA ArchiveInitInv == ArchiveInit => ArchiveInv
<1>1. NoBatch.at = "idle" /\ DOMAIN NoBatch = {"at", "of", "name"}
  BY DEF NoBatch
<1> QED
  BY <1>1 DEF ArchiveInit, ArchiveInv, RunnersInv, RunnerOK, OwnersInv, ArchivesInv, Holds

\* What was a batch stays one.
LEMMA BatchStays ==
  ASSUME aged \in Nat, aged' \in Nat, aged <= aged', DOMAIN marks \subseteq DOMAIN marks'
  PROVE  \A S : BatchOK(S) => BatchOK(S)'
BY DEF BatchOK

\* A set of numbers has a least one.
LEMMA LeastNumber ==
  ASSUME NEW S \in SUBSET Nat, S # {}
  PROVE  \E m \in S : \A n \in S : m <= n
<1>1. IsWellFoundedOn({q \in Nat \X Nat : q[1] < q[2]}, Nat)
  BY NatLessThanWellFounded, Zenon DEF OpToRel
<1>2. PICK m \in S : \A n \in S : ~(<<n, m>> \in {q \in Nat \X Nat : q[1] < q[2]})
  BY <1>1, WFMin
<1>3. \A n \in S : ~(n < m)
  BY <1>2
<1> QED
  BY <1>3

\* The first numbers of a set, up to a limit, are no more than the limit.
LEMMA FirstOnes ==
  ASSUME NEW k \in Nat, NEW S \in SUBSET (1 .. k), NEW n \in Nat
  PROVE  Cardinality({i \in S : Cardinality({j \in S : j < i}) < n}) <= n
<1>1. IsFiniteSet(S)
  <2>1. 1 \in Int /\ k \in Int
    OBVIOUS
  <2> QED
    BY <2>1, FS_Interval, FS_Subset
<1>2. PICK F : F = {i \in S : Cardinality({j \in S : j < i}) < n}
  OBVIOUS
<1>3. F \in SUBSET (1 .. k) /\ \A i \in F : i \in S /\ Cardinality({j \in S : j < i}) < n
  BY <1>2
<1>4. IsFiniteSet(F) /\ Cardinality(F) \in Nat
  BY <1>1, <1>2, FS_Subset, FS_CardinalityType
<1>5. CASE F = {}
  <2>1. Cardinality(F) <= n
    BY <1>4, <1>5, FS_EmptySet
  <2> QED
    BY <1>2, <2>1
<1>6. CASE F # {}
  <2>1. PICK m \in F : \A i \in F : i <= m
    <3>0. \A i \in F : k - i \in Nat
      BY <1>3
    <3>1. {k - i : i \in F} \in SUBSET Nat /\ {k - i : i \in F} # {}
      BY <3>0, <1>6
    <3>2. PICK d \in {k - i : i \in F} : \A e \in {k - i : i \in F} : d <= e
      BY <3>1, LeastNumber
    <3>3. PICK m \in F : d = k - m
      BY <3>2
    <3>4. \A i \in F : k - m <= k - i
      BY <3>2, <3>3
    <3> QED
      BY <1>3, <3>4
  <2>2. F \ {m} \subseteq {j \in S : j < m} /\ IsFiniteSet({j \in S : j < m})
    <3>1. F \subseteq S /\ \A i \in S : i \in Int
      <4>1. F \subseteq S
        BY <1>2, Zenon
      <4> QED
        BY <4>1
    <3>2. \A i \in F \ {m} : i \in S /\ i < m
      BY <2>1, <3>1
    <3>3. {j \in S : j < m} \subseteq S
      OBVIOUS
    <3>4. IsFiniteSet({j \in S : j < m})
      BY <1>1, <3>3, FS_Subset
    <3> QED
      BY <3>2, <3>4
  <2>3. Cardinality(F \ {m}) <= Cardinality({j \in S : j < m}) /\ Cardinality({j \in S : j < m}) < n
    BY <1>3, <2>1, <2>2, FS_Subset
  <2>4. Cardinality(F \ {m}) = Cardinality(F) - 1 /\ Cardinality({j \in S : j < m}) \in Nat
    BY <1>4, <2>1, <2>2, FS_RemoveElement, FS_CardinalityType
  <2>5. Cardinality(F) <= n
    BY <1>4, <2>3, <2>4
  <2> QED
    BY <1>2, <2>5
<1> QED
  BY <1>5, <1>6

\* The candidates that are loaded are a batch.
LEMMA LoadedOK ==
  ASSUME aged \in Nat, NEW C \in SUBSET TargetChats
  PROVE  BatchOK(load_archive_candidates(C))
<1>1. Candidates(C) \in SUBSET (1 .. aged) /\ ArchiveLimit \in Nat
  BY LimitNumber DEF Candidates
<1>2. Cardinality(load_archive_candidates(C)) <= ArchiveLimit
  BY <1>1, FirstOnes DEF load_archive_candidates
<1>3. IsFiniteSet(Candidates(C))
  <2>1. 1 \in Int /\ aged \in Int
    OBVIOUS
  <2> QED
    BY <1>1, <2>1, FS_Interval, FS_Subset
<1>4. ASSUME NEW i \in load_archive_candidates(C), NEW j \in 1 .. i, OldMessages[j] = OldMessages[i], j \notin DOMAIN marks
      PROVE  j \in load_archive_candidates(C)
  <2>1. i \in Candidates(C) /\ Cardinality({q \in Candidates(C) : q < i}) < ArchiveLimit
    BY DEF load_archive_candidates
  <2>2. j \in Candidates(C)
    BY <1>1, <1>4, <2>1 DEF Candidates
  <2>3. /\ {q \in Candidates(C) : q < j} \subseteq {q \in Candidates(C) : q < i}
        /\ IsFiniteSet({q \in Candidates(C) : q < i})
    BY <1>1, <1>3, <2>1, <2>2, FS_Subset
  <2>4. /\ Cardinality({q \in Candidates(C) : q < j}) <= Cardinality({q \in Candidates(C) : q < i})
        /\ Cardinality({q \in Candidates(C) : q < j}) \in Nat /\ Cardinality({q \in Candidates(C) : q < i}) \in Nat
    BY <2>3, FS_Subset, FS_CardinalityType
  <2> QED
    BY <1>1, <2>1, <2>2, <2>4 DEF load_archive_candidates
<1>5. \A i \in load_archive_candidates(C) : i \in 1 .. aged /\ OldMessages[i] \in TargetChats
  BY <1>1 DEF load_archive_candidates, Candidates
<1> QED
  BY <1>2, <1>4, <1>5 DEF BatchOK

LEMMA AgesStep ==
  ASSUME ArchiveInv, Ages \/ NextSecond
  PROVE  ArchiveInv'
<1>1. UNCHANGED <<marks, files, archives, batch_, created>> /\ aged' \in {aged, aged + 1} /\ aged \in Nat
  BY DEF Ages, NextSecond, ArchiveInv, RunnersInv, RunnerOK
<1>2. aged' \in Nat /\ aged <= aged'
  BY <1>1
<1>3. \A S : BatchOK(S) => BatchOK(S)'
  BY <1>1, <1>2, BatchStays
<1> QED
  BY <1>1, <1>2, <1>3 DEF ArchiveInv, RunnersInv, RunnerOK, OwnersInv, ArchivesInv, Holds

\* A step of one runner, which changes its own batch.
LEMMA OneBatch ==
  ASSUME RunnersInv, NEW r \in Runners, NEW b, batch_' = [batch_ EXCEPT ![r] = b]
  PROVE  /\ batch_' = [q \in Runners |-> batch_'[q]] /\ batch_'[r] = b
         /\ \A q \in Runners \ {r} : batch_'[q] = batch_[q]
BY DEF RunnersInv

LEMMA RunStep ==
  ASSUME ArchiveInv, NEW r \in Runners, NEW c, run_inner(r, c)
  PROVE  ArchiveInv'
<1>1. PICK S : S = load_archive_candidates(target_chat_ids(c))
  OBVIOUS
<1>2. PICK b : b = [at |-> "loaded", of |-> S, name |-> <<>>]
  OBVIOUS
<1>3. batch_' = [batch_ EXCEPT ![r] = b] /\ UNCHANGED <<aged, marks, files, archives, second, created>>
  BY <1>1, <1>2 DEF run_inner
<1>4. DOMAIN b = {"at", "of", "name"} /\ b.at = "loaded" /\ b.of = S
  BY <1>2
<1>5. target_chat_ids(c) \subseteq TargetChats /\ aged \in Nat
  BY DEF target_chat_ids, ArchiveInv, RunnersInv, RunnerOK
<1>6. BatchOK(S)
  BY <1>1, <1>5, LoadedOK
<1>7. \A T : BatchOK(T) => BatchOK(T)'
  BY <1>3, <1>5, BatchStays
<1>8. /\ batch_' = [q \in Runners |-> batch_'[q]] /\ batch_'[r] = b
      /\ \A q \in Runners \ {r} : batch_'[q] = batch_[q]
  BY <1>3, OneBatch DEF ArchiveInv
<1>9. ~Holds(r)' /\ \A q \in Runners \ {r} : Holds(q)' <=> Holds(q)
  BY <1>4, <1>8 DEF Holds
<1>10. RunnersInv'
  BY <1>3, <1>4, <1>6, <1>7, <1>8, <1>9 DEF ArchiveInv, RunnersInv, RunnerOK
<1>11. OwnersInv'
  BY <1>3, <1>8, <1>9 DEF ArchiveInv, OwnersInv
<1>12. ArchivesInv'
  BY <1>3, <1>7 DEF ArchiveInv, ArchivesInv
<1> QED
  BY <1>10, <1>11, <1>12 DEF ArchiveInv

LEMMA CreateStep ==
  ASSUME ArchiveInv, NEW r \in Runners, CreateFile(r)
  PROVE  ArchiveInv'
<1>1. PICK n : /\ batch_' = [batch_ EXCEPT ![r].at = "writing", ![r].name = n] /\ files' = Keep(files, n, {})
               /\ created' = Keep(created, n, 1 + IF n \in DOMAIN created THEN created[n] ELSE 0)
               /\ batch_[r].at = "loaded" /\ UNCHANGED <<aged, marks, archives, second>>
  BY DEF CreateFile
<1>2. PICK b : b = [batch_[r] EXCEPT !.at = "writing", !.name = n]
  OBVIOUS
<1>3. DOMAIN b = {"at", "of", "name"} /\ b.at = "writing" /\ b.of = batch_[r].of /\ b.name = n
  BY <1>2 DEF ArchiveInv, RunnersInv, RunnerOK
<1>4. batch_' = [batch_ EXCEPT ![r] = b]
  BY <1>1, <1>2 DEF ArchiveInv, RunnersInv
<1>5. /\ batch_' = [q \in Runners |-> batch_'[q]] /\ batch_'[r] = b
      /\ \A q \in Runners \ {r} : batch_'[q] = batch_[q]
  BY <1>4, OneBatch DEF ArchiveInv
<1>6. Holds(r)' /\ \A q \in Runners \ {r} : Holds(q)' <=> Holds(q)
  BY <1>3, <1>5 DEF Holds
<1>7. /\ DOMAIN files' = DOMAIN files \cup {n} /\ DOMAIN created' = DOMAIN created \cup {n}
      /\ \A k \in DOMAIN created \ {n} : created'[k] = created[k] /\ files'[k] = files[k]
      /\ created'[n] \in Nat \ {0} /\ (created'[n] = 1 => n \notin DOMAIN created)
  <2>1. \A k \in DOMAIN created : created[k] \in Nat \ {0}
    BY DEF ArchiveInv, RunnersInv
  <2>2. n \in DOMAIN created => created'[n] = 1 + created[n]
    BY <1>1 DEF Keep
  <2>3. n \notin DOMAIN created => created'[n] = 1 + 0
    BY <1>1 DEF Keep
  <2>4. created'[n] \in Nat \ {0} /\ (created'[n] = 1 => n \notin DOMAIN created)
    BY <2>1, <2>2, <2>3
  <2>5. DOMAIN files = DOMAIN created
    BY DEF ArchiveInv, RunnersInv
  <2> QED
    BY <1>1, <2>4, <2>5 DEF Keep
<1>8. aged \in Nat /\ \A T : BatchOK(T) => BatchOK(T)'
  BY <1>1, BatchStays DEF ArchiveInv, RunnersInv
<1>9. RunnersInv'
  <2>1. /\ batch_[r].at # "idle" /\ BatchOK(b.of) /\ aged' \in Nat /\ DOMAIN files = DOMAIN created
        /\ \A k \in DOMAIN created : created[k] \in Nat \ {0}
    BY <1>1, <1>3 DEF ArchiveInv, RunnersInv, RunnerOK
  <2>2. DOMAIN files' = DOMAIN created' /\ \A k \in DOMAIN created' : created'[k] \in Nat \ {0}
    BY <1>7, <2>1
  <2>3. ASSUME NEW q \in Runners PROVE RunnerOK(q)'
    <3>1. RunnerOK(q) /\ (Holds(q)' => batch_'[q].name \in DOMAIN created')
      BY <1>3, <1>5, <1>6, <1>7 DEF ArchiveInv, RunnersInv, RunnerOK
    <3>2. CASE q = r
      BY <1>3, <1>5, <1>8, <2>1, <3>1, <3>2 DEF RunnerOK
    <3>3. CASE q # r
      BY <1>5, <1>8, <3>1, <3>3 DEF RunnerOK
    <3> QED
      BY <3>2, <3>3
  <2> QED
    BY <1>5, <2>1, <2>2, <2>3 DEF RunnersInv
<1>10. OwnersInv'
  <2>1. SUFFICES ASSUME NEW q \in Runners, Holds(q)', created'[batch_'[q].name] = 1
                 PROVE  /\ \A o \in Runners : Holds(o)' /\ batch_'[o].name = batch_'[q].name => o = q
                        /\ \A a \in archives' : a.name # batch_'[q].name
                        /\ batch_'[q].at = "written" => files'[batch_'[q].name] = batch_'[q].of
    BY DEF OwnersInv
  <2>2. \A o \in Runners : Holds(o) => batch_[o].name \in DOMAIN created
    BY DEF ArchiveInv, RunnersInv, RunnerOK
  <2>3. \A a \in archives : a.name \in DOMAIN created
    BY DEF ArchiveInv, ArchivesInv
  <2>4. CASE q = r
    <3>1. batch_'[q] = b
      BY <1>5, <2>4
    <3>2. batch_'[q].name = n /\ batch_'[q].at = "writing"
      BY <1>3, <3>1
    <3>3. n \notin DOMAIN created
      BY <1>7, <2>1, <3>2
    <3>4. ASSUME NEW o \in Runners, o # r, Holds(o)', batch_'[o].name = n PROVE FALSE
      <4>1. batch_'[o] = batch_[o] /\ Holds(o)
        BY <1>5, <1>6, <3>4
      <4> QED
        BY <2>2, <3>3, <3>4, <4>1
    <3>5. \A o \in Runners : Holds(o)' /\ batch_'[o].name = batch_'[q].name => o = q
      BY <2>4, <3>2, <3>4
    <3>6. \A a \in archives' : a.name # batch_'[q].name
      BY <1>1, <2>3, <3>2, <3>3
    <3> QED
      BY <3>2, <3>5, <3>6
  <2>5. CASE q # r
    <3>1. batch_'[q] = batch_[q] /\ Holds(q) /\ batch_[q].name \in DOMAIN created /\ batch_[q].name # n
      BY <1>5, <1>6, <1>7, <2>1, <2>2, <2>5
    <3>2. created[batch_[q].name] = 1 /\ files'[batch_[q].name] = files[batch_[q].name]
      BY <1>7, <2>1, <3>1
    <3>3. /\ \A o \in Runners : Holds(o) /\ batch_[o].name = batch_[q].name => o = q
          /\ \A a \in archives : a.name # batch_[q].name
          /\ batch_[q].at = "written" => files[batch_[q].name] = batch_[q].of
      BY <3>1, <3>2 DEF ArchiveInv, OwnersInv
    <3> QED
      BY <1>1, <1>3, <1>5, <1>6, <3>1, <3>2, <3>3
  <2> QED
    BY <2>4, <2>5
<1>11. ArchivesInv'
  <2>1. ASSUME NEW a \in archives PROVE a.name \in DOMAIN created' /\ (created'[a.name] = 1 => files'[a.name] = a.of)
    <3>1. a.name \in DOMAIN created /\ (created[a.name] = 1 => files[a.name] = a.of)
      BY DEF ArchiveInv, ArchivesInv
    <3> QED
      BY <1>7, <3>1
  <2> QED
    BY <1>1, <1>8, <2>1 DEF ArchiveInv, ArchivesInv
<1> QED
  BY <1>9, <1>10, <1>11 DEF ArchiveInv

LEMMA WriteArchiveStep ==
  ASSUME ArchiveInv, NEW r \in Runners, write_archive(r)
  PROVE  ArchiveInv'
<1>1. PICK n : n = batch_[r].name
  OBVIOUS
<1>2. PICK b : b = [batch_[r] EXCEPT !.at = "written"]
  OBVIOUS
<1>3. PICK c : /\ files' = Keep(files, n, c) /\ c \in {batch_[r].of} \cup IF created[n] > 1 THEN {{}, files[n]} ELSE {}
               /\ batch_[r].at = "writing" /\ batch_' = [batch_ EXCEPT ![r].at = "written"]
               /\ UNCHANGED <<aged, marks, archives, second, created>>
  BY <1>1 DEF write_archive
<1>4. /\ DOMAIN b = {"at", "of", "name"} /\ b.at = "written" /\ b.of = batch_[r].of /\ b.name = n
      /\ Holds(r) /\ n \in DOMAIN created /\ BatchOK(b.of)
  BY <1>1, <1>2, <1>3 DEF ArchiveInv, RunnersInv, RunnerOK, Holds
<1>5. batch_' = [batch_ EXCEPT ![r] = b]
  BY <1>2, <1>3 DEF ArchiveInv, RunnersInv
<1>6. /\ batch_' = [q \in Runners |-> batch_'[q]] /\ batch_'[r] = b
      /\ \A q \in Runners \ {r} : batch_'[q] = batch_[q]
  BY <1>5, OneBatch DEF ArchiveInv
<1>7. \A q \in Runners : /\ Holds(q)' <=> Holds(q)
                        /\ batch_'[q].name = batch_[q].name /\ batch_'[q].of = batch_[q].of
  BY <1>1, <1>4, <1>6 DEF Holds
<1>8. /\ aged \in Nat /\ \A T : BatchOK(T) => BatchOK(T)'
      /\ DOMAIN files = DOMAIN created /\ \A k \in DOMAIN created : created[k] \in Nat \ {0}
  BY <1>3, BatchStays DEF ArchiveInv, RunnersInv
<1>9. /\ DOMAIN files' = DOMAIN files /\ \A k \in DOMAIN files \ {n} : files'[k] = files[k]
      /\ created[n] = 1 => files'[n] = b.of
  <2>1. created[n] = 1 => c = b.of
    BY <1>3, <1>4
  <2> QED
    BY <1>3, <1>4, <1>8, <2>1 DEF Keep
<1>10. RunnersInv'
  <2>1. ASSUME NEW q \in Runners PROVE RunnerOK(q)'
    <3>1. RunnerOK(q) /\ (Holds(q)' => batch_'[q].name \in DOMAIN created')
      BY <1>3, <1>7 DEF ArchiveInv, RunnersInv, RunnerOK
    <3>2. CASE q = r
      BY <1>4, <1>6, <1>8, <3>1, <3>2 DEF RunnerOK
    <3>3. CASE q # r
      BY <1>6, <1>8, <3>1, <3>3 DEF RunnerOK
    <3> QED
      BY <3>2, <3>3
  <2> QED
    BY <1>3, <1>6, <1>8, <1>9, <2>1 DEF RunnersInv
<1>11. OwnersInv'
  <2>1. SUFFICES ASSUME NEW q \in Runners, Holds(q)', created'[batch_'[q].name] = 1
                 PROVE  /\ \A o \in Runners : Holds(o)' /\ batch_'[o].name = batch_'[q].name => o = q
                        /\ \A a \in archives' : a.name # batch_'[q].name
                        /\ batch_'[q].at = "written" => files'[batch_'[q].name] = batch_'[q].of
    BY DEF OwnersInv
  <2>2. Holds(q) /\ created[batch_[q].name] = 1 /\ batch_[q].name \in DOMAIN created
    BY <1>3, <1>7, <2>1 DEF ArchiveInv, RunnersInv, RunnerOK
  <2>3. /\ \A o \in Runners : Holds(o) /\ batch_[o].name = batch_[q].name => o = q
        /\ \A a \in archives : a.name # batch_[q].name
        /\ batch_[q].at = "written" => files[batch_[q].name] = batch_[q].of
    BY <2>2 DEF ArchiveInv, OwnersInv
  <2>4. \A o \in Runners : Holds(o)' /\ batch_'[o].name = batch_'[q].name => o = q
    BY <1>7, <2>3
  <2>5. CASE q = r
    BY <1>1, <1>3, <1>4, <1>6, <1>9, <2>2, <2>3, <2>4, <2>5
  <2>6. CASE q # r
    <3>1. batch_[q].name # n
      BY <1>1, <1>4, <2>3, <2>6
    <3> QED
      BY <1>3, <1>6, <1>8, <1>9, <2>2, <2>3, <2>4, <2>6, <3>1
  <2> QED
    BY <2>5, <2>6
<1>12. ArchivesInv'
  <2>1. ASSUME NEW a \in archives PROVE a.name \in DOMAIN created' /\ (created'[a.name] = 1 => files'[a.name] = a.of)
    <3>1. a.name \in DOMAIN created /\ (created[a.name] = 1 => files[a.name] = a.of)
      BY DEF ArchiveInv, ArchivesInv
    <3>2. created[a.name] = 1 => a.name # n
      BY <1>1, <1>4 DEF ArchiveInv, OwnersInv
    <3> QED
      BY <1>3, <1>8, <1>9, <3>1, <3>2
  <2> QED
    BY <1>3, <1>8, <2>1 DEF ArchiveInv, ArchivesInv
<1> QED
  BY <1>10, <1>11, <1>12 DEF ArchiveInv

LEMMA MarkStep ==
  ASSUME ArchiveInv, NEW r \in Runners, mark_archived(r)
  PROVE  ArchiveInv'
<1>1. PICK n, S : n = batch_[r].name /\ S = batch_[r].of
  OBVIOUS
<1>2. PICK a : a = [name |-> n, of |-> S]
  OBVIOUS
<1>3. /\ marks' = [i \in DOMAIN marks \cup S |-> IF i \in S THEN n ELSE marks[i]]
      /\ archives' = archives \cup {a} /\ batch_' = [batch_ EXCEPT ![r] = NoBatch]
      /\ batch_[r].at = "written" /\ UNCHANGED <<aged, files, second, created>>
  BY <1>1, <1>2 DEF mark_archived
<1>4. /\ a.name = n /\ a.of = S /\ NoBatch.at = "idle" /\ DOMAIN NoBatch = {"at", "of", "name"}
      /\ Holds(r) /\ n \in DOMAIN created /\ BatchOK(S)
  BY <1>1, <1>2, <1>3 DEF ArchiveInv, RunnersInv, RunnerOK, Holds, NoBatch
<1>5. DOMAIN marks' = DOMAIN marks \cup S /\ \A i \in S : marks'[i] = n
  BY <1>3
<1>6. /\ batch_' = [q \in Runners |-> batch_'[q]] /\ batch_'[r] = NoBatch
      /\ \A q \in Runners \ {r} : batch_'[q] = batch_[q]
  BY <1>3, OneBatch DEF ArchiveInv
<1>7. ~Holds(r)' /\ \A q \in Runners \ {r} : Holds(q)' <=> Holds(q)
  BY <1>4, <1>6 DEF Holds
<1>8. aged \in Nat /\ \A T : BatchOK(T) => BatchOK(T)'
  BY <1>3, <1>5, BatchStays DEF ArchiveInv, RunnersInv
<1>9. created[n] = 1 => /\ files[n] = S
                        /\ \A q \in Runners : Holds(q) /\ batch_[q].name = n => q = r
  BY <1>1, <1>3, <1>4 DEF ArchiveInv, OwnersInv
<1>10. RunnersInv'
  <2>1. ASSUME NEW q \in Runners PROVE RunnerOK(q)'
    <3>1. RunnerOK(q)
      BY DEF ArchiveInv, RunnersInv
    <3>2. CASE q = r
      BY <1>4, <1>6, <1>7, <3>2 DEF RunnerOK
    <3>3. CASE q # r
      BY <1>3, <1>6, <1>7, <1>8, <3>1, <3>3 DEF RunnerOK
    <3> QED
      BY <3>2, <3>3
  <2> QED
    BY <1>3, <1>6, <2>1 DEF ArchiveInv, RunnersInv
<1>11. OwnersInv'
  <2>1. SUFFICES ASSUME NEW q \in Runners, Holds(q)', created'[batch_'[q].name] = 1
                 PROVE  /\ \A o \in Runners : Holds(o)' /\ batch_'[o].name = batch_'[q].name => o = q
                        /\ \A x \in archives' : x.name # batch_'[q].name
                        /\ batch_'[q].at = "written" => files'[batch_'[q].name] = batch_'[q].of
    BY DEF OwnersInv
  <2>2. q # r /\ batch_'[q] = batch_[q] /\ Holds(q) /\ created[batch_[q].name] = 1
    BY <1>3, <1>6, <1>7, <2>1
  <2>3. /\ \A o \in Runners : Holds(o) /\ batch_[o].name = batch_[q].name => o = q
        /\ \A x \in archives : x.name # batch_[q].name
        /\ batch_[q].at = "written" => files[batch_[q].name] = batch_[q].of
    BY <2>2 DEF ArchiveInv, OwnersInv
  <2>4. batch_[q].name # n
    BY <1>9, <2>2
  <2> QED
    BY <1>3, <1>4, <1>6, <1>7, <2>2, <2>3, <2>4
<1>12. ArchivesInv'
  <2>1. \A i \in DOMAIN marks' : \E x \in archives' : x.name = marks'[i] /\ i \in x.of
    <3>1. SUFFICES ASSUME NEW i \in DOMAIN marks' PROVE \E x \in archives' : x.name = marks'[i] /\ i \in x.of
      OBVIOUS
    <3>2. CASE i \in S
      BY <1>3, <1>4, <1>5, <3>2
    <3>3. CASE i \notin S
      <4>1. i \in DOMAIN marks /\ marks'[i] = marks[i]
        BY <1>3, <3>3
      <4> QED
        BY <1>3, <4>1 DEF ArchiveInv, ArchivesInv
    <3> QED
      BY <3>2, <3>3
  <2>2. ASSUME NEW x \in archives'
        PROVE  /\ x.name \in DOMAIN created' /\ BatchOK(x.of)' /\ x.of \subseteq DOMAIN marks'
               /\ created'[x.name] = 1 => files'[x.name] = x.of
    <3>1. CASE x \in archives
      BY <1>3, <1>5, <1>8, <3>1 DEF ArchiveInv, ArchivesInv
    <3>2. CASE x = a
      BY <1>3, <1>4, <1>5, <1>8, <1>9, <3>2
    <3> QED
      BY <1>3, <3>1, <3>2
  <2> QED
    BY <2>1, <2>2 DEF ArchivesInv
<1> QED
  BY <1>10, <1>11, <1>12 DEF ArchiveInv

LEMMA RunnerStopsStep ==
  ASSUME ArchiveInv, NEW r \in Runners, RunnerStops(r)
  PROVE  ArchiveInv'
<1>1. batch_' = [batch_ EXCEPT ![r] = NoBatch] /\ UNCHANGED <<aged, marks, files, archives, second, created>>
  BY DEF RunnerStops
<1>2. NoBatch.at = "idle" /\ DOMAIN NoBatch = {"at", "of", "name"}
  BY DEF NoBatch
<1>3. /\ batch_' = [q \in Runners |-> batch_'[q]] /\ batch_'[r] = NoBatch
      /\ \A q \in Runners \ {r} : batch_'[q] = batch_[q]
  BY <1>1, OneBatch DEF ArchiveInv
<1>4. ~Holds(r)' /\ \A q \in Runners \ {r} : Holds(q)' <=> Holds(q)
  BY <1>2, <1>3 DEF Holds
<1>5. aged \in Nat /\ \A T : BatchOK(T) => BatchOK(T)'
  BY <1>1, BatchStays DEF ArchiveInv, RunnersInv
<1>6. RunnersInv'
  <2>1. ASSUME NEW q \in Runners PROVE RunnerOK(q)'
    <3>1. RunnerOK(q)
      BY DEF ArchiveInv, RunnersInv
    <3>2. CASE q = r
      BY <1>2, <1>3, <1>4, <3>2 DEF RunnerOK
    <3>3. CASE q # r
      BY <1>1, <1>3, <1>4, <1>5, <3>1, <3>3 DEF RunnerOK
    <3> QED
      BY <3>2, <3>3
  <2> QED
    BY <1>1, <1>3, <2>1 DEF ArchiveInv, RunnersInv
<1>7. OwnersInv'
  BY <1>1, <1>3, <1>4 DEF ArchiveInv, OwnersInv
<1>8. ArchivesInv'
  BY <1>1, <1>5 DEF ArchiveInv, ArchivesInv
<1> QED
  BY <1>6, <1>7, <1>8 DEF ArchiveInv

LEMMA ArchiveNextInv ==
  ASSUME ArchiveInv, ArchiveNext
  PROVE  ArchiveInv'
BY AgesStep, RunStep, CreateStep, WriteArchiveStep, MarkStep, RunnerStopsStep DEF ArchiveNext

\* What is marked as archived is in its file, whichever runners work at once
\* and wherever they stop, unless two batches got one name; and no message is
\* passed over for a younger one of its chat (ArchiveTrue; raw_archive.rs).
THEOREM Archiving == ArchiveInit /\ [][ArchiveNext]_avars => []ArchiveTrue
<1>1. ArchiveInit => ArchiveInv
  BY ArchiveInitInv
<1>2. ArchiveInv /\ [ArchiveNext]_avars => ArchiveInv'
  <2>1. ASSUME ArchiveInv, UNCHANGED avars PROVE ArchiveInv'
    <3>1. UNCHANGED <<aged, marks, files, archives, batch_, second, created>>
      BY <2>1 DEF avars
    <3>2. aged \in Nat /\ \A T : BatchOK(T) => BatchOK(T)'
      BY <2>1, <3>1, BatchStays DEF ArchiveInv, RunnersInv
    <3> QED
      BY <2>1, <3>1, <3>2 DEF ArchiveInv, RunnersInv, RunnerOK, OwnersInv, ArchivesInv, Holds
  <2> QED
    BY <2>1, ArchiveNextInv
<1>3. ArchiveInv => ArchiveTrue
  <2>1. SUFFICES ASSUME ArchiveInv PROVE ArchiveTrue
    OBVIOUS
  <2>2. \A a \in archives : ~Reused(a.name) => created[a.name] = 1
    BY <2>1 DEF ArchiveInv, RunnersInv, ArchivesInv, Reused
  <2> QED
    BY <2>1, <2>2 DEF ArchiveInv, ArchivesInv, BatchOK, ArchiveTrue
<1> QED
  BY <1>1, <1>2, <1>3, PTL

-----------------------------------------------------------------------------
(***************************************************************************)
(* Signed messages, their policies and what is asked in their name         *)
(***************************************************************************)

Versions == [rule : Decrees, on : {p.on : p \in Decrees} \cup {FALSE}]

\* Only the last version is in force, if it is at all, and none repeats the
\* one before it.
VersionsOK(vs) ==
    \A v \in 1 .. Len(vs) : IF v = Len(vs) THEN vs[v].on = vs[v].rule.on
                            ELSE vs[v].on = FALSE /\ vs[v].rule # vs[v + 1].rule
BookInv == rulebook \in [Talks -> Seq(Versions)] /\ \A c \in Talks : VersionsOK(rulebook[c])

LettersInv ==
    /\ IsFiniteSet(letters) /\ wall \in Nat
    /\ \A e \in letters : e.nonce \in 1 .. Cardinality(letters) /\ e.at \in Nat
    /\ \A e, f \in letters : e.nonce = f.nonce => e = f

\* The nonce of a message that was let in is kept until the message is too old.
NoncesInv ==
    /\ \A n \in nonces : \E e \in letters : e.nonce = n.nonce /\ n.until = e.at + NonceLife
    /\ \A k \in DOMAIN admitted :
         /\ admitted[k] = 1
         /\ \E e \in letters : /\ e.nonce = k
                               /\ (\E n \in nonces : n.nonce = k) \/ e.at + NonceLife + PruneAfter < wall

\* What was recorded is of a conversation, under a version of its policy that
\* was made for it.
EntryOK(i) ==
    /\ entries[i].id = i /\ entries[i].chat \in Talks /\ (entries[i].type = "group" => entries[i].bot)
    /\ receipts[i].mail = entries[i] /\ receipts[i].ver \in 1 .. Len(rulebook[entries[i].chat])
    /\ rulebook[entries[i].chat][receipts[i].ver].rule.type = entries[i].type
    /\ "produce" \in rulebook[entries[i].chat][receipts[i].ver].rule.may
    /\ rulebook[entries[i].chat][receipts[i].ver].rule.aud # "community"
MailInv ==
    /\ DOMAIN entries = DOMAIN receipts
    /\ \A i \in DOMAIN receipts : EntryOK(i)
    /\ \A e \in letters : e.nonce \in DOMAIN admitted =>
         e.mail.id \in DOMAIN receipts /\ entries[e.mail.id] = e.mail

\* What a message that was recorded binds a request to, and who takes part.
Bound_(i) == [ver |-> receipts[i].ver, chat |-> entries[i].chat, type |-> entries[i].type, from |-> entries[i].from]
Cast_(i) == {<<entries[i].from, "requester">>}
              \cup {<<u, "reviewer">> : u \in rulebook[entries[i].chat][receipts[i].ver].rule.reviewers}

\* How far a request for a poster got is what it left.
Left_(k, at) ==
    /\ at = "target" => k \in DOMAIN targets
    /\ at \in {"workflow", "parts"} => k \in DOMAIN posters
    /\ at = "parts" => posters[k].parts = Cast_(k)
AskOK(a) ==
    /\ DOMAIN a = {"by", "as", "want", "about", "at"}
    /\ a.by.id \in DOMAIN receipts /\ a.as = Bound_(a.by.id)
    /\ a.want = "produce" => Left_(a.by.id, a.at)
PosterOK(w) ==
    /\ DOMAIN posters[w] = {"parts", "allowed"} /\ posters[w].parts \in {{}, Cast_(w)}
    /\ posters[w].allowed => posters[w].parts = Cast_(w)
ShownOK(s) ==
    /\ s.to \in DOMAIN receipts /\ s.about \in DOMAIN receipts /\ entries[s.to].chat = entries[s.about].chat
    /\ entries[s.about].type = "direct" => entries[s.to].from = entries[s.about].from
WorkInv_ ==
    /\ \E S : asks \in Seq(S)
    /\ \A i \in DOMAIN asks : AskOK(asks[i])
    /\ DOMAIN posters \subseteq DOMAIN targets /\ DOMAIN targets \subseteq DOMAIN receipts
    /\ \A w \in DOMAIN targets : targets[w] = Bound_(w)
    /\ \A w \in DOMAIN posters : PosterOK(w)
    /\ \A s \in shown : ShownOK(s)
IngressInv == BookInv /\ LettersInv /\ NoncesInv /\ MailInv /\ WorkInv_

LEMMA IngressInitInv == IngressInit => IngressInv
<1>1. SUFFICES ASSUME IngressInit PROVE IngressInv
  OBVIOUS
<1>2. IsFiniteSet(letters)
  BY <1>1, FS_EmptySet DEF IngressInit
<1>3. BookInv
  BY <1>1 DEF IngressInit, BookInv, VersionsOK
<1>4. asks = <<>> /\ asks \in Seq({})
  BY <1>1 DEF IngressInit
<1> QED
  BY <1>1, <1>2, <1>3, <1>4 DEF IngressInit, IngressInv, LettersInv, NoncesInv, MailInv, WorkInv_

\* A new version of a policy leaves the rules of the others as they were.
LEMMA AppliedOK ==
  ASSUME NEW vs \in Seq(Versions), VersionsOK(vs), NEW p \in Decrees
  PROVE  /\ Applied(vs, p) \in Seq(Versions) /\ VersionsOK(Applied(vs, p)) /\ Len(vs) <= Len(Applied(vs, p))
         /\ \A v \in 1 .. Len(vs) : Applied(vs, p)[v].rule = vs[v].rule
<1>1. CASE vs # <<>> /\ vs[Len(vs)] = [rule |-> p, on |-> p.on]
  BY <1>1 DEF Applied
<1>2. CASE ~(vs # <<>> /\ vs[Len(vs)] = [rule |-> p, on |-> p.on])
  <2>1. PICK us : us = [i \in DOMAIN vs |-> [vs[i] EXCEPT !.on = FALSE]]
    OBVIOUS
  <2>2. PICK x : x = [rule |-> p, on |-> p.on]
    OBVIOUS
  <2>3. Applied(vs, p) = Append(us, x)
    BY <1>2, <2>1, <2>2 DEF Applied
  <2>4. \A i \in DOMAIN vs : /\ vs[i] \in Versions /\ [vs[i] EXCEPT !.on = FALSE] \in Versions
                            /\ [vs[i] EXCEPT !.on = FALSE].on = FALSE /\ [vs[i] EXCEPT !.on = FALSE].rule = vs[i].rule
    <3>1. SUFFICES ASSUME NEW i \in DOMAIN vs
                  PROVE  /\ vs[i] \in Versions /\ [vs[i] EXCEPT !.on = FALSE] \in Versions
                         /\ [vs[i] EXCEPT !.on = FALSE].on = FALSE /\ [vs[i] EXCEPT !.on = FALSE].rule = vs[i].rule
      OBVIOUS
    <3>2. vs[i] \in Versions
      OBVIOUS
    <3>3. PICK y : y = vs[i]
      OBVIOUS
    <3>4. FALSE \in {q.on : q \in Decrees} \cup {FALSE}
      OBVIOUS
    <3>5. y \in Versions => /\ [y EXCEPT !.on = FALSE] \in Versions
                            /\ [y EXCEPT !.on = FALSE].on = FALSE /\ [y EXCEPT !.on = FALSE].rule = y.rule
      BY <3>4 DEF Versions
    <3> QED
      BY <3>2, <3>3, <3>5
  <2>5. us \in Seq(Versions) /\ Len(us) = Len(vs)
    BY <2>1, <2>4
  <2>6. \A i \in 1 .. Len(vs) : us[i].on = FALSE /\ us[i].rule = vs[i].rule
    BY <2>1, <2>4
  <2>7. x \in Versions /\ x.on = x.rule.on /\ x.rule = p
    BY <2>2 DEF Versions
  <2>8. vs # <<>> => vs[Len(vs)].rule # p
    <3>1. SUFFICES ASSUME vs # <<>>, vs[Len(vs)].rule = p PROVE FALSE
      OBVIOUS
    <3>2. Len(vs) \in 1 .. Len(vs) /\ vs[Len(vs)] \in Versions
      BY <2>4, <3>1
    <3>3. vs[Len(vs)].on = p.on
      BY <3>1, <3>2 DEF VersionsOK
    <3>4. vs[Len(vs)] = [rule |-> p, on |-> p.on]
      BY <3>1, <3>2, <3>3 DEF Versions
    <3> QED
      BY <1>2, <3>1, <3>4
  <2>9. /\ Append(us, x) \in Seq(Versions) /\ Len(Append(us, x)) = Len(vs) + 1 /\ Append(us, x)[Len(vs) + 1] = x
        /\ \A i \in 1 .. Len(vs) : Append(us, x)[i] = us[i]
    BY <2>5, <2>7
  <2>10. PICK ws : ws = Append(us, x)
    OBVIOUS
  <2>11. VersionsOK(ws)
    <3>1. SUFFICES ASSUME NEW v \in 1 .. Len(ws)
                  PROVE  IF v = Len(ws) THEN ws[v].on = ws[v].rule.on ELSE ws[v].on = FALSE /\ ws[v].rule # ws[v + 1].rule
      BY DEF VersionsOK
    <3>2. Len(vs) \in Nat /\ Len(ws) = Len(vs) + 1 /\ ws[Len(vs) + 1] = x /\ \A i \in 1 .. Len(vs) : ws[i] = us[i]
      BY <2>9, <2>10
    <3>3. CASE v = Len(ws)
      BY <2>7, <3>2, <3>3
    <3>4. CASE v # Len(ws) /\ v = Len(vs)
      <4>1. vs # <<>> /\ v \in 1 .. Len(vs) /\ ws[v + 1] = x /\ ws[v] = us[v]
        BY <3>2, <3>4
      <4> QED
        BY <2>6, <2>7, <2>8, <3>4, <4>1
    <3>5. CASE v # Len(ws) /\ v # Len(vs)
      <4>1. v \in 1 .. Len(vs) /\ v + 1 \in 1 .. Len(vs) /\ v # Len(vs)
        BY <3>2, <3>5
      <4>2. ws[v] = us[v] /\ ws[v + 1] = us[v + 1] /\ vs[v].rule # vs[v + 1].rule
        BY <3>2, <4>1 DEF VersionsOK
      <4> QED
        BY <2>6, <3>5, <4>1, <4>2
    <3> QED
      BY <3>3, <3>4, <3>5
  <2> QED
    BY <2>3, <2>6, <2>9, <2>10, <2>11
<1> QED
  BY <1>1, <1>2

\* Nothing that was recorded is taken back: neither a message, nor the
\* version it was received under, nor what that version says.
Kept_ ==
    /\ DOMAIN receipts \subseteq DOMAIN receipts'
    /\ \A i \in DOMAIN receipts : receipts'[i] = receipts[i] /\ entries'[i] = entries[i]
    /\ \A c \in Talks : /\ Len(rulebook[c]) \in Nat /\ Len(rulebook'[c]) \in Nat
                        /\ Len(rulebook[c]) <= Len(rulebook'[c])
                        /\ \A v \in 1 .. Len(rulebook[c]) : rulebook'[c][v].rule = rulebook[c][v].rule

LEMMA EntriesKept ==
  ASSUME MailInv, Kept_
  PROVE  \A i \in DOMAIN receipts : Bound_(i)' = Bound_(i) /\ Cast_(i)' = Cast_(i) /\ EntryOK(i)'
<1>1. SUFFICES ASSUME NEW i \in DOMAIN receipts
              PROVE  Bound_(i)' = Bound_(i) /\ Cast_(i)' = Cast_(i) /\ EntryOK(i)'
  OBVIOUS
<1>2. EntryOK(i) /\ receipts'[i] = receipts[i] /\ entries'[i] = entries[i]
  BY <1>1 DEF MailInv, Kept_
<1>3. PICK c, v : c = entries[i].chat /\ v = receipts[i].ver
  OBVIOUS
<1>4. c \in Talks /\ v \in 1 .. Len(rulebook[c])
  BY <1>2, <1>3 DEF EntryOK
<1>5. /\ rulebook'[c][v].rule = rulebook[c][v].rule /\ v \in 1 .. Len(rulebook'[c])
  BY <1>4 DEF Kept_
<1>6. Bound_(i)' = Bound_(i)
  BY <1>2 DEF Bound_
<1>7. Cast_(i)' = Cast_(i)
  BY <1>2, <1>3, <1>5 DEF Cast_
<1>8. EntryOK(i)'
  BY <1>2, <1>3, <1>5 DEF EntryOK
<1> QED
  BY <1>6, <1>7, <1>8

LEMMA BookKept ==
  ASSUME BookInv, UNCHANGED rulebook,
         DOMAIN receipts \subseteq DOMAIN receipts',
         \A i \in DOMAIN receipts : receipts'[i] = receipts[i] /\ entries'[i] = entries[i]
  PROVE  Kept_ /\ BookInv'
<1>1. \A c \in Talks : Len(rulebook[c]) \in Nat
  BY DEF BookInv
<1> QED
  BY <1>1 DEF Kept_, BookInv, VersionsOK

LEMMA WorkKept ==
  ASSUME MailInv, WorkInv_, Kept_, UNCHANGED askVars
  PROVE  WorkInv_'
<1>1. \A i \in DOMAIN receipts : Bound_(i)' = Bound_(i) /\ Cast_(i)' = Cast_(i)
  BY EntriesKept
<1>2. /\ asks' = asks /\ targets' = targets /\ posters' = posters /\ shown' = shown
      /\ DOMAIN receipts \subseteq DOMAIN receipts'
      /\ \A i \in DOMAIN receipts : receipts'[i] = receipts[i] /\ entries'[i] = entries[i]
  BY DEF askVars, Kept_
<1>3. \E S : asks' \in Seq(S)
  BY <1>2 DEF WorkInv_
<1>4. ASSUME NEW i \in DOMAIN asks PROVE AskOK(asks[i])'
  <2>1. PICK a : a = asks[i]
    OBVIOUS
  <2>2. AskOK(a) /\ a = asks'[i]
    BY <1>2, <1>4, <2>1 DEF WorkInv_
  <2>3. PICK k : k = a.by.id
    OBVIOUS
  <2>4. k \in DOMAIN receipts /\ Bound_(k)' = Bound_(k) /\ Cast_(k)' = Cast_(k)
    BY <1>1, <2>2, <2>3 DEF AskOK
  <2>5. \A at : Left_(k, at) => Left_(k, at)'
    BY <1>2, <2>4 DEF Left_
  <2>6. DOMAIN a = {"by", "as", "want", "about", "at"} /\ a.as = Bound_(k) /\ (a.want = "produce" => Left_(k, a.at))
    BY <2>2, <2>3 DEF AskOK
  <2>7. k \in DOMAIN receipts' /\ a.as = Bound_(k)' /\ (a.want = "produce" => Left_(k, a.at)')
    BY <1>2, <2>4, <2>5, <2>6
  <2> QED
    BY <2>2, <2>3, <2>6, <2>7 DEF AskOK
<1>5. ASSUME NEW w \in DOMAIN posters PROVE PosterOK(w)'
  <2>1. w \in DOMAIN receipts /\ PosterOK(w)
    BY <1>5 DEF WorkInv_
  <2> QED
    BY <1>1, <1>2, <2>1 DEF PosterOK
<1>6. ASSUME NEW s \in shown PROVE ShownOK(s)'
  BY <1>2, <1>6 DEF WorkInv_, ShownOK
<1>7. \A w \in DOMAIN targets : targets'[w] = Bound_(w)' /\ w \in DOMAIN receipts'
  BY <1>1, <1>2 DEF WorkInv_
<1>8. DOMAIN posters' \subseteq DOMAIN targets' /\ DOMAIN targets' \subseteq DOMAIN receipts'
  BY <1>2, <1>7 DEF WorkInv_
<1> QED
  BY <1>2, <1>3, <1>4, <1>5, <1>6, <1>7, <1>8 DEF WorkInv_

LEMMA ApplyIngress ==
  ASSUME IngressInv, NEW B \in SUBSET Decrees, apply_policies(B)
  PROVE  IngressInv'
<1>1. ASSUME NEW c \in Talks
      PROVE  /\ rulebook[c] \in Seq(Versions) /\ rulebook'[c] \in Seq(Versions) /\ VersionsOK(rulebook'[c])
             /\ Len(rulebook[c]) <= Len(rulebook'[c])
             /\ \A v \in 1 .. Len(rulebook[c]) : rulebook'[c][v].rule = rulebook[c][v].rule
  <2>1. rulebook[c] \in Seq(Versions) /\ VersionsOK(rulebook[c])
    BY <1>1 DEF IngressInv, BookInv
  <2>2. CASE \E p \in B : p.chat = c
    <3>1. PICK p : p = CHOOSE q \in B : q.chat = c
      OBVIOUS
    <3>2. p \in Decrees
      BY <2>2, <3>1
    <3>3. rulebook'[c] = Applied(rulebook[c], p)
      BY <1>1, <2>2, <3>1 DEF apply_policies
    <3> QED
      BY <2>1, <3>2, <3>3, AppliedOK
  <2>3. CASE ~\E p \in B : p.chat = c
    BY <1>1, <2>1, <2>3 DEF apply_policies
  <2> QED
    BY <2>2, <2>3
<1>2. rulebook' = [c \in Talks |-> rulebook'[c]]
  BY DEF apply_policies
<1>3. BookInv'
  BY <1>1, <1>2 DEF BookInv
<1>4. UNCHANGED <<letters, nonces, entries, receipts, admitted, wall, askVars>>
  BY DEF apply_policies
<1>5. Kept_
  BY <1>1, <1>4 DEF Kept_
<1>6. MailInv'
  BY <1>4, <1>5, EntriesKept DEF IngressInv, MailInv
<1>7. WorkInv_'
  BY <1>4, <1>5, WorkKept DEF IngressInv
<1>8. LettersInv' /\ NoncesInv'
  BY <1>4 DEF IngressInv, LettersInv, NoncesInv
<1> QED
  BY <1>3, <1>6, <1>7, <1>8 DEF IngressInv

\* A step that records nothing and takes no request further.
LEMMA NothingTaken ==
  ASSUME IngressInv, UNCHANGED <<rulebook, entries, receipts, admitted, askVars>>, letters \subseteq letters',
         \A e \in letters' \ letters : e.nonce \notin DOMAIN admitted
  PROVE  BookInv' /\ MailInv' /\ WorkInv_'
<1>1. Kept_ /\ BookInv'
  BY BookKept DEF IngressInv
<1>2. WorkInv_'
  BY <1>1, WorkKept DEF IngressInv
<1>3. MailInv'
  BY <1>1, EntriesKept DEF IngressInv, MailInv
<1> QED
  BY <1>1, <1>2, <1>3

LEMMA SignIngress ==
  ASSUME IngressInv, NEW m \in Mail, NEW skew \in 0 .. MaxAhead, Sign(m, skew)
  PROVE  IngressInv'
<1>1. PICK x : x = [nonce |-> Cardinality(letters) + 1, at |-> wall + skew, mail |-> m] /\ letters' = letters \cup {x}
  BY DEF Sign
<1>2. PICK n : n = Cardinality(letters)
  OBVIOUS
<1>3. n \in Nat /\ IsFiniteSet(letters) /\ wall \in Nat
  BY <1>2, FS_CardinalityType DEF IngressInv, LettersInv
<1>4. x.nonce = n + 1 /\ x.at = wall + skew /\ x.mail = m /\ x.at \in Nat
  BY <1>1, <1>2, <1>3, NoncesOutlive
<1>5. \A e \in letters : e.nonce \in 1 .. n /\ e.at \in Nat
  BY <1>2 DEF IngressInv, LettersInv
<1>6. x \notin letters
  BY <1>3, <1>4, <1>5
<1>7. letters' = letters \cup {x}
  BY <1>1
<1>8. IsFiniteSet(letters') /\ Cardinality(letters') = n + 1
  BY <1>2, <1>3, <1>6, <1>7, FS_AddElement
<1>9. UNCHANGED <<rulebook, nonces, entries, receipts, admitted, wall, askVars>>
  BY DEF Sign
<1>10. \A e, f \in letters' : e.nonce = f.nonce => e = f
  <2>1. \A e, f \in letters : e.nonce = f.nonce => e = f
    BY DEF IngressInv, LettersInv
  <2>2. \A e \in letters : e.nonce # x.nonce
    BY <1>3, <1>4, <1>5
  <2> QED
    BY <1>7, <2>1, <2>2
<1>11. LettersInv'
  BY <1>3, <1>4, <1>5, <1>7, <1>8, <1>9, <1>10 DEF LettersInv
<1>12. NoncesInv'
  BY <1>7, <1>9 DEF IngressInv, NoncesInv
<1>13. x.nonce \notin DOMAIN admitted
  BY <1>3, <1>4, <1>5 DEF IngressInv, NoncesInv
<1>14. BookInv' /\ MailInv' /\ WorkInv_'
  BY <1>7, <1>9, <1>13, NothingTaken
<1> QED
  BY <1>11, <1>12, <1>14 DEF IngressInv

LEMMA TickIngress ==
  ASSUME IngressInv, WallTick
  PROVE  IngressInv'
<1>1. wall \in Nat /\ wall' = wall + 1 /\ UNCHANGED <<rulebook, letters, nonces, entries, receipts, admitted, askVars>>
  BY DEF IngressInv, LettersInv, WallTick
<1>2. LettersInv'
  BY <1>1 DEF IngressInv, LettersInv
<1>3. NoncesInv'
  <2>1. \A e \in letters : e.at \in Nat
    BY DEF IngressInv, LettersInv
  <2>2. ASSUME NEW k \in DOMAIN admitted
        PROVE  \E e \in letters : /\ e.nonce = k
                                  /\ (\E n \in nonces : n.nonce = k) \/ e.at + NonceLife + PruneAfter < wall'
    <3>1. PICK e \in letters : /\ e.nonce = k
                               /\ (\E n \in nonces : n.nonce = k) \/ e.at + NonceLife + PruneAfter < wall
      BY <2>2 DEF IngressInv, NoncesInv
    <3>2. e.at + NonceLife + PruneAfter < wall => e.at + NonceLife + PruneAfter < wall'
      BY <1>1, <2>1, <3>1, NoncesOutlive
    <3> QED
      BY <3>1, <3>2
  <2> QED
    BY <1>1, <2>2 DEF IngressInv, NoncesInv
<1>4. BookInv' /\ MailInv' /\ WorkInv_'
  BY <1>1, NothingTaken
<1> QED
  BY <1>2, <1>3, <1>4 DEF IngressInv

\* A message that is let in comes with a nonce that was never taken: one that
\* was, and is deleted since, came with a message that is too old by now.
LEMMA PersistIngress ==
  ASSUME IngressInv, NEW e \in letters, persist_verified_message(e)
  PROVE  IngressInv'
<1>1. PICK k, m, at : k = e.nonce /\ m = e.mail /\ at = e.at
  OBVIOUS
<1>2. PICK v \in load_active_policy(m.chat) : /\ validate_active_policy(m, rulebook[m.chat][v].rule)
                                              /\ Fits(m, v)
                                              /\ receipts' = Put(receipts, m.id, [ver |-> v, mail |-> m])
  BY <1>1 DEF persist_verified_message
<1>3. /\ at >= wall - MaxPast /\ validate_message(m) /\ \A n \in nonces : n.nonce # k
      /\ nonces' = Pruned(nonces \cup {[nonce |-> k, until |-> at + NonceLife]})
      /\ entries' = Put(entries, m.id, m)
      /\ admitted' = Put(admitted, k, 1 + IF k \in DOMAIN admitted THEN admitted[k] ELSE 0)
      /\ UNCHANGED <<rulebook, letters, wall, askVars>>
  BY <1>1 DEF persist_verified_message, verify_envelope
<1>4. /\ IsFiniteSet(letters) /\ wall \in Nat /\ \A f \in letters : f.at \in Nat
      /\ \A f, g \in letters : f.nonce = g.nonce => f = g
  BY DEF IngressInv, LettersInv
<1>5. k \notin DOMAIN admitted
  <2>1. SUFFICES ASSUME k \in DOMAIN admitted PROVE FALSE
    OBVIOUS
  <2>2. PICK f \in letters : f.nonce = k /\ ((\E n \in nonces : n.nonce = k) \/ f.at + NonceLife + PruneAfter < wall)
    BY <2>1 DEF IngressInv, NoncesInv
  <2>3. f = e
    BY <1>1, <1>4, <2>2
  <2>4. at + NonceLife + PruneAfter < wall
    BY <1>1, <1>3, <2>2, <2>3
  <2>5. at \in Nat
    BY <1>1, <1>4
  <2> QED
    BY <1>3, <1>4, <2>4, <2>5, NoncesOutlive
<1>6. /\ DOMAIN admitted' = DOMAIN admitted \cup {k} /\ admitted'[k] = 1
      /\ \A j \in DOMAIN admitted : admitted'[j] = admitted[j]
  BY <1>3, <1>5 DEF Put
<1>7. LettersInv'
  BY <1>3 DEF IngressInv, LettersInv
<1>8. NoncesInv'
  <2>1. PICK x : x = [nonce |-> k, until |-> at + NonceLife] /\ nonces' = Pruned(nonces \cup {x})
    BY <1>3
  <2>2. x.nonce = k /\ x.until = at + NonceLife
    BY <2>1
  <2>3. \A n \in nonces : \E f \in letters : f.nonce = n.nonce /\ n.until = f.at + NonceLife
    BY DEF IngressInv, NoncesInv
  <2>4. nonces' \subseteq nonces \cup {x}
    BY <2>1 DEF Pruned
  <2>5. \A n \in nonces \cup {x} : \E f \in letters : f.nonce = n.nonce /\ n.until = f.at + NonceLife
    BY <1>1, <2>2, <2>3
  <2>6. \A n \in nonces \cup {x} : n \in nonces' \/ n.until < wall - PruneAfter
    <3>1. SUFFICES ASSUME NEW n \in nonces \cup {x}, n \notin nonces' PROVE n.until < wall - PruneAfter
      OBVIOUS
    <3>2. ~(n.until >= wall - PruneAfter)
      BY <2>1, <3>1 DEF Pruned
    <3>3. PICK f \in letters : n.until = f.at + NonceLife
      BY <2>5
    <3> QED
      BY <1>4, <3>2, <3>3, NoncesOutlive
  <2>7. ASSUME NEW j \in DOMAIN admitted'
        PROVE  \E f \in letters : /\ f.nonce = j
                                  /\ (\E n \in nonces' : n.nonce = j) \/ f.at + NonceLife + PruneAfter < wall
    <3>1. PICK f \in letters : /\ f.nonce = j
                               /\ (\E n \in nonces \cup {x} : n.nonce = j) \/ f.at + NonceLife + PruneAfter < wall
      <4>1. CASE j = k
        BY <1>1, <2>2, <4>1
      <4>2. CASE j \in DOMAIN admitted
        BY <4>2 DEF IngressInv, NoncesInv
      <4> QED
        BY <1>6, <2>7, <4>1, <4>2
    <3>2. CASE f.at + NonceLife + PruneAfter < wall
      BY <3>1, <3>2
    <3>3. CASE \E n \in nonces \cup {x} : n.nonce = j
      <4>1. PICK n \in nonces \cup {x} : n.nonce = j
        BY <3>3
      <4>2. CASE n \in nonces'
        BY <3>1, <4>1, <4>2
      <4>3. CASE n \notin nonces'
        <5>1. n.until < wall - PruneAfter
          BY <2>6, <4>3
        <5>2. PICK g \in letters : g.nonce = n.nonce /\ n.until = g.at + NonceLife
          BY <2>5
        <5>3. g = f
          BY <1>4, <3>1, <4>1, <5>2
        <5>4. f.at + NonceLife + PruneAfter < wall
          BY <1>4, <5>1, <5>2, <5>3, NoncesOutlive
        <5> QED
          BY <3>1, <5>4
      <4> QED
        BY <4>2, <4>3
    <3> QED
      BY <3>1, <3>2, <3>3
  <2>8. \A j \in DOMAIN admitted' : admitted'[j] = 1
    BY <1>6 DEF IngressInv, NoncesInv
  <2> QED
    BY <1>3, <2>4, <2>5, <2>7, <2>8 DEF NoncesInv
<1>9. PICK r : r = [ver |-> v, mail |-> m] /\ receipts' = Put(receipts, m.id, r)
  BY <1>2
<1>10. r.ver = v /\ r.mail = m
  BY <1>9
<1>11. /\ DOMAIN receipts' = DOMAIN receipts \cup {m.id} /\ DOMAIN entries' = DOMAIN entries \cup {m.id}
       /\ receipts'[m.id] = r /\ entries'[m.id] = m
       /\ \A i \in DOMAIN receipts : i # m.id => receipts'[i] = receipts[i]
       /\ \A i \in DOMAIN entries : i # m.id => entries'[i] = entries[i]
  BY <1>3, <1>9 DEF Put
<1>12. /\ m.id \in DOMAIN receipts => receipts[m.id] = r
       /\ m.id \in DOMAIN entries => entries[m.id] = m
  BY <1>2, <1>9 DEF Fits
<1>13. DOMAIN entries = DOMAIN receipts
  BY DEF IngressInv, MailInv
<1>14. \A i \in DOMAIN receipts : receipts'[i] = receipts[i] /\ entries'[i] = entries[i]
  BY <1>11, <1>12, <1>13
<1>15. Kept_ /\ BookInv'
  BY <1>3, <1>11, <1>14, BookKept DEF IngressInv
<1>16. EntryOK(m.id)'
  <2>1. m.chat \in Talks /\ (m.type = "group" => m.bot)
    BY <1>3 DEF validate_message
  <2>2. PICK c : c = m.chat
    OBVIOUS
  <2>3. v \in DOMAIN rulebook[c] /\ "produce" \in rulebook[c][v].rule.may
    BY <1>2, <2>2 DEF load_active_policy
  <2>4. rulebook[c][v].rule.type = m.type /\ rulebook[c][v].rule.aud # "community"
    BY <1>2, <2>2 DEF validate_active_policy
  <2>5. rulebook[c] \in Seq(Versions)
    BY <2>1, <2>2 DEF IngressInv, BookInv
  <2>6. v \in 1 .. Len(rulebook[c])
    BY <2>3, <2>5
  <2>7. rulebook' = rulebook
    BY <1>3
  <2> QED
    BY <1>10, <1>11, <2>1, <2>2, <2>3, <2>4, <2>6, <2>7 DEF EntryOK
<1>17. \A i \in DOMAIN receipts : EntryOK(i)'
  BY <1>15, EntriesKept DEF IngressInv
<1>18. ASSUME NEW f \in letters, f.nonce \in DOMAIN admitted'
       PROVE  f.mail.id \in DOMAIN receipts' /\ entries'[f.mail.id] = f.mail
  <2>1. CASE f.nonce = k
    BY <1>1, <1>4, <1>11, <2>1
  <2>2. CASE f.nonce \in DOMAIN admitted
    <3>1. f.mail.id \in DOMAIN receipts /\ entries[f.mail.id] = f.mail
      BY <2>2 DEF IngressInv, MailInv
    <3> QED
      BY <1>11, <1>14, <3>1
  <2> QED
    BY <1>6, <1>18, <2>1, <2>2
<1>19. MailInv'
  BY <1>3, <1>11, <1>13, <1>16, <1>17, <1>18 DEF MailInv
<1>20. UNCHANGED askVars
  BY <1>3
<1>21. WorkInv_'
  BY <1>15, <1>20, WorkKept DEF IngressInv
<1> QED
  BY <1>7, <1>8, <1>15, <1>19, <1>21 DEF IngressInv

LEMMA AskIngress ==
  ASSUME IngressInv, NEW s, DOMAIN s = {"id", "chat", "from"}, NEW want, NEW about, Ask(s, want, about)
  PROVE  IngressInv'
<1>1. PICK a : /\ a = [by |-> s, as |-> Binding(s), want |-> want, about |-> about, at |-> "resolved"]
               /\ asks' = Append(asks, a)
  BY DEF Ask
<1>2. UNCHANGED <<rulebook, letters, nonces, entries, receipts, admitted, wall, targets, posters, shown>>
  BY DEF Ask
<1>3. s.id \in DOMAIN receipts /\ entries[s.id].chat = s.chat /\ entries[s.id].from = s.from
  BY DEF Ask, resolve_session
<1>4. Binding(s) = Bound_(s.id)
  BY <1>3 DEF Binding, Bound_
<1>5. DOMAIN a = {"by", "as", "want", "about", "at"} /\ a.by = s /\ a.as = Bound_(s.id) /\ a.at = "resolved"
  BY <1>1, <1>4
<1>6. AskOK(a)
  BY <1>3, <1>5 DEF AskOK, Left_
<1>7. PICK S : asks \in Seq(S)
  BY DEF IngressInv, WorkInv_
<1>8. asks \in Seq(S \cup {a}) /\ a \in S \cup {a}
  BY <1>7
<1>9. /\ asks' \in Seq(S \cup {a}) /\ DOMAIN asks' = 1 .. Len(asks) + 1 /\ asks'[Len(asks) + 1] = a
      /\ \A i \in 1 .. Len(asks) : asks'[i] = asks[i]
  BY <1>1, <1>8
<1>10. \A i \in DOMAIN asks' : AskOK(asks'[i])
  <2>1. \A i \in 1 .. Len(asks) : AskOK(asks[i])
    BY <1>7 DEF IngressInv, WorkInv_
  <2>2. PICK n : n = Len(asks)
    OBVIOUS
  <2>3. n \in Nat
    BY <1>7, <2>2
  <2>4. SUFFICES ASSUME NEW i \in 1 .. n + 1 PROVE AskOK(asks'[i])
    BY <1>9, <2>2
  <2>5. CASE i \in 1 .. n
    <3>1. asks'[i] = asks[i] /\ AskOK(asks[i])
      BY <1>9, <2>1, <2>2, <2>5
    <3> QED
      BY <3>1
  <2>6. CASE i = n + 1
    <3>1. asks'[i] = a
      BY <1>9, <2>2, <2>6
    <3> QED
      BY <1>6, <3>1
  <2> QED
    BY <2>3, <2>4, <2>5, <2>6
<1>11. \A i \in DOMAIN asks' : AskOK(asks[i])'
  <2>1. \A w, at : Bound_(w)' = Bound_(w) /\ (Left_(w, at) => Left_(w, at)')
    BY <1>2 DEF Left_, Bound_, Cast_
  <2>2. SUFFICES ASSUME NEW i \in DOMAIN asks' PROVE AskOK(asks[i])'
    OBVIOUS
  <2>3. PICK b : b = asks'[i]
    OBVIOUS
  <2>4. AskOK(b)
    BY <1>10, <2>2, <2>3
  <2>5. /\ DOMAIN b = {"by", "as", "want", "about", "at"} /\ b.by.id \in DOMAIN receipts'
        /\ b.as = Bound_(b.by.id) /\ (b.want = "produce" => Left_(b.by.id, b.at))
    BY <1>2, <2>4 DEF AskOK
  <2>6. PICK k : k = b.by.id
    OBVIOUS
  <2>7. b.as = Bound_(k)' /\ (b.want = "produce" => Left_(k, b.at)')
    BY <2>1, <2>5, <2>6
  <2> QED
    BY <2>3, <2>5, <2>6, <2>7 DEF AskOK
<1>12. WorkInv_'
  <2>1. \E T : asks' \in Seq(T)
    BY <1>9
  <2>2. \A w : Bound_(w)' = Bound_(w) /\ Cast_(w)' = Cast_(w)
    BY <1>2 DEF Bound_, Cast_
  <2>3. \A w \in DOMAIN posters' : PosterOK(w)'
    BY <1>2, <2>2 DEF IngressInv, WorkInv_, PosterOK
  <2>4. \A t \in shown' : ShownOK(t)'
    BY <1>2 DEF IngressInv, WorkInv_, ShownOK
  <2>5. \A w \in DOMAIN targets' : targets'[w] = Bound_(w)'
    BY <1>2, <2>2 DEF IngressInv, WorkInv_
  <2>6. DOMAIN posters' \subseteq DOMAIN targets' /\ DOMAIN targets' \subseteq DOMAIN receipts'
    BY <1>2 DEF IngressInv, WorkInv_
  <2> QED
    BY <1>11, <2>1, <2>3, <2>4, <2>5, <2>6 DEF WorkInv_
<1>13. BookInv' /\ LettersInv' /\ NoncesInv' /\ MailInv'
  BY <1>2 DEF IngressInv, BookInv, VersionsOK, LettersInv, NoncesInv, MailInv, EntryOK
<1> QED
  BY <1>12, <1>13 DEF IngressInv

\* A request goes on by what it leaves for its message, while what was left
\* for others stays.
LEMMA RequestGoes ==
  ASSUME IngressInv, NEW i \in DOMAIN asks, NEW to, Goes(i, to),
         UNCHANGED <<rulebook, letters, nonces, entries, receipts, admitted, wall>>,
         NEW k, k = asks[i].by.id, asks[i].want = "produce" => Left_(k, to)',
         DOMAIN posters \subseteq DOMAIN posters', DOMAIN targets \subseteq DOMAIN targets',
         DOMAIN posters' \subseteq DOMAIN targets', DOMAIN targets' \subseteq DOMAIN receipts,
         \A w \in DOMAIN posters : posters[w].parts = Cast_(w) => posters'[w].parts = Cast_(w),
         \A w \in DOMAIN targets' : targets'[w] = Bound_(w),
         \A w \in DOMAIN posters' : PosterOK(w)',
         \A s \in shown' : ShownOK(s)
  PROVE  IngressInv'
<1>1. BookInv' /\ LettersInv' /\ NoncesInv' /\ MailInv'
  BY DEF IngressInv, BookInv, VersionsOK, LettersInv, NoncesInv, MailInv, EntryOK
<1>2. \A w : Bound_(w)' = Bound_(w) /\ Cast_(w)' = Cast_(w)
  BY DEF Bound_, Cast_
<1>3. PICK S : asks \in Seq(S)
  BY DEF IngressInv, WorkInv_
<1>4. PICK a, b : a = asks[i] /\ b = [a EXCEPT !.at = to]
  OBVIOUS
<1>5. asks' = [asks EXCEPT ![i] = b]
  BY <1>4 DEF Goes
<1>6. asks \in Seq(S \cup {b}) /\ b \in S \cup {b}
  BY <1>3
<1>7. /\ asks' \in Seq(S \cup {b}) /\ DOMAIN asks' = DOMAIN asks /\ asks'[i] = b
      /\ \A j \in DOMAIN asks : j # i => asks'[j] = asks[j]
  BY <1>5, <1>6
<1>8. AskOK(a)
  BY <1>4 DEF IngressInv, WorkInv_
<1>9. /\ DOMAIN b = DOMAIN a /\ b.by = a.by /\ b.as = a.as /\ b.want = a.want /\ b.at = to
  BY <1>4, <1>8 DEF AskOK
<1>10. AskOK(b)'
  <2>1. DOMAIN a = {"by", "as", "want", "about", "at"} /\ k \in DOMAIN receipts /\ a.as = Bound_(k)
    BY <1>4, <1>8 DEF AskOK
  <2>2. b.by.id = k /\ (b.want = "produce" => Left_(k, to)')
    BY <1>4, <1>9
  <2>3. k \in DOMAIN receipts' /\ b.as = Bound_(k)'
    BY <1>2, <1>9, <2>1
  <2> QED
    BY <1>9, <2>1, <2>2, <2>3 DEF AskOK
<1>11. ASSUME NEW j \in DOMAIN asks, j # i PROVE AskOK(asks[j])'
  <2>1. PICK c, l : c = asks[j] /\ l = c.by.id
    OBVIOUS
  <2>2. AskOK(c) /\ c = asks'[j]
    BY <1>7, <1>11, <2>1 DEF IngressInv, WorkInv_
  <2>3. l \in DOMAIN receipts /\ DOMAIN c = {"by", "as", "want", "about", "at"} /\ c.as = Bound_(l) /\ (c.want = "produce" => Left_(l, c.at))
    BY <2>1, <2>2 DEF AskOK
  <2>4. Left_(l, c.at) => Left_(l, c.at)'
    BY <1>2 DEF Left_
  <2>5. l \in DOMAIN receipts' /\ c.as = Bound_(l)' /\ (c.want = "produce" => Left_(l, c.at)')
    BY <1>2, <2>3, <2>4
  <2> QED
    BY <2>1, <2>2, <2>3, <2>5 DEF AskOK
<1>12. \A j \in DOMAIN asks' : AskOK(asks[j])'
  <2>1. AskOK(asks[i])'
    BY <1>7, <1>10 DEF AskOK
  <2> QED
    BY <1>7, <1>11, <2>1
<1>13. \A s \in shown' : ShownOK(s)'
  BY DEF ShownOK
<1>14. \A w \in DOMAIN targets' : targets'[w] = Bound_(w)'
  BY <1>2
<1>15. (\E T : asks \in Seq(T))'
  BY <1>7
<1>16. WorkInv_'
  BY <1>12, <1>13, <1>14, <1>15 DEF WorkInv_
<1> QED
  BY <1>1, <1>16 DEF IngressInv

LEMMA RequestIngress ==
  ASSUME IngressInv, NEW i \in DOMAIN asks, handle_request(i)
  PROVE  IngressInv'
<1>1. UNCHANGED <<rulebook, letters, nonces, entries, receipts, admitted, wall>>
  BY DEF handle_request
<1>2. PICK k : k = asks[i].by.id
  OBVIOUS
<1>3. PICK a : a = asks[i]
  OBVIOUS
<1>4. AskOK(a)
  BY <1>3 DEF IngressInv, WorkInv_
<1>5. k \in DOMAIN receipts /\ a.as = Bound_(k) /\ (a.want = "produce" => Left_(k, a.at))
  BY <1>2, <1>3, <1>4 DEF AskOK
<1>6. /\ DOMAIN posters \subseteq DOMAIN targets /\ DOMAIN targets \subseteq DOMAIN receipts
      /\ \A w \in DOMAIN targets : targets[w] = Bound_(w)
      /\ \A w \in DOMAIN posters : PosterOK(w)
      /\ \A s \in shown : ShownOK(s)
  BY DEF IngressInv, WorkInv_
<1>7. \A w : Bound_(w)' = Bound_(w) /\ Cast_(w)' = Cast_(w)
  BY <1>1 DEF Bound_, Cast_
<1>8. \A w : posters' = posters /\ PosterOK(w) => PosterOK(w)'
  BY <1>7 DEF PosterOK
<1>9. CASE upsert_return_target(i)
  <2>1. UNCHANGED <<posters, shown>> /\ a.want = "produce"
    BY <1>3, <1>9 DEF upsert_return_target, At
  <2>2. CASE k \in DOMAIN targets /\ targets[k] # a.as
    <3>1. Goes(i, "over") /\ targets' = targets
      BY <1>2, <1>3, <1>9, <2>2 DEF upsert_return_target
    <3>2. Left_(k, "over")'
      BY DEF Left_
    <3> QED
      BY <1>1, <1>2, <1>6, <1>8, <2>1, <3>1, <3>2, RequestGoes
  <2>3. CASE ~(k \in DOMAIN targets /\ targets[k] # a.as)
    <3>1. Goes(i, "target") /\ targets' = Put(targets, k, a.as)
      BY <1>2, <1>3, <1>9, <2>3 DEF upsert_return_target
    <3>2. /\ DOMAIN targets' = DOMAIN targets \cup {k} /\ targets'[k] = a.as
          /\ \A w \in DOMAIN targets : targets'[w] = targets[w]
      BY <2>3, <3>1 DEF Put
    <3>3. Left_(k, "target")'
      BY <3>2 DEF Left_
    <3>4. \A w \in DOMAIN targets' : targets'[w] = Bound_(w)
      BY <1>5, <1>6, <3>2
    <3> QED
      BY <1>1, <1>2, <1>5, <1>6, <1>8, <2>1, <3>1, <3>2, <3>3, <3>4, RequestGoes
  <2> QED
    BY <2>2, <2>3
<1>10. CASE source_idempotency_key(i)
  <2>1. /\ UNCHANGED <<targets, shown>> /\ a.want = "produce" /\ a.at = "target" /\ Goes(i, "workflow")
    BY <1>3, <1>10 DEF source_idempotency_key, At
  <2>2. k \in DOMAIN targets
    BY <1>5, <2>1 DEF Left_
  <2>3. PICK y : y = [parts |-> {}, allowed |-> FALSE]
    OBVIOUS
  <2>4. DOMAIN y = {"parts", "allowed"} /\ y.parts = {} /\ y.allowed = FALSE
    BY <2>3
  <2>5. posters' = IF k \in DOMAIN posters THEN posters ELSE Put(posters, k, y)
    BY <1>2, <1>10, <2>3 DEF source_idempotency_key
  <2>6. /\ DOMAIN posters' = DOMAIN posters \cup {k} /\ (k \notin DOMAIN posters => posters'[k] = y)
        /\ \A w \in DOMAIN posters : posters'[w] = posters[w]
    BY <2>5 DEF Put
  <2>7. ASSUME NEW w \in DOMAIN posters' PROVE PosterOK(w)'
    <3>1. CASE w \in DOMAIN posters
      BY <1>6, <1>7, <2>6, <3>1 DEF PosterOK
    <3>2. CASE w = k /\ k \notin DOMAIN posters
      BY <2>4, <2>6, <3>2 DEF PosterOK
    <3> QED
      BY <2>6, <2>7, <3>1, <3>2
  <2>8. Left_(k, "workflow")'
    BY <2>6 DEF Left_
  <2> QED
    BY <1>1, <1>2, <1>6, <2>1, <2>2, <2>6, <2>7, <2>8, RequestGoes
<1>11. CASE snapshot_workflow_participants(i)
  <2>1. /\ UNCHANGED <<targets, shown>> /\ a.want = "produce" /\ a.at = "workflow" /\ Goes(i, "parts")
    BY <1>3, <1>11 DEF snapshot_workflow_participants, At
  <2>2. k \in DOMAIN posters /\ PosterOK(k)
    BY <1>5, <1>6, <2>1 DEF Left_
  <2>3. PICK y, z : y = posters[k] /\ z = y.parts \cup Cast_(k)
    OBVIOUS
  <2>4. /\ Bound_(k).from = entries[k].from /\ Bound_(k).chat = entries[k].chat /\ Bound_(k).ver = receipts[k].ver
    BY DEF Bound_
  <2>5. z = y.parts \cup {<<a.as.from, "requester">>}
                    \cup {<<u, "reviewer">> : u \in rulebook[a.as.chat][a.as.ver].rule.reviewers}
    BY <1>5, <2>3, <2>4 DEF Cast_
  <2>6. posters' = [posters EXCEPT ![k] = [y EXCEPT !.parts = z]]
    BY <1>2, <1>3, <1>11, <2>3, <2>5 DEF snapshot_workflow_participants
  <2>7. z = Cast_(k)
    BY <2>2, <2>3 DEF PosterOK
  <2>8. DOMAIN y = {"parts", "allowed"}
    BY <2>2, <2>3 DEF PosterOK
  <2>9. /\ DOMAIN posters' = DOMAIN posters /\ DOMAIN posters'[k] = {"parts", "allowed"} /\ posters'[k].parts = Cast_(k)
        /\ \A w \in DOMAIN posters : w # k => posters'[w] = posters[w]
    BY <2>2, <2>6, <2>7, <2>8
  <2>10. ASSUME NEW w \in DOMAIN posters' PROVE PosterOK(w)'
    <3>1. CASE w = k
      BY <1>7, <2>9, <3>1 DEF PosterOK
    <3>2. CASE w # k
      BY <1>6, <1>7, <2>9, <2>10, <3>2 DEF PosterOK
    <3> QED
      BY <3>1, <3>2
  <2>11. Left_(k, "parts")'
    BY <1>7, <2>2, <2>9 DEF Left_
  <2> QED
    BY <1>1, <1>2, <1>6, <2>1, <2>9, <2>10, <2>11, RequestGoes
<1>12. CASE record_generation_authorization(i)
  <2>1. /\ UNCHANGED <<targets, shown>> /\ a.want = "produce" /\ a.at = "parts" /\ Goes(i, "over")
    BY <1>3, <1>12 DEF record_generation_authorization, At
  <2>2. k \in DOMAIN posters /\ PosterOK(k) /\ posters[k].parts = Cast_(k)
    BY <1>5, <1>6, <2>1 DEF Left_
  <2>3. PICK y : y = posters[k]
    OBVIOUS
  <2>4. posters' = [posters EXCEPT ![k] = [y EXCEPT !.allowed = TRUE]]
    BY <1>2, <1>12, <2>3 DEF record_generation_authorization
  <2>5. DOMAIN y = {"parts", "allowed"}
    BY <2>2, <2>3 DEF PosterOK
  <2>6. /\ DOMAIN posters' = DOMAIN posters /\ DOMAIN posters'[k] = {"parts", "allowed"} /\ posters'[k].parts = y.parts
        /\ \A w \in DOMAIN posters : w # k => posters'[w] = posters[w]
    BY <2>2, <2>4, <2>5
  <2>7. ASSUME NEW w \in DOMAIN posters' PROVE PosterOK(w)'
    <3>1. CASE w = k
      BY <1>7, <2>2, <2>3, <2>6, <3>1 DEF PosterOK
    <3>2. CASE w # k
      BY <1>6, <1>7, <2>6, <2>7, <3>2 DEF PosterOK
    <3> QED
      BY <3>1, <3>2
  <2>8. Left_(k, "over")'
    BY DEF Left_
  <2>9. \A w \in DOMAIN posters : posters[w].parts = Cast_(w) => posters'[w].parts = Cast_(w)
    BY <2>2, <2>3, <2>6
  <2> QED
    BY <1>1, <1>2, <1>6, <2>1, <2>6, <2>7, <2>8, <2>9, RequestGoes
<1>13. CASE ReadStatus(i)
  <2>1. PICK w, s : w = a.about /\ s = [to |-> k, about |-> w]
    OBVIOUS
  <2>2. /\ UNCHANGED <<targets, posters>> /\ Goes(i, "over") /\ shown' = shown \cup {s}
    BY <1>2, <1>3, <1>13, <2>1 DEF ReadStatus
  <2>3. /\ w \in DOMAIN targets /\ targets[w].type = a.as.type /\ targets[w].chat = a.as.chat
        /\ targets[w].type = "direct" => targets[w].from = a.as.from
    BY <1>3, <1>13, <2>1 DEF ReadStatus, authorize_status_read
  <2>4. targets[w] = Bound_(w) /\ w \in DOMAIN receipts
    BY <1>6, <2>3
  <2>5. s.to = k /\ s.about = w
    BY <2>1
  <2>6. ShownOK(s)
    BY <1>5, <2>3, <2>4, <2>5 DEF ShownOK, Bound_
  <2>7. Left_(k, "over")'
    BY DEF Left_
  <2> QED
    BY <1>1, <1>2, <1>6, <1>8, <2>2, <2>6, <2>7, RequestGoes
<1>14. CASE handle_connection(i)
  <2>1. UNCHANGED <<targets, posters, shown>> /\ Goes(i, "over")
    BY <1>14 DEF handle_connection
  <2>2. Left_(k, "over")'
    BY DEF Left_
  <2> QED
    BY <1>1, <1>2, <1>6, <1>8, <2>1, <2>2, RequestGoes
<1> QED
  BY <1>9, <1>10, <1>11, <1>12, <1>13, <1>14 DEF handle_request

LEMMA IngressNextInv ==
  ASSUME IngressInv, [IngressNext]_gvars
  PROVE  IngressInv'
<1>1. ASSUME NEW B \in SUBSET Decrees, apply_policies(B) PROVE IngressInv'
  BY <1>1, ApplyIngress
<1>2. ASSUME NEW s \in BOOLEAN, from_values(s) PROVE IngressInv'
  <2>1. UNCHANGED <<rulebook, letters, nonces, entries, receipts, admitted, wall, askVars>>
    BY <1>2 DEF from_values
  <2>2. BookInv' /\ MailInv' /\ WorkInv_'
    BY <2>1, NothingTaken
  <2>3. LettersInv'
    BY <2>1 DEF IngressInv, LettersInv
  <2>4. NoncesInv'
    <3>1. letters' = letters /\ nonces' = nonces /\ admitted' = admitted /\ wall' = wall
      BY <2>1
    <3> QED
      BY <3>1 DEF IngressInv, NoncesInv
  <2> QED
    BY <2>2, <2>3, <2>4 DEF IngressInv
<1>3. ASSUME NEW m \in Mail, NEW skew \in 0 .. MaxAhead, Sign(m, skew) PROVE IngressInv'
  BY <1>3, SignIngress
<1>4. ASSUME NEW e \in letters, persist_verified_message(e) PROVE IngressInv'
  BY <1>4, PersistIngress
<1>5. ASSUME WallTick PROVE IngressInv'
  BY <1>5, TickIngress
<1>6. ASSUME NEW id \in DOMAIN receipts, NEW c \in Talks, NEW u \in Askers,
             LET s == [id |-> id, chat |-> c, from |-> u] IN
               Ask(s, "produce", id) \/ \E about \in DOMAIN posters : Ask(s, "status", about)
      PROVE  IngressInv'
  <2>1. PICK s : /\ s = [id |-> id, chat |-> c, from |-> u]
                 /\ Ask(s, "produce", id) \/ \E about \in DOMAIN posters : Ask(s, "status", about)
    BY <1>6
  <2>2. DOMAIN s = {"id", "chat", "from"}
    BY <2>1
  <2> QED
    BY <2>1, <2>2, AskIngress
<1>7. ASSUME NEW i \in DOMAIN asks, handle_request(i) PROVE IngressInv'
  BY <1>7, RequestIngress
<1>8. ASSUME UNCHANGED gvars PROVE IngressInv'
  <2>1. UNCHANGED <<rulebook, letters, nonces, entries, receipts, admitted, wall, askVars>>
    BY <1>8 DEF gvars
  <2>2. BookInv' /\ MailInv' /\ WorkInv_'
    BY <2>1, NothingTaken
  <2>3. LettersInv'
    BY <2>1 DEF IngressInv, LettersInv
  <2>4. NoncesInv'
    <3>1. letters' = letters /\ nonces' = nonces /\ admitted' = admitted /\ wall' = wall
      BY <2>1
    <3> QED
      BY <3>1 DEF IngressInv, NoncesInv
  <2> QED
    BY <2>2, <2>3, <2>4 DEF IngressInv
<1> QED
  BY <1>1, <1>2, <1>3, <1>4, <1>5, <1>6, <1>7, <1>8 DEF IngressNext

\* A signature lets a message in once, whatever nonces were deleted since; a
\* message is recorded as it was signed, under one version of the policy of
\* its conversation, the only one in force then; and a request made in its
\* name, cut off anywhere, leaves nothing that is bound to another
\* conversation or user (conversation_ingress.rs, persist_verified_message;
\* conversation_policy.rs, apply_policies; operations_intake.rs,
\* handle_request).
THEOREM Ingress == IngressInit /\ [][IngressNext]_gvars => []IngressTrue
<1>1. IngressInit => IngressInv
  BY IngressInitInv
<1>2. IngressInv /\ [IngressNext]_gvars => IngressInv'
  BY IngressNextInv
<1>3. IngressInv => IngressTrue
  <2>1. SUFFICES ASSUME IngressInv PROVE IngressTrue
    OBVIOUS
  <2>2. \A n \in DOMAIN admitted : admitted[n] = 1
    BY <2>1 DEF IngressInv, NoncesInv
  <2>3. \A e \in letters : e.nonce \in DOMAIN admitted => entries[e.mail.id] = e.mail
    BY <2>1 DEF IngressInv, MailInv
  <2>4. DOMAIN entries = DOMAIN receipts
    BY <2>1 DEF IngressInv, MailInv
  <2>5. ASSUME NEW i \in DOMAIN entries
        PROVE  LET r == receipts[i] IN LET p == rulebook[r.mail.chat][r.ver].rule IN
                 /\ entries[i] = r.mail
                 /\ p.type = r.mail.type /\ "produce" \in p.may /\ p.aud # "community"
                 /\ r.mail.type = "group" => r.mail.bot
    BY <2>1, <2>5 DEF IngressInv, MailInv, EntryOK
  <2>6. ASSUME NEW c \in Talks, NEW v \in 1 .. MaxDecrees, v < Len(rulebook[c])
        PROVE  ~rulebook[c][v].on /\ rulebook[c][v].rule # rulebook[c][v + 1].rule
    <3>1. rulebook[c] \in Seq(Versions) /\ VersionsOK(rulebook[c])
      BY <2>1 DEF IngressInv, BookInv
    <3>2. Len(rulebook[c]) \in Nat /\ v \in 1 .. Len(rulebook[c]) /\ v # Len(rulebook[c])
      BY <2>6, <3>1
    <3> QED
      BY <3>1, <3>2 DEF VersionsOK
  <2>7. DOMAIN posters \subseteq DOMAIN targets
    BY <2>1 DEF IngressInv, WorkInv_
  <2>8. ASSUME NEW w \in DOMAIN targets
        PROVE  LET m == entries[w] IN LET v == receipts[w].ver IN
                 /\ targets[w] = [ver |-> v, chat |-> m.chat, type |-> m.type, from |-> m.from]
                 /\ w \in DOMAIN posters /\ posters[w].allowed =>
                      posters[w].parts = {<<m.from, "requester">>}
                        \cup {<<u, "reviewer">> : u \in rulebook[m.chat][v].rule.reviewers}
    <3>1. targets[w] = Bound_(w)
      BY <2>1, <2>8 DEF IngressInv, WorkInv_
    <3>2. w \in DOMAIN posters /\ posters[w].allowed => posters[w].parts = Cast_(w)
      BY <2>1 DEF IngressInv, WorkInv_, PosterOK
    <3> QED
      BY <3>1, <3>2 DEF Bound_, Cast_
  <2>9. \A s \in shown : /\ entries[s.to].chat = entries[s.about].chat
                         /\ entries[s.about].type = "direct" => entries[s.to].from = entries[s.about].from
    BY <2>1 DEF IngressInv, WorkInv_, ShownOK
  <2> QED
    BY <2>2, <2>3, <2>4, <2>5, <2>6, <2>7, <2>8, <2>9 DEF IngressTrue
<1> QED
  BY <1>1, <1>2, <1>3, PTL

-----------------------------------------------------------------------------
(***************************************************************************)
(* The mirrors of the work items                                           *)
(***************************************************************************)

Steps_ == {"idle", "looking", "locked", "planned"}
MirrorOK(r) ==
    /\ DOMAIN r = {"at", "old", "sts", "task", "refs", "cut"} /\ r.at \in Steps_ /\ r.old \subseteq Tasks
    /\ r.at \in {"locked", "planned"} => r.task \in Tasks /\ r.sts[r.task] \in Open

\* Whether a mirror may still describe an item, and the mirrors that may.
Wants(r, t) == \/ r.at = "looking" /\ t \in r.old
               \/ r.at \in {"locked", "planned"} /\ r.task = t
Wanting(t) == {m \in Mirrors : Wants(mirror[m], t)}

\* Once an item is described no mirror begins to look for it.
NoticeOK(t) ==
    IF t \in DOMAIN pins
    THEN notices[t] \in Nat \ {0} /\ notices[t] + Cardinality(Wanting(t)) <= Cardinality(Mirrors)
    ELSE notices[t] = 0
TaskInv ==
    /\ DOMAIN mirror = Mirrors /\ \A m \in Mirrors : MirrorOK(mirror[m])
    /\ DOMAIN notices = Tasks /\ DOMAIN pins \subseteq Tasks
    /\ \A t \in Tasks : NoticeOK(t)
    /\ \A t \in DOMAIN pins : t \notin Unsafe_ /\ pins[t].section \in Open

LEMMA TasksInitInv == TasksInit => TaskInv
<1>1. SUFFICES ASSUME TasksInit PROVE TaskInv
  OBVIOUS
<1>2. MirrorOK(NoMirror)
  BY DEF NoMirror, MirrorOK, Steps_
<1>3. DOMAIN pins = {}
  BY <1>1 DEF TasksInit
<1> QED
  BY <1>1, <1>2, <1>3 DEF TasksInit, TaskInv, NoticeOK

\* A step of one mirror that describes nothing and begins to look for nothing
\* that is described.
LEMMA MirrorGoes ==
  ASSUME TaskInv, NEW m \in Mirrors, NEW r, MirrorOK(r), mirror' = [mirror EXCEPT ![m] = r],
         \A t \in DOMAIN pins : Wants(r, t) => Wants(mirror[m], t),
         UNCHANGED <<pins, notices>>
  PROVE  TaskInv'
<1>1. /\ DOMAIN mirror' = Mirrors /\ mirror'[m] = r
      /\ \A n \in Mirrors : n # m => mirror'[n] = mirror[n]
  BY DEF TaskInv
<1>2. \A n \in Mirrors : MirrorOK(mirror'[n])
  BY <1>1 DEF TaskInv
<1>3. ASSUME NEW t \in Tasks PROVE NoticeOK(t)'
  <2>1. NoticeOK(t)
    BY <1>3 DEF TaskInv
  <2>2. CASE t \in DOMAIN pins
    <3>1. Wanting(t)' \subseteq Wanting(t)
      BY <1>1, <2>2 DEF Wanting
    <3>2. IsFiniteSet(Wanting(t))
      BY TasksNumbered, FS_Subset DEF Wanting
    <3>3. /\ Cardinality(Wanting(t)') <= Cardinality(Wanting(t)) /\ Cardinality(Wanting(t)') \in Nat
          /\ Cardinality(Wanting(t)) \in Nat /\ Cardinality(Mirrors) \in Nat
      BY <3>1, <3>2, TasksNumbered, FS_Subset, FS_CardinalityType
    <3>4. notices[t] \in Nat \ {0} /\ notices[t] + Cardinality(Wanting(t)) <= Cardinality(Mirrors)
      BY <2>1, <2>2 DEF NoticeOK
    <3>5. PICK w : w = Wanting(t)'
      OBVIOUS
    <3>6. notices[t] + Cardinality(w) <= Cardinality(Mirrors)
      BY <3>3, <3>4, <3>5
    <3> QED
      BY <2>2, <3>4, <3>5, <3>6 DEF NoticeOK
  <2>3. CASE t \notin DOMAIN pins
    BY <2>1, <2>3 DEF NoticeOK
  <2> QED
    BY <2>2, <2>3
<1> QED
  BY <1>1, <1>2, <1>3 DEF TaskInv

LEMMA DescribeTask ==
  ASSUME TaskInv, NEW m \in Mirrors, upsert_workbench_ref(m), mirror[m].task \notin Unsafe_
  PROVE  TaskInv'
<1>1. PICK r, u : r = mirror[m] /\ u = r.task
  OBVIOUS
<1>2. MirrorOK(r) /\ r.at = "planned" /\ u \in Tasks /\ r.sts[u] \in Open
  BY <1>1 DEF TaskInv, MirrorOK, upsert_workbench_ref
<1>3. PICK p : p = build_task_plan(m)
  OBVIOUS
<1>4. p.section = r.sts[u]
  BY <1>1, <1>3 DEF build_task_plan
<1>5. /\ mirror' = [mirror EXCEPT ![m] = NoMirror]
      /\ pins' = [t \in DOMAIN pins \cup {u} |-> IF t = u THEN p ELSE pins[t]]
      /\ notices' = [notices EXCEPT ![u] = @ + 1]
  BY <1>1, <1>3 DEF upsert_workbench_ref
<1>6. MirrorOK(NoMirror) /\ \A t : ~Wants(NoMirror, t)
  BY DEF NoMirror, MirrorOK, Steps_, Wants
<1>7. /\ DOMAIN mirror' = Mirrors /\ mirror'[m] = NoMirror
      /\ \A n \in Mirrors : n # m => mirror'[n] = mirror[n]
  BY <1>5 DEF TaskInv
<1>8. /\ DOMAIN notices' = Tasks /\ notices'[u] = notices[u] + 1
      /\ \A t \in Tasks : t # u => notices'[t] = notices[t]
  BY <1>2, <1>5 DEF TaskInv
<1>9. /\ DOMAIN pins' = DOMAIN pins \cup {u} /\ pins'[u] = p
      /\ \A t \in DOMAIN pins : t # u => pins'[t] = pins[t]
  BY <1>5
<1>10. \A n \in Mirrors : MirrorOK(mirror'[n])
  BY <1>6, <1>7 DEF TaskInv
<1>11. \A t \in DOMAIN pins' : t \notin Unsafe_ /\ pins'[t].section \in Open
  BY <1>1, <1>2, <1>4, <1>9 DEF TaskInv
<1>12. \A t \in Tasks : Wanting(t)' \subseteq Wanting(t)
  BY <1>6, <1>7 DEF Wanting
<1>13. \A t \in Tasks : IsFiniteSet(Wanting(t)) /\ Cardinality(Wanting(t)) \in Nat /\ Cardinality(Wanting(t)) <= Cardinality(Mirrors)
  <2>1. \A t \in Tasks : Wanting(t) \subseteq Mirrors
    BY DEF Wanting
  <2> QED
    BY <2>1, TasksNumbered, FS_Subset, FS_CardinalityType
<1>14. Cardinality(Mirrors) \in Nat
  BY TasksNumbered, FS_CardinalityType
<1>15. ASSUME NEW t \in Tasks, t # u PROVE NoticeOK(t)'
  <2>1. NoticeOK(t) /\ notices'[t] = notices[t] /\ (t \in DOMAIN pins' <=> t \in DOMAIN pins)
    BY <1>8, <1>9, <1>15 DEF TaskInv
  <2>2. PICK w : w = Wanting(t)'
    OBVIOUS
  <2>3. Cardinality(w) <= Cardinality(Wanting(t)) /\ Cardinality(w) \in Nat
    BY <1>12, <1>13, <2>2, FS_Subset, FS_CardinalityType
  <2>4. PICK n, k, d : n = notices[t] /\ k = Cardinality(Wanting(t)) /\ d = Cardinality(w)
    OBVIOUS
  <2>5. n \in Nat /\ k \in Nat /\ d \in Nat /\ d <= k /\ n + k <= Cardinality(Mirrors) => n + d <= Cardinality(Mirrors)
    BY <1>14
  <2> QED
    BY <1>13, <2>1, <2>2, <2>3, <2>4, <2>5 DEF NoticeOK
<1>16. NoticeOK(u)'
  <2>1. m \in Wanting(u) /\ m \notin Wanting(u)'
    BY <1>1, <1>2, <1>6, <1>7 DEF Wanting, Wants
  <2>2. PICK w, x : w = Wanting(u)' /\ x = Wanting(u)
    OBVIOUS
  <2>3. w \subseteq x \ {m} /\ m \in x /\ IsFiniteSet(x)
    BY <1>2, <1>12, <1>13, <2>1, <2>2
  <2>4. IsFiniteSet(x \ {m}) /\ Cardinality(x \ {m}) = Cardinality(x) - 1
    BY <2>3, FS_RemoveElement
  <2>5. Cardinality(w) <= Cardinality(x) - 1 /\ Cardinality(w) \in Nat
    BY <2>3, <2>4, FS_Subset, FS_CardinalityType
  <2>6. Cardinality(x) \in Nat /\ Cardinality(x) <= Cardinality(Mirrors)
    BY <1>2, <1>13, <2>2
  <2>7. notices[u] \in Nat /\ notices[u] + Cardinality(x) <= Cardinality(Mirrors)
    <3>1. NoticeOK(u)
      BY <1>2 DEF TaskInv
    <3>2. CASE u \in DOMAIN pins
      BY <2>2, <3>1, <3>2 DEF NoticeOK
    <3>3. CASE u \notin DOMAIN pins
      <4>1. notices[u] = 0
        BY <3>1, <3>3 DEF NoticeOK
      <4> QED
        BY <1>14, <2>6, <4>1
    <3> QED
      BY <3>2, <3>3
  <2>8. notices'[u] \in Nat \ {0} /\ notices'[u] + Cardinality(w) <= Cardinality(Mirrors)
    BY <1>8, <1>14, <2>5, <2>6, <2>7
  <2> QED
    BY <1>9, <2>2, <2>8 DEF NoticeOK
<1> QED
  BY <1>2, <1>7, <1>8, <1>9, <1>10, <1>11, <1>15, <1>16 DEF TaskInv

LEMMA TasksNextInv ==
  ASSUME TaskInv, [TasksNext]_hvars
  PROVE  TaskInv'
<1>1. \A m \in Mirrors : MirrorOK(mirror[m])
  BY DEF TaskInv
<1>2. MirrorOK(NoMirror) /\ \A t : ~Wants(NoMirror, t)
  BY DEF NoMirror, MirrorOK, Steps_, Wants
<1>3. ASSUME UNCHANGED <<pins, notices, mirror>> PROVE TaskInv'
  BY <1>3 DEF TaskInv, NoticeOK, Wanting
<1>4. ASSUME NEW t \in Tasks, NEW s \in TaskStates, TaskMoves(t, s) PROVE TaskInv'
  BY <1>3, <1>4 DEF TaskMoves
<1>5. ASSUME NEW m \in Mirrors, run_once(m) PROVE TaskInv'
  <2>1. PICK r : /\ r = [NoMirror EXCEPT !.at = "looking", !.old = Tasks \ DOMAIN pins,
                                        !.sts = [t \in Tasks |-> work_[t].st]]
                 /\ mirror' = [mirror EXCEPT ![m] = r]
    BY <1>5 DEF run_once
  <2>2. /\ DOMAIN r = {"at", "old", "sts", "task", "refs", "cut"} /\ r.at = "looking" /\ r.old = Tasks \ DOMAIN pins
    BY <2>1 DEF NoMirror
  <2>3. MirrorOK(r) /\ \A t \in DOMAIN pins : ~Wants(r, t)
    BY <2>2 DEF MirrorOK, Steps_, Wants
  <2>4. UNCHANGED <<pins, notices>>
    BY <1>5 DEF run_once
  <2> QED
    BY <1>5, <2>1, <2>3, <2>4, MirrorGoes
<1>6. ASSUME NEW m \in Mirrors, NEW only, lock_work_item(m, only) PROVE TaskInv'
  <2>1. UNCHANGED <<pins, notices>>
    BY <1>6 DEF lock_work_item
  <2>2. PICK found : found = {t \in mirror[m].old \cap only : /\ mirror[m].sts[t] \in Open /\ work_[t].st \in Open
                                                               /\ t \notin LockedTasks}
    OBVIOUS
  <2>3. CASE found = {}
    <3>1. mirror' = [mirror EXCEPT ![m] = NoMirror]
      BY <1>6, <2>2, <2>3 DEF lock_work_item
    <3> QED
      BY <1>2, <1>6, <2>1, <3>1, MirrorGoes
  <2>4. CASE found # {}
    <3>1. PICK r, u : /\ u = First(found) /\ r = [mirror[m] EXCEPT !.at = "locked", !.task = u]
      OBVIOUS
    <3>2. mirror' = [mirror EXCEPT ![m] = r] /\ mirror[m].at = "looking"
      BY <1>6, <2>2, <2>4, <3>1 DEF lock_work_item
    <3>3. MirrorOK(mirror[m]) /\ mirror[m].old \subseteq Tasks
      BY <1>1, <1>6 DEF MirrorOK
    <3>4. found \in SUBSET Nat
      BY <2>2, <3>3, TasksNumbered
    <3>5. u \in found
      <4>1. \E i \in found : \A j \in found : i <= j
        BY <2>4, <3>4, LeastNumber
      <4> QED
        BY <3>1, <4>1 DEF First
    <3>6. u \in mirror[m].old /\ mirror[m].sts[u] \in Open
      BY <2>2, <3>5
    <3>7. /\ DOMAIN r = DOMAIN mirror[m] /\ r.at = "locked" /\ r.task = u /\ r.old = mirror[m].old /\ r.sts = mirror[m].sts
      BY <3>1, <3>3 DEF MirrorOK
    <3>8. MirrorOK(r)
      BY <3>3, <3>6, <3>7 DEF MirrorOK, Steps_
    <3>9. \A t : Wants(r, t) => Wants(mirror[m], t)
      BY <3>2, <3>6, <3>7 DEF Wants
    <3> QED
      BY <1>6, <2>1, <3>2, <3>8, <3>9, MirrorGoes
  <2> QED
    BY <2>3, <2>4
<1>7. ASSUME NEW m \in Mirrors, apply_status_refs(m) PROVE TaskInv'
  <2>1. UNCHANGED <<pins, notices>> /\ mirror[m].at = "locked"
    BY <1>7 DEF apply_status_refs
  <2>2. \E x, y : mirror' = [mirror EXCEPT ![m].at = "planned", ![m].cut = x, ![m].refs = y]
    BY <1>7 DEF apply_status_refs
  <2>3. PICK x, y : mirror' = [mirror EXCEPT ![m].at = "planned", ![m].cut = x, ![m].refs = y]
    BY <2>2
  <2>4. PICK r : r = [mirror[m] EXCEPT !.at = "planned", !.cut = x, !.refs = y]
    OBVIOUS
  <2>5. mirror' = [mirror EXCEPT ![m] = r]
    BY <1>7, <2>3, <2>4 DEF TaskInv
  <2>6. /\ DOMAIN r = DOMAIN mirror[m] /\ r.at = "planned" /\ r.task = mirror[m].task /\ r.old = mirror[m].old /\ r.sts = mirror[m].sts
    BY <1>1, <1>7, <2>4 DEF MirrorOK
  <2>7. MirrorOK(r)
    BY <1>1, <1>7, <2>1, <2>6 DEF MirrorOK, Steps_
  <2>8. \A t : Wants(r, t) => Wants(mirror[m], t)
    BY <2>1, <2>6 DEF Wants
  <2> QED
    BY <1>7, <2>1, <2>5, <2>7, <2>8, MirrorGoes
<1>8. ASSUME NEW m \in Mirrors, upsert_workbench_ref(m) PROVE TaskInv'
  <2>1. CASE mirror[m].task \in Unsafe_
    <3>1. mirror' = [mirror EXCEPT ![m] = NoMirror] /\ UNCHANGED <<pins, notices>>
      BY <1>8, <2>1 DEF upsert_workbench_ref
    <3> QED
      BY <1>2, <1>8, <3>1, MirrorGoes
  <2>2. CASE mirror[m].task \notin Unsafe_
    BY <1>8, <2>2, DescribeTask
  <2> QED
    BY <2>1, <2>2
<1>9. ASSUME NEW m \in Mirrors, MirrorStops(m) PROVE TaskInv'
  <2>1. mirror' = [mirror EXCEPT ![m] = NoMirror] /\ UNCHANGED <<pins, notices>>
    BY <1>9 DEF MirrorStops
  <2> QED
    BY <1>2, <1>9, <2>1, MirrorGoes
<1>10. ASSUME UNCHANGED hvars PROVE TaskInv'
  BY <1>3, <1>10 DEF hvars
<1> QED
  BY <1>4, <1>5, <1>6, <1>7, <1>8, <1>9, <1>10 DEF TasksNext

\* A work item is described anew only by a mirror that looked for it before it
\* was first described, so at most as often as there are mirrors; nothing
\* unsafe is, nor with a status that is not open (workbench.rs,
\* lock_work_item and upsert_workbench_ref).
THEOREM Mirroring == TasksInit /\ [][TasksNext]_hvars => []NoticesTrue
<1>1. TasksInit => TaskInv
  BY TasksInitInv
<1>2. TaskInv /\ [TasksNext]_hvars => TaskInv'
  BY TasksNextInv
<1>3. TaskInv => NoticesTrue
  <2>1. SUFFICES ASSUME TaskInv, NEW t \in DOMAIN pins
                PROVE  t \notin Unsafe_ /\ pins[t].section \in Open /\ notices[t] \in 1 .. Cardinality(Mirrors)
    BY DEF NoticesTrue
  <2>2. t \in Tasks /\ NoticeOK(t)
    BY <2>1 DEF TaskInv
  <2>3. IsFiniteSet(Wanting(t))
    BY TasksNumbered, FS_Subset DEF Wanting
  <2>4. Cardinality(Wanting(t)) \in Nat /\ Cardinality(Mirrors) \in Nat
    BY <2>3, TasksNumbered, FS_CardinalityType
  <2>5. notices[t] \in Nat \ {0} /\ notices[t] + Cardinality(Wanting(t)) <= Cardinality(Mirrors)
    BY <2>1, <2>2 DEF NoticeOK
  <2>6. notices[t] \in 1 .. Cardinality(Mirrors)
    BY <2>4, <2>5
  <2> QED
    BY <2>1, <2>6 DEF TaskInv
<1> QED
  BY <1>1, <1>2, <1>3, PTL
=============================================================================
