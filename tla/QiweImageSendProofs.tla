------------------------ MODULE QiweImageSendProofs ------------------------
(***************************************************************************)
(* TLAPS proofs about QiweImageSend, for every set of work items, workers  *)
(* and handlers, every number of attempts and every set of payloads.  The  *)
(* inductive invariant IndInv comes first, then what follows from it, and  *)
(* last the refinement: every step of every worker, handler and scan is,   *)
(* for each work item, a step of the gate of OnceGate or none at all.      *)
(***************************************************************************)
EXTENDS QiweImageSend, TLAPS

(* An attempt that is neither unused nor expired.                          *)
Live(w, n) == att[w][n] \notin {"none", "expired"}

Busy(h) == handler[h].pc # "idle"

(* What Postgres holds for one work item.  The claim columns are set       *)
(* exactly while it is processing, and then by its one active attempt.     *)
ClaimShape(w) ==
    /\ wi[w].status = "processing" =>
          wi[w].claim # "none" /\ wi[w].claimedBy # NoClaim
    /\ wi[w].status # "processing" =>
          wi[w].claim = "none" /\ wi[w].claimedBy = NoClaim
    /\ \A n \in AttemptNo :
          att[w][n] \in ActiveStatus <=>
             wi[w].status = "processing" /\ wi[w].claimedBy = n

(* At most one attempt is neither unused nor expired; it agrees with the   *)
(* item's status, and the attempts before it all expired.                  *)
OneLive(w) ==
    /\ \A m, n \in AttemptNo : Live(w, m) /\ Live(w, n) => m = n
    /\ \A n \in AttemptNo :
          /\ att[w][n] = "sent" => wi[w].status = "completed"
          /\ att[w][n] \in {"failed", "ambiguous"} => wi[w].status = "failed"
    /\ \A m, n \in AttemptNo :
          m < n /\ att[w][n] # "none" => att[w][m] = "expired"

(* The correlation columns follow the attempt's status.                    *)
Correlated(w) ==
    \A n \in AttemptNo :
       /\ att[w][n] \in {"none", "uploading", "awaiting_callback"} =>
             payload[w][n] = NoPayload
       /\ att[w][n] \in {"sending", "sent"} => payload[w][n] # NoPayload
       /\ att[w][n] \in {"awaiting_callback", "expired"} => rid[w][n]

RowOK(w) == ClaimShape(w) /\ OneLive(w) /\ Correlated(w)

RowsOK == \A w \in WorkItems : RowOK(w)

(* A busy handler holds, or held until its claim expired, the gate of an   *)
(* attempt, and no other handler has the same work item.                   *)
HandlerOwns ==
    \A h \in Handlers : Busy(h) =>
       /\ handler[h].item \in WorkItems
       /\ handler[h].no \in AttemptNo
       /\ att[handler[h].item][handler[h].no] \in {"sending", "ambiguous"}
       /\ payload[handler[h].item][handler[h].no] # NoPayload

SoleHandler ==
    \A g, h \in Handlers :
       Busy(g) /\ Busy(h) /\ handler[g].item = handler[h].item => g = h

IdleShape ==
    /\ \A h \in Handlers : ~Busy(h) => handler[h].item = NoItem
    /\ \A u \in Workers : worker[u].pc # "idle" =>
          worker[u].item \in WorkItems /\ worker[u].no \in AttemptNo

(* How far a busy handler has got with the provider.                       *)
ProgressOf(h) ==
    LET w == handler[h].item
    IN  /\ handler[h].pc \in {"probe", "intro", "mark", "image", "reject"} =>
              img[w] = 0 /\ delivered[w] = 0
        /\ handler[h].pc \in {"probe", "intro"} => intro[w] = 0
        /\ handler[h].pc = "mark" => intro[w] = 1
        /\ handler[h].pc = "image" /\ w \in IntroItems =>
              intro[w] = 1 /\ introMarked[w]
        /\ handler[h].pc = "sent" => delivered[w] = 1

Progress == \A h \in Handlers : Busy(h) => ProgressOf(h)

(* What has left for the group, and what the attempts say about it.        *)
LeftOK(w) ==
    /\ img[w] <= 1 /\ intro[w] <= 1 /\ delivered[w] <= img[w]
    /\ introMarked[w] => intro[w] = 1
    /\ w \in IntroItems /\ img[w] > 0 => introMarked[w] /\ intro[w] = 1

Opened(w, n) ==
    /\ att[w][n] \in {"sending", "sent", "failed", "ambiguous"}
    /\ payload[w][n] # NoPayload

RecordedOK(w) ==
    /\ img[w] > 0 \/ intro[w] > 0 => \E n \in AttemptNo : Opened(w, n)
    /\ \A n \in AttemptNo :
          /\ att[w][n] = "sent" => delivered[w] = 1
          /\ att[w][n] = "failed" => img[w] = 0

ExternalOK == \A w \in WorkItems : LeftOK(w) /\ RecordedOK(w)

(* The inductive invariant.                                                *)
IndInv ==
    /\ TypeOK
    /\ RowsOK
    /\ HandlerOwns
    /\ SoleHandler
    /\ IdleShape
    /\ Progress
    /\ ExternalOK

-----------------------------------------------------------------------------
(* Type correctness.                                                       *)

LEMMA Constants ==
    /\ MaxAttempts \in Nat \ {0}
    /\ Matching \subseteq Payloads
    /\ IntroItems \subseteq WorkItems
    /\ NoItem \notin WorkItems
    /\ NoPayload \notin Payloads
    /\ AttemptNo \subseteq Nat \ {0}
    /\ \A n \in AttemptNo : n \in 0..MaxAttempts
BY QiweConstants DEF AttemptNo

LEMMA RecordTypes ==
    /\ Idle \in Process(WorkerPc)
    /\ Idle \in Process(HandlerPc)
    /\ Queued \in WorkItem
    /\ Failed \in WorkItem
    /\ Completed \in WorkItem
    /\ Claimed(LegacyClaim) \in WorkItem
    /\ \A n \in AttemptNo : Claimed(n) \in WorkItem
<1>1. Idle \in Process(WorkerPc) /\ Idle \in Process(HandlerPc)
  BY Constants DEF Idle, Process, WorkerPc, HandlerPc
<1>2. Queued \in WorkItem /\ Failed \in WorkItem /\ Completed \in WorkItem
  BY DEF Queued, Failed, Completed, WorkItem
<1>3. Claimed(LegacyClaim) \in WorkItem
  BY DEF Claimed, WorkItem
<1>4. \A n \in AttemptNo : Claimed(n) \in WorkItem
  BY DEF Claimed, WorkItem
<1> QED
  BY <1>1, <1>2, <1>3, <1>4

(* Pointwise reading of an update of one attempt column.                   *)
LEMMA Update2 ==
    ASSUME NEW T, NEW f \in [WorkItems -> [AttemptNo -> T]],
           NEW w \in WorkItems, NEW n \in AttemptNo, NEW t \in T
    PROVE  /\ [f EXCEPT ![w][n] = t] \in [WorkItems -> [AttemptNo -> T]]
           /\ \A v \in WorkItems, k \in AttemptNo :
                 [f EXCEPT ![w][n] = t][v][k] =
                    IF v = w /\ k = n THEN t ELSE f[v][k]
OBVIOUS

LEMMA ProcessPc ==
    ASSUME NEW P, NEW q \in Process(P), NEW c \in P
    PROVE  /\ [q EXCEPT !.pc = c] \in Process(P)
           /\ [q EXCEPT !.pc = c].pc = c
           /\ [q EXCEPT !.pc = c].item = q.item
           /\ [q EXCEPT !.pc = c].no = q.no
BY DEF Process

LEMMA InitType == Init => TypeOK
BY Constants, RecordTypes DEF Init, TypeOK, AttemptStatus

LEMMA ScanType ==
    ASSUME TypeOK, NEW u \in Workers, NEW S \in SUBSET WorkItems,
           ClaimReadyWorkItem(u, S)
    PROVE  TypeOK'
<1>1. PICK R \in SUBSET S :
         /\ ReconcileSet(R, S)
         /\ CommitReconciliation(S, R) \/ CommitClaim(u, S, R)
  BY DEF ClaimReadyWorkItem
<1>2. \A w \in WorkItems : ItemAfter(R, w) \in WorkItem
  BY RecordTypes DEF ItemAfter, SettledItem, TypeOK
<1>3. \A w \in WorkItems, n \in AttemptNo : AttemptAfter(R, w, n) \in AttemptStatus
  BY DEF AttemptAfter, SettledStatus, TypeOK, AttemptStatus, ClosedStatus
<1>4. CASE CommitReconciliation(S, R)
  BY <1>2, <1>3, <1>4
     DEF CommitReconciliation, ClaimReadyWorkItem, TypeOK, review, outside
<1>5. CASE CommitClaim(u, S, R)
  <2>1. PICK c \in S, n \in AttemptNo :
           /\ wi' = [w \in WorkItems |->
                        IF w = c THEN Claimed(n) ELSE ItemAfter(R, w)]
           /\ att' = [w \in WorkItems |-> [k \in AttemptNo |->
                         IF w = c /\ k = n
                         THEN "uploading"
                         ELSE AttemptAfter(R, w, k)]]
           /\ worker' = [worker EXCEPT ![u] =
                            [pc |-> "prepare", item |-> c, no |-> n]]
    BY <1>5 DEF CommitClaim
  <2>2. [pc |-> "prepare", item |-> c, no |-> n] \in Process(WorkerPc)
    BY Constants DEF Process, WorkerPc, AttemptNo
  <2>3. wi' \in [WorkItems -> WorkItem]
    BY <2>1, <1>2, RecordTypes
  <2>4. att' \in [WorkItems -> [AttemptNo -> AttemptStatus]]
    BY <2>1, <1>3 DEF AttemptStatus, ActiveStatus
  <2> QED
    BY <2>1, <2>2, <2>3, <2>4 DEF TypeOK, ClaimReadyWorkItem, review, outside
<1> QED
  BY <1>1, <1>4, <1>5

LEMMA WorkerType ==
    ASSUME TypeOK, IdleShape, NEW u \in Workers,
           WorkerStep(u) \/ WorkerExit(u)
    PROVE  TypeOK'
<1>0. \A c \in WorkerPc : [worker[u] EXCEPT !.pc = c] \in Process(WorkerPc)
  BY ProcessPc DEF TypeOK
<1> DEFINE w == worker[u].item
           n == worker[u].no
<1>w. worker[u].pc # "idle" => w \in WorkItems /\ n \in AttemptNo
  BY DEF IdleShape
<1>1. CASE PrepareBytes(u)
  BY <1>0, <1>1 DEF PrepareBytes, TypeOK, WorkerPc, rows, review, outside
<1>2. CASE RequestUpload(u)
  <2>1. w \in WorkItems /\ n \in AttemptNo
    BY <1>2, <1>w DEF RequestUpload
  <2>2. accepted' \in [WorkItems -> SUBSET AttemptNo]
    BY <1>2, <2>1 DEF RequestUpload, TypeOK
  <2>3. worker' \in [Workers -> Process(WorkerPc)]
    <3>1. \E r \in WorkerPc : worker' = [worker EXCEPT ![u].pc = r]
      BY <1>2 DEF RequestUpload, WorkerPc
    <3> QED
      BY <1>0, <3>1 DEF TypeOK
  <2> QED
    BY <1>2, <2>2, <2>3 DEF RequestUpload, TypeOK, rows, review
<1>3. CASE RecordUploadAcceptance(u)
  <2>1. w \in WorkItems /\ n \in AttemptNo
    BY <1>3, <1>w DEF RecordUploadAcceptance
  <2>2. /\ [att EXCEPT ![w][n] = "awaiting_callback"]
              \in [WorkItems -> [AttemptNo -> AttemptStatus]]
        /\ [rid EXCEPT ![w][n] = TRUE] \in [WorkItems -> [AttemptNo -> BOOLEAN]]
    BY <2>1, Update2 DEF TypeOK, AttemptStatus, ActiveStatus
  <2>3. [worker[u] EXCEPT !.pc = "unknown"] \in Process(WorkerPc)
    BY <1>0 DEF WorkerPc
  <2>4. \E q \in {Idle, [worker[u] EXCEPT !.pc = "unknown"]} :
           worker' = [worker EXCEPT ![u] = q]
    BY <1>3 DEF RecordUploadAcceptance
  <2>5. worker' \in [Workers -> Process(WorkerPc)]
    BY <2>3, <2>4, RecordTypes DEF TypeOK
  <2> QED
    BY <1>3, <2>2, <2>5 DEF RecordUploadAcceptance, TypeOK, review, outside
<1>4. CASE RecordUploadFailure(u)
  <2>1. w \in WorkItems /\ n \in AttemptNo
    BY <1>4, <1>w DEF RecordUploadFailure
  <2>2. \A s \in {"failed", "ambiguous"} :
           [att EXCEPT ![w][n] = s] \in [WorkItems -> [AttemptNo -> AttemptStatus]]
    BY <2>1, Update2 DEF TypeOK, AttemptStatus, ClosedStatus
  <2>3. att' \in [WorkItems -> [AttemptNo -> AttemptStatus]]
    BY <1>4, <2>2 DEF RecordUploadFailure, TypeOK
  <2>4. wi' \in [WorkItems -> WorkItem]
    BY <1>4, <2>1, RecordTypes DEF RecordUploadFailure, TypeOK
  <2> QED
    BY <1>4, <2>3, <2>4, RecordTypes
       DEF RecordUploadFailure, TypeOK, review, outside
<1>5. CASE WorkerExit(u)
  BY <1>5, RecordTypes DEF WorkerExit, TypeOK, rows, review, outside
<1> QED
  BY <1>1, <1>2, <1>3, <1>4, <1>5 DEF WorkerStep

LEMMA HandlerType ==
    ASSUME TypeOK, HandlerOwns, NEW h \in Handlers,
           HandlerClaim(h) \/ HandlerStep(h) \/ HandlerExit(h)
    PROVE  TypeOK'
<1>0. \A c \in HandlerPc : [handler[h] EXCEPT !.pc = c] \in Process(HandlerPc)
  BY ProcessPc DEF TypeOK
<1>h. Busy(h) => handler[h].item \in WorkItems /\ handler[h].no \in AttemptNo
  BY DEF HandlerOwns
<1>1. CASE HandlerClaim(h)
  <2>1. PICK w \in WorkItems, n \in AttemptNo, p \in Payloads :
           OpenSendGate(h, w, n, p) \/ ExpireLateCallback(h, w, n, p)
    BY <1>1 DEF HandlerClaim
  <2>2. \A s \in {"sending", "expired"} :
           [att EXCEPT ![w][n] = s] \in [WorkItems -> [AttemptNo -> AttemptStatus]]
    BY Update2 DEF TypeOK, AttemptStatus, ActiveStatus, ClosedStatus
  <2>3. [payload EXCEPT ![w][n] = p]
           \in [WorkItems -> [AttemptNo -> Payloads \cup {NoPayload}]]
    BY Update2 DEF TypeOK
  <2>4. \A c \in {"probe", "image"} :
           [pc |-> c, item |-> w, no |-> n] \in Process(HandlerPc)
    BY Constants DEF Process, HandlerPc
  <2>5. CASE OpenSendGate(h, w, n, p)
    BY <2>2, <2>3, <2>4, <2>5, RecordTypes
       DEF OpenSendGate, TypeOK, review, outside
  <2>6. CASE ExpireLateCallback(h, w, n, p)
    BY <2>2, <2>3, <2>6, RecordTypes DEF ExpireLateCallback, TypeOK, review, outside
  <2> QED
    BY <2>1, <2>5, <2>6
<1>2. CASE ProbeIntro(h)
  BY <1>0, <1>2 DEF ProbeIntro, TypeOK, HandlerPc, rows, review, outside
<1>3. CASE SendIntro(h)
  <2>1. handler[h].item \in WorkItems
    BY <1>3, <1>h DEF SendIntro, Busy
  <2>2. PICK r \in HandlerPc, k \in 0..1 :
           /\ handler' = [handler EXCEPT ![h].pc = r]
           /\ intro' = [intro EXCEPT ![handler[h].item] = @ + k]
    BY <1>3 DEF SendIntro, HandlerPc
  <2>3. handler' \in [Handlers -> Process(HandlerPc)]
    BY <1>0, <2>2 DEF TypeOK
  <2>4. intro' \in [WorkItems -> Nat]
    BY <2>1, <2>2 DEF TypeOK
  <2> QED
    BY <1>3, <2>3, <2>4 DEF SendIntro, TypeOK, rows, review
<1>4. CASE MarkIntroSent(h)
  BY <1>0, <1>4, RecordTypes DEF MarkIntroSent, TypeOK, HandlerPc, rows, outside
<1>5. CASE SendImage(h)
  <2>1. handler[h].item \in WorkItems
    BY <1>5, <1>h DEF SendImage, Busy
  <2>2. PICK r \in HandlerPc, k \in 0..1, d \in 0..1 :
           /\ handler' = [handler EXCEPT ![h].pc = r]
           /\ img' = [img EXCEPT ![handler[h].item] = @ + k]
           /\ delivered' = [delivered EXCEPT ![handler[h].item] = @ + d]
    BY <1>5 DEF SendImage, HandlerPc
  <2>3. handler' \in [Handlers -> Process(HandlerPc)]
    BY <1>0, <2>2 DEF TypeOK
  <2>4. img' \in [WorkItems -> Nat] /\ delivered' \in [WorkItems -> Nat]
    BY <2>1, <2>2 DEF TypeOK
  <2> QED
    BY <1>5, <2>3, <2>4 DEF SendImage, TypeOK, rows, review
<1>6. ASSUME NEW s \in {"sent", "failed", "ambiguous"},
             NEW v \in {Completed, Failed},
             Busy(h),
             RecordSend(h, s, v)
      PROVE  TypeOK'
  <2> DEFINE w == handler[h].item
             n == handler[h].no
  <2>1. w \in WorkItems /\ n \in AttemptNo
    BY <1>6, <1>h
  <2>2. [att EXCEPT ![w][n] = s] \in [WorkItems -> [AttemptNo -> AttemptStatus]]
    BY <2>1, Update2 DEF TypeOK, AttemptStatus, ClosedStatus
  <2>3. att' \in [WorkItems -> [AttemptNo -> AttemptStatus]]
    BY <1>6, <2>2 DEF RecordSend, TypeOK
  <2>4. wi' \in [WorkItems -> WorkItem]
    <3>1. v \in WorkItem
      BY RecordTypes
    <3>2. wi' = wi \/ wi' = [wi EXCEPT ![w] = v]
      BY <1>6 DEF RecordSend
    <3> QED
      BY <2>1, <3>1, <3>2 DEF TypeOK
  <2> QED
    BY <1>6, <2>3, <2>4, RecordTypes DEF RecordSend, TypeOK, review, outside
<1>7. CASE HandlerExit(h)
  BY <1>7, RecordTypes DEF HandlerExit, TypeOK, rows, review, outside
<1> QED
  BY <1>1, <1>2, <1>3, <1>4, <1>5, <1>6, <1>7
     DEF HandlerStep, RecordSendSuccess, RecordSendFailure, Busy

LEMMA EnvironmentType ==
    ASSUME TypeOK, NEW w \in WorkItems, ClaimExpires(w) \/ ReviewArtifact(w)
    PROVE  TypeOK'
<1>1. [wi[w] EXCEPT !.claim = "expired"] \in WorkItem
  BY DEF TypeOK, WorkItem
<1>2. CASE ClaimExpires(w)
  BY <1>1, <1>2 DEF ClaimExpires, TypeOK, review, outside
<1>3. CASE ReviewArtifact(w)
  BY <1>3 DEF ReviewArtifact, TypeOK, rows, outside
<1> QED
  BY <1>2, <1>3

-----------------------------------------------------------------------------
(* The rows of one work item.                                              *)

LEMMA RecordFields ==
    /\ Queued.status = "queued" /\ Queued.claimedBy = NoClaim
    /\ Queued.claim = "none"
    /\ Failed.status = "failed" /\ Failed.claimedBy = NoClaim
    /\ Failed.claim = "none"
    /\ Completed.status = "completed" /\ Completed.claimedBy = NoClaim
    /\ Completed.claim = "none"
    /\ \A n : /\ Claimed(n).status = "processing"
              /\ Claimed(n).claimedBy = n
              /\ Claimed(n).claim = "live"
BY DEF Queued, Failed, Completed, Claimed

LEMMA RowSame ==
    ASSUME NEW w \in WorkItems, RowOK(w), TypeOK, TypeOK',
           wi'[w] = wi[w], rid'[w] = rid[w], payload'[w] = payload[w],
           \A n \in AttemptNo : att'[w][n] = att[w][n]
    PROVE  RowOK(w)'
BY DEF RowOK, ClaimShape, OneLive, Correlated, Live

(* The columns of attempt n of item w, and no other attempt's, may change, *)
(* and att[w][n] becomes s.                                                *)
AttemptStep(w, n, s) ==
    /\ \A k \in AttemptNo : att'[w][k] = IF k = n THEN s ELSE att[w][k]
    /\ \A k \in AttemptNo \ {n} :
          rid'[w][k] = rid[w][k] /\ payload'[w][k] = payload[w][k]

(* The columns of attempt n fit its new status s, and so does the item.    *)
FitsStatus(w, n, s) ==
    \/ /\ s = "awaiting_callback" /\ wi'[w] = wi[w]
       /\ rid'[w][n] /\ payload'[w][n] = NoPayload
    \/ s = "sending" /\ wi'[w] = Claimed(n) /\ payload'[w][n] # NoPayload
    \/ s = "sent" /\ wi'[w] = Completed /\ payload'[w][n] # NoPayload
    \/ s \in {"failed", "ambiguous"} /\ wi'[w] = Failed
    \/ s = "expired" /\ wi'[w] = Queued /\ rid'[w][n]

(* Every transaction that moves the active attempt of a claimed item.      *)
LEMMA RowSettle ==
    ASSUME NEW w \in WorkItems, NEW n \in AttemptNo, NEW s,
           RowOK(w), TypeOK, TypeOK',
           wi[w].status = "processing", wi[w].claimedBy = n,
           AttemptStep(w, n, s), FitsStatus(w, n, s)
    PROVE  RowOK(w)'
<1>1. att[w][n] \in ActiveStatus
  BY DEF RowOK, ClaimShape
<1>2. Live(w, n)
  BY <1>1 DEF Live, ActiveStatus
<1>3. \A k \in AttemptNo : k # n => att[w][k] \in {"none", "expired"}
  BY <1>2 DEF RowOK, OneLive, Live
<1>4. \A k \in AttemptNo : k > n => att[w][k] = "none"
  BY <1>1, Constants DEF RowOK, OneLive, ActiveStatus
<1>5. \A k \in AttemptNo : k < n => att[w][k] = "expired"
  BY <1>1, Constants DEF RowOK, OneLive, ActiveStatus
<1>6. NoClaim \notin AttemptNo
  BY Constants DEF NoClaim
<1>7. ClaimShape(w)'
  BY <1>3, <1>6, RecordFields
     DEF AttemptStep, FitsStatus, ClaimShape, ActiveStatus, RowOK
<1>8. OneLive(w)'
  <2>1. (\A m, k \in AttemptNo : Live(w, m) /\ Live(w, k) => m = k)'
    BY <1>3 DEF AttemptStep, Live
  <2>2. (\A k \in AttemptNo :
           /\ att[w][k] = "sent" => wi[w].status = "completed"
           /\ att[w][k] \in {"failed", "ambiguous"} => wi[w].status = "failed")'
    BY <1>3, RecordFields DEF AttemptStep, FitsStatus
  <2>3. (\A m, k \in AttemptNo :
           m < k /\ att[w][k] # "none" => att[w][m] = "expired")'
    <3> SUFFICES ASSUME NEW m \in AttemptNo, NEW k \in AttemptNo,
                        m < k, att'[w][k] # "none"
                 PROVE  att'[w][m] = "expired"
      OBVIOUS
    <3>1. k <= n
      BY <1>4, Constants DEF AttemptStep
    <3>2. m < n
      BY <3>1, Constants
    <3> QED
      BY <3>2, <1>5, Constants DEF AttemptStep
  <2> QED
    BY <2>1, <2>2, <2>3 DEF OneLive
<1>9. Correlated(w)'
  BY DEF AttemptStep, FitsStatus, Correlated, RowOK
<1> QED
  BY <1>7, <1>8, <1>9 DEF RowOK

(* A claim: the attempts before n expired, and none was made after it.     *)
LEMMA RowClaim ==
    ASSUME NEW w \in WorkItems, NEW n \in AttemptNo, TypeOK, TypeOK',
           wi'[w] = Claimed(n),
           \A k \in AttemptNo :
              att'[w][k] = IF k = n THEN "uploading"
                           ELSE IF k < n THEN "expired" ELSE "none",
           \A k \in AttemptNo : k < n => rid'[w][k],
           \A k \in AttemptNo : k >= n => payload'[w][k] = NoPayload
    PROVE  RowOK(w)'
<1>1. ClaimShape(w)'
  <2>1. /\ wi'[w].status = "processing" /\ wi'[w].claimedBy = n
        /\ wi'[w].claim = "live"
    BY RecordFields
  <2>2. n # NoClaim
    BY Constants DEF NoClaim
  <2>3. \A k \in AttemptNo : att'[w][k] \in ActiveStatus <=> k = n
    BY DEF ActiveStatus
  <2> QED
    BY <2>1, <2>2, <2>3 DEF ClaimShape
<1>2. OneLive(w)'
  BY RecordFields, Constants DEF OneLive, Live
<1>3. Correlated(w)'
  BY Constants DEF Correlated
<1> QED
  BY <1>1, <1>2, <1>3 DEF RowOK

-----------------------------------------------------------------------------
(* Transactions that touch rows and nothing outside them.                  *)

(* No outcome of item w is rewritten, no gate is closed with a definite    *)
(* answer, and a denial is written only when nothing has left.             *)
Keeps(w) ==
    \A n \in AttemptNo :
       /\ payload[w][n] # NoPayload => payload'[w][n] # NoPayload
       /\ att[w][n] \in {"sending", "ambiguous"} =>
             att'[w][n] \in {"sending", "ambiguous"}
       /\ att[w][n] \in {"sent", "failed"} => att'[w][n] = att[w][n]
       /\ att'[w][n] = "sent" => att[w][n] = "sent"
       /\ att'[w][n] = "failed" => att[w][n] = "failed" \/ img[w] = 0

LEMMA KeepsOutside ==
    ASSUME HandlerOwns, SoleHandler, Progress, ExternalOK,
           UNCHANGED <<handler, introMarked, outside>>,
           \A w \in WorkItems : Keeps(w)
    PROVE  HandlerOwns' /\ SoleHandler' /\ Progress' /\ ExternalOK'
<1>1. HandlerOwns'
  BY DEF HandlerOwns, Busy, Keeps
<1>2. SoleHandler'
  BY DEF SoleHandler, Busy
<1>3. Progress'
  BY DEF Progress, ProgressOf, Busy, outside
<1>4. ASSUME NEW w \in WorkItems
      PROVE  LeftOK(w)' /\ RecordedOK(w)'
  <2>1. LeftOK(w)'
    BY DEF ExternalOK, LeftOK, outside
  <2>2. \A n \in AttemptNo : Opened(w, n) => Opened(w, n)'
    BY DEF Opened, Keeps
  <2>3. RecordedOK(w)'
    BY <2>2 DEF ExternalOK, RecordedOK, Keeps, outside
  <2> QED
    BY <2>1, <2>3
<1> QED
  BY <1>1, <1>2, <1>3, <1>4 DEF ExternalOK

(* Nothing has left for an item without an open or settled gate.           *)
LEMMA NothingLeft ==
    ASSUME ExternalOK, TypeOK, NEW w \in WorkItems,
           \A n \in AttemptNo : ~Opened(w, n)
    PROVE  img[w] = 0 /\ intro[w] = 0
<1>1. img[w] \in Nat /\ intro[w] \in Nat
  BY DEF TypeOK
<1>2. ~(img[w] > 0 \/ intro[w] > 0)
  BY DEF ExternalOK, RecordedOK
<1> QED
  BY <1>1, <1>2

(* The attempt of an item whose upload is under way is its only live one.  *)
LEMMA BeforeGate ==
    ASSUME ExternalOK, TypeOK, NEW w \in WorkItems, NEW n \in AttemptNo,
           RowOK(w), att[w][n] \in {"uploading", "awaiting_callback"}
    PROVE  /\ img[w] = 0 /\ intro[w] = 0
           /\ \A k \in AttemptNo :
                 k # n => att[w][k] \in {"none", "expired"}
<1>1. \A k \in AttemptNo : k # n => att[w][k] \in {"none", "expired"}
  BY DEF RowOK, OneLive, Live
<1>2. \A k \in AttemptNo : ~Opened(w, k)
  BY <1>1 DEF Opened
<1> QED
  BY <1>1, <1>2, NothingLeft

(* A stale item: its one active attempt, if it has one, settles.           *)
LEMMA ScanRow ==
    ASSUME IndInv, TypeOK', NEW S \in SUBSET WorkItems,
           NEW R \in SUBSET S, ReconcileSet(R, S),
           NEW w \in WorkItems,
           wi'[w] = ItemAfter(R, w),
           \A n \in AttemptNo : att'[w][n] = AttemptAfter(R, w, n),
           UNCHANGED <<rid, payload>>
    PROVE  RowOK(w)' /\ Keeps(w)
<1>0. RowOK(w) /\ TypeOK
  BY DEF IndInv, RowsOK
<1>1. CASE w \notin R
  <2>1. wi'[w] = wi[w] /\ \A n \in AttemptNo : att'[w][n] = att[w][n]
    BY <1>1 DEF ItemAfter, AttemptAfter
  <2> QED
    BY <1>0, <2>1, RowSame DEF Keeps
<1>2. CASE w \in R
  <2>0. /\ wi[w].status = "processing" /\ wi[w].claim = "expired"
        /\ wi[w].claimedBy # NoClaim
    BY <1>0, <1>2 DEF ReconcileSet, Stale, RowOK, ClaimShape
  <2>1. CASE wi[w].claimedBy = LegacyClaim
    <3>1. LegacyClaim \notin AttemptNo
      BY Constants DEF LegacyClaim
    <3>2. \A n \in AttemptNo : att[w][n] \in {"none", "expired"}
      <4> TAKE n \in AttemptNo
      <4>1. att[w][n] \in AttemptStatus
        BY <1>0 DEF TypeOK
      <4>2. att[w][n] \notin ActiveStatus
        BY <1>0, <2>1, <3>1 DEF RowOK, ClaimShape
      <4>3. att[w][n] \notin {"sent", "failed", "ambiguous"}
        BY <1>0, <2>0 DEF RowOK, OneLive
      <4> QED
        BY <4>1, <4>2, <4>3 DEF AttemptStatus, ClosedStatus
    <3>3. wi'[w] = Failed /\ \A n \in AttemptNo : att'[w][n] = att[w][n]
      BY <1>2, <2>1, <3>1
         DEF ItemAfter, AttemptAfter, SettledItem, StaleKind
    <3>4. RowOK(w)'
      BY <1>0, <3>2, <3>3, RecordFields, Constants
         DEF RowOK, ClaimShape, OneLive, Correlated, Live, ActiveStatus, NoClaim
    <3> QED
      BY <3>3, <3>4 DEF Keeps
  <2>2. CASE wi[w].claimedBy # LegacyClaim
    <3> DEFINE n == wi[w].claimedBy
    <3>1. n \in AttemptNo
      BY <1>0, <2>0, <2>2 DEF TypeOK, WorkItem
    <3>2. att[w][n] \in ActiveStatus /\ StaleKind(w) = att[w][n]
      BY <1>0, <2>0, <2>2, <3>1 DEF RowOK, ClaimShape, StaleKind
    <3>3. AttemptStep(w, n, SettledStatus(w))
      BY <1>2 DEF AttemptStep, AttemptAfter
    <3>4. FitsStatus(w, n, SettledStatus(w))
      BY <1>0, <1>2, <3>1, <3>2
         DEF FitsStatus, SettledStatus, ItemAfter, SettledItem, RowOK, Correlated
    <3>5. RowOK(w)'
      BY <1>0, <2>0, <3>1, <3>3, <3>4, RowSettle
    <3>6. Keeps(w)
      BY <3>1, <3>2, <3>3 DEF Keeps, AttemptStep, SettledStatus, ActiveStatus
    <3> QED
      BY <3>5, <3>6
  <2> QED
    BY <2>1, <2>2
<1> QED
  BY <1>1, <1>2


(* A claimable item, after the reconciliations, has only expired attempts  *)
(* before n and none from n on.                                            *)
LEMMA ClaimRow ==
    ASSUME IndInv, TypeOK', NEW S \in SUBSET WorkItems,
           NEW R \in SUBSET S, ReconcileSet(R, S),
           NEW w \in S, NEW n \in AttemptNo,
           Claimable(R, w), NextAttempt(w, n),
           wi'[w] = Claimed(n),
           \A k \in AttemptNo :
              att'[w][k] = IF k = n THEN "uploading" ELSE AttemptAfter(R, w, k),
           UNCHANGED <<rid, payload>>
    PROVE  RowOK(w)' /\ Keeps(w)
<1>0. RowOK(w) /\ TypeOK /\ w \in WorkItems
  BY DEF IndInv, RowsOK
<1>1. \A k \in AttemptNo : AttemptAfter(R, w, k) \notin ActiveStatus \cup {"sent"}
  BY DEF Claimable
<1>2. \A k \in AttemptNo : att[w][k] # "none" <=> k < n
  BY DEF NextAttempt
<1>3. ItemAfter(R, w).status = "queued"
  BY DEF Claimable
<1>4. \A k \in AttemptNo :
         k < n => AttemptAfter(R, w, k) = "expired" /\ rid[w][k]
  <2>1. CASE w \notin R
    <3>1. wi[w].status = "queued"
      BY <1>3, <2>1 DEF ItemAfter
    <3>2. \A k \in AttemptNo : k < n => att[w][k] = "expired"
      <4> SUFFICES ASSUME NEW k \in AttemptNo, k < n
                   PROVE  att[w][k] = "expired"
        OBVIOUS
      <4>1. att[w][k] \in AttemptStatus /\ att[w][k] # "none"
        BY <1>0, <1>2 DEF TypeOK
      <4>2. att[w][k] \notin ActiveStatus
        BY <1>0, <3>1 DEF RowOK, ClaimShape
      <4>3. att[w][k] \notin {"sent", "failed", "ambiguous"}
        BY <1>0, <3>1 DEF RowOK, OneLive
      <4> QED
        BY <4>1, <4>2, <4>3 DEF AttemptStatus, ClosedStatus
    <3> QED
      BY <1>0, <2>1, <3>2 DEF AttemptAfter, RowOK, Correlated
  <2>2. CASE w \in R
    <3> DEFINE m == wi[w].claimedBy
    <3>1. StaleKind(w) = "awaiting_callback"
      BY <1>3, <2>2, RecordFields DEF ItemAfter, SettledItem
    <3>2. m # LegacyClaim /\ att[w][m] = "awaiting_callback"
      BY <3>1 DEF StaleKind
    <3>3. wi[w].status = "processing" /\ m # NoClaim
      BY <1>0, <2>2 DEF ReconcileSet, Stale, RowOK, ClaimShape
    <3>4. m \in AttemptNo
      BY <1>0, <3>2, <3>3 DEF TypeOK, WorkItem
    <3>5. \A k \in AttemptNo : k # m => att[w][k] \in {"none", "expired"}
      BY <1>0, <3>2, <3>4 DEF RowOK, OneLive, Live
    <3>6. \A k \in AttemptNo : k < n => AttemptAfter(R, w, k) = "expired"
      BY <1>2, <2>2, <3>1, <3>5 DEF AttemptAfter, SettledStatus
    <3>7. \A k \in AttemptNo : k < n => rid[w][k]
      BY <1>0, <1>2, <3>2, <3>5 DEF RowOK, Correlated
    <3> QED
      BY <3>6, <3>7
  <2> QED
    BY <2>1, <2>2
<1>5. \A k \in AttemptNo :
         k > n => AttemptAfter(R, w, k) = "none" /\ att[w][k] = "none"
  <2> SUFFICES ASSUME NEW k \in AttemptNo, k > n
               PROVE  AttemptAfter(R, w, k) = "none" /\ att[w][k] = "none"
    OBVIOUS
  <2>1. att[w][k] = "none"
    BY <1>2, Constants
  <2>2. ~(w \in R /\ wi[w].claimedBy = k)
    BY <1>0, <2>1 DEF ReconcileSet, Stale, RowOK, ClaimShape, ActiveStatus
  <2> QED
    BY <2>1, <2>2 DEF AttemptAfter
<1>6. att[w][n] = "none"
  BY <1>2, Constants
<1>7. RowOK(w)'
  <2>1. \A k \in AttemptNo :
           att'[w][k] = IF k = n THEN "uploading"
                        ELSE IF k < n THEN "expired" ELSE "none"
    BY <1>4, <1>5, Constants
  <2>2. \A k \in AttemptNo : k < n => rid'[w][k]
    BY <1>4
  <2>3. \A k \in AttemptNo : k >= n => payload'[w][k] = NoPayload
    <3>1. \A k \in AttemptNo : k >= n => att[w][k] = "none"
      BY <1>5, <1>6, Constants
    <3> QED
      BY <1>0, <3>1 DEF RowOK, Correlated
  <2> QED
    BY <1>0, <2>1, <2>2, <2>3, RowClaim
<1>8. Keeps(w)
  <2>1. \A k \in AttemptNo : att[w][k] \notin {"sending", "ambiguous", "sent", "failed"}
    <3> TAKE k \in AttemptNo
    <3>1. CASE k < n
      <4>1. AttemptAfter(R, w, k) = "expired"
        BY <1>4, <3>1
      <4>2. CASE w \in R /\ wi[w].claimedBy = k
        <5>1. SettledStatus(w) = "expired"
          BY <4>1, <4>2 DEF AttemptAfter
        <5>2. StaleKind(w) = "awaiting_callback"
          BY <5>1 DEF SettledStatus
        <5> QED
          BY <4>2, <5>2 DEF StaleKind
      <4>3. CASE ~(w \in R /\ wi[w].claimedBy = k)
        BY <4>1, <4>3 DEF AttemptAfter
      <4> QED
        BY <4>2, <4>3
    <3>2. CASE ~(k < n)
      BY <1>2, <3>2
    <3> QED
      BY <3>1, <3>2
  <2>2. \A k \in AttemptNo : att'[w][k] \notin {"sent", "failed"}
    BY <1>4, <1>5, Constants
  <2> QED
    BY <2>1, <2>2 DEF Keeps
<1> QED
  BY <1>7, <1>8

LEMMA ScanInd ==
    ASSUME IndInv, NEW u \in Workers, NEW S \in SUBSET WorkItems,
           ClaimReadyWorkItem(u, S)
    PROVE  IndInv'
<1>0. /\ TypeOK /\ HandlerOwns /\ SoleHandler /\ IdleShape
      /\ Progress /\ ExternalOK
  BY DEF IndInv
<1>1. TypeOK'
  BY <1>0, ScanType
<1>2. UNCHANGED <<rid, payload, handler, introMarked, outside>>
  BY DEF ClaimReadyWorkItem, review
<1>3. PICK R \in SUBSET S :
         /\ ReconcileSet(R, S)
         /\ CommitReconciliation(S, R) \/ CommitClaim(u, S, R)
  BY DEF ClaimReadyWorkItem
<1>4. (\A w \in WorkItems : RowOK(w)' /\ Keeps(w)) /\ IdleShape'
  <2>1. CASE CommitReconciliation(S, R)
    <3>1. \A w \in WorkItems :
             /\ wi'[w] = ItemAfter(R, w)
             /\ \A n \in AttemptNo : att'[w][n] = AttemptAfter(R, w, n)
      BY <2>1 DEF CommitReconciliation
    <3>2. IdleShape'
      BY <1>0, <1>2, <2>1 DEF CommitReconciliation, IdleShape, Busy
    <3> QED
      BY <1>1, <1>2, <1>3, <3>1, <3>2, ScanRow
  <2>2. CASE CommitClaim(u, S, R)
    <3>1. PICK c \in S, n \in AttemptNo :
             /\ Claimable(R, c) /\ NextAttempt(c, n)
             /\ wi' = [w \in WorkItems |->
                          IF w = c THEN Claimed(n) ELSE ItemAfter(R, w)]
             /\ att' = [w \in WorkItems |-> [k \in AttemptNo |->
                           IF w = c /\ k = n
                           THEN "uploading"
                           ELSE AttemptAfter(R, w, k)]]
             /\ worker' = [worker EXCEPT ![u] =
                              [pc |-> "prepare", item |-> c, no |-> n]]
      BY <2>2 DEF CommitClaim
    <3>2. RowOK(c)' /\ Keeps(c)
      <4>1. wi'[c] = Claimed(n)
        BY <3>1
      <4>2. \A k \in AttemptNo :
               att'[c][k] = IF k = n THEN "uploading" ELSE AttemptAfter(R, c, k)
        BY <3>1
      <4> QED
        BY <1>1, <1>2, <1>3, <3>1, <4>1, <4>2, ClaimRow
    <3>3. ASSUME NEW w \in WorkItems, w # c
          PROVE  RowOK(w)' /\ Keeps(w)
      <4>1. /\ wi'[w] = ItemAfter(R, w)
            /\ \A k \in AttemptNo : att'[w][k] = AttemptAfter(R, w, k)
        BY <3>1, <3>3
      <4> QED
        BY <1>1, <1>2, <1>3, <4>1, ScanRow
    <3>4. IdleShape'
      <4>1. c \in WorkItems
        OBVIOUS
      <4>2. \A v \in Workers : worker'[v] =
               IF v = u THEN [pc |-> "prepare", item |-> c, no |-> n] ELSE worker[v]
        BY <1>0, <3>1 DEF TypeOK
      <4> QED
        BY <1>0, <1>2, <4>1, <4>2 DEF IdleShape, Busy
    <3> QED
      BY <3>2, <3>3, <3>4
  <2> QED
    BY <1>3, <2>1, <2>2
<1>5. HandlerOwns' /\ SoleHandler' /\ Progress' /\ ExternalOK'
  BY <1>0, <1>2, <1>4, KeepsOutside
<1> QED
  BY <1>1, <1>4, <1>5 DEF IndInv, RowsOK


(* The upload worker after its claim.                                      *)
LEMMA WorkerInd ==
    ASSUME IndInv, NEW u \in Workers, WorkerStep(u) \/ WorkerExit(u)
    PROVE  IndInv'
<1>0. /\ TypeOK /\ RowsOK /\ HandlerOwns /\ SoleHandler /\ IdleShape
      /\ Progress /\ ExternalOK
  BY DEF IndInv
<1> DEFINE w == worker[u].item
           n == worker[u].no
<1>w. worker[u].pc # "idle" => w \in WorkItems /\ n \in AttemptNo
  BY <1>0 DEF IdleShape
<1>t. TypeOK'
  BY <1>0, WorkerType
<1>i. ASSUME handler' = handler,
             \/ worker' = [worker EXCEPT ![u] = Idle]
             \/ /\ worker[u].pc # "idle"
                /\ \E c \in WorkerPc : worker' = [worker EXCEPT ![u].pc = c]
      PROVE  IdleShape'
  <2>1. \A v \in Workers : v # u => worker'[v] = worker[v]
    BY <1>i, <1>0 DEF TypeOK
  <2>2. \/ worker'[u] = Idle
        \/ w \in WorkItems /\ n \in AttemptNo
           /\ worker'[u].item = w /\ worker'[u].no = n
    <3>1. CASE worker' = [worker EXCEPT ![u] = Idle]
      BY <3>1, <1>0 DEF TypeOK
    <3>2. CASE /\ worker[u].pc # "idle"
               /\ \E c \in WorkerPc : worker' = [worker EXCEPT ![u].pc = c]
      <4>1. PICK c \in WorkerPc : worker' = [worker EXCEPT ![u].pc = c]
        BY <3>2
      <4>2. worker[u] \in Process(WorkerPc)
        BY <1>0 DEF TypeOK
      <4>3. worker'[u] = [worker[u] EXCEPT !.pc = c]
        BY <4>1, <1>0 DEF TypeOK
      <4> QED
        BY <3>2, <4>2, <4>3, <1>w, ProcessPc
    <3> QED
      BY <1>i, <3>1, <3>2
  <2>3. Idle.pc = "idle"
    BY DEF Idle
  <2> QED
    BY <1>i, <1>0, <2>1, <2>2, <2>3 DEF IdleShape, Busy
<1>s. ASSUME UNCHANGED <<rows, handler, introMarked, img, delivered, intro>>,
             IdleShape'
      PROVE  IndInv'
  <2>1. RowsOK'
    BY <1>0, <1>s, <1>t, RowSame DEF RowsOK, rows
  <2>2. HandlerOwns' /\ SoleHandler' /\ Progress'
    BY <1>0, <1>s DEF HandlerOwns, SoleHandler, Progress, ProgressOf, Busy, rows
  <2>3. ExternalOK'
    BY <1>0, <1>s DEF ExternalOK, LeftOK, RecordedOK, Opened, rows
  <2> QED
    BY <1>t, <1>s, <2>1, <2>2, <2>3 DEF IndInv
<1>1. CASE PrepareBytes(u)
  <2>1. IdleShape'
    BY <1>1, <1>i DEF PrepareBytes, WorkerPc
  <2> QED
    BY <1>1, <1>s, <2>1 DEF PrepareBytes, review, outside
<1>2. CASE RequestUpload(u)
  <2>1. \E c \in WorkerPc : worker' = [worker EXCEPT ![u].pc = c]
    BY <1>2 DEF RequestUpload, WorkerPc
  <2>2. IdleShape'
    BY <1>2, <1>i, <2>1 DEF RequestUpload
  <2> QED
    BY <1>2, <1>s, <2>2 DEF RequestUpload, review
<1>3. CASE RecordUploadAcceptance(u)
  <2>1. w \in WorkItems /\ n \in AttemptNo
    BY <1>3, <1>w DEF RecordUploadAcceptance
  <2>2. IdleShape'
    <3>1. \/ worker' = [worker EXCEPT ![u] = Idle]
          \/ worker' = [worker EXCEPT ![u].pc = "unknown"]
      <4>1. \E q \in {Idle, [worker[u] EXCEPT !.pc = "unknown"]} :
               worker' = [worker EXCEPT ![u] = q]
        BY <1>3 DEF RecordUploadAcceptance
      <4> QED
        BY <4>1
    <3> QED
      BY <1>3, <1>i, <3>1 DEF RecordUploadAcceptance, WorkerPc
  <2>3. UNCHANGED <<wi, payload, introMarked, handler, outside>>
    BY <1>3 DEF RecordUploadAcceptance, review
  <2>4. CASE UNCHANGED <<att, rid>>
    BY <1>s, <2>2, <2>3, <2>4 DEF rows, outside
  <2>5. CASE /\ LockCurrentClaim(w, n)
             /\ att[w][n] = "uploading"
             /\ att' = [att EXCEPT ![w][n] = "awaiting_callback"]
             /\ rid' = [rid EXCEPT ![w][n] = TRUE]
    <3>1. \A v \in WorkItems, k \in AttemptNo :
             att'[v][k] = IF v = w /\ k = n
                          THEN "awaiting_callback" ELSE att[v][k]
      <4>1. "awaiting_callback" \in AttemptStatus
        BY DEF AttemptStatus, ActiveStatus
      <4> QED
        BY <1>0, <2>1, <2>5, <4>1, Update2 DEF TypeOK
    <3>r. rid'[w][n] /\ \A k \in AttemptNo \ {n} : rid'[w][k] = rid[w][k]
      <4>1. rid'[w] = [rid[w] EXCEPT ![n] = TRUE]
        BY <1>0, <2>1, <2>5 DEF TypeOK
      <4>2. rid[w] \in [AttemptNo -> BOOLEAN]
        BY <1>0, <2>1 DEF TypeOK
      <4> QED
        BY <2>1, <4>1, <4>2
    <3>2. \A v \in WorkItems : Keeps(v)
      BY <2>3, <2>5, <3>1 DEF Keeps
    <3>3. ASSUME NEW v \in WorkItems
          PROVE  RowOK(v)'
      <4>1. CASE v = w
        <5>1. wi[w].status = "processing" /\ wi[w].claimedBy = n
          BY <2>5, RecordFields DEF LockCurrentClaim
        <5>2. AttemptStep(w, n, "awaiting_callback")
          BY <2>1, <2>3, <3>1, <3>r DEF AttemptStep
        <5>3. rid'[w][n] /\ payload'[w][n] = NoPayload
          BY <1>0, <2>1, <2>3, <2>5, <3>r DEF RowsOK, RowOK, Correlated
        <5>4. FitsStatus(w, n, "awaiting_callback")
          BY <2>3, <5>3 DEF FitsStatus
        <5> QED
          BY <1>0, <1>t, <2>1, <4>1, <5>1, <5>2, <5>4, RowSettle DEF RowsOK
      <4>2. CASE v # w
        <5>1. rid'[v] = rid[v]
          BY <1>0, <2>5, <4>2 DEF TypeOK
        <5> QED
          BY <1>0, <1>t, <2>3, <3>1, <4>2, <5>1, RowSame DEF RowsOK
      <4> QED
        BY <4>1, <4>2
    <3> QED
      BY <1>0, <1>t, <2>2, <2>3, <3>2, <3>3, KeepsOutside DEF IndInv, RowsOK
  <2> QED
    BY <1>3, <2>4, <2>5 DEF RecordUploadAcceptance
<1>4. CASE RecordUploadFailure(u)
  <2>1. w \in WorkItems /\ n \in AttemptNo
    BY <1>4, <1>w DEF RecordUploadFailure
  <2>2. IdleShape'
    BY <1>4, <1>i DEF RecordUploadFailure
  <2>3. UNCHANGED <<rid, payload, introMarked, handler, outside>>
    BY <1>4 DEF RecordUploadFailure, review
  <2>4. CASE UNCHANGED <<wi, att>>
    BY <1>s, <2>2, <2>3, <2>4 DEF rows, outside
  <2>5. ASSUME NEW s \in {"failed", "ambiguous"},
               LockCurrentClaim(w, n),
               att[w][n] = "uploading",
               att' = [att EXCEPT ![w][n] = s],
               wi' = [wi EXCEPT ![w] = Failed]
        PROVE  IndInv'
    <3>1. \A v \in WorkItems, k \in AttemptNo :
             att'[v][k] = IF v = w /\ k = n THEN s ELSE att[v][k]
      <4>1. s \in AttemptStatus
        BY DEF AttemptStatus, ClosedStatus
      <4> QED
        BY <1>0, <2>1, <2>5, <4>1, Update2 DEF TypeOK
    <3>2. \A v \in WorkItems : wi'[v] = IF v = w THEN Failed ELSE wi[v]
      BY <1>0, <2>1, <2>5 DEF TypeOK
    <3>3. img[w] = 0
      BY <1>0, <2>1, <2>5, BeforeGate DEF RowsOK
    <3>4. \A v \in WorkItems : Keeps(v)
      BY <2>3, <2>5, <3>1, <3>3 DEF Keeps
    <3>5. ASSUME NEW v \in WorkItems
          PROVE  RowOK(v)'
      <4>1. CASE v = w
        <5>1. wi[w].status = "processing" /\ wi[w].claimedBy = n
          BY <2>5, RecordFields DEF LockCurrentClaim
        <5>2. AttemptStep(w, n, s)
          BY <2>1, <2>3, <3>1 DEF AttemptStep
        <5>3. FitsStatus(w, n, s)
          BY <2>1, <3>2 DEF FitsStatus
        <5> QED
          BY <1>0, <1>t, <2>1, <4>1, <5>1, <5>2, <5>3, RowSettle DEF RowsOK
      <4>2. CASE v # w
        BY <1>0, <1>t, <2>3, <3>1, <3>2, <4>2, RowSame DEF RowsOK
      <4> QED
        BY <4>1, <4>2
    <3> QED
      BY <1>0, <1>t, <2>2, <2>3, <3>4, <3>5, KeepsOutside DEF IndInv, RowsOK
  <2> QED
    BY <1>4, <2>4, <2>5 DEF RecordUploadFailure
<1>5. CASE WorkerExit(u)
  <2>1. IdleShape'
    BY <1>5, <1>i DEF WorkerExit
  <2> QED
    BY <1>5, <1>s, <2>1 DEF WorkerExit, review, outside
<1> QED
  BY <1>1, <1>2, <1>3, <1>4, <1>5 DEF WorkerStep

-----------------------------------------------------------------------------
(* The callback handler.                                                   *)

(* A busy handler goes on with its item or stops; the rows stay.           *)
HandlerMoves(h) ==
    /\ Busy(h)
    /\ \A g \in Handlers \ {h} : handler'[g] = handler[g]
    /\ \/ handler'[h] = Idle
       \/ /\ handler'[h].item = handler[h].item
          /\ handler'[h].no = handler[h].no
          /\ handler'[h].pc # "idle"

LEMMA MovePc ==
    ASSUME TypeOK, NEW h \in Handlers, NEW c \in HandlerPc \ {"idle"}, Busy(h),
           handler' = [handler EXCEPT ![h].pc = c]
    PROVE  HandlerMoves(h) /\ handler'[h].pc = c
<1>1. handler[h] \in Process(HandlerPc)
  BY DEF TypeOK
<1>2. handler'[h] = [handler[h] EXCEPT !.pc = c]
  BY DEF TypeOK
<1>3. \A g \in Handlers \ {h} : handler'[g] = handler[g]
  BY DEF TypeOK
<1>4. c \in HandlerPc /\ c # "idle"
  OBVIOUS
<1>5. /\ handler'[h].pc = c
      /\ handler'[h].item = handler[h].item /\ handler'[h].no = handler[h].no
  <2>1. /\ [handler[h] EXCEPT !.pc = c].pc = c
        /\ [handler[h] EXCEPT !.pc = c].item = handler[h].item
        /\ [handler[h] EXCEPT !.pc = c].no = handler[h].no
    BY <1>1, <1>4, ProcessPc
  <2> QED
    BY <1>2, <2>1
<1> QED
  BY <1>3, <1>4, <1>5 DEF HandlerMoves

LEMMA MoveIdle ==
    ASSUME TypeOK, NEW h \in Handlers, Busy(h),
           handler' = [handler EXCEPT ![h] = Idle]
    PROVE  HandlerMoves(h) /\ handler'[h] = Idle
BY DEF TypeOK, HandlerMoves

LEMMA MoveKeeps ==
    ASSUME HandlerOwns, SoleHandler, IdleShape, NEW h \in Handlers,
           HandlerMoves(h), UNCHANGED <<rows, worker>>
    PROVE  HandlerOwns' /\ SoleHandler' /\ IdleShape'
<1>0. Idle.pc = "idle" /\ Idle.item = NoItem
  BY DEF Idle
<1>1. \A g \in Handlers : Busy(g)' =>
         Busy(g) /\ handler'[g].item = handler[g].item /\ handler'[g].no = handler[g].no
  BY <1>0 DEF HandlerMoves, Busy
<1>2. HandlerOwns'
  BY <1>1 DEF HandlerOwns, rows
<1>3. SoleHandler'
  BY <1>1 DEF SoleHandler
<1>4. IdleShape'
  BY <1>0 DEF IdleShape, HandlerMoves, Busy
<1> QED
  BY <1>2, <1>3, <1>4

(* The progress of the other handlers is about other items.                *)
LEMMA OthersProgress ==
    ASSUME SoleHandler, Progress, NEW h \in Handlers, HandlerMoves(h),
           NEW w, w = handler[h].item, HandlerOwns,
           \A v \in WorkItems \ {w} :
              /\ img'[v] = img[v] /\ delivered'[v] = delivered[v]
              /\ intro'[v] = intro[v] /\ introMarked'[v] = introMarked[v],
           Busy(h)' => ProgressOf(h)'
    PROVE  Progress'
<1> SUFFICES ASSUME NEW g \in Handlers, Busy(g)', g # h
             PROVE  ProgressOf(g)'
  BY DEF Progress
<1>1. handler'[g] = handler[g] /\ Busy(g)
  BY DEF HandlerMoves, Busy
<1>2. handler[g].item \in WorkItems \ {w}
  BY <1>1 DEF SoleHandler, HandlerMoves, HandlerOwns
<1> QED
  BY <1>1, <1>2 DEF Progress, ProgressOf

(* The gate opens: until then nothing left and no handler had the item.    *)
LEMMA OpenSendGateInd ==
    ASSUME IndInv, TypeOK', NEW h \in Handlers, NEW w \in WorkItems,
           NEW n \in AttemptNo, NEW p \in Payloads, OpenSendGate(h, w, n, p)
    PROVE  IndInv'
<1>0. /\ TypeOK /\ RowsOK /\ HandlerOwns /\ SoleHandler /\ IdleShape
      /\ Progress /\ ExternalOK
  BY DEF IndInv
<1>1. /\ handler[h].pc = "idle"
      /\ att[w][n] = "awaiting_callback"
      /\ wi[w].status = "processing" /\ wi[w].claimedBy = n
  BY DEF OpenSendGate, Callback, LockCallbackPolicy
<1>2. UNCHANGED <<rid, introMarked, worker, outside>>
  BY DEF OpenSendGate, review
<1>3. \A v \in WorkItems, k \in AttemptNo :
         att'[v][k] = IF v = w /\ k = n THEN "sending" ELSE att[v][k]
  <2>1. "sending" \in AttemptStatus
    BY DEF AttemptStatus, ActiveStatus
  <2> QED
    BY <1>0, <2>1, Update2 DEF TypeOK, OpenSendGate
<1>4. \A v \in WorkItems, k \in AttemptNo :
         payload'[v][k] = IF v = w /\ k = n THEN p ELSE payload[v][k]
  BY <1>0, Update2 DEF TypeOK, OpenSendGate
<1>5. \A v \in WorkItems : wi'[v] = IF v = w THEN Claimed(n) ELSE wi[v]
  BY <1>0 DEF TypeOK, OpenSendGate
<1>6. p # NoPayload
  BY Constants
<1>7. RowsOK'
  <2> SUFFICES ASSUME NEW v \in WorkItems PROVE RowOK(v)'
    BY DEF RowsOK
  <2>1. CASE v = w
    <3>1. AttemptStep(w, n, "sending")
      BY <1>2, <1>3, <1>4 DEF AttemptStep
    <3>2. FitsStatus(w, n, "sending")
      BY <1>4, <1>5, <1>6 DEF FitsStatus
    <3> QED
      BY <1>0, <1>1, <2>1, <3>1, <3>2, RowSettle DEF RowsOK
  <2>2. CASE v # w
    <3>1. payload'[v] = payload[v]
      BY <1>0, <2>2 DEF TypeOK, OpenSendGate
    <3> QED
      BY <1>0, <1>2, <1>3, <1>5, <2>2, <3>1, RowSame DEF RowsOK
  <2> QED
    BY <2>1, <2>2
<1>8. /\ img[w] = 0 /\ intro[w] = 0
      /\ \A k \in AttemptNo : k # n => att[w][k] \in {"none", "expired"}
  BY <1>0, <1>1, BeforeGate DEF RowsOK
<1>9. \A g \in Handlers : Busy(g) => handler[g].item # w
  BY <1>0, <1>1, <1>8 DEF HandlerOwns
<1>10. PICK c \in {"probe", "image"} :
          /\ handler' = [handler EXCEPT ![h] = [pc |-> c, item |-> w, no |-> n]]
          /\ c = "image" => w \notin IntroItems
  BY DEF OpenSendGate
<1>11. /\ \A g \in Handlers : g # h => handler'[g] = handler[g]
       /\ handler'[h].pc = c /\ handler'[h].item = w /\ handler'[h].no = n
  BY <1>0, <1>10 DEF TypeOK
<1>12. HandlerOwns'
  <2>1. att'[w][n] = "sending" /\ payload'[w][n] # NoPayload
    BY <1>3, <1>4, <1>6
  <2>2. ASSUME NEW g \in Handlers, g # h, Busy(g)'
        PROVE  /\ handler'[g].item \in WorkItems
               /\ handler'[g].no \in AttemptNo
               /\ att'[handler'[g].item][handler'[g].no] \in {"sending", "ambiguous"}
               /\ payload'[handler'[g].item][handler'[g].no] # NoPayload
    <3>1. handler'[g] = handler[g] /\ Busy(g)
      BY <1>11, <2>2 DEF Busy
    <3>2. handler[g].item \in WorkItems \ {w} /\ handler[g].no \in AttemptNo
      BY <1>0, <1>9, <3>1 DEF HandlerOwns
    <3> QED
      BY <1>0, <1>3, <1>4, <3>1, <3>2 DEF HandlerOwns
  <2> QED
    BY <1>11, <2>1, <2>2 DEF HandlerOwns
<1>13. SoleHandler'
  BY <1>0, <1>9, <1>11 DEF SoleHandler, Busy
<1>14. IdleShape'
  BY <1>0, <1>2, <1>11 DEF IdleShape, Busy
<1>15. Progress'
  <2>1. delivered[w] = 0
    BY <1>0, <1>8 DEF ExternalOK, LeftOK, TypeOK
  <2>2. ProgressOf(h)'
    BY <1>2, <1>8, <1>10, <1>11, <2>1 DEF ProgressOf, outside
  <2>3. ASSUME NEW g \in Handlers, g # h, Busy(g)'
        PROVE  ProgressOf(g)'
    BY <1>0, <1>2, <1>11, <2>3 DEF Progress, ProgressOf, Busy, outside
  <2> QED
    BY <2>2, <2>3 DEF Progress
<1>16. ExternalOK'
  <2> SUFFICES ASSUME NEW v \in WorkItems PROVE LeftOK(v)' /\ RecordedOK(v)'
    BY DEF ExternalOK
  <2>1. LeftOK(v)'
    BY <1>0, <1>2 DEF ExternalOK, LeftOK, outside
  <2>2. \A k \in AttemptNo : Opened(v, k) => Opened(v, k)'
    BY <1>3, <1>4, <1>6 DEF Opened
  <2>3. RecordedOK(v)'
    BY <1>0, <1>2, <1>3, <2>2 DEF ExternalOK, RecordedOK, outside
  <2> QED
    BY <2>1, <2>3
<1> QED
  BY <1>7, <1>12, <1>13, <1>14, <1>15, <1>16 DEF IndInv

LEMMA ExpireLateCallbackInd ==
    ASSUME IndInv, TypeOK', NEW h \in Handlers, NEW w \in WorkItems,
           NEW n \in AttemptNo, NEW p \in Payloads,
           ExpireLateCallback(h, w, n, p)
    PROVE  IndInv'
<1>0. /\ TypeOK /\ RowsOK /\ HandlerOwns /\ SoleHandler /\ IdleShape
      /\ Progress /\ ExternalOK
  BY DEF IndInv
<1>1. /\ att[w][n] = "awaiting_callback" /\ rid[w][n]
      /\ wi[w].status = "processing" /\ wi[w].claimedBy = n
  BY DEF ExpireLateCallback, Callback, LockCallbackPolicy
<1>2. UNCHANGED <<rid, introMarked, worker, handler, outside>>
  BY DEF ExpireLateCallback, review
<1>3. \A v \in WorkItems, k \in AttemptNo :
         att'[v][k] = IF v = w /\ k = n THEN "expired" ELSE att[v][k]
  <2>1. "expired" \in AttemptStatus
    BY DEF AttemptStatus, ClosedStatus
  <2> QED
    BY <1>0, <2>1, Update2 DEF TypeOK, ExpireLateCallback
<1>4. \A v \in WorkItems, k \in AttemptNo :
         payload'[v][k] = IF v = w /\ k = n THEN p ELSE payload[v][k]
  BY <1>0, Update2 DEF TypeOK, ExpireLateCallback
<1>5. \A v \in WorkItems : wi'[v] = IF v = w THEN Queued ELSE wi[v]
  BY <1>0 DEF TypeOK, ExpireLateCallback
<1>6. RowsOK'
  <2> SUFFICES ASSUME NEW v \in WorkItems PROVE RowOK(v)'
    BY DEF RowsOK
  <2>1. CASE v = w
    <3>1. AttemptStep(w, n, "expired")
      BY <1>2, <1>3, <1>4 DEF AttemptStep
    <3>2. FitsStatus(w, n, "expired")
      BY <1>1, <1>2, <1>5 DEF FitsStatus
    <3> QED
      BY <1>0, <1>1, <2>1, <3>1, <3>2, RowSettle DEF RowsOK
  <2>2. CASE v # w
    <3>1. payload'[v] = payload[v]
      BY <1>0, <2>2 DEF TypeOK, ExpireLateCallback
    <3> QED
      BY <1>0, <1>2, <1>3, <1>5, <2>2, <3>1, RowSame DEF RowsOK
  <2> QED
    BY <2>1, <2>2
<1>7. \A v \in WorkItems : Keeps(v)
  BY <1>1, <1>3, <1>4, Constants DEF Keeps
<1>8. IdleShape'
  BY <1>0, <1>2 DEF IdleShape, Busy
<1> QED
  BY <1>0, <1>2, <1>6, <1>7, <1>8, KeepsOutside DEF IndInv


(* The final write: what the handler saw is what the attempt records.      *)
LEMMA RecordSendInd ==
    ASSUME IndInv, TypeOK', NEW h \in Handlers, Busy(h), NEW s, NEW v,
           \/ handler[h].pc = "sent" /\ s = "sent" /\ v = Completed
           \/ handler[h].pc = "reject" /\ s = "failed" /\ v = Failed
           \/ handler[h].pc = "ambiguous" /\ s = "ambiguous" /\ v = Failed,
           RecordSend(h, s, v)
    PROVE  IndInv'
<1>0. /\ TypeOK /\ RowsOK /\ HandlerOwns /\ SoleHandler /\ IdleShape
      /\ Progress /\ ExternalOK
  BY DEF IndInv
<1>p. PICK w, n : w = handler[h].item /\ n = handler[h].no
  OBVIOUS
<1>1. w \in WorkItems /\ n \in AttemptNo /\ payload[w][n] # NoPayload
  BY <1>0, <1>p DEF HandlerOwns
<1>2. UNCHANGED <<rid, payload, introMarked, worker, outside>>
  BY DEF RecordSend, review
<1>3. HandlerMoves(h) /\ handler'[h] = Idle
  BY <1>0, MoveIdle DEF RecordSend
<1>4. ~Busy(h)'
  BY <1>3 DEF Busy, Idle
<1>5. Progress'
  BY <1>0, <1>p, <1>2, <1>3, <1>4, OthersProgress DEF outside
<1>6. CASE UNCHANGED <<wi, att>>
  <2>1. HandlerOwns' /\ SoleHandler' /\ IdleShape'
    BY <1>0, <1>2, <1>3, <1>6, MoveKeeps DEF rows
  <2>2. RowsOK'
    BY <1>0, <1>2, <1>6, RowSame DEF RowsOK
  <2>3. ExternalOK'
    BY <1>0, <1>2, <1>6 DEF ExternalOK, LeftOK, RecordedOK, Opened, outside
  <2> QED
    BY <1>5, <2>1, <2>2, <2>3 DEF IndInv
<1>7. CASE /\ LockSendingClaim(w, n)
           /\ att' = [att EXCEPT ![w][n] = s]
           /\ wi' = [wi EXCEPT ![w] = v]
  <2>1. s \in {"sent", "failed", "ambiguous"}
    OBVIOUS
  <2>2. \A x \in WorkItems, k \in AttemptNo :
           att'[x][k] = IF x = w /\ k = n THEN s ELSE att[x][k]
    <3>1. s \in AttemptStatus
      BY <2>1 DEF AttemptStatus, ClosedStatus
    <3> QED
      BY <1>0, <1>1, <1>7, <3>1, Update2 DEF TypeOK
  <2>3. \A x \in WorkItems : wi'[x] = IF x = w THEN v ELSE wi[x]
    BY <1>0, <1>1, <1>7 DEF TypeOK
  <2>4. /\ att[w][n] = "sending"
        /\ wi[w].status = "processing" /\ wi[w].claimedBy = n
    BY <1>7 DEF LockSendingClaim
  <2>5. RowsOK'
    <3> SUFFICES ASSUME NEW x \in WorkItems PROVE RowOK(x)'
      BY DEF RowsOK
    <3>1. CASE x = w
      <4>1. AttemptStep(w, n, s)
        BY <1>1, <1>2, <2>2 DEF AttemptStep
      <4>2. wi'[w] = v
        BY <1>1, <2>3
      <4>3. FitsStatus(w, n, s)
        BY <1>1, <1>2, <4>2 DEF FitsStatus
      <4> QED
        BY <1>0, <1>1, <2>4, <3>1, <4>1, <4>3, RowSettle DEF RowsOK
    <3>2. CASE x # w
      BY <1>0, <1>2, <2>2, <2>3, <3>2, RowSame DEF RowsOK
    <3> QED
      BY <3>1, <3>2
  <2>6. \A g \in Handlers : Busy(g)' =>
           Busy(g) /\ handler'[g] = handler[g] /\ handler[g].item # w
    BY <1>0, <1>p, <1>3, <1>4 DEF HandlerMoves, Busy, SoleHandler
  <2>7. HandlerOwns'
    BY <1>0, <1>2, <2>2, <2>6 DEF HandlerOwns
  <2>8. SoleHandler'
    BY <1>0, <2>6 DEF SoleHandler
  <2>9. IdleShape'
    BY <1>0, <1>2, <1>3 DEF IdleShape, HandlerMoves, Busy, Idle
  <2>10. ExternalOK'
    <3> SUFFICES ASSUME NEW x \in WorkItems PROVE LeftOK(x)' /\ RecordedOK(x)'
      BY DEF ExternalOK
    <3>1. LeftOK(x)'
      BY <1>0, <1>2 DEF ExternalOK, LeftOK, outside
    <3>2. CASE x = w
      <4>1. Opened(w, n)'
        BY <1>1, <1>2, <2>1, <2>2 DEF Opened
      <4>2. /\ s = "sent" => delivered[w] = 1
            /\ s = "failed" => img[w] = 0
        BY <1>0, <1>p DEF Progress, ProgressOf
      <4>3. RecordedOK(w)'
        BY <1>0, <1>1, <1>2, <2>2, <4>1, <4>2 DEF ExternalOK, RecordedOK, outside
      <4> QED
        BY <3>1, <3>2, <4>3
    <3>3. CASE x # w
      BY <1>0, <1>2, <2>2, <3>1, <3>3
         DEF ExternalOK, RecordedOK, Opened, outside
    <3> QED
      BY <3>2, <3>3
  <2> QED
    BY <1>5, <2>5, <2>7, <2>8, <2>9, <2>10 DEF IndInv
<1> QED
  BY <1>p, <1>6, <1>7 DEF RecordSend

(* Handler steps that leave the rows alone: the handler's item w is the    *)
(* only one whose outside facts may change.                                *)
LEMMA SendStepInd ==
    ASSUME IndInv, TypeOK', NEW h \in Handlers, HandlerMoves(h),
           UNCHANGED <<rows, worker>>,
           NEW w, w = handler[h].item,
           \A v \in WorkItems \ {w} :
              /\ img'[v] = img[v] /\ delivered'[v] = delivered[v]
              /\ intro'[v] = intro[v] /\ introMarked'[v] = introMarked[v],
           Busy(h)' => ProgressOf(h)',
           LeftOK(w)'
    PROVE  IndInv'
<1>0. /\ TypeOK /\ RowsOK /\ HandlerOwns /\ SoleHandler /\ IdleShape
      /\ Progress /\ ExternalOK
  BY DEF IndInv
<1>1. RowsOK'
  BY <1>0, RowSame DEF RowsOK, rows
<1>2. HandlerOwns' /\ SoleHandler' /\ IdleShape'
  BY <1>0, MoveKeeps
<1>3. Progress'
  BY <1>0, OthersProgress
<1>4. ExternalOK'
  <2> SUFFICES ASSUME NEW v \in WorkItems PROVE LeftOK(v)' /\ RecordedOK(v)'
    BY DEF ExternalOK
  <2>1. CASE v # w
    BY <1>0, <2>1 DEF ExternalOK, LeftOK, RecordedOK, Opened, rows
  <2>2. CASE v = w
    <3>p. PICK n : n = handler[h].no
      OBVIOUS
    <3>1. /\ w \in WorkItems /\ n \in AttemptNo
          /\ att[w][n] \in {"sending", "ambiguous"}
          /\ payload[w][n] # NoPayload
      BY <1>0, <3>p DEF HandlerOwns, HandlerMoves
    <3>2. Opened(w, n)'
      BY <3>1 DEF Opened, rows
    <3>3. \A k \in AttemptNo : att'[w][k] \notin {"sent", "failed"}
      BY <1>0, <3>1 DEF RowsOK, RowOK, OneLive, Live, rows
    <3> QED
      BY <2>2, <3>1, <3>2, <3>3 DEF RecordedOK
  <2> QED
    BY <2>1, <2>2
<1> QED
  BY <1>1, <1>2, <1>3, <1>4 DEF IndInv

LEMMA HandlerInd ==
    ASSUME IndInv, NEW h \in Handlers,
           HandlerClaim(h) \/ HandlerStep(h) \/ HandlerExit(h)
    PROVE  IndInv'
<1>0. /\ TypeOK /\ RowsOK /\ HandlerOwns /\ SoleHandler /\ IdleShape
      /\ Progress /\ ExternalOK
  BY DEF IndInv
<1>t. TypeOK'
  BY <1>0, HandlerType
<1>p. PICK w, n : w = handler[h].item /\ n = handler[h].no
  OBVIOUS
<1>w. Busy(h) => /\ w \in WorkItems /\ n \in AttemptNo
                 /\ ProgressOf(h) /\ LeftOK(w)
                 /\ img[w] \in Nat /\ delivered[w] \in Nat /\ intro[w] \in Nat
  BY <1>0, <1>p DEF HandlerOwns, Progress, ExternalOK, TypeOK
<1>e. ASSUME Busy(h), handler' = [handler EXCEPT ![h] = Idle],
             UNCHANGED <<rows, introMarked, worker, outside>>
      PROVE  IndInv'
  <2>0. HandlerMoves(h) /\ handler'[h] = Idle
    BY <1>0, <1>e, MoveIdle
  <2>1. HandlerMoves(h) /\ ~Busy(h)'
    BY <2>0 DEF Busy, Idle
  <2>2. LeftOK(w)'
    BY <1>e, <1>w DEF LeftOK, outside
  <2> QED
    BY <1>p, <1>t, <1>e, <2>1, <2>2, SendStepInd DEF outside
<1>1. CASE HandlerClaim(h)
  BY <1>1, <1>t, OpenSendGateInd, ExpireLateCallbackInd DEF HandlerClaim
<1>2. CASE ProbeIntro(h)
  <2>1. Busy(h) /\ UNCHANGED <<rows, introMarked, worker, outside>>
    BY <1>2 DEF ProbeIntro, Busy, review
  <2>2. PICK c \in {"image", "intro"} :
           /\ handler' = [handler EXCEPT ![h].pc = c]
           /\ c = "image" => introMarked[w]
    BY <1>p, <1>2 DEF ProbeIntro
  <2>3. HandlerMoves(h) /\ handler'[h].pc = c
    BY <1>0, <2>1, <2>2, MovePc DEF HandlerPc
  <2>4. LeftOK(w)'
    BY <1>w, <2>1 DEF LeftOK, outside
  <2>5. img[w] = 0 /\ delivered[w] = 0 /\ intro[w] = 0
    BY <1>p, <1>2, <1>w, <2>1 DEF ProgressOf, ProbeIntro
  <2>6. handler'[h].item = w
    BY <1>p, <2>2, <2>3 DEF HandlerMoves, Idle
  <2>7. ProgressOf(h)'
    BY <1>p, <1>w, <2>1, <2>2, <2>3, <2>5, <2>6 DEF ProgressOf, LeftOK, outside
  <2> QED
    BY <1>p, <1>t, <2>1, <2>3, <2>4, <2>7, SendStepInd DEF outside
<1>3. CASE SendIntro(h)
  <2>1. Busy(h) /\ UNCHANGED <<rows, introMarked, worker, img, delivered>>
    BY <1>3 DEF SendIntro, Busy, review
  <2>2. PICK c \in {"mark", "reject"}, k \in 0..1 :
           /\ handler' = [handler EXCEPT ![h].pc = c]
           /\ intro' = [intro EXCEPT ![w] = @ + k]
           /\ c = "mark" => k = 1
    BY <1>p, <1>3 DEF SendIntro
  <2>3. HandlerMoves(h) /\ handler'[h].pc = c
    BY <1>0, <2>1, <2>2, MovePc DEF HandlerPc
  <2>4. handler'[h].item = w
    BY <1>p, <2>2, <2>3 DEF HandlerMoves, Idle
  <2>5. /\ intro'[w] = intro[w] + k
        /\ \A v \in WorkItems \ {w} : intro'[v] = intro[v]
    BY <1>p, <1>0, <1>w, <2>1, <2>2 DEF TypeOK
  <2>6. img[w] = 0 /\ delivered[w] = 0 /\ intro[w] = 0
    BY <1>p, <1>3, <1>w, <2>1 DEF ProgressOf, SendIntro
  <2>7. ~introMarked[w]
    BY <1>w, <2>1, <2>6 DEF LeftOK
  <2>8. LeftOK(w)'
    BY <2>1, <2>5, <2>6, <2>7 DEF LeftOK
  <2>9. ProgressOf(h)'
    BY <2>1, <2>2, <2>3, <2>4, <2>5, <2>6 DEF ProgressOf
  <2> QED
    BY <1>p, <1>t, <2>1, <2>3, <2>5, <2>8, <2>9, SendStepInd
<1>4. CASE MarkIntroSent(h)
  <2>1. Busy(h) /\ UNCHANGED <<rows, worker, outside>>
    BY <1>4 DEF MarkIntroSent, Busy
  <2>2. CASE LockSendingClaim(w, n)
    <3>1. /\ handler' = [handler EXCEPT ![h].pc = "image"]
          /\ introMarked' = [introMarked EXCEPT ![w] = TRUE]
      BY <1>p, <1>4, <2>2 DEF MarkIntroSent
    <3>2. HandlerMoves(h) /\ handler'[h].pc = "image"
      BY <1>0, <2>1, <3>1, MovePc DEF HandlerPc
    <3>3. handler'[h].item = w
      BY <1>p, <3>2 DEF HandlerMoves, Idle
    <3>4. introMarked'[w] /\ \A v \in WorkItems \ {w} : introMarked'[v] = introMarked[v]
      BY <1>p, <1>0, <1>w, <2>1, <3>1 DEF TypeOK
    <3>5. img[w] = 0 /\ delivered[w] = 0 /\ intro[w] = 1
      BY <1>p, <1>4, <1>w, <2>1 DEF ProgressOf, MarkIntroSent
    <3>6. LeftOK(w)'
      BY <2>1, <3>4, <3>5 DEF LeftOK, outside
    <3>7. ProgressOf(h)'
      BY <2>1, <3>2, <3>3, <3>4, <3>5 DEF ProgressOf, outside
    <3> QED
      BY <1>p, <1>t, <2>1, <3>2, <3>4, <3>6, <3>7, SendStepInd DEF outside
  <2>3. CASE ~LockSendingClaim(w, n)
    BY <1>p, <1>4, <1>e, <2>1, <2>3 DEF MarkIntroSent
  <2> QED
    BY <2>2, <2>3
<1>5. CASE SendImage(h)
  <2>1. Busy(h) /\ UNCHANGED <<rows, introMarked, worker, intro>>
    BY <1>5 DEF SendImage, Busy, review
  <2>2. PICK c \in {"sent", "reject", "ambiguous"}, k \in 0..1, d \in 0..1 :
           /\ handler' = [handler EXCEPT ![h].pc = c]
           /\ img' = [img EXCEPT ![w] = @ + k]
           /\ delivered' = [delivered EXCEPT ![w] = @ + d]
           /\ d <= k
           /\ c = "sent" => d = 1
           /\ c = "reject" => k = 0
    BY <1>p, <1>5 DEF SendImage
  <2>3. HandlerMoves(h) /\ handler'[h].pc = c
    BY <1>0, <2>1, <2>2, MovePc DEF HandlerPc
  <2>4. handler'[h].item = w
    BY <1>p, <2>2, <2>3 DEF HandlerMoves, Idle
  <2>5. /\ img'[w] = img[w] + k /\ delivered'[w] = delivered[w] + d
        /\ \A v \in WorkItems \ {w} :
              img'[v] = img[v] /\ delivered'[v] = delivered[v]
    BY <1>p, <1>0, <1>w, <2>1, <2>2 DEF TypeOK
  <2>6. /\ img[w] = 0 /\ delivered[w] = 0
        /\ w \in IntroItems => intro[w] = 1 /\ introMarked[w]
    BY <1>p, <1>5, <1>w, <2>1 DEF ProgressOf, SendImage
  <2>7. LeftOK(w)'
    BY <1>w, <2>1, <2>2, <2>5, <2>6 DEF LeftOK
  <2>8. ProgressOf(h)'
    BY <2>1, <2>2, <2>3, <2>4, <2>5, <2>6 DEF ProgressOf
  <2> QED
    BY <1>p, <1>t, <2>1, <2>3, <2>5, <2>7, <2>8, SendStepInd
<1>6. CASE RecordSendSuccess(h) \/ RecordSendFailure(h)
  BY <1>6, <1>t, RecordSendInd DEF RecordSendSuccess, RecordSendFailure, Busy
<1>7. CASE HandlerExit(h)
  BY <1>7, <1>e DEF HandlerExit, Busy, review
<1> QED
  BY <1>1, <1>2, <1>3, <1>4, <1>5, <1>6, <1>7 DEF HandlerStep

-----------------------------------------------------------------------------
(* The environment, and the theorems.                                      *)

LEMMA EnvironmentInd ==
    ASSUME IndInv, NEW w \in WorkItems, ClaimExpires(w) \/ ReviewArtifact(w)
    PROVE  IndInv'
<1>0. /\ TypeOK /\ RowsOK /\ HandlerOwns /\ SoleHandler /\ IdleShape
      /\ Progress /\ ExternalOK
  BY DEF IndInv
<1>t. TypeOK'
  BY <1>0, EnvironmentType
<1>1. UNCHANGED <<att, rid, payload, introMarked, worker, handler, outside>>
  BY DEF ClaimExpires, ReviewArtifact, rows, review
<1>2. RowsOK'
  <2>1. CASE ClaimExpires(w)
    <3>1. wi[w] \in WorkItem /\ wi[w].claim = "live"
      BY <1>0, <2>1 DEF TypeOK, ClaimExpires
    <3>2. wi'[w] = [wi[w] EXCEPT !.claim = "expired"]
      BY <1>0, <2>1 DEF TypeOK, ClaimExpires
    <3>3. /\ wi'[w].status = wi[w].status
          /\ wi'[w].claimedBy = wi[w].claimedBy
          /\ wi'[w].claim = "expired"
      BY <3>1, <3>2 DEF WorkItem
    <3>4. RowOK(w)'
      <4>1. RowOK(w)
        BY <1>0 DEF RowsOK
      <4>2. ClaimShape(w)'
        BY <1>1, <3>1, <3>3, <4>1 DEF RowOK, ClaimShape
      <4>3. OneLive(w)'
        BY <1>1, <3>3, <4>1 DEF RowOK, OneLive, Live
      <4>4. Correlated(w)'
        BY <1>1, <4>1 DEF RowOK, Correlated
      <4> QED
        BY <4>2, <4>3, <4>4 DEF RowOK
    <3>5. ASSUME NEW v \in WorkItems, v # w
          PROVE  RowOK(v)'
      <4>1. wi'[v] = wi[v]
        BY <1>0, <2>1, <3>5 DEF TypeOK, ClaimExpires
      <4> QED
        BY <1>0, <1>1, <1>t, <4>1, RowSame DEF RowsOK
    <3> QED
      BY <3>4, <3>5 DEF RowsOK
  <2>2. CASE ReviewArtifact(w)
    BY <1>0, <1>1, <1>t, <2>2, RowSame DEF ReviewArtifact, RowsOK, rows
  <2> QED
    BY <2>1, <2>2
<1>3. \A v \in WorkItems : Keeps(v)
  BY <1>1 DEF Keeps
<1>4. IdleShape'
  BY <1>0, <1>1 DEF IdleShape, Busy
<1> QED
  BY <1>0, <1>1, <1>2, <1>3, <1>4, <1>t, KeepsOutside DEF IndInv

LEMMA StutterInd ==
    ASSUME IndInv, UNCHANGED vars
    PROVE  IndInv'
<1>0. /\ TypeOK /\ RowsOK /\ HandlerOwns /\ SoleHandler /\ IdleShape
      /\ Progress /\ ExternalOK
  BY DEF IndInv
<1>1. UNCHANGED <<wi, att, rid, payload, approved, introMarked, worker, handler,
                  accepted, img, delivered, intro>>
  BY DEF vars, rows, review, outside
<1>2. TypeOK'
  BY <1>0, <1>1 DEF TypeOK
<1>3. RowsOK'
  BY <1>0, <1>1, <1>2, RowSame DEF RowsOK
<1>4. \A v \in WorkItems : Keeps(v)
  BY <1>1 DEF Keeps
<1>5. IdleShape'
  BY <1>0, <1>1 DEF IdleShape, Busy
<1> QED
  BY <1>0, <1>1, <1>2, <1>3, <1>4, <1>5, KeepsOutside DEF IndInv, outside

LEMMA InitInd == Init => IndInv
<1> SUFFICES ASSUME Init PROVE IndInv
  OBVIOUS
<1>1. TypeOK
  BY InitType
<1>2. \A w \in WorkItems, n \in AttemptNo :
         /\ att[w][n] = "none" /\ payload[w][n] = NoPayload
  BY DEF Init
<1>3. ASSUME NEW w \in WorkItems
      PROVE  RowOK(w)
  <2>1. wi[w] = Queued \/ wi[w] = Claimed(LegacyClaim)
    BY DEF Init
  <2>2. LegacyClaim \notin AttemptNo /\ LegacyClaim # NoClaim
    BY Constants DEF LegacyClaim, NoClaim
  <2>3. ClaimShape(w)
    BY <1>2, <2>1, <2>2, RecordFields DEF ClaimShape, ActiveStatus
  <2> QED
    BY <1>2, <2>3 DEF RowOK, OneLive, Correlated, Live
<1>4. (\A h \in Handlers : ~Busy(h) /\ handler[h].item = NoItem)
      /\ (\A u \in Workers : worker[u].pc = "idle")
  BY DEF Init, Busy, Idle
<1>5. HandlerOwns /\ SoleHandler /\ IdleShape /\ Progress
  BY <1>4 DEF HandlerOwns, SoleHandler, IdleShape, Progress
<1>6. ExternalOK
  BY <1>2 DEF Init, ExternalOK, LeftOK, RecordedOK
<1> QED
  BY <1>1, <1>3, <1>5, <1>6 DEF IndInv, RowsOK

LEMMA NextInd == IndInv /\ [Next]_vars => IndInv'
<1> SUFFICES ASSUME IndInv, [Next]_vars
             PROVE  IndInv'
  OBVIOUS
<1>1. ASSUME NEW u \in Workers, Scan(u)
      PROVE  IndInv'
  BY <1>1, ScanInd DEF Scan
<1>2. ASSUME NEW u \in Workers, WorkerStep(u) \/ WorkerExit(u)
      PROVE  IndInv'
  BY <1>2, WorkerInd
<1>3. ASSUME NEW h \in Handlers,
             HandlerClaim(h) \/ HandlerStep(h) \/ HandlerExit(h)
      PROVE  IndInv'
  BY <1>3, HandlerInd
<1>4. ASSUME NEW w \in WorkItems, ClaimExpires(w) \/ ReviewArtifact(w)
      PROVE  IndInv'
  BY <1>4, EnvironmentInd
<1>5. CASE UNCHANGED vars
  BY <1>5, StutterInd
<1> QED
  BY <1>1, <1>2, <1>3, <1>4, <1>5 DEF Next

(* The inductive invariant holds in every reachable state of the claim,    *)
(* upload, callback and send transactions.                                 *)
THEOREM Inductive == Spec => []IndInv
<1>1. Init => IndInv
  BY InitInd
<1>2. IndInv /\ [Next]_vars => IndInv'
  BY NextInd
<1> QED
  BY <1>1, <1>2, PTL DEF Spec

(* Type correctness of the rows, the processes and the outside counters.   *)
THEOREM TypeCorrect == Spec => []TypeOK
<1>1. IndInv => TypeOK
  BY DEF IndInv
<1> QED
  BY <1>1, Inductive, PTL

(* The `sending` gate is at-most-once: whatever the crashes, expiries,     *)
(* requeues, duplicate callbacks and review changes, at most one sendImage *)
(* request and at most one intro text leave for a work item.               *)
THEOREM AtMostOnce == Spec => []AtMostOnceImage
<1>1. IndInv => AtMostOnceImage
  BY DEF IndInv, ExternalOK, LeftOK, AtMostOnceImage
<1> QED
  BY <1>1, Inductive, PTL

(* A recorded `sent` is true and a delivered image is never denied.        *)
THEOREM Honest == Spec => []OutcomeHonest
<1>1. IndInv => OutcomeHonest
  <2> SUFFICES ASSUME IndInv, NEW w \in WorkItems
               PROVE  /\ \A n \in AttemptNo : att[w][n] = "sent" => delivered[w] = 1
                      /\ delivered[w] > 0 =>
                            \E n \in AttemptNo :
                               att[w][n] \in {"sending", "sent", "ambiguous"}
    BY DEF OutcomeHonest
  <2>1. LeftOK(w) /\ RecordedOK(w)
    BY DEF IndInv, ExternalOK
  <2>2. img[w] \in Nat /\ delivered[w] \in Nat
    BY DEF IndInv, TypeOK
  <2>3. ASSUME delivered[w] > 0
        PROVE  \E n \in AttemptNo :
                  att[w][n] \in {"sending", "sent", "ambiguous"}
    <3>1. img[w] > 0
      BY <2>1, <2>2, <2>3 DEF LeftOK
    <3>2. PICK n \in AttemptNo : Opened(w, n)
      BY <2>1, <3>1 DEF RecordedOK
    <3>3. att[w][n] # "failed"
      BY <2>1, <2>2, <3>1 DEF RecordedOK
    <3> QED
      BY <3>2, <3>3 DEF Opened
  <2> QED
    BY <2>1, <2>3 DEF RecordedOK
<1> QED
  BY <1>1, Inductive, PTL

(* Nothing has left, and no handler is about to send, for an item that is  *)
(* in the queue.                                                           *)
THEOREM QueuedClean == Spec => []QueuedIsClean
<1>1. IndInv => QueuedIsClean
  <2> SUFFICES ASSUME IndInv, NEW w \in WorkItems, wi[w].status = "queued"
               PROVE  /\ img[w] = 0 /\ intro[w] = 0
                      /\ \A h \in Handlers : handler[h].item # w
    BY DEF QueuedIsClean
  <2>1. /\ TypeOK /\ RowOK(w) /\ HandlerOwns /\ IdleShape /\ ExternalOK
    BY DEF IndInv, RowsOK
  <2>2. \A n \in AttemptNo : att[w][n] \notin {"sending", "sent", "failed", "ambiguous"}
    BY <2>1 DEF RowOK, ClaimShape, OneLive, ActiveStatus
  <2>3. \A n \in AttemptNo : ~Opened(w, n)
    BY <2>2 DEF Opened
  <2>4. \A h \in Handlers : handler[h].item # w
    BY <2>1, <2>2, Constants DEF HandlerOwns, IdleShape
  <2> QED
    BY <2>1, <2>3, <2>4, NothingLeft
<1> QED
  BY <1>1, Inductive, PTL

(* Active attempts and processing claims always point at each other.       *)
THEOREM NoneStranded == Spec => []ActiveOwned
<1>1. IndInv => ActiveOwned
  BY DEF IndInv, RowsOK, RowOK, ClaimShape, ActiveOwned
<1> QED
  BY <1>1, Inductive, PTL

(* AgentOS uploads again only after every earlier upload was accepted, has *)
(* its request id on record and expired.                                   *)
THEOREM KnownRetry == Spec => []RetryOnlyKnownUpload
<1>1. IndInv => RetryOnlyKnownUpload
  BY DEF IndInv, RowsOK, RowOK, OneLive, Correlated, RetryOnlyKnownUpload
<1> QED
  BY <1>1, Inductive, PTL

(* An intro item never gets an image without its recorded intro.           *)
THEOREM IntroFirst == Spec => []IntroBeforeImage
<1>1. IndInv => IntroBeforeImage
  BY Constants DEF IndInv, ExternalOK, LeftOK, IntroBeforeImage
<1> QED
  BY <1>1, Inductive, PTL

-----------------------------------------------------------------------------
(* Recorded outcomes are final.                                            *)

(* One step leaves a finished item and its closed attempts as they are.    *)
Final(w) ==
    /\ wi[w].status \in {"completed", "failed"} => wi'[w] = wi[w]
    /\ \A n \in AttemptNo :
          att[w][n] \in ClosedStatus => att'[w][n] = att[w][n]

(* A write to one attempt of an item and to the item itself.               *)
OneWrite(w, n, s, v) ==
    /\ wi' = [wi EXCEPT ![w] = v]
    /\ att' = [att EXCEPT ![w][n] = s]

LEMMA OneWriteFinal ==
    ASSUME TypeOK, NEW v \in WorkItems, NEW n \in AttemptNo, NEW s, NEW x,
           OneWrite(v, n, s, x),
           wi[v].status = "processing", att[v][n] \in ActiveStatus
    PROVE  \A w \in WorkItems : Final(w)
BY DEF TypeOK, OneWrite, Final, ActiveStatus, ClosedStatus

LEMMA ScanFinal ==
    ASSUME IndInv, NEW u \in Workers, NEW S \in SUBSET WorkItems,
           ClaimReadyWorkItem(u, S)
    PROVE  \A w \in WorkItems : Final(w)
<1>1. PICK R \in SUBSET S :
         /\ ReconcileSet(R, S)
         /\ CommitReconciliation(S, R) \/ CommitClaim(u, S, R)
  BY DEF ClaimReadyWorkItem
<1>2. \A w \in R : wi[w].status = "processing"
  BY <1>1 DEF ReconcileSet, Stale
<1>3. \A w \in WorkItems :
         wi[w].status \in {"completed", "failed"} => ItemAfter(R, w) = wi[w]
  BY <1>2 DEF ItemAfter
<1>4. \A w \in WorkItems, n \in AttemptNo :
         att[w][n] \in ClosedStatus => AttemptAfter(R, w, n) = att[w][n]
  BY <1>2 DEF AttemptAfter, IndInv, RowsOK, RowOK, ClaimShape,
              ActiveStatus, ClosedStatus
<1>5. CASE CommitReconciliation(S, R)
  BY <1>3, <1>4, <1>5 DEF CommitReconciliation, Final
<1>6. CASE CommitClaim(u, S, R)
  <2>1. PICK c \in S, n \in AttemptNo :
           /\ Claimable(R, c)
           /\ NextAttempt(c, n)
           /\ wi' = [w \in WorkItems |->
                        IF w = c THEN Claimed(n) ELSE ItemAfter(R, w)]
           /\ att' = [w \in WorkItems |-> [k \in AttemptNo |->
                         IF w = c /\ k = n
                         THEN "uploading"
                         ELSE AttemptAfter(R, w, k)]]
    BY <1>6 DEF CommitClaim
  <2>2. wi[c].status \notin {"completed", "failed"}
    BY <2>1, <1>2 DEF Claimable, ItemAfter
  <2>3. att[c][n] = "none"
    BY <2>1, Constants DEF NextAttempt, AttemptNo
  <2> QED
    BY <2>1, <2>2, <2>3, <1>3, <1>4 DEF Final, ClosedStatus
<1> QED
  BY <1>1, <1>5, <1>6

LEMMA WorkerFinal ==
    ASSUME IndInv, NEW u \in Workers, WorkerStep(u) \/ WorkerExit(u)
    PROVE  \A w \in WorkItems : Final(w)
<1>1. PICK w, n : w = worker[u].item /\ n = worker[u].no
  OBVIOUS
<1>2. worker[u].pc # "idle" => w \in WorkItems /\ n \in AttemptNo
  BY <1>1 DEF IndInv, IdleShape
<1>3. CASE wi' = wi /\ att' = att
  BY <1>3 DEF Final
<1>4. CASE RecordUploadAcceptance(u) /\ ~(wi' = wi /\ att' = att)
  <2>1. /\ w \in WorkItems /\ n \in AttemptNo
        /\ att[w][n] = "uploading"
        /\ att' = [att EXCEPT ![w][n] = "awaiting_callback"]
        /\ wi' = wi
    BY <1>1, <1>2, <1>4 DEF RecordUploadAcceptance
  <2> QED
    BY <2>1 DEF Final, IndInv, TypeOK, ClosedStatus
<1>5. CASE RecordUploadFailure(u) /\ ~(wi' = wi /\ att' = att)
  <2>1. /\ w \in WorkItems /\ n \in AttemptNo
        /\ wi[w].status = "processing" /\ att[w][n] \in ActiveStatus
    BY <1>1, <1>2, <1>5
       DEF RecordUploadFailure, LockCurrentClaim, Claimed, ActiveStatus
  <2>2. PICK s : OneWrite(w, n, s, Failed)
    <3>1. att' = [att EXCEPT ![w][n] = IF worker[u].pc = "rejected"
                                       THEN "failed" ELSE "ambiguous"]
      BY <1>1, <1>5 DEF RecordUploadFailure
    <3>2. wi' = [wi EXCEPT ![w] = Failed]
      BY <1>1, <1>5 DEF RecordUploadFailure
    <3> QED
      BY <3>1, <3>2 DEF OneWrite
  <2> QED
    BY <2>1, <2>2, OneWriteFinal DEF IndInv
<1> QED
  BY <1>3, <1>4, <1>5
     DEF WorkerStep, WorkerExit, PrepareBytes, RequestUpload, rows

LEMMA HandlerFinal ==
    ASSUME IndInv, NEW h \in Handlers,
           HandlerClaim(h) \/ HandlerStep(h) \/ HandlerExit(h)
    PROVE  \A w \in WorkItems : Final(w)
<1>1. CASE wi' = wi /\ att' = att
  BY <1>1 DEF Final
<1>2. CASE HandlerClaim(h)
  <2>1. PICK w \in WorkItems, n \in AttemptNo, p \in Payloads :
           OpenSendGate(h, w, n, p) \/ ExpireLateCallback(h, w, n, p)
    BY <1>2 DEF HandlerClaim
  <2>2. /\ wi[w].status = "processing" /\ att[w][n] \in ActiveStatus
        /\ \E s, x : OneWrite(w, n, s, x)
    BY <2>1 DEF OpenSendGate, ExpireLateCallback, Callback,
                LockCallbackPolicy, ActiveStatus, OneWrite
  <2> QED
    BY <2>2, OneWriteFinal DEF IndInv
<1>3. ASSUME NEW s, NEW x, Busy(h), RecordSend(h, s, x),
             ~(wi' = wi /\ att' = att)
      PROVE  \A w \in WorkItems : Final(w)
  <2>1. PICK w \in WorkItems, n \in AttemptNo :
           w = handler[h].item /\ n = handler[h].no
    BY <1>3 DEF IndInv, HandlerOwns
  <2>2. /\ wi[w].status = "processing" /\ att[w][n] \in ActiveStatus
        /\ OneWrite(w, n, s, x)
    BY <2>1, <1>3 DEF RecordSend, LockSendingClaim, ActiveStatus, OneWrite
  <2> QED
    BY <2>2, OneWriteFinal DEF IndInv
<1>4. CASE RecordSendSuccess(h) \/ RecordSendFailure(h)
  BY <1>1, <1>3, <1>4 DEF RecordSendSuccess, RecordSendFailure, Busy
<1> QED
  BY <1>1, <1>2, <1>4
     DEF HandlerStep, HandlerExit, ProbeIntro, SendIntro, MarkIntroSent,
         SendImage, rows

(* No step rewrites a closed attempt or a finished work item: a handler or *)
(* worker that reports late, and a scan that reconciles, find the claim    *)
(* they need gone.                                                         *)
THEOREM OutcomesFinal == Spec => OutcomesAreFinal
<1>1. ASSUME IndInv, [Next]_vars
      PROVE  \A w \in WorkItems : Final(w)
  <2>1. CASE UNCHANGED vars
    BY <2>1 DEF vars, rows, Final
  <2>2. ASSUME NEW u \in Workers, Scan(u)
        PROVE  \A w \in WorkItems : Final(w)
    BY <1>1, <2>2, ScanFinal DEF Scan
  <2>3. ASSUME NEW v \in WorkItems, ClaimExpires(v) \/ ReviewArtifact(v)
        PROVE  \A w \in WorkItems : Final(w)
    <3>1. CASE ReviewArtifact(v)
      BY <3>1 DEF ReviewArtifact, rows, Final
    <3>2. CASE ClaimExpires(v)
      <4>1. wi[v].status = "processing"
        BY <1>1, <3>2 DEF ClaimExpires, IndInv, RowsOK, RowOK, ClaimShape
      <4>2. /\ att' = att
            /\ \A w \in WorkItems : w # v => wi'[w] = wi[w]
        BY <1>1, <3>2 DEF ClaimExpires, IndInv, TypeOK
      <4> QED
        BY <4>1, <4>2 DEF Final
    <3> QED
      BY <2>3, <3>1, <3>2
  <2> QED
    BY <1>1, <2>1, <2>2, <2>3, WorkerFinal, HandlerFinal DEF Next
<1>2. IndInv /\ [Next]_vars =>
         [\A w \in WorkItems :
             /\ wi[w].status \in {"completed", "failed"} => wi'[w] = wi[w]
             /\ \A n \in AttemptNo :
                   att[w][n] \in ClosedStatus => att'[w][n] = att[w][n]]_vars
  BY <1>1 DEF Final
<1> QED
  BY <1>2, Inductive, PTL DEF Spec, OutcomesAreFinal

-----------------------------------------------------------------------------
(* The abstract phase and gate of a work item, as functions of its row of  *)
(* attempt statuses a, its callback payloads p and its own status st.      *)
PhaseFor(a, st) ==
    IF \E n \in AttemptNo : a[n] = "sending" THEN "open"
    ELSE IF \E n \in AttemptNo : a[n] = "sent" THEN "sent"
    ELSE IF \E n \in AttemptNo : a[n] = "failed" THEN "denied"
    ELSE IF st = "failed" THEN "unknown"
    ELSE "closed"

GateFor(a, p) ==
    \E n \in AttemptNo : p[n] # NoPayload /\ a[n] # "expired"

LEMMA GateValue ==
    ASSUME NEW w \in WorkItems
    PROVE  /\ GateOf(w) = [phase |-> PhaseFor(att[w], wi[w].status),
                           gate |-> GateFor(att[w], payload[w]),
                           calls |-> img[w], effect |-> delivered[w]]
           /\ GateOf(w)' = [phase |-> PhaseFor(att'[w], wi'[w].status),
                            gate |-> GateFor(att'[w], payload'[w]),
                            calls |-> img'[w], effect |-> delivered'[w]]
BY DEF GateOf, PhaseFor, GateFor

(* What the inductive invariant says about the row of one item.            *)
Shape(a, p, st) ==
    /\ \A m, n \in AttemptNo :
          a[m] \notin {"none", "expired"} /\ a[n] \notin {"none", "expired"} => m = n
    /\ \A n \in AttemptNo :
          /\ a[n] \in AttemptStatus
          /\ a[n] = "sent" => st = "completed"
          /\ a[n] \in {"failed", "ambiguous"} => st = "failed"
          /\ a[n] \in ActiveStatus => st = "processing"
          /\ a[n] \in {"none", "uploading", "awaiting_callback"} => p[n] = NoPayload

LEMMA RowShape ==
    /\ IndInv => \A w \in WorkItems : Shape(att[w], payload[w], wi[w].status)
    /\ IndInv' => \A w \in WorkItems : Shape(att'[w], payload'[w], wi'[w].status)
<1>1. IndInv => \A w \in WorkItems : Shape(att[w], payload[w], wi[w].status)
  BY DEF IndInv, TypeOK, RowsOK, RowOK, ClaimShape, OneLive, Live, Correlated,
         Shape, ActiveStatus
<1>2. IndInv' => \A w \in WorkItems : Shape(att'[w], payload'[w], wi'[w].status)
  BY DEF IndInv, TypeOK, RowsOK, RowOK, ClaimShape, OneLive, Live, Correlated,
         Shape, ActiveStatus
<1> QED
  BY <1>1, <1>2

(* The phase follows the one live attempt.                                 *)
LEMMA LivePhase ==
    ASSUME NEW a, NEW p, NEW st, Shape(a, p, st), NEW n \in AttemptNo
    PROVE  /\ a[n] = "sending" => PhaseFor(a, st) = "open"
           /\ a[n] = "sent" => PhaseFor(a, st) = "sent"
           /\ a[n] = "failed" => PhaseFor(a, st) = "denied"
           /\ a[n] = "ambiguous" => PhaseFor(a, st) = "unknown"
           /\ a[n] \in {"uploading", "awaiting_callback"} => PhaseFor(a, st) = "closed"
BY DEF Shape, PhaseFor, ActiveStatus

LEMMA NoLivePhase ==
    ASSUME NEW a, NEW p, NEW st, Shape(a, p, st),
           \A n \in AttemptNo : a[n] \in {"none", "expired"}
    PROVE  PhaseFor(a, st) = IF st = "failed" THEN "unknown" ELSE "closed"
BY DEF Shape, PhaseFor

LEMMA QueuedPhase ==
    ASSUME NEW a, NEW p, Shape(a, p, "queued")
    PROVE  PhaseFor(a, "queued") = "closed"
BY DEF Shape, PhaseFor, ActiveStatus

(* While an item is closed its gate has not been opened.                   *)
LEMMA ClosedGate ==
    ASSUME NEW a, NEW p, NEW st, Shape(a, p, st), PhaseFor(a, st) = "closed"
    PROVE  GateFor(a, p) = FALSE
BY DEF Shape, PhaseFor, GateFor, AttemptStatus, ActiveStatus, ClosedStatus

-----------------------------------------------------------------------------
(* The steps of one item.                                                  *)

GateStep(w) ==
    \/ GateOf(w)' = GateOf(w)
    \/ Gate!JobStep(GateOf(w), GateOf(w)')

Unsent(w) == img'[w] = img[w] /\ delivered'[w] = delivered[w]

LEMMA SameRow ==
    ASSUME NEW w \in WorkItems, Unsent(w), att'[w] = att[w],
           wi'[w].status = wi[w].status, payload'[w] = payload[w]
    PROVE  GateStep(w)
BY GateValue DEF GateStep, Unsent

LEMMA StayClosed ==
    ASSUME IndInv, IndInv', NEW w \in WorkItems, Unsent(w),
           PhaseFor(att[w], wi[w].status) = "closed",
           PhaseFor(att'[w], wi'[w].status) = "closed"
    PROVE  GateStep(w)
<1>1. GateFor(att[w], payload[w]) = FALSE
  BY RowShape, ClosedGate
<1>2. GateFor(att'[w], payload'[w]) = FALSE
  BY RowShape, ClosedGate
<1> QED
  BY <1>1, <1>2, GateValue DEF GateStep, Unsent

(* The item leaves `closed` or `open` for another phase, its gate and what *)
(* has left staying as they are.                                           *)
LEMMA PhaseStep ==
    ASSUME NEW w \in WorkItems, Unsent(w),
           GateFor(att'[w], payload'[w]) = GateFor(att[w], payload[w]),
           PhaseFor(att[w], wi[w].status) \in {"closed", "open"},
           \/ PhaseFor(att'[w], wi'[w].status) = "unknown"
           \/ PhaseFor(att'[w], wi'[w].status) = "denied" /\ img[w] = 0
           \/ /\ PhaseFor(att'[w], wi'[w].status) = "sent"
              /\ PhaseFor(att[w], wi[w].status) = "open"
              /\ delivered[w] = 1
    PROVE  GateStep(w)
<1>1. GateOf(w)' = [GateOf(w) EXCEPT !.phase = PhaseFor(att'[w], wi'[w].status)]
  BY GateValue DEF Unsent
<1>2. /\ GateOf(w).phase = PhaseFor(att[w], wi[w].status)
      /\ GateOf(w).calls = img[w]
      /\ GateOf(w).effect = delivered[w]
  BY GateValue
<1> QED
  BY <1>1, <1>2
     DEF GateStep, Gate!JobStep, Gate!GiveUp, Gate!Deny, Gate!Confirm

(* Writing a status other than `expired` keeps the gate as it is.          *)
LEMMA SameGate ==
    ASSUME NEW w \in WorkItems, NEW n \in AttemptNo,
           payload'[w] = payload[w],
           att[w][n] # "expired", att'[w][n] # "expired",
           \A k \in AttemptNo : k # n => att'[w][k] = att[w][k]
    PROVE  GateFor(att'[w], payload'[w]) = GateFor(att[w], payload[w])
BY DEF GateFor

LEMMA SettledGate ==
    ASSUME IndInv, IndInv', NEW w \in WorkItems, NEW R, w \in R, Stale(w),
           Unsent(w), payload' = payload,
           wi'[w] = SettledItem(w),
           \A n \in AttemptNo : att'[w][n] = AttemptAfter(R, w, n)
    PROVE  GateStep(w)
<1>1. CASE wi[w].claimedBy = LegacyClaim
  <2>1. \A n \in AttemptNo : wi[w].claimedBy # n
    BY <1>1, Constants DEF LegacyClaim, AttemptNo
  <2>2. att'[w] = att[w]
    <3>1. \A n \in AttemptNo : att'[w][n] = att[w][n]
      BY <2>1 DEF AttemptAfter
    <3>2. att[w] \in [AttemptNo -> AttemptStatus]
          /\ att'[w] \in [AttemptNo -> AttemptStatus]
      BY DEF IndInv, TypeOK
    <3> QED
      BY <3>1, <3>2
  <2>3. \A n \in AttemptNo : att[w][n] \in {"none", "expired"}
    <3>1. ClaimShape(w) /\ wi[w].status = "processing"
      BY DEF IndInv, RowsOK, RowOK, Stale
    <3>2. \A n \in AttemptNo : att[w][n] \notin ActiveStatus
      BY <2>1, <3>1 DEF ClaimShape
    <3>3. Shape(att[w], payload[w], wi[w].status)
      BY RowShape
    <3> QED
      BY <3>1, <3>2, <3>3 DEF Shape, AttemptStatus, ActiveStatus, ClosedStatus
  <2>4. wi'[w].status = "failed" /\ wi[w].status = "processing"
    BY <1>1 DEF SettledItem, StaleKind, Failed, Stale
  <2>5. /\ PhaseFor(att[w], wi[w].status) = "closed"
        /\ PhaseFor(att'[w], wi'[w].status) = "unknown"
    BY <2>2, <2>3, <2>4, RowShape, NoLivePhase
  <2> QED
    BY <2>2, <2>5, PhaseStep
<1>2. CASE wi[w].claimedBy # LegacyClaim
  <2>1. PICK n \in AttemptNo : n = wi[w].claimedBy /\ att[w][n] \in ActiveStatus
    BY <1>2 DEF IndInv, TypeOK, WorkItem, RowsOK, RowOK, ClaimShape, Stale
  <2>2. StaleKind(w) = att[w][n]
    BY <1>2, <2>1 DEF StaleKind
  <2>3. /\ att'[w][n] = SettledStatus(w)
        /\ \A k \in AttemptNo : k # n => att'[w][k] = att[w][k]
    BY <2>1 DEF AttemptAfter
  <2>4. CASE att[w][n] = "awaiting_callback"
    <3>1. wi'[w].status = "queued"
      BY <2>2, <2>4 DEF SettledItem, Queued
    <3>2. /\ PhaseFor(att[w], wi[w].status) = "closed"
          /\ PhaseFor(att'[w], wi'[w].status) = "closed"
      BY <2>4, <3>1, RowShape, LivePhase, QueuedPhase
    <3> QED
      BY <3>2, StayClosed
  <2>5. CASE att[w][n] \in {"uploading", "sending"}
    <3>1. att'[w][n] = "ambiguous"
      BY <2>2, <2>3, <2>5 DEF SettledStatus
    <3>2. /\ PhaseFor(att[w], wi[w].status) \in {"closed", "open"}
          /\ PhaseFor(att'[w], wi'[w].status) = "unknown"
      BY <2>5, <3>1, RowShape, LivePhase
    <3> QED
      BY <2>3, <2>5, <3>1, <3>2, SameGate, PhaseStep
  <2> QED
    BY <2>1, <2>4, <2>5 DEF ActiveStatus
<1> QED
  BY <1>1, <1>2

LEMMA ScanGate ==
    ASSUME IndInv, IndInv', NEW u \in Workers, NEW S \in SUBSET WorkItems,
           ClaimReadyWorkItem(u, S), NEW w \in WorkItems
    PROVE  GateStep(w)
<1>1. PICK R \in SUBSET S :
         /\ ReconcileSet(R, S)
         /\ CommitReconciliation(S, R) \/ CommitClaim(u, S, R)
  BY DEF ClaimReadyWorkItem
<1>2. \A v \in R : Stale(v)
  BY <1>1 DEF ReconcileSet
<1>3. Unsent(w) /\ payload' = payload
  BY DEF ClaimReadyWorkItem, Unsent, outside
<1>4. ASSUME wi'[w] = ItemAfter(R, w),
             \A n \in AttemptNo : att'[w][n] = AttemptAfter(R, w, n)
      PROVE  GateStep(w)
  <2>1. CASE w \in R
    BY <1>2, <1>3, <1>4, <2>1, SettledGate DEF ItemAfter
  <2>2. CASE w \notin R
    <3>1. wi'[w] = wi[w] /\ att'[w] = att[w]
      BY <1>4, <2>2 DEF ItemAfter, AttemptAfter, IndInv, TypeOK
    <3> QED
      BY <1>3, <3>1, SameRow
  <2> QED
    BY <2>1, <2>2
<1>5. CASE CommitReconciliation(S, R)
  BY <1>4, <1>5 DEF CommitReconciliation
<1>6. CASE CommitClaim(u, S, R)
  <2>1. PICK c \in S, n \in AttemptNo :
           /\ Claimable(R, c)
           /\ wi' = [v \in WorkItems |->
                        IF v = c THEN Claimed(n) ELSE ItemAfter(R, v)]
           /\ att' = [v \in WorkItems |-> [k \in AttemptNo |->
                         IF v = c /\ k = n
                         THEN "uploading"
                         ELSE AttemptAfter(R, v, k)]]
    BY <1>6 DEF CommitClaim
  <2>2. CASE w # c
    BY <1>4, <2>1, <2>2
  <2>3. CASE w = c
    <3>1. att'[w][n] = "uploading"
      BY <2>1, <2>3
    <3>2. PhaseFor(att'[w], wi'[w].status) = "closed"
      BY <3>1, RowShape, LivePhase
    <3>3. PhaseFor(att[w], wi[w].status) = "closed"
      <4>1. CASE w \in R
        <5>1. StaleKind(w) = "awaiting_callback"
          BY <2>1, <2>3, <4>1 DEF Claimable, ItemAfter, SettledItem, Failed
        <5>2. wi[w].claimedBy # LegacyClaim
          BY <5>1 DEF StaleKind
        <5>3. \E k \in AttemptNo : att[w][k] = "awaiting_callback"
          BY <5>1, <5>2, <4>1, <1>2
             DEF StaleKind, IndInv, TypeOK, WorkItem, RowsOK, RowOK, ClaimShape, Stale
        <5> QED
          BY <5>3, RowShape, LivePhase
      <4>2. CASE w \notin R
        BY <2>1, <2>3, <4>2, RowShape, QueuedPhase DEF Claimable, ItemAfter
      <4> QED
        BY <4>1, <4>2
    <3> QED
      BY <1>3, <3>2, <3>3, StayClosed
  <2> QED
    BY <2>2, <2>3
<1> QED
  BY <1>1, <1>5, <1>6

LEMMA WorkerGate ==
    ASSUME IndInv, IndInv', NEW u \in Workers, WorkerStep(u) \/ WorkerExit(u),
           NEW w \in WorkItems
    PROVE  GateStep(w)
<1>1. Unsent(w) /\ payload' = payload
  BY DEF WorkerStep, WorkerExit, PrepareBytes, RequestUpload,
         RecordUploadAcceptance, RecordUploadFailure, Unsent, rows, outside
<1>2. CASE wi' = wi /\ att' = att
  BY <1>1, <1>2, SameRow
<1>3. PICK v, n : v = worker[u].item /\ n = worker[u].no
  OBVIOUS
<1>4. worker[u].pc # "idle" => v \in WorkItems /\ n \in AttemptNo
  BY <1>3 DEF IndInv, IdleShape
<1>5. CASE RecordUploadAcceptance(u) /\ ~(wi' = wi /\ att' = att)
  <2>1. /\ v \in WorkItems /\ n \in AttemptNo
        /\ att[v][n] = "uploading"
        /\ att' = [att EXCEPT ![v][n] = "awaiting_callback"]
        /\ wi' = wi
    BY <1>3, <1>4, <1>5 DEF RecordUploadAcceptance
  <2>2. CASE w # v
    <3>1. att'[w] = att[w]
      BY <2>1, <2>2 DEF IndInv, TypeOK
    <3> QED
      BY <1>1, <2>1, <3>1, SameRow
  <2>3. CASE w = v
    <3>1. att'[w][n] = "awaiting_callback"
      BY <2>1, <2>3 DEF IndInv, TypeOK
    <3>2. /\ PhaseFor(att[w], wi[w].status) = "closed"
          /\ PhaseFor(att'[w], wi'[w].status) = "closed"
      BY <2>1, <2>3, <3>1, RowShape, LivePhase
    <3> QED
      BY <1>1, <3>2, StayClosed
  <2> QED
    BY <2>2, <2>3
<1>6. CASE RecordUploadFailure(u) /\ ~(wi' = wi /\ att' = att)
  <2>1. /\ v \in WorkItems /\ n \in AttemptNo
        /\ att[v][n] = "uploading"
        /\ wi' = [wi EXCEPT ![v] = Failed]
    BY <1>3, <1>4, <1>6 DEF RecordUploadFailure
  <2>2. PICK s \in {"failed", "ambiguous"} : att' = [att EXCEPT ![v][n] = s]
    BY <1>3, <1>6 DEF RecordUploadFailure
  <2>3. CASE w # v
    <3>1. wi'[w] = wi[w] /\ att'[w] = att[w]
      BY <2>1, <2>2, <2>3 DEF IndInv, TypeOK
    <3> QED
      BY <1>1, <3>1, SameRow
  <2>4. CASE w = v
    <3>1. /\ att'[w][n] = s
          /\ \A k \in AttemptNo : k # n => att'[w][k] = att[w][k]
      BY <2>1, <2>2, <2>4 DEF IndInv, TypeOK
    <3>2. /\ PhaseFor(att[w], wi[w].status) = "closed"
          /\ s = "failed" => PhaseFor(att'[w], wi'[w].status) = "denied"
          /\ s = "ambiguous" => PhaseFor(att'[w], wi'[w].status) = "unknown"
      BY <2>1, <2>4, <3>1, RowShape, LivePhase
    <3>3. img[w] = 0
      BY <2>1, <2>4, BeforeGate DEF IndInv, RowsOK
    <3> QED
      BY <1>1, <2>1, <2>2, <2>4, <3>1, <3>2, <3>3, SameGate, PhaseStep
  <2> QED
    BY <2>3, <2>4
<1> QED
  BY <1>2, <1>5, <1>6
     DEF WorkerStep, WorkerExit, PrepareBytes, RequestUpload, rows

LEMMA CallbackGate ==
    ASSUME IndInv, IndInv', NEW h \in Handlers, NEW v \in WorkItems,
           NEW n \in AttemptNo, NEW p \in Payloads,
           OpenSendGate(h, v, n, p) \/ ExpireLateCallback(h, v, n, p),
           NEW w \in WorkItems
    PROVE  GateStep(w)
<1>1. /\ Unsent(w)
      /\ att[v][n] = "awaiting_callback"
      /\ payload' = [payload EXCEPT ![v][n] = p]
  BY DEF OpenSendGate, ExpireLateCallback, Callback, Unsent, outside
<1>2. PICK s \in {"sending", "expired"}, x \in {Claimed(n), Queued} :
         /\ att' = [att EXCEPT ![v][n] = s]
         /\ wi' = [wi EXCEPT ![v] = x]
         /\ s = "expired" => x = Queued
  BY DEF OpenSendGate, ExpireLateCallback
<1>3. CASE w # v
  <2>1. wi'[w] = wi[w] /\ att'[w] = att[w] /\ payload'[w] = payload[w]
    BY <1>1, <1>2, <1>3 DEF IndInv, TypeOK
  <2> QED
    BY <1>1, <2>1, SameRow
<1>4. CASE w = v
  <2>1. PhaseFor(att[w], wi[w].status) = "closed"
    BY <1>1, <1>4, RowShape, LivePhase
  <2>2. att'[w][n] = s /\ payload'[w][n] = p /\ wi'[w] = x
    BY <1>1, <1>2, <1>4 DEF IndInv, TypeOK
  <2>3. CASE s = "expired"
    <3>1. wi'[w].status = "queued"
      BY <1>2, <2>2, <2>3 DEF Queued
    <3>2. PhaseFor(att'[w], wi'[w].status) = "closed"
      BY <3>1, RowShape, QueuedPhase
    <3> QED
      BY <1>1, <2>1, <3>2, StayClosed
  <2>4. CASE s = "sending"
    <3>1. PhaseFor(att'[w], wi'[w].status) = "open"
      BY <2>2, <2>4, RowShape, LivePhase
    <3>2. GateFor(att'[w], payload'[w]) = TRUE
      BY <2>2, <2>4, Constants DEF GateFor
    <3>3. GateOf(w)' = [phase |-> "open", gate |-> TRUE,
                        calls |-> img[w], effect |-> delivered[w]]
      BY <1>1, <3>1, <3>2, GateValue DEF Unsent
    <3>4. /\ GateOf(w).phase = "closed"
          /\ GateOf(w).calls = img[w]
          /\ GateOf(w).effect = delivered[w]
      BY <2>1, GateValue
    <3> QED
      BY <3>3, <3>4 DEF GateStep, Gate!JobStep, Gate!Open
  <2> QED
    BY <1>2, <2>3, <2>4
<1> QED
  BY <1>3, <1>4

(* A busy handler's item is open, or was reconciled behind the open gate.  *)
LEMMA BusyGate ==
    ASSUME IndInv, NEW h \in Handlers, Busy(h),
           NEW w \in WorkItems, w = handler[h].item
    PROVE  /\ PhaseFor(att[w], wi[w].status) \in {"open", "unknown"}
           /\ GateFor(att[w], payload[w]) = TRUE
<1>1. PICK n \in AttemptNo :
         att[w][n] \in {"sending", "ambiguous"} /\ payload[w][n] # NoPayload
  BY DEF IndInv, HandlerOwns
<1>2. PhaseFor(att[w], wi[w].status) \in {"open", "unknown"}
  BY <1>1, RowShape, LivePhase
<1> QED
  BY <1>1, <1>2 DEF GateFor

LEMMA SendImageGate ==
    ASSUME IndInv, NEW h \in Handlers, SendImage(h), NEW w \in WorkItems
    PROVE  GateStep(w)
<1>1. PICK v \in WorkItems : v = handler[h].item
  BY DEF IndInv, HandlerOwns, Busy, SendImage
<1>2. PICK k \in 0..1, d \in 0..1 :
         /\ d <= k
         /\ img' = [img EXCEPT ![v] = @ + k]
         /\ delivered' = [delivered EXCEPT ![v] = @ + d]
  BY <1>1 DEF SendImage
<1>3. wi' = wi /\ att' = att /\ payload' = payload
  BY DEF SendImage, rows
<1>4. CASE w # v
  <2>1. Unsent(w)
    BY <1>2, <1>4 DEF Unsent, IndInv, TypeOK
  <2> QED
    BY <1>3, <2>1, SameRow
<1>5. CASE w = v
  <2>1. Busy(h) /\ img[w] = 0 /\ delivered[w] = 0
    BY <1>1, <1>5 DEF SendImage, Busy, IndInv, Progress, ProgressOf
  <2>2. img'[w] = k /\ delivered'[w] = d
    BY <1>2, <1>5, <2>1 DEF IndInv, TypeOK
  <2>3. CASE k = 0
    <3>1. Unsent(w)
      BY <1>2, <2>1, <2>2, <2>3 DEF Unsent
    <3> QED
      BY <1>3, <3>1, SameRow
  <2>4. CASE k = 1
    <3>1. PICK f \in {"open", "unknown"} : PhaseFor(att[w], wi[w].status) = f
      BY <1>1, <1>5, <2>1, BusyGate
    <3>2. GateFor(att[w], payload[w]) = TRUE
      BY <1>1, <1>5, <2>1, BusyGate
    <3>3. GateOf(w) = [phase |-> f, gate |-> TRUE, calls |-> 0, effect |-> 0]
      BY <2>1, <3>1, <3>2, GateValue
    <3>4. GateOf(w)' = [phase |-> f, gate |-> TRUE, calls |-> 1, effect |-> d]
      BY <1>3, <2>2, <2>4, <3>1, <3>2, GateValue
    <3>5. GateOf(w).phase = f /\ GateOf(w).gate /\ GateOf(w).calls = 0
      BY <3>3
    <3> QED
      BY <3>4, <3>5 DEF GateStep, Gate!JobStep, Gate!Call
  <2> QED
    BY <2>3, <2>4
<1> QED
  BY <1>4, <1>5

LEMMA RecordSendGate ==
    ASSUME IndInv, IndInv', NEW h \in Handlers, NEW s, NEW x,
           RecordSend(h, s, x),
           \/ handler[h].pc = "sent" /\ s = "sent"
           \/ handler[h].pc = "reject" /\ s = "failed"
           \/ handler[h].pc = "ambiguous" /\ s = "ambiguous",
           NEW w \in WorkItems
    PROVE  GateStep(w)
<1>1. Unsent(w) /\ payload' = payload
  BY DEF RecordSend, Unsent, outside
<1>2. PICK v \in WorkItems, n \in AttemptNo :
         v = handler[h].item /\ n = handler[h].no
  BY DEF IndInv, HandlerOwns, Busy
<1>3. CASE ~LockSendingClaim(v, n)
  <2>1. wi' = wi /\ att' = att
    BY <1>2, <1>3 DEF RecordSend
  <2> QED
    BY <1>1, <2>1, SameRow
<1>4. CASE LockSendingClaim(v, n)
  <2>1. /\ att[v][n] = "sending"
        /\ att' = [att EXCEPT ![v][n] = s]
        /\ wi' = [wi EXCEPT ![v] = x]
    BY <1>2, <1>4 DEF RecordSend, LockSendingClaim
  <2>2. CASE w # v
    <3>1. wi'[w] = wi[w] /\ att'[w] = att[w]
      BY <2>1, <2>2 DEF IndInv, TypeOK
    <3> QED
      BY <1>1, <3>1, SameRow
  <2>3. CASE w = v
    <3>1. /\ att'[w][n] = s
          /\ \A k \in AttemptNo : k # n => att'[w][k] = att[w][k]
      BY <2>1, <2>3 DEF IndInv, TypeOK
    <3>2. /\ PhaseFor(att[w], wi[w].status) = "open"
          /\ s = "sent" => PhaseFor(att'[w], wi'[w].status) = "sent"
          /\ s = "failed" => PhaseFor(att'[w], wi'[w].status) = "denied"
          /\ s = "ambiguous" => PhaseFor(att'[w], wi'[w].status) = "unknown"
      BY <2>1, <2>3, <3>1, RowShape, LivePhase
    <3>3. /\ s = "sent" => delivered[w] = 1
          /\ s = "failed" => img[w] = 0
      BY <1>2, <2>3 DEF IndInv, Progress, ProgressOf, Busy
    <3>4. GateFor(att'[w], payload'[w]) = GateFor(att[w], payload[w])
      BY <1>1, <2>1, <2>3, <3>1, SameGate
    <3> QED
      BY <1>1, <3>2, <3>3, <3>4, PhaseStep
  <2> QED
    BY <2>2, <2>3
<1> QED
  BY <1>3, <1>4

LEMMA HandlerGate ==
    ASSUME IndInv, IndInv', NEW h \in Handlers,
           HandlerClaim(h) \/ HandlerStep(h) \/ HandlerExit(h),
           NEW w \in WorkItems
    PROVE  GateStep(w)
<1>1. CASE HandlerClaim(h)
  BY <1>1, CallbackGate DEF HandlerClaim
<1>2. CASE ProbeIntro(h) \/ SendIntro(h) \/ MarkIntroSent(h) \/ HandlerExit(h)
  <2>1. Unsent(w) /\ wi' = wi /\ att' = att /\ payload' = payload
    BY <1>2 DEF ProbeIntro, SendIntro, MarkIntroSent, HandlerExit, Unsent,
                rows, outside
  <2> QED
    BY <2>1, SameRow
<1>3. CASE SendImage(h)
  BY <1>3, SendImageGate
<1>4. CASE RecordSendSuccess(h) \/ RecordSendFailure(h)
  BY <1>4, RecordSendGate DEF RecordSendSuccess, RecordSendFailure
<1> QED
  BY <1>1, <1>2, <1>3, <1>4 DEF HandlerStep

LEMMA NextGate ==
    ASSUME IndInv, IndInv', [Next]_vars, NEW w \in WorkItems
    PROVE  GateStep(w)
<1>1. ASSUME NEW u \in Workers, Scan(u)
      PROVE  GateStep(w)
  BY <1>1, ScanGate DEF Scan
<1>2. ASSUME NEW u \in Workers, WorkerStep(u) \/ WorkerExit(u)
      PROVE  GateStep(w)
  BY <1>2, WorkerGate
<1>3. ASSUME NEW h \in Handlers,
             HandlerClaim(h) \/ HandlerStep(h) \/ HandlerExit(h)
      PROVE  GateStep(w)
  BY <1>3, HandlerGate
<1>4. ASSUME NEW v \in WorkItems, ClaimExpires(v) \/ ReviewArtifact(v)
      PROVE  GateStep(w)
  <2>1. Unsent(w) /\ att' = att /\ payload' = payload
    BY <1>4 DEF ClaimExpires, ReviewArtifact, Unsent, rows, outside
  <2>2. wi'[w].status = wi[w].status
    <3>1. CASE ReviewArtifact(v)
      BY <3>1 DEF ReviewArtifact, rows
    <3>2. CASE ClaimExpires(v)
      <4>1. wi' = [wi EXCEPT ![v] = [wi[v] EXCEPT !.claim = "expired"]]
        BY <3>2 DEF ClaimExpires
      <4>2. [wi[v] EXCEPT !.claim = "expired"].status = wi[v].status
        BY DEF IndInv, TypeOK, WorkItem
      <4>3. wi \in [WorkItems -> WorkItem]
        BY DEF IndInv, TypeOK
      <4> QED
        BY <4>1, <4>2, <4>3
    <3> QED
      BY <1>4, <3>1, <3>2
  <2> QED
    BY <2>1, <2>2, SameRow
<1>5. CASE UNCHANGED vars
  BY <1>5, SameRow DEF vars, rows, outside, Unsent
<1> QED
  BY <1>1, <1>2, <1>3, <1>4, <1>5 DEF Next

LEMMA GateTyped ==
    ASSUME IndInv', NEW w \in WorkItems
    PROVE  GateOf(w)' \in Gate!JobState
<1>1. PhaseFor(att'[w], wi'[w].status) \in Gate!Phases
  BY DEF PhaseFor, Gate!Phases
<1>2. GateFor(att'[w], payload'[w]) \in BOOLEAN
  BY DEF GateFor
<1>3. img'[w] \in 0..1 /\ delivered'[w] \in 0..1
  <2>1. img'[w] \in Nat /\ delivered'[w] \in Nat
    BY DEF IndInv, TypeOK
  <2>2. img'[w] <= 1 /\ delivered'[w] <= img'[w]
    BY DEF IndInv, ExternalOK, LeftOK
  <2> QED
    BY <2>1, <2>2
<1> QED
  BY <1>1, <1>2, <1>3, GateValue DEF Gate!JobState

(* The image send keeps the promise of OnceGate: for every item the gate   *)
(* opens at most once, one request at most leaves through it, and success, *)
(* denial or an unknown outcome is recorded only when it is true.          *)
THEOREM Refinement == Spec => ImplementsOnceGate
<1>1. Init => Gate!Init
  <2> SUFFICES ASSUME Init
               PROVE  [w \in WorkItems |-> GateOf(w)] =
                      [w \in WorkItems |-> Gate!Closed]
    BY DEF Gate!Init
  <2>1. ASSUME NEW w \in WorkItems
        PROVE  GateOf(w) = Gate!Closed
    <3>1. /\ \A n \in AttemptNo : att[w][n] = "none" /\ payload[w][n] = NoPayload
          /\ img[w] = 0 /\ delivered[w] = 0
      BY DEF Init
    <3>2. wi[w].status # "failed"
      BY DEF Init, Queued, Claimed
    <3>3. /\ PhaseFor(att[w], wi[w].status) = "closed"
          /\ GateFor(att[w], payload[w]) = FALSE
      BY <3>1, <3>2 DEF PhaseFor, GateFor
    <3> QED
      BY <3>1, <3>3, GateValue DEF Gate!Closed
  <2> QED
    BY <2>1
<1>2. IndInv /\ IndInv' /\ [Next]_vars =>
         [Gate!Next]_([w \in WorkItems |-> GateOf(w)])
  <2> SUFFICES ASSUME IndInv, IndInv', [Next]_vars
               PROVE  Gate!Next
    OBVIOUS
  <2>1. \A w \in WorkItems : GateStep(w) /\ GateOf(w)' \in Gate!JobState
    BY NextGate, GateTyped
  <2> QED
    BY <2>1 DEF Gate!Next, GateStep
<1> QED
  BY <1>1, <1>2, Inductive, PTL DEF Spec, ImplementsOnceGate, Gate!Spec

=============================================================================
