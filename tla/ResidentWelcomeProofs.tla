------------------------ MODULE ResidentWelcomeProofs ------------------------
(***************************************************************************)
(* What holds of the resident welcome for every number of workers, groups, *)
(* reviewers, persons and events.  Each part has an inductive invariant of *)
(* its own; a step of one part leaves the variables of the others alone.   *)
(***************************************************************************)
EXTENDS MCResidentWelcome, FiniteSetTheorems, TLAPS

(***************************************************************************)
(* Delivery.  A target whose action is in Out has been sent to, or may     *)
(* have been.                                                              *)
(***************************************************************************)
Out == {"sending", "unknown", "succeeded"}
NotOut == {"none", "prepared", "claimed", "retryable", "cancelled", "failed"}
Basis == [card : Nat, rule : Nat]
Action == [st : Out \cup NotOut, fence : Nat, basis : Basis]
Attempt == [t : Targets, fence : Nat, at : {"claimed", "sending", "sent", "refused"}]

DeliveryType ==
    /\ wcase \in [version : Nat, hold : BOOLEAN, bound : BOOLEAN]
    /\ rule \in Nat /\ card \in Nat
    /\ approved \in [Targets -> Basis]
    /\ act \in [Targets -> Action]
    /\ dw \in [DWorkers -> Attempt \cup {NoClaim}]
    /\ effects \subseteq Targets \X Nat

\* At most one building is in Out at a time.
OneOut == \A t, u \in Targets : act[t].st \in Out /\ act[u].st \in Out => t = u

\* Every effect is that of the attempt its target is still recorded with.
EffectsRecorded ==
    \A e \in effects : act[e[1]].st \in Out /\ act[e[1]].fence = e[2]

SuccessIsReal == \A t \in Targets : act[t].st = "succeeded" => Sent(t)

\* The fence of a claim is its own, and no later than that of the action.
FencesApart ==
    \A w \in DWorkers : dw[w] \in Attempt =>
        /\ dw[w].fence <= act[dw[w].t].fence
        /\ \A v \in DWorkers : dw[v] \in Attempt /\ dw[v].t = dw[w].t /\ dw[v].fence = dw[w].fence
                                  => v = w

\* What a worker knows of its own attempt is so.
AttemptKnown ==
    \A w \in DWorkers : dw[w] \in Attempt =>
        (dw[w].at = "sent" <=> <<dw[w].t, dw[w].fence>> \in effects)

DeliveryInv ==
    /\ DeliveryType /\ OneOut /\ EffectsRecorded /\ SuccessIsReal
    /\ FencesApart /\ AttemptKnown

(***************************************************************************)
(* Review.                                                                 *)
(***************************************************************************)
Person == People \cup {Nobody}
Link == [st : {"pending", "confirmed", "revoked"}, person : Person, ver : Nat, ours : BOOLEAN]
Fact == [text : Nat, src : Nat]
Binding == [person : Person, ver : Nat]
Snapshot == [facts : Fact, app : Person, case : Binding, occ : Link, chn : Link]
IsMatter(i) ==
    /\ DOMAIN i = {"st", "ver", "cfg", "saved", "person", "chan", "ident", "grant", "by"}
    /\ i.st \in {"none", "pending", "identity_confirmed", "confirmed", "rejected", "revoked"}
    /\ i.ver \in Nat /\ i.cfg \in Nat /\ i.grant \in Nat
    /\ i.saved \in Snapshot \cup {NoLink} /\ i.person \in Person
    /\ i.chan \in BOOLEAN /\ i.ident \in BOOLEAN

ReviewType ==
    /\ facts \in Fact /\ occ \in Link /\ chn \in Link
    /\ appPerson \in Person /\ bindsTo \in Binding
    /\ settings \in [ver : Nat, live : BOOLEAN]
    /\ grantOf \in [Subjects -> Nat]
    /\ IsMatter(item)
    /\ view \in [Subjects -> [ver : Nat, facts : Fact]]
    /\ shown \in [facts : Fact, person : Person, grant : Nat]

\* A reviewer has seen no version that is still to come, and one who has seen
\* the current one has seen its content.
ViewsTrue ==
    \A s \in Subjects :
        /\ view[s].ver <= item.ver
        /\ item.st # "none" /\ view[s].ver = item.ver => view[s].facts = item.saved.facts

\* A confirmed matter is the one that was on display, confirmed by a reviewer.
ConfirmedAsShown ==
    item.st = "confirmed" =>
        /\ shown = [facts |-> item.saved.facts, person |-> item.person, grant |-> item.grant]
        /\ item.by \in Subjects

ReviewInv ==
    /\ ReviewType /\ ViewsTrue /\ ConfirmedAsShown
    /\ IF item.st = "none" THEN item.ver = 0 ELSE item.saved \in Snapshot

(***************************************************************************)
(* Source.                                                                 *)
(***************************************************************************)
Projection == [o : Nat, m : Nat, h : Variants \cup {0}]
Feed == [agg : {"order", "member"}, rev : Nat]
Entry == [st : {"none", "queued", "processing", "completed", "quarantined"}, fence : Nat]
Claim == [ev : Nat \ {0}, fence : Nat, got : Projection \cup {Nil}]

IsVersion(v) ==
    /\ DOMAIN v = {"known", "o", "m", "h", "inv", "conf", "ent", "enth", "entconf"}
    /\ v.known \in BOOLEAN /\ v.h \in Variants \cup {0}
    /\ v.o \in Nat /\ v.m \in Nat /\ v.ent \in Nat

SourceType ==
    /\ DOMAIN pms = {"feed", "order", "member"}
    /\ pms.feed \in Seq(Feed) /\ pms.order \in Nat /\ pms.member \in Nat
    /\ Len(pms.feed) <= MaxChanges + 1
    /\ inbox \in [1..(MaxChanges + 1) -> Entry]
    /\ wk \in [WWorkers -> Claim \cup {Idle}]
    /\ pull = Nil \/ pull \in [at : Nat, upto : Nat]
    /\ DOMAIN src = {"cursor", "head", "rebuilding"} /\ src.cursor \in Nat
    /\ DOMAIN scan = {"open", "head", "complete", "item"} /\ scan.head \in Nat
    /\ scan.item \in Projection \cup {Nil}
    /\ IsVersion(ver)

Current(agg) == IF agg = "order" THEN pms.order ELSE pms.member

\* Nothing refers to an event PMS has not published, or to a later revision.
WithinFeed ==
    /\ \A e \in 1..Len(pms.feed) : pms.feed[e].rev <= Current(pms.feed[e].agg)
    /\ \A e \in DOMAIN inbox : inbox[e].st # "none" => e <= Len(pms.feed)
    /\ \A w \in WWorkers : wk[w].ev <= Len(pms.feed)
    /\ pull # Nil => pull.upto <= Len(pms.feed)
    /\ scan.head <= Len(pms.feed)
    /\ src.cursor <= Len(pms.feed)

\* The readings of the order that are held anywhere.
Readers == {w \in WWorkers : wk[w].got # Nil /\ pms.feed[wk[w].ev].agg = "order"}
Held == {wk[w].got : w \in Readers}
        \cup {p \in {scan.item} : p # Nil}
        \cup {p \in {[o |-> ver.o, m |-> ver.m, h |-> ver.h]} : ver.known}

NoLater(p, q) == p.o <= q.o /\ p.m <= q.m

\* Each one was read at one moment, so any two are ordered, revision by revision.
ReadingsOrdered ==
    /\ \A p \in Held : p.o <= pms.order /\ p.m <= pms.member
    /\ \A p, q \in Held : NoLater(p, q) \/ NoLater(q, p)

\* What the scan has read reaches the head captured before it, and once nothing
\* of it is pending, so does the store.
ScanReaches ==
    scan.complete =>
        \A e \in 1..scan.head :
            IF scan.item = Nil THEN Covered(e)
            ELSE pms.feed[e].rev <= IF pms.feed[e].agg = "order" THEN scan.item.o ELSE scan.item.m

SourceInv ==
    /\ SourceType /\ WithinFeed /\ ReadingsOrdered /\ ScanReaches
    /\ ~ver.known => ver.o = 0 /\ ver.m = 0
    /\ NoEventLost

WelcomeInv == DeliveryInv /\ ReviewInv /\ SourceInv
-----------------------------------------------------------------------------
(* Delivery.  Most steps touch neither the workers nor the effects, and     *)
(* leave every action that is in Out, and every fence, alone.               *)

Spared(a) ==
    /\ a \in [Targets -> Action]
    /\ \A t \in Targets :
          /\ a[t].fence = act[t].fence
          /\ a[t].st = act[t].st \/ (act[t].st \in NotOut /\ a[t].st \in NotOut)

CaseStep == UNCHANGED <<dw, effects>> /\ Spared(act')

LEMMA CaseStepInv ==
    ASSUME DeliveryInv, CaseStep, DeliveryType'
    PROVE  DeliveryInv'
<1>1. \A t \in Targets : /\ act[t].st \in Out <=> act'[t].st \in Out
                         /\ act[t].st = "succeeded" <=> act'[t].st = "succeeded"
                         /\ act'[t].fence = act[t].fence
  BY DEF CaseStep, Spared, Out, NotOut
<1>2. dw' = dw /\ effects' = effects
  BY DEF CaseStep
<1>3. OneOut'
  BY <1>1 DEF DeliveryInv, OneOut
<1>4. EffectsRecorded'
  BY <1>1, <1>2 DEF DeliveryInv, DeliveryType, EffectsRecorded
<1>5. SuccessIsReal'
  BY <1>1, <1>2 DEF DeliveryInv, SuccessIsReal, Sent
<1>6. FencesApart'
  BY <1>1, <1>2 DEF DeliveryInv, FencesApart, Attempt
<1>7. AttemptKnown'
  BY <1>2 DEF DeliveryInv, AttemptKnown
<1>. QED
  BY <1>3, <1>4, <1>5, <1>6, <1>7 DEF DeliveryInv

\* Cancelling and preparing again never touches an action in Out.
LEMMA SparedUnchanged ==
    ASSUME act \in [Targets -> Action] PROVE Spared(act)
BY DEF Spared

LEMMA SparedCancelled ==
    ASSUME act \in [Targets -> Action], NEW T PROVE Spared(Cancelled(T))
BY DEF Spared, Cancelled, Action, Pending, NotOut, Out

LEMMA SparedPrepared ==
    ASSUME act \in [Targets -> Action], NEW t \in Targets, NEW b \in Basis
    PROVE  Spared(Prepared(act, t, b))
BY DEF Spared, Prepared, Action, NotOut, Out

LEMMA SparedEvaluated ==
    ASSUME act \in [Targets -> Action], NEW c, NEW s, NEW a
    PROVE  Spared(evaluate_tx(c, s, a))
BY SparedUnchanged, SparedCancelled DEF evaluate_tx

\* The steps of the case, the approvals and the recovery.
LEMMA CaseSteps ==
    ASSUME DeliveryInv,
           \/ \E s \in [state : {"reserved", "inhouse", "terminated"}, at : Targets] :
                 apply_snapshot_case(s)
           \/ InvalidateSnapshot \/ change_identity \/ bind_case
           \/ foundation_configure \/ revoke_grant \/ register_artifact
           \/ \E ok \in BOOLEAN : application_from_readback(ok)
           \/ \E t \in Targets : \/ approve(t) \/ revoke_approval(t)
                                 \/ \E fresh \in BOOLEAN : reconcile_case(t, fresh)
    PROVE  DeliveryType' /\ CaseStep
<1>. USE SparedUnchanged, SparedCancelled, SparedPrepared, SparedEvaluated
     DEF DeliveryInv, DeliveryType, CaseStep
<1>0. /\ act \in [Targets -> Action] /\ rule + 1 \in Nat /\ wcase.version + 1 \in Nat
      /\ \A a : Spared(a) => a \in [Targets -> Action]
  BY DEF Spared
<1>1. ASSUME NEW s \in [state : {"reserved", "inhouse", "terminated"}, at : Targets],
             apply_snapshot_case(s)
      PROVE  DeliveryType' /\ CaseStep
  <2>. DEFINE moved == s.at # stay.at
              held == s.state = "terminated" /\ ~wcase.hold
              step == (IF moved THEN 1 ELSE 0) + (IF held THEN 1 ELSE 0)
  <2>1. /\ wcase' = [wcase EXCEPT !.version = @ + step, !.hold = @ \/ held]
        /\ card' = IF moved THEN 0 ELSE card
        /\ UNCHANGED <<rule, approved, dw, effects>>
    BY <1>1 DEF apply_snapshot_case
  <2>2. step \in Nat
    OBVIOUS
  <2>3. wcase' \in [version : Nat, hold : BOOLEAN, bound : BOOLEAN]
    <3>. HIDE DEF step, held
    <3>. DEFINE v == wcase.version + step  h == wcase.hold \/ held
    <3>1. v \in Nat /\ h \in BOOLEAN
      BY <2>2
    <3>2. wcase' = [wcase EXCEPT !.version = v, !.hold = h]
      BY <2>1
    <3>. HIDE DEF v, h
    <3>. QED
      BY <3>1, <3>2
  <2>4. Spared(act')
    <3>. HIDE DEF step, held
    <3>1. \/ act' = Cancelled(Targets)
          \/ \E c : act' = evaluate_tx(c, s, appl)
      BY <1>1 DEF apply_snapshot_case
    <3>. QED
      BY <3>1, <1>0
  <2>. QED
    BY <2>1, <2>3, <2>4, <1>0
<1>2. ASSUME InvalidateSnapshot PROVE DeliveryType' /\ CaseStep
  BY <1>0, <1>2 DEF InvalidateSnapshot
<1>3. ASSUME change_identity PROVE DeliveryType' /\ CaseStep
  BY <1>0, <1>3 DEF change_identity
<1>4. ASSUME bind_case PROVE DeliveryType' /\ CaseStep
  <2>1. wcase' \in [version : Nat, hold : BOOLEAN, bound : BOOLEAN]
    <3>1. wcase' = [wcase EXCEPT !.version = wcase.version + 1, !.hold = FALSE, !.bound = TRUE]
      BY <1>4 DEF bind_case
    <3>. QED
      BY <1>0, <3>1
  <2>. QED
    BY <1>0, <1>4, <2>1 DEF bind_case
<1>5. ASSUME foundation_configure PROVE DeliveryType' /\ CaseStep
  BY <1>0, <1>5 DEF foundation_configure
<1>6. ASSUME revoke_grant PROVE DeliveryType' /\ CaseStep
  BY <1>0, <1>6 DEF revoke_grant
<1>7. ASSUME register_artifact PROVE DeliveryType' /\ CaseStep
  BY <1>0, <1>7 DEF register_artifact
<1>8. ASSUME NEW ok \in BOOLEAN, application_from_readback(ok) PROVE DeliveryType' /\ CaseStep
  BY <1>0, <1>8 DEF application_from_readback
<1>9. ASSUME NEW t \in Targets, approve(t) PROVE DeliveryType' /\ CaseStep
  <2>1. [card |-> card, rule |-> rule] \in Basis
    BY DEF Basis
  <2>2. approved' = [approved EXCEPT ![t] = [card |-> card, rule |-> rule]]
    BY <1>9 DEF approve
  <2>3. approved' \in [Targets -> Basis] /\ approved'[t] \in Basis
    BY <2>1, <2>2
  <2>4. act' = act \/ act' = Prepared(act, t, approved'[t])
    BY <1>9 DEF approve
  <2>5. UNCHANGED <<stay, appl, wcase, rule, card, dw, effects>>
    BY <1>9 DEF approve
  <2>. QED
    BY <1>0, <2>3, <2>4, <2>5
<1>10. ASSUME NEW t \in Targets, revoke_approval(t) PROVE DeliveryType' /\ CaseStep
  BY <1>0, <1>10 DEF revoke_approval, None, Basis
<1>11. ASSUME NEW t \in Targets, NEW fresh \in BOOLEAN, reconcile_case(t, fresh)
       PROVE DeliveryType' /\ CaseStep
  BY <1>0, <1>11 DEF reconcile_case
<1>. QED
  BY <1>1, <1>2, <1>3, <1>4, <1>5, <1>6, <1>7, <1>8, <1>9, <1>10, <1>11

-----------------------------------------------------------------------------
(* The steps of the workers.                                                *)

LEMMA AttemptFields ==
    ASSUME NEW a \in Attempt
    PROVE  /\ a # NoClaim
           /\ a.t \in Targets /\ a.fence \in Nat
           /\ a.at \in {"claimed", "sending", "sent", "refused"}
BY DEF Attempt, NoClaim

\* A worker drops its claim; nothing else changes.
LEMMA DropInv ==
    ASSUME DeliveryInv, NEW w \in DWorkers, dw' = [dw EXCEPT ![w] = NoClaim],
           UNCHANGED <<wcase, rule, card, approved, act, effects>>
    PROVE  DeliveryInv'
<1>1. /\ NoClaim \notin Attempt
      /\ \A v \in DWorkers : dw'[v] \in Attempt => dw[v] \in Attempt /\ dw'[v] = dw[v]
  BY AttemptFields DEF DeliveryInv, DeliveryType
<1>2. DeliveryType'
  BY DEF DeliveryInv, DeliveryType
<1>3. (OneOut /\ EffectsRecorded /\ SuccessIsReal)'
  BY DEF DeliveryInv, OneOut, EffectsRecorded, SuccessIsReal, Sent
<1>4. FencesApart'
  BY <1>1 DEF DeliveryInv, FencesApart
<1>5. AttemptKnown'
  BY <1>1 DEF DeliveryInv, AttemptKnown
<1>. QED
  BY <1>2, <1>3, <1>4, <1>5 DEF DeliveryInv

\* Only a worker that holds an attempt passes a test of what it holds.
LEMMA Holding ==
    ASSUME DeliveryType, NEW w \in DWorkers, dw[w].at # "idle" PROVE dw[w] \in Attempt
BY DEF DeliveryType, NoClaim

LEMMA ClaimInv ==
    ASSUME DeliveryInv, NEW w \in DWorkers, NEW t \in Targets, claim_delivery(w, t)
    PROVE  DeliveryInv'
<1>. DEFINE new == [t |-> t, fence |-> act[t].fence + 1, at |-> "claimed"]
<1>1. /\ act' = [act EXCEPT ![t].st = "claimed", ![t].fence = @ + 1]
      /\ dw' = [dw EXCEPT ![w] = new]
      /\ act[t].st \in Pending
      /\ UNCHANGED <<wcase, rule, card, approved, effects>>
  BY DEF claim_delivery
<1>2. /\ act \in [Targets -> Action] /\ dw \in [DWorkers -> Attempt \cup {NoClaim}]
      /\ act[t] \in Action /\ act[t].fence \in Nat
  BY DEF DeliveryInv, DeliveryType, Action
<1>3. new \in Attempt /\ new.t = t /\ new.fence = act[t].fence + 1 /\ new.at = "claimed"
  BY <1>2 DEF Attempt
<1>. HIDE DEF new
<1>4. /\ act' \in [Targets -> Action]
      /\ act'[t].st = "claimed" /\ act'[t].fence = act[t].fence + 1
      /\ \A u \in Targets \ {t} : act'[u] = act[u]
  <2>. DEFINE b == [act[t] EXCEPT !.st = "claimed"]
              a == [b EXCEPT !.fence = act[t].fence + 1]
  <2>1. act' = [act EXCEPT ![t] = a]
    BY <1>1, <1>2 DEF Action
  <2>2. b \in Action /\ b.st = "claimed"
    BY <1>2 DEF Action, NotOut
  <2>. HIDE DEF b
  <2>3. a \in Action /\ a.st = "claimed" /\ a.fence = act[t].fence + 1
    BY <1>2, <2>2 DEF Action
  <2>. HIDE DEF a
  <2>. QED
    BY <1>2, <2>1, <2>3
<1>5. DeliveryType'
  BY <1>1, <1>2, <1>3, <1>4 DEF DeliveryInv, DeliveryType
<1>6. act[t].st \notin Out /\ act'[t].st \notin Out
  BY <1>1, <1>4 DEF Pending, Out
<1>7. OneOut' /\ SuccessIsReal' /\ EffectsRecorded'
  <2>1. OneOut'
    BY <1>4, <1>6 DEF DeliveryInv, OneOut
  <2>2. SuccessIsReal'
    BY <1>1, <1>4 DEF DeliveryInv, SuccessIsReal, Sent
  <2>3. EffectsRecorded'
    BY <1>1, <1>4, <1>6 DEF DeliveryInv, DeliveryType, EffectsRecorded
  <2>. QED
    BY <2>1, <2>2, <2>3
<1>8. /\ dw'[w] = new
      /\ \A v \in DWorkers \ {w} : dw'[v] = dw[v]
  BY <1>1, <1>2
<1>9. ASSUME NEW v \in DWorkers \ {w}, dw[v] \in Attempt
      PROVE  /\ dw[v].fence <= act'[dw[v].t].fence
             /\ dw[v].t = t => dw[v].fence # new.fence
  <2>1. dw[v].t \in Targets /\ dw[v].fence \in Nat /\ dw[v].fence <= act[dw[v].t].fence
    BY <1>9, AttemptFields DEF DeliveryInv, FencesApart
  <2>. QED
    BY <1>2, <1>3, <1>4, <2>1
<1>10. FencesApart'
  <2>1. new.fence <= act'[new.t].fence
    BY <1>2, <1>3, <1>4
  <2>. QED
    BY <1>3, <1>8, <1>9, <2>1 DEF DeliveryInv, FencesApart
<1>11. AttemptKnown'
  <2>1. <<t, new.fence>> \notin effects
    BY <1>6 DEF DeliveryInv, EffectsRecorded
  <2>. QED
    BY <1>1, <1>3, <1>8, <2>1 DEF DeliveryInv, AttemptKnown
<1>. QED
  BY <1>5, <1>7, <1>10, <1>11 DEF DeliveryInv

\* A step of one worker that keeps its attempt, or drops it, and changes the
\* status of its target only; st, at and E are what it leaves behind.
LEMMA WorkerStepInv ==
    ASSUME DeliveryInv, NEW t \in Targets, NEW st \in Out \cup NotOut,
           act' = [act EXCEPT ![t].st = st] \/ (act' = act /\ st = act[t].st),
           UNCHANGED <<wcase, rule, card, approved>>,
           st \in Out => \A u \in Targets \ {t} : act[u].st \notin Out,
           effects \subseteq effects', effects' \subseteq Targets \X Nat,
           \A e \in effects' \ effects : e = <<t, act[t].fence>>,
           st \notin Out => \A e \in effects' : e[1] # t,
           st = "succeeded" => \E e \in effects' : e[1] = t,
           dw' \in [DWorkers -> Attempt \cup {NoClaim}],
           \A v \in DWorkers : dw'[v] \in Attempt =>
               dw[v] \in Attempt /\ dw'[v].t = dw[v].t /\ dw'[v].fence = dw[v].fence,
           AttemptKnown'
    PROVE  DeliveryInv'
<1>1. /\ act \in [Targets -> Action] /\ act' \in [Targets -> Action]
      /\ act'[t].st = st /\ act'[t].fence = act[t].fence
      /\ \A u \in Targets \ {t} : act'[u] = act[u]
  BY DEF DeliveryInv, DeliveryType, Action
<1>2. DeliveryType'
  BY <1>1 DEF DeliveryInv, DeliveryType
<1>3. OneOut'
  BY <1>1 DEF DeliveryInv, OneOut
<1>4. EffectsRecorded'
  BY <1>1 DEF DeliveryInv, DeliveryType, EffectsRecorded
<1>5. SuccessIsReal'
  BY <1>1 DEF DeliveryInv, SuccessIsReal, Sent
<1>6. FencesApart'
  <2>1. \A u \in Targets : act'[u].fence = act[u].fence
    BY <1>1
  <2>. QED
    BY <2>1, AttemptFields DEF DeliveryInv, FencesApart
<1>. QED
  BY <1>2, <1>3, <1>4, <1>5, <1>6 DEF DeliveryInv

LEMMA WaitInv ==
    ASSUME DeliveryInv, NEW w \in DWorkers, RuntimeWaits(w) PROVE DeliveryInv'
<1>. DEFINE t == dw[w].t
<1>1. /\ act' = [act EXCEPT ![t].st = "prepared"] /\ act[t].st = "claimed"
      /\ dw' = [dw EXCEPT ![w] = NoClaim] /\ dw[w].at = "claimed"
      /\ UNCHANGED <<wcase, rule, card, approved, effects>>
  BY DEF RuntimeWaits, lock_claim
<1>2. dw[w] \in Attempt /\ t \in Targets
  BY <1>1, Holding, AttemptFields DEF DeliveryInv
<1>3. /\ "prepared" \in NotOut /\ "prepared" \notin Out /\ "claimed" \notin Out
      /\ "prepared" # "succeeded"
  BY DEF Out, NotOut
<1>4. \A e \in effects : e[1] # t
  BY <1>1, <1>3 DEF DeliveryInv, EffectsRecorded
<1>5. NoClaim \notin Attempt
  BY AttemptFields
<1>6. /\ dw' \in [DWorkers -> Attempt \cup {NoClaim}]
      /\ \A v \in DWorkers : dw'[v] \in Attempt => dw[v] \in Attempt /\ dw'[v] = dw[v]
  BY <1>1, <1>5 DEF DeliveryInv, DeliveryType
<1>7. AttemptKnown'
  BY <1>1, <1>6 DEF DeliveryInv, AttemptKnown
<1>8. effects \subseteq Targets \X Nat
  BY DEF DeliveryInv, DeliveryType
<1>. QED
  BY <1>1, <1>2, <1>3, <1>4, <1>6, <1>7, <1>8, WorkerStepInv

LEMMA BeginInv ==
    ASSUME DeliveryInv, NEW w \in DWorkers, begin_synthetic_attempt(w) PROVE DeliveryInv'
<1>. DEFINE t == dw[w].t
<1>1. dw[w].at = "claimed" /\ UNCHANGED <<wcase, rule, card, approved, effects>>
  BY DEF begin_synthetic_attempt
<1>2. CASE lock_claim(w, "claimed") /\ BasisHolds(t)
  <2>1. /\ act' = [act EXCEPT ![t].st = "sending"] /\ act[t].st = "claimed"
        /\ dw' = [dw EXCEPT ![w].at = "sending"]
    BY <1>2 DEF begin_synthetic_attempt, lock_claim
  <2>2. dw[w] \in Attempt /\ t \in Targets
    BY <1>1, Holding, AttemptFields DEF DeliveryInv
  <2>3. "sending" \in Out /\ "claimed" \notin Out /\ "sending" # "succeeded"
    BY DEF Out
  <2>4. \A u \in Targets \ {t} : act[u].st \notin Out
    BY <1>2 DEF BasisHolds, Eligible, already_elsewhere, Out
  <2>5. /\ dw' \in [DWorkers -> Attempt \cup {NoClaim}]
        /\ dw'[w].at = "sending" /\ dw'[w].t = t /\ dw'[w].fence = dw[w].fence
        /\ \A v \in DWorkers \ {w} : dw'[v] = dw[v]
    BY <2>1, <2>2 DEF DeliveryInv, DeliveryType, Attempt
  <2>6. \A v \in DWorkers : dw'[v] \in Attempt =>
           dw[v] \in Attempt /\ dw'[v].t = dw[v].t /\ dw'[v].fence = dw[v].fence
    BY <2>2, <2>5
  <2>7. AttemptKnown'
    BY <1>1, <2>2, <2>5 DEF DeliveryInv, AttemptKnown
  <2>8. effects \subseteq Targets \X Nat
    BY DEF DeliveryInv, DeliveryType
  <2>. QED
    BY <1>1, <2>1, <2>2, <2>3, <2>4, <2>5, <2>6, <2>7, <2>8, WorkerStepInv
<1>3. CASE ~(lock_claim(w, "claimed") /\ BasisHolds(t))
  BY <1>1, <1>3, DropInv DEF begin_synthetic_attempt
<1>. QED
  BY <1>2, <1>3

LEMMA SendInv ==
    ASSUME DeliveryInv, NEW w \in DWorkers, NEW sends \in BOOLEAN, SendEffect(w, sends)
    PROVE  DeliveryInv'
<1>. DEFINE t == dw[w].t
            e == <<dw[w].t, dw[w].fence>>
<1>1. dw[w].at = "sending" /\ UNCHANGED <<wcase, rule, card, approved, act>>
  BY DEF SendEffect
<1>2. dw[w] \in Attempt /\ t \in Targets /\ dw[w].fence \in Nat
  BY <1>1, Holding, AttemptFields DEF DeliveryInv
<1>3. CASE lock_claim(w, "sending")
  <2>1. /\ act[t].st = "sending" /\ act[t].fence = dw[w].fence
        /\ effects' = IF sends THEN effects \cup {e} ELSE effects
        /\ dw' = [dw EXCEPT ![w].at = IF sends THEN "sent" ELSE "refused"]
    BY <1>3 DEF SendEffect, lock_claim
  <2>2. "sending" \in Out /\ "sending" # "succeeded"
    BY DEF Out
  <2>3. \A u \in Targets \ {t} : act[u].st \notin Out
    BY <1>2, <2>1, <2>2 DEF DeliveryInv, OneOut
  <2>4. /\ dw' \in [DWorkers -> Attempt \cup {NoClaim}]
        /\ dw'[w].at = (IF sends THEN "sent" ELSE "refused")
        /\ dw'[w].t = t /\ dw'[w].fence = dw[w].fence
        /\ \A v \in DWorkers \ {w} : dw'[v] = dw[v]
    BY <1>2, <2>1 DEF DeliveryInv, DeliveryType, Attempt
  <2>5. \A v \in DWorkers : dw'[v] \in Attempt =>
           dw[v] \in Attempt /\ dw'[v].t = dw[v].t /\ dw'[v].fence = dw[v].fence
    BY <1>2, <2>4
  <2>6. AttemptKnown'
    <3>1. dw'[w].at = "sent" <=> <<dw'[w].t, dw'[w].fence>> \in effects'
      BY <1>1, <1>2, <2>1, <2>4 DEF DeliveryInv, AttemptKnown
    <3>2. ASSUME NEW v \in DWorkers \ {w}, dw[v] \in Attempt
          PROVE  dw[v].at = "sent" <=> <<dw[v].t, dw[v].fence>> \in effects'
      <4>1. <<dw[v].t, dw[v].fence>> # e
        BY <1>2, <3>2 DEF DeliveryInv, FencesApart
      <4>. QED
        BY <2>1, <3>2, <4>1 DEF DeliveryInv, AttemptKnown
    <3>. QED
      BY <2>4, <3>1, <3>2 DEF AttemptKnown
  <2>7. /\ effects \subseteq effects' /\ effects' \subseteq Targets \X Nat
        /\ \A f \in effects' \ effects : f = <<t, act[t].fence>>
    BY <1>2, <2>1 DEF DeliveryInv, DeliveryType
  <2>. QED
    BY <1>1, <1>2, <2>1, <2>2, <2>3, <2>4, <2>5, <2>6, <2>7, WorkerStepInv
<1>4. CASE ~lock_claim(w, "sending")
  BY <1>1, <1>4, DropInv DEF SendEffect
<1>. QED
  BY <1>3, <1>4

LEMMA RecordInv ==
    ASSUME DeliveryInv, NEW w \in DWorkers, NEW lost \in BOOLEAN, record_outcome(w, lost)
    PROVE  DeliveryInv'
<1>. DEFINE t == dw[w].t
            st == IF dw[w].at = "sent" THEN (IF lost THEN "unknown" ELSE "succeeded")
                  ELSE IF lost THEN "failed" ELSE "retryable"
<1>1. /\ dw[w].at \in {"sent", "refused"} /\ dw' = [dw EXCEPT ![w] = NoClaim]
      /\ UNCHANGED <<wcase, rule, card, approved, effects>>
  BY DEF record_outcome
<1>2. CASE lock_claim(w, "sending")
  <2>1. /\ act[t].st = "sending" /\ act[t].fence = dw[w].fence
        /\ act' = [act EXCEPT ![t].st = st]
    BY <1>2 DEF record_outcome, lock_claim
  <2>2. dw[w] \in Attempt /\ t \in Targets
    BY <1>1, Holding, AttemptFields DEF DeliveryInv
  <2>3. \A u \in Targets \ {t} : act[u].st \notin Out
    BY <2>1, <2>2 DEF DeliveryInv, OneOut, Out
  <2>4. NoClaim \notin Attempt
    BY AttemptFields
  <2>5. /\ dw' \in [DWorkers -> Attempt \cup {NoClaim}]
        /\ \A v \in DWorkers : dw'[v] \in Attempt => dw[v] \in Attempt /\ dw'[v] = dw[v]
    BY <1>1, <2>4 DEF DeliveryInv, DeliveryType
  <2>6. AttemptKnown'
    BY <1>1, <2>5 DEF DeliveryInv, AttemptKnown
  <2>7. /\ st \in Out \cup NotOut
        /\ st \in Out <=> dw[w].at = "sent"
    BY <1>1 DEF Out, NotOut
  <2>8. dw[w].at = "sent" <=> <<t, dw[w].fence>> \in effects
    BY <2>2 DEF DeliveryInv, AttemptKnown
  <2>9. effects \subseteq Targets \X Nat
    BY DEF DeliveryInv, DeliveryType
  <2>10. st \notin Out => \A e \in effects : e[1] # t
    <3>. SUFFICES ASSUME st \notin Out, NEW e \in effects, e[1] = t PROVE FALSE
      OBVIOUS
    <3>1. e[2] = dw[w].fence
      BY <2>1 DEF DeliveryInv, EffectsRecorded
    <3>2. e = <<t, dw[w].fence>>
      BY <2>9, <3>1
    <3>. QED
      BY <2>7, <2>8, <3>2
  <2>11. st \in Out => \E e \in effects : e[1] = t
    BY <2>7, <2>8
  <2>12. "succeeded" \in Out
    BY DEF Out
  <2>. HIDE DEF st
  <2>. QED
    BY <1>1, <2>1, <2>2, <2>3, <2>5, <2>6, <2>7, <2>9, <2>10, <2>11, <2>12, WorkerStepInv
<1>3. CASE ~lock_claim(w, "sending")
  BY <1>1, <1>3, DropInv DEF record_outcome
<1>. QED
  BY <1>2, <1>3

\* An attempt whose lease has run out, and the answer of a person.
LEMMA AnswerInv ==
    ASSUME DeliveryInv, NEW t \in Targets, recover_sending(t) \/ resolve_unknown(t)
    PROVE  DeliveryInv'
<1>1. PICK st \in Out \cup NotOut :
        /\ act' = [act EXCEPT ![t].st = st]
        /\ act[t].st \in Out
        /\ st \notin Out => \A e \in effects : e[1] # t
        /\ st = "succeeded" => \E e \in effects : e[1] = t
  BY DEF recover_sending, resolve_unknown, Sent, Out, NotOut
<1>2. UNCHANGED <<wcase, rule, card, approved, dw, effects>>
  BY DEF recover_sending, resolve_unknown
<1>3. \A u \in Targets \ {t} : act[u].st \notin Out
  BY <1>1 DEF DeliveryInv, OneOut
<1>4. /\ dw' \in [DWorkers -> Attempt \cup {NoClaim}]
      /\ effects \subseteq Targets \X Nat
  BY <1>2 DEF DeliveryInv, DeliveryType
<1>5. AttemptKnown'
  BY <1>2 DEF DeliveryInv, AttemptKnown
<1>. QED
  BY <1>1, <1>2, <1>3, <1>4, <1>5, WorkerStepInv

LEMMA DeliveryInitInv == DeliveryInit => DeliveryInv
<1>. SUFFICES ASSUME DeliveryInit PROVE DeliveryInv
  OBVIOUS
<1>1. /\ None \in Basis /\ "none" \notin Out /\ "none" # "succeeded"
      /\ [st |-> "none", fence |-> 0, basis |-> None] \in Action
  BY DEF None, Basis, Action, Out, NotOut
<1>2. DeliveryType
  BY <1>1 DEF DeliveryInit, DeliveryType
<1>3. NoClaim \notin Attempt
  BY AttemptFields
<1>. QED
  BY <1>1, <1>2, <1>3 DEF DeliveryInit, DeliveryInv, OneOut, EffectsRecorded, SuccessIsReal,
                         FencesApart, AttemptKnown

LEMMA DeliveryNextInv == DeliveryInv /\ [DeliveryNext]_dvars => DeliveryInv'
<1>. SUFFICES ASSUME DeliveryInv, [DeliveryNext]_dvars PROVE DeliveryInv'
  OBVIOUS
<1>1. CASE UNCHANGED dvars
  BY <1>1 DEF dvars, DeliveryInv, DeliveryType, OneOut, EffectsRecorded, SuccessIsReal, Sent,
              FencesApart, AttemptKnown
<1>2. ASSUME NEW w \in DWorkers, DeliveryDies(w) PROVE DeliveryInv'
  BY <1>2, DropInv DEF DeliveryDies
<1>. QED
  BY <1>1, <1>2, CaseSteps, CaseStepInv, ClaimInv, WaitInv, BeginInv, SendInv, RecordInv, AnswerInv
     DEF DeliveryNext

-----------------------------------------------------------------------------
(* Review.                                                                  *)

\* The world changes around the matter.
LEMMA WorldInv ==
    ASSUME ReviewInv, ReviewType', UNCHANGED <<item, view, shown>>
    PROVE  ReviewInv'
BY DEF ReviewInv, ViewsTrue, ConfirmedAsShown

\* The matter moves on to a version nobody has seen.
LEMMA MatterInv ==
    ASSUME ReviewInv, ReviewType', UNCHANGED view,
           item'.ver = item.ver + 1, item'.st # "none", item'.saved \in Snapshot,
           ConfirmedAsShown'
    PROVE  ReviewInv'
<1>1. \A s \in Subjects : view[s].ver \in Nat /\ item.ver \in Nat
  BY DEF ReviewInv, ReviewType, IsMatter
<1>2. \A s \in Subjects : view'[s].ver <= item.ver
  BY DEF ReviewInv, ViewsTrue
<1>3. ViewsTrue'
  BY <1>1, <1>2 DEF ViewsTrue
<1>. QED
  BY <1>3 DEF ReviewInv

LEMMA SnapshotType ==
    ASSUME NEW ap \in Person, NEW bt \in Binding, NEW o \in Link, NEW c \in Link, facts \in Fact
    PROVE  snapshot(ap, bt, o, c) \in Snapshot /\ snapshot(ap, bt, o, c).facts = facts
BY DEF snapshot, Snapshot

LEMMA NoLinkType == NoLink \in Link
BY DEF NoLink, Link, Person

LEMMA NowType == ReviewType => Now(item) \in Snapshot
BY SnapshotType, NoLinkType DEF ReviewType, Now

LEMMA WorldSteps ==
    ASSUME ReviewInv,
           \/ \E k \in {"text", "src"} : FactsChange(k)
           \/ \E l \in {"occ", "chn"} : \E p \in People : LinkChanges(l, p)
           \/ \E R \in SUBSET Subjects : welcome_settings_save(R)
           \/ IssuerRevoked
           \/ \E s \in Subjects : welcome_account_register(s)
    PROVE  ReviewInv'
<1>. USE DEF ReviewInv, ReviewType
<1>1. ASSUME NEW k \in {"text", "src"}, FactsChange(k) PROVE ReviewInv'
  <2>1. facts' \in Fact
    BY <1>1 DEF FactsChange, Fact
  <2>. QED
    BY <1>1, <2>1, WorldInv DEF FactsChange
<1>2. ASSUME NEW l \in {"occ", "chn"}, NEW p \in People, LinkChanges(l, p) PROVE ReviewInv'
  <2>. DEFINE step(k) == IF k.st = "confirmed" THEN [k EXCEPT !.st = "revoked", !.ver = @ + 1]
                         ELSE [st |-> "confirmed", person |-> p, ver |-> k.ver + 1, ours |-> FALSE]
  <2>1. ASSUME NEW k \in Link PROVE step(k) \in Link
    <3>1. k.ver + 1 \in Nat
      BY DEF Link
    <3>2. [st |-> "confirmed", person |-> p, ver |-> k.ver + 1, ours |-> FALSE] \in Link
      BY <3>1 DEF Link, Person
    <3>3. [k EXCEPT !.st = "revoked", !.ver = @ + 1] \in Link
      BY <3>1 DEF Link
    <3>. QED
      BY <3>2, <3>3
  <2>2. /\ (occ' = step(occ) /\ chn' = chn) \/ (occ' = occ /\ chn' = step(chn))
        /\ UNCHANGED <<facts, appPerson, bindsTo, settings, grantOf, item, view, shown>>
    BY <1>2 DEF LinkChanges
  <2>3. occ' \in Link /\ chn' \in Link
    <3>. HIDE DEF step
    <3>. QED
      BY <2>1, <2>2
  <2>. QED
    BY <2>2, <2>3, WorldInv
<1>3. ASSUME NEW R \in SUBSET Subjects, welcome_settings_save(R) PROVE ReviewInv'
  <2>1. settings' \in [ver : Nat, live : BOOLEAN] /\ grantOf' \in [Subjects -> Nat]
    BY <1>3 DEF welcome_settings_save
  <2>. QED
    BY <1>3, <2>1, WorldInv DEF welcome_settings_save
<1>4. ASSUME IssuerRevoked PROVE ReviewInv'
  <2>1. settings' \in [ver : Nat, live : BOOLEAN]
    BY <1>4 DEF IssuerRevoked
  <2>. QED
    BY <1>4, <2>1, WorldInv DEF IssuerRevoked
<1>5. ASSUME NEW s \in Subjects, welcome_account_register(s) PROVE ReviewInv'
  <2>1. grantOf' \in [Subjects -> Nat]
    BY <1>5 DEF welcome_account_register
  <2>. QED
    BY <1>5, <2>1, WorldInv DEF welcome_account_register
<1>. QED
  BY <1>1, <1>2, <1>3, <1>4, <1>5

LEMMA LookInv ==
    ASSUME ReviewInv, NEW s \in Subjects, Look(s) PROVE ReviewInv'
<1>1. /\ view' = [view EXCEPT ![s] = [ver |-> item.ver, facts |-> item.saved.facts]]
      /\ item.st # "none"
      /\ UNCHANGED <<facts, occ, chn, appPerson, bindsTo, settings, grantOf, item, shown>>
  BY DEF Look
<1>2. item.saved.facts \in Fact /\ item.ver \in Nat
  BY <1>1 DEF ReviewInv, ReviewType, Snapshot, IsMatter
<1>3. ReviewType'
  BY <1>1, <1>2 DEF ReviewInv, ReviewType
<1>4. ViewsTrue'
  BY <1>1, <1>2 DEF ReviewInv, ReviewType, ViewsTrue
<1>. QED
  BY <1>1, <1>3, <1>4 DEF ReviewInv, ConfirmedAsShown

LEMMA OpenInv ==
    ASSUME ReviewInv, welcome_review_open PROVE ReviewInv'
<1>1. UNCHANGED <<facts, occ, chn, appPerson, bindsTo, settings, grantOf, view, shown>>
  BY DEF welcome_review_open
<1>2. /\ IsMatter(item) /\ item.ver \in Nat /\ settings.ver \in Nat /\ item.ident \in BOOLEAN
      /\ Now(item) \in Snapshot
  BY NowType DEF ReviewInv, ReviewType, IsMatter
<1>3. \/ /\ item.st = "none"
         /\ item' = [item EXCEPT !.st = "pending", !.ver = 1, !.cfg = settings.ver, !.saved = Now(item)]
      \/ item.st # "none" /\ item' = Reopened(Now(item))
  BY DEF welcome_review_open
<1>4. /\ IsMatter(item') /\ item'.st = "pending" /\ item'.ver = item.ver + 1
      /\ item'.saved = Now(item)
  <2>1. CASE item.st = "none"
    <3>1. item.ver = 0 /\ item.ver + 1 = 1
      BY <2>1 DEF ReviewInv
    <3>2. item' = [item EXCEPT !.st = "pending", !.ver = 1, !.cfg = settings.ver, !.saved = Now(item)]
      BY <1>3, <2>1
    <3>3. IsMatter(item')
      BY <1>2, <3>2 DEF IsMatter
    <3>4. item'.st = "pending" /\ item'.ver = 1 /\ item'.saved = Now(item)
      BY <1>2, <3>2 DEF IsMatter
    <3>. QED
      BY <3>1, <3>3, <3>4
  <2>2. CASE item.st # "none"
    <3>1. PICK diff \in BOOLEAN :
            item' = [item EXCEPT !.st = "pending", !.ver = @ + 1, !.cfg = settings.ver,
                                 !.saved = Now(item), !.grant = 0, !.ident = @ /\ ~diff]
      BY <1>3, <2>2 DEF Reopened
    <3>. QED
      BY <1>2, <3>1 DEF IsMatter
  <2>. QED
    BY <2>1, <2>2
<1>5. ReviewType' /\ ConfirmedAsShown'
  BY <1>1, <1>4 DEF ReviewInv, ReviewType, ConfirmedAsShown
<1>. QED
  BY <1>1, <1>2, <1>4, <1>5, MatterInv

LEMMA ConfirmLinkType ==
    ASSUME NEW l \in Link, NEW p \in Person PROVE confirm_link(l, p) \in Link
<1>1. l.ver + 1 \in Nat
  BY DEF Link
<1>. QED
  BY <1>1 DEF confirm_link, Link

LEMMA UnlinkedType == ASSUME NEW l \in Link PROVE Unlinked(l) \in Link
<1>1. l.ver + 1 \in Nat
  BY DEF Link
<1>2. [l EXCEPT !.st = "revoked", !.ver = @ + 1] \in Link
  BY <1>1 DEF Link
<1>. QED
  BY <1>2 DEF Unlinked

LEMMA CreateInv ==
    ASSUME ReviewInv, NEW s \in Subjects, NEW p \in People, create_person(s, p)
    PROVE  ReviewInv'
<1>1. /\ occ' = confirm_link(occ, p) /\ item.st = "pending"
      /\ item' = [item EXCEPT !.ver = @ + 1,
                     !.saved = snapshot(appPerson, bindsTo, occ', IF item.chan THEN chn ELSE NoLink)]
      /\ UNCHANGED <<facts, chn, appPerson, bindsTo, settings, grantOf, view, shown>>
  BY DEF create_person
<1>2. occ' \in Link
  BY <1>1, ConfirmLinkType DEF ReviewInv, ReviewType, Person
<1>3. snapshot(appPerson, bindsTo, occ', IF item.chan THEN chn ELSE NoLink) \in Snapshot
  BY <1>2, SnapshotType, NoLinkType DEF ReviewInv, ReviewType
<1>4. /\ IsMatter(item') /\ item'.st = "pending" /\ item'.ver = item.ver + 1
      /\ item'.saved \in Snapshot
  BY <1>1, <1>3 DEF ReviewInv, ReviewType, IsMatter
<1>5. ReviewType' /\ ConfirmedAsShown'
  BY <1>1, <1>2, <1>4 DEF ReviewInv, ReviewType, ConfirmedAsShown
<1>. QED
  BY <1>1, <1>4, <1>5, MatterInv

LEMMA ConfirmIdentityInv ==
    ASSUME ReviewInv, NEW s \in Subjects, NEW p \in People, NEW a \in BOOLEAN, NEW c \in BOOLEAN,
           confirm_identity(s, p, a, c)
    PROVE  ReviewInv'
<1>1. /\ occ' = IF a THEN confirm_link(occ, p) ELSE occ
      /\ chn' = IF c THEN confirm_link(chn, p) ELSE chn
      /\ appPerson' = IF a THEN p ELSE appPerson
      /\ bindsTo' = IF a THEN [person |-> p, ver |-> occ'.ver] ELSE bindsTo
      /\ UNCHANGED <<facts, settings, grantOf, view, shown>>
  BY DEF confirm_identity
<1>2. p \in Person
  BY DEF Person
<1>3. occ' \in Link /\ chn' \in Link
  BY <1>1, <1>2, ConfirmLinkType DEF ReviewInv, ReviewType
<1>4. appPerson' \in Person /\ bindsTo' \in Binding /\ facts \in Fact
  <2>1. occ'.ver \in Nat
    BY <1>3 DEF Link
  <2>. QED
    BY <1>1, <1>2, <2>1 DEF ReviewInv, ReviewType, Binding
<1>5. PICK chan \in BOOLEAN : \E ident \in BOOLEAN :
        item' = [item EXCEPT !.ver = @ + 1, !.person = IF a THEN p ELSE @, !.chan = chan,
                   !.ident = ident, !.grant = 0,
                   !.st = IF ident THEN "identity_confirmed" ELSE "pending",
                   !.saved = snapshot(appPerson', bindsTo', occ', IF chan THEN chn' ELSE NoLink)]
  <2>1. (item.chan \/ c) \in BOOLEAN /\ (item.ident \/ a) \in BOOLEAN
    OBVIOUS
  <2>. QED
    BY <2>1, Zenon DEF confirm_identity
<1>6. PICK ident \in BOOLEAN :
        item' = [item EXCEPT !.ver = @ + 1, !.person = IF a THEN p ELSE @, !.chan = chan,
                   !.ident = ident, !.grant = 0,
                   !.st = IF ident THEN "identity_confirmed" ELSE "pending",
                   !.saved = snapshot(appPerson', bindsTo', occ', IF chan THEN chn' ELSE NoLink)]
  BY <1>5
<1>7. snapshot(appPerson', bindsTo', occ', IF chan THEN chn' ELSE NoLink) \in Snapshot
  BY <1>3, <1>4, SnapshotType, NoLinkType
<1>8. /\ IsMatter(item') /\ item'.st \in {"identity_confirmed", "pending"}
      /\ item'.ver = item.ver + 1 /\ item'.saved \in Snapshot
  BY <1>2, <1>6, <1>7 DEF ReviewInv, ReviewType, IsMatter
<1>9. ReviewType' /\ ConfirmedAsShown'
  BY <1>1, <1>3, <1>4, <1>8 DEF ReviewInv, ReviewType, ConfirmedAsShown
<1>. QED
  BY <1>1, <1>8, <1>9, MatterInv

LEMMA ConfirmContentInv ==
    ASSUME ReviewInv, NEW s \in Subjects, confirm_content(s) PROVE ReviewInv'
<1>1. /\ item.st # "none" /\ view[s].ver = item.ver
      /\ item' = [item EXCEPT !.ver = @ + 1, !.st = "confirmed", !.grant = grantOf[s], !.by = s]
      /\ shown' = [facts |-> view[s].facts, person |-> item.person, grant |-> grantOf[s]]
      /\ UNCHANGED <<facts, occ, chn, appPerson, bindsTo, settings, grantOf, view>>
  BY DEF confirm_content, Decidable
<1>2. grantOf[s] \in Nat /\ view[s].facts \in Fact /\ item.person \in Person
      /\ item.saved \in Snapshot /\ view[s].facts = item.saved.facts
  BY <1>1 DEF ReviewInv, ReviewType, ViewsTrue, IsMatter
<1>3. /\ IsMatter(item') /\ item'.st = "confirmed" /\ item'.ver = item.ver + 1
      /\ item'.saved = item.saved /\ item'.person = item.person
      /\ item'.grant = grantOf[s] /\ item'.by = s
  BY <1>1, <1>2 DEF ReviewInv, ReviewType, IsMatter
<1>4. ReviewType' /\ ConfirmedAsShown'
  BY <1>1, <1>2, <1>3 DEF ReviewInv, ReviewType, ConfirmedAsShown
<1>. QED
  BY <1>1, <1>2, <1>3, <1>4, MatterInv

LEMMA CloseInv ==
    ASSUME ReviewInv, NEW s \in Subjects, NEW d \in {"rejected", "revoked"}, close_matter(s, d)
    PROVE  ReviewInv'
<1>1. /\ item.st # "none"
      /\ item' = [item EXCEPT !.ver = @ + 1, !.st = d, !.person = Nobody, !.chan = FALSE,
                              !.ident = FALSE, !.grant = 0]
      /\ shown' = NotShown
      /\ UNCHANGED <<facts, settings, grantOf, view>>
  BY DEF close_matter, Decidable
<1>2. /\ occ' \in {occ, Unlinked(occ)} /\ chn' \in {chn, Unlinked(chn)}
      /\ appPerson' \in {appPerson, Nobody}
      /\ bindsTo' \in {bindsTo, [person |-> Nobody, ver |-> 0]}
  BY DEF close_matter
<1>3. /\ occ' \in Link /\ chn' \in Link /\ appPerson' \in Person /\ bindsTo' \in Binding
      /\ NotShown \in [facts : Fact, person : Person, grant : Nat]
  BY <1>2, UnlinkedType DEF ReviewInv, ReviewType, Person, Binding, NotShown, Fact
<1>4. /\ IsMatter(item') /\ item'.st = d /\ item'.ver = item.ver + 1
      /\ item'.saved = item.saved /\ item.saved \in Snapshot
  BY <1>1 DEF ReviewInv, ReviewType, IsMatter, Person
<1>5. ReviewType' /\ ConfirmedAsShown'
  BY <1>1, <1>3, <1>4 DEF ReviewInv, ReviewType, ConfirmedAsShown
<1>. QED
  BY <1>1, <1>4, <1>5, MatterInv

LEMMA ReviewInitInv == ReviewInit => ReviewInv
<1>. SUFFICES ASSUME ReviewInit PROVE ReviewInv
  OBVIOUS
<1>1. ReviewType
  BY NoLinkType DEF ReviewInit, ReviewType, IsMatter, Fact, Binding, Person, NotShown, NoView
<1>2. ViewsTrue /\ ConfirmedAsShown /\ item.st = "none" /\ item.ver = 0
  BY DEF ReviewInit, ViewsTrue, ConfirmedAsShown, NoView
<1>. QED
  BY <1>1, <1>2 DEF ReviewInv

LEMMA ReviewNextInv == ReviewInv /\ [ReviewNext]_rvars => ReviewInv'
<1>. SUFFICES ASSUME ReviewInv, [ReviewNext]_rvars PROVE ReviewInv'
  OBVIOUS
<1>1. CASE UNCHANGED rvars
  BY <1>1, WorldInv DEF rvars, ReviewInv, ReviewType
<1>. QED
  BY <1>1, WorldSteps, LookInv, OpenInv, CreateInv, ConfirmIdentityInv, ConfirmContentInv, CloseInv
     DEF ReviewNext

-----------------------------------------------------------------------------
(* Source.                                                                  *)

\* The revisions of the stored projection never go back.
VersionGrows ==
    /\ IsVersion(ver')
    /\ ver'.o >= ver.o /\ ver'.m >= ver.m /\ ver'.ent >= ver.ent
    /\ ~ver'.known => ver'.o = 0 /\ ver'.m = 0

\* A reading of this moment.
ReadNow == {p \in Projection : p.o = pms.order /\ p.m = pms.member}

LEMMA FeedType ==
    ASSUME SourceType, NEW e \in 1..Len(pms.feed)
    PROVE  /\ e \in DOMAIN inbox /\ e \in Nat /\ e # 0
           /\ pms.feed[e] \in Feed
           /\ pms.feed[e].agg \in {"order", "member"} /\ pms.feed[e].rev \in Nat
<1>1. pms.feed[e] \in Feed /\ Len(pms.feed) \in Nat
  BY DEF SourceType
<1>2. DOMAIN inbox = 1..(MaxChanges + 1) /\ Len(pms.feed) <= MaxChanges + 1
  BY DEF SourceType
<1>3. e \in 1..(MaxChanges + 1)
  BY <1>1, <1>2, SourceAssumption
<1>. QED
  BY <1>1, <1>2, <1>3 DEF Feed

LEMMA CoveredStays ==
    ASSUME SourceType, VersionGrows, UNCHANGED pms, NEW e \in 1..Len(pms.feed), Covered(e)
    PROVE  Covered(e)'
BY FeedType DEF SourceType, IsVersion, VersionGrows, Covered

LEMMA ClaimFields ==
    ASSUME SourceType, NEW w \in WWorkers
    PROVE  /\ wk[w].ev \in Nat /\ wk[w].got \in Projection \cup {Nil}
           /\ wk[w].got # Nil => wk[w].ev # 0
BY DEF SourceType, Claim, Idle

LEMMA HeldType == SourceType => Held \subseteq Projection
BY ClaimFields DEF SourceType, IsVersion, Held, Readers, Projection

LEMMA HeldInv ==
    ASSUME SourceType, ReadingsOrdered, UNCHANGED pms, Held' \subseteq Held \cup ReadNow
    PROVE  ReadingsOrdered'
<1>1. \A p \in Held \cup ReadNow : p.o \in Nat /\ p.m \in Nat /\ p.o <= pms.order /\ p.m <= pms.member
  BY HeldType DEF ReadingsOrdered, ReadNow, Projection, SourceType
<1>2. \A p, q \in Held \cup ReadNow : NoLater(p, q) \/ NoLater(q, p)
  BY <1>1, HeldType DEF ReadingsOrdered, ReadNow, Projection, NoLater, SourceType
<1>. QED
  BY <1>1, <1>2 DEF ReadingsOrdered, NoLater

\* What every step but the publication of an event has to keep.
LEMMA SourceStepInv ==
    ASSUME SourceInv, SourceType', UNCHANGED pms, VersionGrows, Held' \subseteq Held \cup ReadNow,
           \A e \in DOMAIN inbox :
              /\ inbox[e].st # "none" => inbox'[e].st # "none"
              /\ inbox'[e].st # "none" => inbox[e].st # "none" \/ e <= Len(pms.feed)
              /\ inbox'[e].st = "completed" => inbox[e].st = "completed" \/ Covered(e)',
           \A w \in WWorkers : wk'[w].ev <= Len(pms.feed),
           pull' # Nil => pull'.upto <= Len(pms.feed),
           scan'.head <= Len(pms.feed), src'.cursor <= Len(pms.feed),
           \A e \in 1..Len(pms.feed) :
              e <= src'.cursor => e <= src.cursor \/ inbox'[e].st # "none" \/ Covered(e)',
           ScanReaches'
    PROVE  SourceInv'
<1>. USE DEF SourceInv
<1>1. DOMAIN inbox' = DOMAIN inbox
  BY DEF SourceType
<1>2. WithinFeed'
  BY <1>1 DEF WithinFeed, Current
<1>3. ReadingsOrdered'
  BY HeldInv
<1>4. NoEventLost'
  <2>1. ASSUME NEW e \in 1..Len(pms.feed)
        PROVE  /\ e <= src'.cursor => inbox'[e].st # "none" \/ Covered(e)'
               /\ inbox'[e].st = "completed" => Covered(e)'
    BY <2>1, FeedType, CoveredStays DEF NoEventLost
  <2>. QED
    BY <2>1 DEF NoEventLost
<1>. QED
  BY <1>2, <1>3, <1>4 DEF VersionGrows

LEMMA ScanKept ==
    ASSUME SourceInv, VersionGrows, UNCHANGED <<pms, scan>>
    PROVE  ScanReaches'
<1>1. \A e \in 1..scan.head : e \in 1..Len(pms.feed)
  BY DEF SourceInv, SourceType, WithinFeed
<1>. QED
  BY <1>1, CoveredStays DEF SourceInv, ScanReaches

\* What applying a held reading leaves behind.
LEMMA ApplyResult ==
    ASSUME SourceInv, NEW p \in Held \cup ReadNow, NEW a, a = apply_snapshot(p)
    PROVE  /\ IsVersion(a.row)
           /\ a.row.o >= ver.o /\ a.row.m >= ver.m /\ a.row.ent = ver.ent
           /\ ~a.row.known => a.row.o = 0 /\ a.row.m = 0
           /\ \/ a.row.known = ver.known /\ a.row.o = ver.o /\ a.row.m = ver.m /\ a.row.h = ver.h
              \/ a.row.o = p.o /\ a.row.m = p.m /\ a.row.h = p.h
           /\ a.out \in {"stored", "stale"} => a.row.o >= p.o /\ a.row.m >= p.m
<1>1. /\ p \in Projection /\ p.o \in Nat /\ p.m \in Nat /\ p.h \in Variants \cup {0}
      /\ IsVersion(ver)
  BY HeldType DEF SourceInv, SourceType, ReadNow, Projection
<1>2. CASE contradicts(p)
  <2>1. /\ a.out = "conflict"
        /\ a.row = [ver EXCEPT !.inv = TRUE, !.conf = TRUE]
    BY <1>2 DEF apply_snapshot
  <2>2. /\ a.row.known = ver.known /\ a.row.o = ver.o /\ a.row.m = ver.m /\ a.row.h = ver.h
        /\ a.row.ent = ver.ent /\ DOMAIN a.row = DOMAIN ver
    BY <1>1, <2>1 DEF IsVersion
  <2>3. IsVersion(a.row)
    BY <1>1, <2>2 DEF IsVersion
  <2>4. ~ver.known => ver.o = 0 /\ ver.m = 0
    BY DEF SourceInv
  <2>. QED
    BY <1>1, <2>1, <2>2, <2>3, <2>4 DEF IsVersion
<1>3. CASE ~contradicts(p) /\ stale(p)
  <2>1. a.row = ver /\ ver.known /\ a.out = "stale"
    BY <1>3 DEF apply_snapshot, stale
  <2>. DEFINE v == [o |-> ver.o, m |-> ver.m, h |-> ver.h]
  <2>2. v \in Held /\ v.o = ver.o /\ v.m = ver.m
    BY <2>1 DEF Held
  <2>3. NoLater(p, v) \/ NoLater(v, p)
    <3>1. v.o <= pms.order /\ v.m <= pms.member
      BY <2>2 DEF SourceInv, ReadingsOrdered
    <3>. QED
      BY <2>2, <3>1 DEF SourceInv, ReadingsOrdered, ReadNow, NoLater
  <2>4. p.o <= ver.o /\ p.m <= ver.m
    BY <1>1, <1>3, <2>2, <2>3 DEF stale, NoLater, IsVersion
  <2>5. ver.o \in Nat /\ ver.m \in Nat /\ IsVersion(a.row)
    BY <1>1, <2>1 DEF IsVersion
  <2>6. ver.o >= p.o /\ ver.m >= p.m /\ ver.o >= ver.o /\ ver.m >= ver.m
    BY <1>1, <2>4, <2>5
  <2>. QED
    BY <2>1, <2>5, <2>6
<1>4. CASE ~contradicts(p) /\ ~stale(p)
  <2>1. p.o >= ver.o /\ p.m >= ver.m
    BY <1>1, <1>4 DEF stale, IsVersion, SourceInv
  <2>2. CASE related_behind(p)
    <3>1. a.row = ver /\ a.out = "behind"
      BY <1>4, <2>2 DEF apply_snapshot
    <3>2. ~ver.known => ver.o = 0 /\ ver.m = 0
      BY DEF SourceInv
    <3>. QED
      BY <1>1, <3>1, <3>2 DEF IsVersion
  <2>3. CASE ~related_behind(p)
    <3>1. a.row = [ver EXCEPT !.known = TRUE, !.o = p.o, !.m = p.m, !.h = p.h,
                              !.inv = FALSE, !.conf = FALSE]
      BY <1>4, <2>3 DEF apply_snapshot
    <3>2. /\ a.row.known = TRUE /\ a.row.o = p.o /\ a.row.m = p.m /\ a.row.h = p.h
          /\ a.row.ent = ver.ent /\ DOMAIN a.row = DOMAIN ver
      BY <1>1, <3>1 DEF IsVersion
    <3>3. IsVersion(a.row)
      BY <1>1, <3>2 DEF IsVersion
    <3>. QED
      BY <1>1, <2>1, <3>2, <3>3
  <2>. QED
    BY <2>2, <2>3
<1>. QED
  BY <1>2, <1>3, <1>4

LEMMA VersionKept == ASSUME SourceInv, UNCHANGED ver PROVE VersionGrows
BY DEF SourceInv, SourceType, IsVersion, VersionGrows

LEMMA HeldStep ==
    ASSUME SourceType, UNCHANGED pms,
           \A w \in WWorkers : \/ wk'[w] = wk[w] \/ wk'[w].got = Nil \/ wk'[w].got \in ReadNow
                                \/ pms.feed[wk'[w].ev].agg # "order",
           scan'.item = scan.item \/ scan'.item = Nil \/ scan'.item \in ReadNow,
           \/ ver'.known = ver.known /\ ver'.o = ver.o /\ ver'.m = ver.m /\ ver'.h = ver.h
           \/ \E p \in Held \cup ReadNow : ver'.o = p.o /\ ver'.m = p.m /\ ver'.h = p.h
    PROVE  Held' \subseteq Held \cup ReadNow
<1>1. ASSUME NEW w \in Readers' PROVE wk'[w].got \in Held \cup ReadNow
  BY <1>1 DEF Held, Readers
<1>2. scan'.item # Nil => scan'.item \in Held \cup ReadNow
  BY DEF Held
<1>3. ver'.known => [o |-> ver'.o, m |-> ver'.m, h |-> ver'.h] \in Held \cup ReadNow
  <2>1. CASE ver'.known = ver.known /\ ver'.o = ver.o /\ ver'.m = ver.m /\ ver'.h = ver.h
    BY <2>1 DEF Held
  <2>2. ASSUME NEW p \in Held \cup ReadNow, ver'.o = p.o, ver'.m = p.m, ver'.h = p.h
        PROVE  [o |-> ver'.o, m |-> ver'.m, h |-> ver'.h] = p
    <3>1. p \in Projection
      BY HeldType DEF ReadNow
    <3>. QED
      BY <2>2, <3>1 DEF Projection
  <2>. QED
    BY <2>1, <2>2
<1>4. Held' \subseteq {wk'[w].got : w \in Readers'}
        \cup {p \in {scan'.item} : p # Nil}
        \cup {p \in {[o |-> ver'.o, m |-> ver'.m, h |-> ver'.h]} : ver'.known}
  BY DEF Held
<1>. QED
  BY <1>1, <1>2, <1>3, <1>4

LEMMA AcceptResult ==
    ASSUME SourceType, NEW E
    PROVE  /\ accept_tx(E) \in [1..(MaxChanges + 1) -> Entry]
           /\ \A e \in DOMAIN inbox :
                 accept_tx(E)[e].st = IF e \in E /\ inbox[e].st = "none" THEN "queued"
                                      ELSE inbox[e].st
BY DEF SourceType, accept_tx, Entry

\* The steps of the push, the pull and the scan.
LEMMA ReceiveInv ==
    ASSUME SourceInv, NEW e \in DOMAIN inbox, receive(e) PROVE SourceInv'
<1>1. /\ e \in 1..Len(pms.feed) /\ inbox' = accept_tx({e})
      /\ UNCHANGED <<pms, wk, pull, src, scan, ver>>
  BY DEF receive
<1>2. SourceType /\ WithinFeed /\ VersionGrows /\ Len(pms.feed) \in Nat
  BY <1>1, VersionKept DEF SourceInv, SourceType
<1>3. SourceType'
  BY <1>1, <1>2, AcceptResult DEF SourceType
<1>4. Held' \subseteq Held \cup ReadNow
  BY <1>1, <1>2, HeldStep
<1>5. ScanReaches'
  BY <1>1, <1>2, ScanKept
<1>. QED
  BY <1>1, <1>2, <1>3, <1>4, <1>5, AcceptResult, SourceStepInv DEF WithinFeed

LEMMA PullInv ==
    ASSUME SourceInv, PullPage PROVE SourceInv'
<1>1. UNCHANGED <<pms, inbox, wk, src, scan, ver>>
  BY DEF PullPage
<1>2. SourceType /\ WithinFeed /\ VersionGrows /\ Len(pms.feed) \in Nat
  BY <1>1, VersionKept DEF SourceInv, SourceType
<1>3. /\ pull' \in [at : Nat, upto : Nat] /\ pull'.upto <= Len(pms.feed)
  BY <1>2, SourceAssumption DEF PullPage, SourceType
<1>4. SourceType'
  BY <1>1, <1>2, <1>3 DEF SourceType
<1>5. Held' \subseteq Held \cup ReadNow
  BY <1>1, <1>2, HeldStep
<1>6. ScanReaches'
  BY <1>1, <1>2, ScanKept
<1>. QED
  BY <1>1, <1>2, <1>3, <1>4, <1>5, <1>6, SourceStepInv DEF WithinFeed

LEMMA PageInv ==
    ASSUME SourceInv, accept_page PROVE SourceInv'
<1>1. pull # Nil /\ pull' = Nil /\ UNCHANGED <<pms, wk, scan, ver>>
  BY DEF accept_page
<1>2. /\ SourceType /\ WithinFeed /\ VersionGrows /\ Len(pms.feed) \in Nat
      /\ pull.at \in Nat /\ pull.upto \in Nat /\ pull.upto <= Len(pms.feed)
  BY <1>1, VersionKept DEF SourceInv, SourceType, WithinFeed
<1>3. Held' \subseteq Held \cup ReadNow
  BY <1>1, <1>2, HeldStep
<1>4. ScanReaches'
  BY <1>1, <1>2, ScanKept
<1>5. CASE src.cursor = pull.at
  <2>1. /\ inbox' = accept_tx((pull.at + 1)..pull.upto)
        /\ src' = [src EXCEPT !.cursor = pull.upto]
    BY <1>5 DEF accept_page
  <2>2. SourceType' /\ src'.cursor = pull.upto
    BY <1>1, <1>2, <2>1, AcceptResult DEF SourceType
  <2>3. ASSUME NEW e \in DOMAIN inbox
        PROVE  /\ inbox[e].st # "none" => inbox'[e].st = inbox[e].st
               /\ inbox'[e].st # "none" =>
                     (inbox'[e].st = "queued" /\ e <= Len(pms.feed)) \/ inbox'[e].st = inbox[e].st
               /\ e \in (pull.at + 1)..pull.upto => inbox'[e].st # "none"
    BY <1>2, <2>1, AcceptResult
  <2>4. ASSUME NEW e \in 1..Len(pms.feed), e <= pull.upto
        PROVE  e <= src.cursor \/ inbox'[e].st # "none"
    BY <1>2, <1>5, <2>3, <2>4, FeedType
  <2>. QED
    BY <1>1, <1>2, <1>3, <1>4, <2>2, <2>3, <2>4, SourceStepInv DEF WithinFeed
<1>6. CASE src.cursor # pull.at
  <2>1. UNCHANGED <<inbox, src>>
    BY <1>6 DEF accept_page
  <2>2. SourceType'
    BY <1>1, <1>2, <2>1 DEF SourceType
  <2>. QED
    BY <1>1, <1>2, <1>3, <1>4, <2>1, <2>2, SourceStepInv DEF WithinFeed
<1>. QED
  BY <1>5, <1>6

LEMMA RebuildInv ==
    ASSUME SourceInv, require_rebuild \/ start_rebuild PROVE SourceInv'
<1>1. UNCHANGED <<pms, inbox, wk, pull, ver>>
  BY DEF require_rebuild, start_rebuild
<1>2. SourceType /\ WithinFeed /\ VersionGrows /\ Len(pms.feed) \in Nat
  BY <1>1, VersionKept DEF SourceInv, SourceType
<1>3. /\ DOMAIN src' = {"cursor", "head", "rebuilding"} /\ src'.cursor = src.cursor
      /\ \/ scan' = scan
         \/ scan' = [open |-> TRUE, head |-> Len(pms.feed), complete |-> FALSE, item |-> Nil]
  <2>1. CASE require_rebuild
    BY <1>2, <2>1 DEF require_rebuild, SourceType
  <2>2. CASE start_rebuild
    BY <1>2, <2>2 DEF start_rebuild, SourceType
  <2>. QED
    BY <2>1, <2>2
<1>4. SourceType' /\ scan'.head <= Len(pms.feed)
  BY <1>1, <1>2, <1>3 DEF SourceType, WithinFeed
<1>5. Held' \subseteq Held \cup ReadNow
  BY <1>1, <1>2, <1>3, HeldStep
<1>6. ScanReaches'
  <2>1. CASE scan' = scan
    BY <1>1, <1>2, <2>1, ScanKept
  <2>2. CASE scan' # scan
    BY <1>3, <2>2 DEF ScanReaches
  <2>. QED
    BY <2>1, <2>2
<1>. QED
  BY <1>1, <1>2, <1>3, <1>4, <1>5, <1>6, SourceStepInv DEF WithinFeed

LEMMA CurrentType ==
    ASSUME SourceInv
    PROVE  /\ \A h \in Variants \cup {0} :
                 order(h) \in ReadNow /\ order(h) # Nil /\ order(h).o = pms.order /\ order(h).m = pms.member
           /\ \A e \in 1..Len(pms.feed) :
                 pms.feed[e].rev <= IF pms.feed[e].agg = "order" THEN pms.order ELSE pms.member
BY SourceAssumption DEF SourceInv, SourceType, WithinFeed, Current, order, ReadNow, Projection

LEMMA CommitScanInv ==
    ASSUME SourceInv, commit_scan PROVE SourceInv'
<1>1. /\ scan' = [scan EXCEPT !.complete = TRUE, !.item = order(0)]
      /\ UNCHANGED <<pms, inbox, wk, pull, src, ver>>
  BY DEF commit_scan
<1>2. SourceType /\ WithinFeed /\ VersionGrows /\ Len(pms.feed) \in Nat
  BY <1>1, VersionKept DEF SourceInv, SourceType
<1>3. /\ order(0) \in ReadNow /\ order(0) \in Projection /\ order(0) # Nil
      /\ order(0).o = pms.order /\ order(0).m = pms.member
  BY CurrentType DEF ReadNow
<1>4. /\ DOMAIN scan' = {"open", "head", "complete", "item"}
      /\ scan'.head = scan.head /\ scan'.item = order(0)
  BY <1>1, <1>2 DEF SourceType
<1>5. SourceType' /\ scan'.head <= Len(pms.feed)
  BY <1>1, <1>2, <1>3, <1>4 DEF SourceType, WithinFeed
<1>6. Held' \subseteq Held \cup ReadNow
  BY <1>1, <1>2, <1>3, <1>4, HeldStep
<1>7. ScanReaches'
  <2>1. ASSUME NEW e \in 1..scan'.head
        PROVE  pms.feed[e].rev <= IF pms.feed[e].agg = "order" THEN pms.order ELSE pms.member
    <3>1. e \in 1..Len(pms.feed)
      BY <1>2, <1>4 DEF SourceType, WithinFeed
    <3>. QED
      BY <3>1, CurrentType
  <2>. QED
    BY <1>1, <1>3, <1>4, <2>1 DEF ScanReaches
<1>. QED
  BY <1>1, <1>2, <1>5, <1>6, <1>7, SourceStepInv DEF WithinFeed

LEMMA DrainInv ==
    ASSUME SourceInv, drain_scan_one PROVE SourceInv'
<1>. DEFINE p == scan.item
<1>1. PICK a : /\ a = apply_snapshot(p) /\ p # Nil /\ ver' = a.row
               /\ scan' = IF a.out \in {"stored", "stale"} THEN [scan EXCEPT !.item = Nil] ELSE scan
               /\ UNCHANGED <<pms, inbox, wk, pull, src>>
  BY DEF drain_scan_one
<1>2. SourceType /\ WithinFeed /\ Len(pms.feed) \in Nat
  BY DEF SourceInv, SourceType
<1>3. p \in Held /\ p \in Projection
  BY <1>1, <1>2, HeldType DEF Held
<1>4. /\ IsVersion(a.row)
      /\ a.row.o >= ver.o /\ a.row.m >= ver.m /\ a.row.ent = ver.ent
      /\ ~a.row.known => a.row.o = 0 /\ a.row.m = 0
      /\ \/ a.row.known = ver.known /\ a.row.o = ver.o /\ a.row.m = ver.m /\ a.row.h = ver.h
         \/ a.row.o = p.o /\ a.row.m = p.m /\ a.row.h = p.h
      /\ a.out \in {"stored", "stale"} => a.row.o >= p.o /\ a.row.m >= p.m
  BY <1>1, <1>3, ApplyResult
<1>5. VersionGrows
  BY <1>1, <1>2, <1>4 DEF VersionGrows, SourceType, IsVersion
<1>6. /\ DOMAIN scan' = {"open", "head", "complete", "item"}
      /\ scan'.head = scan.head /\ scan'.complete = scan.complete /\ scan'.item \in {p, Nil}
      /\ scan'.item = Nil => a.out \in {"stored", "stale"}
      /\ scan'.item # Nil => scan' = scan
  BY <1>1, <1>2 DEF SourceType
<1>7. SourceType' /\ scan'.head <= Len(pms.feed)
  BY <1>1, <1>2, <1>4, <1>6 DEF SourceType, WithinFeed
<1>8. Held' \subseteq Held \cup ReadNow
  BY <1>1, <1>2, <1>3, <1>4, <1>6, HeldStep
<1>9. ScanReaches'
  <2>1. CASE scan'.item # Nil
    BY <1>1, <1>5, <1>6, <2>1, ScanKept
  <2>2. ASSUME scan'.item = Nil, scan.complete, NEW e \in 1..scan.head
        PROVE  Covered(e)'
    <3>1. e \in 1..Len(pms.feed)
      BY <1>2 DEF SourceType, WithinFeed
    <3>2. pms.feed[e].rev <= IF pms.feed[e].agg = "order" THEN p.o ELSE p.m
      BY <1>1, <2>2 DEF SourceInv, ScanReaches
    <3>3. ver'.o >= p.o /\ ver'.m >= p.m /\ ver'.o \in Nat /\ ver'.m \in Nat
      BY <1>1, <1>4, <1>6, <2>2 DEF IsVersion
    <3>4. p.o \in Nat /\ p.m \in Nat /\ pms.feed[e].rev \in Nat
      BY <1>2, <1>3, <3>1, FeedType DEF Projection
    <3>. QED
      BY <1>1, <3>2, <3>3, <3>4 DEF Covered
  <2>. QED
    BY <1>6, <2>1, <2>2 DEF ScanReaches
<1>. QED
  BY <1>1, <1>2, <1>5, <1>7, <1>8, <1>9, SourceStepInv DEF WithinFeed

LEMMA FinishInv ==
    ASSUME SourceInv, finish_scan PROVE SourceInv'
<1>1. /\ scan.complete /\ scan.item = Nil
      /\ src' = [src EXCEPT !.cursor = scan.head, !.head = Nil]
      /\ UNCHANGED <<pms, inbox, wk, pull, scan, ver>>
  BY DEF finish_scan, ScanDone
<1>2. SourceType /\ WithinFeed /\ VersionGrows /\ Len(pms.feed) \in Nat
  BY <1>1, VersionKept DEF SourceInv, SourceType
<1>3. DOMAIN src' = {"cursor", "head", "rebuilding"} /\ src'.cursor = scan.head
  BY <1>1, <1>2 DEF SourceType
<1>4. SourceType'
  BY <1>1, <1>2, <1>3 DEF SourceType
<1>5. Held' \subseteq Held \cup ReadNow
  BY <1>1, <1>2, HeldStep
<1>6. ScanReaches'
  BY <1>1, <1>2, ScanKept
<1>7. ASSUME NEW e \in 1..Len(pms.feed), e <= src'.cursor PROVE Covered(e)'
  <2>1. e \in 1..scan.head
    BY <1>2, <1>3, <1>7 DEF SourceType
  <2>2. Covered(e)
    BY <1>1, <2>1 DEF SourceInv, ScanReaches
  <2>. QED
    BY <1>1, <2>2 DEF Covered
<1>. QED
  BY <1>1, <1>2, <1>3, <1>4, <1>5, <1>6, <1>7, SourceStepInv DEF WithinFeed

LEMMA RefreshInv ==
    ASSUME SourceInv, NEW h \in Variants, refresh_orders(h) PROVE SourceInv'
<1>1. PICK a : /\ a = apply_snapshot(order(h)) /\ ver' = a.row
               /\ UNCHANGED <<pms, inbox, wk, pull, src, scan>>
  BY DEF refresh_orders
<1>2. SourceType /\ WithinFeed /\ Len(pms.feed) \in Nat
  BY DEF SourceInv, SourceType
<1>3. order(h) \in ReadNow
  BY CurrentType
<1>4. /\ IsVersion(a.row)
      /\ a.row.o >= ver.o /\ a.row.m >= ver.m /\ a.row.ent = ver.ent
      /\ ~a.row.known => a.row.o = 0 /\ a.row.m = 0
      /\ \/ a.row.known = ver.known /\ a.row.o = ver.o /\ a.row.m = ver.m /\ a.row.h = ver.h
         \/ a.row.o = order(h).o /\ a.row.m = order(h).m /\ a.row.h = order(h).h
  BY <1>1, <1>3, ApplyResult
<1>5. VersionGrows
  BY <1>1, <1>2, <1>4 DEF VersionGrows, SourceType, IsVersion
<1>6. SourceType'
  BY <1>1, <1>2, <1>4 DEF SourceType
<1>7. Held' \subseteq Held \cup ReadNow
  BY <1>1, <1>2, <1>3, <1>4, HeldStep
<1>8. ScanReaches'
  BY <1>1, <1>5, ScanKept
<1>. QED
  BY <1>1, <1>2, <1>5, <1>6, <1>7, <1>8, SourceStepInv DEF WithinFeed

-----------------------------------------------------------------------------
(* The consumers.                                                           *)

LEMMA ClaimInboxInv ==
    ASSUME SourceInv, NEW w \in WWorkers, NEW e \in DOMAIN inbox, NEW h \in Variants \cup {Nil},
           claim(w, e, h)
    PROVE  SourceInv'
<1>. DEFINE got == IF h = Nil THEN Nil ELSE ReadBack(e, h)
            c == [ev |-> e, fence |-> inbox[e].fence + 1, got |-> got]
            q == [st |-> "processing", fence |-> inbox[e].fence + 1]
<1>1. /\ inbox[e].st \in {"queued", "processing"}
      /\ inbox' = [inbox EXCEPT ![e] = q] /\ wk' = [wk EXCEPT ![w] = c]
      /\ UNCHANGED <<pms, pull, src, scan, ver>>
  BY DEF claim
<1>2. SourceType /\ WithinFeed /\ VersionGrows /\ Len(pms.feed) \in Nat
  BY <1>1, VersionKept DEF SourceInv, SourceType
<1>3. e \in 1..Len(pms.feed)
  BY <1>1, <1>2, SourceAssumption DEF SourceType, WithinFeed
<1>4. /\ got \in Projection \cup {Nil}
      /\ got = Nil \/ got \in ReadNow \/ pms.feed[e].agg # "order"
  BY <1>2, CurrentType DEF ReadBack, Projection, SourceType, ReadNow
<1>5. inbox[e].fence + 1 \in Nat
  BY <1>2 DEF SourceType, Entry
<1>. HIDE DEF got
<1>6. c \in Claim /\ c.ev = e /\ c.got = got /\ q \in Entry /\ q.st = "processing"
  BY <1>3, <1>4, <1>5, FeedType, <1>2 DEF Claim, Entry
<1>. HIDE DEF c, q
<1>7. /\ SourceType' /\ wk'[w] = c /\ inbox'[e] = q
      /\ \A v \in WWorkers \ {w} : wk'[v] = wk[v]
      /\ \A d \in DOMAIN inbox \ {e} : inbox'[d] = inbox[d]
  BY <1>1, <1>2, <1>6 DEF SourceType
<1>8. Held' \subseteq Held \cup ReadNow
  BY <1>1, <1>2, <1>4, <1>6, <1>7, HeldStep
<1>9. ScanReaches'
  BY <1>1, <1>2, ScanKept
<1>. QED
  BY <1>1, <1>2, <1>3, <1>6, <1>7, <1>8, <1>9, SourceStepInv DEF WithinFeed

LEMMA ClosedResult ==
    ASSUME SourceType, NEW e \in DOMAIN inbox, NEW q \in BOOLEAN
    PROVE  /\ Closed(e, q) \in [1..(MaxChanges + 1) -> Entry]
           /\ Closed(e, q)[e].st = IF q THEN "quarantined" ELSE "completed"
           /\ \A d \in DOMAIN inbox \ {e} : Closed(e, q)[d] = inbox[d]
BY DEF SourceType, Closed, Entry

LEMMA RequeuedResult ==
    ASSUME SourceType, NEW e \in DOMAIN inbox
    PROVE  /\ Requeued(e) \in [1..(MaxChanges + 1) -> Entry]
           /\ Requeued(e)[e].st \in {"queued", "quarantined"}
           /\ \A d \in DOMAIN inbox \ {e} : Requeued(e)[d] = inbox[d]
<1>1. CASE inbox[e].fence >= MaxReads
  BY <1>1, ClosedResult DEF Requeued
<1>2. CASE ~(inbox[e].fence >= MaxReads)
  <2>1. Requeued(e) = [inbox EXCEPT ![e].st = "queued"]
    BY <1>2 DEF Requeued
  <2>. QED
    BY <2>1 DEF SourceType, Entry
<1>. QED
  BY <1>1, <1>2

\* A consumer lets its entry go; one it completed is covered.
LEMMA ConsumerStepInv ==
    ASSUME SourceInv, NEW w \in WWorkers, NEW e, e = wk[w].ev, e # 0, wk' = [wk EXCEPT ![w] = Idle],
           UNCHANGED <<pms, pull, src, scan>>, VersionGrows,
           \/ ver'.known = ver.known /\ ver'.o = ver.o /\ ver'.m = ver.m /\ ver'.h = ver.h
           \/ \E p \in Held \cup ReadNow : ver'.o = p.o /\ ver'.m = p.m /\ ver'.h = p.h,
           inbox' \in [1..(MaxChanges + 1) -> Entry],
           \A d \in DOMAIN inbox \ {e} : inbox'[d] = inbox[d],
           \/ inbox' = inbox \/ inbox'[e].st \in {"queued", "quarantined"}
           \/ inbox'[e].st = "completed" /\ Covered(e)'
    PROVE  SourceInv'
<1>1. SourceType /\ WithinFeed /\ Len(pms.feed) \in Nat
  BY DEF SourceInv, SourceType
<1>2. e \in 1..Len(pms.feed) /\ e <= Len(pms.feed)
  BY <1>1, ClaimFields DEF WithinFeed
<1>3. Idle.ev = 0 /\ Idle.got = Nil
  BY DEF Idle
<1>4. /\ wk' \in [WWorkers -> Claim \cup {Idle}] /\ wk'[w] = Idle
      /\ \A v \in WWorkers \ {w} : wk'[v] = wk[v]
  BY <1>1 DEF SourceType
<1>5. SourceType'
  BY <1>1, <1>4 DEF SourceType, VersionGrows
<1>6. Held' \subseteq Held \cup ReadNow
  BY <1>1, <1>3, <1>4, HeldStep
<1>7. ScanReaches'
  BY ScanKept
<1>8. \A v \in WWorkers : wk'[v].ev <= Len(pms.feed)
  BY <1>1, <1>3, <1>4 DEF WithinFeed
<1>9. ASSUME NEW d \in DOMAIN inbox
      PROVE  /\ inbox[d].st # "none" => inbox'[d].st # "none"
             /\ inbox'[d].st # "none" => inbox[d].st # "none" \/ d <= Len(pms.feed)
             /\ inbox'[d].st = "completed" => inbox[d].st = "completed" \/ Covered(d)'
  <2>1. CASE d = e
    BY <1>2, <2>1
  <2>2. CASE d # e
    BY <2>2
  <2>. QED
    BY <2>1, <2>2
<1>10. /\ pull' # Nil => pull'.upto <= Len(pms.feed)
       /\ scan'.head <= Len(pms.feed) /\ src'.cursor <= Len(pms.feed)
  BY <1>1 DEF WithinFeed
<1>. QED
  BY <1>5, <1>6, <1>7, <1>8, <1>9, <1>10, SourceStepInv

LEMMA SnapshotInv ==
    ASSUME SourceInv, NEW w \in WWorkers, consume_snapshot(w) PROVE SourceInv'
<1>. DEFINE p == wk[w].got
<1>0. PICK e : e = wk[w].ev
  OBVIOUS
<1>1. PICK a : a = apply_snapshot(p)
  OBVIOUS
<1>2. /\ e # 0 /\ p # Nil /\ pms.feed[e].agg = "order" /\ wk' = [wk EXCEPT ![w] = Idle]
      /\ UNCHANGED <<pms, pull, src, scan>>
      /\ \/ UNCHANGED <<inbox, ver>>
         \/ inbox' = Requeued(e) /\ UNCHANGED ver
         \/ /\ ~(p.o < pms.feed[e].rev) /\ a.out # "behind"
            /\ inbox' = Closed(e, a.out = "conflict") /\ ver' = a.row
  BY <1>0, <1>1 DEF consume_snapshot
<1>3. SourceType /\ WithinFeed /\ Len(pms.feed) \in Nat
  BY DEF SourceInv, SourceType
<1>4. e \in 1..Len(pms.feed) /\ e \in DOMAIN inbox /\ pms.feed[e].rev \in Nat
  BY <1>0, <1>2, <1>3, ClaimFields, FeedType DEF WithinFeed
<1>5. p \in Held /\ p.o \in Nat
  BY <1>0, <1>2, <1>3, HeldType DEF Held, Readers, Projection
<1>6. CASE UNCHANGED <<inbox, ver>>
  BY <1>0, <1>2, <1>3, <1>6, VersionKept, ConsumerStepInv DEF SourceType
<1>7. CASE inbox' = Requeued(e) /\ UNCHANGED ver
  <2>1. VersionGrows
    BY <1>7, VersionKept
  <2>2. inbox' \in [1..(MaxChanges + 1) -> Entry] /\ inbox'[e].st \in {"queued", "quarantined"}
    BY <1>3, <1>4, <1>7, RequeuedResult
  <2>3. \A d \in DOMAIN inbox \ {e} : inbox'[d] = inbox[d]
    BY <1>3, <1>4, <1>7, RequeuedResult
  <2>4. ver'.known = ver.known /\ ver'.o = ver.o /\ ver'.m = ver.m /\ ver'.h = ver.h
    BY <1>7
  <2>. QED
    BY <1>0, <1>2, <2>1, <2>2, <2>3, <2>4, ConsumerStepInv
<1>8. CASE /\ ~(p.o < pms.feed[e].rev) /\ a.out # "behind"
           /\ inbox' = Closed(e, a.out = "conflict") /\ ver' = a.row
  <2>1. /\ IsVersion(a.row)
        /\ a.row.o >= ver.o /\ a.row.m >= ver.m /\ a.row.ent = ver.ent
        /\ ~a.row.known => a.row.o = 0 /\ a.row.m = 0
        /\ \/ a.row.known = ver.known /\ a.row.o = ver.o /\ a.row.m = ver.m /\ a.row.h = ver.h
           \/ a.row.o = p.o /\ a.row.m = p.m /\ a.row.h = p.h
        /\ a.out \in {"stored", "stale"} => a.row.o >= p.o
    BY <1>1, <1>5, ApplyResult
  <2>2. VersionGrows
    BY <1>3, <1>8, <2>1 DEF VersionGrows, SourceType, IsVersion
  <2>3. a.out \in {"conflict", "stored", "stale"}
    BY <1>1, <1>8 DEF apply_snapshot
  <2>4. a.out # "conflict" => Covered(e)'
    BY <1>2, <1>4, <1>5, <1>8, <2>1, <2>3 DEF Covered, IsVersion
  <2>5. (a.out = "conflict") \in BOOLEAN
    OBVIOUS
  <2>6. /\ inbox' \in [1..(MaxChanges + 1) -> Entry]
        /\ inbox'[e].st = IF a.out = "conflict" THEN "quarantined" ELSE "completed"
        /\ \A d \in DOMAIN inbox \ {e} : inbox'[d] = inbox[d]
    BY <1>3, <1>4, <1>8, <2>5, ClosedResult
  <2>7. \/ ver'.known = ver.known /\ ver'.o = ver.o /\ ver'.m = ver.m /\ ver'.h = ver.h
        \/ \E r \in Held \cup ReadNow : ver'.o = r.o /\ ver'.m = r.m /\ ver'.h = r.h
    BY <1>5, <1>8, <2>1
  <2>. QED
    BY <1>0, <1>2, <2>2, <2>4, <2>6, <2>7, ConsumerStepInv
<1>. QED
  BY <1>2, <1>6, <1>7, <1>8

LEMMA EntityInv ==
    ASSUME SourceInv, NEW w \in WWorkers, consume_entity(w) PROVE SourceInv'
<1>. DEFINE p == wk[w].got
            conflict == p.m = ver.ent /\ p.h # ver.enth
<1>0. PICK e : e = wk[w].ev
  OBVIOUS
<1>1. /\ e # 0 /\ p # Nil /\ pms.feed[e].agg = "member" /\ wk' = [wk EXCEPT ![w] = Idle]
      /\ UNCHANGED <<pms, pull, src, scan>>
      /\ \/ UNCHANGED <<inbox, ver>>
         \/ inbox' = Requeued(e) /\ UNCHANGED ver
         \/ /\ ~(p.m < pms.feed[e].rev) /\ p.m <= ver.ent /\ inbox' = Closed(e, conflict)
            /\ ver' = IF conflict THEN [ver EXCEPT !.entconf = TRUE, !.inv = ver.known] ELSE ver
         \/ /\ ~(p.m < pms.feed[e].rev) /\ ~(p.m <= ver.ent) /\ inbox' = Closed(e, FALSE)
            /\ ver' = [ver EXCEPT !.ent = p.m, !.enth = p.h, !.entconf = FALSE, !.inv = ver.known]
  BY <1>0 DEF consume_entity
<1>2. SourceType /\ WithinFeed /\ Len(pms.feed) \in Nat
  BY DEF SourceInv, SourceType
<1>3. e \in 1..Len(pms.feed) /\ e \in DOMAIN inbox /\ pms.feed[e].rev \in Nat
  BY <1>0, <1>1, <1>2, ClaimFields, FeedType DEF WithinFeed
<1>4. p.m \in Nat /\ ver.ent \in Nat /\ ver.o \in Nat /\ ver.m \in Nat
  BY <1>0, <1>1, <1>2, ClaimFields DEF Projection, SourceType, IsVersion
<1>5. conflict \in BOOLEAN /\ FALSE \in BOOLEAN
  OBVIOUS
<1>. HIDE DEF conflict
<1>6. CASE UNCHANGED <<inbox, ver>>
  BY <1>0, <1>1, <1>2, <1>6, VersionKept, ConsumerStepInv DEF SourceType
<1>7. CASE inbox' = Requeued(e) /\ UNCHANGED ver
  <2>1. VersionGrows
    BY <1>7, VersionKept
  <2>2. inbox' \in [1..(MaxChanges + 1) -> Entry] /\ inbox'[e].st \in {"queued", "quarantined"}
    BY <1>2, <1>3, <1>7, RequeuedResult
  <2>3. \A d \in DOMAIN inbox \ {e} : inbox'[d] = inbox[d]
    BY <1>2, <1>3, <1>7, RequeuedResult
  <2>4. ver'.known = ver.known /\ ver'.o = ver.o /\ ver'.m = ver.m /\ ver'.h = ver.h
    BY <1>7
  <2>. QED
    BY <1>0, <1>1, <2>1, <2>2, <2>3, <2>4, ConsumerStepInv
<1>8. ASSUME NEW q \in BOOLEAN, inbox' = Closed(e, q), ~(p.m < pms.feed[e].rev),
             DOMAIN ver' = DOMAIN ver, ver'.ent >= ver.ent, ver'.ent >= p.m, ver'.ent \in Nat,
             ver'.known = ver.known, ver'.o = ver.o, ver'.m = ver.m, ver'.h = ver.h
      PROVE  SourceInv'
  <2>1. VersionGrows
    BY <1>2, <1>4, <1>8 DEF VersionGrows, SourceInv, SourceType, IsVersion
  <2>2. Covered(e)'
    BY <1>1, <1>3, <1>4, <1>8 DEF Covered
  <2>3. /\ inbox' \in [1..(MaxChanges + 1) -> Entry]
        /\ inbox'[e].st \in {"quarantined", "completed"}
        /\ \A d \in DOMAIN inbox \ {e} : inbox'[d] = inbox[d]
    BY <1>2, <1>3, <1>8, ClosedResult
  <2>. QED
    BY <1>0, <1>1, <1>8, <2>1, <2>2, <2>3, ConsumerStepInv
<1>9. IsVersion(ver)
  BY <1>2 DEF SourceType
<1>10. CASE /\ ~(p.m < pms.feed[e].rev) /\ p.m <= ver.ent /\ inbox' = Closed(e, conflict)
            /\ ver' = IF conflict THEN [ver EXCEPT !.entconf = TRUE, !.inv = ver.known] ELSE ver
  <2>1. /\ DOMAIN ver' = DOMAIN ver /\ ver'.ent = ver.ent
        /\ ver'.known = ver.known /\ ver'.o = ver.o /\ ver'.m = ver.m /\ ver'.h = ver.h
    BY <1>9, <1>10 DEF IsVersion
  <2>2. ver'.ent >= ver.ent /\ ver'.ent >= p.m /\ ver'.ent \in Nat
    BY <1>4, <1>10, <2>1
  <2>. QED
    BY <1>5, <1>8, <1>10, <2>1, <2>2
<1>11. CASE /\ ~(p.m < pms.feed[e].rev) /\ ~(p.m <= ver.ent) /\ inbox' = Closed(e, FALSE)
            /\ ver' = [ver EXCEPT !.ent = p.m, !.enth = p.h, !.entconf = FALSE, !.inv = ver.known]
  <2>1. /\ DOMAIN ver' = DOMAIN ver /\ ver'.ent = p.m
        /\ ver'.known = ver.known /\ ver'.o = ver.o /\ ver'.m = ver.m /\ ver'.h = ver.h
    BY <1>9, <1>11 DEF IsVersion
  <2>2. ver'.ent >= ver.ent /\ ver'.ent >= p.m /\ ver'.ent \in Nat
    BY <1>4, <1>11, <2>1
  <2>. QED
    BY <1>5, <1>8, <1>11, <2>1, <2>2
<1>. QED
  BY <1>1, <1>6, <1>7, <1>10, <1>11

LEMMA LetGoInv ==
    ASSUME SourceInv, NEW w \in WWorkers, ReadFails(w) \/ ConsumerDies(w) PROVE SourceInv'
<1>1. /\ wk' = [wk EXCEPT ![w] = Idle] /\ UNCHANGED <<pms, pull, src, scan, ver>>
      /\ inbox' = inbox \/ inbox' = Requeued(wk[w].ev)
      /\ wk[w].ev # 0 \/ wk[w] # Idle
  BY DEF ReadFails, ConsumerDies
<1>2. SourceType /\ WithinFeed /\ Len(pms.feed) \in Nat
  BY DEF SourceInv, SourceType
<1>3. wk[w].ev # 0
  BY <1>1, <1>2 DEF SourceType, Claim
<1>4. wk[w].ev \in DOMAIN inbox
  BY <1>2, <1>3, ClaimFields, FeedType DEF WithinFeed
<1>5. VersionGrows
  BY <1>1, VersionKept
<1>6. CASE inbox' = inbox
  BY <1>1, <1>2, <1>3, <1>5, <1>6, ConsumerStepInv DEF SourceType
<1>7. CASE inbox' = Requeued(wk[w].ev)
  BY <1>1, <1>2, <1>3, <1>4, <1>5, <1>7, RequeuedResult, ConsumerStepInv
<1>. QED
  BY <1>1, <1>6, <1>7

\* PMS publishes an event: nothing refers to it yet.
LEMMA PublishInv ==
    ASSUME SourceInv, NEW agg \in {"order", "member"}, PmsChange(agg) PROVE SourceInv'
<1>0. PICK n : n = Len(pms.feed) + 1
  OBVIOUS
<1>1. PICK f : f = [agg |-> agg, rev |-> pms[agg] + 1]
  OBVIOUS
<1>2. /\ Len(pms.feed) <= MaxChanges
      /\ pms' = [pms EXCEPT ![agg] = @ + 1, !.feed = Append(@, f)]
      /\ UNCHANGED <<inbox, wk, pull, src, scan, ver>>
  BY <1>1 DEF PmsChange
<1>3. SourceType /\ WithinFeed /\ Len(pms.feed) \in Nat /\ pms.feed \in Seq(Feed)
  BY DEF SourceInv, SourceType
<1>a. n \in 1..(MaxChanges + 1) /\ n <= MaxChanges + 1
  <2>1. Len(pms.feed) <= MaxChanges
    BY <1>2
  <2>2. MaxChanges \in Nat
    BY SourceAssumption
  <2>. QED
    BY <1>0, <1>3, <2>1, <2>2
<1>4. /\ DOMAIN pms' = {"feed", "order", "member"}
      /\ pms'.feed = Append(pms.feed, f)
      /\ pms'.order = IF agg = "order" THEN pms.order + 1 ELSE pms.order
      /\ pms'.member = IF agg = "member" THEN pms.member + 1 ELSE pms.member
  <2>1. CASE agg = "order"
    BY <1>2, <1>3, <2>1 DEF SourceType
  <2>2. CASE agg = "member"
    BY <1>2, <1>3, <2>2 DEF SourceType
  <2>. QED
    BY <2>1, <2>2
<1>5. /\ pms.order \in Nat /\ pms.member \in Nat /\ pms'.order \in Nat /\ pms'.member \in Nat
      /\ pms'.order >= pms.order /\ pms'.member >= pms.member
      /\ f \in Feed /\ f.agg = agg /\ f.rev = IF agg = "order" THEN pms'.order ELSE pms'.member
  <2>1. pms.order \in Nat /\ pms.member \in Nat
    BY <1>3 DEF SourceType
  <2>2. CASE agg = "order"
    BY <1>1, <1>4, <2>1, <2>2 DEF Feed
  <2>3. CASE agg = "member"
    BY <1>1, <1>4, <2>1, <2>3 DEF Feed
  <2>. QED
    BY <2>1, <2>2, <2>3
<1>6. /\ pms'.feed \in Seq(Feed) /\ Len(pms'.feed) = n
      /\ \A e \in 1..Len(pms.feed) : pms'.feed[e] = pms.feed[e]
      /\ pms'.feed[n] = f
  BY <1>0, <1>3, <1>4, <1>5
<1>7. SourceType'
  <2>1. Len(pms'.feed) <= MaxChanges + 1
    BY <1>a, <1>6
  <2>. QED
    BY <1>2, <1>3, <1>4, <1>5, <1>6, <2>1 DEF SourceType
<1>8. WithinFeed'
  <2>1. ASSUME NEW e \in 1..n PROVE (pms.feed[e].rev <= Current(pms.feed[e].agg))'
    <3>1. CASE e \in 1..Len(pms.feed)
      <4>1. /\ pms.feed[e].rev \in Nat /\ pms'.feed[e] = pms.feed[e]
            /\ pms.feed[e].rev <= IF pms.feed[e].agg = "order" THEN pms.order ELSE pms.member
        BY <1>3, <1>6, <3>1, FeedType DEF WithinFeed, Current
      <4>2. pms'.feed[e].rev <= IF pms'.feed[e].agg = "order" THEN pms'.order ELSE pms'.member
        BY <1>5, <4>1
      <4>. QED
        BY <4>2 DEF Current
    <3>2. CASE e = n
      <4>1. pms'.feed[e].rev <= IF pms'.feed[e].agg = "order" THEN pms'.order ELSE pms'.member
        <5>1. pms'.feed[e] = f
          BY <1>6, <3>2
        <5>. QED
          BY <1>5, <5>1
      <4>. QED
        BY <4>1 DEF Current
    <3>3. e \in 1..Len(pms.feed) \/ e = n
      BY <1>0, <1>3, <2>1
    <3>. QED
      BY <3>1, <3>2, <3>3
  <2>2. \A e \in DOMAIN inbox : e \in Nat
    BY <1>3, SourceAssumption DEF SourceType
  <2>3. \A w \in WWorkers : wk[w].ev \in Nat
    BY <1>3, ClaimFields
  <2>4. pull # Nil => pull.upto \in Nat
    BY <1>3 DEF SourceType
  <2>5. scan.head \in Nat /\ src.cursor \in Nat
    BY <1>3 DEF SourceType
  <2>6. \A k \in Nat : k <= Len(pms.feed) => k <= n
    BY <1>0, <1>3
  <2>7. /\ \A e \in DOMAIN inbox : inbox[e].st # "none" => e <= n
        /\ \A w \in WWorkers : wk[w].ev <= n
        /\ pull # Nil => pull.upto <= n
        /\ scan.head <= n /\ src.cursor <= n
    BY <1>3, <2>2, <2>3, <2>4, <2>5, <2>6 DEF WithinFeed
  <2>. QED
    BY <1>2, <1>6, <2>1, <2>7 DEF WithinFeed
<1>9. Held' \subseteq Held
  <2>1. ASSUME NEW w \in Readers' PROVE w \in Readers
    <3>1. w \in WWorkers /\ wk[w].got # Nil
      BY <1>2 DEF Readers
    <3>2. wk[w].ev \in Nat /\ wk[w].ev # 0 /\ wk[w].ev <= Len(pms.feed)
      BY <1>3, <3>1, ClaimFields DEF WithinFeed
    <3>3. pms'.feed[wk[w].ev] = pms.feed[wk[w].ev]
      BY <1>3, <1>6, <3>2
    <3>. QED
      BY <1>2, <3>1, <3>3 DEF Readers
  <2>. QED
    BY <1>2, <2>1 DEF Held
<1>10. ReadingsOrdered'
  <2>1. \A p \in Held : p.o \in Nat /\ p.m \in Nat
    BY <1>3, HeldType DEF Projection
  <2>. QED
    BY <1>5, <1>9, <2>1 DEF SourceInv, ReadingsOrdered, NoLater
<1>11. \A e \in 1..Len(pms.feed) : Covered(e) => Covered(e)'
  BY <1>2, <1>6 DEF Covered
<1>12. ScanReaches'
  <2>1. \A e \in 1..scan.head : e \in 1..Len(pms.feed)
    BY <1>3 DEF SourceType, WithinFeed
  <2>. QED
    BY <1>2, <1>6, <1>11, <2>1 DEF SourceInv, ScanReaches
<1>13. NoEventLost'
  <2>1. n \in DOMAIN inbox /\ inbox[n].st = "none" /\ ~(n <= src.cursor)
    <3>1. n \in DOMAIN inbox
      <4>1. DOMAIN inbox = 1..(MaxChanges + 1)
        BY <1>3 DEF SourceType
      <4>. QED
        BY <1>a, <4>1
    <3>2. src.cursor \in Nat /\ src.cursor <= Len(pms.feed)
      BY <1>3 DEF SourceType, WithinFeed
    <3>3. ~(n <= Len(pms.feed)) /\ ~(n <= src.cursor)
      BY <1>0, <1>3, <3>2
    <3>. QED
      BY <1>3, <3>1, <3>3 DEF WithinFeed
  <2>2. ASSUME NEW e \in 1..n
        PROVE  /\ e <= src.cursor => inbox[e].st # "none" \/ Covered(e)'
               /\ inbox[e].st = "completed" => Covered(e)'
    <3>1. CASE e \in 1..Len(pms.feed)
      BY <1>11, <3>1 DEF SourceInv, NoEventLost
    <3>2. CASE e = n
      BY <2>1, <3>2
    <3>. QED
      BY <1>0, <1>3, <2>2, <3>1, <3>2
  <2>3. src.cursor <= n
    BY <1>0, <1>3 DEF WithinFeed, SourceType
  <2>. QED
    BY <1>2, <1>6, <2>2, <2>3 DEF NoEventLost
<1>. QED
  BY <1>2, <1>7, <1>8, <1>10, <1>12, <1>13 DEF SourceInv

LEMMA SourceInitInv == SourceInit => SourceInv
<1>. SUFFICES ASSUME SourceInit PROVE SourceInv
  OBVIOUS
<1>1. PICK f : f = [agg |-> "order", rev |-> 1]
  OBVIOUS
<1>2. f \in Feed /\ f.agg = "order" /\ f.rev = 1
  BY <1>1 DEF Feed
<1>3. /\ DOMAIN pms = {"feed", "order", "member"} /\ pms.feed = <<f>> /\ pms.order = 1 /\ pms.member = 1
      /\ inbox = [e \in 1..(MaxChanges + 1) |-> [st |-> "none", fence |-> 0]]
      /\ wk = [w \in WWorkers |-> Idle] /\ pull = Nil
      /\ DOMAIN src = {"cursor", "head", "rebuilding"} /\ src.cursor = 0
      /\ DOMAIN scan = {"open", "head", "complete", "item"} /\ scan.head = 0
      /\ scan.item = Nil /\ scan.complete = FALSE
      /\ IsVersion(ver) /\ ver.known = FALSE /\ ver.o = 0 /\ ver.m = 0
  BY <1>1 DEF SourceInit, IsVersion
<1>4. pms.feed \in Seq(Feed) /\ Len(pms.feed) = 1 /\ pms.feed[1] = f
  BY <1>2, <1>3
<1>5. SourceType
  <2>1. [st |-> "none", fence |-> 0] \in Entry
    BY DEF Entry
  <2>. QED
    BY <1>3, <1>4, <2>1, SourceAssumption DEF SourceType
<1>6. WithinFeed
  BY <1>2, <1>3, <1>4 DEF WithinFeed, Current, Idle
<1>7. Held = {}
  BY <1>3 DEF Held, Readers, Idle
<1>8. ReadingsOrdered /\ ScanReaches
  BY <1>3, <1>7 DEF ReadingsOrdered, ScanReaches
<1>9. NoEventLost
  BY <1>3, <1>4, SourceAssumption DEF NoEventLost
<1>. QED
  BY <1>3, <1>5, <1>6, <1>8, <1>9 DEF SourceInv

LEMMA SourceNextInv == SourceInv /\ [SourceNext]_svars => SourceInv'
<1>. SUFFICES ASSUME SourceInv, [SourceNext]_svars PROVE SourceInv'
  OBVIOUS
<1>1. CASE UNCHANGED svars
  BY <1>1 DEF svars, SourceInv, SourceType, WithinFeed, Current, ReadingsOrdered, Held, Readers,
              ScanReaches, NoEventLost, Covered
<1>2. ASSUME SourceNext PROVE SourceInv'
  BY <1>2, PublishInv, ReceiveInv, PullInv, PageInv, RebuildInv, CommitScanInv, DrainInv,
     FinishInv, RefreshInv, ClaimInboxInv, SnapshotInv, EntityInv, LetGoInv
     DEF SourceNext
<1>. QED
  BY <1>1, <1>2

-----------------------------------------------------------------------------
(* The three parts together.                                                *)

\* The invariants of delivery, review and source hold in every reachable state.
THEOREM Inductive == Spec => []WelcomeInv
<1>1. Init => WelcomeInv
  BY DeliveryInitInv, ReviewInitInv, SourceInitInv DEF Init, WelcomeInv
<1>2. WelcomeInv /\ [Next]_<<focus, svars, dvars, rvars>> => WelcomeInv'
  <2>. SUFFICES ASSUME WelcomeInv, [Next]_<<focus, svars, dvars, rvars>> PROVE WelcomeInv'
    OBVIOUS
  <2>1. [SourceNext]_svars /\ [DeliveryNext]_dvars /\ [ReviewNext]_rvars
    BY DEF Next, Source, Delivery, ReviewPart
  <2>. QED
    BY <2>1, SourceNextInv, DeliveryNextInv, ReviewNextInv DEF WelcomeInv
<1>. QED
  BY <1>1, <1>2, PTL DEF Spec

\* A resident is welcomed at most once, in one building, and the recorded status
\* is honest, whatever happens to leases, acknowledgements, moves and revocations
\* (claim_delivery, begin_synthetic_attempt, record_outcome, resolve_unknown).
THEOREM Once == Spec => []WelcomedOnce
<1>1. WelcomeInv => WelcomedOnce
  <2>. SUFFICES ASSUME DeliveryInv PROVE WelcomedOnce
    BY DEF WelcomeInv
  <2>1. ASSUME NEW e \in effects, NEW f \in effects PROVE e = f
    <3>1. e[1] \in Targets /\ f[1] \in Targets /\ e = <<e[1], e[2]>> /\ f = <<f[1], f[2]>>
      BY DEF DeliveryInv, DeliveryType
    <3>2. e[1] = f[1] /\ e[2] = f[2]
      BY <3>1 DEF DeliveryInv, EffectsRecorded, OneOut
    <3>. QED
      BY <3>1, <3>2
  <2>2. Cardinality(effects) <= 1
    <3>1. CASE effects = {}
      BY <3>1, FS_EmptySet
    <3>2. ASSUME NEW e \in effects PROVE Cardinality(effects) <= 1
      <4>1. effects = {e}
        BY <2>1
      <4>2. Cardinality({e}) = 1
        BY FS_Singleton, Zenon
      <4>. QED
        BY <4>1, <4>2
    <3>. QED
      BY <3>1, <3>2
  <2>. QED
    BY <2>2 DEF DeliveryInv, SuccessIsReal, EffectsRecorded, WelcomedOnce, Sent, Out
<1>. QED
  BY <1>1, Inductive, PTL

\* What the gate in front of a delivery lets out is what a reviewer with a grant
\* of now saw and confirmed (assert_operations_review).
THEOREM Released == Spec => []ReleasedAsReviewed
<1>1. WelcomeInv => ReleasedAsReviewed
  <2>. SUFFICES ASSUME ReviewInv, assert_operations_review
                PROVE  /\ shown.facts = facts
                       /\ {appPerson, bindsTo.person, occ.person, chn.person} = {shown.person}
                       /\ occ.st = "confirmed" /\ chn.st = "confirmed"
                       /\ shown.grant # 0 /\ \E s \in Subjects : grantOf[s] = shown.grant
    BY DEF WelcomeInv, ReleasedAsReviewed
  <2>1. /\ shown.facts = item.saved.facts /\ shown.person = item.person
        /\ shown.grant = item.grant /\ item.by \in Subjects
    BY DEF assert_operations_review, ReviewInv, ConfirmedAsShown
  <2>2. item.saved.facts = facts
    BY DEF assert_operations_review, Now, snapshot
  <2>3. /\ appPerson = item.person /\ bindsTo.person = item.person
        /\ occ.person = item.person /\ occ.st = "confirmed"
        /\ chn.person = item.person /\ chn.st = "confirmed"
        /\ grantOf[item.by] # 0 /\ grantOf[item.by] = item.grant
    BY DEF assert_operations_review, identity_relations_valid, welcome_authorize
  <2>. QED
    BY <2>1, <2>2, <2>3
<1>. QED
  BY <1>1, Inductive, PTL

\* No order of push, pull, expired cursor, rebuild, lease takeover and late commit
\* loses a change PMS published (accept_page, fence_tx, finish_scan).
THEOREM NothingLost == Spec => []NoEventLost
<1>1. WelcomeInv => NoEventLost
  BY DEF WelcomeInv, SourceInv
<1>. QED
  BY <1>1, Inductive, PTL
=============================================================================
