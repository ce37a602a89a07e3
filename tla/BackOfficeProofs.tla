--------------------------- MODULE BackOfficeProofs ---------------------------
(***************************************************************************)
(* TLAPS proofs about the record keeping parts composed in MCBackOffice,   *)
(* for every set of clerks, quotes, bills and hosts and every bound.  Each *)
(* part has an inductive invariant of its own; as a behaviour moves only   *)
(* the part in focus, their conjunction is inductive for the composition.  *)
(***************************************************************************)
EXTENDS MCBackOffice, RecordsProofs, FiniteSetTheorems, WellFoundedInduction, TLAPS

-----------------------------------------------------------------------------
(***************************************************************************)
(* Reminders                                                               *)
(***************************************************************************)

(* A send carries the claim it was made under; claims only grow, and the   *)
(* claim in force has no send before it is committed as unknown.           *)
ReminderInv ==
    /\ DOMAIN rem = Matters
    /\ \A w \in Matters : /\ DOMAIN rem[w] = {"phase", "claim", "sig"}
                          /\ rem[w].claim \in Nat
    /\ DOMAIN seen = Hosts
    /\ \A h \in Hosts : seen[h] # Idle =>
          /\ DOMAIN seen[h] = {"work", "facts", "claim"}
          /\ seen[h].work \in Matters
    /\ \A s \in sends :
          /\ s.work \in Matters /\ s.claim \in Nat /\ s.claim <= rem[s.work].claim
          /\ s.clear
          /\ rem[s.work].claim = s.claim => rem[s.work].phase \in {"unknown", "sent"}

LEMMA ReminderInit == FeedInit => ReminderInv
BY DEF FeedInit, ReminderInv, NoReminder, Matters

LEMMA ObserveStep ==
  ASSUME ReminderInv, NEW h \in Hosts, NEW w \in Matters, Observe(h, w)
  PROVE  ReminderInv'
<1>1. PICK r : r = [work |-> w, facts |-> truth[w].facts, claim |-> 0]
  OBVIOUS
<1>2. DOMAIN r = {"work", "facts", "claim"} /\ r.work = w
  BY <1>1
<1>3. seen' = [seen EXCEPT ![h] = r] /\ UNCHANGED <<rem, sends>>
  BY <1>1 DEF Observe
<1> QED
  BY <1>2, <1>3 DEF ReminderInv

LEMMA ReminderObserveStep ==
  ASSUME ReminderInv, NEW h \in Hosts, reminder_observe(h)
  PROVE  ReminderInv'
<1>1. PICK w \in Matters : w = seen[h].work
  BY DEF ReminderInv, reminder_observe
<1>2. PICK sig : rem' = [rem EXCEPT ![w].sig = sig]
  BY <1>1 DEF reminder_observe
<1>3. UNCHANGED <<seen, sends>>
  BY DEF reminder_observe
<1> QED
  BY <1>2, <1>3 DEF ReminderInv

LEMMA ReminderClaimStep ==
  ASSUME ReminderInv, NEW h \in Hosts, reminder_claim(h)
  PROVE  ReminderInv'
<1>1. PICK w \in Matters : w = seen[h].work
  BY DEF ReminderInv, reminder_claim
<1>2. sends' = sends
  BY DEF reminder_claim
<1>3. PICK n : seen' = [seen EXCEPT ![h].claim = n]
  BY <1>1 DEF reminder_claim
<1>4. \/ rem' = rem
      \/ rem' = [rem EXCEPT ![w].phase = "claimed", ![w].claim = rem[w].claim + 1]
  BY <1>1 DEF reminder_claim
<1>5. /\ DOMAIN seen' = Hosts
      /\ \A g \in Hosts : seen'[g] # Idle =>
            DOMAIN seen'[g] = {"work", "facts", "claim"} /\ seen'[g].work \in Matters
  BY <1>3 DEF ReminderInv, reminder_claim
<1>6. CASE rem' = rem
  BY <1>2, <1>5, <1>6 DEF ReminderInv
<1>7. CASE rem' = [rem EXCEPT ![w].phase = "claimed", ![w].claim = rem[w].claim + 1]
  <2>1. /\ DOMAIN rem' = Matters
        /\ \A v \in Matters : DOMAIN rem'[v] = {"phase", "claim", "sig"} /\ rem'[v].claim \in Nat
        /\ \A v \in Matters : v # w => rem'[v] = rem[v]
        /\ rem'[w].claim = rem[w].claim + 1
    BY <1>7 DEF ReminderInv
  <2> QED
    BY <1>2, <1>5, <2>1 DEF ReminderInv
<1> QED
  BY <1>4, <1>6, <1>7

(* A send is made under a claim that is committed as unknown by then, and  *)
(* for a canonical work only when nothing is in doubt for its source.      *)
LEMMA ReminderValidateStep ==
  ASSUME ReminderInv, NEW h \in Hosts, reminder_validate(h)
  PROVE  ReminderInv'
<1>1. PICK w \in Matters : w = seen[h].work
  BY DEF ReminderInv, reminder_validate
<1>2. rem[w].phase = "claimed" /\ seen' = seen
  BY <1>1 DEF reminder_validate
<1>3. PICK phase : rem' = [rem EXCEPT ![w].phase = phase]
  BY <1>1 DEF reminder_validate
<1>4. /\ DOMAIN rem' = Matters
      /\ \A v \in Matters : DOMAIN rem'[v] = {"phase", "claim", "sig"} /\ rem'[v].claim = rem[v].claim
      /\ \A v \in Matters : v # w => rem'[v] = rem[v]
      /\ rem'[w].phase = phase
  BY <1>3 DEF ReminderInv
<1>5. CASE sends' = sends
  BY <1>2, <1>4, <1>5 DEF ReminderInv
<1>6. CASE sends' # sends
  <2>1. reminder_plan_in(w, seen[h].facts).due /\ phase = "unknown"
    BY <1>1, <1>3, <1>6 DEF reminder_validate, ReminderInv
  <2>2. PICK s : s = [work |-> w, claim |-> rem[w].claim,
                      clear |-> ~(merged /\ Active(rem["source"]) /\ w = "canonical")]
    OBVIOUS
  <2>3. sends' = sends \cup {s}
    BY <1>1, <1>6, <2>2 DEF reminder_validate
  <2>4. s.work = w /\ s.claim = rem[w].claim
    BY <2>2
  <2>5. w = "canonical" /\ merged => ~Active(rem["source"])
    BY <2>1 DEF reminder_plan_in
  <2>6. s.clear
    BY <2>2, <2>5
  <2> QED
    BY <1>2, <1>4, <2>1, <2>3, <2>4, <2>6 DEF ReminderInv
<1> QED
  BY <1>5, <1>6

LEMMA ReminderSettleStep ==
  ASSUME ReminderInv, NEW h \in Hosts, reminder_settle(h)
  PROVE  ReminderInv'
<1>1. PICK w \in Matters : w = seen[h].work
  BY DEF ReminderInv, reminder_settle
<1>2. rem' = [rem EXCEPT ![w].phase = "sent"] /\ UNCHANGED <<seen, sends>>
  BY <1>1 DEF reminder_settle
<1> QED
  BY <1>2 DEF ReminderInv

LEMMA ReminderStep == ReminderInv /\ ReminderNext => ReminderInv'
<1> SUFFICES ASSUME ReminderInv, ReminderNext PROVE ReminderInv'
  OBVIOUS
<1>1. ASSUME NEW h \in Hosts, HostDies(h)
      PROVE  ReminderInv'
  BY <1>1 DEF HostDies, ReminderInv
<1>2. ASSUME NEW w \in Matters, NEW due \in BOOLEAN, FactsChange(w, due)
      PROVE  ReminderInv'
  BY <1>2 DEF FactsChange, ReminderInv
<1>3. CASE Merge
  BY <1>3 DEF Merge, ReminderInv
<1> QED
  BY <1>1, <1>2, <1>3, ObserveStep, ReminderObserveStep, ReminderClaimStep,
     ReminderValidateStep, ReminderSettleStep DEF ReminderNext

-----------------------------------------------------------------------------
(***************************************************************************)
(* Rules                                                                   *)
(***************************************************************************)

InForce == {"live", "scheduled"}

(* The item: what is live or scheduled was asked for after the last stop.  *)
ItemInv ==
    /\ DOMAIN item = {"ver", "stopped", "managed"} /\ item.ver \in Nat
    /\ item.stopped \in BOOLEAN /\ stops \in Nat
    /\ DOMAIN revs = 1..MaxRuleVer
    /\ \A r \in 1..MaxRuleVer : /\ DOMAIN revs[r] = {"st", "grant", "issued"}
                                /\ revs[r].st \in InForce => ~item.stopped /\ revs[r].issued = stops

(* An edit that waits and still fits the version of the item was asked for  *)
(* after the last stop: a stop moves the version on.                       *)
Waits(k) == k.st \in {"awaiting_review", "queued"} /\ k.edit # "context"
Fits(k, ver, stopped) == k.expect \in 0..ver /\ (k.expect = ver => k.issued = stopped)
WorkInv ==
    /\ DOMAIN work = 1..MaxWork
    /\ \A w \in 1..MaxWork :
          /\ DOMAIN work[w] = {"st", "edit", "expect", "rev", "grant", "proof", "issued"}
          /\ Waits(work[w]) => work[w].edit \in Edits /\ Fits(work[w], item.ver, stops)

RulesInv == ItemInv /\ WorkInv

LEMMA RulesInitInv == RulesInit => RulesInv
<1> SUFFICES ASSUME RulesInit PROVE RulesInv
  OBVIOUS
<1>1. PICK noRev : noRev = NoRev
  OBVIOUS
<1>2. DOMAIN noRev = {"st", "grant", "issued"} /\ noRev.st = "none" /\ noRev.issued = 0
  BY <1>1 DEF NoRev
<1>3. PICK first : first = [noRev EXCEPT !.st = "live", !.grant = 1]
  OBVIOUS
<1>4. DOMAIN first = {"st", "grant", "issued"} /\ first.issued = 0
  BY <1>2, <1>3
<1>5. revs = [n \in 1..MaxRuleVer |-> IF n = 1 THEN first ELSE noRev]
  BY <1>1, <1>3 DEF RulesInit
<1>6. ItemInv
  BY <1>2, <1>4, <1>5 DEF RulesInit, ItemInv, InForce
<1>7. WorkInv
  BY DEF RulesInit, WorkInv, Waits, NoWork
<1> QED
  BY <1>6, <1>7 DEF RulesInv

(* Nothing waits for a version that is not there yet.                      *)
LEMMA FitsLater ==
  ASSUME NEW k, NEW ver \in Nat, NEW before, NEW after, Fits(k, ver, before)
  PROVE  Fits(k, ver + 1, after)
BY DEF Fits

(* An edit moves the item on and leaves it true to the stops.              *)
LEMMA ApplyStep ==
  ASSUME ItemInv,
         NEW edit \in Edits, NEW rev, NEW grant,
         edit \in {"plain", "save", "replace", "stop"} => ~item.stopped,
         Apply(edit, rev, grant, stops)
  PROVE  ItemInv' /\ item'.ver = item.ver + 1
<1>1. CASE edit = "plain"
  <2>1. PICK scheduled \in BOOLEAN : put_authorized_knowledge(grant, stops, scheduled)
    BY <1>1 DEF Apply
  <2>2. PICK new : new = [st |-> IF scheduled THEN "scheduled" ELSE "live",
                          grant |-> grant, issued |-> stops]
    OBVIOUS
  <2>3. DOMAIN new = {"st", "grant", "issued"} /\ new.issued = stops
    BY <2>2
  <2>4. PICK n : n = item.ver + 1
    OBVIOUS
  <2>5. /\ item' = [item EXCEPT !.ver = n] /\ stops' = stops /\ ~item.stopped
        /\ revs' = [revs EXCEPT ![n] = new]
    BY <2>1, <2>2, <2>4 DEF put_authorized_knowledge
  <2>6. DOMAIN item' = DOMAIN item /\ item'.ver = n /\ item'.stopped = item.stopped
    BY <2>5 DEF ItemInv
  <2>7. /\ DOMAIN revs' = 1..MaxRuleVer
        /\ \A r \in 1..MaxRuleVer : revs'[r] = revs[r] \/ revs'[r] = new
    BY <2>5 DEF ItemInv
  <2> QED
    BY <2>3, <2>4, <2>5, <2>6, <2>7 DEF ItemInv
<1>2. CASE edit # "plain"
  <2>1. apply_rule_command(edit, rev, grant, stops)
    BY <1>2 DEF Apply
  <2>2. PICK n : n = item.ver + 1
    OBVIOUS
  <2>3. PICK new : new = [st |-> IF edit = "replace" THEN "scheduled" ELSE "live",
                          grant |-> grant, issued |-> stops]
    OBVIOUS
  <2>4. PICK gone : gone = {r \in 1..MaxRuleVer :
                              revs[r].st \in InForce /\ (edit = "stop" \/ r = rev)}
    OBVIOUS
  <2>5. DOMAIN new = {"st", "grant", "issued"} /\ new.issued = stops
    BY <2>3
  <2>6. PICK withdrawn : withdrawn = Withdrawn
    OBVIOUS
  <2>7. DOMAIN withdrawn = {"st", "grant", "issued"} /\ withdrawn.st = "withdrawn"
    BY <2>6 DEF Withdrawn, NoRev
  <2>8. /\ item' = [ver |-> n, stopped |-> edit = "stop" \/ (item.stopped /\ edit = "cancel"),
                    managed |-> item.managed \/ edit # "plain"]
        /\ revs' = [r \in 1..MaxRuleVer |->
                       IF r = n /\ edit \notin {"stop", "cancel"} THEN new
                       ELSE IF r \in gone THEN withdrawn ELSE revs[r]]
        /\ stops' = IF edit = "stop" THEN stops + 1 ELSE stops
    BY <2>1, <2>2, <2>3, <2>4, <2>6 DEF apply_rule_command, InForce
  <2>9. /\ DOMAIN item' = {"ver", "stopped", "managed"} /\ item'.ver = n
        /\ item'.stopped \in BOOLEAN
        /\ item'.stopped <=> edit = "stop" \/ (item.stopped /\ edit = "cancel")
    BY <2>8 DEF ItemInv
  <2>10. /\ DOMAIN revs' = 1..MaxRuleVer
         /\ \A r \in 1..MaxRuleVer : DOMAIN revs'[r] = {"st", "grant", "issued"}
    BY <2>5, <2>7, <2>8 DEF ItemInv
  <2>11. ASSUME NEW r \in 1..MaxRuleVer, revs'[r].st \in InForce
         PROVE  ~item'.stopped /\ revs'[r].issued = stops'
    <3>1. revs'[r] # withdrawn
      BY <2>7, <2>11 DEF InForce
    <3>2. \/ edit \notin {"stop", "cancel"} /\ revs'[r] = new
          \/ r \notin gone /\ revs'[r] = revs[r]
      BY <2>8, <3>1
    <3>3. CASE edit \notin {"stop", "cancel"} /\ revs'[r] = new
      BY <2>5, <2>8, <2>9, <3>3
    <3>4. CASE r \notin gone /\ revs'[r] = revs[r]
      <4>1. edit # "stop" /\ ~item.stopped /\ revs[r].issued = stops
        BY <2>4, <2>11, <3>4 DEF ItemInv
      <4> QED
        BY <2>8, <2>9, <3>4, <4>1
    <3> QED
      BY <3>2, <3>3, <3>4
  <2>12. stops' \in Nat
    BY <2>8 DEF ItemInv
  <2>13. n \in Nat
    BY <2>2 DEF ItemInv
  <2> QED
    BY <2>2, <2>9, <2>10, <2>11, <2>12, <2>13 DEF ItemInv
<1> QED
  BY <1>1, <1>2

(* When the version moves on, what waits is late.                          *)
LEMMA WorkKept ==
  ASSUME RulesInv, item'.ver = item.ver + 1, work' = work
  PROVE  WorkInv'
<1>1. item.ver \in Nat
  BY DEF RulesInv, ItemInv
<1>2. ASSUME NEW w \in 1..MaxWork, Waits(work[w])
      PROVE  Fits(work[w], item'.ver, stops')
  <2>1. Fits(work[w], item.ver, stops)
    BY <1>2 DEF RulesInv, WorkInv
  <2> QED
    BY <1>1, <2>1, FitsLater
<1> QED
  BY <1>2 DEF RulesInv, WorkInv, Waits

(* A work item that no longer waits, or waits as before, changes nothing.  *)
LEMMA WorkOver ==
  ASSUME RulesInv, item'.ver = item.ver + 1, NEW w \in 1..MaxWork, NEW st,
         st \notin {"awaiting_review", "queued"},
         work' = [work EXCEPT ![w] = Over(st)]
  PROVE  WorkInv'
<1>1. PICK over : over = Over(st)
  OBVIOUS
<1>2. /\ DOMAIN over = {"st", "edit", "expect", "rev", "grant", "proof", "issued"}
      /\ ~Waits(over)
  BY <1>1 DEF Over, NoWork, Waits
<1>3. /\ DOMAIN work' = 1..MaxWork
      /\ \A v \in 1..MaxWork : work'[v] = work[v] \/ work'[v] = over
  BY <1>1 DEF RulesInv, WorkInv
<1>4. item.ver \in Nat
  BY DEF RulesInv, ItemInv
<1>5. ASSUME NEW v \in 1..MaxWork, Waits(work[v])
      PROVE  Fits(work[v], item'.ver, stops')
  <2>1. Fits(work[v], item.ver, stops)
    BY <1>5 DEF RulesInv, WorkInv
  <2> QED
    BY <1>4, <2>1, FitsLater
<1> QED
  BY <1>2, <1>3, <1>5 DEF RulesInv, WorkInv, Waits

LEMMA QueueStep ==
  ASSUME RulesInv, NEW edit \in Edits \cup {"context"}, NEW expect, NEW rev, NEW st,
         edit # "context" => expect = item.ver,
         queue_work(edit, expect, rev, st), UNCHANGED <<item, revs, stops>>
  PROVE  RulesInv'
<1>1. PICK w \in 1..MaxWork :
         work' = [work EXCEPT ![w] = [NoWork EXCEPT !.st = st, !.edit = edit, !.expect = expect,
                                          !.rev = rev, !.grant = auth.q.grant, !.issued = stops]]
  BY DEF queue_work
<1>2. PICK new : new = [NoWork EXCEPT !.st = st, !.edit = edit, !.expect = expect,
                            !.rev = rev, !.grant = auth.q.grant, !.issued = stops]
  OBVIOUS
<1>3. /\ DOMAIN new = {"st", "edit", "expect", "rev", "grant", "proof", "issued"}
      /\ new.edit = edit /\ new.expect = expect /\ new.issued = stops
  BY <1>2 DEF NoWork
<1>4. /\ DOMAIN work' = 1..MaxWork
      /\ \A v \in 1..MaxWork : work'[v] = work[v] \/ work'[v] = new
  BY <1>1, <1>2 DEF RulesInv, WorkInv
<1>5. Waits(new) => new.edit \in Edits /\ Fits(new, item.ver, stops)
  BY <1>3 DEF Waits, Fits, RulesInv, ItemInv
<1>6. WorkInv'
  BY <1>3, <1>4, <1>5 DEF RulesInv, WorkInv, Waits, Fits
<1>7. ItemInv'
  BY DEF RulesInv, ItemInv
<1> QED
  BY <1>6, <1>7 DEF RulesInv

LEMMA RuleCommandStep ==
  ASSUME RulesInv, NEW edit \in Edits, NEW rev, rule_command(edit, rev)
  PROVE  RulesInv'
<1>1. edit \in {"plain", "save", "replace", "stop"} => ~item.stopped
  BY DEF rule_command, validate_edit
<1>2. CASE Apply(edit, rev, auth.q.grant, stops) /\ UNCHANGED work
  <2>1. ItemInv' /\ item'.ver = item.ver + 1
    BY <1>1, <1>2, ApplyStep DEF RulesInv
  <2> QED
    BY <1>2, <2>1, WorkKept DEF RulesInv
<1>3. CASE /\ queue_work(edit, item.ver, rev, "awaiting_review")
           /\ UNCHANGED <<item, revs, stops>>
  BY <1>3, QueueStep
<1> QED
  BY <1>2, <1>3 DEF rule_command

LEMMA KnowledgeSaveStep ==
  ASSUME RulesInv, NEW defer \in BOOLEAN, knowledge_save(defer)
  PROVE  RulesInv'
<1>1. "plain" \in Edits
  BY DEF Edits
<1>2. CASE Apply("plain", 0, auth.q.grant, stops) /\ UNCHANGED work
  <2>1. ~item.stopped
    BY <1>2 DEF Apply, put_authorized_knowledge
  <2>2. ItemInv' /\ item'.ver = item.ver + 1
    BY <1>1, <1>2, <2>1, ApplyStep DEF RulesInv
  <2> QED
    BY <1>2, <2>2, WorkKept DEF RulesInv
<1>3. CASE /\ queue_work("plain", item.ver, 0,
                         IF authorize_current = "confirm" THEN "awaiting_review" ELSE "queued")
           /\ UNCHANGED <<item, revs, stops>>
  BY <1>1, <1>3, QueueStep
<1> QED
  BY <1>2, <1>3 DEF knowledge_save

LEMMA KnowledgeWithdrawStep ==
  ASSUME RulesInv, NEW rev \in 1..MaxRuleVer, knowledge_withdraw(rev)
  PROVE  RulesInv'
<1>1. PICK withdrawn : withdrawn = Withdrawn
  OBVIOUS
<1>2. DOMAIN withdrawn = {"st", "grant", "issued"} /\ withdrawn.st = "withdrawn"
  BY <1>1 DEF Withdrawn, NoRev
<1>3. /\ revs' = [revs EXCEPT ![rev] = withdrawn]
      /\ item' = [item EXCEPT !.ver = @ + 1] /\ UNCHANGED <<work, stops>>
  BY <1>1 DEF knowledge_withdraw
<1>4. DOMAIN item' = DOMAIN item /\ item'.ver = item.ver + 1 /\ item'.stopped = item.stopped
  BY <1>3 DEF RulesInv, ItemInv
<1>5. /\ DOMAIN revs' = 1..MaxRuleVer
      /\ \A r \in 1..MaxRuleVer : revs'[r] = revs[r] \/ revs'[r] = withdrawn
  BY <1>3 DEF RulesInv, ItemInv
<1>6. ItemInv'
  BY <1>2, <1>3, <1>4, <1>5 DEF RulesInv, ItemInv, InForce
<1>7. WorkInv'
  BY <1>3, <1>4, WorkKept
<1> QED
  BY <1>6, <1>7 DEF RulesInv

LEMMA ScheduleDueStep ==
  ASSUME RulesInv, NEW rev \in 1..MaxRuleVer, ScheduleDue(rev)
  PROVE  RulesInv'
<1>1. PICK new : new = [revs[rev] EXCEPT !.st = "live"]
  OBVIOUS
<1>2. revs' = [revs EXCEPT ![rev] = new] /\ UNCHANGED <<item, work, stops>>
  BY <1>1 DEF ScheduleDue, RulesInv, ItemInv
<1>3. DOMAIN new = {"st", "grant", "issued"} /\ new.issued = revs[rev].issued
  BY <1>1 DEF RulesInv, ItemInv
<1>4. revs[rev].st \in InForce
  BY DEF ScheduleDue, InForce
<1>5. /\ DOMAIN revs' = 1..MaxRuleVer
      /\ \A r \in 1..MaxRuleVer : revs'[r] = revs[r] \/ (r = rev /\ revs'[r] = new)
  BY <1>2 DEF RulesInv, ItemInv
<1>6. ItemInv'
  BY <1>2, <1>3, <1>4, <1>5 DEF RulesInv, ItemInv
<1>7. WorkInv'
  BY <1>2 DEF RulesInv, WorkInv
<1> QED
  BY <1>6, <1>7 DEF RulesInv

(* Approved, or over: the item stays as it is.                             *)
LEMMA WorkMoves ==
  ASSUME RulesInv, UNCHANGED <<item, revs, stops>>, NEW w \in 1..MaxWork, NEW new,
         work' = [work EXCEPT ![w] = new],
         DOMAIN new = {"st", "edit", "expect", "rev", "grant", "proof", "issued"},
         Waits(new) => /\ Waits(work[w]) /\ new.edit = work[w].edit
                       /\ new.expect = work[w].expect /\ new.issued = work[w].issued
  PROVE  RulesInv'
<1>1. /\ DOMAIN work' = 1..MaxWork
      /\ \A v \in 1..MaxWork : work'[v] = work[v] \/ (v = w /\ work'[v] = new)
  BY DEF RulesInv, WorkInv
<1>2. WorkInv'
  BY <1>1 DEF RulesInv, WorkInv, Waits, Fits
<1>3. ItemInv'
  BY DEF RulesInv, ItemInv
<1> QED
  BY <1>2, <1>3 DEF RulesInv

LEMMA ApproveStep ==
  ASSUME RulesInv, NEW w \in 1..MaxWork, foundation_approve_rule(w)
  PROVE  RulesInv'
<1>1. PICK new : new = [work[w] EXCEPT !.st = "queued", !.proof = auth.v.grant]
  OBVIOUS
<1>2. work' = [work EXCEPT ![w] = new] /\ UNCHANGED <<item, revs, stops>>
  BY <1>1 DEF foundation_approve_rule, RulesInv, WorkInv
<1>3. DOMAIN work[w] = {"st", "edit", "expect", "rev", "grant", "proof", "issued"}
  BY DEF RulesInv, WorkInv
<1>4. /\ DOMAIN new = DOMAIN work[w] /\ new.edit = work[w].edit
      /\ new.expect = work[w].expect /\ new.issued = work[w].issued
  BY <1>1, <1>3
<1>5. Waits(new) => Waits(work[w])
  BY <1>4 DEF Waits, foundation_approve_rule
<1> QED
  BY <1>2, <1>3, <1>4, <1>5, WorkMoves

LEMMA EndedStep ==
  ASSUME RulesInv, NEW w \in 1..MaxWork, NEW st \in {"cancelled", "failed", "completed"},
         work' = [work EXCEPT ![w] = Over(st)], UNCHANGED <<item, revs, stops>>
  PROVE  RulesInv'
<1>1. PICK over : over = Over(st)
  OBVIOUS
<1>2. /\ DOMAIN over = {"st", "edit", "expect", "rev", "grant", "proof", "issued"}
      /\ ~Waits(over)
  BY <1>1 DEF Over, NoWork, Waits
<1> QED
  BY <1>1, <1>2, WorkMoves

LEMMA ExecuteStep ==
  ASSUME RulesInv, NEW w \in 1..MaxWork, foundation_execute_work(w)
  PROVE  RulesInv'
<1>1. CASE /\ validate_edit(work[w].edit, work[w].expect, work[w].rev)
           /\ Apply(work[w].edit, work[w].rev, work[w].grant, work[w].issued)
           /\ work' = [work EXCEPT ![w] = Over("completed")]
  <2>1. Waits(work[w])
    BY DEF foundation_execute_work, Waits
  <2>2. work[w].edit \in Edits /\ Fits(work[w], item.ver, stops)
    BY <2>1 DEF RulesInv, WorkInv
  <2>3. work[w].issued = stops
    BY <1>1, <2>2 DEF validate_edit, Fits
  <2>4. work[w].edit \in {"plain", "save", "replace", "stop"} => ~item.stopped
    BY <1>1 DEF validate_edit
  <2>5. ItemInv' /\ item'.ver = item.ver + 1
    BY <1>1, <2>2, <2>3, <2>4, ApplyStep DEF RulesInv
  <2>6. "completed" \notin {"awaiting_review", "queued"}
    OBVIOUS
  <2>7. WorkInv'
    BY <1>1, <2>5, <2>6, WorkOver
  <2> QED
    BY <2>5, <2>7 DEF RulesInv
<1>2. CASE work' = [work EXCEPT ![w] = Over("failed")] /\ UNCHANGED <<item, revs, stops>>
  BY <1>2, EndedStep
<1> QED
  BY <1>1, <1>2 DEF foundation_execute_work

LEMMA RulesStep == RulesInv /\ RulesNext => RulesInv'
<1> SUFFICES ASSUME RulesInv, RulesNext PROVE RulesInv'
  OBVIOUS
<1>1. ASSUME NEW edit \in Edits, NEW rev, rule_command(edit, rev) PROVE RulesInv'
  BY <1>1, RuleCommandStep
<1>2. ASSUME NEW defer \in BOOLEAN, knowledge_save(defer) PROVE RulesInv'
  BY <1>2, KnowledgeSaveStep
<1>3. ASSUME NEW r \in 1..MaxRuleVer, knowledge_withdraw(r) \/ ScheduleDue(r) PROVE RulesInv'
  BY <1>3, KnowledgeWithdrawStep, ScheduleDueStep
<1>4. CASE dispatch_context
  BY <1>4, QueueStep DEF dispatch_context
<1>5. ASSUME NEW w \in 1..MaxWork,
             \/ foundation_approve_rule(w) \/ foundation_execute_work(w) \/ execute_context(w)
             \/ \E reject \in BOOLEAN : rule_work_decide(w, reject)
      PROVE  RulesInv'
  <2>1. CASE foundation_approve_rule(w)
    BY <2>1, ApproveStep
  <2>2. CASE foundation_execute_work(w)
    BY <2>2, ExecuteStep
  <2>3. CASE execute_context(w)
    <3>1. PICK st \in {"completed", "failed"} : work' = [work EXCEPT ![w] = Over(st)]
      BY <2>3 DEF execute_context
    <3> QED
      BY <2>3, <3>1, EndedStep DEF execute_context
  <2>4. CASE \E reject \in BOOLEAN : rule_work_decide(w, reject)
    BY <2>4, EndedStep DEF rule_work_decide
  <2> QED
    BY <1>5, <2>1, <2>2, <2>3, <2>4
<1>6. ASSUME NEW x, NEW st, Reassigned(x, st) PROVE RulesInv'
  BY <1>6 DEF Reassigned, RulesInv, ItemInv, WorkInv, Fits, Waits
<1> QED
  BY <1>1, <1>2, <1>3, <1>4, <1>5, <1>6 DEF RulesNext

LEMMA RulesSafe == RulesInv => StopIsFinal
BY DEF RulesInv, ItemInv, InForce, StopIsFinal

-----------------------------------------------------------------------------
(***************************************************************************)
(* Business actions                                                        *)
(***************************************************************************)

BizFields == {"st", "op", "work", "key", "by", "ver", "auth", "id", "bver", "cover",
              "base", "order", "offer", "gone"}
AtPms == {"executing", "unknown", "completed"}
Ended == {"none", "cancelled", "preview_rejected", "not_executed"}

BizType ==
    /\ DOMAIN biz = Ids /\ \A a \in Ids : DOMAIN biz[a] = BizFields
    /\ DOMAIN pms = Ids /\ \A a \in Ids : DOMAIN pms[a] = {"st", "ok"}

(* What an action asked the PMS for, against what the ledger says of it.   *)
AskInv ==
    \A a \in Ids :
        /\ pms[a].ok
        /\ biz[a].st \notin AtPms => pms[a].st \in {"no", "refused"}
        /\ biz[a].st = "completed" => pms[a].st = "done"
        /\ biz[a].cover => biz[a].ver = 1
        /\ biz[a].st = "cancelled" => biz[a].gone

(* Of the actions for one booking or payment one is under way, except when *)
(* a cancelled one was taken up again.                                     *)
LiveInv ==
    \A a, b \in Ids : a # b /\ Same(a, b) /\ Live(a) /\ Live(b) => biz[a].gone \/ biz[b].gone

(* Who has an order: an order made under the key of another action was     *)
(* adopted only after that action was completed without one.               *)
OrderInv ==
    /\ \A o \in orders : o.id \in Ids => /\ pms[o.id].st = "done" /\ biz[o.id].op = "book"
                                         /\ o.quote = biz[o.id].key
    /\ \A b \in Ids : biz[b].order # {} => biz[b].st \in {"completed", "manual_completed"}
    /\ \A a, b \in Ids : biz[b].order = {a} => /\ pms[a].st = "done"
                                               /\ biz[a].work # biz[b].work => biz[a].st = "completed"
    /\ \A a, b \in Ids : biz[a].order # {} /\ biz[a].order = biz[b].order => biz[a].work = biz[b].work

LinkInv ==
    link.work # 0 => link.work # Source /\ \A a \in Ids : biz[a].work # Source

BizInv == BizType /\ AskInv /\ LiveInv /\ OrderInv /\ LinkInv

LEMMA NoBizFacts ==
  /\ DOMAIN NoBiz = BizFields /\ NoBiz.st = "none" /\ ~NoBiz.cover /\ NoBiz.order = {}
  /\ NoBiz.work = 0 /\ NoBiz.ver = 0
BY DEF NoBiz, BizFields

LEMMA BizInitInv == BusinessInit => BizInv
<1> SUFFICES ASSUME BusinessInit PROVE BizInv
  OBVIOUS
<1>1. PICK no : no = NoBiz
  OBVIOUS
<1>2. /\ DOMAIN no = BizFields /\ no.st = "none" /\ ~no.cover /\ no.order = {} /\ no.work = 0
  BY <1>1, NoBizFacts
<1>3. DOMAIN biz = Ids /\ \A a \in Ids : biz[a] = no
  BY <1>1 DEF BusinessInit
<1>4. PICK free : free = NotAsked
  OBVIOUS
<1>5. DOMAIN free = {"st", "ok"} /\ free.st = "no" /\ free.ok
  BY <1>4 DEF NotAsked
<1>6. DOMAIN pms = Ids /\ \A a \in Ids : pms[a] = free
  BY <1>4 DEF BusinessInit
<1>7. BizType
  BY <1>2, <1>3, <1>5, <1>6 DEF BizType
<1>8. AskInv
  BY <1>2, <1>3, <1>5, <1>6 DEF AskInv
<1>9. LiveInv
  BY <1>2, <1>3 DEF LiveInv, Live
<1>10. PICK old : old = [id |-> OldOrder, quote |-> "none"]
  OBVIOUS
<1>11. orders = {old} /\ old.id = OldOrder
  BY <1>10 DEF BusinessInit
<1>12. OldOrder \notin Ids
  BY BusinessBounds DEF OldOrder, Ids
<1>13. OrderInv
  BY <1>2, <1>3, <1>11, <1>12 DEF OrderInv
<1>14. LinkInv
  BY DEF BusinessInit, LinkInv
<1> QED
  BY <1>7, <1>8, <1>9, <1>13, <1>14 DEF BizInv

-----------------------------------------------------------------------------
(* One action moves on and keeps what it is about.                         *)
Becomes(a, r) ==
    /\ biz' = [biz EXCEPT ![a] = r] /\ DOMAIN r = BizFields
    /\ r.op = biz[a].op /\ r.work = biz[a].work /\ r.key = biz[a].key
    /\ biz[a].gone => r.gone

LEMMA BecomesFacts ==
  ASSUME BizInv, NEW a \in Ids, NEW r, Becomes(a, r)
  PROVE  /\ DOMAIN biz' = Ids /\ \A b \in Ids : DOMAIN biz'[b] = BizFields
         /\ biz'[a] = r /\ \A b \in Ids : b # a => biz'[b] = biz[b]
         /\ \A b \in Ids : /\ biz'[b].op = biz[b].op /\ biz'[b].work = biz[b].work
                           /\ biz'[b].key = biz[b].key /\ (biz[b].gone => biz'[b].gone)
BY DEF BizInv, BizType, Becomes

LEMMA BecomesLive ==
  ASSUME BizInv, NEW a \in Ids, NEW r, Becomes(a, r), r.st \notin Ended => Live(a) \/ r.gone
  PROVE  LiveInv'
<1>1. ASSUME NEW b \in Ids, NEW c \in Ids, b # c, Same(b, c)', Live(b)', Live(c)'
      PROVE  biz'[b].gone \/ biz'[c].gone
  <2>1. Same(b, c)
    BY <1>1, BecomesFacts DEF Same
  <2>2. (Live(b) \/ biz'[b].gone) /\ (Live(c) \/ biz'[c].gone)
    BY <1>1, BecomesFacts DEF Live, Ended
  <2>3. (biz[b].gone => biz'[b].gone) /\ (biz[c].gone => biz'[c].gone)
    BY BecomesFacts
  <2> QED
    BY <1>1, <2>1, <2>2, <2>3 DEF BizInv, LiveInv
<1> QED
  BY <1>1 DEF LiveInv

LEMMA BecomesLink ==
  ASSUME BizInv, NEW a \in Ids, NEW r, Becomes(a, r), link' = link
  PROVE  LinkInv'
BY BecomesFacts DEF BizInv, LinkInv, Source

(* Without an order of its own, and not completed, an action takes none    *)
(* from another one.                                                       *)
LEMMA BecomesOrder ==
  ASSUME BizInv, NEW a \in Ids, NEW r, Becomes(a, r), orders' = orders,
         biz[a].st # "completed", r.order = {},
         \A b \in Ids : pms[b].st = "done" => pms'[b].st = "done"
  PROVE  OrderInv'
<1>1. \A b \in Ids : /\ biz'[b].op = biz[b].op /\ biz'[b].work = biz[b].work /\ biz'[b].key = biz[b].key
                     /\ b # a => biz'[b] = biz[b]
  BY BecomesFacts
<1>2. biz'[a] = r /\ biz'[a].order = {}
  BY BecomesFacts
<1>3. \A b \in Ids : biz'[b].order # {} => b # a
  BY <1>2
<1>4. \A o \in orders : o.id \in Ids => /\ pms'[o.id].st = "done" /\ biz'[o.id].op = "book"
                                         /\ o.quote = biz'[o.id].key
  BY <1>1 DEF BizInv, OrderInv
<1>5. \A b \in Ids : biz'[b].order # {} => biz'[b].st \in {"completed", "manual_completed"}
  BY <1>1, <1>3 DEF BizInv, OrderInv
<1>6. ASSUME NEW c \in Ids, NEW b \in Ids, biz'[b].order = {c}
      PROVE  /\ pms'[c].st = "done"
             /\ biz'[c].work # biz'[b].work => biz'[c].st = "completed"
  <2>1. biz[b].order = {c}
    BY <1>1, <1>3, <1>6
  <2>2. pms[c].st = "done" /\ (biz[c].work # biz[b].work => biz[c].st = "completed")
    BY <2>1 DEF BizInv, OrderInv
  <2> QED
    BY <1>1, <2>2
<1>7. \A c, b \in Ids : biz'[c].order # {} /\ biz'[c].order = biz'[b].order => biz'[c].work = biz'[b].work
  BY <1>1, <1>3 DEF BizInv, OrderInv
<1> QED
  BY <1>4, <1>5, <1>6, <1>7 DEF OrderInv

(* An action moves on while the PMS and the orders stay as they are.       *)
LEMMA Moves ==
  ASSUME BizInv, NEW a \in Ids, NEW r, Becomes(a, r), UNCHANGED <<pms, orders, link>>,
         biz[a].st # "completed", r.st # "completed", r.order = {},
         r.st \notin Ended => Live(a) \/ r.gone,
         r.st \notin AtPms => pms[a].st \in {"no", "refused"},
         r.cover => r.ver = 1,
         r.st = "cancelled" => r.gone
  PROVE  BizInv'
<1>1. BizType'
  BY BecomesFacts DEF BizInv, BizType
<1>2. AskInv'
  BY BecomesFacts DEF BizInv, AskInv
<1>3. OrderInv'
  BY BecomesOrder
<1> QED
  BY <1>1, <1>2, <1>3, BecomesLive, BecomesLink DEF BizInv

(* The record an action moves to, when it is past its plan and before.     *)
LEMMA PastFacts ==
  ASSUME BizInv, NEW a \in Ids, NEW st, NEW r, r = Past(a, st)
  PROVE  /\ DOMAIN r = BizFields /\ r.st = st /\ ~r.cover /\ r.order = {} /\ r.gone = biz[a].gone
         /\ r.op = biz[a].op /\ r.work = biz[a].work /\ r.key = biz[a].key
BY NoBizFacts DEF Past, BizFields

LEMMA PhaseFacts ==
  ASSUME BizInv, NEW a \in Ids, NEW st, NEW r, r = [biz[a] EXCEPT !.st = st]
  PROVE  /\ DOMAIN r = BizFields /\ r.st = st /\ r.cover = biz[a].cover /\ r.ver = biz[a].ver
         /\ r.order = biz[a].order /\ r.gone = biz[a].gone
         /\ r.op = biz[a].op /\ r.work = biz[a].work /\ r.key = biz[a].key
BY DEF BizInv, BizType, BizFields

LEMMA ActionFacts ==
  ASSUME BizInv, NEW a \in Ids, biz[a].st \notin {"completed", "manual_completed"}
  PROVE  /\ biz[a].order = {}
         /\ biz[a].st \notin AtPms => pms[a].st \in {"no", "refused"}
         /\ biz[a].cover => biz[a].ver = 1
         /\ biz[a].st \notin Ended => Live(a)
         /\ biz[a].st = "cancelled" => biz[a].gone
BY DEF BizInv, OrderInv, AskInv, Live, Ended

LEMMA StartStep ==
  ASSUME BizInv, NEW p, NEW op \in {"book", "collect"}, NEW key, NEW w, NEW target,
         pms_start(p, op, key, w, target)
  PROVE  BizInv'
<1>1. PICK wk : wk = canonical_business_work(w, op, target)
  OBVIOUS
<1>2. PICK a \in Ids :
         /\ biz[a].st = "none" /\ wk # 0 /\ ~prior(op, key, wk)
         /\ biz' = [biz EXCEPT ![a] =
                       [NoBiz EXCEPT !.st = "draft", !.op = op, !.work = wk, !.key = key, !.by = p,
                          !.ver = 1, !.auth = oper[p].id, !.id = ident[p], !.bver = binding.ver]]
         /\ UNCHANGED <<pms, orders, facts, link>>
  BY <1>1 DEF pms_start, Update
<1>3. PICK r : r = [NoBiz EXCEPT !.st = "draft", !.op = op, !.work = wk, !.key = key, !.by = p,
                      !.ver = 1, !.auth = oper[p].id, !.id = ident[p], !.bver = binding.ver]
  OBVIOUS
<1>4. /\ DOMAIN r = BizFields /\ r.st = "draft" /\ r.op = op /\ r.work = wk /\ r.key = key
      /\ ~r.cover /\ r.order = {} /\ r.ver = 1
  BY <1>3, NoBizFacts DEF BizFields
<1>5. /\ DOMAIN biz' = Ids /\ biz'[a] = r /\ \A b \in Ids : b # a => biz'[b] = biz[b]
  BY <1>2, <1>3 DEF BizInv, BizType
<1>6. BizType'
  BY <1>2, <1>4, <1>5 DEF BizInv, BizType
<1>7. pms[a].st \in {"no", "refused"} /\ ~Live(a) /\ biz[a].st \notin {"completed", "manual_completed"}
  BY <1>2 DEF BizInv, AskInv, Live, AtPms
<1>8. AskInv'
  BY <1>2, <1>4, <1>5, <1>7 DEF BizInv, AskInv
<1>9. ASSUME NEW b \in Ids, b # a, Live(b)
      PROVE  ~Same(a, b)' /\ ~Same(b, a)'
  BY <1>2, <1>4, <1>5, <1>9 DEF prior, Same
<1>10. LiveInv'
  <2>1. ASSUME NEW b \in Ids, b # a
        PROVE  Live(b)' <=> Live(b)
    BY <1>5, <2>1 DEF Live
  <2>2. ASSUME NEW b \in Ids, NEW c \in Ids, b # a, c # a
        PROVE  Same(b, c)' <=> Same(b, c)
    BY <1>5, <2>2 DEF Same
  <2> QED
    BY <1>5, <1>9, <2>1, <2>2 DEF BizInv, LiveInv
<1>11. OrderInv'
  <2>1. \A b \in Ids : /\ biz'[b].order # {} => b # a /\ biz'[b] = biz[b]
                       /\ biz[b].st # "none" => b # a /\ biz'[b] = biz[b]
    BY <1>2, <1>4, <1>5
  <2>2. ASSUME NEW o \in orders, o.id \in Ids
        PROVE  /\ pms[o.id].st = "done" /\ biz'[o.id].op = "book" /\ o.quote = biz'[o.id].key
    <3>1. pms[o.id].st = "done" /\ biz[o.id].op = "book" /\ o.quote = biz[o.id].key
      BY <2>2 DEF BizInv, OrderInv
    <3> QED
      BY <1>5, <1>7, <2>2, <3>1
  <2>3. ASSUME NEW b \in Ids, biz'[b].order # {}
        PROVE  biz'[b].st \in {"completed", "manual_completed"}
    BY <2>1, <2>3 DEF BizInv, OrderInv
  <2>4. ASSUME NEW c \in Ids, NEW b \in Ids, biz'[b].order = {c}
        PROVE  pms[c].st = "done" /\ (biz'[c].work # biz'[b].work => biz'[c].st = "completed")
    <3>1. biz[b].order = {c} /\ biz'[b] = biz[b]
      BY <2>1, <2>4
    <3>2. pms[c].st = "done" /\ (biz[c].work # biz[b].work => biz[c].st = "completed")
      BY <3>1 DEF BizInv, OrderInv
    <3>3. biz'[c] = biz[c]
      BY <1>5, <1>7, <3>2
    <3> QED
      BY <3>1, <3>2, <3>3
  <2>5. ASSUME NEW c \in Ids, NEW b \in Ids, biz'[c].order # {}, biz'[c].order = biz'[b].order
        PROVE  biz'[c].work = biz'[b].work
    BY <2>1, <2>5 DEF BizInv, OrderInv
  <2> QED
    BY <1>2, <2>2, <2>3, <2>4, <2>5 DEF OrderInv
<1>12. LinkInv'
  <2>1. CASE link.work = 0
    BY <1>2, <2>1 DEF LinkInv
  <2>2. CASE link.work # 0
    <3>1. link.work # Source
      BY <2>2 DEF BizInv, LinkInv
    <3>2. wk # Source
      <4>1. CASE w = Source
        BY <1>1, <1>2, <2>2, <3>1, <4>1, BusinessBounds DEF canonical_business_work, Source
      <4>2. CASE w # Source
        <5>1. wk = 0 \/ wk = w
          BY <1>1, <4>2 DEF canonical_business_work
        <5> QED
          BY <1>2, <4>2, <5>1
      <4> QED
        BY <4>1, <4>2
    <3>3. \A b \in Ids : biz'[b].work # Source
      BY <1>4, <1>5, <2>2, <3>2 DEF BizInv, LinkInv
    <3> QED
      BY <1>2, <3>1, <3>3 DEF LinkInv, Source
  <2> QED
    BY <2>1, <2>2
<1> QED
  BY <1>6, <1>8, <1>10, <1>11, <1>12 DEF BizInv

(* The steps of a plan before the PMS is asked.                            *)
LEMMA PlanStep ==
  ASSUME BizInv, NEW p, NEW a \in Ids,
         \/ pms_claim_preview(p, a) \/ pms_reject_preview(p, a)
         \/ \E covered \in BOOLEAN : pms_save_preview(p, a, covered)
         \/ pms_resume(p, a) \/ pms_handoff(p, a) \/ pms_save_manual(p, a)
         \/ \E to \in {"paused", "cancelled"} : pms_pause_cancel(p, a, to)
  PROVE  BizInv'
<1>1. CASE pms_claim_preview(p, a)
  <2>1. PICK r : r = [biz[a] EXCEPT !.st = "previewing"]
    OBVIOUS
  <2>2. /\ biz' = [biz EXCEPT ![a] = r] /\ UNCHANGED <<pms, orders, link>> /\ biz[a].st = "draft"
    BY <1>1, <2>1 DEF pms_claim_preview, Phase, Update
  <2>3. /\ DOMAIN r = BizFields /\ r.st = "previewing" /\ r.cover = biz[a].cover
        /\ r.ver = biz[a].ver /\ r.order = biz[a].order /\ r.gone = biz[a].gone
        /\ r.op = biz[a].op /\ r.work = biz[a].work /\ r.key = biz[a].key
    BY <2>1, PhaseFacts
  <2> QED
    BY <2>2, <2>3, ActionFacts, Moves DEF Becomes, Ended, AtPms
<1>2. CASE pms_reject_preview(p, a)
  <2>1. PICK r : r = Past(a, "preview_rejected")
    OBVIOUS
  <2>2. /\ biz' = [biz EXCEPT ![a] = r] /\ UNCHANGED <<pms, orders, link>> /\ biz[a].st = "previewing"
    BY <1>2, <2>1 DEF pms_reject_preview, Update
  <2>3. /\ DOMAIN r = BizFields /\ r.st = "preview_rejected" /\ ~r.cover /\ r.order = {}
        /\ r.op = biz[a].op /\ r.work = biz[a].work /\ r.key = biz[a].key
        /\ r.gone = biz[a].gone
    BY <2>1, PastFacts
  <2> QED
    BY <2>2, <2>3, ActionFacts, Moves DEF Becomes, Ended, AtPms
<1>3. ASSUME NEW covered \in BOOLEAN, pms_save_preview(p, a, covered)
      PROVE  BizInv'
  <2>1. PICK r : r = [biz[a] EXCEPT !.st = "awaiting_confirmation", !.cover = covered]
    OBVIOUS
  <2>2. /\ biz' = [biz EXCEPT ![a] = r] /\ UNCHANGED <<pms, orders, link>>
        /\ biz[a].st = "previewing" /\ (covered => biz[a].ver = 1)
    BY <1>3, <2>1 DEF pms_save_preview, Update
  <2>3. /\ DOMAIN r = BizFields /\ r.st = "awaiting_confirmation" /\ r.cover = covered
        /\ r.ver = biz[a].ver /\ r.order = biz[a].order /\ r.gone = biz[a].gone
        /\ r.op = biz[a].op /\ r.work = biz[a].work /\ r.key = biz[a].key
    BY <2>1 DEF BizInv, BizType, BizFields
  <2> QED
    BY <2>2, <2>3, ActionFacts, Moves DEF Becomes, Ended, AtPms
<1>4. CASE pms_resume(p, a)
  <2>1. PICK r : r = [biz[a] EXCEPT !.st = "draft", !.ver = @ + 1, !.cover = FALSE]
    OBVIOUS
  <2>2. /\ biz' = [biz EXCEPT ![a] = r] /\ UNCHANGED <<pms, orders, link>> /\ biz[a].st = "paused"
    BY <1>4, <2>1 DEF pms_resume, Update
  <2>3. /\ DOMAIN r = BizFields /\ r.st = "draft" /\ ~r.cover
        /\ r.order = biz[a].order /\ r.gone = biz[a].gone
        /\ r.op = biz[a].op /\ r.work = biz[a].work /\ r.key = biz[a].key
    BY <2>1 DEF BizInv, BizType, BizFields
  <2> QED
    BY <2>2, <2>3, ActionFacts, Moves DEF Becomes, Ended, AtPms
<1>5. CASE pms_handoff(p, a)
  <2>1. PICK r : r = [biz[a] EXCEPT !.st = "manual_handoff",
                                    !.base = IF biz[a].op = "collect" THEN facts ELSE {},
                                    !.auth = 0, !.id = 0, !.cover = FALSE]
    OBVIOUS
  <2>2. /\ biz' = [biz EXCEPT ![a] = r] /\ UNCHANGED <<pms, orders, link>>
        /\ biz[a].st \in {"draft", "awaiting_confirmation", "paused", "cancelled"}
    BY <1>5, <2>1 DEF pms_handoff, Update, Interruptible
  <2>3. /\ DOMAIN r = BizFields /\ r.st = "manual_handoff" /\ ~r.cover
        /\ r.order = biz[a].order /\ r.gone = biz[a].gone
        /\ r.op = biz[a].op /\ r.work = biz[a].work /\ r.key = biz[a].key
    BY <2>1 DEF BizInv, BizType, BizFields
  <2> QED
    BY <2>2, <2>3, ActionFacts, Moves DEF Becomes, Ended, AtPms
<1>6. CASE pms_save_manual(p, a)
  <2>1. PICK r : r = [biz[a] EXCEPT !.st = "manual_completed"]
    OBVIOUS
  <2>2. /\ biz' = [biz EXCEPT ![a] = r] /\ UNCHANGED <<pms, orders, link>>
        /\ biz[a].st = "manual_handoff"
    BY <1>6, <2>1 DEF pms_save_manual, Phase, Update
  <2>3. /\ DOMAIN r = BizFields /\ r.st = "manual_completed" /\ r.cover = biz[a].cover
        /\ r.ver = biz[a].ver /\ r.order = biz[a].order /\ r.gone = biz[a].gone
        /\ r.op = biz[a].op /\ r.work = biz[a].work /\ r.key = biz[a].key
    BY <2>1, PhaseFacts
  <2> QED
    BY <2>2, <2>3, ActionFacts, Moves DEF Becomes, Ended, AtPms
<1>7. ASSUME NEW to \in {"paused", "cancelled"}, pms_pause_cancel(p, a, to)
      PROVE  BizInv'
  <2>1. PICK r : r = [biz[a] EXCEPT !.st = to, !.gone = @ \/ to = "cancelled"]
    OBVIOUS
  <2>2. /\ biz' = [biz EXCEPT ![a] = r] /\ UNCHANGED <<pms, orders, link>>
        /\ biz[a].st \in {"draft", "awaiting_confirmation", "paused", "cancelled"}
    BY <1>7, <2>1 DEF pms_pause_cancel, Update, Interruptible
  <2>3. /\ DOMAIN r = BizFields /\ r.st = to /\ r.cover = biz[a].cover /\ r.ver = biz[a].ver
        /\ r.order = biz[a].order
        /\ r.op = biz[a].op /\ r.work = biz[a].work /\ r.key = biz[a].key
    BY <2>1 DEF BizInv, BizType, BizFields
  <2>4. r.gone <=> biz[a].gone \/ to = "cancelled"
    BY <2>1 DEF BizInv, BizType, BizFields
  <2> QED
    BY <2>2, <2>3, <2>4, ActionFacts, Moves DEF Becomes, Ended, AtPms
<1> QED
  BY <1>1, <1>2, <1>3, <1>4, <1>5, <1>6, <1>7

(* The PMS is asked for the version somebody confirmed.                    *)
LEMMA ExecuteClaimStep ==
  ASSUME BizInv, NEW p, NEW a \in Ids, pms_claim_execute(p, a)
  PROVE  BizInv'
<1>1. PICK r : r = Past(a, "executing")
  OBVIOUS
<1>2. PICK ok : ok = (biz[a].ver \in confirmation(p, a) \cup (IF reuse(p, a) THEN {1} ELSE {}))
  OBVIOUS
<1>3. PICK q : q = [st |-> "asked", ok |-> ok]
  OBVIOUS
<1>4. /\ biz' = [biz EXCEPT ![a] = r] /\ pms' = [pms EXCEPT ![a] = q]
      /\ UNCHANGED <<orders, link>> /\ biz[a].st = "awaiting_confirmation"
      /\ confirmation(p, a) # {} \/ reuse(p, a)
  BY <1>1, <1>2, <1>3 DEF pms_claim_execute, Update
<1>5. ok
  <2>1. CASE confirmation(p, a) # {}
    <3>1. biz[a].ver \in confirmation(p, a)
      BY <2>1 DEF confirmation
    <3> QED
      BY <1>2, <3>1
  <2>2. CASE reuse(p, a)
    <3>1. biz[a].ver = 1
      BY <2>2 DEF reuse, BizInv, AskInv
    <3> QED
      BY <1>2, <2>2, <3>1
  <2> QED
    BY <1>4, <2>1, <2>2
<1>6. DOMAIN q = {"st", "ok"} /\ q.st = "asked" /\ q.ok
  BY <1>3, <1>5
<1>7. /\ DOMAIN r = BizFields /\ r.st = "executing" /\ ~r.cover /\ r.order = {}
      /\ r.op = biz[a].op /\ r.work = biz[a].work /\ r.key = biz[a].key /\ r.gone = biz[a].gone
  BY <1>1, PastFacts
<1>8. Becomes(a, r)
  BY <1>4, <1>7 DEF Becomes
<1>9. /\ DOMAIN pms' = Ids /\ pms'[a] = q /\ \A b \in Ids : b # a => pms'[b] = pms[b]
  BY <1>4 DEF BizInv, BizType
<1>10. pms[a].st # "done" /\ Live(a)
  BY <1>4, ActionFacts DEF AtPms, Ended
<1>11. BizType'
  <2>1. \A b \in Ids : DOMAIN pms'[b] = {"st", "ok"}
    BY <1>6, <1>9 DEF BizInv, BizType
  <2> QED
    BY <1>8, <1>9, <2>1, BecomesFacts DEF BizType
<1>12. AskInv'
  BY <1>6, <1>7, <1>8, <1>9, BecomesFacts DEF BizInv, AskInv, AtPms
<1>13. LiveInv'
  BY <1>8, <1>10, BecomesLive
<1>14. \A b \in Ids : pms[b].st = "done" => pms'[b].st = "done"
  BY <1>9, <1>10
<1>15. OrderInv'
  BY <1>4, <1>7, <1>8, <1>14, BecomesOrder
<1> QED
  BY <1>4, <1>8, <1>11, <1>12, <1>13, <1>15, BecomesLink DEF BizInv

LEMMA ResultStep ==
  ASSUME BizInv, NEW p, NEW a \in Ids, NEW readback \in BOOLEAN,
         NEW status \in {"EXECUTED", "NOT_EXECUTED", "UNKNOWN"},
         pms_save_result(p, a, status, readback)
  PROVE  BizInv'
<1>1. biz[a].st \in {"executing", "unknown", "previewing"} /\ UNCHANGED <<pms, orders, link>>
  BY DEF pms_save_result, pms_recovery
<1>2. CASE status = "NOT_EXECUTED"
  <2>1. PICK r : r = Past(a, "not_executed")
    OBVIOUS
  <2>2. biz' = [biz EXCEPT ![a] = r] /\ (biz[a].st = "previewing" \/ pms[a].st = "refused")
    BY <1>2, <2>1 DEF pms_save_result, Update
  <2>3. /\ DOMAIN r = BizFields /\ r.st = "not_executed" /\ ~r.cover /\ r.order = {}
        /\ r.op = biz[a].op /\ r.work = biz[a].work /\ r.key = biz[a].key /\ r.gone = biz[a].gone
    BY <2>1, PastFacts
  <2> QED
    BY <1>1, <2>2, <2>3, ActionFacts, Moves DEF Becomes, Ended, AtPms
<1>3. CASE status = "UNKNOWN"
  <2>1. PICK st : st = IF biz[a].st = "previewing" THEN "previewing" ELSE "unknown"
    OBVIOUS
  <2>2. PICK r : r = [biz[a] EXCEPT !.st = st]
    OBVIOUS
  <2>3. biz' = [biz EXCEPT ![a] = r]
    BY <1>3, <2>1, <2>2 DEF pms_save_result, Phase, Update
  <2>4. /\ DOMAIN r = BizFields /\ r.st = st /\ r.cover = biz[a].cover
        /\ r.ver = biz[a].ver /\ r.order = biz[a].order /\ r.gone = biz[a].gone
        /\ r.op = biz[a].op /\ r.work = biz[a].work /\ r.key = biz[a].key
    BY <2>2, PhaseFacts
  <2> QED
    BY <1>1, <2>1, <2>3, <2>4, ActionFacts, Moves DEF Becomes, Ended, AtPms
<1>4. CASE status = "EXECUTED"
  <2>1. PICK mine : mine = IF readback /\ biz[a].op = "book" THEN {a} ELSE {}
    OBVIOUS
  <2>2. PICK r : r = [biz[a] EXCEPT !.st = "completed", !.order = mine]
    OBVIOUS
  <2>3. /\ biz' = [biz EXCEPT ![a] = r] /\ pms[a].st = "done"
        /\ biz[a].st \in {"executing", "unknown"}
    BY <1>1, <1>4, <2>1, <2>2 DEF pms_save_result, Update
  <2>4. /\ DOMAIN r = BizFields /\ r.st = "completed" /\ r.cover = biz[a].cover
        /\ r.ver = biz[a].ver /\ r.order = mine /\ r.gone = biz[a].gone
        /\ r.op = biz[a].op /\ r.work = biz[a].work /\ r.key = biz[a].key
    BY <2>2 DEF BizInv, BizType, BizFields
  <2>5. Becomes(a, r)
    BY <2>3, <2>4 DEF Becomes
  <2>6. BizType'
    BY <1>1, <2>5, BecomesFacts DEF BizInv, BizType
  <2>7. AskInv'
    BY <1>1, <2>3, <2>4, <2>5, BecomesFacts DEF BizInv, AskInv, AtPms
  <2>8. LiveInv'
    BY <2>3, <2>5, BecomesLive DEF Live
  <2>9. mine = {} \/ mine = {a}
    BY <2>1
  <2>10. \A b \in Ids : b # a => biz'[b] = biz[b]
    BY <2>5, BecomesFacts
  <2>11. biz'[a] = r
    BY <2>5, BecomesFacts
  <2>12. ASSUME NEW b \in Ids, b # a, biz[b].order = {a}
         PROVE  biz[b].work = biz[a].work
    BY <2>3, <2>12 DEF BizInv, OrderInv
  <2>13. OrderInv'
    <3>1. \A o \in orders : o.id \in Ids => /\ pms[o.id].st = "done" /\ biz'[o.id].op = "book"
                                            /\ o.quote = biz'[o.id].key
      BY <2>5, BecomesFacts DEF BizInv, OrderInv
    <3>2. \A b \in Ids : biz'[b].order # {} => biz'[b].st \in {"completed", "manual_completed"}
      BY <2>4, <2>10, <2>11 DEF BizInv, OrderInv
    <3>3. ASSUME NEW c \in Ids, NEW b \in Ids, biz'[b].order = {c}
          PROVE  pms[c].st = "done" /\ (biz'[c].work # biz'[b].work => biz'[c].st = "completed")
      <4>1. CASE b = a
        BY <2>3, <2>4, <2>9, <2>11, <3>3, <4>1
      <4>2. CASE b # a
        BY <2>4, <2>10, <2>11, <3>3, <4>2 DEF BizInv, OrderInv
      <4> QED
        BY <4>1, <4>2
    <3>4. ASSUME NEW c \in Ids, NEW b \in Ids, biz'[c].order # {}, biz'[c].order = biz'[b].order
          PROVE  biz'[c].work = biz'[b].work
      <4>1. CASE c = a /\ b # a
        BY <2>4, <2>9, <2>10, <2>11, <2>12, <3>4, <4>1
      <4>2. CASE c # a /\ b = a
        BY <2>4, <2>9, <2>10, <2>11, <2>12, <3>4, <4>2
      <4>3. CASE c # a /\ b # a
        BY <2>10, <3>4, <4>3 DEF BizInv, OrderInv
      <4> QED
        BY <4>1, <4>2, <4>3
    <3> QED
      BY <1>1, <3>1, <3>2, <3>3, <3>4 DEF OrderInv
  <2> QED
    BY <1>1, <2>5, <2>6, <2>7, <2>8, <2>13, BecomesLink DEF BizInv
<1> QED
  BY <1>2, <1>3, <1>4

(* An order is adopted when no other work has it or may be making it.      *)
LEMMA AdoptStep ==
  ASSUME BizInv, NEW p, NEW a \in Ids, NEW o \in orders, NEW approved \in BOOLEAN,
         adopt_order(p, a, o, approved)
  PROVE  BizInv'
<1>1. /\ UNCHANGED <<pms, orders, link>> /\ biz[a].st = "manual_handoff"
      /\ ~adoption_conflict(a, o)
  BY DEF adopt_order
<1>2. CASE ~approved
  <2>1. PICK r : r = [biz[a] EXCEPT !.offer = {o.id}]
    OBVIOUS
  <2>2. biz' = [biz EXCEPT ![a] = r]
    BY <1>2, <2>1 DEF adopt_order, BizInv, BizType
  <2>3. /\ DOMAIN r = BizFields /\ r.st = biz[a].st /\ r.cover = biz[a].cover
        /\ r.ver = biz[a].ver /\ r.order = biz[a].order /\ r.gone = biz[a].gone
        /\ r.op = biz[a].op /\ r.work = biz[a].work /\ r.key = biz[a].key
    BY <2>1 DEF BizInv, BizType, BizFields
  <2> QED
    BY <1>1, <2>2, <2>3, ActionFacts, Moves DEF Becomes, Ended, AtPms
<1>3. CASE approved
  <2>1. PICK r : r = [biz[a] EXCEPT !.st = "manual_completed", !.order = {o.id}, !.offer = {}]
    OBVIOUS
  <2>2. biz' = [biz EXCEPT ![a] = r]
    BY <1>3, <2>1 DEF adopt_order, Update
  <2>3. /\ DOMAIN r = BizFields /\ r.st = "manual_completed" /\ r.cover = biz[a].cover
        /\ r.ver = biz[a].ver /\ r.order = {o.id} /\ r.gone = biz[a].gone
        /\ r.op = biz[a].op /\ r.work = biz[a].work /\ r.key = biz[a].key
    BY <2>1 DEF BizInv, BizType, BizFields
  <2>4. Becomes(a, r)
    BY <2>2, <2>3 DEF Becomes
  <2>5. pms[a].st \in {"no", "refused"} /\ Live(a) /\ (biz[a].cover => biz[a].ver = 1)
    BY <1>1, ActionFacts DEF AtPms, Ended
  <2>6. BizType'
    BY <1>1, <2>4, BecomesFacts DEF BizInv, BizType
  <2>7. AskInv'
    BY <1>1, <2>3, <2>4, <2>5, BecomesFacts DEF BizInv, AskInv, AtPms
  <2>8. LiveInv'
    BY <2>4, <2>5, BecomesLive
  <2>9. biz'[a] = r /\ \A b \in Ids : b # a => biz'[b] = biz[b]
    BY <2>4, BecomesFacts
  <2>10. ASSUME NEW b \in Ids, b # a, biz[b].order = {o.id}
         PROVE  biz[b].work = biz[a].work
    <3>1. biz[b].st \in {"completed", "manual_completed"}
      BY <2>10 DEF BizInv, OrderInv
    <3> QED
      BY <1>1, <2>10, <3>1 DEF adoption_conflict
  <2>11. ASSUME NEW c \in Ids, o.id = c
         PROVE  /\ pms[c].st = "done" /\ c # a
                /\ biz[c].work # biz[a].work => biz[c].st = "completed"
    <3>1. pms[c].st = "done" /\ biz[c].op = "book" /\ o.quote = biz[c].key
      BY <2>11 DEF BizInv, OrderInv
    <3>2. biz[c].st \in AtPms
      BY <3>1 DEF BizInv, AskInv
    <3> QED
      BY <1>1, <2>5, <3>1, <3>2 DEF adoption_conflict, AtPms
  <2>12. OrderInv'
    <3>1. \A n \in orders : n.id \in Ids => /\ pms[n.id].st = "done" /\ biz'[n.id].op = "book"
                                            /\ n.quote = biz'[n.id].key
      BY <2>4, BecomesFacts DEF BizInv, OrderInv
    <3>2. \A b \in Ids : biz'[b].order # {} => biz'[b].st \in {"completed", "manual_completed"}
      BY <2>3, <2>9 DEF BizInv, OrderInv
    <3>3. ASSUME NEW c \in Ids, NEW b \in Ids, biz'[b].order = {c}
          PROVE  pms[c].st = "done" /\ (biz'[c].work # biz'[b].work => biz'[c].st = "completed")
      <4>1. CASE b = a
        <5>1. o.id = c
          BY <2>3, <2>9, <3>3, <4>1
        <5> QED
          BY <2>3, <2>9, <2>11, <4>1, <5>1
      <4>2. CASE b # a
        <5>1. pms[c].st = "done" /\ (biz[c].work # biz[b].work => biz[c].st = "completed")
          BY <2>9, <3>3, <4>2 DEF BizInv, OrderInv
        <5>2. c # a
          BY <2>5, <5>1
        <5> QED
          BY <2>9, <4>2, <5>1, <5>2
      <4> QED
        BY <4>1, <4>2
    <3>4. ASSUME NEW c \in Ids, NEW b \in Ids, biz'[c].order # {}, biz'[c].order = biz'[b].order
          PROVE  biz'[c].work = biz'[b].work
      <4>1. CASE c = a /\ b # a
        BY <2>3, <2>9, <2>10, <3>4, <4>1
      <4>2. CASE c # a /\ b = a
        BY <2>3, <2>9, <2>10, <3>4, <4>2
      <4>3. CASE c # a /\ b # a
        BY <2>9, <3>4, <4>3 DEF BizInv, OrderInv
      <4> QED
        BY <4>1, <4>2, <4>3
    <3> QED
      BY <1>1, <3>1, <3>2, <3>3, <3>4 DEF OrderInv
  <2> QED
    BY <1>1, <2>4, <2>6, <2>7, <2>8, <2>12, BecomesLink DEF BizInv
<1> QED
  BY <1>2, <1>3

LEMMA LinkStep ==
  ASSUME BizInv, NEW p, NEW a \in Ids, link_business_source(p, a)
  PROVE  BizInv'
<1>1. PICK new : new = [work |-> biz[a].work, order |-> biz[a].order]
  OBVIOUS
<1>2. /\ link' = new /\ UNCHANGED <<biz, pms, orders>>
      /\ \A b \in Ids : biz[b].work # Source
  BY <1>1 DEF link_business_source
<1>3. new.work = biz[a].work
  BY <1>1
<1> QED
  BY <1>2, <1>3 DEF BizInv, BizType, AskInv, LiveInv, Same, Live, OrderInv, LinkInv, Source

(* The PMS acts, or refuses, while the action is at the PMS.               *)
LEMMA DecidesStep ==
  ASSUME BizInv, NEW a \in Ids, NEW done \in BOOLEAN, PmsDecides(a, done)
  PROVE  BizInv'
<1>1. PICK st : st = IF done THEN "done" ELSE "refused"
  OBVIOUS
<1>2. PICK q : q = [pms[a] EXCEPT !.st = st]
  OBVIOUS
<1>3. pms' = [pms EXCEPT ![a] = q] /\ pms[a].st = "asked" /\ UNCHANGED <<biz, link>>
  BY <1>1, <1>2 DEF PmsDecides, BizInv, BizType
<1>4. DOMAIN q = {"st", "ok"} /\ q.st = st /\ q.ok = pms[a].ok
  BY <1>2 DEF BizInv, BizType
<1>5. /\ DOMAIN pms' = Ids /\ pms'[a] = q /\ \A b \in Ids : b # a => pms'[b] = pms[b]
  BY <1>3 DEF BizInv, BizType
<1>6. BizType'
  BY <1>3, <1>4, <1>5 DEF BizInv, BizType
<1>7. AskInv'
  BY <1>1, <1>3, <1>4, <1>5 DEF BizInv, AskInv
<1>8. LiveInv' /\ LinkInv'
  BY <1>3 DEF BizInv, LiveInv, Same, Live, LinkInv, Source
<1>9. \A b \in Ids : pms[b].st = "done" => pms'[b].st = "done"
  BY <1>3, <1>5
<1>10. ASSUME NEW o \in orders', o.id \in Ids
       PROVE  pms'[o.id].st = "done" /\ biz[o.id].op = "book" /\ o.quote = biz[o.id].key
  <2>1. CASE o \in orders
    BY <1>9, <1>10, <2>1 DEF BizInv, OrderInv
  <2>2. CASE o \notin orders
    <3>1. PICK new : new = [id |-> a, quote |-> biz[a].key]
      OBVIOUS
    <3>2. done /\ biz[a].op = "book" /\ orders' = orders \cup {new}
      BY <2>2, <3>1 DEF PmsDecides
    <3>3. o = new /\ new.id = a /\ new.quote = biz[a].key
      BY <2>2, <3>1, <3>2
    <3> QED
      BY <1>1, <1>4, <1>5, <3>2, <3>3
  <2> QED
    BY <2>1, <2>2
<1>11. OrderInv'
  BY <1>3, <1>9, <1>10 DEF BizInv, OrderInv
<1> QED
  BY <1>6, <1>7, <1>8, <1>11 DEF BizInv

LEMMA HumanBooksStep ==
  ASSUME BizInv, NEW q, HumanBooks(q)
  PROVE  BizInv'
<1>1. PICK new : new = [id |-> Human, quote |-> q]
  OBVIOUS
<1>2. orders' = orders \cup {new} /\ UNCHANGED <<biz, pms, link>>
  BY <1>1 DEF HumanBooks
<1>3. new.id = Human
  BY <1>1
<1>4. Human \notin Ids
  BY DEF Human, Ids
<1>5. OrderInv'
  BY <1>2, <1>3, <1>4 DEF BizInv, OrderInv
<1> QED
  BY <1>2, <1>5 DEF BizInv, BizType, AskInv, LiveInv, Same, Live, LinkInv, Source

LEMMA BizStep == BizInv /\ BusinessNext => BizInv'
<1> SUFFICES ASSUME BizInv, BusinessNext PROVE BizInv'
  OBVIOUS
<1>1. ASSUME NEW p, NEW op \in {"book", "collect"}, NEW key, NEW w, NEW target,
             pms_start(p, op, key, w, target)
      PROVE  BizInv'
  BY <1>1, StartStep
<1>2. ASSUME NEW p, NEW a \in Ids,
             \/ pms_claim_preview(p, a) \/ pms_reject_preview(p, a)
             \/ \E covered \in BOOLEAN : pms_save_preview(p, a, covered)
             \/ pms_resume(p, a) \/ pms_handoff(p, a) \/ pms_save_manual(p, a)
             \/ \E to \in {"paused", "cancelled"} : pms_pause_cancel(p, a, to)
      PROVE  BizInv'
  BY <1>2, PlanStep
<1>3. ASSUME NEW p, NEW a \in Ids, pms_claim_execute(p, a) \/ link_business_source(p, a)
      PROVE  BizInv'
  BY <1>3, ExecuteClaimStep, LinkStep
<1>4. ASSUME NEW p, NEW a \in Ids, NEW b \in BOOLEAN,
             \/ \E o \in orders : adopt_order(p, a, o, b)
             \/ \E s \in {"EXECUTED", "NOT_EXECUTED", "UNKNOWN"} : pms_save_result(p, a, s, b)
      PROVE  BizInv'
  BY <1>4, AdoptStep, ResultStep
<1>5. ASSUME UNCHANGED <<biz, pms, orders, link>>
      PROVE  BizInv'
  BY <1>5 DEF BizInv, BizType, AskInv, LiveInv, Same, Live, OrderInv, LinkInv, Source
<1>6. ASSUME NEW p, NEW a, NEW words, business_capture_turn(p, a, words)
      PROVE  BizInv'
  BY <1>5, <1>6 DEF business_capture_turn
<1>7. ASSUME NEW p,
             \/ GrantOperation(p) \/ RevokeOperation(p) \/ IdentityRelinked(p)
             \/ \E q \in Clerks : business_delegate(p, q)
      PROVE  BizInv'
  BY <1>5, <1>7 DEF GrantOperation, RevokeOperation, IdentityRelinked, business_delegate, Others
<1>8. CASE DisableBinding \/ CreateBinding \/ HumanCollects
  BY <1>5, <1>8 DEF DisableBinding, CreateBinding, HumanCollects, Others
<1>9. ASSUME NEW a \in Ids, NEW done \in BOOLEAN, PmsDecides(a, done)
      PROVE  BizInv'
  BY <1>9, DecidesStep
<1>10. ASSUME NEW q \in Quotes, HumanBooks(q)
       PROVE  BizInv'
  BY <1>10, HumanBooksStep
<1>11. CASE \E p \in Clerks, w \in 1..Source :
               \/ \E q \in Quotes : pms_start(p, "book", q, w, {})
               \/ \E o \in orders, r \in {"r1", "none"} : pms_start(p, "collect", r, w, {o.id})
  BY <1>1, <1>11
<1>12. CASE \E p \in Clerks, a \in Ids :
              \/ pms_claim_preview(p, a) \/ pms_reject_preview(p, a) \/ pms_claim_execute(p, a)
              \/ pms_resume(p, a) \/ pms_handoff(p, a) \/ pms_save_manual(p, a)
              \/ link_business_source(p, a)
              \/ \E b \in BOOLEAN :
                    \/ pms_save_preview(p, a, b) \/ business_capture_turn(p, a, b)
                    \/ \E o \in orders : adopt_order(p, a, o, b)
                    \/ \E s \in {"EXECUTED", "NOT_EXECUTED", "UNKNOWN"} : pms_save_result(p, a, s, b)
              \/ \E to \in {"paused", "cancelled"} : pms_pause_cancel(p, a, to)
  BY <1>2, <1>3, <1>4, <1>6, <1>12
<1> QED
  BY <1>7, <1>8, <1>9, <1>10, <1>11, <1>12 DEF BusinessNext

(* What took effect is live, so two effects for one booking or payment are *)
(* two live actions for it.                                                *)
LEMMA BizSafe == BizInv => EffectOnce /\ OrderOnce
<1> SUFFICES ASSUME BizInv PROVE EffectOnce /\ OrderOnce
  OBVIOUS
<1>1. ASSUME NEW a \in Ids, Effect(a)
      PROVE  Live(a)
  <2>1. biz[a].st \in AtPms \/ biz[a].st = "manual_completed"
    BY <1>1 DEF Effect, BizInv, AskInv
  <2> QED
    BY <2>1 DEF AtPms, Live
<1>2. EffectOnce
  BY <1>1 DEF BizInv, AskInv, LiveInv, AtPms, EffectOnce
<1>3. OrderOnce
  BY DEF BizInv, OrderInv, LinkInv, OrderOnce
<1> QED
  BY <1>2, <1>3

-----------------------------------------------------------------------------
(***************************************************************************)
(* Payments                                                                *)
(***************************************************************************)

Event == [bill : Bills, kind : {"COLLECTION", "REFUND"}, type : {"DISCOVERED", "MATCHED"}]

LogInv ==
    /\ log \in Seq(Event) /\ Len(log) <= MaxLog
    /\ \A i, j \in 1..Len(log) : log[i].bill = log[j].bill /\ log[i].type = log[j].type => i = j

CheckInv ==
    /\ DOMAIN check = {"open", "base", "cursor"} /\ check.open \in BOOLEAN
    /\ check.base \in Nat /\ check.cursor \in Nat
    /\ check.base <= check.cursor /\ check.cursor <= Len(log)

PageInv ==
    /\ DOMAIN page = Hosts
    /\ \A h \in Hosts : page[h] # Idle =>
          page[h].from \in Nat /\ page[h].to \in page[h].from..Len(log) /\ check.open

Collected(i) == log[i].type = "DISCOVERED" /\ log[i].kind = "COLLECTION" /\ i > check.base
Took(box, i) == box[i].st # "none"
Makes(box, j, i) == box[j].st = "created" /\ log[j].bill = log[i].bill

(* Receipts that tell the truth about each other: work of a bill is work   *)
(* that one of them created, and a collection without it was matched.      *)
Sound(box) ==
    /\ DOMAIN box = 1..MaxLog
    /\ \A i \in 1..MaxLog : box[i].st \in {"none", "seen", "created"}
    /\ \A i \in 1..MaxLog : Took(box, i) => i \in 1..Len(log)
    /\ \A i \in 1..MaxLog : box[i].st = "created" => Collected(i)
    /\ \A i \in 1..MaxLog : Took(box, i) /\ box[i].work =>
          \E j \in 1..MaxLog : Makes(box, j, i)
    /\ \A i \in 1..MaxLog : box[i].st = "seen" /\ Collected(i) =>
          \/ box[i].work
          \/ \E j \in 1..MaxLog : /\ Took(box, j) /\ log[j].bill = log[i].bill
                                  /\ log[j].type = "MATCHED"

Grown(old, box) ==
    Sound(box) /\ \A i \in 1..MaxLog : Took(old, i) => Took(box, i)

CreatedFor(b) == {i \in 1..Len(log) : inbox[i].st = "created" /\ log[i].bill = b}

PayInv ==
    /\ LogInv /\ CheckInv /\ PageInv /\ Sound(inbox)
    /\ \A i \in 1..MaxLog : Took(inbox, i) => check.open
    /\ \A i \in 1..MaxLog : check.open /\ check.base < i /\ i <= check.cursor => Took(inbox, i)
    /\ works = [b \in Bills |-> Cardinality(CreatedFor(b))]

(* Taking one event in.                                                    *)
LEMMA AcceptIn ==
  ASSUME NEW box, Sound(box), LogInv, CheckInv, NEW i \in 1..Len(log)
  PROVE  Grown(box, accept_in(box, i)) /\ Took(accept_in(box, i), i)
<1>1. i \in 1..MaxLog
  BY FeedBounds DEF LogInv
<1>2. CASE Took(box, i)
  <2>1. accept_in(box, i) = box
    BY <1>2 DEF accept_in, Took
  <2> QED
    BY <1>2, <2>1 DEF Grown
<1>3. CASE ~Took(box, i)
  <2>1. PICK new : new = Receipt(box, i)
    OBVIOUS
  <2>2. PICK next : next = accept_in(box, i)
    OBVIOUS
  <2>3. next = [box EXCEPT ![i] = new]
    BY <1>3, <2>1, <2>2 DEF accept_in, Took
  <2>4. DOMAIN next = 1..MaxLog /\ next[i] = new /\ \A j \in 1..MaxLog : j # i => next[j] = box[j]
    BY <1>1, <2>3 DEF Sound
  <2>5. PICK worked : worked = (\E j \in 1..MaxLog : /\ Took(box, j) /\ log[j].bill = log[i].bill
                                                   /\ box[j].work)
    OBVIOUS
  <2>6. PICK matched : matched = (\E j \in 1..MaxLog : /\ Took(box, j) /\ log[j].bill = log[i].bill
                                                       /\ log[j].type = "MATCHED")
    OBVIOUS
  <2>7. PICK creates : creates = (~worked /\ ~matched /\ Collected(i))
    OBVIOUS
  <2>8. Collected(i) <=> /\ ~(i <= check.base)
                         /\ log[i].kind = "COLLECTION" /\ log[i].type = "DISCOVERED"
    BY DEF Collected, CheckInv
  <2>9. new.st = (IF creates THEN "created" ELSE "seen") /\ (new.work <=> worked \/ creates)
    <3>1. worked <=> \E j \in {k \in DOMAIN box : box[k].st # "none" /\ log[k].bill = log[i].bill} :
                        box[j].work
      BY <2>5 DEF Took, Sound
    <3>2. matched <=> \E j \in {k \in DOMAIN box : box[k].st # "none" /\ log[k].bill = log[i].bill} :
                         log[j].type = "MATCHED"
      BY <2>6 DEF Took, Sound
    <3> QED
      BY <2>1, <2>7, <2>8, <3>1, <3>2 DEF Receipt
  <2>10. \A j \in 1..MaxLog : Took(box, j) => j # i /\ next[j] = box[j]
    BY <1>3, <2>4
  <2>11. \A j \in 1..MaxLog : next[j].st \in {"none", "seen", "created"}
    BY <2>4, <2>9 DEF Sound
  <2>12. \A j \in 1..MaxLog : Took(next, j) => j \in 1..Len(log)
    BY <2>4 DEF Sound, Took
  <2>13. \A j \in 1..MaxLog : next[j].st = "created" => Collected(j)
    BY <2>4, <2>7, <2>9 DEF Sound
  <2>14. \A j, k \in 1..MaxLog : Makes(box, j, k) => Makes(next, j, k)
    BY <2>10 DEF Makes, Took
  <2>15. ASSUME NEW j \in 1..MaxLog, Took(next, j), next[j].work
         PROVE  \E k \in 1..MaxLog : Makes(next, k, j)
    <3>1. CASE j # i
      BY <2>4, <2>14, <2>15, <3>1 DEF Sound, Took
    <3>2. CASE j = i /\ creates
      BY <1>1, <2>4, <2>9, <3>2 DEF Makes
    <3>3. CASE j = i /\ worked
      <4>1. PICK k \in 1..MaxLog : Took(box, k) /\ log[k].bill = log[i].bill /\ box[k].work
        BY <2>5, <3>3
      <4>2. PICK m \in 1..MaxLog : Makes(box, m, k)
        BY <4>1 DEF Sound
      <4> QED
        BY <2>14, <3>3, <4>1, <4>2 DEF Makes
    <3> QED
      BY <2>4, <2>9, <2>15, <3>1, <3>2, <3>3
  <2>16. ASSUME NEW j \in 1..MaxLog, next[j].st = "seen", Collected(j)
         PROVE  \/ next[j].work
                \/ \E k \in 1..MaxLog : /\ Took(next, k) /\ log[k].bill = log[j].bill
                                        /\ log[k].type = "MATCHED"
    <3>1. \A k \in 1..MaxLog : Took(box, k) => Took(next, k)
      BY <2>10 DEF Took
    <3>2. CASE j # i
      BY <2>4, <2>16, <3>1, <3>2 DEF Sound
    <3>3. CASE j = i
      BY <2>4, <2>6, <2>7, <2>9, <2>16, <3>1, <3>3
    <3> QED
      BY <3>2, <3>3
  <2>17. Sound(next)
    BY <2>4, <2>11, <2>12, <2>13, <2>15, <2>16 DEF Sound
  <2>18. Took(next, i)
    BY <2>4, <2>9 DEF Took
  <2> QED
    BY <2>2, <2>10, <2>17, <2>18 DEF Grown, Took
<1> QED
  BY <1>2, <1>3

(* A page is taken in event by event; the function that says so exists.    *)
Evaluates(f, from, k) ==
    f = [n \in from..k |-> IF n = from THEN inbox ELSE accept_in(f[n - 1], n)]

LEMMA ChainExists ==
  ASSUME NEW from \in Nat, NEW to \in Nat, from <= to
  PROVE  \E f : Evaluates(f, from, to)
<1> DEFINE Missing == {k \in Nat : from <= k /\ ~\E f : Evaluates(f, from, k)}
<1> SUFFICES ASSUME Missing # {} PROVE FALSE
  OBVIOUS
<1>1. PICK m \in Missing : \A n \in Missing : m <= n
  <2>1. Missing \in SUBSET Nat
    OBVIOUS
  <2> HIDE DEF Missing
  <2> QED
    BY <2>1, LeastNumber
<1>2. m \in Nat /\ from <= m /\ ~\E f : Evaluates(f, from, m)
  OBVIOUS
<1>3. CASE m = from
  <2>1. PICK f : f = [n \in from..from |-> inbox]
    OBVIOUS
  <2>2. f = [n \in from..from |-> IF n = from THEN inbox ELSE accept_in(f[n - 1], n)]
    BY <2>1
  <2> QED
    BY <1>2, <1>3, <2>2 DEF Evaluates
<1>4. CASE m # from
  <2>1. m - 1 \in Nat /\ from <= m - 1 /\ m - 1 \notin Missing
    BY <1>1, <1>2, <1>4
  <2>2. PICK f : Evaluates(f, from, m - 1)
    BY <2>1
  <2>3. PICK g : g = [n \in from..m |-> IF n = m THEN accept_in(f[m - 1], m) ELSE f[n]]
    OBVIOUS
  <2>4. ASSUME NEW n \in from..m
        PROVE  g[n] = IF n = from THEN inbox ELSE accept_in(g[n - 1], n)
    <3>1. CASE n = m
      <4>1. g[m - 1] = f[m - 1] /\ g[n] = accept_in(f[m - 1], m)
        BY <1>2, <2>1, <2>3, <3>1
      <4> QED
        BY <1>4, <3>1, <4>1
    <3>2. CASE n # m
      <4>1. n \in from..(m - 1) /\ g[n] = f[n]
        BY <1>2, <2>3, <3>2
      <4>2. f[n] = IF n = from THEN inbox ELSE accept_in(f[n - 1], n)
        BY <2>2, <4>1 DEF Evaluates
      <4>3. n # from => g[n - 1] = f[n - 1]
        BY <1>2, <2>3, <3>2, <4>1
      <4> QED
        BY <4>1, <4>2, <4>3
    <3> QED
      BY <3>1, <3>2
  <2>5. g = [n \in from..m |-> IF n = from THEN inbox ELSE accept_in(g[n - 1], n)]
    BY <2>3, <2>4
  <2> QED
    BY <1>2, <2>5 DEF Evaluates
<1> QED
  BY <1>3, <1>4

LEMMA Accepted_ ==
  ASSUME Sound(inbox), LogInv, CheckInv, NEW from \in Nat, NEW to \in from..Len(log)
  PROVE  /\ Grown(inbox, accepted(from, to))
         /\ \A i \in (from + 1)..to : Took(accepted(from, to), i)
<1>1. to \in Nat /\ from <= to /\ Len(log) \in Nat
  BY DEF LogInv
<1>2. PICK f : Evaluates(f, from, to) /\ accepted(from, to) = f[to]
  <2>1. \E f : f = [n \in from..to |-> IF n = from THEN inbox ELSE accept_in(f[n - 1], n)]
    BY <1>1, ChainExists DEF Evaluates
  <2> QED
    BY <2>1 DEF accepted, Evaluates
<1> DEFINE Good(n) == Grown(inbox, f[n]) /\ \A i \in (from + 1)..n : Took(f[n], i)
<1> DEFINE Bad == {n \in from..to : ~Good(n)}
<1>3. \A n \in from..to : f[n] = IF n = from THEN inbox ELSE accept_in(f[n - 1], n)
  BY <1>2 DEF Evaluates
<1>4. Good(from)
  BY <1>1, <1>3 DEF Grown
<1>5. ASSUME NEW n \in (from + 1)..to, Good(n - 1)
      PROVE  Good(n)
  <2>1. f[n] = accept_in(f[n - 1], n) /\ n \in 1..Len(log)
    BY <1>1, <1>3, <1>5
  <2>2. Sound(f[n - 1])
    BY <1>5 DEF Grown
  <2>3. Grown(f[n - 1], f[n]) /\ Took(f[n], n)
    BY <2>1, <2>2, AcceptIn
  <2>4. \A i \in (from + 1)..n : i = n \/ i \in (from + 1)..(n - 1)
    BY <1>1
  <2>5. \A i \in (from + 1)..n : i \in 1..MaxLog
    BY <1>1, FeedBounds DEF LogInv
  <2> QED
    BY <1>5, <2>3, <2>4, <2>5 DEF Grown
<1>6. Bad = {}
  <2> SUFFICES ASSUME Bad # {} PROVE FALSE
    OBVIOUS
  <2>1. Bad \in SUBSET Nat
    BY <1>1
  <2>2. PICK m \in Bad : \A n \in Bad : m <= n
    <3> HIDE DEF Bad
    <3> QED
      BY <2>1, LeastNumber
  <2>3. m \in from..to /\ ~Good(m)
    OBVIOUS
  <2>4. m # from
    BY <1>4, <2>3
  <2>5. m - 1 \in from..to /\ m - 1 \notin Bad
    BY <1>1, <2>2, <2>3, <2>4
  <2>6. Good(m - 1) /\ m \in (from + 1)..to
    BY <1>1, <2>3, <2>4, <2>5
  <2> QED
    BY <1>5, <2>3, <2>6
<1>7. Good(to)
  BY <1>1, <1>6
<1> QED
  BY <1>2, <1>7

LEMMA PayInitInv == FeedInit => PayInv
<1> SUFFICES ASSUME FeedInit PROVE PayInv
  OBVIOUS
<1>1. PICK new : new = NoReceipt
  OBVIOUS
<1>2. new.st = "none"
  BY <1>1 DEF NoReceipt
<1>3. DOMAIN inbox = 1..MaxLog /\ \A i \in 1..MaxLog : inbox[i] = new
  BY <1>1 DEF FeedInit
<1>4. log = <<>> /\ Len(log) = 0
  BY DEF FeedInit
<1>5. LogInv
  BY <1>4, FeedBounds DEF LogInv
<1>6. CheckInv /\ ~check.open
  BY <1>4 DEF FeedInit, CheckInv
<1>7. PageInv
  BY DEF FeedInit, PageInv
<1>8. Sound(inbox)
  BY <1>2, <1>3 DEF Sound, Took
<1>9. works = [b \in Bills |-> Cardinality(CreatedFor(b))]
  <2>1. \A b \in Bills : CreatedFor(b) = {}
    BY <1>4 DEF CreatedFor
  <2>2. Cardinality({}) = 0
    BY FS_EmptySet
  <2>3. works = [b \in Bills |-> 0]
    BY DEF FeedInit
  <2> QED
    BY <2>1, <2>2, <2>3
<1> QED
  BY <1>2, <1>3, <1>5, <1>6, <1>7, <1>8, <1>9 DEF PayInv, Took

(* Receipts depend on the log and the baseline only.                       *)
LEMMA SoundKept ==
  ASSUME Sound(inbox), log' = log, check'.base = check.base, inbox' = inbox
  PROVE  Sound(inbox)'
BY DEF Sound, Took, Makes, Collected

LEMMA SoundNext ==
  ASSUME NEW box, Sound(box), log' = log, check'.base = check.base, inbox' = box
  PROVE  Sound(inbox)'
BY DEF Sound, Took, Makes, Collected

LEMMA TakeStep ==
  ASSUME PayInv, check.open, NEW box, Take(box), Grown(inbox, box), log' = log, PageInv',
         CheckInv', check'.open, check'.base = check.base,
         \A i \in 1..MaxLog : check.cursor < i /\ i <= check'.cursor => Took(box, i)
  PROVE  PayInv'
<1>1. inbox' = box
  BY DEF Take
<1>2. LogInv'
  BY DEF PayInv, LogInv
<1>3. Sound(inbox)'
  BY <1>1, SoundNext DEF Grown
<1>4. works' = [b \in Bills |-> Cardinality(CreatedFor(b)')]
  BY <1>1 DEF Take, CreatedFor
<1>5. ASSUME NEW i \in 1..MaxLog, check'.base < i, i <= check'.cursor
      PROVE  Took(box, i)
  <2>1. CASE i <= check.cursor
    <3>1. Took(inbox, i)
      BY <1>5, <2>1 DEF PayInv
    <3> QED
      BY <3>1 DEF Grown
  <2>2. CASE check.cursor < i
    BY <1>5, <2>2
  <2> QED
    BY <2>1, <2>2 DEF PayInv, CheckInv
<1> QED
  BY <1>1, <1>2, <1>3, <1>4, <1>5 DEF PayInv, Took

LEMMA FeedOpenStep ==
  ASSUME PayInv, NEW head, business_feed_open(head)
  PROVE  PayInv'
<1>1. PICK new : new = [open |-> TRUE, base |-> head, cursor |-> head]
  OBVIOUS
<1>2. /\ check' = new /\ ~check.open /\ head \in 0..Len(log)
      /\ UNCHANGED <<log, inbox, page, works>>
  BY <1>1 DEF business_feed_open
<1>3. DOMAIN new = {"open", "base", "cursor"} /\ new.open /\ new.base = head /\ new.cursor = head
  BY <1>1
<1>4. \A i \in 1..MaxLog : ~Took(inbox, i)
  BY <1>2 DEF PayInv
<1>5. LogInv' /\ Len(log) \in Nat
  BY <1>2 DEF PayInv, LogInv
<1>6. CheckInv'
  BY <1>1, <1>2, <1>3, <1>5 DEF CheckInv
<1>7. PageInv'
  BY <1>2 DEF PayInv, PageInv
<1>8. Sound(inbox)'
  BY <1>2, <1>4 DEF PayInv, Sound, Took
<1>9. works' = [b \in Bills |-> Cardinality(CreatedFor(b)')]
  BY <1>2 DEF PayInv, CreatedFor
<1> QED
  BY <1>2, <1>3, <1>4, <1>5, <1>6, <1>7, <1>8, <1>9 DEF PayInv, Took

LEMMA PaymentStep ==
  ASSUME PayInv, NEW i \in 1..MaxLog, business_accept_payment(i)
  PROVE  PayInv'
<1>1. /\ check.open /\ i \in 1..Len(log) /\ Take(accept_in(inbox, i))
      /\ UNCHANGED <<log, check, page>>
  BY DEF business_accept_payment
<1>2. Grown(inbox, accept_in(inbox, i))
  BY <1>1, AcceptIn DEF PayInv
<1>3. PageInv' /\ CheckInv' /\ check.cursor \in Nat
  BY <1>1 DEF PayInv, PageInv, CheckInv
<1> QED
  BY <1>1, <1>2, <1>3, TakeStep

LEMMA FetchStep ==
  ASSUME PayInv, NEW h \in Hosts, NEW to, FetchPage(h, to)
  PROVE  PayInv'
<1>1. PICK new : new = [from |-> check.cursor, to |-> to]
  OBVIOUS
<1>2. /\ page' = [page EXCEPT ![h] = new] /\ check.open /\ to \in check.cursor..Len(log)
      /\ UNCHANGED <<log, check, inbox, works>>
  BY <1>1 DEF FetchPage
<1>3. new.from = check.cursor /\ new.to = to
  BY <1>1
<1>4. PageInv'
  BY <1>2, <1>3 DEF PayInv, PageInv, CheckInv
<1>5. LogInv' /\ CheckInv' /\ works' = [b \in Bills |-> Cardinality(CreatedFor(b)')]
  BY <1>2 DEF PayInv, LogInv, CheckInv, CreatedFor
<1>6. Sound(inbox)'
  BY <1>2, SoundKept DEF PayInv
<1> QED
  BY <1>2, <1>4, <1>5, <1>6 DEF PayInv, Took

LEMMA PageStep ==
  ASSUME PayInv, NEW h \in Hosts, business_feed_page(h)
  PROVE  PayInv'
<1>1. /\ page' = [page EXCEPT ![h] = Idle] /\ log' = log
      /\ page[h].from \in Nat /\ page[h].to \in page[h].from..Len(log) /\ check.open
  BY DEF business_feed_page, PayInv, PageInv
<1>2. CASE page[h].from # check.cursor
  <2>1. UNCHANGED <<check, inbox, works>>
    BY <1>2 DEF business_feed_page
  <2>2. PageInv'
    BY <1>1, <2>1 DEF PayInv, PageInv
  <2>3. LogInv' /\ CheckInv' /\ works' = [b \in Bills |-> Cardinality(CreatedFor(b)')]
    BY <1>1, <2>1 DEF PayInv, LogInv, CheckInv, CreatedFor
  <2>4. Sound(inbox)'
    BY <1>1, <2>1, SoundKept DEF PayInv
  <2> QED
    BY <2>1, <2>2, <2>3, <2>4 DEF PayInv, Took
<1>3. CASE page[h].from = check.cursor
  <2>1. PICK from \in Nat : from = page[h].from
    BY <1>1
  <2>2. PICK to \in from..Len(log) : to = page[h].to
    BY <1>1, <2>1
  <2>3. PICK box : box = accepted(from, to)
    OBVIOUS
  <2>4. Take(box) /\ check' = [check EXCEPT !.cursor = to]
    BY <1>3, <2>1, <2>3, <2>2 DEF business_feed_page
  <2>5. Grown(inbox, box) /\ \A i \in (from + 1)..to : Took(box, i)
    BY <2>3, Accepted_ DEF PayInv
  <2>6. /\ DOMAIN check' = {"open", "base", "cursor"} /\ check'.cursor = to
        /\ check'.open = check.open /\ check'.base = check.base
    BY <2>4 DEF PayInv, CheckInv
  <2>7. CheckInv'
    BY <1>1, <1>3, <2>1, <2>6, <2>2 DEF PayInv, CheckInv, LogInv
  <2>8. PageInv'
    BY <1>1, <2>6 DEF PayInv, PageInv
  <2>9. \A i \in 1..MaxLog : check.cursor < i /\ i <= check'.cursor => Took(box, i)
    BY <1>1, <1>3, <2>1, <2>5, <2>6, <2>2 DEF PayInv, LogInv
  <2> QED
    BY <1>1, <2>4, <2>5, <2>6, <2>7, <2>8, <2>9, TakeStep
<1> QED
  BY <1>2, <1>3

LEMMA ReportedStep ==
  ASSUME PayInv, NEW b \in Bills, NEW kind \in {"COLLECTION", "REFUND"},
         NEW type \in {"DISCOVERED", "MATCHED"}, PmsReports(b, kind, type)
  PROVE  PayInv'
<1>1. PICK e : e = [bill |-> b, kind |-> kind, type |-> type]
  OBVIOUS
<1>2. /\ log' = Append(log, e) /\ Len(log) < MaxLog /\ UNCHANGED <<check, inbox, page, works>>
      /\ \A i \in 1..Len(log) : log[i].bill = b => log[i].type # type
  BY <1>1 DEF PmsReports
<1>3. e \in Event /\ e.bill = b /\ e.type = type
  BY <1>1 DEF Event
<1>4. /\ log' \in Seq(Event) /\ Len(log') = Len(log) + 1 /\ Len(log) \in Nat
      /\ \A i \in 1..Len(log) : log'[i] = log[i]
      /\ log'[Len(log) + 1] = e
  BY <1>2, <1>3 DEF PayInv, LogInv
<1>5. LogInv'
  BY <1>2, <1>3, <1>4, FeedBounds DEF PayInv, LogInv
<1>6. CheckInv' /\ PageInv'
  BY <1>2, <1>4 DEF PayInv, CheckInv, PageInv
<1>7. \A i \in 1..MaxLog : Took(inbox, i) => i \in 1..Len(log) /\ log'[i] = log[i]
  BY <1>4 DEF PayInv, Sound
<1>8. Sound(inbox)'
  <2>1. \A i \in 1..MaxLog : Took(inbox, i) => i \in 1..Len(log')
    BY <1>4, <1>7
  <2>2. \A i \in 1..MaxLog : inbox[i].st = "created" => Took(inbox, i)
    BY DEF Took
  <2>3. \A i \in 1..MaxLog : Took(inbox, i) => (Collected(i)' <=> Collected(i))
    BY <1>2, <1>7 DEF Collected
  <2>4. \A i, j \in 1..MaxLog : Took(inbox, i) => (Makes(inbox, j, i)' <=> Makes(inbox, j, i))
    BY <1>2, <1>7, <2>2 DEF Makes
  <2>5. \A i \in 1..MaxLog : Took(inbox, i)' <=> Took(inbox, i)
    BY <1>2 DEF Took
  <2>6. \A i \in 1..MaxLog : inbox[i].st = "seen" => Took(inbox, i)
    BY DEF Took
  <2>7. ASSUME NEW i \in 1..MaxLog, inbox[i].st = "seen", Collected(i)'
        PROVE  \/ inbox[i].work
               \/ \E j \in 1..MaxLog : /\ Took(inbox, j) /\ log'[j].bill = log'[i].bill
                                       /\ log'[j].type = "MATCHED"
    <3>1. Took(inbox, i) /\ Collected(i)
      BY <2>3, <2>6, <2>7
    <3> QED
      BY <1>7, <2>7, <3>1 DEF PayInv, Sound
  <2> QED
    BY <1>2, <2>1, <2>2, <2>3, <2>4, <2>5, <2>7 DEF PayInv, Sound
<1>9. \A c \in Bills : CreatedFor(c)' = CreatedFor(c)
  BY <1>2, <1>4, <1>7, FeedBounds DEF CreatedFor, Took, PayInv, LogInv
<1>10. works' = [c \in Bills |-> Cardinality(CreatedFor(c)')]
  BY <1>2, <1>9 DEF PayInv
<1> QED
  BY <1>2, <1>5, <1>6, <1>8, <1>10 DEF PayInv, Took

LEMMA PayStep == PayInv /\ PaymentNext => PayInv'
<1> SUFFICES ASSUME PayInv, PaymentNext PROVE PayInv'
  OBVIOUS
<1>1. ASSUME NEW h \in Hosts, HostDies(h)
      PROVE  PayInv'
  <2>1. page' = [page EXCEPT ![h] = Idle] /\ UNCHANGED <<log, check, inbox, works>>
    BY <1>1 DEF HostDies
  <2>2. PageInv'
    BY <2>1 DEF PayInv, PageInv
  <2>3. LogInv' /\ CheckInv' /\ works' = [b \in Bills |-> Cardinality(CreatedFor(b)')]
    BY <2>1 DEF PayInv, LogInv, CheckInv, CreatedFor
  <2>4. Sound(inbox)'
    BY <2>1, SoundKept DEF PayInv
  <2> QED
    BY <2>1, <2>2, <2>3, <2>4 DEF PayInv, Took
<1> QED
  BY <1>1, FeedOpenStep, PaymentStep, FetchStep, PageStep, ReportedStep DEF PaymentNext

LEMMA PaySafe == PayInv => PaymentOnce
<1> SUFFICES ASSUME PayInv PROVE PaymentOnce
  OBVIOUS
<1>1. ASSUME NEW b \in Bills, NEW i \in CreatedFor(b), NEW j \in CreatedFor(b)
      PROVE  i = j
  <2>1. i \in 1..Len(log) /\ j \in 1..Len(log) /\ i \in 1..MaxLog /\ j \in 1..MaxLog
    BY FeedBounds DEF CreatedFor, PayInv, LogInv
  <2>2. log[i].type = "DISCOVERED" /\ log[j].type = "DISCOVERED"
    BY <2>1 DEF CreatedFor, PayInv, Sound, Collected
  <2> QED
    BY <2>1, <2>2 DEF CreatedFor, PayInv, LogInv
<1>2. ASSUME NEW b \in Bills
      PROVE  works[b] = IF CreatedFor(b) = {} THEN 0 ELSE 1
  <2>1. works[b] = Cardinality(CreatedFor(b))
    BY DEF PayInv
  <2>2. CASE CreatedFor(b) = {}
    BY <2>1, <2>2, FS_EmptySet
  <2>3. CASE CreatedFor(b) # {}
    <3>1. PICK i : CreatedFor(b) = {i}
      BY <1>1, <2>3
    <3>2. Cardinality({i}) = 1
      BY FS_Singleton, Zenon
    <3> QED
      BY <2>1, <2>3, <3>1, <3>2
  <2> QED
    BY <2>2, <2>3
<1>3. ASSUME NEW i \in 1..Len(log)
      PROVE  i \in 1..MaxLog /\ log[i].bill \in Bills
  <2>1. i \in 1..MaxLog
    BY FeedBounds DEF PayInv, LogInv
  <2>2. log[i] \in Event
    BY DEF PayInv, LogInv
  <2> QED
    BY <2>1, <2>2 DEF Event
<1>4. \A b \in Bills : works[b] <= 1
  BY <1>2
<1>5. ASSUME NEW i \in 1..Len(log), Collected(i), check.open, i <= check.cursor
      PROVE  \/ works[log[i].bill] = 1
             \/ \E j \in 1..Len(log) : /\ log[j].bill = log[i].bill /\ log[j].type = "MATCHED"
                                       /\ inbox[j].st # "none"
  <2>1. Took(inbox, i)
    BY <1>3, <1>5 DEF PayInv, Collected, CheckInv
  <2>2. CASE \E j \in 1..MaxLog : Makes(inbox, j, i)
    <3>1. PICK j \in 1..MaxLog : Makes(inbox, j, i)
      BY <2>2
    <3>2. Took(inbox, j) /\ j \in 1..Len(log)
      BY <3>1 DEF Makes, Took, PayInv, Sound
    <3>3. j \in CreatedFor(log[i].bill)
      BY <3>1, <3>2 DEF Makes, CreatedFor
    <3> QED
      BY <1>2, <1>3, <3>3
  <2>3. CASE \E j \in 1..MaxLog : Took(inbox, j) /\ log[j].bill = log[i].bill /\ log[j].type = "MATCHED"
    BY <2>3 DEF PayInv, Sound, Took
  <2>4. CASE inbox[i].st = "created"
    <3>1. i \in CreatedFor(log[i].bill)
      BY <2>4 DEF CreatedFor
    <3> QED
      BY <1>2, <1>3, <3>1
  <2>5. \/ inbox[i].st = "created"
        \/ \E j \in 1..MaxLog : Makes(inbox, j, i)
        \/ \E j \in 1..MaxLog : /\ Took(inbox, j) /\ log[j].bill = log[i].bill
                                /\ log[j].type = "MATCHED"
    <3>1. inbox[i].st \in {"seen", "created"} /\ i \in 1..MaxLog
      BY <1>3, <2>1 DEF PayInv, Sound, Took
    <3>2. CASE inbox[i].st = "seen" /\ inbox[i].work
      BY <2>1, <3>1, <3>2 DEF PayInv, Sound
    <3>3. CASE inbox[i].st = "seen" /\ ~inbox[i].work
      BY <1>5, <3>1, <3>3 DEF PayInv, Sound
    <3> QED
      BY <3>1, <3>2, <3>3
  <2> QED
    BY <2>2, <2>3, <2>4, <2>5
<1>6. ASSUME NEW i \in 1..Len(log), log[i].type = "DISCOVERED", check.open, i <= check.base
      PROVE  works[log[i].bill] = 0
  <2>1. ASSUME NEW j \in CreatedFor(log[i].bill)
        PROVE  FALSE
    <3>1. j \in 1..Len(log) /\ j \in 1..MaxLog /\ Collected(j) /\ log[j].bill = log[i].bill
      BY <1>3 DEF CreatedFor, PayInv, Sound
    <3>2. i = j
      BY <1>6, <3>1 DEF Collected, PayInv, LogInv
    <3> QED
      BY <1>6, <3>1, <3>2 DEF Collected, PayInv, CheckInv
  <2> QED
    BY <1>2, <1>3, <2>1
<1> QED
  BY <1>4, <1>5, <1>6 DEF PaymentOnce, Collected

-----------------------------------------------------------------------------
(***************************************************************************)
(* Policy                                                                  *)
(***************************************************************************)

(* What effective computes, with the state it reads made explicit.         *)
Reaches(sc, child, ancestor, descendants) ==
    /\ sc[child] = "active"
    /\ \/ child = ancestor
       \/ descendants /\ Parent[child] = ancestor /\ sc[ancestor] = "active"

\* What the grant j asks of itself, and of the one it hangs from.
Sane(sc, p, j) ==
    /\ p[j].active /\ p[j].g.mode # "denied"
    /\ (p[j].g.mode = "confirm") = (p[j].g.reviewer # NoOne)
    /\ p[j].g.reviewer # p[j].person
    /\ Reaches(sc, p[j].scope, p[j].scope, FALSE)

Hangs(sc, p, j, q) ==
    /\ p[q].g.action = "manage" /\ p[q].g.mode = "auto"
    /\ Reaches(sc, p[j].scope, p[q].scope, p[q].g.desc)
    /\ p[j].g.action \in p[q].g.gives
    /\ p[j].g.desc => p[q].g.desc
    /\ p[j].g.action = "manage" => WithinEnvelope(p[q].g, p[j].g)

Value(sc, p, ok, j) ==
    /\ Sane(sc, p, j)
    /\ IF p[j].g.parent = 0 THEN p[j].g.action = "manage" /\ p[j].g.mode = "auto"
       ELSE Hangs(sc, p, j, p[j].g.parent) /\ ok[p[j].g.parent]

Chosen(sc, p) == CHOOSE ok : ok = [j \in DOMAIN p |-> Value(sc, p, ok, j)]

LEMMA EffectiveIs ==
  ASSUME NEW p, NEW i
  PROVE  effective(p, i) = Chosen(scope, p)[i]
BY DEF effective, Chosen, Value, Sane, Hangs, covers, in_scope, Reaches

LEMMA EffectiveIs2 ==
  ASSUME NEW i
  PROVE  effective(policy, i)' = Chosen(scope', policy')[i]
BY DEF effective, Chosen, Value, Sane, Hangs, covers, in_scope, Reaches

Below(p, n) == /\ DOMAIN p = 1..n
               /\ \A j \in 1..n : p[j].g.parent \in 0..(j - 1)

LEMMA ChosenExists ==
  ASSUME NEW sc, NEW n \in Nat, NEW p, Below(p, n)
  PROVE  \E ok : ok = [j \in 1..n |-> Value(sc, p, ok, j)]
<1> DEFINE Missing == {k \in Nat : k <= n /\ ~\E f : f = [j \in 1..k |-> Value(sc, p, f, j)]}
<1> SUFFICES ASSUME Missing # {} PROVE FALSE
  OBVIOUS
<1>1. PICK m \in Missing : \A k \in Missing : m <= k
  <2>1. Missing \in SUBSET Nat
    OBVIOUS
  <2> HIDE DEF Missing
  <2> QED
    BY <2>1, LeastNumber
<1>2. m \in Nat /\ m <= n /\ ~\E f : f = [j \in 1..m |-> Value(sc, p, f, j)]
  OBVIOUS
<1>3. CASE m = 0
  <2>1. PICK f : f = [j \in 1..0 |-> TRUE]
    OBVIOUS
  <2>2. f = [j \in 1..0 |-> Value(sc, p, f, j)]
    BY <2>1
  <2> QED
    BY <1>2, <1>3, <2>2
<1>4. CASE m # 0
  <2>1. m - 1 \in Nat /\ m - 1 <= n /\ m - 1 \notin Missing
    BY <1>1, <1>2, <1>4
  <2>2. PICK f : f = [j \in 1..(m - 1) |-> Value(sc, p, f, j)]
    BY <2>1
  <2>3. PICK g : g = [j \in 1..m |-> IF j = m THEN Value(sc, p, f, m) ELSE f[j]]
    OBVIOUS
  <2>4. \A j \in 1..(m - 1) : g[j] = f[j]
    BY <1>2, <2>3
  <2>5. ASSUME NEW j \in 1..m
        PROVE  Value(sc, p, f, j) = Value(sc, p, g, j)
    <3>1. p[j].g.parent = 0 \/ g[p[j].g.parent] = f[p[j].g.parent]
      BY <1>2, <2>4 DEF Below
    <3> QED
      BY <3>1 DEF Value
  <2>6. ASSUME NEW j \in 1..m
        PROVE  g[j] = Value(sc, p, g, j)
    <3>1. g[j] = Value(sc, p, f, j)
      <4>1. CASE j = m
        BY <2>3, <4>1
      <4>2. CASE j # m
        <5>1. j \in 1..(m - 1)
          BY <1>2, <4>2
        <5> QED
          BY <2>2, <2>4, <5>1
      <4> QED
        BY <4>1, <4>2
    <3> QED
      BY <2>5, <3>1
  <2>7. g = [j \in 1..m |-> Value(sc, p, g, j)]
    BY <2>3, <2>6
  <2> QED
    BY <1>2, <2>7
<1> QED
  BY <1>3, <1>4

LEMMA ChosenValue ==
  ASSUME NEW sc, NEW n \in Nat, NEW p, Below(p, n), NEW i \in 1..n
  PROVE  Chosen(sc, p)[i] <=> /\ Sane(sc, p, i)
                              /\ IF p[i].g.parent = 0
                                 THEN p[i].g.action = "manage" /\ p[i].g.mode = "auto"
                                 ELSE Hangs(sc, p, i, p[i].g.parent) /\ Chosen(sc, p)[p[i].g.parent]
<1>1. \E ok : ok = [j \in DOMAIN p |-> Value(sc, p, ok, j)]
  <2>1. \E ok : ok = [j \in 1..n |-> Value(sc, p, ok, j)]
    BY ChosenExists
  <2>2. DOMAIN p = 1..n
    BY DEF Below
  <2> QED
    BY <2>1, <2>2
<1>2. PICK ok : ok = [j \in DOMAIN p |-> Value(sc, p, ok, j)] /\ ok = Chosen(sc, p)
  BY <1>1 DEF Chosen
<1>3. ok[i] = Value(sc, p, ok, i)
  BY <1>2 DEF Below
<1> QED
  BY <1>2, <1>3 DEF Value

-----------------------------------------------------------------------------
Conn == [person : Persons, scope : {"root", "child"}, st : {"active", "ended"},
         term : {"now", "future", "past"}]
Grant == [conn : Nat, action : Acts, mode : {"auto", "confirm", "denied"},
          reviewer : Persons \cup {NoOne}, parent : Nat, desc : BOOLEAN,
          gives : SUBSET Acts, depth : Int, st : {"active", "revoked"}]

PolicyType ==
    /\ DOMAIN scope = {"root", "child"} /\ scope["root"] = "active"
    /\ DOMAIN role = {"st", "duty"} /\ role.duty \in BOOLEAN
    /\ DOMAIN duty = {"st", "acts"}
    /\ conns \in Seq(Conn)
    /\ grants \in Seq(Grant)

(* A grant hangs from an earlier one; only management has an envelope.     *)
GrantInv ==
    \A i \in 1..Len(grants) :
        /\ grants[i].conn \in 1..Len(conns)
        /\ grants[i].parent \in 0..(i - 1)
        /\ grants[i].action # "manage" => grants[i].gives = {}

(* What is in use: the duty and the scope it belongs to are in force, and  *)
(* the duty has every action that is not denied.                           *)
Used(c) == c.st = "active" /\ c.term # "past"

UseInv ==
    /\ \A c \in 1..Len(conns) : Used(conns[c]) =>
          /\ c # 1 => role.duty /\ duty.st = "active"
          /\ conns[c].scope = "child" => scope["child"] = "active"
    /\ \A i \in 1..Len(grants) :
          (/\ grants[i].conn # 1 /\ grants[i].st = "active" /\ grants[i].mode # "denied"
           /\ Used(conns[grants[i].conn])) => grants[i].action \in duty.acts

PolicyInv == PolicyType /\ GrantInv /\ UseInv

LEMMA PolicyFacts ==
  ASSUME PolicyInv
  PROVE  /\ DOMAIN policy = 1..Len(grants) /\ Len(grants) \in Nat
         /\ \A i \in 1..Len(grants) :
               /\ policy[i].g = grants[i]
               /\ policy[i].person = conns[grants[i].conn].person
               /\ policy[i].scope = conns[grants[i].conn].scope
               /\ policy[i].active <=> /\ grants[i].st = "active"
                                       /\ conns[grants[i].conn].st = "active"
                                       /\ conns[grants[i].conn].term = "now"
                                       /\ role.st = "active"
                                       /\ (grants[i].conn = 1 \/ duty.st = "active")
                                       /\ conns[grants[i].conn].person \in known
BY DEF policy, load_policy, PolicyInv, PolicyType

LEMMA PolicyBelow ==
  ASSUME PolicyInv
  PROVE  Below(policy, Len(grants))
BY PolicyFacts DEF Below, PolicyInv, GrantInv

(* One step of the chain of delegations.                                   *)
LEMMA EffectiveStep ==
  ASSUME PolicyInv, NEW i \in 1..Len(grants)
  PROVE  effective(policy, i) <=>
            /\ Sane(scope, policy, i)
            /\ IF grants[i].parent = 0
               THEN grants[i].action = "manage" /\ grants[i].mode = "auto"
               ELSE Hangs(scope, policy, i, grants[i].parent) /\ effective(policy, grants[i].parent)
<1>1. policy[i].g = grants[i] /\ Len(grants) \in Nat
  BY PolicyFacts
<1>2. Chosen(scope, policy)[i] <=>
         /\ Sane(scope, policy, i)
         /\ IF policy[i].g.parent = 0
            THEN policy[i].g.action = "manage" /\ policy[i].g.mode = "auto"
            ELSE /\ Hangs(scope, policy, i, policy[i].g.parent)
                 /\ Chosen(scope, policy)[policy[i].g.parent]
  BY <1>1, PolicyBelow, ChosenValue
<1>3. /\ effective(policy, i) = Chosen(scope, policy)[i]
      /\ effective(policy, grants[i].parent) = Chosen(scope, policy)[grants[i].parent]
  BY EffectiveIs
<1> QED
  BY <1>1, <1>2, <1>3

(* The chain above a grant, one step at a time.                            *)
Above(gs, f, j) == IF gs[j].parent = 0 THEN {} ELSE {gs[j].parent} \cup f[gs[j].parent]
Up(gs) == CHOOSE up : up = [j \in DOMAIN gs |-> Above(gs, up, j)]

LEMMA UpExists ==
  ASSUME NEW n \in Nat, NEW gs, \A j \in 1..n : gs[j].parent \in 0..(j - 1)
  PROVE  \E up : up = [j \in 1..n |-> Above(gs, up, j)]
<1> DEFINE Missing == {k \in Nat : k <= n /\ ~\E f : f = [j \in 1..k |-> Above(gs, f, j)]}
<1> SUFFICES ASSUME Missing # {} PROVE FALSE
  OBVIOUS
<1>1. PICK m \in Missing : \A k \in Missing : m <= k
  <2>1. Missing \in SUBSET Nat
    OBVIOUS
  <2> HIDE DEF Missing
  <2> QED
    BY <2>1, LeastNumber
<1>2. m \in Nat /\ m <= n /\ ~\E f : f = [j \in 1..m |-> Above(gs, f, j)]
  OBVIOUS
<1>3. CASE m = 0
  <2>1. PICK f : f = [j \in 1..0 |-> {}]
    OBVIOUS
  <2>2. f = [j \in 1..0 |-> Above(gs, f, j)]
    BY <2>1
  <2> QED
    BY <1>2, <1>3, <2>2
<1>4. CASE m # 0
  <2>1. m - 1 \in Nat /\ m - 1 <= n /\ m - 1 \notin Missing
    BY <1>1, <1>2, <1>4
  <2>2. PICK f : f = [j \in 1..(m - 1) |-> Above(gs, f, j)]
    BY <2>1
  <2>3. PICK g : g = [j \in 1..m |-> IF j = m THEN Above(gs, f, m) ELSE f[j]]
    OBVIOUS
  <2>4. \A j \in 1..(m - 1) : g[j] = f[j]
    BY <1>2, <2>3
  <2>5. ASSUME NEW j \in 1..m
        PROVE  Above(gs, f, j) = Above(gs, g, j)
    <3>1. gs[j].parent = 0 \/ g[gs[j].parent] = f[gs[j].parent]
      <4>1. j \in 1..n
        BY <1>2
      <4>2. gs[j].parent \in 0..(j - 1)
        BY <4>1
      <4>3. gs[j].parent = 0 \/ gs[j].parent \in 1..(m - 1)
        BY <1>2, <4>2
      <4> QED
        BY <2>4, <4>3
    <3> QED
      BY <3>1 DEF Above
  <2>6. ASSUME NEW j \in 1..m
        PROVE  g[j] = Above(gs, g, j)
    <3>1. g[j] = Above(gs, f, j)
      <4>1. CASE j = m
        BY <2>3, <4>1
      <4>2. CASE j # m
        <5>1. j \in 1..(m - 1)
          BY <1>2, <4>2
        <5> QED
          BY <2>2, <2>4, <5>1
      <4> QED
        BY <4>1, <4>2
    <3> QED
      BY <2>5, <3>1
  <2>7. g = [j \in 1..m |-> Above(gs, g, j)]
    BY <2>3, <2>6
  <2> QED
    BY <1>2, <2>7
<1> QED
  BY <1>3, <1>4

LEMMA AncestorsStep ==
  ASSUME PolicyInv, NEW i \in 1..Len(grants)
  PROVE  Ancestors(i) = IF grants[i].parent = 0 THEN {}
                        ELSE {grants[i].parent} \cup Ancestors(grants[i].parent)
<1>1. DOMAIN grants = 1..Len(grants) /\ Len(grants) \in Nat
  BY DEF PolicyInv, PolicyType
<1>2. \E up : up = [j \in 1..Len(grants) |-> Above(grants, up, j)]
  BY <1>1, UpExists DEF PolicyInv, GrantInv
<1>3. PICK up : up = [j \in DOMAIN grants |-> Above(grants, up, j)] /\ up = Up(grants)
  BY <1>1, <1>2 DEF Up
<1>4. \A j : Ancestors(j) = up[j]
  BY <1>3 DEF Ancestors, Up, Above
<1> QED
  BY <1>1, <1>3, <1>4 DEF Above

-----------------------------------------------------------------------------
(* What one step says of a grant and the one it hangs from.                *)
LEMMA ChainStep ==
  ASSUME PolicyInv, NEW i \in 1..Len(grants), effective(policy, i), grants[i].parent # 0
  PROVE  LET q == grants[i].parent IN
         /\ q \in 1..Len(grants) /\ q < i /\ effective(policy, q)
         /\ grants[q].action = "manage"
         /\ grants[i].action \in grants[q].gives
         /\ grants[i].gives \subseteq grants[q].gives
         /\ in_scope(conns[grants[i].conn].scope, conns[grants[q].conn].scope, TRUE)
<1>1. PICK q : q = grants[i].parent
  OBVIOUS
<1>2. q \in 1..Len(grants) /\ q < i
  BY <1>1, PolicyFacts DEF PolicyInv, GrantInv
<1>3. effective(policy, q) /\ Hangs(scope, policy, i, q)
  BY <1>1, EffectiveStep
<1>4. /\ grants[q].action = "manage" /\ grants[i].action \in grants[q].gives
      /\ Reaches(scope, conns[grants[i].conn].scope, conns[grants[q].conn].scope, grants[q].desc)
      /\ grants[i].action = "manage" => WithinEnvelope(grants[q], grants[i])
  BY <1>2, <1>3, PolicyFacts DEF Hangs
<1>5. grants[i].gives \subseteq grants[q].gives
  BY <1>4 DEF WithinEnvelope, PolicyInv, GrantInv
<1>6. in_scope(conns[grants[i].conn].scope, conns[grants[q].conn].scope, TRUE)
  BY <1>4 DEF Reaches, in_scope
<1> QED
  BY <1>1, <1>2, <1>3, <1>4, <1>5, <1>6

LEMMA ScopeFacts ==
  ASSUME PolicyInv, NEW i \in 1..Len(grants)
  PROVE  conns[grants[i].conn].scope \in {"root", "child"} /\ grants[i].conn \in 1..Len(conns)
<1>1. grants[i].conn \in 1..Len(conns)
  BY DEF PolicyInv, GrantInv
<1>2. conns[grants[i].conn] \in Conn
  BY <1>1 DEF PolicyInv, PolicyType
<1> QED
  BY <1>1, <1>2 DEF Conn

(* Scopes nest two deep, so the scope of an ancestor contains the scopes   *)
(* of everything below it.                                                 *)
LEMMA InScopeTransitive ==
  ASSUME NEW s \in {"root", "child"}, NEW t \in {"root", "child"}, NEW u \in {"root", "child"},
         in_scope(s, t, TRUE), in_scope(t, u, TRUE)
  PROVE  in_scope(s, u, TRUE)
BY DEF in_scope, Parent

AncestorOf(i, j) ==
    /\ j \in 1..Len(grants) /\ effective(policy, j) /\ grants[i].action \in grants[j].gives
    /\ grants[i].gives \subseteq grants[j].gives
    /\ in_scope(conns[grants[i].conn].scope, conns[grants[j].conn].scope, TRUE)

LEMMA AncestorsBound ==
  ASSUME PolicyInv, NEW i \in 1..Len(grants), effective(policy, i), NEW j \in Ancestors(i)
  PROVE  AncestorOf(i, j)
<1> DEFINE Bad == {k \in 1..Len(grants) :
                     effective(policy, k) /\ \E a \in Ancestors(k) : ~AncestorOf(k, a)}
<1>1. Bad \in SUBSET Nat
  BY DEF PolicyInv, PolicyType
<1>2. ASSUME Bad # {}
      PROVE  FALSE
  <2>1. PICK m \in Bad : \A k \in Bad : m <= k
    <3> HIDE DEF Bad
    <3> QED
      BY <1>1, <1>2, LeastNumber
  <2>2. m \in 1..Len(grants) /\ effective(policy, m)
    OBVIOUS
  <2>3. PICK a \in Ancestors(m) : ~AncestorOf(m, a)
    OBVIOUS
  <2>4. PICK q : q = grants[m].parent
    OBVIOUS
  <2>5. q # 0 /\ a \in {q} \cup Ancestors(q)
    BY <2>2, <2>3, <2>4, AncestorsStep
  <2>6. /\ q \in 1..Len(grants) /\ q < m /\ effective(policy, q)
        /\ grants[q].action = "manage"
        /\ grants[m].action \in grants[q].gives
        /\ grants[m].gives \subseteq grants[q].gives
        /\ in_scope(conns[grants[m].conn].scope, conns[grants[q].conn].scope, TRUE)
    BY <2>2, <2>4, <2>5, ChainStep
  <2>7. CASE a = q
    BY <2>3, <2>6, <2>7 DEF AncestorOf
  <2>8. CASE a \in Ancestors(q)
    <3>1. q \notin Bad
      BY <2>1, <2>6, PolicyFacts
    <3>2. AncestorOf(q, a)
      BY <2>6, <2>8, <3>1
    <3>3. in_scope(conns[grants[m].conn].scope, conns[grants[a].conn].scope, TRUE)
      BY <2>2, <2>6, <3>2, ScopeFacts, InScopeTransitive DEF AncestorOf
    <3> QED
      BY <2>3, <2>6, <3>2, <3>3 DEF AncestorOf
  <2> QED
    BY <2>5, <2>7, <2>8
<1> QED
  BY <1>2

LEMMA PolicySafe == PolicyInv => AuthorityBounded
<1> SUFFICES ASSUME PolicyInv PROVE AuthorityBounded
  OBVIOUS
<1>1. DOMAIN grants = 1..Len(grants)
  BY DEF PolicyInv, PolicyType
<1>2. ASSUME NEW i \in 1..Len(grants), effective(policy, i), grants[i].conn # 1
      PROVE  grants[i].action \in duty.acts /\ role.duty
  <2>1. policy[i].active /\ grants[i].mode # "denied"
    BY <1>2, EffectiveStep, PolicyFacts DEF Sane
  <2>2. Used(conns[grants[i].conn]) /\ grants[i].st = "active"
    BY <2>1, PolicyFacts DEF Used
  <2> QED
    BY <1>2, <2>1, <2>2, ScopeFacts DEF PolicyInv, UseInv
<1>3. ASSUME NEW i \in 1..Len(grants), effective(policy, i), NEW j \in Ancestors(i)
      PROVE  /\ j \in EffectiveNow /\ grants[i].action \in grants[j].gives
             /\ grants[i].gives \subseteq grants[j].gives
             /\ in_scope(conns[grants[i].conn].scope, conns[grants[j].conn].scope, TRUE)
  <2>1. AncestorOf(i, j)
    BY <1>3, AncestorsBound
  <2> QED
    BY <1>1, <2>1 DEF AncestorOf, EffectiveNow
<1> QED
  BY <1>1, <1>2, <1>3 DEF AuthorityBounded, EffectiveNow

-----------------------------------------------------------------------------
LEMMA FunctionSeq ==
  ASSUME NEW S, NEW n \in Nat, NEW f \in [1..n -> S]
  PROVE  f \in Seq(S) /\ Len(f) = n
OBVIOUS

LEMMA PolicyInitInv == PolicyInit => PolicyInv
<1> SUFFICES ASSUME PolicyInit PROVE PolicyInv
  OBVIOUS
<1>1. PICK b : b = [person |-> Root, scope |-> "root", st |-> "active", term |-> "now"]
  OBVIOUS
<1>2. b \in Conn /\ b.scope = "root"
  BY <1>1 DEF Conn, Persons
<1>3. /\ conns \in Seq(Conn) /\ Len(conns) \in {1, 2}
      /\ \A c \in 1..Len(conns) : conns[c].scope = "child" => scope["child"] = "active"
  <2>1. CASE conns = <<b>>
    BY <1>2, <2>1
  <2>2. CASE conns # <<b>>
    <3>1. PICK q \in Staff, s \in {"root", "child"} :
             /\ scope[s] = "active"
             /\ conns = <<b, [person |-> q, scope |-> s, st |-> "active", term |-> "now"]>>
      BY <1>1, <2>2 DEF PolicyInit
    <3>2. PICK c : c = [person |-> q, scope |-> s, st |-> "active", term |-> "now"]
      OBVIOUS
    <3>3. c \in Conn /\ c.scope = s /\ conns = <<b, c>>
      BY <3>1, <3>2 DEF Conn, Persons
    <3> QED
      BY <1>2, <3>1, <3>3
  <2> QED
    BY <2>1, <2>2
<1>4. PICK n \in {1, 2} : n = Len(conns)
  BY <1>3
<1>5. grants = [i \in 1..n |->
                   [conn |-> i, action |-> "manage", mode |-> "auto", reviewer |-> NoOne,
                    parent |-> i - 1, desc |-> TRUE, gives |-> Acts, depth |-> 3 - i, st |-> "active"]]
  BY <1>3, <1>4 DEF PolicyInit
<1>6. ASSUME NEW i \in 1..n
      PROVE  /\ grants[i] \in Grant /\ grants[i].conn = i /\ grants[i].parent = i - 1
             /\ grants[i].action = "manage"
  <2>1. PICK g : g = [conn |-> i, action |-> "manage", mode |-> "auto", reviewer |-> NoOne,
                      parent |-> i - 1, desc |-> TRUE, gives |-> Acts, depth |-> 3 - i, st |-> "active"]
    OBVIOUS
  <2>2. i \in Nat /\ i - 1 \in Nat /\ 3 - i \in Int
    BY <1>4
  <2>3. "manage" \in Acts
    BY DEF Acts
  <2>4. g \in Grant /\ g.conn = i /\ g.parent = i - 1 /\ g.action = "manage"
    BY <2>1, <2>2, <2>3 DEF Grant
  <2> QED
    BY <1>5, <2>1, <2>4
<1>7. grants \in [1..n -> Grant] /\ n \in Nat
  BY <1>5, <1>6
<1>8. grants \in Seq(Grant) /\ Len(grants) = n
  BY <1>7, FunctionSeq
<1>9. PolicyType
  BY <1>3, <1>8 DEF PolicyInit, PolicyType
<1>10. GrantInv
  BY <1>4, <1>6, <1>8 DEF GrantInv
<1>11. UseInv
  BY <1>3, <1>4, <1>6, <1>8 DEF PolicyInit, UseInv, Acts
<1> QED
  BY <1>9, <1>10, <1>11 DEF PolicyInv

(* The catalog changes while connections and grants stay.                  *)
LEMMA CatalogStep ==
  ASSUME PolicyInv, UNCHANGED <<conns, grants>>,
         DOMAIN scope' = {"root", "child"}, scope'["root"] = "active",
         DOMAIN role' = {"st", "duty"}, role'.duty \in BOOLEAN,
         DOMAIN duty' = {"st", "acts"},
         \A c \in 1..Len(conns) : Used(conns[c]) =>
            /\ c # 1 => role'.duty /\ duty'.st = "active"
            /\ conns[c].scope = "child" => scope'["child"] = "active",
         \A i \in 1..Len(grants) :
            (/\ grants[i].conn # 1 /\ grants[i].st = "active" /\ grants[i].mode # "denied"
             /\ Used(conns[grants[i].conn])) => grants[i].action \in duty'.acts
  PROVE  PolicyInv'
BY DEF PolicyInv, PolicyType, GrantInv, UseInv

(* What becomes of the grants: those there were stay as they were or are   *)
(* revoked, the others are given to the connection c, for actions of A.    *)
Anew(gs, new, c, A) ==
    /\ new \in Seq(Grant) /\ Len(new) >= Len(gs)
    /\ \A i \in 1..Len(gs) :
          /\ new[i].conn = gs[i].conn /\ new[i].parent = gs[i].parent
          /\ new[i].action = gs[i].action /\ new[i].gives = gs[i].gives
          /\ new[i].mode = gs[i].mode
          /\ new[i].st = "active" => gs[i].st = "active"
    /\ \A i \in (Len(gs) + 1)..Len(new) :
          /\ new[i].conn = c /\ new[i].action \in A /\ new[i].parent \in 1..Len(gs)
          /\ new[i].action # "manage" => new[i].gives = {}

(* What becomes of the connections: those there were stay where they were, *)
(* in use only if they were; a new one is for the duty and scope in force. *)
Moved(cs, new) ==
    /\ new \in Seq(Conn) /\ Len(new) >= Len(cs)
    /\ \A d \in 1..Len(cs) : new[d].scope = cs[d].scope /\ (Used(new[d]) => Used(cs[d]))
    /\ \A d \in (Len(cs) + 1)..Len(new) :
          /\ role.duty /\ duty.st = "active"
          /\ new[d].scope = "child" => scope["child"] = "active"

LEMMA GivenStep ==
  ASSUME PolicyInv, UNCHANGED <<scope, role, duty>>, Moved(conns, conns'),
         NEW c, Len(grants') > Len(grants) => c \in 1..Len(conns'),
         NEW A, A \subseteq duty.acts, Anew(grants, grants', c, A)
  PROVE  PolicyInv'
<1>0. PICK n \in Nat, m \in Nat : n = Len(conns) /\ m = Len(grants)
  BY DEF PolicyInv, PolicyType
<1>9. PICK n1 \in Nat, m1 \in Nat : n1 = Len(conns') /\ m1 = Len(grants') /\ n1 >= n /\ m1 >= m
  BY <1>0 DEF Moved, Anew
<1>1. PolicyType'
  BY DEF PolicyInv, PolicyType, Moved, Anew
<1>2. ASSUME NEW i \in 1..m1
      PROVE  /\ grants'[i].conn \in 1..n1
             /\ grants'[i].parent \in 0..(i - 1)
             /\ grants'[i].action # "manage" => grants'[i].gives = {}
  <2>1. CASE i \in 1..m
    <3>1. /\ grants[i].conn \in 1..n /\ grants[i].parent \in 0..(i - 1)
          /\ grants[i].action # "manage" => grants[i].gives = {}
      BY <1>0, <2>1 DEF PolicyInv, GrantInv
    <3>2. /\ grants'[i].conn = grants[i].conn /\ grants'[i].parent = grants[i].parent
          /\ grants'[i].action = grants[i].action /\ grants'[i].gives = grants[i].gives
      BY <1>0, <2>1 DEF Anew
    <3> QED
      BY <1>9, <3>1, <3>2
  <2>2. CASE i \notin 1..m
    <3>1. i \in (m + 1)..m1
      BY <2>2
    <3>2. /\ grants'[i].conn = c /\ grants'[i].parent \in 1..m
          /\ grants'[i].action # "manage" => grants'[i].gives = {}
      BY <1>0, <1>9, <3>1 DEF Anew
    <3> QED
      BY <1>0, <1>9, <3>1, <3>2
  <2> QED
    BY <2>1, <2>2
<1>3. ASSUME NEW d \in 1..n1, Used(conns'[d])
      PROVE  /\ d # 1 => role.duty /\ duty.st = "active"
             /\ conns'[d].scope = "child" => scope["child"] = "active"
  <2>1. CASE d \in 1..n
    BY <1>0, <1>3, <2>1 DEF Moved, PolicyInv, UseInv
  <2>2. CASE d \notin 1..n
    <3>1. d \in (n + 1)..n1
      BY <2>2
    <3> QED
      BY <1>0, <1>9, <3>1 DEF Moved
  <2> QED
    BY <2>1, <2>2
<1>4. ASSUME NEW i \in 1..m1, grants'[i].conn # 1, grants'[i].st = "active",
             grants'[i].mode # "denied", Used(conns'[grants'[i].conn])
      PROVE  grants'[i].action \in duty.acts
  <2>1. CASE i \in 1..m
    <3>1. PICK d : d = grants[i].conn /\ d \in 1..n
      BY <1>0, <2>1 DEF PolicyInv, GrantInv
    <3>2. /\ grants'[i].conn = d /\ grants'[i].action = grants[i].action
          /\ grants[i].mode # "denied" /\ grants[i].st = "active"
      BY <1>0, <1>4, <2>1, <3>1 DEF Anew
    <3>3. Used(conns[d])
      BY <1>0, <1>4, <3>1, <3>2 DEF Moved
    <3> QED
      BY <1>0, <1>4, <2>1, <3>1, <3>2, <3>3 DEF PolicyInv, UseInv
  <2>2. CASE i \notin 1..m
    <3>1. i \in (m + 1)..m1
      BY <2>2
    <3> QED
      BY <1>0, <1>9, <3>1 DEF Anew
  <2> QED
    BY <2>1, <2>2
<1>5. GrantInv'
  BY <1>9, <1>2 DEF GrantInv
<1>6. UseInv'
  BY <1>9, <1>3, <1>4 DEF UseInv
<1> QED
  BY <1>1, <1>5, <1>6 DEF PolicyInv

LEMMA StaysAnew ==
  ASSUME PolicyInv
  PROVE  Anew(grants, grants, 1, {}) /\ Moved(conns, conns)
BY DEF PolicyInv, PolicyType, Anew, Moved

(* Settings: an envelope is given only with management.                    *)
SettingOk(t) ==
    /\ t.action \in Acts /\ t.mode \in {"auto", "confirm", "denied"}
    /\ t.reviewer \in Persons \cup {NoOne}
    /\ t.env.gives \in SUBSET Acts /\ t.env.depth \in Int
    /\ t.action # "manage" => t.env.gives = {}

LEMMA SettingFacts ==
  ASSUME NEW person, NEW settings \in Assignments(person), NEW t \in settings
  PROVE  SettingOk(t)
<1>1. \/ \E a \in {"publish", "review"}, m \in {"auto", "confirm", "denied"},
            r \in Persons \cup {NoOne} : t = Setting(a, m, r, NoEnvelope)
      \/ \E e \in {Acts, {"publish"}}, d \in {0, 1} :
            t = Setting("manage", "auto", NoOne, [gives |-> e, depth |-> d])
  BY DEF Assignments
<1>2. ASSUME NEW a \in {"publish", "review"}, NEW m \in {"auto", "confirm", "denied"},
             NEW r \in Persons \cup {NoOne}, t = Setting(a, m, r, NoEnvelope)
      PROVE  SettingOk(t)
  <2>0. PICK e : e = NoEnvelope
    OBVIOUS
  <2>1. e = NoEnvelope /\ e.gives = {} /\ e.depth = 0
    BY <2>0 DEF NoEnvelope
  <2>2. t.action = a /\ t.mode = m /\ t.reviewer = r /\ t.env = e
    BY <1>2, <2>1 DEF Setting
  <2> QED
    BY <2>1, <2>2 DEF SettingOk, Acts
<1>3. ASSUME NEW g \in {Acts, {"publish"}}, NEW d \in {0, 1},
             t = Setting("manage", "auto", NoOne, [gives |-> g, depth |-> d])
      PROVE  SettingOk(t)
  <2>1. PICK e : e = [gives |-> g, depth |-> d]
    OBVIOUS
  <2>2. t.action = "manage" /\ t.mode = "auto" /\ t.reviewer = NoOne /\ t.env = e
    BY <1>3, <2>1 DEF Setting
  <2> QED
    BY <2>1, <2>2 DEF SettingOk, Acts
<1> QED
  BY <1>1, <1>2, <1>3

LEMMA RegrantedAnew ==
  ASSUME NEW gs \in Seq(Grant), NEW p, DOMAIN p = 1..Len(gs), NEW actor, NEW c \in Nat, NEW s,
         NEW person, NEW settings \in Assignments(person),
         NEW parents \in Parents(p, actor, s, settings),
         NEW new, new = Regranted(p, actor, gs, c, s, settings, parents)
  PROVE  Anew(gs, new, c, {t.action : t \in settings})
<1>0. PICK n \in Nat : n = Len(gs) /\ DOMAIN gs = 1..n
  OBVIOUS
<1> DEFINE same(i, t) == /\ gs[i].conn = c /\ gs[i].st = "active" /\ gs[i].action = t.action
                         /\ effective(p, i) /\ gs[i].mode = t.mode /\ gs[i].reviewer = t.reviewer
                         /\ gs[i].gives = t.env.gives /\ gs[i].depth = t.env.depth
           One(t) == [conn |-> c, action |-> t.action, mode |-> t.mode, reviewer |-> t.reviewer,
                      parent |-> parents[t], desc |-> t.action = "manage" /\ t.mode = "auto",
                      gives |-> t.env.gives, depth |-> t.env.depth, st |-> "active"]
<1> DEFINE Standing == {i \in DOMAIN gs : \E t \in settings : same(i, t)}
           Left == [i \in DOMAIN gs |-> IF gs[i].conn = c /\ gs[i].st = "active" /\ i \notin Standing
                                        THEN [gs[i] EXCEPT !.st = "revoked"] ELSE gs[i]]
           News == {t \in settings : ~ \E i \in Standing : same(i, t)}
<1>1. new = IF News = {} THEN Left ELSE Append(Left, One(CHOOSE t \in News : TRUE))
  BY Zenon DEF Regranted
<1>2. PICK kept, left : /\ kept = Standing
                        /\ left = Left
  OBVIOUS
<1>3. PICK news : news = News
  OBVIOUS
<1>4. new = IF news = {} THEN left ELSE Append(left, One(CHOOSE t \in news : TRUE))
  <2> HIDE DEF Left, News, One
  <2> QED
    BY <1>1, <1>2, <1>3, Zenon
<1>5. ASSUME NEW i \in 1..n
      PROVE  /\ left[i] \in Grant
             /\ left[i].conn = gs[i].conn /\ left[i].parent = gs[i].parent
             /\ left[i].action = gs[i].action /\ left[i].gives = gs[i].gives
             /\ left[i].mode = gs[i].mode
             /\ left[i].st = "active" => gs[i].st = "active"
  <2>1. PICK g \in Grant : g = gs[i]
    BY <1>0
  <2>2. left[i] = g \/ left[i] = [g EXCEPT !.st = "revoked"]
    BY <1>0, <1>2, <2>1
  <2> QED
    BY <2>1, <2>2 DEF Grant
<1>6. left \in [1..n -> Grant]
  BY <1>0, <1>2, <1>5
<1>7. left \in Seq(Grant) /\ Len(left) = n
  BY <1>6, FunctionSeq
<1>8. CASE news = {}
  <2>1. new = left
    BY <1>4, <1>8
  <2> QED
    BY <1>0, <1>5, <1>7, <2>1 DEF Anew
<1>9. CASE news # {}
  <2>1. PICK t : t = (CHOOSE x \in news : TRUE)
    OBVIOUS
  <2>2. t \in settings
    BY <1>3, <1>9, <2>1
  <2>3. PICK one : one = One(t)
    OBVIOUS
  <2>4. new = Append(left, one)
    BY <1>4, <1>9, <2>1, <2>3
  <2>5. SettingOk(t)
    BY <2>2, SettingFacts
  <2>6. parents[t] \in 1..n
    BY <1>0, <2>2 DEF Parents
  <2>7. /\ one \in Grant /\ one.conn = c /\ one.action = t.action /\ one.parent \in 1..n
        /\ one.action # "manage" => one.gives = {}
    BY <2>3, <2>5, <2>6 DEF Grant, SettingOk
  <2>8. new \in Seq(Grant) /\ Len(new) = n + 1 /\ new[n + 1] = one
        /\ \A i \in 1..n : new[i] = left[i]
    BY <1>7, <2>4, <2>7
  <2>9. one.action \in {x.action : x \in settings}
    BY <2>2, <2>7
  <2> QED
    BY <1>0, <1>5, <2>7, <2>8, <2>9 DEF Anew
<1> QED
  BY <1>8, <1>9
LEMMA AssignableFacts ==
  ASSUME NEW p, NEW actor, NEW person, NEW s, NEW settings,
         Assignable(p, actor, person, s, settings)
  PROVE  /\ role.duty /\ duty.st = "active" /\ scope[s] = "active"
         /\ {t.action : t \in settings} \subseteq duty.acts
<1>1. can_inspect(p, actor, s)
  BY DEF Assignable
<1>2. scope[s] = "active"
  BY <1>1 DEF can_inspect, in_scope
<1> QED
  BY <1>2 DEF Assignable

LEMMA AssignNewStep ==
  ASSUME PolicyInv, NEW actor, NEW person \in Persons, NEW s \in {"root", "child"},
         NEW settings \in Assignments(person), NEW term \in {"now", "future"},
         AssignNew(actor, person, s, settings, term)
  PROVE  PolicyInv'
<1>0. PICK n \in Nat : n = Len(conns) /\ conns \in [1..n -> Conn] /\ DOMAIN conns = 1..n
  BY DEF PolicyInv, PolicyType
<1>1. PICK cs : cs = [c \in DOMAIN conns |->
                  IF conns[c].person = person /\ conns[c].scope = s /\ conns[c].term = "past"
                  THEN [conns[c] EXCEPT !.st = "ended"] ELSE conns[c]]
  OBVIOUS
<1>2. PICK new : new = [person |-> person, scope |-> s, st |-> "active", term |-> term]
  OBVIOUS
<1>3. conns' = Append(cs, new)
  BY <1>1, <1>2 DEF AssignNew
<1>4. ASSUME NEW c \in 1..n
      PROVE  cs[c] \in Conn /\ cs[c].scope = conns[c].scope /\ (Used(cs[c]) => Used(conns[c]))
  <2>1. PICK d \in Conn : d = conns[c]
    BY <1>0
  <2>2. cs[c] = d \/ cs[c] = [d EXCEPT !.st = "ended"]
    BY <1>0, <1>1, <2>1
  <2> QED
    BY <2>1, <2>2 DEF Conn, Used
<1>5. cs \in [1..n -> Conn]
  BY <1>0, <1>1, <1>4
<1>6. cs \in Seq(Conn) /\ Len(cs) = n
  BY <1>5, FunctionSeq
<1>7. new \in Conn /\ new.scope = s
  BY <1>2 DEF Conn
<1>8. /\ conns' \in Seq(Conn) /\ Len(conns') = n + 1 /\ conns'[n + 1] = new
      /\ \A c \in 1..n : conns'[c] = cs[c]
  BY <1>3, <1>6, <1>7
<1>9. /\ role.duty /\ duty.st = "active" /\ scope[s] = "active"
      /\ {t.action : t \in settings} \subseteq duty.acts
  BY AssignableFacts DEF AssignNew
<1>10. Moved(conns, conns')
  BY <1>0, <1>4, <1>7, <1>8, <1>9 DEF Moved
<1>11. PICK parents \in Parents(policy, actor, s, settings) :
          grants' = Regranted(policy, actor, grants, n + 1, s, settings, parents)
  BY <1>0 DEF AssignNew
<1>12. Anew(grants, grants', n + 1, {t.action : t \in settings})
  <2>1. DOMAIN policy = 1..Len(grants) /\ grants \in Seq(Grant)
    BY PolicyFacts DEF PolicyInv, PolicyType
  <2> QED
    BY <1>11, <2>1, RegrantedAnew
<1> QED
  <2>1. PICK A : A = {t.action : t \in settings}
    OBVIOUS
  <2>2. UNCHANGED <<scope, role, duty>> /\ n + 1 \in 1..Len(conns')
    BY <1>8 DEF AssignNew
  <2> QED
    BY <1>9, <1>10, <1>12, <2>1, <2>2, GivenStep

LEMMA AssignSameStep ==
  ASSUME PolicyInv, NEW actor, NEW c \in DOMAIN conns,
         NEW settings \in Assignments(conns[c].person), AssignSame(actor, c, settings)
  PROVE  PolicyInv'
<1>1. /\ role.duty /\ duty.st = "active"
      /\ {t.action : t \in settings} \subseteq duty.acts
  BY AssignableFacts DEF AssignSame
<1>2. PICK s : s = conns[c].scope
  OBVIOUS
<1>3. PICK parents \in Parents(policy, actor, s, settings) :
          grants' = Regranted(policy, actor, grants, c, s, settings, parents)
  BY <1>2 DEF AssignSame
<1>4. c \in 1..Len(conns) /\ c \in Nat
  BY DEF PolicyInv, PolicyType
<1>5. Anew(grants, grants', c, {t.action : t \in settings})
  <2>1. DOMAIN policy = 1..Len(grants) /\ grants \in Seq(Grant)
    BY PolicyFacts DEF PolicyInv, PolicyType
  <2> QED
    BY <1>3, <1>4, <2>1, RegrantedAnew
<1>6. UNCHANGED <<scope, role, duty, conns>>
  BY DEF AssignSame
<1>7. Moved(conns, conns')
  BY <1>6, StaysAnew
<1> QED
  BY <1>1, <1>4, <1>5, <1>6, <1>7, GivenStep

LEMMA AssignReplacedStep ==
  ASSUME PolicyInv, NEW actor, NEW c \in DOMAIN conns, NEW s \in {"root", "child"},
         NEW settings \in Assignments(conns[c].person), AssignReplaced(actor, c, s, settings)
  PROVE  PolicyInv'
<1>0. PICK n \in Nat : n = Len(conns) /\ conns \in [1..n -> Conn] /\ DOMAIN conns = 1..n
  BY DEF PolicyInv, PolicyType
<1>1. PICK cs : cs = end_connection(policy, actor, conns, c)
  OBVIOUS
<1>2. PICK old \in Conn : old = conns[c]
  BY <1>0
<1>3. PICK new : new = [person |-> old.person, scope |-> s, st |-> "active",
                        term |-> IF old.term = "future" THEN "future" ELSE "now"]
  OBVIOUS
<1>4. conns' = Append(cs, new)
  BY <1>1, <1>2, <1>3 DEF AssignReplaced
<1>5. ASSUME NEW d \in 1..n
      PROVE  cs[d] \in Conn /\ cs[d].scope = conns[d].scope /\ (Used(cs[d]) => Used(conns[d]))
  <2>1. PICK e \in Conn : e = conns[d]
    BY <1>0
  <2>2. cs[d] = e \/ cs[d] = [e EXCEPT !.st = "ended"]
    BY <1>0, <1>1, <2>1 DEF end_connection
  <2> QED
    BY <2>1, <2>2 DEF Conn, Used
<1>6. DOMAIN cs = 1..n /\ cs = [d \in 1..n |-> cs[d]]
  BY <1>0, <1>1 DEF end_connection
<1>7. cs \in [1..n -> Conn]
  BY <1>5, <1>6
<1>8. cs \in Seq(Conn) /\ Len(cs) = n
  BY <1>7, FunctionSeq
<1>9. new \in Conn /\ new.scope = s
  BY <1>2, <1>3 DEF Conn
<1>10. /\ conns' \in Seq(Conn) /\ Len(conns') = n + 1 /\ conns'[n + 1] = new
       /\ \A d \in 1..n : conns'[d] = cs[d]
  BY <1>4, <1>8, <1>9
<1>11. PICK p : p = load_policy(cs, grants)
  OBVIOUS
<1>12. Assignable(p, actor, conns[c].person, s, settings)
  BY <1>1, <1>11 DEF AssignReplaced
<1>13. /\ role.duty /\ duty.st = "active" /\ scope[s] = "active"
       /\ {t.action : t \in settings} \subseteq duty.acts
  BY <1>12, AssignableFacts
<1>14. Moved(conns, conns')
  BY <1>0, <1>5, <1>9, <1>10, <1>13 DEF Moved
<1>15. PICK parents \in Parents(p, actor, s, settings) :
          grants' = Regranted(p, actor, grants, n + 1, s, settings, parents)
  BY <1>0, <1>1, <1>11 DEF AssignReplaced
<1>16. Anew(grants, grants', n + 1, {t.action : t \in settings})
  <2>1. DOMAIN p = 1..Len(grants) /\ grants \in Seq(Grant)
    BY <1>11 DEF PolicyInv, PolicyType, load_policy
  <2> QED
    BY <1>15, <2>1, RegrantedAnew
<1> QED
  <2>1. PICK A : A = {t.action : t \in settings}
    OBVIOUS
  <2>2. UNCHANGED <<scope, role, duty>> /\ n + 1 \in 1..Len(conns')
    BY <1>10 DEF AssignReplaced
  <2> QED
    BY <1>13, <1>14, <1>16, <2>1, <2>2, GivenStep

(* One connection or several change without coming into use.               *)
LEMMA EndsStep ==
  ASSUME PolicyInv, UNCHANGED <<scope, role, duty, grants>>, DOMAIN conns' = DOMAIN conns,
         conns' = [c \in DOMAIN conns' |-> conns'[c]],
         \A c \in DOMAIN conns : /\ conns'[c] \in Conn /\ conns'[c].scope = conns[c].scope
                                 /\ Used(conns'[c]) => Used(conns[c])
  PROVE  PolicyInv'
<1>0. PICK n \in Nat : n = Len(conns) /\ DOMAIN conns = 1..n
  BY DEF PolicyInv, PolicyType
<1>1. conns' \in [1..n -> Conn]
  BY <1>0
<1>2. conns' \in Seq(Conn) /\ Len(conns') = n
  BY <1>1, FunctionSeq
<1>3. Moved(conns, conns')
  BY <1>0, <1>2 DEF Moved
<1>4. Anew(grants, grants', 1, {})
  BY StaysAnew
<1>5. Len(grants') = Len(grants) /\ Len(grants) \in Nat
  BY DEF PolicyInv, PolicyType
<1> QED
  <2>1. UNCHANGED <<scope, role, duty>> /\ {} \subseteq duty.acts
    OBVIOUS
  <2>3. PICK c, A : c = 1 /\ A = {}
    OBVIOUS
  <2>2. Len(grants') > Len(grants) => 1 \in 1..Len(conns')
    BY <1>5
  <2> QED
    BY <1>3, <1>4, <2>1, <2>2, <2>3, GivenStep

LEMMA RevokeStep ==
  ASSUME PolicyInv, NEW actor, NEW i \in DOMAIN grants, RevokeGrant(actor, i)
  PROVE  PolicyInv'
<1>0. PICK m \in Nat : m = Len(grants) /\ DOMAIN grants = 1..m /\ grants \in [1..m -> Grant]
  BY DEF PolicyInv, PolicyType
<1>1. grants' = [grants EXCEPT ![i].st = "revoked"]
  BY DEF RevokeGrant
<1>2. ASSUME NEW j \in 1..m
      PROVE  /\ grants'[j] \in Grant
             /\ grants'[j].conn = grants[j].conn /\ grants'[j].parent = grants[j].parent
             /\ grants'[j].action = grants[j].action /\ grants'[j].gives = grants[j].gives
             /\ grants'[j].mode = grants[j].mode
             /\ grants'[j].st = "active" => grants[j].st = "active"
  <2>1. PICK g \in Grant : g = grants[j]
    BY <1>0
  <2>2. grants'[j] = g \/ grants'[j] = [g EXCEPT !.st = "revoked"]
    BY <1>0, <1>1, <2>1
  <2> QED
    BY <2>1, <2>2 DEF Grant
<1>3. grants' \in [1..m -> Grant]
  BY <1>0, <1>1, <1>2
<1>4. grants' \in Seq(Grant) /\ Len(grants') = m
  BY <1>3, FunctionSeq
<1>5. Anew(grants, grants', 1, {})
  BY <1>0, <1>2, <1>4 DEF Anew
<1>6. UNCHANGED <<scope, role, duty, conns>>
  BY DEF RevokeGrant
<1>7. Moved(conns, conns')
  BY <1>6, StaysAnew
<1> QED
  <2>1. UNCHANGED <<scope, role, duty>> /\ {} \subseteq duty.acts
    BY <1>6
  <2>3. PICK c, A : c = 1 /\ A = {}
    OBVIOUS
  <2>2. Len(grants') > Len(grants) => 1 \in 1..Len(conns')
    BY <1>0, <1>4
  <2> QED
    BY <1>5, <1>6, <1>7, <2>1, <2>2, <2>3, GivenStep

LEMMA EndingStep ==
  ASSUME PolicyInv, NEW c \in DOMAIN conns, UNCHANGED <<scope, role, duty, grants>>,
         \/ conns' = [conns EXCEPT ![c].st = "ended"]
         \/ conns' = [conns EXCEPT ![c].term = "past"]
         \/ conns[c].term = "future" /\ conns' = [conns EXCEPT ![c].term = "now"]
  PROVE  PolicyInv'
<1>1. \A d \in DOMAIN conns : conns[d] \in Conn
  BY DEF PolicyInv, PolicyType
<1>2. DOMAIN conns' = DOMAIN conns /\ conns' = [d \in DOMAIN conns' |-> conns'[d]]
  OBVIOUS
<1>3. ASSUME NEW d \in DOMAIN conns
      PROVE  /\ conns'[d] \in Conn /\ conns'[d].scope = conns[d].scope
             /\ Used(conns'[d]) => Used(conns[d])
  <2>1. PICK e \in Conn : e = conns[d]
    BY <1>1
  <2>2. \/ conns'[d] = e \/ conns'[d] = [e EXCEPT !.st = "ended"]
        \/ conns'[d] = [e EXCEPT !.term = "past"]
        \/ e.term = "future" /\ conns'[d] = [e EXCEPT !.term = "now"]
    BY <2>1
  <2> QED
    BY <2>1, <2>2 DEF Conn, Used
<1> QED
  BY <1>2, <1>3, EndsStep

LEMMA RetireStep ==
  ASSUME PolicyInv, NEW actor, NEW object, organization_retire(actor, object)
  PROVE  PolicyInv'
<1>1. \A d \in DOMAIN conns : conns[d] \in Conn
  BY DEF PolicyInv, PolicyType
<1>2. conns' = [c \in DOMAIN conns |-> IF Carried(c, object)
                                       THEN [conns[c] EXCEPT !.st = "ended"] ELSE conns[c]]
  BY DEF organization_retire
<1>3. DOMAIN conns' = DOMAIN conns /\ conns' = [d \in DOMAIN conns' |-> conns'[d]]
  BY <1>2
<1>4. ASSUME NEW d \in DOMAIN conns
      PROVE  /\ conns'[d] \in Conn /\ conns'[d].scope = conns[d].scope
             /\ Used(conns'[d]) => Used(conns[d])
  <2>1. PICK e \in Conn : e = conns[d]
    BY <1>1
  <2>2. conns'[d] = e \/ conns'[d] = [e EXCEPT !.st = "ended"]
    BY <1>2, <2>1
  <2> QED
    BY <2>1, <2>2 DEF Conn, Used
<1> QED
  BY <1>3, <1>4, EndsStep DEF organization_retire
LEMMA PolicyAtRest ==
  PolicyInv /\ UNCHANGED <<scope, role, duty, conns, grants>> => PolicyInv'
BY DEF PolicyInv, PolicyType, GrantInv, UseInv

LEMMA CreateScopeStep ==
  ASSUME PolicyInv, NEW actor, CreateScope(actor)
  PROVE  PolicyInv'
<1>1. PICK sc : sc = [scope EXCEPT !["child"] = "active"]
  OBVIOUS
<1>2. DOMAIN sc = {"root", "child"} /\ sc["root"] = "active" /\ sc["child"] = "active"
  BY <1>1 DEF PolicyInv, PolicyType
<1>3. scope' = sc /\ UNCHANGED <<role, duty, conns, grants>>
  BY <1>1 DEF CreateScope
<1> QED
  BY <1>2, <1>3 DEF PolicyInv, PolicyType, GrantInv, UseInv

LEMMA SaveDutyStep ==
  ASSUME PolicyInv, NEW actor, NEW acts, SaveDuty(actor, acts)
  PROVE  PolicyInv'
<1>1. /\ \A i \in DOMAIN grants :
            (/\ grants[i].conn # 1 /\ Used(conns[grants[i].conn])
             /\ grants[i].st = "active" /\ grants[i].mode # "denied") => grants[i].action \in acts
      /\ duty' = [duty EXCEPT !.acts = acts]
      /\ UNCHANGED <<scope, role, conns, grants>>
  BY DEF SaveDuty, InUse, Used
<1>2. DOMAIN duty' = {"st", "acts"} /\ duty'.st = duty.st /\ duty'.acts = acts
  BY <1>1 DEF PolicyInv, PolicyType
<1> QED
  BY <1>1, <1>2 DEF PolicyInv, PolicyType, GrantInv, UseInv

LEMMA SaveRoleStep ==
  ASSUME PolicyInv, NEW actor, SaveRole(actor)
  PROVE  PolicyInv'
<1>1. /\ ~role.duty => duty.st = "active"
      /\ role.duty => \A c \in 1..Len(conns) : c # 1 => ~Used(conns[c])
      /\ role' = [role EXCEPT !.duty = ~role.duty]
      /\ UNCHANGED <<scope, duty, conns, grants>>
  BY DEF SaveRole, InUse, Used, PolicyInv, PolicyType
<1>2. DOMAIN role' = {"st", "duty"} /\ role'.duty = ~role.duty /\ role'.duty \in BOOLEAN
  BY <1>1 DEF PolicyInv, PolicyType
<1> QED
  BY <1>1, <1>2 DEF PolicyInv, PolicyType, GrantInv, UseInv

LEMMA RetireCatalogStep ==
  ASSUME PolicyInv, NEW actor, NEW object, retire_catalog(actor, object)
  PROVE  PolicyInv'
<1>1. Users(object) = {} /\ UNCHANGED <<role, conns, grants>>
  BY DEF retire_catalog
<1>2. CASE object = "duty" /\ duty' = [duty EXCEPT !.st = "retired"] /\ UNCHANGED scope
  <2>1. DOMAIN duty' = {"st", "acts"} /\ duty'.acts = duty.acts
    BY <1>2 DEF PolicyInv, PolicyType
  <2>2. \A c \in 1..Len(conns) : c # 1 => ~Used(conns[c])
    BY <1>1, <1>2 DEF Users, InUse, Used, PolicyInv, PolicyType
  <2> QED
    BY <1>1, <1>2, <2>1, <2>2 DEF PolicyInv, PolicyType, GrantInv, UseInv
<1>3. CASE object = "scope" /\ scope' = [scope EXCEPT !["child"] = "retired"] /\ UNCHANGED duty
  <2>1. PICK sc : sc = [scope EXCEPT !["child"] = "retired"]
    OBVIOUS
  <2>2. DOMAIN sc = {"root", "child"} /\ sc["root"] = "active" /\ scope' = sc
    BY <1>3, <2>1 DEF PolicyInv, PolicyType
  <2>3. \A c \in 1..Len(conns) : conns[c].scope = "child" => ~Used(conns[c])
    BY <1>1, <1>3 DEF Users, InUse, Used, PolicyInv, PolicyType
  <2> QED
    BY <1>1, <1>3, <2>2, <2>3 DEF PolicyInv, PolicyType, GrantInv, UseInv
<1> QED
  BY <1>2, <1>3 DEF retire_catalog

LEMMA RestoreCatalogStep ==
  ASSUME PolicyInv, NEW actor, NEW object, RestoreCatalog(actor, object)
  PROVE  PolicyInv'
<1>1. UNCHANGED <<role, conns, grants>>
  BY DEF RestoreCatalog
<1>2. CASE duty' = [duty EXCEPT !.st = "active"] /\ UNCHANGED scope
  <2>1. DOMAIN duty' = {"st", "acts"} /\ duty'.acts = duty.acts /\ duty'.st = "active"
    BY <1>2 DEF PolicyInv, PolicyType
  <2> QED
    BY <1>1, <1>2, <2>1 DEF PolicyInv, PolicyType, GrantInv, UseInv
<1>3. CASE scope' = [scope EXCEPT !["child"] = "active"] /\ UNCHANGED duty
  <2>1. PICK sc : sc = [scope EXCEPT !["child"] = "active"]
    OBVIOUS
  <2>2. /\ DOMAIN sc = {"root", "child"} /\ sc["root"] = "active" /\ sc["child"] = "active"
        /\ scope' = sc
    BY <1>3, <2>1 DEF PolicyInv, PolicyType
  <2> QED
    BY <1>1, <1>3, <2>2 DEF PolicyInv, PolicyType, GrantInv, UseInv
<1> QED
  BY <1>2, <1>3 DEF RestoreCatalog

LEMMA PolicyStep == PolicyInv /\ PolicyNext => PolicyInv'
<1> SUFFICES ASSUME PolicyInv, PolicyNext PROVE PolicyInv'
  OBVIOUS
<1>1. ASSUME NEW actor \in Persons, NEW q \in Staff, NEW s \in {"root", "child"},
             NEW t \in {"now", "future"}, NEW settings \in Assignments(q),
             AssignNew(actor, q, s, settings, t)
      PROVE  PolicyInv'
  BY <1>1, AssignNewStep DEF Persons
<1>2. ASSUME NEW actor \in Persons, NEW c \in DOMAIN conns,
             NEW settings \in Assignments(conns[c].person), AssignSame(actor, c, settings)
      PROVE  PolicyInv'
  BY <1>2, AssignSameStep
<1>3. ASSUME NEW actor \in Persons, NEW c \in DOMAIN conns, NEW s \in {"root", "child"},
             NEW settings \in Assignments(conns[c].person), AssignReplaced(actor, c, s, settings)
      PROVE  PolicyInv'
  BY <1>3, AssignReplacedStep
<1>4. ASSUME NEW actor, NEW i \in DOMAIN grants, RevokeGrant(actor, i)
      PROVE  PolicyInv'
  BY <1>4, RevokeStep
<1>5. ASSUME NEW actor, NEW c \in DOMAIN conns, EndConnection(actor, c)
      PROVE  PolicyInv'
  BY <1>5, EndingStep DEF EndConnection, end_connection
<1>6. ASSUME NEW actor, NEW object, organization_retire(actor, object)
      PROVE  PolicyInv'
  BY <1>6, RetireStep
<1>7. ASSUME NEW actor, NEW object, retire_catalog(actor, object) \/ RestoreCatalog(actor, object)
      PROVE  PolicyInv'
  BY <1>7, RetireCatalogStep, RestoreCatalogStep
<1>8. ASSUME NEW actor, NEW acts, CreateScope(actor) \/ SaveRole(actor) \/ SaveDuty(actor, acts)
      PROVE  PolicyInv'
  BY <1>8, CreateScopeStep, SaveRoleStep, SaveDutyStep
<1>9. ASSUME NEW c \in DOMAIN conns, Starts(c) \/ Expires(c)
      PROVE  PolicyInv'
  BY <1>9, EndingStep DEF Starts, Expires
<1>10. ASSUME NEW actor, NEW x, NEW y,
              \/ set_audience(actor, x) \/ SetGroups(actor) \/ SavePosition(actor, x)
              \/ SaveLedger(actor, x, y) \/ organization_restore(actor, x) \/ IdentityChanges(x)
       PROVE  PolicyInv'
  <2>1. UNCHANGED <<scope, role, duty, conns, grants>>
    BY <1>10 DEF set_audience, SetGroups, SavePosition, SaveLedger, organization_restore,
                 IdentityChanges
  <2> QED
    BY <2>1, PolicyAtRest
<1>11. CASE \E actor \in Persons :
          \/ \E q \in Staff, s \in {"root", "child"}, t \in {"now", "future"} :
                \E settings \in Assignments(q) : AssignNew(actor, q, s, settings, t)
          \/ \E c \in DOMAIN conns : \E settings \in Assignments(conns[c].person) :
                \/ AssignSame(actor, c, settings)
                \/ \E s \in {"root", "child"} : AssignReplaced(actor, c, s, settings)
  BY <1>1, <1>2, <1>3, <1>11
<1>12. CASE \E actor \in Persons :
          \/ \E i \in DOMAIN grants : RevokeGrant(actor, i)
          \/ \E c \in DOMAIN conns : EndConnection(actor, c) \/ set_audience(actor, c)
          \/ CreateScope(actor) \/ SetGroups(actor) \/ SaveRole(actor)
          \/ \E acts \in {Acts, {"manage", "review"}} : SaveDuty(actor, acts)
          \/ \E o \in {"duty", "scope"} : retire_catalog(actor, o) \/ RestoreCatalog(actor, o)
          \/ \E to \in {"draft", "active"} :
                SavePosition(actor, to) \/ \E q \in Staff : SaveLedger(actor, q, to)
          \/ \E o \in {"position"} \cup Staff :
                organization_retire(actor, o) \/ organization_restore(actor, o)
  BY <1>4, <1>5, <1>6, <1>7, <1>8, <1>10, <1>12
<1>13. CASE \/ \E c \in DOMAIN conns : Starts(c) \/ Expires(c)
            \/ \E q \in Staff : IdentityChanges(q)
  BY <1>9, <1>10, <1>13
<1> QED
  BY <1>11, <1>12, <1>13 DEF PolicyNext

LEMMA PolicyNextFacts ==
  ASSUME PolicyInv'
  PROVE  /\ DOMAIN policy' = 1..Len(grants')
         /\ \A i \in 1..Len(grants') :
               /\ policy'[i].g = grants'[i]
               /\ policy'[i].person = conns'[grants'[i].conn].person
               /\ policy'[i].scope = conns'[grants'[i].conn].scope
               /\ policy'[i].active <=> /\ grants'[i].st = "active"
                                        /\ conns'[grants'[i].conn].st = "active"
                                        /\ conns'[grants'[i].conn].term = "now"
                                        /\ role'.st = "active"
                                        /\ (grants'[i].conn = 1 \/ duty'.st = "active")
                                        /\ conns'[grants'[i].conn].person \in known'
BY DEF policy, load_policy, PolicyInv, PolicyType

(* A command that leaves connections and grants alone makes none of them   *)
(* effective: what is in use had its duty and its scope in force already.  *)
LEMMA NothingRestored ==
  ASSUME PolicyInv, PolicyInv', UNCHANGED <<conns, grants, known>>, role'.st = role.st,
         NEW k \in 1..Len(grants), effective(policy, k)'
  PROVE  effective(policy, k)
<1>0. PICK n \in Nat : n = Len(grants) /\ Len(grants') = n
  BY DEF PolicyInv, PolicyType
<1>1. Below(policy, n)
  BY <1>0, PolicyBelow
<1>2. Below(policy', n)
  BY <1>0, PolicyNextFacts DEF Below, PolicyInv, GrantInv
<1>3. PICK p, p2, sc, sc2 : p = policy /\ p2 = policy' /\ sc = scope /\ sc2 = scope'
  OBVIOUS
<1>4. \A i \in 1..n : /\ p[i].g = grants[i] /\ p2[i].g = p[i].g
                      /\ p2[i].scope = p[i].scope /\ p2[i].person = p[i].person
                      /\ p[i].scope \in {"root", "child"}
  BY <1>0, <1>3, PolicyFacts, PolicyNextFacts, ScopeFacts
<1>5. sc["root"] = "active"
  BY <1>3 DEF PolicyInv, PolicyType
<1>6. ASSUME NEW i \in 1..n, Sane(sc2, p2, i)
      PROVE  Sane(sc, p, i) /\ sc[p[i].scope] = "active"
  <2>1. p2[i].active
    BY <1>6 DEF Sane
  <2>2. PICK c \in 1..Len(conns) : c = grants[i].conn
    BY <1>0, ScopeFacts
  <2>3. /\ grants[i].st = "active" /\ conns[c].st = "active" /\ conns[c].term = "now"
        /\ role.st = "active" /\ conns[c].person \in known
    BY <1>0, <1>3, <2>1, <2>2, PolicyNextFacts
  <2>4. /\ c # 1 => duty.st = "active"
        /\ conns[c].scope = "child" => scope["child"] = "active"
    BY <2>3 DEF Used, PolicyInv, UseInv
  <2>5. p[i].active
    BY <1>0, <1>3, <2>2, <2>3, <2>4, PolicyFacts
  <2>6. p[i].scope = conns[c].scope
    BY <1>0, <1>3, <2>2, PolicyFacts
  <2>7. sc[p[i].scope] = "active"
    BY <1>3, <1>4, <1>5, <2>4, <2>6
  <2> QED
    BY <1>4, <1>6, <2>5, <2>7 DEF Sane, Reaches
<1>7. ASSUME NEW i \in 1..n, NEW q \in 1..n, sc[p[i].scope] = "active", Hangs(sc2, p2, i, q)
      PROVE  Hangs(sc, p, i, q)
  <2>1. Reaches(sc2, p[i].scope, p[q].scope, p[q].g.desc)
    BY <1>4, <1>7 DEF Hangs
  <2>2. Reaches(sc, p[i].scope, p[q].scope, p[q].g.desc)
    BY <1>4, <1>5, <1>7, <2>1 DEF Reaches, Parent
  <2> QED
    BY <1>4, <1>7, <2>2 DEF Hangs
<1> DEFINE Bad == {i \in 1..n : Chosen(sc2, p2)[i] /\ ~Chosen(sc, p)[i]}
<1>8. ASSUME Bad # {}
      PROVE  FALSE
  <2>1. PICK m \in Bad : \A i \in Bad : m <= i
    <3>1. Bad \in SUBSET Nat
      OBVIOUS
    <3> HIDE DEF Bad
    <3> QED
      BY <1>8, <3>1, LeastNumber
  <2>2. m \in 1..n /\ Chosen(sc2, p2)[m] /\ ~Chosen(sc, p)[m]
    OBVIOUS
  <2>3. PICK q : q = p[m].g.parent /\ q = p2[m].g.parent /\ q \in 0..(m - 1)
    BY <1>1, <1>3, <1>4, <2>2 DEF Below
  <2>4. /\ Sane(sc2, p2, m)
        /\ IF q = 0 THEN p2[m].g.action = "manage" /\ p2[m].g.mode = "auto"
           ELSE Hangs(sc2, p2, m, q) /\ Chosen(sc2, p2)[q]
    <3>1. Below(p2, n) /\ q = p2[m].g.parent
      BY <1>2, <1>3, <2>3
    <3>2. Chosen(sc2, p2)[m] <=>
             /\ Sane(sc2, p2, m)
             /\ IF p2[m].g.parent = 0 THEN p2[m].g.action = "manage" /\ p2[m].g.mode = "auto"
                ELSE Hangs(sc2, p2, m, p2[m].g.parent) /\ Chosen(sc2, p2)[p2[m].g.parent]
      BY <2>2, <3>1, ChosenValue
    <3> QED
      BY <2>2, <3>1, <3>2
  <2>5. ~(/\ Sane(sc, p, m)
          /\ IF q = 0 THEN p[m].g.action = "manage" /\ p[m].g.mode = "auto"
             ELSE Hangs(sc, p, m, q) /\ Chosen(sc, p)[q])
    <3>1. Below(p, n) /\ q = p[m].g.parent
      BY <1>1, <1>3, <2>3
    <3>2. Chosen(sc, p)[m] <=>
             /\ Sane(sc, p, m)
             /\ IF p[m].g.parent = 0 THEN p[m].g.action = "manage" /\ p[m].g.mode = "auto"
                ELSE Hangs(sc, p, m, p[m].g.parent) /\ Chosen(sc, p)[p[m].g.parent]
      BY <2>2, <3>1, ChosenValue
    <3> QED
      BY <2>2, <3>1, <3>2
  <2>6. Sane(sc, p, m) /\ sc[p[m].scope] = "active"
    BY <1>6, <2>2, <2>4
  <2>7. CASE q = 0
    BY <1>4, <2>2, <2>4, <2>5, <2>6, <2>7
  <2>8. CASE q # 0
    <3>1. q \in 1..n /\ ~(m <= q)
      BY <2>2, <2>3, <2>8
    <3>2. Hangs(sc, p, m, q)
      BY <1>7, <2>2, <2>4, <2>6, <2>8, <3>1
    <3>3. Chosen(sc, p)[q]
      BY <2>1, <2>4, <2>8, <3>1
    <3> QED
      BY <2>5, <2>6, <2>8, <3>2, <3>3
  <2> QED
    BY <2>7, <2>8
<1>9. k \in 1..n /\ Chosen(sc2, p2)[k]
  BY <1>0, <1>3, EffectiveIs2
<1>10. Chosen(sc, p)[k]
  BY <1>8, <1>9
<1> QED
  BY <1>3, <1>10, EffectiveIs

LEMMA CommandKeeps ==
  ASSUME PolicyInv, PolicyNext, policyVer' # policyVer
  PROVE  known' = known /\ role'.st = role.st
<1>1. ASSUME NEW actor, SaveRole(actor)
      PROVE  known' = known /\ role'.st = role.st
  <2>1. role' = [role EXCEPT !.duty = ~role.duty] /\ known' = known
    BY <1>1 DEF SaveRole
  <2> QED
    BY <2>1 DEF PolicyInv, PolicyType
<1>2. ASSUME NEW c, Starts(c) \/ Expires(c) \/ IdentityChanges(c)
      PROVE  FALSE
  BY <1>2 DEF Starts, Expires, IdentityChanges
<1>3. ASSUME NEW actor, NEW x, NEW y, NEW z, NEW u,
             \/ AssignNew(actor, x, y, z, u) \/ AssignSame(actor, x, y)
             \/ AssignReplaced(actor, x, y, z) \/ RevokeGrant(actor, x) \/ EndConnection(actor, x)
             \/ set_audience(actor, x) \/ CreateScope(actor) \/ SetGroups(actor)
             \/ SaveDuty(actor, x) \/ retire_catalog(actor, x) \/ RestoreCatalog(actor, x)
             \/ SavePosition(actor, x) \/ SaveLedger(actor, x, y)
             \/ organization_retire(actor, x) \/ organization_restore(actor, x)
      PROVE  UNCHANGED <<known, role>>
  BY <1>3 DEF AssignNew, AssignSame, AssignReplaced, RevokeGrant, EndConnection,
       set_audience, CreateScope, SetGroups, SaveDuty, retire_catalog, RestoreCatalog,
       SavePosition, SaveLedger, organization_retire, organization_restore
<1> QED
  BY <1>1, <1>2, <1>3, ZenonT(60) DEF PolicyNext

LEMMA RestoreStep ==
  ASSUME PolicyInv, PolicyInv', PolicyNext
  PROVE  RestoreGivesNothing
<1> SUFFICES ASSUME policyVer' # policyVer, conns' = conns, grants' = grants,
                    NEW i \in DOMAIN grants, effective(policy, i)'
             PROVE  i \in EffectiveNow
  BY DEF RestoreGivesNothing
<1>1. known' = known /\ role'.st = role.st
  BY CommandKeeps
<1>2. i \in 1..Len(grants)
  BY DEF PolicyInv, PolicyType
<1>3. effective(policy, i)
  BY <1>1, <1>2, NothingRestored
<1> QED
  BY <1>3 DEF EffectiveNow

-----------------------------------------------------------------------------
(***************************************************************************)
(* The composition                                                         *)
(***************************************************************************)

BackInv ==
    /\ focus = "policy" => PolicyInv
    /\ focus = "rules" => RulesInv
    /\ focus = "business" => BizInv
    /\ focus = "payments" => PayInv
    /\ focus = "reminders" => ReminderInv
    /\ focus = "images" => ImageInv
    /\ focus \in {"cells", "followups"} => TableInv
    /\ focus = "extension" => ExtensionInv
    /\ focus = "accounts" => AccountsInv
    /\ focus = "digest" => DigestInv
    /\ focus = "profiles" => ProfilesInv
    /\ focus = "report" => ReportInv
    /\ focus = "desks" => DeskInv
    /\ focus = "signals" => SignalInv
    /\ focus = "paper" => PaperInv
    /\ focus = "persons" => PersonInv

LEMMA BackInit == Init => BackInv
BY PolicyInitInv, RulesInitInv, BizInitInv, PayInitInv, ReminderInit, ImageInitInv, TableInitInv,
   ExtensionInitInv, AccountsInitInv, DigestInitInv, ProfilesInitInv, ReportInitInv,
   DeskInitInv, SignalInitInv, PaperInitInv, PersonInitInv DEF Init, BackInv

LEMMA RulesAtRest == RulesInv /\ UNCHANGED kvars => RulesInv'
BY DEF RulesInv, ItemInv, WorkInv, Fits, Waits, kvars

LEMMA BizAtRest == BizInv /\ UNCHANGED bvars => BizInv'
BY DEF BizInv, BizType, AskInv, LiveInv, Same, Live, OrderInv, LinkInv, Source, bvars

LEMMA PayAtRest == PayInv /\ UNCHANGED fvars => PayInv'
<1> SUFFICES ASSUME PayInv, UNCHANGED fvars PROVE PayInv'
  OBVIOUS
<1>1. UNCHANGED <<log, check, inbox, page, works>>
  BY DEF fvars
<1>2. LogInv' /\ CheckInv' /\ PageInv' /\ works' = [b \in Bills |-> Cardinality(CreatedFor(b)')]
  BY <1>1 DEF PayInv, LogInv, CheckInv, PageInv, CreatedFor
<1>3. Sound(inbox)'
  BY <1>1, SoundKept DEF PayInv
<1> QED
  BY <1>1, <1>2, <1>3 DEF PayInv, Took

LEMMA ReminderAtRest == ReminderInv /\ UNCHANGED fvars => ReminderInv'
BY DEF ReminderInv, fvars

LEMMA BackStep == BackInv /\ [Next]_allvars => BackInv'
<1> SUFFICES ASSUME BackInv, [Next]_allvars PROVE BackInv'
  OBVIOUS
<1>1. focus' = focus
  BY DEF Next, allvars, Policy, Rules, Business, Desks, Payments, Reminders, Images, Signals, Cells,
         Followups, Identities, Extensions, Workbench, Digests, Profiles, Reports, Papers
<1>2. CASE focus = "rules"
  <2>1. RulesNext \/ UNCHANGED kvars
    BY <1>2 DEF Next, allvars, Policy, Rules, Business, Desks, Payments, Reminders, Images, Signals, Cells,
                Followups, Identities, Extensions, Workbench, Digests, Profiles, Reports, Papers
  <2> QED
    BY <1>1, <1>2, <2>1, RulesStep, RulesAtRest DEF BackInv
<1>3. CASE focus = "business"
  <2>1. BusinessNext \/ UNCHANGED bvars
    BY <1>3 DEF Next, allvars, Policy, Rules, Business, Desks, Payments, Reminders, Images, Signals, Cells,
                Followups, Identities, Extensions, Workbench, Digests, Profiles, Reports, Papers
  <2> QED
    BY <1>1, <1>3, <2>1, BizStep, BizAtRest DEF BackInv
<1>4. CASE focus = "payments"
  <2>1. PaymentNext \/ UNCHANGED fvars
    BY <1>4 DEF Next, allvars, Policy, Rules, Business, Desks, Payments, Reminders, Images, Signals, Cells,
                Followups, Identities, Extensions, Workbench, Digests, Profiles, Reports, Papers
  <2> QED
    BY <1>1, <1>4, <2>1, PayStep, PayAtRest DEF BackInv
<1>5. CASE focus = "reminders"
  <2>1. ReminderNext \/ UNCHANGED fvars
    BY <1>5 DEF Next, allvars, Policy, Rules, Business, Desks, Payments, Reminders, Images, Signals, Cells,
                Followups, Identities, Extensions, Workbench, Digests, Profiles, Reports, Papers
  <2> QED
    BY <1>1, <1>5, <2>1, ReminderStep, ReminderAtRest DEF BackInv
<1>6. CASE focus = "policy"
  <2>1. PolicyNext \/ UNCHANGED pvars
    BY <1>6 DEF Next, allvars, Policy, Rules, Business, Desks, Payments, Reminders, Images, Signals, Cells,
                Followups, Identities, Extensions, Workbench, Digests, Profiles, Reports, Papers
  <2>2. CASE UNCHANGED pvars
    BY <1>1, <1>6, <2>2, PolicyAtRest DEF BackInv, pvars
  <2> QED
    BY <1>1, <1>6, <2>1, <2>2, PolicyStep DEF BackInv
<1>7. CASE focus = "accounts"
  <2>1. AccountsNext \/ UNCHANGED wvars
    BY <1>7 DEF Next, allvars, Policy, Rules, Business, Desks, Payments, Reminders, Images, Signals, Cells,
                Followups, Identities, Extensions, Workbench, Digests, Profiles, Reports, Papers
  <2> QED
    BY <1>1, <1>7, <2>1, AccountsStep, AccountsAtRest DEF BackInv
<1>8. CASE focus = "extension"
  <2>1. ExtensionNext \/ UNCHANGED evars
    BY <1>8 DEF Next, allvars, Policy, Rules, Business, Desks, Payments, Reminders, Images, Signals, Cells,
                Followups, Identities, Extensions, Workbench, Digests, Profiles, Reports, Papers
  <2> QED
    BY <1>1, <1>8, <2>1, ExtensionStep, ExtensionAtRest DEF BackInv
<1>9. CASE focus = "cells"
  <2>1. CellNext \/ UNCHANGED tvars
    BY <1>9 DEF Next, allvars, Policy, Rules, Business, Desks, Payments, Reminders, Images, Signals, Cells,
                Followups, Identities, Extensions, Workbench, Digests, Profiles, Reports, Papers
  <2> QED
    BY <1>1, <1>9, <2>1, CellStep, TableAtRest DEF BackInv
<1>10. CASE focus = "followups"
  <2>1. FollowupNext \/ UNCHANGED tvars
    BY <1>10 DEF Next, allvars, Policy, Rules, Business, Desks, Payments, Reminders, Images, Signals, Cells,
                Followups, Identities, Extensions, Workbench, Digests, Profiles, Reports, Papers
  <2> QED
    BY <1>1, <1>10, <2>1, FollowupStep, TableAtRest DEF BackInv
<1>11. CASE focus = "digest"
  <2>1. DigestNext \/ UNCHANGED dvars
    BY <1>11 DEF Next, allvars, Policy, Rules, Business, Desks, Payments, Reminders, Images, Signals, Cells,
                Followups, Identities, Extensions, Workbench, Digests, Profiles, Reports, Papers
  <2> QED
    BY <1>1, <1>11, <2>1, DigestStep, DigestAtRest DEF BackInv
<1>12. CASE focus = "profiles"
  <2>1. ProfileNext \/ UNCHANGED mvars
    BY <1>12 DEF Next, allvars, Policy, Rules, Business, Desks, Payments, Reminders, Images, Signals, Cells,
                Followups, Identities, Extensions, Workbench, Digests, Profiles, Reports, Papers
  <2> QED
    BY <1>1, <1>12, <2>1, ProfileStep, ProfilesAtRest DEF BackInv
<1>13. CASE focus = "report"
  <2>1. PipelineNext \/ UNCHANGED nvars
    BY <1>13 DEF Next, allvars, Policy, Rules, Business, Desks, Payments, Reminders, Images, Signals, Cells,
                Followups, Identities, Extensions, Workbench, Digests, Profiles, Reports, Papers
  <2> QED
    BY <1>1, <1>13, <2>1, ReportStep, ReportAtRest DEF BackInv
<1>14. CASE focus = "images"
  <2>1. ImageNext \/ UNCHANGED ivars
    BY <1>14 DEF Next, allvars, Policy, Rules, Business, Desks, Payments, Reminders, Images, Signals, Cells,
                Followups, Identities, Extensions, Workbench, Digests, Profiles, Reports, Papers
  <2> QED
    BY <1>1, <1>14, <2>1, ImageStep, ImageAtRest DEF BackInv
<1>15. CASE focus = "desks"
  <2>1. DeskNext \/ UNCHANGED zvars
    BY <1>15 DEF Next, allvars, Policy, Rules, Business, Desks, Payments, Reminders, Images, Signals, Cells,
                Followups, Identities, Extensions, Workbench, Digests, Profiles, Reports, Papers
  <2> QED
    BY <1>1, <1>15, <2>1, DeskStep, DeskAtRest DEF BackInv
<1>16. CASE focus = "signals"
  <2>1. SignalsNext \/ UNCHANGED svars
    BY <1>16 DEF Next, allvars, Policy, Rules, Business, Desks, Payments, Reminders, Images, Signals, Cells,
                Followups, Identities, Extensions, Workbench, Digests, Profiles, Reports, Papers
  <2> QED
    BY <1>1, <1>16, <2>1, SignalsStep, SignalsAtRest DEF BackInv
<1>17. CASE focus = "paper"
  <2>1. ReportNext \/ UNCHANGED rvars
    BY <1>17 DEF Next, allvars, Policy, Rules, Business, Desks, Payments, Reminders, Images, Signals, Cells,
                Followups, Identities, Extensions, Workbench, Digests, Profiles, Reports, Papers
  <2> QED
    BY <1>1, <1>17, <2>1, PaperStep, PaperAtRest DEF BackInv
<1>18. CASE focus = "persons"
  <2>1. PersonNext \/ UNCHANGED uvars
    BY <1>18 DEF Next, allvars, Policy, Rules, Business, Desks, Payments, Reminders, Images, Signals, Cells,
                Followups, Identities, Extensions, Workbench, Digests, Profiles, Reports, Papers
  <2> QED
    BY <1>1, <1>18, <2>1, PersonStep, PersonsAtRest DEF BackInv
<1> QED
  BY <1>1, <1>2, <1>3, <1>4, <1>5, <1>6, <1>7, <1>8, <1>9, <1>10, <1>11, <1>12, <1>13, <1>14, <1>15, <1>16, <1>17, <1>18 DEF BackInv

(* Whatever the clerks, quotes, bills and hosts and the bounds: the state  *)
(* of the part in focus satisfies its inductive invariant.                 *)
THEOREM BackInductive == Spec => []BackInv
<1>1. Init => BackInv
  BY BackInit
<1>2. BackInv /\ [Next]_allvars => BackInv'
  BY BackStep
<1> QED
  BY <1>1, <1>2, PTL DEF Spec

(* The PMS is asked for nothing that nobody confirmed and does a booking   *)
(* or a payment once; a bill leads to one work, a claim to one reminder.   *)
THEOREM AskedOnce == Spec => []OutsideOnce
<1>1. BackInv => OutsideOnce
  BY BizSafe, PaySafe DEF BackInv, OutsideOnce, ReminderInv, ReminderOnce
<1> QED
  BY <1>1, BackInductive, PTL

(* No effective grant is outside its duty or outside an envelope above it, *)
(* however far up; and what is live or scheduled under a rule was asked    *)
(* for after the last stop of the rule.                                    *)
THEOREM Authority == Spec => []AuthorityHolds
<1>1. BackInv => AuthorityHolds
  BY PolicySafe, RulesSafe DEF BackInv, AuthorityHolds
<1> QED
  BY <1>1, BackInductive, PTL

(* What is recorded is what happened: the image table shows reviews the    *)
(* image had, audit rows of the activity table are true, extension         *)
(* requests are worked on once and published as run, sessions rest on a    *)
(* password and an identity in force, a published digest is what its       *)
(* tables show, profiles rest on the facts in force of their person, a     *)
(* group gets the image that was asked for once, requests of a desk and    *)
(* signals of an activity stand for what was said, a message is linked to  *)
(* a person its sender is known as, and the daily paper is true of the day. *)
THEOREM Records == Spec => []RecordsTrue
<1>1. BackInv => RecordsTrue
  BY ImageSafe, TableSafe, ExtensionSafe, AccountsSafe, DigestSafe, ProfileSafe, ReportSafe,
     DeskSafe, SignalsSafe, PersonsSafe, PaperSafe DEF BackInv, RecordsTrue
<1> QED
  BY <1>1, BackInductive, PTL

(* A command that leaves connections and grants alone, restoring a retired *)
(* duty, scope, position or person among them, makes no grant effective.   *)
THEOREM Restored == Spec => NothingComesBack
<1>1. BackInv /\ BackInv' /\ [Next]_allvars => [focus = "policy" => RestoreGivesNothing]_pvars
  <2> SUFFICES ASSUME BackInv, BackInv', [Next]_allvars, pvars' # pvars, focus = "policy"
               PROVE  RestoreGivesNothing
    OBVIOUS
  <2>1. PolicyNext /\ focus' = focus
    BY DEF Next, allvars, Policy, Rules, Business, Desks, Payments, Reminders, Images, Signals, Cells,
           Followups, Identities, Extensions, Workbench, Digests, Profiles, Reports, Papers
  <2>2. PolicyInv /\ PolicyInv'
    BY <2>1 DEF BackInv
  <2> QED
    BY <2>1, <2>2, RestoreStep
<1> QED
  BY <1>1, BackInductive, PTL DEF Spec, NothingComesBack
=============================================================================
