--------------------------- MODULE RuleLifecycle ---------------------------
(* The rules of a scope: versions of one knowledge item, edits that apply at *)
(* once or wait for the designated reviewer, and the work items that carry   *)
(* the waiting ones.  What the policy answers about the requester and the    *)
(* reviewer is two records: the current grant, and whether it authorizes.  A *)
(* grant that is changed is a new grant, and an identity linked anew counts  *)
(* as one: both fail the proof kept with a waiting edit.  Every operation is *)
(* a transaction under the tenant lock; approving and executing are two.     *)
EXTENDS Naturals, FiniteSets

CONSTANTS MaxWork, MaxRuleVer, MaxGrantId  \* bounds: work items, item versions, grants

VARIABLES auth,   \* "q" and "v" |-> [status, grant] of requester and reviewer
          item,   \* the knowledge item: [ver, stopped, managed]
          revs,   \* its revisions, by version
          work,   \* work items of queued edits
          stops   \* history: how often the item was stopped

kvars == <<auth, item, revs, work, stops>>

NoRev == [st |-> "none", grant |-> 0, issued |-> 0]
Withdrawn == [NoRev EXCEPT !.st = "withdrawn"]
NoWork == [st |-> "none", edit |-> "none", expect |-> 0, rev |-> 0, grant |-> 0,
           proof |-> 0, issued |-> 0]

\* A work item that is over: nothing reads the rest of it again.
Over(st) == [NoWork EXCEPT !.st = st]

RulesInit ==
    /\ auth = [q |-> [status |-> "confirm", grant |-> 1],
               v |-> [status |-> "auto", grant |-> 1]]
    /\ item = [ver |-> 1, stopped |-> FALSE, managed |-> FALSE]
    /\ revs = [n \in 1..MaxRuleVer |-> IF n = 1 THEN [NoRev EXCEPT !.st = "live", !.grant = 1]
                                       ELSE NoRev]
    /\ work = [w \in 1..MaxWork |-> NoWork]
    /\ stops = 0

\* The answer for the requester: a reviewer who may not decide leaves it denied.
authorize_current ==
    IF auth.q.status = "confirm" /\ auth.v.status # "auto" THEN "denied" ELSE auth.q.status

-----------------------------------------------------------------------------
(* Edits: "save" goes through the lifecycle, "plain" is a direct knowledge   *)
(* write, "stop" stops the item, "cancel" withdraws a scheduled revision.    *)

Edits == {"save", "reactivate", "replace", "stop", "cancel", "plain"}

validate_edit(edit, expect, rev) ==
    /\ item.ver = expect
    /\ edit \in {"plain", "save", "replace", "stop"} => ~item.stopped
    /\ edit \in {"cancel", "replace"} => rev \in 1..MaxRuleVer /\ revs[rev].st = "scheduled"

\* The item and its revisions after the edit.
apply_rule_command(edit, rev, grant, issued) ==
    LET n == item.ver + 1
        new == [st |-> IF edit = "replace" THEN "scheduled" ELSE "live",
                grant |-> grant, issued |-> issued]
        withdrawn == {r \in 1..MaxRuleVer :
                        revs[r].st \in {"live", "scheduled"} /\ (edit = "stop" \/ r = rev)} IN
    /\ item.ver < MaxRuleVer
    /\ item' = [ver |-> n, stopped |-> edit = "stop" \/ (item.stopped /\ edit = "cancel"),
                managed |-> item.managed \/ edit # "plain"]
    /\ revs' = [r \in 1..MaxRuleVer |->
                   IF r = n /\ edit \notin {"stop", "cancel"} THEN new
                   ELSE IF r \in withdrawn THEN Withdrawn
                   ELSE revs[r]]
    /\ stops' = IF edit = "stop" THEN stops + 1 ELSE stops

\* put_authorized_knowledge for a direct write; the schedule is the caller's.
put_authorized_knowledge(grant, issued, scheduled) ==
    LET n == item.ver + 1 IN
    /\ ~item.stopped /\ item.ver < MaxRuleVer
    /\ item' = [item EXCEPT !.ver = n]
    /\ revs' = [revs EXCEPT ![n] = [st |-> IF scheduled THEN "scheduled" ELSE "live",
                                    grant |-> grant, issued |-> issued]]
    /\ stops' = stops

Apply(edit, rev, grant, issued) ==
    IF edit = "plain"
    THEN \E scheduled \in BOOLEAN : put_authorized_knowledge(grant, issued, scheduled)
    ELSE apply_rule_command(edit, rev, grant, issued)

queue_work(edit, expect, rev, st) ==
    \E w \in 1..MaxWork :
        /\ work[w].st = "none" /\ \A u \in 1..(w - 1) : work[u].st # "none"
        /\ work' = [work EXCEPT ![w] = [NoWork EXCEPT !.st = st, !.edit = edit, !.expect = expect,
                        !.rev = rev, !.grant = auth.q.grant, !.issued = stops]]

\* A lifecycle command of the requester, composed for the version it was
\* shown: validated now, then applied or queued.
rule_command(edit, rev) ==
    /\ edit # "plain" /\ validate_edit(edit, item.ver, rev)
    /\ \/ /\ authorize_current = "auto"
          /\ Apply(edit, rev, auth.q.grant, stops) /\ UNCHANGED work
       \/ /\ authorize_current = "confirm"
          /\ queue_work(edit, item.ver, rev, "awaiting_review") /\ UNCHANGED <<item, revs, stops>>
    /\ UNCHANGED auth

\* A direct write; one that waits is validated only when it runs.
knowledge_save(defer) ==
    /\ authorize_current # "denied"
    /\ IF authorize_current = "confirm" \/ defer
       THEN /\ queue_work("plain", item.ver, 0, IF authorize_current = "confirm" THEN "awaiting_review" ELSE "queued")
            /\ UNCHANGED <<item, revs, stops>>
       ELSE Apply("plain", 0, auth.q.grant, stops) /\ UNCHANGED work
    /\ UNCHANGED auth

knowledge_withdraw(rev) ==
    /\ authorize_current = "auto" /\ ~item.managed /\ item.ver < MaxRuleVer
    /\ revs[rev].st \in {"live", "scheduled"}
    /\ revs' = [revs EXCEPT ![rev] = Withdrawn]
    /\ item' = [item EXCEPT !.ver = @ + 1]
    /\ UNCHANGED <<auth, work, stops>>

dispatch_context ==
    /\ auth.q.status = "auto" /\ queue_work("context", 0, 0, "queued")
    /\ UNCHANGED <<auth, item, revs, stops>>

\* The work shown to the reviewer, and to nobody else.
rule_tasks(w) ==
    /\ authorize_current = "confirm" /\ auth.q.grant = work[w].grant /\ auth.v.status = "auto"

foundation_approve_rule(w) ==
    /\ work[w].st = "awaiting_review" /\ rule_tasks(w)
    /\ work' = [work EXCEPT ![w].st = "queued", ![w].proof = auth.v.grant]
    /\ UNCHANGED <<auth, item, revs, stops>>

rule_work_decide(w, reject) ==
    /\ IF reject THEN work[w].st = "awaiting_review" /\ rule_tasks(w)
       ELSE work[w].st \in {"awaiting_review", "queued"}
    /\ work' = [work EXCEPT ![w] = Over("cancelled")]
    /\ UNCHANGED <<auth, item, revs, stops>>

\* Everything an execution checks again: both identities, both grants.
StillAuthorized(w) ==
    /\ authorize_current # "denied" /\ auth.q.grant = work[w].grant
    /\ authorize_current = "confirm" => work[w].proof = auth.v.grant

\* The edit is applied, or the savepoint rolled back and the work failed.
foundation_execute_work(w) ==
    /\ work[w].st = "queued" /\ work[w].edit # "context"
    /\ \/ /\ StillAuthorized(w) /\ validate_edit(work[w].edit, work[w].expect, work[w].rev)
          /\ Apply(work[w].edit, work[w].rev, work[w].grant, work[w].issued)
          /\ work' = [work EXCEPT ![w] = Over("completed")]
       \/ /\ ~(StillAuthorized(w) /\ validate_edit(work[w].edit, work[w].expect, work[w].rev))
          /\ work' = [work EXCEPT ![w] = Over("failed")] /\ UNCHANGED <<item, revs, stops>>
    /\ UNCHANGED auth

\* A context request stays queued, unchanged, while its executor is away.
execute_context(w) ==
    /\ work[w].st = "queued" /\ work[w].edit = "context"
    /\ LET ok == auth.q.status = "auto" /\ auth.q.grant = work[w].grant IN
       work' = [work EXCEPT ![w] = Over(IF ok THEN "completed" ELSE "failed")]
    /\ UNCHANGED <<auth, item, revs, stops>>

-----------------------------------------------------------------------------
(* The environment.                                                          *)

\* An authorization is replaced, or lapses and comes back as it was.
Reassigned(x, st) ==
    /\ auth[x].grant < MaxGrantId
    /\ auth' = [auth EXCEPT ![x].status = st, ![x].grant = @ + 1]
    /\ UNCHANGED <<item, revs, work, stops>>
ScheduleDue(r) ==
    /\ revs[r].st = "scheduled" /\ revs' = [revs EXCEPT ![r].st = "live"]
    /\ UNCHANGED <<auth, item, work, stops>>

RulesNext ==
    \/ \E edit \in Edits, rev \in 0..MaxRuleVer : rule_command(edit, rev)
    \/ \E defer \in BOOLEAN : knowledge_save(defer)
    \/ \E r \in 1..MaxRuleVer : knowledge_withdraw(r) \/ ScheduleDue(r)
    \/ dispatch_context
    \/ \E w \in 1..MaxWork : \/ foundation_approve_rule(w) \/ foundation_execute_work(w)
                             \/ execute_context(w)
                             \/ \E reject \in BOOLEAN : rule_work_decide(w, reject)
    \/ \E st \in {"auto", "confirm", "denied"} : Reassigned("q", st)
    \/ \E st \in {"auto", "denied"} : Reassigned("v", st)

-----------------------------------------------------------------------------
\* The version an agent reads: the newest one due and not withdrawn, and only
\* while its author still holds the grant it was written under.
effective_knowledge == {r \in 1..MaxRuleVer : /\ revs[r].st = "live"
                                              /\ \A n \in (r + 1)..MaxRuleVer : revs[n].st # "live"}
knowledge_context == {r \in effective_knowledge : /\ authorize_current # "denied"
                                                  /\ revs[r].grant = auth.q.grant}

\* A stopped rule stays stopped until someone edits it who knew: no live or
\* scheduled revision was asked for before a stop that came before it, whatever
\* waited for a review, a schedule or an executor meanwhile.
StopIsFinal ==
    /\ item.stopped => \A r \in 1..MaxRuleVer : revs[r].st \notin {"live", "scheduled"}
    /\ \A r \in 1..MaxRuleVer : revs[r].st \in {"live", "scheduled"} => revs[r].issued = stops
=============================================================================
