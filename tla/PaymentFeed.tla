---------------------------- MODULE PaymentFeed ----------------------------
(* Payments the PMS reports, and the reminders about the work they lead to.  *)
(* The PMS appends events to a log; each reaches the service by a push, as   *)
(* often as the PMS cares to repeat it, and by the feed, page after page     *)
(* behind a checkpoint.  A reminder is observed, claimed, validated and      *)
(* settled by hosts that may die between any two of these.  Each call is one *)
(* transaction under the tenant lock.                                        *)
EXTENDS Naturals, Sequences, FiniteSets

CONSTANTS Bills,      \* bills of the PMS
          Hosts,      \* processes that read the feed and send reminders
          Idle,       \* a host without a page, a work without a claim
          MaxLog, MaxClaims, MaxFacts  \* bounds: events, claims, changes of facts

ASSUME FeedBounds == MaxLog \in Nat

VARIABLES log,      \* the PMS's events: [bill, kind, type]
          check,    \* [open, base, cursor] of the feed
          inbox,    \* index of an event |-> its receipt
          page,     \* host |-> the page it fetched: [from, to] or Idle
          works,    \* bill |-> number of works created for it
          rem,      \* reminder of a work: [phase, claim, sig]
          seen,     \* host |-> the facts it observed
          truth,    \* [facts, due] of each work as the policy and the PMS have it now
          merged,   \* the source work was linked to the canonical one
          sends     \* history: sends as [work, claim, clear]

fvars == <<log, check, inbox, page, works, rem, seen, truth, merged, sends>>

Matters == {"source", "canonical"}
NoReceipt == [st |-> "none", work |-> FALSE, base |-> FALSE]
NoReminder == [phase |-> "none", claim |-> 0, sig |-> 0]

FeedInit ==
    /\ log = <<>> /\ check = [open |-> FALSE, base |-> 0, cursor |-> 0]
    /\ inbox = [i \in 1..MaxLog |-> NoReceipt] /\ page = [h \in Hosts |-> Idle]
    /\ works = [b \in Bills |-> 0]
    /\ rem = [w \in Matters |-> NoReminder]
    /\ seen = [h \in Hosts |-> Idle]
    /\ truth = [w \in Matters |-> [facts |-> 1, due |-> TRUE]]
    /\ merged = FALSE /\ sends = {}

rest == <<rem, seen, truth, merged, sends>>
feed == <<log, check, inbox, page, works>>

-----------------------------------------------------------------------------
(* The feed.                                                                 *)

\* The receipts after event i was taken in, with those of box before it: a
\* work is created for a collection found after the baseline, not matched yet.
Receipt(box, i) ==
    LET e == log[i]
        earlier == {j \in DOMAIN box : box[j].st # "none" /\ log[j].bill = e.bill}
        historical == i <= check.base
        known == \E j \in earlier : box[j].work
        matched == \E j \in earlier : log[j].type = "MATCHED"
        creates == ~known /\ ~historical /\ ~matched
                      /\ e.kind = "COLLECTION" /\ e.type = "DISCOVERED"
    IN [st |-> IF creates THEN "created" ELSE "seen", work |-> known \/ creates, base |-> historical]

accept_in(box, i) == IF box[i].st # "none" THEN box ELSE [box EXCEPT ![i] = Receipt(box, i)]

\* What the events from..to leave behind, taken in one after the other.
accepted(from, to) ==
    LET after[n \in from..to] == IF n = from THEN inbox ELSE accept_in(after[n - 1], n) IN after[to]

Take(box) ==
    /\ inbox' = box
    /\ works' = [b \in Bills |-> Cardinality({i \in 1..Len(log) : box[i].st = "created" /\ log[i].bill = b})]

\* The first head decides the baseline; another head later is refused.
business_feed_open(head) ==
    /\ ~check.open /\ head \in 0..Len(log)
    /\ check' = [open |-> TRUE, base |-> head, cursor |-> head]
    /\ UNCHANGED <<log, inbox, page, works, rest>>

business_accept_payment(i) ==
    /\ check.open /\ i \in 1..Len(log) /\ Take(accept_in(inbox, i))
    /\ UNCHANGED <<log, check, page, rest>>

\* A host reads the checkpoint, then a page of the PMS.
FetchPage(h, to) ==
    /\ check.open /\ page[h] = Idle /\ to \in check.cursor..Len(log)
    /\ page' = [page EXCEPT ![h] = [from |-> check.cursor, to |-> to]]
    /\ UNCHANGED <<log, check, inbox, works, rest>>

business_feed_page(h) ==
    /\ page[h] # Idle /\ page' = [page EXCEPT ![h] = Idle]
    /\ IF page[h].from # check.cursor THEN UNCHANGED <<check, inbox, works>>
       ELSE /\ Take(accepted(page[h].from, page[h].to))
            /\ check' = [check EXCEPT !.cursor = page[h].to]
    /\ UNCHANGED <<log, rest>>

PmsReports(b, kind, type) ==
    /\ Len(log) < MaxLog
    /\ \A i \in 1..Len(log) : log[i].bill = b => log[i].type # type /\ log[i].kind = kind
    /\ log' = Append(log, [bill |-> b, kind |-> kind, type |-> type])
    /\ UNCHANGED <<check, inbox, page, works, rest>>

-----------------------------------------------------------------------------
(* Reminders.                                                                *)

Active(r) == r.phase \in {"claimed", "unknown"}

\* Due by the rule, the audience and the facts the host observed; a merged
\* source has nothing pending and the canonical work waits for its reminder.
reminder_plan_in(w, facts) ==
    [sig |-> facts,
     due |-> /\ truth[w].due
             /\ w = "source" => ~merged
             /\ w = "canonical" /\ merged => ~Active(rem["source"])]

Observe(h, w) ==
    /\ seen' = [seen EXCEPT ![h] = [work |-> w, facts |-> truth[w].facts, claim |-> 0]]
    /\ UNCHANGED <<feed, rem, truth, merged, sends>>

\* The observation is stored as the plan, unless a claim is under way.
reminder_observe(h) ==
    /\ seen[h] # Idle /\ ~Active(rem[seen[h].work])
    /\ rem' = [rem EXCEPT ![seen[h].work].sig = reminder_plan_in(seen[h].work, seen[h].facts).sig]
    /\ UNCHANGED <<feed, seen, truth, merged, sends>>

\* A host that finds a claim under way is told of it and holds it too.
reminder_claim(h) ==
    LET w == seen[h].work  r == rem[w]  plan == reminder_plan_in(w, seen[h].facts) IN
    /\ seen[h] # Idle
    /\ IF Active(r) THEN seen' = [seen EXCEPT ![h].claim = r.claim] /\ UNCHANGED rem
       ELSE /\ plan.due /\ r.sig = plan.sig /\ r.claim < MaxClaims
            /\ rem' = [rem EXCEPT ![w].phase = "claimed", ![w].claim = r.claim + 1]
            /\ seen' = [seen EXCEPT ![h].claim = r.claim + 1]
    /\ UNCHANGED <<feed, truth, merged, sends>>

\* The last look before the send: unknown is committed first.
reminder_validate(h) ==
    LET w == seen[h].work  r == rem[w]  plan == reminder_plan_in(w, seen[h].facts) IN
    /\ seen[h] # Idle /\ r.phase = "claimed" /\ r.claim = seen[h].claim
    /\ IF plan.due /\ r.sig = plan.sig
       THEN /\ rem' = [rem EXCEPT ![w].phase = "unknown"]
            /\ \/ sends' = sends \cup {[work |-> w, claim |-> r.claim,
                                        clear |-> ~(merged /\ Active(rem["source"]) /\ w = "canonical")]}
               \/ UNCHANGED sends
       ELSE rem' = [rem EXCEPT ![w].phase = "suppressed"] /\ UNCHANGED sends
    /\ UNCHANGED <<feed, seen, truth, merged>>

\* The receipt of the channel, or the same one again.
reminder_settle(h) ==
    LET w == seen[h].work  r == rem[w] IN
    /\ seen[h] # Idle /\ r.claim = seen[h].claim /\ r.phase \in {"unknown", "sent"}
    /\ \E s \in sends : s.work = w /\ s.claim = r.claim
    /\ rem' = [rem EXCEPT ![w].phase = "sent"]
    /\ UNCHANGED <<feed, seen, truth, merged, sends>>

HostDies(h) ==
    /\ seen' = [seen EXCEPT ![h] = Idle] /\ page' = [page EXCEPT ![h] = Idle]
    /\ UNCHANGED <<log, check, inbox, works, rem, truth, merged, sends>>

\* Orders, applications, rules and snoozes change what a reminder would say.
FactsChange(w, due) ==
    /\ truth[w].facts < MaxFacts /\ \A v \in Matters \ {w} : truth[v].facts = 1  \* bound: of one work
    /\ truth' = [truth EXCEPT ![w] = [facts |-> @.facts + 1, due |-> due]]
    /\ UNCHANGED <<feed, rem, seen, merged, sends>>

Merge == ~merged /\ merged' = TRUE /\ UNCHANGED <<feed, rem, seen, truth, sends>>

PaymentNext ==
    \/ \E b \in Bills, k \in {"COLLECTION", "REFUND"}, t \in {"DISCOVERED", "MATCHED"} : PmsReports(b, k, t)
    \/ \E n \in 0..MaxLog : business_feed_open(n)
    \/ \E i \in 1..MaxLog : business_accept_payment(i)
    \/ \E h \in Hosts : business_feed_page(h) \/ \E n \in 0..MaxLog : FetchPage(h, n)
    \/ \E h \in Hosts : HostDies(h)

ReminderNext ==
    \/ \E h \in Hosts : \/ reminder_observe(h) \/ reminder_claim(h) \/ reminder_validate(h)
                        \/ reminder_settle(h) \/ HostDies(h)
                        \/ \E w \in Matters : Observe(h, w)
    \/ \E w \in Matters, due \in BOOLEAN : FactsChange(w, due)
    \/ Merge

-----------------------------------------------------------------------------
\* Every bill leads to one work at most, and the checkpoint never passes a
\* collection found after the baseline without its work, unless the PMS had
\* matched it; a bill of the baseline leads to none.
PaymentOnce ==
    /\ \A b \in Bills : works[b] <= 1
    /\ \A i \in 1..Len(log) :
          (/\ log[i].type = "DISCOVERED" /\ log[i].kind = "COLLECTION"
           /\ check.open /\ i > check.base /\ i <= check.cursor)
              => \/ works[log[i].bill] = 1
                 \/ \E j \in 1..Len(log) : /\ log[j].bill = log[i].bill /\ log[j].type = "MATCHED"
                                           /\ inbox[j].st # "none"
    /\ \A i \in 1..Len(log) : /\ log[i].type = "DISCOVERED" /\ check.open /\ i <= check.base
                              => works[log[i].bill] = 0

\* One send per claim at most, and none for a canonical work while a send for
\* the source merged into it is in doubt.
ReminderOnce ==
    /\ \A s \in sends : s.clear
    /\ \A s \in sends : rem[s.work].claim = s.claim => rem[s.work].phase \in {"unknown", "sent"}
=============================================================================
