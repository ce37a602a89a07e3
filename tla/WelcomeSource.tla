--------------------------- MODULE WelcomeSource ---------------------------
(* How the resident-welcome service follows the property management system   *)
(* (resident_welcome/: ingress, client, store, recovery, state): events are  *)
(* pushed or pulled into an inbox, each one makes a worker read the order or *)
(* the member back, and a baseline scan rebuilds what an expired feed cursor *)
(* has lost.  One order, the one member it refers to, any number of events.  *)
(*                                                                           *)
(* An event is its position in the feed.  A projection is the pair of        *)
(* revisions it was read at (its version vector) and the variant of its      *)
(* content: variant 1 stands for a readback whose hash disagrees with what   *)
(* the same vector had before.                                               *)
EXTENDS Naturals, Sequences, FiniteSets

CONSTANTS WWorkers,     \* consumers of the inbox
          MaxChanges,   \* bound: revisions PMS publishes after the first
          MaxClaims,    \* bound: claims of one inbox entry
          MaxReads,     \* the attempts after which an entry is quarantined (8)
          PageSize,     \* events in one feed page (100)
          Variants,     \* {0}, or {0, 1} when a readback may contradict itself
          Nil           \* no value

\* The absent projection is told apart from every projection (Option in the code).
ASSUME SourceAssumption ==
    /\ MaxChanges \in Nat /\ PageSize \in Nat
    /\ Nil \notin [o : Nat, m : Nat, h : Variants \cup {0}]

VARIABLES pms,    \* PMS: its feed, and the current revisions of order and member
          inbox,  \* welcome_inbox and the work item of each entry
          wk,     \* what each consumer holds: its claim and the projection it read
          pull,   \* the page the pull in progress was answered
          src,    \* welcome_sources: cursor, rebuild_head, rebuilding
          scan,   \* welcome_rebuilds and its one scan item
          ver     \* welcome_source_versions: the order's row and the member's

svars == <<pms, inbox, wk, pull, src, scan, ver>>

Idle == [ev |-> 0, fence |-> 0, got |-> Nil]

\* What a projection of the order shows when it is read now.
order(h) == [o |-> pms.order, m |-> pms.member, h |-> h]

SourceInit ==
    /\ pms = [feed |-> <<[agg |-> "order", rev |-> 1]>>, order |-> 1, member |-> 1]
    /\ inbox = [e \in 1..(MaxChanges + 1) |->
                   [st |-> "none", fence |-> 0]]
    /\ wk = [w \in WWorkers |-> Idle]
    /\ pull = Nil
    /\ src = [cursor |-> 0, head |-> Nil, rebuilding |-> FALSE]
    /\ scan = [open |-> FALSE, head |-> 0, complete |-> FALSE, item |-> Nil]
    /\ ver = [known |-> FALSE, o |-> 0, m |-> 0, h |-> 0, inv |-> FALSE, conf |-> FALSE,
              ent |-> 0, enth |-> 0, entconf |-> FALSE]

----------------------------------------------------------------------------
(* PMS publishes a new revision of the order or of the member.               *)
PmsChange(agg) ==
    /\ Len(pms.feed) <= MaxChanges
    /\ pms' = [pms EXCEPT ![agg] = @ + 1,
                          !.feed = Append(@, [agg |-> agg, rev |-> pms[agg] + 1])]
    /\ UNCHANGED <<inbox, wk, pull, src, scan, ver>>

\* accept_tx: a first delivery is queued with its work item, a repeated one is
\* acknowledged as a duplicate and changes nothing.
accept_tx(E) == [e \in DOMAIN inbox |->
    IF e \in E /\ inbox[e].st = "none" THEN [inbox[e] EXCEPT !.st = "queued"] ELSE inbox[e]]

(* ingress::receive: a signed push of any published event, any number of     *)
(* times.                                                                    *)
receive(e) ==
    /\ e \in 1..Len(pms.feed)
    /\ inbox' = accept_tx({e})
    /\ UNCHANGED <<pms, wk, pull, src, scan, ver>>

(* pull_once, first half: the cursor is read and a page is requested.        *)
PullPage ==
    /\ pull = Nil
    /\ \E n \in 0..PageSize :
          /\ src.cursor + n <= Len(pms.feed)
          /\ pull' = [at |-> src.cursor, upto |-> src.cursor + n]
    /\ UNCHANGED <<pms, inbox, wk, src, scan, ver>>

(* accept_page: the page is stored only if the cursor is still the one it    *)
(* was requested at (compare-and-swap); otherwise nothing of it is kept.     *)
accept_page ==
    /\ pull # Nil
    /\ pull' = Nil
    /\ IF src.cursor = pull.at
       THEN /\ inbox' = accept_tx((pull.at + 1)..pull.upto)
            /\ src' = [src EXCEPT !.cursor = pull.upto]
       ELSE UNCHANGED <<inbox, src>>
    /\ UNCHANGED <<pms, wk, scan, ver>>

(* commit_feed on an expired, forbidden or invalid cursor: the source stops  *)
(* admitting and waits for a rebuild.                                        *)
require_rebuild ==
    /\ ~src.rebuilding
    /\ src' = [src EXCEPT !.rebuilding = TRUE, !.head = Nil]
    /\ UNCHANGED <<pms, inbox, wk, pull, scan, ver>>

----------------------------------------------------------------------------
(* The baseline scan.                                                        *)

(* start_rebuild: the head of the feed is captured before the first page of  *)
(* the scan is read.  (First call of scan_once, or the operator's Rebuild.)  *)
start_rebuild ==
    /\ ~scan.open \/ (scan.complete /\ src.head = Nil /\ src.rebuilding)
    /\ src' = [src EXCEPT !.rebuilding = TRUE, !.head = Len(pms.feed)]
    /\ scan' = [open |-> TRUE, head |-> Len(pms.feed), complete |-> FALSE, item |-> Nil]
    /\ UNCHANGED <<pms, inbox, wk, pull, ver>>

(* commit_scan: the page's projections become scan items of this generation. *)
commit_scan ==
    /\ scan.open /\ ~scan.complete
    /\ scan' = [scan EXCEPT !.complete = TRUE, !.item = order(0)]
    /\ UNCHANGED <<pms, inbox, wk, pull, src, ver>>

\* Mutant: the pending scan item is not waited for.
ScanDoneMutant == scan.complete

(* finish_scan: nothing pending, and the captured head becomes the cursor    *)
(* once; a repeated finish must not rewind what was pulled since.            *)
ScanDone == scan.complete /\ scan.item = Nil

finish_scan ==
    /\ scan.open /\ ScanDone
    /\ src.head = scan.head
    /\ src' = [src EXCEPT !.cursor = scan.head, !.head = Nil]
    /\ UNCHANGED <<pms, inbox, wk, pull, scan, ver>>

----------------------------------------------------------------------------
(* The stored projection.                                                    *)

\* A snapshot is stale when any revision of its vector is behind the stored one.
stale(p) == ver.known /\ (p.o < ver.o \/ p.m < ver.m)

\* The same vector with other content, or one already in conflict.
contradicts(p) == /\ ver.known /\ ~stale(p) /\ p.o = ver.o /\ p.m = ver.m
                  /\ (p.h # ver.h \/ ver.conf)

\* The member's own row is ahead of the snapshot, or needs correction.
related_behind(p) == ver.ent > p.m \/ ver.entconf

\* apply_snapshot, as far as the stored version goes: the outcome and the row.
apply_snapshot(p) ==
    IF contradicts(p) THEN [out |-> "conflict", row |-> [ver EXCEPT !.inv = TRUE, !.conf = TRUE]]
    ELSE IF stale(p) THEN [out |-> "stale", row |-> ver]
    ELSE IF related_behind(p) THEN [out |-> "behind", row |-> ver]
    ELSE [out |-> "stored",
          row |-> [ver EXCEPT !.known = TRUE, !.o = p.o, !.m = p.m, !.h = p.h,
                              !.inv = FALSE, !.conf = FALSE]]

(* drain_scan_one: the item is applied and marked; an item the version store *)
(* refuses stays pending and fails the tick.                                 *)
drain_scan_one ==
    /\ scan.item # Nil
    /\ LET a == apply_snapshot(scan.item) IN
          /\ ver' = a.row
          /\ scan' = IF a.out \in {"stored", "stale"} THEN [scan EXCEPT !.item = Nil] ELSE scan
    /\ UNCHANGED <<pms, inbox, wk, pull, src>>

(* refresh_orders: the periodic readback of an order that is already known.  *)
refresh_orders(h) ==
    /\ ver.known
    /\ ver' = apply_snapshot(order(h)).row
    /\ UNCHANGED <<pms, inbox, wk, pull, src, scan>>

----------------------------------------------------------------------------
(* Consumers of the inbox.                                                   *)

\* The projection an event asks for, read now with content h.
ReadBack(e, h) == IF pms.feed[e].agg = "order" THEN order(h)
                  ELSE [o |-> 0, m |-> pms.member, h |-> h]

(* claim and the readback of consume_one: an entry that is queued, or one in *)
(* processing whose sixty-second lease has run out, which may be at any      *)
(* time.  The fence goes up with every claim, and with it the attempts of    *)
(* the work item.  The projection is then read outside any transaction; h is *)
(* Nil when that read fails.                                                 *)
claim(w, e, h) ==
    /\ wk[w] = Idle
    /\ inbox[e].st \in {"queued", "processing"}
    /\ inbox[e].fence < MaxClaims
    /\ inbox' = [inbox EXCEPT ![e] = [st |-> "processing", fence |-> @.fence + 1]]
    /\ wk' = [wk EXCEPT ![w] = [ev |-> e, fence |-> inbox[e].fence + 1,
                                got |-> IF h = Nil THEN Nil ELSE ReadBack(e, h)]]
    /\ UNCHANGED <<pms, pull, src, scan, ver>>

(* A consumer dies, or its commit is refused because its lease has run out;  *)
(* either way the claim is left to the next consumer.                        *)
ConsumerDies(w) ==
    /\ wk[w] # Idle
    /\ wk' = [wk EXCEPT ![w] = Idle]
    /\ UNCHANGED <<pms, inbox, pull, src, scan, ver>>

\* fence_tx: the entry is still in processing under this worker's fence.
fence_tx(w) == inbox[wk[w].ev] = [st |-> "processing", fence |-> wk[w].fence]

\* complete_tx and retry_inbox
Closed(e, quarantine) ==
    [inbox EXCEPT ![e].st = IF quarantine THEN "quarantined" ELSE "completed"]
Requeued(e) == IF inbox[e].fence >= MaxReads THEN Closed(e, TRUE)
               ELSE [inbox EXCEPT ![e].st = "queued"]

(* consume_snapshot: under the fence the projection is applied and the entry *)
(* closed in one transaction; a snapshot behind its event, or one the        *)
(* version store refuses, is retried, and a contradiction is quarantined.    *)
consume_snapshot(w) ==
    LET e == wk[w].ev
        p == wk[w].got
        a == apply_snapshot(p) IN
    /\ e # 0 /\ p # Nil /\ pms.feed[e].agg = "order"
    /\ wk' = [wk EXCEPT ![w] = Idle]
    /\ IF ~fence_tx(w) THEN UNCHANGED <<inbox, ver>>
       ELSE IF p.o < pms.feed[e].rev \/ a.out = "behind"
       THEN inbox' = Requeued(e) /\ UNCHANGED ver
       ELSE inbox' = Closed(e, a.out = "conflict") /\ ver' = a.row
    /\ UNCHANGED <<pms, pull, src, scan>>

(* consume_entity: a newer member revision invalidates every order that      *)
(* refers to it; the same revision with other content is a conflict.         *)
consume_entity(w) ==
    LET e == wk[w].ev
        p == wk[w].got
        conflict == p.m = ver.ent /\ p.h # ver.enth IN
    /\ e # 0 /\ p # Nil /\ pms.feed[e].agg = "member"
    /\ wk' = [wk EXCEPT ![w] = Idle]
    /\ IF ~fence_tx(w) THEN UNCHANGED <<inbox, ver>>
       ELSE IF p.m < pms.feed[e].rev THEN inbox' = Requeued(e) /\ UNCHANGED ver
       ELSE IF p.m <= ver.ent
       THEN /\ inbox' = Closed(e, conflict)
            /\ ver' = IF conflict THEN [ver EXCEPT !.entconf = TRUE, !.inv = ver.known] ELSE ver
       ELSE /\ inbox' = Closed(e, FALSE)
            /\ ver' = [ver EXCEPT !.ent = p.m, !.enth = p.h, !.entconf = FALSE, !.inv = ver.known]
    /\ UNCHANGED <<pms, pull, src, scan>>

(* consume_one when the readback failed: the claim is retried if it is still *)
(* the worker's.                                                             *)
ReadFails(w) ==
    /\ wk[w].ev # 0 /\ wk[w].got = Nil
    /\ wk' = [wk EXCEPT ![w] = Idle]
    /\ inbox' = IF fence_tx(w) THEN Requeued(wk[w].ev) ELSE inbox
    /\ UNCHANGED <<pms, pull, src, scan, ver>>

SourceNext ==
    \/ \E agg \in {"order", "member"} : PmsChange(agg)
    \/ \E e \in DOMAIN inbox : receive(e)
    \/ PullPage \/ accept_page \/ require_rebuild
    \/ start_rebuild \/ commit_scan \/ drain_scan_one \/ finish_scan
    \/ \E h \in Variants : refresh_orders(h)
    \/ \E w \in WWorkers :
          \/ \E e \in DOMAIN inbox, h \in Variants \cup {Nil} : claim(w, e, h)
          \/ consume_snapshot(w) \/ consume_entity(w) \/ ReadFails(w) \/ ConsumerDies(w)

----------------------------------------------------------------------------
\* The stored projection is at least as new as an event says.
Covered(e) == LET f == pms.feed[e] IN
    IF f.agg = "order" THEN ver.o >= f.rev ELSE ver.m >= f.rev \/ ver.ent >= f.rev

(* Whatever the cursor has passed is either in the inbox or was covered by   *)
(* the baseline scan, and an entry that was closed as completed left a       *)
(* stored projection at least as new as its event: no order of push, pull,   *)
(* expired cursor, rebuild, lease takeover and late commit loses a change    *)
(* (store.rs accept_page and fence_tx, recovery.rs finish_scan).             *)
NoEventLost ==
    /\ \A e \in 1..Len(pms.feed) :
          /\ e <= src.cursor => inbox[e].st # "none" \/ Covered(e)
          /\ inbox[e].st = "completed" => Covered(e)
    /\ src.cursor <= Len(pms.feed)
=============================================================================
