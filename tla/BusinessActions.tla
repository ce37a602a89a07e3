-------------------------- MODULE BusinessActions --------------------------
(* Operations of the property management system (PMS) that Anan carries out  *)
(* for staff: booked orders and recorded collections.  An action is started, *)
(* previewed, confirmed, executed, reconciled; it may be paused, cancelled   *)
(* or handed to a human, who does the work in the PMS itself.  Every tool    *)
(* call is one transaction under the tenant lock; between two calls the      *)
(* caller may die, so an answer of the PMS can stay unknown.  All actions    *)
(* are of one chat.  An update of an action outdates the confirmations said  *)
(* before it: they are dropped from heard.                                   *)
EXTENDS Naturals, FiniteSets

CONSTANTS Clerks,        \* persons who may hold the operations
          NoClerk,       \* no person
          Quotes,        \* quotes a booking can be made from
          MaxBiz,        \* bound: actions
          MaxVer         \* bound: versions of a plan and of a grant

ASSUME BusinessBounds == MaxBiz \in Nat

VARIABLES biz,      \* the actions
          pms,      \* action |-> what the PMS was asked under its execution key
          orders,   \* orders that exist in the PMS: [id, quote]
          facts,    \* collections in the PMS: [ref, by]
          heard,    \* confirmations said since the action was last updated
          oper,     \* person |-> operation grant: [id, from, of, live]
          ident,    \* person |-> version of the identity
          binding,  \* [active, ver] of the property binding
          link      \* the work an application was linked to: [work, order], 0 if none

bvars == <<biz, pms, orders, facts, heard, oper, ident, binding, link>>

Ids == 1..MaxBiz
Source == MaxBiz + 1             \* the work of the application
Human == 0                       \* the order a human made
OldOrder == MaxBiz + 1           \* an order made before
NoBiz == [st |-> "none", op |-> "none", work |-> 0, key |-> "none", by |-> NoClerk, ver |-> 0,
          auth |-> 0, id |-> 0, bver |-> 0, cover |-> FALSE,
          base |-> {}, order |-> {}, offer |-> {}, gone |-> FALSE]
NotAsked == [st |-> "no", ok |-> TRUE]

BusinessInit ==
    /\ biz = [a \in Ids |-> NoBiz] /\ pms = [a \in Ids |-> NotAsked]
    /\ orders = {[id |-> OldOrder, quote |-> "none"]} /\ facts = {} /\ heard = {}
    /\ oper = [p \in Clerks |-> [id |-> 1, from |-> NoClerk, of |-> 0, live |-> TRUE]]
    /\ ident = [p \in Clerks |-> 1]
    /\ binding = [active |-> TRUE, ver |-> 1] /\ link = [work |-> 0, order |-> {}]

Live(a) == biz[a].st \notin {"none", "cancelled", "preview_rejected", "not_executed"}
Booked(a) == biz[a].op = "book" /\ biz[a].st \in {"completed", "manual_completed"}

-----------------------------------------------------------------------------
(* Authority.                                                                *)

\* The operation grant, and the one it was delegated from, are in force.
operation_in(p) ==
    /\ binding.active /\ oper[p].live
    /\ LET q == oper[p].from IN q # NoClerk => oper[q].live /\ oper[q].id = oper[p].of

\* The checks every call on an action makes.
business_invoke(p, a) == operation_in(p) /\ biz[a].st # "none" /\ biz[a].bver = binding.ver

\* Claims check the person who started the action too.
original_authority(a) ==
    operation_in(biz[a].by) /\ oper[biz[a].by].id = biz[a].auth /\ ident[biz[a].by] = biz[a].id

Update(a, r) == /\ biz' = [biz EXCEPT ![a] = r] /\ heard' = {h \in heard : h.a # a}
                /\ UNCHANGED <<oper, ident, binding>>
Phase(a, st) == Update(a, [biz[a] EXCEPT !.st = st])

\* An action past its plan: who, what, for which work, under which binding.
Past(a, st) == [NoBiz EXCEPT !.st = st, !.op = biz[a].op, !.work = biz[a].work, !.key = biz[a].key,
                             !.by = biz[a].by, !.gone = biz[a].gone, !.bver = biz[a].bver]

-----------------------------------------------------------------------------
(* Starting.                                                                 *)

Untouched ==
    /\ binding.ver = 1 /\ \A p \in Clerks : ident[p] = 1 /\ oper[p].id = 1 /\ oper[p].live

\* The work the action belongs to: a linked application leads to its booking.
canonical_business_work(w, op, target) ==
    IF w = Source /\ link.work # 0
    THEN IF op = "book" \/ target # link.order THEN 0 ELSE link.work
    ELSE LET booked == {a \in Ids : Booked(a) /\ biz[a].work = w} IN
         IF op # "book" /\ booked # {}
            /\ ~(Cardinality(booked) = 1 /\ \A a \in booked : biz[a].order = target /\ target # {})
         THEN 0 ELSE w

\* A live action for the same payment, or the same booking, answers instead.
prior(op, key, w) ==
    \E a \in Ids : /\ Live(a) /\ biz[a].op = op
                   /\ \/ key # "none" /\ biz[a].key = key
                      \/ op = "book" /\ biz[a].work = w

pms_start(p, op, key, w, target) ==
    LET work == canonical_business_work(w, op, target) IN
    \E a \in Ids :
        /\ biz[a].st = "none" /\ \A b \in 1..(a - 1) : biz[b].st # "none"
        /\ operation_in(p) /\ (a > 1 => Untouched /\ p = biz[1].by)
        /\ w \in {a, Source} \cup {biz[b].work : b \in {c \in Ids : biz[c].by = p}}
        /\ op = "collect" => target # {}
        /\ work # 0 /\ ~prior(op, key, work)
        /\ Update(a, [NoBiz EXCEPT !.st = "draft", !.op = op, !.work = work, !.key = key, !.by = p,
                          !.ver = 1, !.auth = oper[p].id, !.id = ident[p], !.bver = binding.ver])
        /\ UNCHANGED <<pms, orders, facts, link>>

-----------------------------------------------------------------------------
(* Preview, confirmation, execution.                                         *)

pms_claim_preview(p, a) ==
    /\ biz[a].st = "draft" /\ business_invoke(p, a) /\ original_authority(a)
    /\ Phase(a, "previewing") /\ UNCHANGED <<pms, orders, facts, link>>

pms_reject_preview(p, a) ==
    /\ biz[a].st = "previewing" /\ business_invoke(p, a) /\ Update(a, Past(a, "preview_rejected"))
    /\ UNCHANGED <<pms, orders, facts, link>>

\* Mutant: the first instruction covers a later version of the plan as well.
pms_save_previewMutant(p, a, covered) ==
    /\ biz[a].st = "previewing" /\ business_invoke(p, a)
    /\ Update(a, [biz[a] EXCEPT !.st = "awaiting_confirmation", !.cover = covered])
    /\ UNCHANGED <<pms, orders, facts, link>>

\* The first instruction may itself cover what the preview shows.
pms_save_preview(p, a, covered) ==
    /\ biz[a].st = "previewing" /\ business_invoke(p, a)
    /\ covered => biz[a].ver = 1
    /\ Update(a, [biz[a] EXCEPT !.st = "awaiting_confirmation", !.cover = covered])
    /\ UNCHANGED <<pms, orders, facts, link>>

\* The host records a message: the code of one plan, or words that mean the
\* only plan of the speaker that waits (of the operation the words name).
business_capture_turn(p, a, words) ==
    /\ biz[a].st = "awaiting_confirmation"   \* else the next update outdates it
    /\ words => \A b \in Ids : (biz[b].st = "awaiting_confirmation" /\ biz[b].by = p) <=> b = a
    /\ heard' = heard \cup {[a |-> a, by |-> p, ver |-> biz[a].ver]}
    /\ UNCHANGED <<biz, pms, orders, facts, oper, ident, binding, link>>

\* What answers for the execution: the version of the plan it was said for.
confirmation(p, a) == {h.ver : h \in {x \in heard : x.a = a /\ x.by = p /\ x.ver = biz[a].ver}}
reuse(p, a) == biz[a].cover /\ biz[a].by = p

pms_claim_execute(p, a) ==
    /\ biz[a].st = "awaiting_confirmation" /\ business_invoke(p, a) /\ original_authority(a)
    /\ confirmation(p, a) # {} \/ reuse(p, a)
    /\ pms' = [pms EXCEPT ![a] = [st |-> "asked", ok |-> biz[a].ver \in confirmation(p, a) \cup
                                                           (IF reuse(p, a) THEN {1} ELSE {})]]
    /\ Update(a, Past(a, "executing"))
    /\ UNCHANGED <<orders, facts, link>>

\* The caller, or whoever recovers the call with the same keys, reports what
\* the PMS says, with the claim the recovery hands out; recovery of a preview
\* can end it but never complete it.
pms_recovery(a) == biz[a].st \in {"executing", "unknown", "previewing"}

pms_save_result(p, a, status, readback) ==
    /\ pms_recovery(a) /\ business_invoke(p, a)
    /\ status = "EXECUTED" => biz[a].st # "previewing" /\ pms[a].st = "done"
    /\ status = "NOT_EXECUTED" => biz[a].st = "previewing" \/ pms[a].st = "refused"
    /\ CASE status = "NOT_EXECUTED" -> Update(a, Past(a, "not_executed"))
         [] status = "UNKNOWN" -> Phase(a, IF biz[a].st = "previewing" THEN "previewing" ELSE "unknown")
         [] OTHER -> Update(a, [biz[a] EXCEPT !.st = "completed",
                                    !.order = IF readback /\ biz[a].op = "book" THEN {a} ELSE {}])
    /\ UNCHANGED <<pms, orders, facts, link>>

-----------------------------------------------------------------------------
(* Pausing, cancelling, handing over.                                        *)

\* Neither in flight nor at an end: the end of a cancelled action is not one.
Interruptible(a) ==
    biz[a].st \in {"draft", "awaiting_confirmation", "paused", "cancelled"}

pms_pause_cancel(p, a, to) ==
    /\ Interruptible(a) /\ business_invoke(p, a)
    /\ Update(a, [biz[a] EXCEPT !.st = to, !.gone = @ \/ to = "cancelled"])
    /\ UNCHANGED <<pms, orders, facts, link>>

\* Only a paused plan is taken up again, as a new version of it.
pms_resume(p, a) ==
    /\ biz[a].st = "paused" /\ business_invoke(p, a)
    /\ biz[a].ver < MaxVer /\ \A b \in Ids \ {a} : biz[b].st = "none"  \* bound: a single plan
    /\ Update(a, [biz[a] EXCEPT !.st = "draft", !.ver = @ + 1, !.cover = FALSE])
    /\ UNCHANGED <<pms, orders, facts, link>>

\* The collections of the order at that moment are kept as the baseline.
pms_handoff(p, a) ==
    /\ Interruptible(a) /\ business_invoke(p, a)
    /\ Update(a, [biz[a] EXCEPT !.st = "manual_handoff", !.base = IF biz[a].op = "collect" THEN facts ELSE {},
                              !.auth = 0, !.id = 0, !.cover = FALSE])
    /\ UNCHANGED <<pms, orders, facts, link>>

\* Exactly one collection with the reference, made since the handoff.
verify(a) == \E f \in facts \ biz[a].base : {g \in facts : g.ref = biz[a].key} = {f}

pms_save_manual(p, a) ==
    /\ biz[a].st = "manual_handoff" /\ business_invoke(p, a) /\ biz[a].op = "collect"
    /\ verify(a)
    /\ Phase(a, "manual_completed") /\ UNCHANGED <<pms, orders, facts, link>>

\* Another work has the order, claims it, or may be making it right now.
adoption_conflict(a, o) ==
    \E b \in Ids : /\ biz[b].work # biz[a].work
                   /\ \/ /\ biz[b].op = "book" /\ biz[b].key = o.quote
                         /\ biz[b].st \in {"executing", "unknown", "previewing"}
                      \/ biz[b].st \in {"completed", "manual_completed"} /\ biz[b].order = {o.id}
                      \/ biz[b].st = "manual_handoff" /\ biz[b].offer = {o.id}

\* An order is proposed, and adopted once a person confirms the proposal.
adopt_order(p, a, o, approved) ==
    /\ biz[a].st = "manual_handoff" /\ business_invoke(p, a) /\ biz[a].op = "book"
    /\ o \in orders /\ ~adoption_conflict(a, o)
    /\ IF approved
       THEN /\ biz[a].offer = {o.id}
            /\ Update(a, [biz[a] EXCEPT !.st = "manual_completed", !.order = {o.id}, !.offer = {}])
       ELSE /\ biz' = [biz EXCEPT ![a].offer = {o.id}] /\ UNCHANGED <<heard, oper, ident, binding>>
    /\ UNCHANGED <<pms, orders, facts, link>>

\* An application nobody acted on is linked to a completed booking.
link_business_source(p, a) ==
    /\ Booked(a) /\ business_invoke(p, a) /\ biz[a].order # {} /\ link.work = 0
    /\ \A b \in Ids : biz[b].work # Source
    /\ link' = [work |-> biz[a].work, order |-> biz[a].order]
    /\ UNCHANGED <<biz, pms, orders, facts, heard, oper, ident, binding>>

-----------------------------------------------------------------------------
(* Configuration, and what happens outside.                                  *)

\* Bounds: one person starts both actions, and only one change of authority is
\* made in a behaviour, with what repairs it, and that with one action.
FirstChange == Untouched /\ Cardinality({a \in Ids : biz[a].st # "none"}) <= 1
Others == UNCHANGED <<biz, pms, orders, facts, heard, link>>

\* A new grant of the operation; the one in force must be revoked first.
GrantOperation(p) ==
    /\ ~oper[p].live /\ oper[p].id < MaxVer /\ binding.active
    /\ oper' = [oper EXCEPT ![p] = [id |-> @.id + 1, from |-> NoClerk, of |-> 0, live |-> TRUE]]
    /\ UNCHANGED <<ident, binding>> /\ Others

business_delegate(p, q) ==
    /\ p # q /\ operation_in(p) /\ ~oper[q].live /\ oper[q].id < MaxVer
    /\ oper' = [oper EXCEPT ![q] = [id |-> @.id + 1, from |-> p, of |-> oper[p].id, live |-> TRUE]]
    /\ UNCHANGED <<ident, binding>> /\ Others

\* A grant goes with everything delegated from it.
RevokeOperation(p) ==
    /\ oper[p].live /\ FirstChange
    /\ oper' = [q \in Clerks |-> IF q = p \/ (oper[q].from = p /\ oper[q].of = oper[p].id)
                                 THEN [oper[q] EXCEPT !.live = FALSE] ELSE oper[q]]
    /\ UNCHANGED <<ident, binding>> /\ Others

DisableBinding ==
    /\ binding.active /\ FirstChange
    /\ binding' = [active |-> FALSE, ver |-> binding.ver + 1]
    /\ oper' = [q \in Clerks |-> [oper[q] EXCEPT !.live = FALSE]]
    /\ UNCHANGED ident /\ Others

CreateBinding ==
    /\ ~binding.active /\ binding' = [active |-> TRUE, ver |-> binding.ver + 1]
    /\ UNCHANGED <<oper, ident>> /\ Others

IdentityRelinked(p) ==
    /\ FirstChange /\ ident' = [ident EXCEPT ![p] = @ + 1]
    /\ UNCHANGED <<oper, binding>> /\ Others

\* The PMS acts once per execution key, sooner or later, or refuses for good.
PmsDecides(a, done) ==
    /\ pms[a].st = "asked" /\ pms' = [pms EXCEPT ![a].st = IF done THEN "done" ELSE "refused"]
    /\ orders' = IF done /\ biz[a].op = "book" THEN orders \cup {[id |-> a, quote |-> biz[a].key]} ELSE orders
    /\ facts' = IF done /\ biz[a].op = "collect" THEN facts \cup {[ref |-> biz[a].key, by |-> a]} ELSE facts
    /\ UNCHANGED <<biz, heard, oper, ident, binding, link>>

HumanBooks(q) ==
    /\ \E a \in Ids : biz[a].op = "book" /\ biz[a].st = "manual_handoff"
    /\ \A o \in orders : o.id # Human
    /\ orders' = orders \cup {[id |-> Human, quote |-> q]}
    /\ UNCHANGED <<biz, pms, facts, heard, oper, ident, binding, link>>

HumanCollects ==
    /\ \E a \in Ids : biz[a].op = "collect"
    /\ facts' = facts \cup {[ref |-> "r1", by |-> Human]}
    /\ UNCHANGED <<biz, pms, orders, heard, oper, ident, binding, link>>

BusinessNext ==
    \/ \E p \in Clerks, w \in 1..Source :
          \/ \E q \in Quotes : pms_start(p, "book", q, w, {})
          \/ \E o \in orders, r \in {"r1", "none"} : pms_start(p, "collect", r, w, {o.id})
    \/ \E p \in Clerks, a \in Ids :
          \/ pms_claim_preview(p, a) \/ pms_reject_preview(p, a) \/ pms_claim_execute(p, a)
          \/ pms_resume(p, a) \/ pms_handoff(p, a) \/ pms_save_manual(p, a)
          \/ link_business_source(p, a)
          \/ \E b \in BOOLEAN : \/ pms_save_preview(p, a, b) \/ business_capture_turn(p, a, b)
                                 \/ \E o \in orders : adopt_order(p, a, o, b)
                                 \/ \E s \in {"EXECUTED", "NOT_EXECUTED", "UNKNOWN"} : pms_save_result(p, a, s, b)
          \/ \E to \in {"paused", "cancelled"} : pms_pause_cancel(p, a, to)
    \/ \E p \in Clerks : \/ GrantOperation(p) \/ RevokeOperation(p) \/ IdentityRelinked(p)
                         \/ \E q \in Clerks : business_delegate(p, q)
    \/ DisableBinding \/ CreateBinding
    \/ \E a \in Ids, done \in BOOLEAN : PmsDecides(a, done)
    \/ \E q \in Quotes : HumanBooks(q)
    \/ HumanCollects

-----------------------------------------------------------------------------
Effect(a) == pms[a].st = "done" \/ biz[a].st = "manual_completed"
Same(a, b) == /\ biz[a].op = biz[b].op
              /\ \/ biz[a].key = biz[b].key /\ biz[a].key # "none"
                 \/ biz[a].op = "book" /\ biz[a].work = biz[b].work

\* The PMS is asked only for the version of a plan that was confirmed; it has
\* done nothing while the ledger says that nothing was done; and of the
\* actions for one booking or one payment only one takes effect, by itself or
\* by hand, except when a cancelled one was taken up again (CancelIsFinal).
EffectOnce ==
    \A a \in Ids :
        /\ pms[a].ok
        /\ biz[a].st \notin {"executing", "unknown", "completed"} => pms[a].st \in {"no", "refused"}
        /\ biz[a].st = "completed" => pms[a].st = "done"
        /\ \A b \in Ids : a # b /\ Same(a, b) /\ Effect(a) /\ Effect(b) => biz[a].gone \/ biz[b].gone

\* No order is carried by two works, whoever made it, and no work is done
\* under an application apart from the booking it was linked to.
OrderOnce ==
    /\ \A a, b \in Ids : biz[a].order # {} /\ biz[a].order = biz[b].order => biz[a].work = biz[b].work
    /\ link.work # 0 => \A a \in Ids : biz[a].work # Source

\* "Cancelling or pausing stops the old plan from being executed" (the notes
\* of the PMS skill): an action once cancelled is never sent to the PMS.
CancelIsFinal == \A a \in Ids : biz[a].gone => pms[a].st = "no"
-----------------------------------------------------------------------------
(* Work accounts.  Staff may share an account nobody in particular is behind *)
(* (variables of its own: nothing above is touched).  A manager registers an *)
(* observed account, grants it operations and chooses where staff are asked; *)
(* each rests on a source, a gateway and a management grant that change      *)
(* outside.  The flags "broken" and "saw" are history.                       *)

CONSTANTS Chiefs,    \* managers
          Senior,    \* the one who manages execution as well as reading
          MaxDesk    \* bound: versions of the account, of what is behind it

ASSUME SeniorManages == Senior \in Chiefs

VARIABLES gate,      \* gateway of the account: [on, ver]
          observed,  \* its source link: [st, ver]
          shared,      \* the work account: [active, ver, sver, gver]
          permits,   \* operation |-> the grant to the account
          site,      \* the property is bound
          chief,     \* manager, action |-> management grant, 0 if none
          group,     \* the staff group: [bound, ver]
          route,     \* where staff are asked, as saved
          turn,      \* the account as a turn resolved it
          sent       \* commands for the configuration as it is now

zvars == <<gate, observed, shared, permits, site, chief, group, route, turn, sent>>

DeskOps == {"order_read", "order_create"}
action_of(op) == IF op = "order_read" THEN "read_business" ELSE "execute_business"
Actions_ == {"read_business", "execute_business"}
NoPermit == [role |-> "none", ver |-> 0, by |-> Senior, id |-> 0, live |-> FALSE, saw |-> 0, broken |-> FALSE]
NoRoute == [set |-> FALSE, basis |-> <<0, 0, 0, 0>>, broken |-> FALSE]
NoTurn == [on |-> FALSE, ver |-> 0, sver |-> 0, gver |-> 0, broken |-> FALSE]

DeskInit ==
    /\ gate = [on |-> TRUE, ver |-> 1] /\ observed = [st |-> "pending", ver |-> 1]
    /\ shared = [active |-> FALSE, ver |-> 0, sver |-> 0, gver |-> 0]
    /\ permits = [op \in DeskOps |-> NoPermit] /\ site = TRUE
    /\ chief = [m \in Chiefs |-> [a \in Actions_ |-> IF m = Senior \/ a = "read_business" THEN 1 ELSE 0]]
    /\ group = [bound |-> TRUE, ver |-> 1] /\ route = NoRoute /\ turn = NoTurn /\ sent = {}

\* What stood behind the account is over: so is what was built on it.
Breaks == /\ permits' = [op \in DeskOps |-> [permits[op] EXCEPT !.broken = @ \/ permits[op].live]] /\ route' = [route EXCEPT !.broken = route.set]
          /\ turn' = [turn EXCEPT !.broken = turn.on]

\* The account is what was registered: same source, same gateway, no person.
DeskValid == /\ shared.active /\ gate.on /\ shared.gver = gate.ver
             /\ observed.st # "revoked" /\ shared.sver = observed.ver

Manages(m, a) == chief[m][a] # 0
ManagesAny(m) == \E a \in Actions_ : Manages(m, a)

RegisterAccount(m) ==
    /\ ManagesAny(m) /\ gate.on /\ observed.st = "pending" /\ ~shared.active
    /\ \A op \in DeskOps : ~permits[op].live
    /\ shared.ver < MaxDesk
    /\ shared' = [active |-> TRUE, ver |-> shared.ver + 1, sver |-> observed.ver, gver |-> gate.ver]
    /\ UNCHANGED <<permits, site, route, turn>>

\* With the account go its grants; whoever disables it manages all of them.
DisableAccount(m, ver) ==
    /\ ManagesAny(m) /\ \A op \in DeskOps : permits[op].live => Manages(m, action_of(op))
    /\ shared.active /\ shared.ver = ver /\ ver < MaxDesk
    /\ shared' = [shared EXCEPT !.active = FALSE, !.ver = @ + 1]
    /\ permits' = [op \in DeskOps |-> NoPermit]
    /\ route' = [route EXCEPT !.broken = route.set] /\ turn' = [turn EXCEPT !.broken = turn.on]
    /\ UNCHANGED site

\* An account has one role, and an operation once.
GrantAccountOperation(m, op, role, saw) ==
    /\ Manages(m, action_of(op)) /\ site /\ DeskValid /\ ~permits[op].live
    /\ \A o \in DeskOps : permits[o].live => permits[o].role = role
    /\ permits' = [permits EXCEPT ![op] = [role |-> role, ver |-> shared.ver, by |-> m, live |-> TRUE,
                        id |-> chief[m][action_of(op)], saw |-> saw, broken |-> FALSE]]
    /\ UNCHANGED <<shared, site, route, turn>>

RevokeAccountOperation(m, op) ==
    /\ permits[op].live /\ Manages(m, action_of(op))
    /\ permits' = [permits EXCEPT ![op] = NoPermit]
    /\ UNCHANGED <<shared, site, route, turn>>

DisableSite(m) ==
    /\ site /\ \A a \in Actions_ : Manages(m, a)
    /\ site' = FALSE /\ permits' = [op \in DeskOps |-> NoPermit]
    /\ UNCHANGED <<shared, route, turn>>
CreateSite(m) == ~site /\ ManagesAny(m) /\ site' = TRUE /\ UNCHANGED <<shared, permits, route, turn>>

\* The staff group, and the account as the contact, as they are now.
communication_basis == <<group.ver, shared.sver, shared.gver, shared.ver>>
validate_scope_communication_in == group.bound /\ DeskValid
SetScopeCommunication(m) ==
    /\ ManagesAny(m) /\ validate_scope_communication_in
    /\ route' = [set |-> TRUE, basis |-> communication_basis, broken |-> FALSE]
    /\ UNCHANGED <<shared, permits, site, turn>>

ConfigChange(m, c) ==
    CASE c.kind = "register" -> RegisterAccount(m)
      [] c.kind = "disable" -> DisableAccount(m, c.saw)
      [] c.kind = "grant" -> GrantAccountOperation(m, c.op, c.role, c.saw)
      [] c.kind = "revoke" -> RevokeAccountOperation(m, c.op)
      [] c.kind = "unbind" -> DisableSite(m)
      [] c.kind = "bind" -> CreateSite(m)
      [] OTHER -> SetScopeCommunication(m)

\* Bounds: a manager has one command under way, something the page offers for
\* what there is; the first role granted stands for the other.
Offered(c) ==
    CASE c.kind = "register" -> ~shared.active
      [] c.kind \in {"disable", "route"} -> shared.active
      [] c.kind = "grant" -> shared.active /\ ~permits[c.op].live
                              /\ (c.role = "operator" \/ \E o \in DeskOps : permits[o].live)
      [] c.kind = "revoke" -> permits[c.op].live
      [] c.kind = "unbind" -> site
      [] OTHER -> ~site

ConfigCommands(m) ==
    {c \in [by : {m}, kind : {"register", "disable", "unbind", "bind", "route", "grant", "revoke"},
            op : DeskOps, role : {"operator", "admin"}, saw : {shared.ver}] :
        /\ c.kind # "grant" => c.role = "operator"
        /\ c.kind \notin {"grant", "revoke"} => c.op = "order_read"
        /\ Offered(c)}

CommandSent(m) ==
    /\ \A c \in sent : c.by # m
    /\ \E c \in ConfigCommands(m) : sent' = sent \cup {c}
    /\ UNCHANGED <<gate, observed, shared, permits, site, chief, group, route, turn>>

\* Not carried out before, and the configuration is what its author saw.
expected_version(c) == c \in sent

\* Mutant: the version the command expects is not compared.
business_configureMutant(c) ==
    /\ expected_version(c) /\ ConfigChange(c.by, c) /\ sent' = sent \ {c}
    /\ UNCHANGED <<gate, observed, chief, group>>

\* A command is carried out once, and only on the configuration its author
\* saw: any other applied in between leaves nothing but a refusal, as does a
\* repetition, which answers the recorded result.
business_configure(c) ==
    /\ expected_version(c) /\ ConfigChange(c.by, c) /\ sent' = {}
    /\ UNCHANGED <<gate, observed, chief, group>>

\* A turn from the account becomes the account, not a person.
resolve_gateway_actor ==
    /\ DeskValid
    /\ turn' = [on |-> TRUE, ver |-> shared.ver, sver |-> shared.sver, gver |-> shared.gver, broken |-> FALSE]
    /\ UNCHANGED <<gate, observed, shared, permits, site, chief, group, route, sent>>

verify_work_account == /\ turn.on /\ DeskValid
                       /\ <<shared.ver, shared.sver, shared.gver>> = <<turn.ver, turn.sver, turn.gver>>

operation_for_actor_in(op) ==
    /\ verify_work_account /\ site /\ permits[op].live /\ permits[op].ver = turn.ver
    /\ LET m == permits[op].by IN Manages(m, action_of(op)) /\ chief[m][action_of(op)] = permits[op].id

business_context == {op \in DeskOps : operation_for_actor_in(op)}

scope_communication_current ==
    route.set /\ site /\ validate_scope_communication_in /\ route.basis = communication_basis

\* Bound: one thing behind the account changes, and may change back.
AsAtFirst(g, o, c, p) ==
    /\ (g => gate = [on |-> TRUE, ver |-> 1]) /\ (o => observed.ver = 1)
    /\ (c => chief[Senior]["execute_business"] = 1) /\ (p => group = [bound |-> TRUE, ver |-> 1])
Outside == UNCHANGED <<shared, site, sent>>

GatewayChanged ==
    /\ AsAtFirst(FALSE, TRUE, TRUE, TRUE)
    /\ \/ gate.ver < 2 /\ gate' = [gate EXCEPT !.ver = @ + 1] /\ Breaks
       \/ gate' = [gate EXCEPT !.on = ~@] /\ UNCHANGED <<permits, route, turn>>
    /\ Outside /\ UNCHANGED <<observed, chief, group>>

SourceChanged(st) ==
    /\ AsAtFirst(TRUE, FALSE, TRUE, TRUE) /\ observed.st # st /\ observed.ver < MaxDesk
    /\ observed' = [st |-> st, ver |-> observed.ver + 1] /\ Breaks
    /\ Outside /\ UNCHANGED <<gate, chief, group>>

ChiefChanged ==
    /\ AsAtFirst(TRUE, TRUE, FALSE, TRUE) /\ chief[Senior]["execute_business"] < 2
    /\ \E id \in {0, 2} : chief' = [chief EXCEPT ![Senior]["execute_business"] = id]
    /\ permits' = [op \in DeskOps |-> IF action_of(op) = "execute_business" /\ permits[op].live
                                      THEN [permits[op] EXCEPT !.broken = TRUE] ELSE permits[op]]
    /\ Outside /\ UNCHANGED <<gate, observed, group, route, turn>>

GroupChanged ==
    /\ AsAtFirst(TRUE, TRUE, TRUE, FALSE)
    /\ \/ group' = [group EXCEPT !.bound = ~@] /\ UNCHANGED route
       \/ group.ver < 2 /\ group' = [group EXCEPT !.ver = @ + 1] /\ route' = [route EXCEPT !.broken = route.set]
    /\ Outside /\ UNCHANGED <<gate, observed, chief, permits, turn>>

DeskNext ==
    \/ \E m \in Chiefs : CommandSent(m)
    \/ \E c \in sent : business_configure(c)
    \/ resolve_gateway_actor
    \/ GatewayChanged \/ ChiefChanged \/ GroupChanged \/ \E st \in {"pending", "revoked"} : SourceChanged(st)

\* Whoever speaks through the account is let do only what was granted to the
\* registration it was resolved from, by a manager who saw that registration
\* and has managed it ever since, with nothing behind it changed in between;
\* no live grant outlives the account or the binding, nor differs in role;
\* and staff are asked only where the choice was made.
DeskTrue ==
    /\ \A op \in business_context : ~turn.broken /\ ~permits[op].broken
    /\ \A op \in DeskOps : permits[op].live =>
          /\ shared.active /\ site /\ permits[op].ver = shared.ver /\ permits[op].saw = shared.ver
          /\ \A o \in DeskOps : permits[o].live => permits[o].role = permits[op].role
    /\ scope_communication_current => ~route.broken

\* The actions alone, the desks at rest.
BusinessSpec == BusinessInit /\ DeskInit /\ [][BusinessNext /\ UNCHANGED zvars]_<<bvars, zvars>>
=============================================================================
