------------------------ MODULE CollaborationPolicy ------------------------
(* Who may do what in a community: scopes, a role, a duty, connections of    *)
(* persons to that duty, the grants of a connection and the chain of         *)
(* delegations every grant hangs from.  One agent, one domain, one role, in  *)
(* use by the bootstrap, and one duty stand for the several of the code:     *)
(* every check compares them for equality only.  A command locks the tenant  *)
(* row, so it is one action; the version it advances bounds the behaviours.  *)
(* An appointment is folded into its connections.                            *)
EXTENDS Naturals, Sequences, FiniteSets

CONSTANTS Root,         \* the person the bootstrap made responsible
          Staff,        \* the other persons
          NoOne,        \* no reviewer
          MaxConns, MaxGrants, MaxPolicy  \* bounds: connections, grants, commands

VARIABLES scope,     \* scope |-> "active", "retired" or "none"
          role,      \* [st, duty]: the role and whether it carries the duty
          duty,      \* [st, acts]: the duty and the actions it makes available
          known,     \* persons with a confirmed identity
          conns,     \* connections: [person, scope, st, term]
          grants,    \* grants of connections
          position,  \* the position of the role in the child scope
          ledger,    \* person |-> status of its ledger entry
          bound,     \* the child scope has a group bound to it
          audience,  \* connection |-> grant the audience was set under, 0 if none
          policyVer  \* the version of the tenant's configuration

pvars == <<scope, role, duty, known, conns, grants, position, ledger, bound, audience, policyVer>>

Acts == {"manage", "publish", "review"}
Persons == {Root} \cup Staff
Parent == [s \in {"root", "child"} |-> IF s = "root" THEN "none" ELSE "root"]
NoEnvelope == [gives |-> {}, depth |-> 0]

\* The bootstrap; it may have been followed by a manager, one of the staff, in
\* charge of everything or of the child scope.
PolicyInit ==
    /\ role = [st |-> "active", duty |-> TRUE]
    /\ duty = [st |-> "active", acts |-> Acts]
    /\ known = Persons
    /\ \E child \in {"active", "none"} :
          scope = [x \in {"root", "child"} |-> IF x = "root" THEN "active" ELSE child]
    /\ LET bootstrap == [person |-> Root, scope |-> "root", st |-> "active", term |-> "now"] IN
       \/ conns = <<bootstrap>>
       \/ \E q \in Staff, s \in {"root", "child"} :
             /\ scope[s] = "active"
             /\ conns = <<bootstrap, [person |-> q, scope |-> s, st |-> "active", term |-> "now"]>>
    /\ grants = [i \in DOMAIN conns |->
                    [conn |-> i, action |-> "manage", mode |-> "auto", reviewer |-> NoOne,
                     parent |-> i - 1, desc |-> TRUE, gives |-> Acts, depth |-> 3 - i, st |-> "active"]]
    /\ \E st \in {"none", "retired"} :  \* of the ledger, kept before this
          /\ ledger = [q \in Staff |-> IF \E c \in DOMAIN conns : conns[c].person = q THEN "none" ELSE st]
          /\ position = IF scope["child"] = "active" /\ \A c \in DOMAIN conns : conns[c].scope = "root"
                        THEN st ELSE "none"
    /\ bound = FALSE /\ audience = [c \in 1..MaxConns |-> 0] /\ policyVer = 1

-----------------------------------------------------------------------------
(* The policy as it is evaluated, from the connections cs and grants gs.     *)

in_scope(child, ancestor, descendants) ==
    /\ scope[child] = "active"
    /\ \/ child = ancestor
       \/ descendants /\ Parent[child] = ancestor /\ scope[ancestor] = "active"

\* The bootstrap connection is the only one without a duty.
load_policy(cs, gs) ==
    [i \in 1..Len(gs) |->
        LET g == gs[i]  c == cs[g.conn] IN
        [g |-> g, person |-> c.person, scope |-> c.scope,
         active |-> /\ g.st = "active" /\ c.st = "active" /\ c.term = "now"
                    /\ role.st = "active" /\ (g.conn = 1 \/ duty.st = "active")
                    /\ c.person \in known]]

policy == load_policy(conns, grants)

covers(p, i, s, action) ==
    /\ p[i].g.action = "manage" /\ p[i].g.mode = "auto"
    /\ in_scope(s, p[i].scope, p[i].g.desc)
    /\ action \in p[i].g.gives

\* A delegation is strictly shallower than, and inside, the one it came from.
WithinEnvelope(parent, child) ==
    child.depth < parent.depth /\ child.gives \subseteq parent.gives

effective(p, i) ==
    LET ok[j \in DOMAIN p] ==
            LET q == p[j].g.parent IN
            /\ p[j].active /\ p[j].g.mode # "denied"
            /\ (p[j].g.mode = "confirm") = (p[j].g.reviewer # NoOne)
            /\ p[j].g.reviewer # p[j].person
            /\ in_scope(p[j].scope, p[j].scope, FALSE)
            /\ IF q = 0 THEN p[j].g.action = "manage" /\ p[j].g.mode = "auto"
               ELSE /\ covers(p, q, p[j].scope, p[j].g.action)
                    /\ p[j].g.desc => p[q].g.desc
                    /\ p[j].g.action = "manage" => WithinEnvelope(p[q].g, p[j].g)
                    /\ ok[q]
    IN ok[i]

Managers(p, person, s, action) ==
    {i \in DOMAIN p : p[i].person = person /\ effective(p, i) /\ covers(p, i, s, action)}

\* The first in the order of the identifiers, which are random.
manager(p, person, s, action) == Managers(p, person, s, action) # {}

can_inspect(p, person, s) ==
    \E i \in DOMAIN p : /\ p[i].person = person /\ p[i].g.action = "manage"
                        /\ p[i].g.mode = "auto" /\ effective(p, i)
                        /\ in_scope(s, p[i].scope, p[i].g.desc)

decision(p, c, action) ==
    LET matching == {i \in DOMAIN p : p[i].g.conn = c /\ p[i].g.action = action /\ p[i].active}
        i == CHOOSE j \in matching : TRUE
        eligible == \E j \in DOMAIN p :
                       /\ p[j].person = p[i].g.reviewer /\ p[j].scope = p[i].scope
                       /\ p[j].g.action = action /\ p[j].g.mode = "auto" /\ p[j].g.conn # 1
                       /\ effective(p, j)
                       /\ ~ \E k \in DOMAIN p \ {j} : /\ p[k].active /\ p[k].g.conn = p[j].g.conn
                                                      /\ p[k].g.action = action
    IN CASE Cardinality(matching) # 1 \/ c = 1 -> "denied"
         [] ~effective(p, i) -> "denied"
         [] p[i].g.mode = "auto" -> "autonomous"
         [] eligible -> "confirmation_required"
         [] OTHER -> "denied"

\* What a consumer is told: nothing when two grants of the person match.
authority_from_policy(p, person, s, action) ==
    LET matching == {i \in DOMAIN p : /\ p[i].person = person /\ p[i].g.action = action
                                      /\ p[i].active /\ in_scope(s, p[i].scope, p[i].g.desc)}
    IN IF Cardinality(matching) # 1 THEN "denied"
       ELSE decision(p, p[CHOOSE i \in matching : TRUE].g.conn, action)

catalog_admin(p, person) ==
    /\ scope["root"] = "active"
    /\ \A s \in DOMAIN scope : scope[s] = "active" => manager(p, person, s, "manage")

\* A person with an identity nobody has put out of use in the ledger.
known_person(q) == q \in known /\ (q \in Staff => ledger[q] \in {"none", "active"})

-----------------------------------------------------------------------------
(* Commands.                                                                 *)

InUse(c) == conns[c].st = "active" /\ conns[c].term # "past"

command(actor) ==
    actor \in known /\ policyVer' = policyVer + 1

Manageable(p, actor, c) ==
    /\ can_inspect(p, actor, conns[c].scope)
    /\ \A i \in DOMAIN grants :
          grants[i].conn = c /\ grants[i].st = "active"
              => grants[i].parent # 0 /\ manager(p, actor, conns[c].scope, grants[i].action)

end_connection(p, actor, cs, c) ==
    [cs EXCEPT ![c].st = "ended"]

\* The settings an assignment may carry: actions with a mode, a reviewer, an envelope.
Setting(a, m, r, e) == [action |-> a, mode |-> m, reviewer |-> r, env |-> e]

Assignments(person) ==
    {{}} \cup {{Setting("publish", "auto", NoOne, NoEnvelope)},
               {Setting("publish", "denied", NoOne, NoEnvelope)},
               {Setting("review", "auto", NoOne, NoEnvelope)}}
         \cup {{Setting("publish", "confirm", r, NoEnvelope)} : r \in Persons}
         \cup {{Setting("manage", "auto", NoOne, [gives |-> e, depth |-> d])} :
                  e \in {Acts, {"publish"}}, d \in {0, 1}}

validate(person, settings) ==
    \A t \in settings : /\ (t.mode = "confirm") = (t.reviewer # NoOne)
                        /\ t.reviewer # person

\* The guards of an assignment, under the policy p.
Assignable(p, actor, person, s, settings) ==
    /\ known_person(person) /\ role.st = "active" /\ role.duty /\ duty.st = "active"
    /\ can_inspect(p, actor, s)
    /\ \A t \in settings :
          /\ t.action \in duty.acts
          /\ t.mode = "confirm" =>
                \E i \in DOMAIN p : /\ p[i].person = t.reviewer /\ p[i].scope = s
                                    /\ p[i].g.action = t.action
                                    /\ decision(p, p[i].g.conn, t.action) = "autonomous"

\* The grants of connection c once the settings are applied: a grant that
\* still stands unchanged is kept; any other is revoked and given anew, so
\* that what was derived from it lapses.
Regranted(p, actor, gs, c, s, settings, parents) ==
    LET same(i, t) == /\ gs[i].conn = c /\ gs[i].st = "active" /\ gs[i].action = t.action
                      /\ effective(p, i) /\ gs[i].mode = t.mode /\ gs[i].reviewer = t.reviewer
                      /\ gs[i].gives = t.env.gives /\ gs[i].depth = t.env.depth
        kept == {i \in DOMAIN gs : \E t \in settings : same(i, t)}
        left == [i \in DOMAIN gs |-> IF gs[i].conn = c /\ gs[i].st = "active" /\ i \notin kept
                                     THEN [gs[i] EXCEPT !.st = "revoked"] ELSE gs[i]]
        new == {t \in settings : ~ \E i \in kept : same(i, t)}
        one(t) == [conn |-> c, action |-> t.action, mode |-> t.mode, reviewer |-> t.reviewer,
                   parent |-> parents[t], desc |-> t.action = "manage" /\ t.mode = "auto",
                   gives |-> t.env.gives, depth |-> t.env.depth, st |-> "active"]
    IN IF new = {} THEN left ELSE Append(left, one(CHOOSE t \in new : TRUE))

\* Every setting hangs from a grant of the actor whose envelope holds it.
Parents(p, actor, s, settings) ==
    {f \in [settings -> DOMAIN p] :
        \A t \in settings : /\ f[t] \in Managers(p, actor, s, t.action)
                            /\ t.action = "manage" => WithinEnvelope(p[f[t]].g, t.env)}

Position(s) == s = "child" => position \in {"none", "active"}

\* A new connection; a lapsed one of the same person and scope is closed first.
AssignNew(actor, person, s, settings, term) ==
    LET cs == [c \in DOMAIN conns |->
                  IF conns[c].person = person /\ conns[c].scope = s /\ conns[c].term = "past"
                  THEN [conns[c] EXCEPT !.st = "ended"] ELSE conns[c]] IN
    /\ command(actor) /\ actor # person /\ Position(s)
    /\ validate(person, settings) /\ Assignable(policy, actor, person, s, settings)
    /\ Len(conns) < MaxConns /\ Len(grants) + Cardinality(settings) <= MaxGrants
    /\ \A c \in DOMAIN cs : ~(cs[c].person = person /\ cs[c].scope = s /\ cs[c].st = "active")
    /\ conns' = Append(cs, [person |-> person, scope |-> s, st |-> "active", term |-> term])
    /\ \E parents \in Parents(policy, actor, s, settings) :
          grants' = Regranted(policy, actor, grants, Len(conns) + 1, s, settings, parents)
    /\ UNCHANGED <<scope, role, duty, known, position, ledger, bound, audience>>

\* The permissions of a connection are set anew.
AssignSame(actor, c, settings) ==
    LET person == conns[c].person  s == conns[c].scope IN
    /\ command(actor) /\ actor # person /\ conns[c].st = "active" /\ Position(s)
    /\ conns[c].term # "past"
    /\ validate(person, settings) /\ Assignable(policy, actor, person, s, settings)
    /\ Manageable(policy, actor, c)
    /\ Len(grants) + Cardinality(settings) <= MaxGrants
    /\ \E parents \in Parents(policy, actor, s, settings) :
          grants' = Regranted(policy, actor, grants, c, s, settings, parents)
    /\ UNCHANGED <<scope, role, duty, known, conns, position, ledger, bound, audience>>

\* The connection moves to another scope: it is ended and a new one takes its
\* place, judged under the policy that is left.
AssignReplaced(actor, c, s, settings) ==
    LET cs == end_connection(policy, actor, conns, c)
        p == load_policy(cs, grants)
        person == conns[c].person IN
    /\ command(actor) /\ actor # person /\ conns[c].st = "active" /\ conns[c].scope # s
    /\ Position(s) /\ Manageable(policy, actor, c)
    /\ validate(person, settings) /\ Assignable(p, actor, person, s, settings)
    /\ Len(conns) < MaxConns /\ Len(grants) + Cardinality(settings) <= MaxGrants
    /\ \A d \in DOMAIN cs : ~(cs[d].person = person /\ cs[d].scope = s /\ cs[d].st = "active")
    /\ conns' = Append(cs, [person |-> person, scope |-> s, st |-> "active",
                            term |-> IF conns[c].term = "future" THEN "future" ELSE "now"])
    /\ \E parents \in Parents(p, actor, s, settings) :
          grants' = Regranted(p, actor, grants, Len(conns) + 1, s, settings, parents)
    /\ UNCHANGED <<scope, role, duty, known, position, ledger, bound, audience>>

RevokeGrant(actor, i) ==
    /\ command(actor) /\ grants[i].parent # 0 /\ grants[i].st = "active"
    /\ manager(policy, actor, conns[grants[i].conn].scope, grants[i].action)
    /\ grants' = [grants EXCEPT ![i].st = "revoked"]
    /\ UNCHANGED <<scope, role, duty, known, conns, position, ledger, bound, audience>>

\* Ending a connection, or the appointment it belongs to.
EndConnection(actor, c) ==
    /\ command(actor) /\ conns[c].st = "active" /\ Manageable(policy, actor, c)
    /\ conns' = end_connection(policy, actor, conns, c)
    /\ UNCHANGED <<scope, role, duty, known, grants, position, ledger, bound, audience>>

CreateScope(actor) ==
    /\ command(actor) /\ scope["child"] = "none" /\ manager(policy, actor, "root", "manage")
    /\ scope' = [scope EXCEPT !["child"] = "active"]
    /\ UNCHANGED <<role, duty, known, conns, grants, position, ledger, bound, audience>>

SetGroups(actor) ==
    /\ command(actor) /\ manager(policy, actor, "root", "manage")
    /\ in_scope("child", "root", TRUE)
    /\ bound' = ~bound
    /\ UNCHANGED <<scope, role, duty, known, conns, grants, position, ledger, audience>>

\* Mutant: a connection whose term has not begun does not count.
SaveDutyMutant(actor, acts) ==
    /\ command(actor) /\ catalog_admin(policy, actor) /\ duty.st = "active" /\ acts # duty.acts
    /\ \A i \in DOMAIN grants :
          (/\ grants[i].conn # 1 /\ InUse(grants[i].conn) /\ conns[grants[i].conn].term = "now"
           /\ grants[i].st = "active" /\ grants[i].mode # "denied") => grants[i].action \in acts
    /\ duty' = [duty EXCEPT !.acts = acts]
    /\ UNCHANGED <<scope, role, known, conns, grants, position, ledger, bound, audience>>

\* The actions of a duty are narrowed only when no grant in use needs them.
SaveDuty(actor, acts) ==
    /\ command(actor) /\ catalog_admin(policy, actor) /\ duty.st = "active" /\ acts # duty.acts
    /\ \A i \in DOMAIN grants :
          (/\ grants[i].conn # 1 /\ InUse(grants[i].conn)
           /\ grants[i].st = "active" /\ grants[i].mode # "denied") => grants[i].action \in acts
    /\ duty' = [duty EXCEPT !.acts = acts]
    /\ UNCHANGED <<scope, role, known, conns, grants, position, ledger, bound, audience>>

SaveRole(actor) ==
    /\ command(actor) /\ catalog_admin(policy, actor) /\ role.st = "active"
    /\ ~role.duty => duty.st = "active"
    /\ role.duty => \A c \in DOMAIN conns \ {1} : ~InUse(c)
    /\ role' = [role EXCEPT !.duty = ~@]
    /\ UNCHANGED <<scope, duty, known, conns, grants, position, ledger, bound, audience>>

\* Mutant: the connections of a duty are not looked at.
UsersMutant(object) == {c \in DOMAIN conns : InUse(c) /\ object # "duty" /\ conns[c].scope = "child"}

\* What a catalog object is used by.
Users(object) ==
    {c \in DOMAIN conns : InUse(c) /\ IF object = "duty" THEN c # 1 ELSE conns[c].scope = "child"}

retire_catalog(actor, object) ==
    /\ command(actor) /\ catalog_admin(policy, actor) /\ Users(object) = {}
    /\ object # "duty" => position \in {"none", "retired"}
    /\ object = "scope" => ~bound
    /\ \/ object = "duty" /\ duty.st = "active" /\ duty' = [duty EXCEPT !.st = "retired"]
          /\ UNCHANGED <<scope, role>>
       \/ object = "scope" /\ scope["child"] = "active"
          /\ scope' = [scope EXCEPT !["child"] = "retired"] /\ UNCHANGED <<duty, role>>
    /\ UNCHANGED <<known, conns, grants, position, ledger, bound, audience>>

RestoreCatalog(actor, object) ==
    /\ command(actor) /\ catalog_admin(policy, actor)
    /\ \/ object = "duty" /\ duty.st = "retired" /\ duty' = [duty EXCEPT !.st = "active"]
          /\ UNCHANGED <<scope, role>>
       \/ object = "scope" /\ scope["child"] = "retired" /\ scope["root"] = "active"
          /\ scope' = [scope EXCEPT !["child"] = "active"] /\ UNCHANGED <<duty, role>>
    /\ UNCHANGED <<known, conns, grants, position, ledger, bound, audience>>

\* Positions and ledger entries: drafts are deleted while unused, retiring one
\* ends the connections it carries, restoring one gives nothing back.
SavePosition(actor, to) ==
    /\ command(actor) /\ catalog_admin(policy, actor) /\ scope["child"] = "active"
    /\ position # "retired" /\ position # to
    /\ to = "draft" => \A c \in DOMAIN conns : conns[c].scope # "child"
    /\ position' = to
    /\ UNCHANGED <<scope, role, duty, known, conns, grants, ledger, bound, audience>>

SaveLedger(actor, q, to) ==
    /\ command(actor) /\ catalog_admin(policy, actor)
    /\ ledger[q] \in {"none", "draft", "active"} /\ ledger[q] # to
    /\ ledger[q] = "none" => known_person(q)
    /\ to = "draft" /\ ledger[q] # "none" =>
          \A c \in DOMAIN conns : conns[c].person = q => conns[c].st # "active"
    /\ ledger' = [ledger EXCEPT ![q] = to]
    /\ UNCHANGED <<scope, role, duty, known, conns, grants, position, bound, audience>>

Carried(c, object) ==
    /\ conns[c].st = "active"
    /\ IF object = "position" THEN conns[c].scope = "child" ELSE conns[c].person = object

organization_retire(actor, object) ==
    /\ command(actor) /\ catalog_admin(policy, actor)
    /\ \A c \in DOMAIN conns : Carried(c, object) => Manageable(policy, actor, c)
    /\ conns' = [c \in DOMAIN conns |-> IF Carried(c, object)
                                        THEN [conns[c] EXCEPT !.st = "ended"] ELSE conns[c]]
    /\ IF object = "position"
       THEN position \in {"draft", "active"} /\ position' = "retired" /\ UNCHANGED ledger
       ELSE /\ ledger[object] \in {"draft", "active"} /\ UNCHANGED position
            /\ ledger' = [ledger EXCEPT ![object] = "retired"]
    /\ UNCHANGED <<scope, role, duty, known, grants, bound, audience>>

organization_restore(actor, object) ==
    /\ command(actor) /\ catalog_admin(policy, actor)
    /\ IF object = "position"
       THEN position = "retired" /\ position' = "active" /\ UNCHANGED ledger
       ELSE ledger[object] = "retired" /\ ledger' = [ledger EXCEPT ![object] = "active"]
            /\ UNCHANGED position
    /\ UNCHANGED <<scope, role, duty, known, conns, grants, bound, audience>>

\* The contacts of a connection are set under a grant that may publish there.
set_audience(actor, c) ==
    /\ command(actor) /\ c # 1 /\ InUse(c) /\ can_inspect(policy, actor, conns[c].scope)
    /\ \E i \in Managers(policy, actor, conns[c].scope, "publish") :
          audience' = [audience EXCEPT ![c] = i]
    /\ UNCHANGED <<scope, role, duty, known, conns, grants, position, ledger, bound>>

\* May the connection contact its audience proactively, now?
contact_decision(p, c) ==
    IF /\ c # 1 /\ conns[c].st = "active" /\ conns[c].term = "now" /\ duty.st = "active"
       /\ known_person(conns[c].person) /\ scope[conns[c].scope] = "active"
       /\ audience[c] # 0 /\ effective(p, audience[c])
    THEN decision(p, c, "publish") ELSE "denied"

-----------------------------------------------------------------------------
(* The environment: time, and the identities other components confirm.       *)

Starts(c) == /\ conns[c].term = "future" /\ conns' = [conns EXCEPT ![c].term = "now"]
             /\ UNCHANGED <<scope, role, duty, known, grants, position, ledger, bound, audience, policyVer>>
Expires(c) == /\ c # 1 /\ conns[c].term # "past" /\ conns' = [conns EXCEPT ![c].term = "past"]
              /\ UNCHANGED <<scope, role, duty, known, grants, position, ledger, bound, audience, policyVer>>
IdentityChanges(q) == /\ \E c \in DOMAIN conns : conns[c].person = q
                      /\ known' = IF q \in known THEN known \ {q} ELSE known \cup {q}
                      /\ UNCHANGED <<scope, role, duty, conns, grants, position, ledger, bound, audience, policyVer>>

PolicyNext ==
    \/ policyVer < MaxPolicy /\ \E actor \in Persons :
          \/ \E q \in Staff, s \in {"root", "child"}, t \in {"now", "future"} :
                \E settings \in Assignments(q) : AssignNew(actor, q, s, settings, t)
          \/ \E c \in DOMAIN conns : \E settings \in Assignments(conns[c].person) :
                \/ AssignSame(actor, c, settings)
                \/ \E s \in {"root", "child"} : AssignReplaced(actor, c, s, settings)
          \/ \E i \in DOMAIN grants : RevokeGrant(actor, i)
          \/ \E c \in DOMAIN conns : EndConnection(actor, c) \/ set_audience(actor, c)
          \/ CreateScope(actor) \/ SetGroups(actor) \/ SaveRole(actor)
          \/ \E acts \in {Acts, {"manage", "review"}} : SaveDuty(actor, acts)
          \/ \E o \in {"duty", "scope"} : retire_catalog(actor, o) \/ RestoreCatalog(actor, o)
          \/ \E to \in {"draft", "active"} :
                SavePosition(actor, to) \/ \E q \in Staff : SaveLedger(actor, q, to)
          \/ \E o \in {"position"} \cup Staff :
                organization_retire(actor, o) \/ organization_restore(actor, o)
    \/ \E c \in DOMAIN conns : Starts(c) \/ Expires(c)
    \/ \E q \in Staff : IdentityChanges(q)

-----------------------------------------------------------------------------
EffectiveNow == {i \in DOMAIN grants : effective(policy, i)}

Ancestors(i) == LET up[j \in DOMAIN grants] ==
                        IF grants[j].parent = 0 THEN {} ELSE {grants[j].parent} \cup up[grants[j].parent]
                IN up[i]

\* Whatever was assigned, narrowed, retired, restored, ended or lapsed in
\* between: no effective grant is outside the duty it was given for or outside
\* the envelope of any delegation above it, however far up.
AuthorityBounded ==
    \A i \in EffectiveNow :
        /\ grants[i].conn # 1 => grants[i].action \in duty.acts /\ role.duty
        /\ \A j \in Ancestors(i) :
              /\ j \in EffectiveNow /\ grants[i].action \in grants[j].gives
              /\ grants[i].gives \subseteq grants[j].gives
              /\ in_scope(conns[grants[i].conn].scope, conns[grants[j].conn].scope, TRUE)

\* Restoring a catalog object, a position or a person in the ledger brings no
\* authority back: RestoreCatalog and the lifecycle answer restored_authorizations 0.
RestoreGivesNothing ==
    (/\ policyVer' # policyVer /\ conns' = conns /\ grants' = grants)
        => {i \in DOMAIN grants : effective(policy, i)'} \subseteq EffectiveNow
=============================================================================
