------------------------- MODULE SpaceConfiguration -------------------------
(***************************************************************************)
(* Change proposals of Spaces (space_configuration.rs).  A trusted group   *)
(* message prepares a proposal: an intent whose dependencies are resolved  *)
(* to exact versions and stored with a confirmation code.  An              *)
(* administrator confirms it: one transaction resolves the intent again,   *)
(* refuses any drift, checks the code, and publishes new versions of       *)
(* business, event-mapping and automation definitions.                     *)
(*                                                                         *)
(* Business and automation streams belong to one Space; the event-mapping  *)
(* stream belongs to the provider and is shared by all Spaces.             *)
(* resolve_context updates the conversation row, so one Space runs one     *)
(* transaction at a time; transactions of different Spaces interleave at   *)
(* read committed, with the row locks the code takes (FOR UPDATE on the    *)
(* active version it supersedes) and an advisory lock on each stream.  A   *)
(* transaction's writes become visible at its commit, so publishing and    *)
(* commit are one step; what it read before is two earlier steps.          *)
(***************************************************************************)
EXTENDS Naturals, FiniteSets, Sequences

CONSTANTS
    Spaces,        \* QiWe groups
    Proposals,     \* change requests, keyed by their source message
    Intents,       \* what a message may ask for
    Persons,       \* people who may act
    Globals,       \* community owners and administrators
    MaxVersion,    \* bound: versions of one stream
    MaxAttempts,   \* MAX_CONFIRMATION_ATTEMPTS
    None           \* no Space, no proposal

ASSUME ConfigurationConstants ==
    /\ Globals \subseteq Persons
    /\ MaxVersion \in Nat /\ MaxAttempts \in Nat \ {0}

VARIABLES
    mapping,       \* versions of the provider's event mapping
    biz,           \* versions of each Space's business definition
    auto,          \* versions of each Space's event automation
    seenMap,       \* mapping versions a Space observed a real event under
    seenAuto,      \* automation versions observed in shadow
    admins,        \* space_admin memberships
    proposal,      \* stored proposals
    tx,            \* the transaction confirming in each Space
    stream         \* holder of the mapping stream's advisory lock

vars == <<mapping, biz, auto, seenMap, seenAuto, admins, proposal, tx, stream>>
definitions == <<mapping, biz, auto>>
observations == <<seenMap, seenAuto>>

Published == {"shadow", "active", "paused", "retired"}
Change == Published \cup {"none"}

\* What the parser of intents lets through.
ASSUME IntentShape ==
    \A i \in Intents : /\ i.op \in {"none", "pause", "rollback", "activate"}
                       /\ {i.map, i.biz, i.auto} \subseteq Change

NoTx == [pc |-> "idle", proposal |-> None, actor |-> None, row |-> 0]

NoProposal == [status |-> "none", space |-> None, intent |-> None,
               content |-> None, attempts |-> 0, tries |-> 0,
               expired |-> FALSE, confirmers |-> {}]

Init ==
    /\ mapping = <<>>
    /\ biz = [s \in Spaces |-> <<>>]
    /\ auto = [s \in Spaces |-> <<>>]
    /\ seenMap = [s \in Spaces |-> {}]
    /\ seenAuto = [s \in Spaces |-> {}]
    /\ admins = [s \in Spaces |-> {}]
    /\ proposal = [p \in Proposals |-> NoProposal]
    /\ tx = [s \in Spaces |-> NoTx]
    /\ stream = None

-----------------------------------------------------------------------------
(* Reading the definitions.                                                *)

Active(versions) == {v \in DOMAIN versions : versions[v].status = "active"}

\* The active version, 0 if there is none (the index allows only one).
ActiveVersion(versions) ==
    IF Active(versions) = {} THEN 0 ELSE CHOOSE v \in Active(versions) : TRUE

SupersedesActive(status) == status \in {"active", "paused", "retired"}

\* reuse_active_event_mappings: a mapping that is active already is dropped.
ReuseActiveMapping(i) ==
    IF /\ i.map \in {"shadow", "active"}
       /\ \E v \in Active(mapping) : mapping[v].content = i.content
    THEN "none" ELSE i.map

\* load_automation_activation_target: the head of the stream, in shadow,
\* whose business and mapping are the heads of theirs.
ActivationTarget(s) ==
    LET v == Len(auto[s]) IN
    /\ v > 0
    /\ auto[s][v].status = "shadow"
    /\ auto[s][v].biz = Len(biz[s])
    /\ biz[s][Len(biz[s])].status \in {"shadow", "active"}
    /\ auto[s][v].map = Len(mapping)
    /\ mapping[Len(mapping)].status \in {"shadow", "active"}

\* load_automation_operation_target: the version to pause or to restore.
OperationTarget(s, op) ==
    IF op = "pause" THEN ActiveVersion(auto[s])
    ELSE IF Len(auto[s]) > 1 THEN Len(auto[s]) - 1 ELSE 0

\* expand_activation_operations_for_apply: what is still in shadow becomes
\* active together with the automation.
ActivationChanges(s) ==
    [map |-> IF Active(mapping) = {} THEN "active" ELSE "none",
     content |-> mapping[Len(mapping)].content,
     biz |-> IF Active(biz[s]) = {} THEN "active" ELSE "none",
     auto |-> "active", src |-> Len(auto[s])]

\* materialize_definition_operations: the changes an intent stands for.
Changes(s, i) ==
    CASE i.op = "none" ->
           [map |-> ReuseActiveMapping(i), content |-> i.content,
            biz |-> i.biz, auto |-> i.auto, src |-> 0]
      [] i.op \in {"pause", "rollback"} ->
           [map |-> "none", content |-> i.content, biz |-> "none",
            auto |-> IF i.op = "pause" THEN "paused" ELSE "active",
            src |-> OperationTarget(s, i.op)]
      [] i.op = "activate" -> ActivationChanges(s)

\* materialize_automation_dependency_bindings: the active version of a
\* dependency and the head of its stream; 0 stands for a definition of the
\* same proposal.
Binding(versions, c, own) ==
    IF c.auto # "none" /\ own = "none"
    THEN [ref |-> ActiveVersion(versions), head |-> Len(versions)]
    ELSE [ref |-> 0, head |-> 0]

\* materialize_trusted_intent: the canonical intent with every version it
\* depends on.
Materialize(s, i) ==
    LET c == Changes(s, i)
        b == Binding(biz[s], c, c.biz)
        m == Binding(mapping, c, c.map)
    IN [op |-> i.op, map |-> c.map, content |-> c.content, biz |-> c.biz,
        auto |-> c.auto, src |-> c.src,
        mapHead |-> IF c.map = "none" THEN 0 ELSE Len(mapping),
        bizRef |-> b.ref, bizHead |-> b.head,
        mapRef |-> m.ref, refHead |-> m.head,
        autoHead |-> IF i.op = "none" THEN 0 ELSE Len(auto[s])]

\* automation_transition_covers.
Covers(current, proposed) ==
    \/ current = "active" /\ proposed \in {"active", "paused", "retired"}
    \/ current = "shadow" /\ proposed \in Published

Dependents(r, field, v) ==
    {w \in DOMAIN auto[r] :
        auto[r][w][field] = v /\ auto[r][w].status \in {"active", "shadow"}}

\* Mutant: nobody asks who uses a superseded definition.
TransitionsCoveredMutant(s, c) == TRUE

\* validate_dependency_transitions: a definition in use is superseded only
\* together with the automations of this Space that use it, and a mapping
\* another Space uses not at all.
TransitionsCovered(s, c) ==
    /\ SupersedesActive(c.biz) /\ Active(biz[s]) # {} =>
          \A w \in Dependents(s, "biz", ActiveVersion(biz[s])) :
             Covers(auto[s][w].status, c.auto)
    /\ SupersedesActive(c.map) /\ Active(mapping) # {} =>
          \A r \in Spaces : \A w \in Dependents(r, "map", ActiveVersion(mapping)) :
             r = s /\ Covers(auto[s][w].status, c.auto)

\* Mutant: the target does not have to be observed.
ActivationReadyMutant(s) ==
    /\ ActivationTarget(s)
    /\ mapping[Len(mapping)].status = "shadow" => Active(mapping) = {}
    /\ biz[s][Len(biz[s])].status = "shadow" => Active(biz[s]) = {}

\* validate_automation_activation_target: the target was observed, and what
\* it would activate replaces no other active version.
ActivationReady(s) ==
    /\ ActivationTarget(s)
    /\ Len(auto[s]) \in seenAuto[s]
    /\ mapping[Len(mapping)].status = "shadow" => Active(mapping) = {}
    /\ biz[s][Len(biz[s])].status = "shadow" => Active(biz[s]) = {}

\* validate_active_automation_runtime_contracts: an automation has its two
\* dependencies, and an active one no weaker than itself.
RuntimeContract(s, c) ==
    /\ c.auto # "none" /\ c.biz = "none" => Active(biz[s]) # {}
    /\ c.auto # "none" /\ c.map = "none" => Active(mapping) # {}
    /\ c.auto = "active" => c.biz \in {"none", "active"}

\* The refusals of materialize_trusted_intent.
Acceptable(s, i) ==
    LET c == Materialize(s, i) IN
    /\ i.op = "activate" => ActivationReady(s)
    /\ i.op \in {"pause", "rollback"} =>
          c.src > 0 /\ auto[s][c.src].biz \in Active(biz[s])
             /\ auto[s][c.src].map \in Active(mapping)
    /\ i.op = "none" /\ c.map = "active" =>
          \E v \in seenMap[s] : mapping[v].status = "shadow"
                                   /\ mapping[v].content = c.content
    /\ {c.map, c.biz, c.auto} # {"none"}
    /\ RuntimeContract(s, c)
    /\ TransitionsCovered(s, c)

\* authorize_actor: an administrator of the Space, or while it has none a
\* community administrator.
Authorized(s, a) == a \in IF admins[s] = {} THEN Globals ELSE admins[s]

ProtectsProviderMapping(c) == c.map # "none"

\* authorized_confirmer_ids.
Confirmers(s, c) ==
    IF ProtectsProviderMapping(c) THEN Globals
    ELSE IF admins[s] = {} THEN Globals ELSE admins[s]

-----------------------------------------------------------------------------
(* Prepare, in a transaction of its own.                                   *)

\* A new code for every confirmer, no attempt used.
Issue(p, s, i, c) ==
    proposal' = [proposal EXCEPT ![p] =
        [status |-> "awaiting", space |-> s, intent |-> i, content |-> c,
         attempts |-> 0, tries |-> 0, expired |-> FALSE,
         confirmers |-> Confirmers(s, c)]]

\* load_existing_proposal, reissue_existing_confirmation: a repeated message
\* with the same content gets a new code, one with another content nothing.
Reissuable(p, s, c) ==
    /\ proposal[p].status = "awaiting" /\ proposal[p].space = s
    /\ proposal[p].content = c

\* prepare_internal.
Prepare(p, s, i) ==
    /\ tx[s].pc = "idle"
    /\ Acceptable(s, i)
    /\ Confirmers(s, Materialize(s, i)) # {}
    /\ \/ proposal[p].status = "none"
       \/ Reissuable(p, s, Materialize(s, i))
    /\ Issue(p, s, i, Materialize(s, i))
    /\ UNCHANGED <<definitions, observations, admins, tx, stream>>

CodeExpires(p) ==
    /\ proposal[p].status = "awaiting" /\ ~proposal[p].expired
    /\ proposal' = [proposal EXCEPT ![p].expired = TRUE]
    /\ UNCHANGED <<definitions, observations, admins, tx, stream>>

-----------------------------------------------------------------------------
(* Confirm.                                                                *)

\* Mutant: the stored intent is not resolved again.
NoDriftMutant(s, p) == TRUE

\* "Space configuration changed after prepare; create a new proposal".
NoDrift(s, p) ==
    /\ Acceptable(s, proposal[p].intent)
    /\ Materialize(s, proposal[p].intent) = proposal[p].content

\* The checks that come before the code is compared.
MayConfirm(s, p, a) ==
    /\ tx[s].pc = "idle"
    /\ proposal[p].status = "awaiting" /\ proposal[p].space = s
    /\ NoDrift(s, p)
    /\ Authorized(s, a)
    /\ ProtectsProviderMapping(proposal[p].content) => a \in Globals
    /\ ~proposal[p].expired
    /\ proposal[p].attempts < MaxAttempts
    /\ a \in proposal[p].confirmers

\* The version whose row validate_dependency_transitions locks.
SupersededMapping(c) ==
    IF SupersedesActive(c.map) THEN ActiveVersion(mapping) ELSE 0

RowFree(s, v) == \A r \in Spaces \ {s} : v = 0 \/ tx[r].row # v

\* Mutant: the used attempt is rolled back with the refusal.
DenyCodeMutant(s, p, a) ==
    /\ MayConfirm(s, p, a)
    /\ proposal' = [proposal EXCEPT ![p].tries = @ + 1]
    /\ UNCHANGED <<definitions, observations, admins, tx, stream>>

\* confirm with a wrong code: the attempt is committed.
DenyCode(s, p, a) ==
    /\ MayConfirm(s, p, a)
    /\ proposal' = [proposal EXCEPT ![p].attempts = @ + 1, ![p].tries = @ + 1]
    /\ UNCHANGED <<definitions, observations, admins, tx, stream>>

\* confirm with the right code, up to apply_intent: the row of the mapping
\* version to supersede is locked; an activation also holds the stream.
BeginConfirm(s, p, a) ==
    LET c == proposal[p].content IN
    /\ MayConfirm(s, p, a)
    /\ RowFree(s, SupersededMapping(c))
    /\ c.op = "activate" => stream = None
    /\ stream' = IF c.op = "activate" THEN s ELSE stream
    /\ tx' = [tx EXCEPT ![s] = [pc |-> "begun", proposal |-> p, actor |-> a,
                                row |-> SupersededMapping(c)]]
    /\ UNCHANGED <<definitions, observations, admins, proposal>>

EndTx(s) ==
    /\ tx' = [tx EXCEPT ![s] = NoTx]
    /\ stream' = IF stream = s THEN None ELSE stream

\* apply_intent validates the transitions again, in a later statement.
Revalidate(s) ==
    LET c == proposal[tx[s].proposal].content IN
    /\ tx[s].pc = "begun"
    /\ RowFree(s, SupersededMapping(c))
    /\ TransitionsCovered(s, c)
    /\ tx' = [tx EXCEPT ![s].pc = "valid", ![s].row = SupersededMapping(c)]
    /\ UNCHANGED <<definitions, observations, admins, proposal, stream>>

\* The status and version an automation of the proposal binds.
BoundBiz(s, c) ==
    IF c.biz # "none" THEN [status |-> c.biz, version |-> Len(biz[s]) + 1]
    ELSE [status |-> biz[s][c.bizRef].status, version |-> c.bizRef]

BoundMap(c) ==
    IF c.map # "none" THEN [status |-> c.map, version |-> Len(mapping) + 1]
    ELSE [status |-> mapping[c.mapRef].status, version |-> c.mapRef]

ContentOf(c) ==
    IF c.map # "none" THEN c.content ELSE mapping[c.mapRef].content

\* resolve_bound_*_reference: an existing definition is still active and
\* still the head it was when the proposal was prepared.
ReferencesHold(s, c) ==
    /\ c.bizRef # 0 => c.bizRef \in Active(biz[s]) /\ Len(biz[s]) = c.bizHead
    /\ c.mapRef # 0 => c.mapRef \in Active(mapping) /\ Len(mapping) = c.refHead

\* The shadow version whose observation supports restoring version v: the
\* lineage recorded when v was itself restored, its predecessor otherwise.
RollbackEvidence(s, v) ==
    IF auto[s][v].lineage > 0 THEN auto[s][v].lineage ELSE v - 1

\* require_same_space_automation_*_observation.
Observed(s, c) ==
    CASE c.op = "activate" -> TRUE
      [] c.op = "rollback" ->
           /\ auto[s][c.src].status = "retired"
           /\ auto[s][c.src].activated
           /\ auto[s][c.src].biz = BoundBiz(s, c).version
           /\ auto[s][c.src].map = BoundMap(c).version
           /\ RollbackEvidence(s, c.src) \in seenAuto[s]
           /\ mapping[auto[s][RollbackEvidence(s, c.src)].map].content
                 = ContentOf(c)
      [] OTHER ->
           \E w \in seenAuto[s] :
              /\ auto[s][w].status = "shadow"
              /\ mapping[auto[s][w].map].status \in {"shadow", "active"}
              /\ mapping[auto[s][w].map].content = ContentOf(c)

\* The refusals of the apply loop.
Applicable(s, c) ==
    /\ ReferencesHold(s, c)
    /\ c.auto = "active" =>
          /\ BoundBiz(s, c).status = "active"
          /\ BoundMap(c).status = "active"
          /\ Observed(s, c)
    /\ c.auto = "shadow" =>
          /\ BoundBiz(s, c).status \in {"shadow", "active"}
          /\ BoundMap(c).status \in {"shadow", "active"}

Retire(versions, statuses) ==
    [v \in DOMAIN versions |->
       IF versions[v].status \in statuses
       THEN [versions[v] EXCEPT !.status = "retired"] ELSE versions[v]]

\* apply_event_mapping, apply_business_definition: the active version
\* retires, the new one is the next of its stream.
Publish(versions, status, record) ==
    IF status = "none" THEN versions
    ELSE Append(Retire(versions, IF SupersedesActive(status) THEN {"active"} ELSE {}),
                record)

\* apply_automation_definition.
PublishAutomation(s, c) ==
    IF c.auto = "none" THEN auto[s]
    ELSE Append(Retire(auto[s], IF c.auto = "shadow" THEN {"shadow"}
                                ELSE {"active", "shadow"}),
                [status |-> c.auto, biz |-> BoundBiz(s, c).version,
                 map |-> BoundMap(c).version, activated |-> c.auto = "active",
                 lineage |-> IF c.op = "rollback"
                             THEN RollbackEvidence(s, c.src) ELSE 0])

\* The end of confirm: bootstrap_space_admin, and the code is consumed.
Complete(s, p) ==
    /\ admins' = [admins EXCEPT ![s] = IF @ = {} THEN {tx[s].actor} ELSE @]
    /\ proposal' = [proposal EXCEPT ![p].status = "completed"]

\* apply_intent and the rest of confirm: the new versions, then commit.
Apply(s) ==
    LET p == tx[s].proposal
        c == proposal[p].content
    IN
    /\ tx[s].pc = "valid"
    /\ c.map # "none" => stream \in {None, s} /\ RowFree(s, ActiveVersion(mapping))
    /\ RowFree(s, c.mapRef)
    /\ Applicable(s, c)
    /\ Len(mapping) < MaxVersion /\ Len(biz[s]) < MaxVersion
    /\ Len(auto[s]) < MaxVersion
    /\ mapping' = Publish(mapping, c.map, [status |-> c.map, content |-> c.content])
    /\ biz' = [biz EXCEPT ![s] = Publish(biz[s], c.biz, [status |-> c.biz])]
    /\ auto' = [auto EXCEPT ![s] = PublishAutomation(s, c)]
    /\ Complete(s, p)
    /\ EndTx(s)
    /\ UNCHANGED observations

\* Any refusal or failure of the transaction: nothing is kept.
Abort(s) ==
    /\ tx[s].pc # "idle"
    /\ EndTx(s)
    /\ UNCHANGED <<definitions, observations, admins, proposal>>

-----------------------------------------------------------------------------
(* Outside: shadow observations of the event consumer.                     *)

ObserveMapping(s, v) ==
    /\ v \in DOMAIN mapping /\ mapping[v].status = "shadow"
    /\ seenMap' = [seenMap EXCEPT ![s] = @ \cup {v}]
    /\ UNCHANGED <<definitions, seenAuto, admins, proposal, tx, stream>>

ObserveAutomation(s, v) ==
    /\ v \in DOMAIN auto[s] /\ auto[s][v].status = "shadow"
    /\ mapping[auto[s][v].map].status \in {"shadow", "active"}
    /\ seenAuto' = [seenAuto EXCEPT ![s] = @ \cup {v}]
    /\ UNCHANGED <<definitions, seenMap, admins, proposal, tx, stream>>

Next ==
    \/ \E p \in Proposals, s \in Spaces, i \in Intents : Prepare(p, s, i)
    \/ \E p \in Proposals : CodeExpires(p)
    \/ \E s \in Spaces, p \in Proposals, a \in Persons :
          DenyCode(s, p, a) \/ BeginConfirm(s, p, a)
    \/ \E s \in Spaces : Revalidate(s) \/ Apply(s) \/ Abort(s)
    \/ \E s \in Spaces, v \in 1..MaxVersion :
          ObserveMapping(s, v) \/ ObserveAutomation(s, v)

Spec == Init /\ [][Next]_vars

-----------------------------------------------------------------------------

\* "cannot replace business definition while active or shadow automation
\* still references it": whatever is confirmed in whatever order, an
\* automation that can run has a business definition that is not retired.
BusinessOfAutomationAlive ==
    \A s \in Spaces : \A v \in DOMAIN auto[s] :
       auto[s][v].status \in {"active", "shadow"} =>
          biz[s][auto[s][v].biz].status \in {"shadow", "active"}

\* The same of the provider's event mapping, which other Spaces publish too.
MappingOfAutomationAlive ==
    \A s \in Spaces : \A v \in DOMAIN auto[s] :
       auto[s][v].status = "active" =>
          mapping[auto[s][v].map].status = "active"

\* An event automation is active only when this Space saw a real event
\* decoded by the same mapping content under a shadow version, through any
\* chain of activations, pauses and rollbacks.
ActiveWasObserved ==
    \A s \in Spaces : \A v \in Active(auto[s]) :
       \E w \in seenAuto[s] :
          mapping[auto[s][w].map].content = mapping[auto[s][v].map].content

\* One issued code survives at most MaxAttempts wrong guesses.
GuessesBounded == \A p \in Proposals : proposal[p].tries <= MaxAttempts

\* A proposal publishes what was shown when it was prepared: the versions it
\* was resolved against are still the ones it resolves to when its
\* transaction starts, and each proposal is applied at most once.
PublishesWhatWasShown ==
    [][\A p \in Proposals :
         /\ proposal[p].status = "completed" => proposal'[p] = proposal[p]
         /\ proposal'[p].status = "completed" /\ proposal[p].status # "completed" =>
               LET s == proposal[p].space IN
               auto'[s] # auto[s] =>
                  LET new == auto'[s][Len(auto'[s])] IN
                  /\ proposal[p].content.bizRef # 0 =>
                        new.biz = proposal[p].content.bizRef
                  /\ proposal[p].content.autoHead # 0 =>
                        Len(auto'[s]) = proposal[p].content.autoHead + 1]_vars

=============================================================================
