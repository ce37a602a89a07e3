---------------------- MODULE SpaceConfigurationProofs ----------------------
(***************************************************************************)
(* What holds of change proposals for every number of Spaces, proposals,   *)
(* intents and persons.  The streams keep their shape, at most one active  *)
(* version and their references, and a transaction that is under way still *)
(* stands on what it checked at its beginning in the streams of its own    *)
(* Space (TxInv): a Space runs one transaction at a time.  The mapping     *)
(* stream is not its own; what is said of it at the end needs one Space.   *)
(***************************************************************************)
EXTENDS SpaceConfiguration, Integers, TLAPS

Contents == {i.content : i \in Intents}
MappingVersion == [status : Published, content : Contents]
BusinessVersion == [status : Published]
Automation == [status : Published, biz : Nat, map : Nat, activated : BOOLEAN, lineage : Int]

StreamsType ==
    /\ mapping \in Seq(MappingVersion)
    /\ biz \in [Spaces -> Seq(BusinessVersion)]
    /\ auto \in [Spaces -> Seq(Automation)]
    /\ seenAuto \in [Spaces -> SUBSET Nat]

\* The version a stream's index calls active is the only one.
OneActive ==
    /\ \A v, w \in Active(mapping) : v = w
    /\ \A s \in Spaces : \A v, w \in Active(biz[s]) : v = w

\* Automations and observations refer to versions that exist.
References ==
    \A s \in Spaces :
        /\ seenAuto[s] \subseteq DOMAIN auto[s]
        /\ \A v \in DOMAIN auto[s] :
              auto[s][v].biz \in DOMAIN biz[s] /\ auto[s][v].map \in DOMAIN mapping

\* The resolved changes of a proposal.
IsContent(c) ==
    /\ c.map \in Change /\ c.biz \in Change /\ c.auto \in Change
    /\ c.content \in Contents
    /\ c.bizRef \in Nat /\ c.mapRef \in Nat
    /\ c.bizRef # 0 => c.biz = "none"

IsProposal(p) ==
    /\ DOMAIN p = {"status", "space", "intent", "content", "attempts", "tries", "expired",
                   "confirmers"}
    /\ p.status \in {"none", "awaiting", "completed"}
    /\ p.attempts \in Nat /\ p.tries = p.attempts /\ p.attempts <= MaxAttempts
    /\ p.status # "none" => p.intent \in Intents /\ IsContent(p.content)

ProposalsInv ==
    DOMAIN proposal = Proposals /\ \A p \in Proposals : IsProposal(proposal[p])

\* Automations of a Space that use the active business definition are
\* replaced together with it.
BizCovered(s, c) ==
    SupersedesActive(c.biz) /\ Active(biz[s]) # {} =>
        \A w \in Dependents(s, "biz", ActiveVersion(biz[s])) : Covers(auto[s][w].status, c.auto)

\* What a transaction of Space s over content c relies on.
Grounded(s, c) ==
    /\ c.auto # "none" /\ c.biz = "none" => c.bizRef \in Active(biz[s])
    /\ c.auto # "none" /\ c.map = "none" => c.mapRef \in DOMAIN mapping
    /\ BizCovered(s, c)
    /\ c.autoHead # 0 => c.autoHead = Len(auto[s])
    /\ c.op = "rollback" => c.src \in DOMAIN auto[s]
    /\ c.op = "activate" =>
          /\ c.auto # "none"
          /\ \E w \in seenAuto[s] : mapping[auto[s][w].map].content = ContentOf(c)

TxInv ==
    /\ DOMAIN tx = Spaces
    /\ \A s \in Spaces :
        /\ DOMAIN tx[s] = {"pc", "proposal", "actor", "row"}
        /\ tx[s].pc # "idle" =>
              /\ tx[s].proposal \in Proposals
              /\ proposal[tx[s].proposal].status = "awaiting"
              /\ proposal[tx[s].proposal].space = s
              /\ Grounded(s, proposal[tx[s].proposal].content)

ConfigInv ==
    /\ StreamsType /\ OneActive /\ References /\ ProposalsInv /\ TxInv
    /\ BusinessOfAutomationAlive /\ ActiveWasObserved

-----------------------------------------------------------------------------
(* Streams of versions.                                                     *)

LEMMA ActiveResult ==
    ASSUME NEW vs PROVE /\ Active(vs) \subseteq DOMAIN vs
                        /\ Active(vs) # {} => ActiveVersion(vs) \in Active(vs)
                        /\ Active(vs) = {} => ActiveVersion(vs) = 0
BY DEF Active, ActiveVersion

Retired(r) == [r EXCEPT !.status = "retired"]

\* Versions of this shape have a status, and keep the shape when they retire.
Retirable(R) == \A r \in R : "status" \in DOMAIN r /\ Retired(r) \in R

LEMMA RetireResult ==
    ASSUME NEW R, NEW vs \in Seq(R), NEW S, Retirable(R)
    PROVE  /\ Retire(vs, S) \in Seq(R) /\ Len(Retire(vs, S)) = Len(vs)
           /\ \A v \in 1..Len(vs) :
                 Retire(vs, S)[v] = IF vs[v].status \in S THEN Retired(vs[v])
                                    ELSE vs[v]
<1>1. DOMAIN vs = 1..Len(vs) /\ Len(vs) \in Nat /\ \A v \in 1..Len(vs) : vs[v] \in R
  OBVIOUS
<1>2. \A v \in 1..Len(vs) :
         (IF vs[v].status \in S THEN Retired(vs[v]) ELSE vs[v]) \in R
  BY <1>1 DEF Retirable
<1>. DEFINE e(v) == IF vs[v].status \in S THEN Retired(vs[v]) ELSE vs[v]
<1>3. Retire(vs, S) = [v \in 1..Len(vs) |-> e(v)]
  BY <1>1 DEF Retire, Retired
<1>4. \A v \in 1..Len(vs) : e(v) \in R
  BY <1>2
<1>. HIDE DEF e
<1>5. /\ Retire(vs, S) \in Seq(R) /\ Len(Retire(vs, S)) = Len(vs)
      /\ \A v \in 1..Len(vs) : Retire(vs, S)[v] = e(v)
  BY <1>1, <1>3, <1>4
<1>. QED
  BY <1>5 DEF e

\* The next version is appended, and what it supersedes retires; nothing but
\* the status of a version ever changes.
LEMMA PublishResult ==
    ASSUME NEW R, NEW vs \in Seq(R), Retirable(R),
           NEW st, st # "none", NEW record \in R
    PROVE  /\ Publish(vs, st, record) \in Seq(R)
           /\ Len(Publish(vs, st, record)) = Len(vs) + 1
           /\ Publish(vs, st, record)[Len(vs) + 1] = record
           /\ \A v \in 1..Len(vs) :
                 Publish(vs, st, record)[v] =
                    IF SupersedesActive(st) /\ vs[v].status = "active"
                    THEN Retired(vs[v]) ELSE vs[v]
<1>. DEFINE S == IF SupersedesActive(st) THEN {"active"} ELSE {}
<1>1. Publish(vs, st, record) = Append(Retire(vs, S), record) /\ Len(vs) \in Nat
  BY DEF Publish
<1>. HIDE DEF S
<1>2. /\ Retire(vs, S) \in Seq(R) /\ Len(Retire(vs, S)) = Len(vs)
      /\ \A v \in 1..Len(vs) :
            Retire(vs, S)[v] = IF vs[v].status \in S THEN Retired(vs[v])
                               ELSE vs[v]
  BY RetireResult
<1>3. \A v : vs[v].status \in S <=> SupersedesActive(st) /\ vs[v].status = "active"
  BY DEF S
<1>4. /\ Publish(vs, st, record) \in Seq(R)
      /\ Len(Publish(vs, st, record)) = Len(vs) + 1
      /\ Publish(vs, st, record)[Len(vs) + 1] = record
      /\ \A v \in 1..Len(vs) : Publish(vs, st, record)[v] = Retire(vs, S)[v]
  BY <1>1, <1>2
<1>. QED
  BY <1>2, <1>3, <1>4

LEMMA RetiredTypes ==
    Retirable(MappingVersion) /\ Retirable(BusinessVersion) /\ Retirable(Automation)
BY DEF Retirable, Retired, MappingVersion, BusinessVersion, Automation, Published

\* What a publication makes of a stream: the new version is the next one, and
\* only one that supersedes it takes the status of the active version.
Succeeds(new, vs, st, record) ==
    /\ DOMAIN vs \subseteq DOMAIN new
    /\ \A v \in DOMAIN vs :
          new[v].status = IF SupersedesActive(st) /\ vs[v].status = "active"
                          THEN "retired" ELSE vs[v].status
    /\ st = "none" => new = vs
    /\ st # "none" => /\ DOMAIN new = DOMAIN vs \cup {Len(vs) + 1}
                      /\ Len(vs) + 1 \notin DOMAIN vs
                      /\ new[Len(vs) + 1] = record

LEMMA PublishedStatus ==
    ASSUME NEW R, NEW vs \in Seq(R), Retirable(R),
           NEW st, NEW record, st # "none" => record \in R
    PROVE  /\ Publish(vs, st, record) \in Seq(R)
           /\ Succeeds(Publish(vs, st, record), vs, st, record)
<1>1. DOMAIN vs = 1..Len(vs) /\ Len(vs) \in Nat /\ \A v \in 1..Len(vs) : vs[v] \in R
  OBVIOUS
<1>2. CASE st = "none"
  <2>1. Publish(vs, st, record) = vs /\ ~SupersedesActive(st)
    BY <1>2 DEF Publish, SupersedesActive
  <2>. QED
    BY <1>2, <2>1 DEF Succeeds
<1>3. CASE st # "none"
  <2>. record \in R
    BY <1>3
  <2>1. PICK new : new = Publish(vs, st, record)
    OBVIOUS
  <2>2. /\ Publish(vs, st, record) \in Seq(R)
        /\ Len(Publish(vs, st, record)) = Len(vs) + 1
        /\ Publish(vs, st, record)[Len(vs) + 1] = record
        /\ \A v \in 1..Len(vs) :
              Publish(vs, st, record)[v] =
                 IF SupersedesActive(st) /\ vs[v].status = "active"
                 THEN Retired(vs[v]) ELSE vs[v]
    BY <1>3, PublishResult
  <2>3. /\ new \in Seq(R) /\ Len(new) = Len(vs) + 1 /\ new[Len(vs) + 1] = record
        /\ \A v \in 1..Len(vs) :
              new[v] = IF SupersedesActive(st) /\ vs[v].status = "active"
                       THEN Retired(vs[v]) ELSE vs[v]
    BY <2>1, <2>2
  <2>4. DOMAIN new = DOMAIN vs \cup {Len(vs) + 1} /\ Len(vs) + 1 \notin DOMAIN vs
    <3>1. DOMAIN new = 1..(Len(vs) + 1)
      BY <2>3
    <3>. QED
      BY <1>1, <3>1
  <2>5. ASSUME NEW v \in DOMAIN vs
        PROVE  new[v].status = IF SupersedesActive(st) /\ vs[v].status = "active"
                               THEN "retired" ELSE vs[v].status
    <3>1. Retired(vs[v]).status = "retired"
      BY <1>1 DEF Retirable, Retired
    <3>. QED
      BY <1>1, <2>3, <3>1
  <2>6. Succeeds(new, vs, st, record)
    BY <1>3, <2>3, <2>4, <2>5 DEF Succeeds
  <2>. QED
    BY <2>1, <2>3, <2>6
<1>. QED
  BY <1>2, <1>3

\* A stream with one active version still has one after a publication.
LEMMA PublishedActive ==
    ASSUME NEW vs, NEW st \in Change, NEW record, NEW new, Succeeds(new, vs, st, record),
           st # "none" => record.status = st,
           \A v, w \in Active(vs) : v = w
    PROVE  \A v, w \in Active(new) : v = w
<1>1. /\ \A v \in DOMAIN vs :
            new[v].status = IF SupersedesActive(st) /\ vs[v].status = "active"
                            THEN "retired" ELSE vs[v].status
      /\ st = "none" => new = vs
      /\ st # "none" => DOMAIN new = DOMAIN vs \cup {Len(vs) + 1} /\ new[Len(vs) + 1] = record
  BY DEF Succeeds
<1>2. CASE st = "none"
  BY <1>1, <1>2
<1>3. CASE st = "active"
  <2>1. Active(new) \subseteq {Len(vs) + 1}
    BY <1>1, <1>3 DEF Active, SupersedesActive
  <2>. QED
    BY <2>1
<1>4. CASE st \notin {"none", "active"}
  <2>1. Active(new) \subseteq Active(vs)
    BY <1>1, <1>4 DEF Active
  <2>. QED
    BY <2>1
<1>. QED
  BY <1>2, <1>3, <1>4

-----------------------------------------------------------------------------
(* What an acceptable intent is resolved to.                                *)

LEMMA ChangesShape ==
    ASSUME StreamsType, References, NEW s \in Spaces, NEW i \in Intents,
           i.op = "activate" => ActivationReady(s)
    PROVE  /\ Changes(s, i).map \in Change /\ Changes(s, i).biz \in Change
           /\ Changes(s, i).auto \in Change /\ Changes(s, i).content \in Contents
<1>1. /\ {i.map, i.biz, i.auto} \subseteq Change /\ i.content \in Contents
      /\ "none" \in Change /\ "active" \in Change /\ "paused" \in Change
  BY IntentShape DEF Change, Published, Contents
<1>2. CASE i.op = "none"
  BY <1>1, <1>2 DEF Changes, ReuseActiveMapping
<1>3. CASE i.op \in {"pause", "rollback"}
  BY <1>1, <1>3 DEF Changes
<1>4. CASE i.op = "activate"
  <2>1. Changes(s, i) = ActivationChanges(s)
    BY <1>4 DEF Changes
  <2>2. Len(mapping) \in DOMAIN mapping
    <3>1. Len(auto[s]) \in DOMAIN auto[s] /\ auto[s][Len(auto[s])].map = Len(mapping)
      BY <1>4 DEF ActivationReady, ActivationTarget, StreamsType
    <3>. QED
      BY <3>1 DEF References
  <2>3. mapping[Len(mapping)].content \in Contents
    <3>1. mapping[Len(mapping)] \in MappingVersion
      BY <2>2 DEF StreamsType
    <3>. QED
      BY <3>1 DEF MappingVersion
  <2>. QED
    BY <1>1, <2>1, <2>3 DEF ActivationChanges
<1>. QED
  BY <1>2, <1>3, <1>4, IntentShape

LEMMA Resolved ==
    ASSUME StreamsType, OneActive, References, NEW s \in Spaces, NEW i \in Intents,
           Acceptable(s, i), NEW c, c = Materialize(s, i)
    PROVE  IsContent(c) /\ Grounded(s, c)
<1>. DEFINE h == Changes(s, i)
            b == Binding(biz[s], h, h.biz)
            m == Binding(mapping, h, h.map)
<1>1. /\ c.op = i.op /\ c.src = h.src /\ c.map = h.map /\ c.content = h.content /\ c.biz = h.biz
      /\ c.auto = h.auto /\ c.bizRef = b.ref /\ c.mapRef = m.ref
      /\ c.autoHead = IF i.op = "none" THEN 0 ELSE Len(auto[s])
  BY DEF Materialize
<1>2. /\ i.op = "activate" => ActivationReady(s)
      /\ RuntimeContract(s, c) /\ TransitionsCovered(s, c)
  BY DEF Acceptable
<1>3. /\ h.map \in Change /\ h.biz \in Change /\ h.auto \in Change /\ h.content \in Contents
  BY <1>2, ChangesShape
<1>. HIDE DEF h
<1>4. /\ b.ref = IF h.auto # "none" /\ h.biz = "none" THEN ActiveVersion(biz[s]) ELSE 0
      /\ m.ref = IF h.auto # "none" /\ h.map = "none" THEN ActiveVersion(mapping) ELSE 0
  BY DEF Binding
<1>. HIDE DEF b, m
<1>5. ActiveVersion(biz[s]) \in Nat /\ ActiveVersion(mapping) \in Nat
  <2>1. DOMAIN biz[s] \subseteq Nat /\ DOMAIN mapping \subseteq Nat
    BY DEF StreamsType
  <2>. QED
    BY <2>1, ActiveResult
<1>6. IsContent(c)
  BY <1>1, <1>3, <1>4, <1>5 DEF IsContent
<1>7. c.auto # "none" /\ c.biz = "none" => c.bizRef \in Active(biz[s])
  BY <1>1, <1>2, <1>4, ActiveResult DEF RuntimeContract
<1>8. c.auto # "none" /\ c.map = "none" => c.mapRef = ActiveVersion(mapping)
                                             /\ c.mapRef \in Active(mapping)
  BY <1>1, <1>2, <1>4, ActiveResult DEF RuntimeContract
<1>9. BizCovered(s, c)
  BY <1>2 DEF TransitionsCovered, BizCovered
<1>10. ASSUME c.op = "activate"
       PROVE  /\ c.auto # "none"
              /\ \E w \in seenAuto[s] : mapping[auto[s][w].map].content = ContentOf(c)
  <2>. DEFINE w == Len(auto[s])
              v == Len(mapping)
  <2>1. /\ h.auto = "active" /\ h.content = mapping[v].content
        /\ h.map = IF Active(mapping) = {} THEN "active" ELSE "none"
    BY <1>1, <1>10 DEF h, Changes, ActivationChanges
  <2>2. /\ w \in seenAuto[s] /\ auto[s][w].map = v
        /\ mapping[v].status \in {"shadow", "active"}
        /\ mapping[v].status = "shadow" => Active(mapping) = {}
    BY <1>1, <1>2, <1>10 DEF ActivationReady, ActivationTarget
  <2>3. v \in DOMAIN mapping
    BY <2>2 DEF References
  <2>4. ContentOf(c) = mapping[v].content
    <3>1. CASE h.map = "none"
      <4>1. mapping[v].status = "active" /\ v \in Active(mapping)
        BY <2>1, <2>2, <2>3, <3>1 DEF Active
      <4>2. c.mapRef = v
        BY <1>1, <1>8, <2>1, <3>1, <4>1 DEF OneActive
      <4>. QED
        BY <1>1, <3>1, <4>2 DEF ContentOf
    <3>2. CASE h.map # "none"
      BY <1>1, <2>1, <3>2 DEF ContentOf
    <3>. QED
      BY <3>1, <3>2
  <2>. QED
    BY <1>1, <2>1, <2>2, <2>4
<1>11. ASSUME c.op = "rollback"
       PROVE  c.src \in DOMAIN auto[s]
  <2>1. c.src > 0 /\ c.src = IF Len(auto[s]) > 1 THEN Len(auto[s]) - 1 ELSE 0
    BY <1>1, <1>11 DEF h, Changes, OperationTarget, Acceptable
  <2>2. auto[s] \in Seq(Automation)
    BY DEF StreamsType
  <2>. QED
    BY <2>1, <2>2
<1>. QED
  BY <1>1, <1>6, <1>7, <1>8, <1>9, <1>10, <1>11, ActiveResult DEF Grounded

-----------------------------------------------------------------------------
(* What stays true of a Space while other things happen.                    *)

LEMMA GroundedStable ==
    ASSUME References, NEW s \in Spaces, NEW c, Grounded(s, c),
           biz'[s] = biz[s], auto'[s] = auto[s], seenAuto[s] \subseteq seenAuto'[s],
           DOMAIN mapping \subseteq DOMAIN mapping',
           \A v \in DOMAIN mapping : mapping'[v].content = mapping[v].content
    PROVE  Grounded(s, c)'
<1>1. BizCovered(s, c)'
  BY DEF Grounded, BizCovered, Dependents
<1>2. ASSUME c.op = "activate"
      PROVE  \E w \in seenAuto'[s] : mapping'[auto'[s][w].map].content = ContentOf(c)'
  <2>1. PICK w \in seenAuto[s] : mapping[auto[s][w].map].content = ContentOf(c)
    BY <1>2 DEF Grounded
  <2>2. w \in DOMAIN auto[s] /\ auto[s][w].map \in DOMAIN mapping
    BY <2>1 DEF References
  <2>3. ContentOf(c)' = ContentOf(c)
    BY <1>2 DEF Grounded, ContentOf
  <2>. QED
    BY <2>1, <2>2, <2>3
<1>. QED
  BY <1>1, <1>2 DEF Grounded

LEMMA Frame ==
    ASSUME ConfigInv, UNCHANGED <<definitions, seenAuto>>
    PROVE  /\ StreamsType' /\ OneActive' /\ References'
           /\ BusinessOfAutomationAlive' /\ ActiveWasObserved'
           /\ \A s \in Spaces : \A c : Grounded(s, c) => Grounded(s, c)'
<1>1. /\ StreamsType' /\ OneActive' /\ References'
      /\ BusinessOfAutomationAlive' /\ ActiveWasObserved'
  BY DEF ConfigInv, definitions, StreamsType, OneActive, References, BusinessOfAutomationAlive,
         ActiveWasObserved, Active
<1>2. ASSUME NEW s \in Spaces, NEW c, Grounded(s, c) PROVE Grounded(s, c)'
  BY <1>2, GroundedStable DEF ConfigInv, definitions
<1>. QED
  BY <1>1, <1>2

-----------------------------------------------------------------------------
(* Preparing, and the steps of a confirmation that publish nothing.         *)

\* Whoever may confirm works on an awaiting proposal of the Space that
\* resolves to what was stored.
LEMMA ConfirmedContent ==
    ASSUME ConfigInv, NEW s \in Spaces, NEW p \in Proposals, NEW a, MayConfirm(s, p, a)
    PROVE  /\ proposal[p].status = "awaiting" /\ proposal[p].space = s
           /\ Grounded(s, proposal[p].content)
<1>1. /\ proposal[p].status = "awaiting" /\ proposal[p].space = s
      /\ proposal[p].intent \in Intents /\ Acceptable(s, proposal[p].intent)
      /\ Materialize(s, proposal[p].intent) = proposal[p].content
  BY DEF MayConfirm, NoDrift, ConfigInv, ProposalsInv, IsProposal
<1>2. PICK i \in Intents : i = proposal[p].intent
  BY <1>1
<1>3. PICK c : c = proposal[p].content
  OBVIOUS
<1>4. Grounded(s, c)
  BY <1>1, <1>2, <1>3, Resolved DEF ConfigInv
<1>. QED
  BY <1>1, <1>3, <1>4

LEMMA PreparePreserves ==
    ASSUME ConfigInv, NEW p \in Proposals, NEW s \in Spaces, NEW i \in Intents,
           Prepare(p, s, i)
    PROVE  ConfigInv'
<1>1. /\ UNCHANGED <<definitions, seenAuto>> /\ tx' = tx /\ tx[s].pc = "idle"
      /\ Acceptable(s, i)
      /\ \/ proposal[p].status = "none"
         \/ proposal[p].status = "awaiting" /\ proposal[p].space = s
  BY DEF Prepare, Reissuable, observations
<1>2. PICK c : c = Materialize(s, i)
  OBVIOUS
<1>3. IsContent(c)
  BY <1>1, <1>2, Resolved DEF ConfigInv
<1>4. PICK new :
        /\ new = [status |-> "awaiting", space |-> s, intent |-> i, content |-> c,
                  attempts |-> 0, tries |-> 0, expired |-> FALSE,
                  confirmers |-> Confirmers(s, c)]
        /\ proposal' = [proposal EXCEPT ![p] = new]
  BY <1>2 DEF Prepare, Issue
<1>5. IsProposal(new)
  BY <1>3, <1>4, ConfigurationConstants DEF IsProposal
<1>6. ProposalsInv'
  BY <1>4, <1>5 DEF ConfigInv, ProposalsInv
<1>7. \A q \in Proposals : q # p => proposal'[q] = proposal[q]
  BY <1>4 DEF ConfigInv, ProposalsInv
<1>8. TxInv'
  <2>1. ASSUME NEW r \in Spaces, tx[r].pc # "idle"
        PROVE  /\ tx[r].proposal \in Proposals
               /\ proposal'[tx[r].proposal].status = "awaiting"
               /\ proposal'[tx[r].proposal].space = r
               /\ Grounded(r, proposal[tx[r].proposal].content)'
    <3>1. PICK q : q = tx[r].proposal
      OBVIOUS
    <3>2. /\ q \in Proposals /\ proposal[q].status = "awaiting" /\ proposal[q].space = r
          /\ Grounded(r, proposal[q].content)
      BY <2>1, <3>1 DEF ConfigInv, TxInv
    <3>3. q # p /\ proposal'[q] = proposal[q]
      BY <1>1, <1>7, <2>1, <3>2
    <3>4. PICK d : d = proposal[q].content
      OBVIOUS
    <3>5. Grounded(r, d)'
      BY <1>1, <3>2, <3>4, Frame
    <3>. QED
      BY <1>1, <3>1, <3>2, <3>3, <3>4, <3>5
  <2>. QED
    BY <1>1, <2>1 DEF ConfigInv, TxInv
<1>. QED
  BY <1>1, <1>6, <1>8, Frame DEF ConfigInv

\* A proposal that keeps its status, Space, intent and content does not
\* disturb the transactions, as long as the definitions stay.
LEMMA ProposalTouched ==
    ASSUME ConfigInv, UNCHANGED <<definitions, seenAuto, tx>>, NEW p \in Proposals, NEW new,
           proposal' = [proposal EXCEPT ![p] = new], IsProposal(new),
           new.status = proposal[p].status, new.space = proposal[p].space,
           new.content = proposal[p].content
    PROVE  ConfigInv'
<1>1. ProposalsInv'
  BY DEF ConfigInv, ProposalsInv
<1>2. \A q \in Proposals : /\ proposal'[q].status = proposal[q].status
                            /\ proposal'[q].space = proposal[q].space
                            /\ proposal'[q].content = proposal[q].content
  BY DEF ConfigInv, ProposalsInv
<1>3. TxInv'
  <2>1. ASSUME NEW r \in Spaces, tx[r].pc # "idle"
        PROVE  /\ tx[r].proposal \in Proposals
               /\ proposal'[tx[r].proposal].status = "awaiting"
               /\ proposal'[tx[r].proposal].space = r
               /\ Grounded(r, proposal[tx[r].proposal].content)'
    <3>1. PICK q : q = tx[r].proposal
      OBVIOUS
    <3>2. /\ q \in Proposals /\ proposal[q].status = "awaiting" /\ proposal[q].space = r
          /\ Grounded(r, proposal[q].content)
      BY <2>1, <3>1 DEF ConfigInv, TxInv
    <3>3. PICK d : d = proposal[q].content
      OBVIOUS
    <3>4. Grounded(r, d)'
      BY <3>2, <3>3, Frame
    <3>. QED
      BY <1>2, <3>1, <3>2, <3>3, <3>4
  <2>. QED
    BY <2>1 DEF ConfigInv, TxInv
<1>. QED
  BY <1>1, <1>3, Frame DEF ConfigInv

LEMMA CodeExpiresPreserves ==
    ASSUME ConfigInv, NEW p \in Proposals, CodeExpires(p) PROVE ConfigInv'
<1>1. IsProposal(proposal[p])
  BY DEF ConfigInv, ProposalsInv
<1>2. PICK new : new = [proposal[p] EXCEPT !.expired = TRUE]
  OBVIOUS
<1>3. /\ IsProposal(new) /\ new.status = proposal[p].status /\ new.space = proposal[p].space
      /\ new.content = proposal[p].content
  BY <1>1, <1>2 DEF IsProposal
<1>4. proposal' = [proposal EXCEPT ![p] = new] /\ UNCHANGED <<definitions, seenAuto, tx>>
  BY <1>2 DEF CodeExpires, observations
<1>. QED
  BY <1>3, <1>4, ProposalTouched

LEMMA DenyCodePreserves ==
    ASSUME ConfigInv, NEW s \in Spaces, NEW p \in Proposals, NEW a, DenyCode(s, p, a)
    PROVE  ConfigInv'
<1>1. IsProposal(proposal[p])
  BY DEF ConfigInv, ProposalsInv
<1>2. PICK new : new = [proposal[p] EXCEPT !.attempts = @ + 1, !.tries = @ + 1]
  OBVIOUS
<1>3. proposal[p].attempts < MaxAttempts
  BY DEF DenyCode, MayConfirm
<1>4. /\ IsProposal(new) /\ new.status = proposal[p].status /\ new.space = proposal[p].space
      /\ new.content = proposal[p].content
  BY <1>1, <1>2, <1>3, ConfigurationConstants DEF IsProposal
<1>5. proposal' = [proposal EXCEPT ![p] = new] /\ UNCHANGED <<definitions, seenAuto, tx>>
  BY <1>2 DEF DenyCode, observations
<1>. QED
  BY <1>4, <1>5, ProposalTouched

\* A step of a transaction that changes neither definitions nor proposals.
LEMMA TxTouched ==
    ASSUME ConfigInv, UNCHANGED <<definitions, seenAuto, proposal>>, NEW s \in Spaces, NEW new,
           tx' = [tx EXCEPT ![s] = new],
           DOMAIN new = {"pc", "proposal", "actor", "row"},
           new.pc # "idle" => /\ new.proposal \in Proposals
                              /\ proposal[new.proposal].status = "awaiting"
                              /\ proposal[new.proposal].space = s
                              /\ Grounded(s, proposal[new.proposal].content)
    PROVE  ConfigInv'
<1>1. ASSUME NEW r \in Spaces, tx'[r].pc # "idle"
      PROVE  /\ tx'[r].proposal \in Proposals
             /\ proposal[tx'[r].proposal].status = "awaiting"
             /\ proposal[tx'[r].proposal].space = r
             /\ Grounded(r, proposal[tx[r].proposal].content)'
  <2>1. PICK q : q = tx'[r].proposal
    OBVIOUS
  <2>2. /\ q \in Proposals /\ proposal[q].status = "awaiting" /\ proposal[q].space = r
        /\ Grounded(r, proposal[q].content)
    <3>1. CASE r = s
      <4>1. tx'[s] = new
        BY DEF ConfigInv, TxInv
      <4>. QED
        BY <1>1, <2>1, <3>1, <4>1
    <3>2. CASE r # s
      <4>1. tx'[r] = tx[r]
        BY <3>2 DEF ConfigInv, TxInv
      <4>. QED
        BY <1>1, <2>1, <4>1 DEF ConfigInv, TxInv
    <3>. QED
      BY <3>1, <3>2
  <2>3. PICK d : d = proposal[q].content
    OBVIOUS
  <2>4. Grounded(r, d)'
    BY <2>2, <2>3, Frame
  <2>. QED
    BY <2>1, <2>2, <2>3, <2>4
<1>2. TxInv'
  BY <1>1 DEF ConfigInv, TxInv
<1>3. ProposalsInv'
  BY DEF ConfigInv, ProposalsInv
<1>. QED
  BY <1>2, <1>3, Frame DEF ConfigInv

LEMMA BeginConfirmPreserves ==
    ASSUME ConfigInv, NEW s \in Spaces, NEW p \in Proposals, NEW a, BeginConfirm(s, p, a)
    PROVE  ConfigInv'
<1>1. PICK new :
        /\ new = [pc |-> "begun", proposal |-> p, actor |-> a,
                  row |-> SupersededMapping(proposal[p].content)]
        /\ tx' = [tx EXCEPT ![s] = new]
  BY DEF BeginConfirm
<1>2. MayConfirm(s, p, a) /\ UNCHANGED <<definitions, seenAuto, proposal>>
  BY DEF BeginConfirm, observations
<1>3. /\ proposal[p].status = "awaiting" /\ proposal[p].space = s
      /\ Grounded(s, proposal[p].content)
  BY <1>2, ConfirmedContent
<1>4. DOMAIN new = {"pc", "proposal", "actor", "row"} /\ new.proposal = p
  BY <1>1
<1>. QED
  BY <1>1, <1>2, <1>3, <1>4, TxTouched

LEMMA RevalidatePreserves ==
    ASSUME ConfigInv, NEW s \in Spaces, Revalidate(s) PROVE ConfigInv'
<1>1. PICK row : tx' = [tx EXCEPT ![s].pc = "valid", ![s].row = row]
  BY DEF Revalidate
<1>2. DOMAIN tx = Spaces /\ DOMAIN tx[s] = {"pc", "proposal", "actor", "row"}
  BY DEF ConfigInv, TxInv
<1>3. PICK new : new = [tx[s] EXCEPT !.pc = "valid", !.row = row]
  OBVIOUS
<1>4. tx' = [tx EXCEPT ![s] = new]
  BY <1>1, <1>2, <1>3
<1>5. /\ DOMAIN new = {"pc", "proposal", "actor", "row"} /\ new.proposal = tx[s].proposal
  BY <1>2, <1>3
<1>6. tx[s].pc = "begun" /\ UNCHANGED <<definitions, seenAuto, proposal>>
  BY DEF Revalidate, observations
<1>7. /\ tx[s].proposal \in Proposals /\ proposal[tx[s].proposal].status = "awaiting"
      /\ proposal[tx[s].proposal].space = s
      /\ Grounded(s, proposal[tx[s].proposal].content)
  BY <1>6 DEF ConfigInv, TxInv
<1>. QED
  BY <1>4, <1>5, <1>6, <1>7, TxTouched

LEMMA AbortPreserves ==
    ASSUME ConfigInv, NEW s \in Spaces, Abort(s) PROVE ConfigInv'
<1>1. /\ tx' = [tx EXCEPT ![s] = NoTx] /\ UNCHANGED <<definitions, seenAuto, proposal>>
  BY DEF Abort, EndTx, observations
<1>2. DOMAIN NoTx = {"pc", "proposal", "actor", "row"} /\ NoTx.pc = "idle"
  BY DEF NoTx
<1>. QED
  BY <1>1, <1>2, TxTouched

LEMMA ObserveMappingPreserves ==
    ASSUME ConfigInv, NEW s \in Spaces, NEW v, ObserveMapping(s, v) PROVE ConfigInv'
<1>1. UNCHANGED <<definitions, seenAuto, proposal, tx>>
  BY DEF ObserveMapping
<1>2. ProposalsInv'
  BY <1>1 DEF ConfigInv, ProposalsInv
<1>3. TxInv'
  <2>1. ASSUME NEW r \in Spaces, tx[r].pc # "idle"
        PROVE  Grounded(r, proposal[tx[r].proposal].content)'
    <3>1. PICK d : d = proposal[tx[r].proposal].content
      OBVIOUS
    <3>2. Grounded(r, d)'
      BY <1>1, <2>1, <3>1, Frame DEF ConfigInv, TxInv
    <3>. QED
      BY <1>1, <3>1, <3>2
  <2>. QED
    BY <1>1, <2>1 DEF ConfigInv, TxInv
<1>. QED
  BY <1>1, <1>2, <1>3, Frame DEF ConfigInv

LEMMA ObserveAutomationPreserves ==
    ASSUME ConfigInv, NEW s \in Spaces, NEW v, ObserveAutomation(s, v) PROVE ConfigInv'
<1>1. /\ UNCHANGED <<definitions, proposal, tx>> /\ v \in DOMAIN auto[s]
      /\ seenAuto' = [seenAuto EXCEPT ![s] = @ \cup {v}]
  BY DEF ObserveAutomation
<1>2. /\ mapping' = mapping /\ biz' = biz /\ auto' = auto
      /\ \A r \in Spaces : seenAuto[r] \subseteq seenAuto'[r]
      /\ \A r \in Spaces : seenAuto'[r] \subseteq DOMAIN auto[r]
  BY <1>1 DEF definitions, ConfigInv, References, StreamsType
<1>3. StreamsType'
  <2>1. v \in Nat
    BY <1>1 DEF ConfigInv, StreamsType
  <2>. QED
    BY <1>1, <1>2, <2>1 DEF ConfigInv, StreamsType
<1>4. OneActive' /\ References' /\ BusinessOfAutomationAlive' /\ ProposalsInv'
  BY <1>1, <1>2 DEF ConfigInv, OneActive, References, BusinessOfAutomationAlive, ProposalsInv,
                    Active
<1>5. ActiveWasObserved'
  BY <1>1, <1>2 DEF ConfigInv, ActiveWasObserved, Active
<1>6. TxInv'
  <2>1. ASSUME NEW r \in Spaces, tx[r].pc # "idle"
        PROVE  Grounded(r, proposal[tx[r].proposal].content)'
    <3>1. PICK d : d = proposal[tx[r].proposal].content
      OBVIOUS
    <3>2. Grounded(r, d)
      BY <2>1, <3>1 DEF ConfigInv, TxInv
    <3>3. Grounded(r, d)'
      BY <1>2, <3>2, GroundedStable DEF ConfigInv
    <3>. QED
      BY <1>1, <3>1, <3>3
  <2>. QED
    BY <1>1, <2>1 DEF ConfigInv, TxInv
<1>. QED
  BY <1>3, <1>4, <1>5, <1>6 DEF ConfigInv

-----------------------------------------------------------------------------
(* Apply.                                                                   *)

\* What a publication makes of the automations of a Space: the new version
\* binds what the content names, and what it supersedes retires.
Replaces(new, s, c) ==
    /\ new \in Seq(Automation) /\ Len(new) = Len(auto[s]) + 1
    /\ DOMAIN new = DOMAIN auto[s] \cup {Len(auto[s]) + 1}
    /\ Len(auto[s]) + 1 \notin DOMAIN auto[s]
    /\ new[Len(auto[s]) + 1].status = c.auto
    /\ new[Len(auto[s]) + 1].biz = BoundBiz(s, c).version
    /\ new[Len(auto[s]) + 1].map = BoundMap(c).version
    /\ \A v \in DOMAIN auto[s] :
          /\ new[v].biz = auto[s][v].biz /\ new[v].map = auto[s][v].map
          /\ new[v].status =
                IF auto[s][v].status = "shadow"
                      \/ (auto[s][v].status = "active" /\ c.auto # "shadow")
                THEN "retired" ELSE auto[s][v].status

LEMMA AutomationPublished ==
    ASSUME NEW s, auto[s] \in Seq(Automation), NEW c, c.auto \in Change \ {"none"},
           BoundBiz(s, c).version \in Nat, BoundMap(c).version \in Nat,
           c.op = "rollback" => c.src \in DOMAIN auto[s]
    PROVE  Replaces(PublishAutomation(s, c), s, c)
<1>0. PICK new : new = PublishAutomation(s, c)
  OBVIOUS
<1>. DEFINE S == IF c.auto = "shadow" THEN {"shadow"} ELSE {"active", "shadow"}
            lineage == IF c.op = "rollback" THEN RollbackEvidence(s, c.src) ELSE 0
<1>1. PICK record :
        /\ record = [status |-> c.auto, biz |-> BoundBiz(s, c).version,
                     map |-> BoundMap(c).version, activated |-> c.auto = "active",
                     lineage |-> lineage]
        /\ new = Append(Retire(auto[s], S), record)
  BY <1>0 DEF PublishAutomation
<1>2. lineage \in Int
  <2>1. CASE c.op = "rollback"
    <3>1. c.src \in Nat /\ auto[s][c.src] \in Automation
      BY <2>1
    <3>2. auto[s][c.src].lineage \in Int
      BY <3>1 DEF Automation
    <3>. QED
      BY <2>1, <3>1, <3>2 DEF RollbackEvidence
  <2>2. CASE c.op # "rollback"
    BY <2>2
  <2>. QED
    BY <2>1, <2>2
<1>3. (c.auto = "active") \in BOOLEAN /\ c.auto \in Published
  BY DEF Change
<1>. HIDE DEF lineage
<1>4. record \in Automation
  BY <1>1, <1>2, <1>3 DEF Automation
<1>5. \A t : t \in S <=> t = "shadow" \/ (t = "active" /\ c.auto # "shadow")
  <2>1. CASE c.auto = "shadow"
    BY <2>1 DEF S
  <2>2. CASE c.auto # "shadow"
    BY <2>2 DEF S
  <2>. QED
    BY <2>1, <2>2
<1>. HIDE DEF S
<1>6. /\ Retire(auto[s], S) \in Seq(Automation) /\ Len(Retire(auto[s], S)) = Len(auto[s])
      /\ \A v \in 1..Len(auto[s]) :
            Retire(auto[s], S)[v] = IF auto[s][v].status \in S
                                    THEN Retired(auto[s][v])
                                    ELSE auto[s][v]
  BY RetireResult, RetiredTypes
<1>7. DOMAIN auto[s] = 1..Len(auto[s]) /\ Len(auto[s]) \in Nat
  OBVIOUS
<1>8. /\ new \in Seq(Automation) /\ Len(new) = Len(auto[s]) + 1
      /\ new[Len(auto[s]) + 1] = record
      /\ \A v \in 1..Len(auto[s]) : new[v] = Retire(auto[s], S)[v]
  BY <1>1, <1>4, <1>6, <1>7
<1>9. DOMAIN new = DOMAIN auto[s] \cup {Len(auto[s]) + 1} /\ Len(auto[s]) + 1 \notin DOMAIN auto[s]
  <2>1. DOMAIN new = 1..(Len(auto[s]) + 1)
    BY <1>8
  <2>. QED
    BY <1>7, <2>1
<1>10. ASSUME NEW v \in DOMAIN auto[s]
       PROVE  /\ new[v].biz = auto[s][v].biz /\ new[v].map = auto[s][v].map
              /\ new[v].status =
                    IF auto[s][v].status = "shadow"
                          \/ (auto[s][v].status = "active" /\ c.auto # "shadow")
                    THEN "retired" ELSE auto[s][v].status
  <2>1. PICK a : a = auto[s][v]
    OBVIOUS
  <2>2. a \in Automation /\ new[v] = IF a.status \in S THEN Retired(a) ELSE a
    BY <1>6, <1>7, <1>8, <2>1
  <2>3. /\ Retired(a).biz = a.biz
        /\ Retired(a).map = a.map
        /\ Retired(a).status = "retired"
    BY <2>2 DEF Automation, Retired
  <2>4. CASE a.status \in S
    <3>1. new[v] = Retired(a)
      BY <2>2, <2>4
    <3>2. a.status = "shadow" \/ (a.status = "active" /\ c.auto # "shadow")
      BY <1>5, <2>1, <2>4
    <3>. QED
      BY <2>1, <2>3, <3>1, <3>2
  <2>5. CASE a.status \notin S
    BY <1>5, <2>1, <2>2, <2>5
  <2>. QED
    BY <2>4, <2>5
<1>11. /\ record.status = c.auto /\ record.biz = BoundBiz(s, c).version
       /\ record.map = BoundMap(c).version
  BY <1>1
<1>. QED
  BY <1>0, <1>8, <1>9, <1>10, <1>11 DEF Replaces

\* Space s publishes the content c of proposal p.
Applied(s, p, c) ==
    /\ p \in Proposals /\ proposal[p].status = "awaiting" /\ proposal[p].space = s
    /\ c = proposal[p].content
    /\ IsContent(c) /\ Grounded(s, c) /\ Applicable(s, c)
    /\ mapping' = Publish(mapping, c.map, [status |-> c.map, content |-> c.content])
    /\ biz'[s] = Publish(biz[s], c.biz, [status |-> c.biz])
    /\ auto'[s] = PublishAutomation(s, c)
    /\ biz' = [biz EXCEPT ![s] = biz'[s]] /\ auto' = [auto EXCEPT ![s] = auto'[s]]
    /\ \A r \in Spaces : r # s => biz'[r] = biz[r] /\ auto'[r] = auto[r]
    /\ seenAuto' = seenAuto
    /\ proposal' = [proposal EXCEPT ![p].status = "completed"]
    /\ tx' = [tx EXCEPT ![s] = NoTx]

LEMMA ApplyEffect ==
    ASSUME ConfigInv, NEW s \in Spaces, Apply(s)
    PROVE  \E p, c : Applied(s, p, c)
<1>. DEFINE p == tx[s].proposal
            c == proposal[p].content
<1>1. /\ p \in Proposals /\ proposal[p].status = "awaiting" /\ proposal[p].space = s
      /\ Grounded(s, c)
  BY DEF ConfigInv, TxInv, Apply
<1>2. IsContent(c)
  BY <1>1 DEF ConfigInv, ProposalsInv, IsProposal
<1>3. /\ Applicable(s, c)
      /\ mapping' = Publish(mapping, c.map, [status |-> c.map, content |-> c.content])
      /\ biz' = [biz EXCEPT ![s] = Publish(biz[s], c.biz, [status |-> c.biz])]
      /\ auto' = [auto EXCEPT ![s] = PublishAutomation(s, c)]
      /\ seenAuto' = seenAuto
      /\ proposal' = [proposal EXCEPT ![p].status = "completed"]
      /\ tx' = [tx EXCEPT ![s] = NoTx]
  BY DEF Apply, Complete, EndTx, observations
<1>4. DOMAIN biz = Spaces /\ DOMAIN auto = Spaces
  BY DEF ConfigInv, StreamsType
<1>5. /\ biz' = [biz EXCEPT ![s] = biz'[s]] /\ auto' = [auto EXCEPT ![s] = auto'[s]]
      /\ biz'[s] = Publish(biz[s], c.biz, [status |-> c.biz])
      /\ auto'[s] = PublishAutomation(s, c)
  BY <1>3, <1>4
<1>6. \A r \in Spaces : r # s => biz'[r] = biz[r] /\ auto'[r] = auto[r]
  BY <1>3, <1>4
<1>7. c = proposal[p].content
  OBVIOUS
<1>. HIDE DEF p, c
<1>8. Applied(s, p, c)
  BY <1>1, <1>2, <1>3, <1>5, <1>6, <1>7 DEF Applied
<1>. QED
  BY <1>8

\* Contents of mapping versions stay, and the version an automation of the
\* publication binds exists afterwards, with the content it is meant to have.
LEMMA MappingPublished ==
    ASSUME mapping \in Seq(MappingVersion), NEW s, NEW c, IsContent(c),
           mapping' = Publish(mapping, c.map, [status |-> c.map, content |-> c.content])
    PROVE  /\ mapping' \in Seq(MappingVersion)
           /\ DOMAIN mapping \subseteq DOMAIN mapping'
           /\ \A v \in DOMAIN mapping : mapping'[v].content = mapping[v].content
           /\ (c.map = "none" => c.mapRef \in DOMAIN mapping) =>
                 /\ BoundMap(c).version \in DOMAIN mapping'
                 /\ mapping'[BoundMap(c).version].content = ContentOf(c)
<1>. DEFINE record == [status |-> c.map, content |-> c.content]
<1>1. c.map # "none" => record \in MappingVersion
  BY DEF IsContent, Change, MappingVersion
<1>2. record.content = c.content
  OBVIOUS
<1>. HIDE DEF record
<1>3. mapping' = Publish(mapping, c.map, record)
  BY DEF record
<1>4. mapping' \in Seq(MappingVersion) /\ Succeeds(mapping', mapping, c.map, record)
  BY <1>1, <1>3, PublishedStatus, RetiredTypes
<1>5. \A v \in DOMAIN mapping : mapping'[v].content = mapping[v].content
  <2>1. CASE c.map = "none"
    BY <1>4, <2>1 DEF Succeeds
  <2>2. CASE c.map # "none"
    <3>. record \in MappingVersion
      BY <1>1, <2>2
    <3>. Retirable(MappingVersion)
      BY RetiredTypes
    <3>1. /\ Publish(mapping, c.map, record) \in Seq(MappingVersion)
          /\ Len(Publish(mapping, c.map, record)) = Len(mapping) + 1
          /\ Publish(mapping, c.map, record)[Len(mapping) + 1] = record
          /\ \A v \in 1..Len(mapping) :
                Publish(mapping, c.map, record)[v] =
                   IF SupersedesActive(c.map) /\ mapping[v].status = "active"
                   THEN Retired(mapping[v]) ELSE mapping[v]
      BY <2>2, PublishResult
    <3>2. ASSUME NEW v \in DOMAIN mapping PROVE mapping'[v].content = mapping[v].content
      <4>1. PICK m \in MappingVersion : m = mapping[v]
        OBVIOUS
      <4>2. Retired(m).content = m.content
        BY <4>1 DEF Retired, MappingVersion
      <4>. QED
        BY <1>3, <3>1, <4>1, <4>2
    <3>. QED
      BY <3>2
  <2>. QED
    BY <2>1, <2>2
<1>6. ASSUME c.map = "none" => c.mapRef \in DOMAIN mapping
      PROVE  /\ BoundMap(c).version \in DOMAIN mapping'
             /\ mapping'[BoundMap(c).version].content = ContentOf(c)
  <2>1. CASE c.map = "none"
    <3>1. BoundMap(c).version = c.mapRef /\ ContentOf(c) = mapping[c.mapRef].content
      BY <2>1 DEF BoundMap, ContentOf
    <3>. QED
      BY <1>4, <1>5, <1>6, <2>1, <3>1 DEF Succeeds
  <2>2. CASE c.map # "none"
    <3>1. BoundMap(c).version = Len(mapping) + 1 /\ ContentOf(c) = c.content
      BY <2>2 DEF BoundMap, ContentOf
    <3>. QED
      BY <1>2, <1>4, <2>2, <3>1 DEF Succeeds
  <2>. QED
    BY <2>1, <2>2
<1>. QED
  BY <1>4, <1>5, <1>6 DEF Succeeds

LEMMA BusinessPublished ==
    ASSUME NEW s, biz[s] \in Seq(BusinessVersion), NEW c, IsContent(c),
           biz'[s] = Publish(biz[s], c.biz, [status |-> c.biz])
    PROVE  /\ biz'[s] \in Seq(BusinessVersion)
           /\ Succeeds(biz'[s], biz[s], c.biz, [status |-> c.biz])
           /\ (c.biz = "none" => c.bizRef \in DOMAIN biz[s]) =>
                 /\ BoundBiz(s, c).version \in DOMAIN biz'[s]
                 /\ biz'[s][BoundBiz(s, c).version].status = BoundBiz(s, c).status
<1>. DEFINE record == [status |-> c.biz]
<1>1. c.biz # "none" => record \in BusinessVersion
  BY DEF IsContent, Change, BusinessVersion
<1>2. record.status = c.biz
  OBVIOUS
<1>. HIDE DEF record
<1>3. biz'[s] = Publish(biz[s], c.biz, record)
  BY DEF record
<1>4. biz'[s] \in Seq(BusinessVersion) /\ Succeeds(biz'[s], biz[s], c.biz, record)
  BY <1>1, <1>3, PublishedStatus, RetiredTypes
<1>5. ASSUME c.biz = "none" => c.bizRef \in DOMAIN biz[s]
      PROVE  /\ BoundBiz(s, c).version \in DOMAIN biz'[s]
             /\ biz'[s][BoundBiz(s, c).version].status = BoundBiz(s, c).status
  <2>1. CASE c.biz = "none"
    <3>1. /\ BoundBiz(s, c).version = c.bizRef
          /\ BoundBiz(s, c).status = biz[s][c.bizRef].status
      BY <2>1 DEF BoundBiz
    <3>. QED
      BY <1>4, <1>5, <2>1, <3>1 DEF Succeeds
  <2>2. CASE c.biz # "none"
    <3>1. BoundBiz(s, c).version = Len(biz[s]) + 1 /\ BoundBiz(s, c).status = c.biz
      BY <2>2 DEF BoundBiz
    <3>. QED
      BY <1>2, <1>4, <2>2, <3>1 DEF Succeeds
  <2>. QED
    BY <2>1, <2>2
<1>. QED
  BY <1>4, <1>5 DEF record

\* The new version binds definitions that exist afterwards.
LEMMA ApplyBinds ==
    ASSUME ConfigInv, NEW s \in Spaces, NEW p, NEW c, Applied(s, p, c)
    PROVE  /\ mapping' \in Seq(MappingVersion)
           /\ DOMAIN mapping \subseteq DOMAIN mapping'
           /\ \A v \in DOMAIN mapping : mapping'[v].content = mapping[v].content
           /\ biz'[s] \in Seq(BusinessVersion)
           /\ Succeeds(biz'[s], biz[s], c.biz, [status |-> c.biz])
           /\ c.auto # "none" =>
                 /\ BoundMap(c).version \in DOMAIN mapping'
                 /\ mapping'[BoundMap(c).version].content = ContentOf(c)
                 /\ BoundBiz(s, c).version \in DOMAIN biz'[s]
                 /\ biz'[s][BoundBiz(s, c).version].status = BoundBiz(s, c).status
<1>1. /\ IsContent(c) /\ Grounded(s, c)
      /\ mapping' = Publish(mapping, c.map, [status |-> c.map, content |-> c.content])
      /\ biz'[s] = Publish(biz[s], c.biz, [status |-> c.biz])
  BY DEF Applied
<1>2. mapping \in Seq(MappingVersion) /\ biz[s] \in Seq(BusinessVersion)
  BY DEF ConfigInv, StreamsType
<1>3. c.auto # "none" => /\ c.map = "none" => c.mapRef \in DOMAIN mapping
                         /\ c.biz = "none" => c.bizRef \in DOMAIN biz[s]
  BY <1>1 DEF Grounded, Active
<1>4. /\ mapping' \in Seq(MappingVersion)
      /\ DOMAIN mapping \subseteq DOMAIN mapping'
      /\ \A v \in DOMAIN mapping : mapping'[v].content = mapping[v].content
      /\ (c.map = "none" => c.mapRef \in DOMAIN mapping) =>
            /\ BoundMap(c).version \in DOMAIN mapping'
            /\ mapping'[BoundMap(c).version].content = ContentOf(c)
  BY <1>1, <1>2, MappingPublished
<1>5. /\ biz'[s] \in Seq(BusinessVersion)
      /\ Succeeds(biz'[s], biz[s], c.biz, [status |-> c.biz])
      /\ (c.biz = "none" => c.bizRef \in DOMAIN biz[s]) =>
            /\ BoundBiz(s, c).version \in DOMAIN biz'[s]
            /\ biz'[s][BoundBiz(s, c).version].status = BoundBiz(s, c).status
  BY <1>1, <1>2, BusinessPublished
<1>. QED
  BY <1>3, <1>4, <1>5

\* Automations of the publishing Space: the old ones keep what they bind,
\* and nothing that is left active or in shadow was superseded.
LEMMA ApplyAutomations ==
    ASSUME ConfigInv, NEW s \in Spaces, NEW p, NEW c, Applied(s, p, c)
    PROVE  /\ auto'[s] \in Seq(Automation) /\ DOMAIN auto[s] \subseteq DOMAIN auto'[s]
           /\ \A v \in DOMAIN auto'[s] :
                 \/ /\ v \in DOMAIN auto[s]
                    /\ auto'[s][v].biz = auto[s][v].biz /\ auto'[s][v].map = auto[s][v].map
                    /\ auto'[s][v].status \in {"active", "shadow"} =>
                          auto'[s][v].status = auto[s][v].status
                             /\ ~Covers(auto[s][v].status, c.auto)
                 \/ /\ v \notin DOMAIN auto[s] /\ v = Len(auto[s]) + 1 /\ c.auto # "none"
                    /\ Len(auto'[s]) = v
                    /\ auto'[s][v].status = c.auto
                    /\ auto'[s][v].biz = BoundBiz(s, c).version
                    /\ auto'[s][v].map = BoundMap(c).version
           /\ \A v \in DOMAIN auto[s] :
                 auto'[s][v].biz = auto[s][v].biz /\ auto'[s][v].map = auto[s][v].map
           /\ c.auto # "none" => Len(auto[s]) + 1 \in DOMAIN auto'[s]
<1>1. /\ IsContent(c) /\ Grounded(s, c) /\ auto'[s] = PublishAutomation(s, c)
  BY DEF Applied
<1>2. auto[s] \in Seq(Automation)
  BY DEF ConfigInv, StreamsType
<1>3. CASE c.auto = "none"
  <2>1. auto'[s] = auto[s]
    BY <1>1, <1>3 DEF PublishAutomation
  <2>2. \A status : ~Covers(status, c.auto)
    BY <1>3 DEF Covers, Published
  <2>. QED
    BY <1>2, <1>3, <2>1, <2>2
<1>4. CASE c.auto # "none"
  <2>1. c.auto \in Change \ {"none"}
    BY <1>1, <1>4 DEF IsContent
  <2>2. BoundBiz(s, c).version \in Nat /\ BoundMap(c).version \in Nat
    <3>1. Len(biz[s]) \in Nat /\ Len(mapping) \in Nat
      BY DEF ConfigInv, StreamsType
    <3>. QED
      BY <1>1, <3>1 DEF BoundBiz, BoundMap, IsContent
  <2>3. c.op = "rollback" => c.src \in DOMAIN auto[s]
    BY <1>1 DEF Grounded
  <2>4. Replaces(auto'[s], s, c)
    BY <1>1, <1>2, <2>1, <2>2, <2>3, AutomationPublished
  <2>5. ASSUME NEW v \in DOMAIN auto[s], auto'[s][v].status \in {"active", "shadow"}
        PROVE  auto'[s][v].status = auto[s][v].status /\ ~Covers(auto[s][v].status, c.auto)
    BY <2>4, <2>5 DEF Covers, Replaces
  <2>. QED
    BY <1>4, <2>4, <2>5 DEF Replaces
<1>. QED
  BY <1>3, <1>4

LEMMA ApplyStreams ==
    ASSUME ConfigInv, NEW s \in Spaces, NEW p, NEW c, Applied(s, p, c)
    PROVE  StreamsType' /\ OneActive' /\ References'
<1>1. /\ biz' = [biz EXCEPT ![s] = biz'[s]] /\ auto' = [auto EXCEPT ![s] = auto'[s]]
      /\ \A r \in Spaces : r # s => biz'[r] = biz[r] /\ auto'[r] = auto[r]
      /\ seenAuto' = seenAuto
      /\ mapping' = Publish(mapping, c.map, [status |-> c.map, content |-> c.content])
      /\ IsContent(c)
  BY DEF Applied
<1>2. /\ mapping' \in Seq(MappingVersion)
      /\ DOMAIN mapping \subseteq DOMAIN mapping'
      /\ biz'[s] \in Seq(BusinessVersion)
      /\ Succeeds(biz'[s], biz[s], c.biz, [status |-> c.biz])
      /\ c.auto # "none" => /\ BoundMap(c).version \in DOMAIN mapping'
                            /\ BoundBiz(s, c).version \in DOMAIN biz'[s]
  BY ApplyBinds
<1>3. auto'[s] \in Seq(Automation) /\ DOMAIN auto[s] \subseteq DOMAIN auto'[s]
  BY ApplyAutomations
<1>4. StreamsType'
  BY <1>1, <1>2, <1>3 DEF ConfigInv, StreamsType
<1>5. OneActive'
  <2>1. \A v, w \in Active(mapping') : v = w
    <3>1. PICK record : record = [status |-> c.map, content |-> c.content]
      OBVIOUS
    <3>2. /\ record.status = c.map
          /\ c.map # "none" => record \in MappingVersion
      BY <1>1, <3>1 DEF IsContent, Change, MappingVersion
    <3>3. Succeeds(Publish(mapping, c.map, record), mapping, c.map, record)
      BY <3>2, PublishedStatus, RetiredTypes DEF ConfigInv, StreamsType
    <3>4. \A v, w \in Active(mapping) : v = w
      BY DEF ConfigInv, OneActive
    <3>5. Succeeds(mapping', mapping, c.map, record)
      BY <1>1, <3>1, <3>3
    <3>. QED
      BY <1>1, <3>2, <3>4, <3>5, PublishedActive DEF IsContent
  <2>2. \A v, w \in Active(biz'[s]) : v = w
    <3>1. PICK record : record = [status |-> c.biz]
      OBVIOUS
    <3>2. record.status = c.biz /\ c.biz \in Change
      BY <1>1, <3>1 DEF IsContent
    <3>3. \A v, w \in Active(biz[s]) : v = w
      BY DEF ConfigInv, OneActive
    <3>4. Succeeds(biz'[s], biz[s], c.biz, record)
      BY <1>2, <3>1
    <3>. QED
      BY <3>2, <3>3, <3>4, PublishedActive
  <2>3. ASSUME NEW r \in Spaces PROVE \A v, w \in Active(biz'[r]) : v = w
    <3>1. CASE r = s
      BY <2>2, <3>1
    <3>2. CASE r # s
      BY <1>1, <3>2 DEF ConfigInv, OneActive
    <3>. QED
      BY <3>1, <3>2
  <2>. QED
    BY <2>1, <2>3 DEF OneActive
<1>6. References'
  <2>1. ASSUME NEW r \in Spaces
        PROVE  /\ seenAuto'[r] \subseteq DOMAIN auto'[r]
               /\ \A v \in DOMAIN auto'[r] : /\ auto'[r][v].biz \in DOMAIN biz'[r]
                                             /\ auto'[r][v].map \in DOMAIN mapping'
    <3>1. CASE r # s
      BY <1>1, <1>2, <3>1 DEF ConfigInv, References
    <3>2. CASE r = s
      <4>1. seenAuto[s] \subseteq DOMAIN auto'[s]
        BY <1>3 DEF ConfigInv, References
      <4>2. ASSUME NEW v \in DOMAIN auto'[s]
            PROVE  auto'[s][v].biz \in DOMAIN biz'[s] /\ auto'[s][v].map \in DOMAIN mapping'
        <5>1. DOMAIN biz[s] \subseteq DOMAIN biz'[s]
          BY <1>2 DEF Succeeds
        <5>2. CASE v \in DOMAIN auto[s]
          <6>1. auto'[s][v].biz = auto[s][v].biz /\ auto'[s][v].map = auto[s][v].map
            BY <5>2, ApplyAutomations
          <6>. QED
            BY <1>2, <5>1, <5>2, <6>1 DEF ConfigInv, References
        <5>3. CASE v \notin DOMAIN auto[s]
          <6>1. /\ c.auto # "none" /\ auto'[s][v].biz = BoundBiz(s, c).version
                /\ auto'[s][v].map = BoundMap(c).version
            BY <5>3, ApplyAutomations
          <6>. QED
            BY <1>2, <6>1
        <5>. QED
          BY <5>2, <5>3
      <4>. QED
        BY <1>1, <3>2, <4>1, <4>2
    <3>. QED
      BY <3>1, <3>2
  <2>. QED
    BY <2>1 DEF References
<1>. QED
  BY <1>4, <1>5, <1>6

\* An old automation that is left running does not use what was superseded,
\* a new one binds what is published with it or is still active.
LEMMA ApplyKeepsBusiness ==
    ASSUME ConfigInv, NEW s \in Spaces, NEW p, NEW c, Applied(s, p, c)
    PROVE  BusinessOfAutomationAlive'
<1>1. /\ \A r \in Spaces : r # s => biz'[r] = biz[r] /\ auto'[r] = auto[r]
      /\ IsContent(c) /\ BizCovered(s, c) /\ Applicable(s, c)
  BY DEF Applied, Grounded
<1>2. ASSUME NEW v \in DOMAIN auto'[s], auto'[s][v].status \in {"active", "shadow"}
      PROVE  biz'[s][auto'[s][v].biz].status \in {"shadow", "active"}
  <2>1. CASE v \in DOMAIN auto[s]
    <3>1. PICK b : b = auto[s][v].biz
      OBVIOUS
    <3>2. /\ auto'[s][v].biz = b /\ auto'[s][v].status = auto[s][v].status
          /\ ~Covers(auto[s][v].status, c.auto)
      BY <1>2, <2>1, <3>1, ApplyAutomations
    <3>3. b \in DOMAIN biz[s] /\ biz[s][b].status \in {"shadow", "active"}
      BY <1>2, <2>1, <3>1, <3>2 DEF ConfigInv, References, BusinessOfAutomationAlive
    <3>4. ~(SupersedesActive(c.biz) /\ biz[s][b].status = "active")
      <4>1. SUFFICES ASSUME SupersedesActive(c.biz), biz[s][b].status = "active"
                     PROVE  FALSE
        OBVIOUS
      <4>2. b \in Active(biz[s])
        BY <3>3, <4>1 DEF Active
      <4>3. b = ActiveVersion(biz[s])
        BY <4>2, ActiveResult DEF ConfigInv, OneActive
      <4>4. v \in Dependents(s, "biz", ActiveVersion(biz[s]))
        BY <1>2, <2>1, <3>1, <3>2, <4>3 DEF Dependents
      <4>. QED
        BY <1>1, <3>2, <4>1, <4>2, <4>4 DEF BizCovered
    <3>5. biz'[s][b].status = biz[s][b].status
      <4>1. Succeeds(biz'[s], biz[s], c.biz, [status |-> c.biz])
        BY ApplyBinds
      <4>. QED
        BY <3>3, <3>4, <4>1 DEF Succeeds
    <3>. QED
      BY <3>2, <3>3, <3>5
  <2>2. CASE v \notin DOMAIN auto[s]
    <3>1. /\ c.auto # "none" /\ auto'[s][v].status = c.auto
          /\ auto'[s][v].biz = BoundBiz(s, c).version
      BY <2>2, ApplyAutomations
    <3>2. biz'[s][BoundBiz(s, c).version].status = BoundBiz(s, c).status
      BY <3>1, ApplyBinds
    <3>3. BoundBiz(s, c).status \in {"shadow", "active"}
      BY <1>1, <1>2, <3>1 DEF Applicable
    <3>. QED
      BY <3>1, <3>2, <3>3
  <2>. QED
    BY <2>1, <2>2
<1>3. ASSUME NEW r \in Spaces, NEW v \in DOMAIN auto'[r],
             auto'[r][v].status \in {"active", "shadow"}
      PROVE  biz'[r][auto'[r][v].biz].status \in {"shadow", "active"}
  <2>1. CASE r = s
    BY <1>2, <1>3, <2>1
  <2>2. CASE r # s
    BY <1>1, <1>3, <2>2 DEF ConfigInv, BusinessOfAutomationAlive
  <2>. QED
    BY <2>1, <2>2
<1>. QED
  BY <1>3 DEF BusinessOfAutomationAlive

\* The evidence an active version was published on is kept with it.
LEMMA ApplyKeepsEvidence ==
    ASSUME ConfigInv, NEW s \in Spaces, NEW p, NEW c, Applied(s, p, c)
    PROVE  ActiveWasObserved'
<1>1. /\ \A r \in Spaces : r # s => auto'[r] = auto[r]
      /\ seenAuto' = seenAuto /\ IsContent(c) /\ Grounded(s, c) /\ Applicable(s, c)
  BY DEF Applied
<1>2. \A v \in DOMAIN mapping : mapping'[v].content = mapping[v].content
  BY ApplyBinds
<1>3. ASSUME NEW r \in Spaces, NEW w \in DOMAIN auto[r]
      PROVE  mapping'[auto'[r][w].map].content = mapping[auto[r][w].map].content
  <2>1. auto'[r][w].map = auto[r][w].map
    <3>1. CASE r = s
      BY <3>1, ApplyAutomations
    <3>2. CASE r # s
      BY <1>1, <3>2
    <3>. QED
      BY <3>1, <3>2
  <2>2. auto[r][w].map \in DOMAIN mapping
    BY DEF ConfigInv, References
  <2>. QED
    BY <1>2, <2>1, <2>2
<1>4. \A r \in Spaces : seenAuto[r] \subseteq DOMAIN auto[r]
  BY DEF ConfigInv, References
<1>5. ASSUME NEW r \in Spaces, NEW v \in DOMAIN auto[r], auto[r][v].status = "active"
      PROVE  \E w \in seenAuto[r] :
                mapping'[auto'[r][w].map].content = mapping'[auto'[r][v].map].content
  <2>1. v \in Active(auto[r])
    BY <1>5 DEF Active
  <2>2. PICK w \in seenAuto[r] : mapping[auto[r][w].map].content = mapping[auto[r][v].map].content
    BY <2>1 DEF ConfigInv, ActiveWasObserved
  <2>. QED
    BY <1>3, <1>4, <2>2
<1>6. ASSUME NEW v \in DOMAIN auto'[s], v \notin DOMAIN auto[s], auto'[s][v].status = "active"
      PROVE  \E w \in seenAuto[s] :
                mapping'[auto'[s][w].map].content = mapping'[auto'[s][v].map].content
  <2>1. c.auto = "active" /\ auto'[s][v].map = BoundMap(c).version
    BY <1>6, ApplyAutomations
  <2>2. mapping'[BoundMap(c).version].content = ContentOf(c)
    BY <2>1, ApplyBinds
  <2>3. Observed(s, c)
    BY <1>1, <2>1 DEF Applicable
  <2>4. \E w \in seenAuto[s] : mapping[auto[s][w].map].content = ContentOf(c)
    <3>1. CASE c.op = "activate"
      BY <1>1, <3>1 DEF Grounded
    <3>2. CASE c.op = "rollback"
      BY <2>3, <3>2 DEF Observed
    <3>3. CASE c.op \notin {"activate", "rollback"}
      BY <2>3, <3>3 DEF Observed
    <3>. QED
      BY <3>1, <3>2, <3>3
  <2>. QED
    BY <1>3, <1>4, <2>1, <2>2, <2>4
<1>7. ASSUME NEW r \in Spaces, NEW v \in Active(auto'[r])
      PROVE  \E w \in seenAuto[r] :
                mapping'[auto'[r][w].map].content = mapping'[auto'[r][v].map].content
  <2>1. v \in DOMAIN auto'[r] /\ auto'[r][v].status = "active"
    BY DEF Active
  <2>2. CASE v \in DOMAIN auto[r]
    <3>1. auto[r][v].status = "active"
      <4>1. CASE r = s
        BY <2>1, <2>2, <4>1, ApplyAutomations
      <4>2. CASE r # s
        BY <1>1, <2>1, <4>2
      <4>. QED
        BY <4>1, <4>2
    <3>. QED
      BY <1>5, <2>2, <3>1
  <2>3. CASE v \notin DOMAIN auto[r]
    <3>1. r = s
      BY <1>1, <2>1, <2>3
    <3>. QED
      BY <1>6, <2>1, <2>3, <3>1
  <2>. QED
    BY <2>2, <2>3
<1>. QED
  BY <1>1, <1>7 DEF ActiveWasObserved

LEMMA ApplyPreserves ==
    ASSUME ConfigInv, NEW s \in Spaces, Apply(s) PROVE ConfigInv'
<1>1. PICK p, c : Applied(s, p, c)
  BY ApplyEffect
<1>2. /\ p \in Proposals /\ proposal[p].status = "awaiting" /\ proposal[p].space = s
      /\ \A r \in Spaces : r # s => biz'[r] = biz[r] /\ auto'[r] = auto[r]
      /\ seenAuto' = seenAuto
      /\ proposal' = [proposal EXCEPT ![p].status = "completed"]
      /\ tx' = [tx EXCEPT ![s] = NoTx]
  BY <1>1 DEF Applied
<1>3. ProposalsInv'
  <2>1. PICK new : new = [proposal[p] EXCEPT !.status = "completed"]
    OBVIOUS
  <2>2. IsProposal(proposal[p])
    BY <1>2 DEF ConfigInv, ProposalsInv
  <2>3. IsProposal(new)
    BY <1>2, <2>1, <2>2 DEF IsProposal
  <2>4. proposal' = [proposal EXCEPT ![p] = new]
    BY <1>2, <2>1
  <2>. QED
    BY <2>3, <2>4 DEF ConfigInv, ProposalsInv
<1>4. TxInv'
  <2>1. /\ DOMAIN tx = Spaces /\ tx'[s] = NoTx
        /\ \A r \in Spaces : r # s => tx'[r] = tx[r]
    BY <1>2 DEF ConfigInv, TxInv
  <2>2. ASSUME NEW r \in Spaces, r # s, tx[r].pc # "idle"
        PROVE  /\ tx[r].proposal \in Proposals
               /\ proposal'[tx[r].proposal].status = "awaiting"
               /\ proposal'[tx[r].proposal].space = r
               /\ Grounded(r, proposal[tx[r].proposal].content)'
    <3>1. PICK q : q = tx[r].proposal
      OBVIOUS
    <3>2. /\ q \in Proposals /\ proposal[q].status = "awaiting" /\ proposal[q].space = r
          /\ Grounded(r, proposal[q].content)
      BY <2>2, <3>1 DEF ConfigInv, TxInv
    <3>3. proposal'[q] = proposal[q]
      BY <1>2, <2>2, <3>2
    <3>4. PICK d : d = proposal[q].content
      OBVIOUS
    <3>5. /\ DOMAIN mapping \subseteq DOMAIN mapping'
          /\ \A v \in DOMAIN mapping : mapping'[v].content = mapping[v].content
      BY <1>1, ApplyBinds
    <3>6. Grounded(r, d)'
      BY <1>2, <2>2, <3>2, <3>4, <3>5, GroundedStable DEF ConfigInv
    <3>. QED
      BY <2>1, <2>2, <3>1, <3>2, <3>3, <3>4, <3>6
  <2>3. DOMAIN NoTx = {"pc", "proposal", "actor", "row"} /\ NoTx.pc = "idle"
    BY DEF NoTx
  <2>4. DOMAIN tx' = Spaces
    BY <1>2, <2>1
  <2>5. ASSUME NEW r \in Spaces
        PROVE  /\ DOMAIN tx'[r] = {"pc", "proposal", "actor", "row"}
               /\ tx'[r].pc # "idle" => tx'[r] = tx[r] /\ r # s
    BY <2>1, <2>3 DEF ConfigInv, TxInv
  <2>. QED
    BY <2>2, <2>4, <2>5 DEF TxInv
<1>. QED
  BY <1>1, <1>3, <1>4, ApplyStreams, ApplyKeepsBusiness, ApplyKeepsEvidence DEF ConfigInv

-----------------------------------------------------------------------------
(* The invariant and what follows from it.                                  *)

LEMMA InitConfig == Init => ConfigInv
<1>. SUFFICES ASSUME Init PROVE ConfigInv
  OBVIOUS
<1>1. StreamsType
  BY DEF Init, StreamsType
<1>2. OneActive /\ References /\ BusinessOfAutomationAlive /\ ActiveWasObserved
  BY DEF Init, OneActive, References, BusinessOfAutomationAlive, ActiveWasObserved, Active
<1>3. ProposalsInv
  BY ConfigurationConstants DEF Init, ProposalsInv, IsProposal, NoProposal
<1>4. TxInv
  BY DEF Init, TxInv, NoTx
<1>. QED
  BY <1>1, <1>2, <1>3, <1>4 DEF ConfigInv

LEMMA NextConfig == ConfigInv /\ [Next]_vars => ConfigInv'
<1>. SUFFICES ASSUME ConfigInv, [Next]_vars PROVE ConfigInv'
  OBVIOUS
<1>1. ASSUME NEW p \in Proposals, NEW s \in Spaces, NEW i \in Intents, Prepare(p, s, i)
      PROVE  ConfigInv'
  BY <1>1, PreparePreserves
<1>2. ASSUME NEW p \in Proposals, CodeExpires(p) PROVE ConfigInv'
  BY <1>2, CodeExpiresPreserves
<1>3. ASSUME NEW s \in Spaces, NEW p \in Proposals, NEW a \in Persons,
             DenyCode(s, p, a) \/ BeginConfirm(s, p, a)
      PROVE  ConfigInv'
  BY <1>3, DenyCodePreserves, BeginConfirmPreserves
<1>4. ASSUME NEW s \in Spaces, Revalidate(s) \/ Apply(s) \/ Abort(s) PROVE ConfigInv'
  BY <1>4, RevalidatePreserves, ApplyPreserves, AbortPreserves
<1>5. ASSUME NEW s \in Spaces, NEW v \in 1..MaxVersion,
             ObserveMapping(s, v) \/ ObserveAutomation(s, v)
      PROVE  ConfigInv'
  BY <1>5, ObserveMappingPreserves, ObserveAutomationPreserves
<1>6. CASE UNCHANGED vars
  <2>1. UNCHANGED <<definitions, seenAuto, tx, proposal>>
    BY <1>6 DEF vars, definitions
  <2>2. ProposalsInv' /\ TxInv'
    <3>1. ProposalsInv'
      BY <2>1 DEF ConfigInv, ProposalsInv
    <3>2. ASSUME NEW r \in Spaces, tx[r].pc # "idle"
          PROVE  Grounded(r, proposal[tx[r].proposal].content)'
      <4>1. PICK d : d = proposal[tx[r].proposal].content
        OBVIOUS
      <4>2. Grounded(r, d)'
        BY <2>1, <3>2, <4>1, Frame DEF ConfigInv, TxInv
      <4>. QED
        BY <2>1, <4>1, <4>2
    <3>. QED
      BY <2>1, <3>1, <3>2 DEF ConfigInv, TxInv
  <2>. QED
    BY <2>1, <2>2, Frame DEF ConfigInv
<1>. QED
  BY <1>1, <1>2, <1>3, <1>4, <1>5, <1>6 DEF Next

\* Streams of versions keep their shape and their references, and a
\* transaction that is under way still stands on what it checked when it began.
THEOREM Inductive == Spec => []ConfigInv
  BY InitConfig, NextConfig, PTL DEF Spec

\* Whatever is confirmed, in whatever order and by however many Spaces, no
\* running automation is left without a business definition.
THEOREM BusinessAlive == Spec => []BusinessOfAutomationAlive
<1>1. ConfigInv => BusinessOfAutomationAlive
  BY DEF ConfigInv
<1>. QED
  BY <1>1, Inductive, PTL

\* An active automation rests on an observation of the same mapping content.
THEOREM Observation == Spec => []ActiveWasObserved
<1>1. ConfigInv => ActiveWasObserved
  BY DEF ConfigInv
<1>. QED
  BY <1>1, Inductive, PTL

\* A code survives at most MaxAttempts wrong guesses.
THEOREM Guesses == Spec => []GuessesBounded
<1>1. ConfigInv => GuessesBounded
  BY DEF ConfigInv, ProposalsInv, IsProposal, GuessesBounded
<1>. QED
  BY <1>1, Inductive, PTL

\* What a step may do to the proposal p.
ShownStep(p) ==
    /\ proposal[p].status = "completed" => proposal'[p] = proposal[p]
    /\ proposal'[p].status = "completed" /\ proposal[p].status # "completed" =>
          LET s == proposal[p].space IN
          auto'[s] # auto[s] =>
             LET new == auto'[s][Len(auto'[s])] IN
             /\ proposal[p].content.bizRef # 0 => new.biz = proposal[p].content.bizRef
             /\ proposal[p].content.autoHead # 0 =>
                   Len(auto'[s]) = proposal[p].content.autoHead + 1

LEMMA NextShown == ConfigInv /\ Next => \A p \in Proposals : ShownStep(p)
<1>. SUFFICES ASSUME ConfigInv, Next, NEW p \in Proposals PROVE ShownStep(p)
  OBVIOUS
<1>0. DOMAIN proposal = Proposals /\ DOMAIN proposal[p] =
         {"status", "space", "intent", "content", "attempts", "tries", "expired", "confirmers"}
  BY DEF ConfigInv, ProposalsInv, IsProposal
<1>1. ASSUME NEW q \in Proposals, NEW s \in Spaces, NEW i \in Intents, Prepare(q, s, i)
      PROVE  ShownStep(p)
  <2>1. proposal[q].status # "completed"
    BY <1>1 DEF Prepare, Reissuable
  <2>2. PICK new : new.status = "awaiting" /\ proposal' = [proposal EXCEPT ![q] = new]
    BY <1>1 DEF Prepare, Issue
  <2>. QED
    BY <1>0, <2>1, <2>2 DEF ShownStep
<1>2. ASSUME NEW q \in Proposals, CodeExpires(q) PROVE ShownStep(p)
  <2>1. proposal[q].status = "awaiting" /\ proposal' = [proposal EXCEPT ![q].expired = TRUE]
    BY <1>2 DEF CodeExpires
  <2>2. proposal'[p].status = proposal[p].status /\ (p # q => proposal'[p] = proposal[p])
    BY <1>0, <2>1
  <2>. QED
    BY <2>1, <2>2 DEF ShownStep
<1>3. ASSUME NEW s \in Spaces, NEW q \in Proposals, NEW a \in Persons, DenyCode(s, q, a)
      PROVE  ShownStep(p)
  <2>1. /\ proposal[q].status = "awaiting"
        /\ proposal' = [proposal EXCEPT ![q].attempts = @ + 1, ![q].tries = @ + 1]
    BY <1>3 DEF DenyCode, MayConfirm
  <2>2. proposal'[p].status = proposal[p].status /\ (p # q => proposal'[p] = proposal[p])
    BY <1>0, <2>1
  <2>. QED
    BY <2>1, <2>2 DEF ShownStep
<1>4. ASSUME NEW s \in Spaces, Apply(s) PROVE ShownStep(p)
  <2>1. PICK q, c : Applied(s, q, c)
    BY <1>4, ApplyEffect
  <2>2. /\ q \in Proposals /\ proposal[q].status = "awaiting" /\ proposal[q].space = s
        /\ c = proposal[q].content /\ IsContent(c) /\ Grounded(s, c)
        /\ proposal' = [proposal EXCEPT ![q].status = "completed"]
    BY <2>1 DEF Applied
  <2>3. CASE p # q
    <3>1. proposal'[p] = proposal[p]
      BY <2>2, <2>3
    <3>. QED
      BY <3>1 DEF ShownStep
  <2>4. CASE p = q
    <3>1. ASSUME auto'[s] # auto[s]
          PROVE  /\ c.bizRef # 0 => auto'[s][Len(auto'[s])].biz = c.bizRef
                 /\ c.autoHead # 0 => Len(auto'[s]) = c.autoHead + 1
      <4>1. c.auto # "none"
        BY <2>1, <3>1 DEF Applied, PublishAutomation
      <4>2. Len(auto[s]) + 1 \in DOMAIN auto'[s] /\ Len(auto[s]) + 1 \notin DOMAIN auto[s]
        <5>1. auto[s] \in Seq(Automation)
          BY DEF ConfigInv, StreamsType
        <5>. QED
          BY <2>1, <4>1, <5>1, ApplyAutomations
      <4>3. /\ Len(auto'[s]) = Len(auto[s]) + 1
            /\ auto'[s][Len(auto[s]) + 1].biz = BoundBiz(s, c).version
        BY <2>1, <4>2, ApplyAutomations
      <4>4. c.bizRef # 0 => BoundBiz(s, c).version = c.bizRef
        BY <2>2 DEF IsContent, BoundBiz
      <4>5. c.autoHead # 0 => c.autoHead = Len(auto[s])
        BY <2>2 DEF Grounded
      <4>. QED
        BY <4>3, <4>4, <4>5
    <3>. QED
      BY <2>2, <2>4, <3>1 DEF ShownStep
  <2>. QED
    BY <2>3, <2>4
<1>5. ASSUME UNCHANGED proposal PROVE ShownStep(p)
  BY <1>5 DEF ShownStep
<1>6. ASSUME NEW s \in Spaces, NEW q \in Proposals, NEW a \in Persons, BeginConfirm(s, q, a)
      PROVE  UNCHANGED proposal
  BY <1>6 DEF BeginConfirm
<1>7. ASSUME NEW s \in Spaces, NEW v,
             Revalidate(s) \/ Abort(s) \/ ObserveMapping(s, v) \/ ObserveAutomation(s, v)
      PROVE  UNCHANGED proposal
  BY <1>7 DEF Revalidate, Abort, ObserveMapping, ObserveAutomation
<1>. QED
  BY <1>1, <1>2, <1>3, <1>4, <1>5, <1>6, <1>7 DEF Next

\* A proposal publishes what was shown when it was prepared, on the versions
\* it was resolved against, and at most once.
THEOREM Shown == Spec => PublishesWhatWasShown
<1>1. ConfigInv /\ [Next]_vars => [\A p \in Proposals : ShownStep(p)]_vars
  BY NextShown
<1>2. [\A p \in Proposals : ShownStep(p)]_vars =>
      [\A p \in Proposals :
         /\ proposal[p].status = "completed" => proposal'[p] = proposal[p]
         /\ proposal'[p].status = "completed" /\ proposal[p].status # "completed" =>
               LET s == proposal[p].space IN
               auto'[s] # auto[s] =>
                  LET new == auto'[s][Len(auto'[s])] IN
                  /\ proposal[p].content.bizRef # 0 =>
                        new.biz = proposal[p].content.bizRef
                  /\ proposal[p].content.autoHead # 0 =>
                        Len(auto'[s]) = proposal[p].content.autoHead + 1]_vars
  BY DEF ShownStep
<1>. QED
  BY <1>1, <1>2, Inductive, PTL DEF Spec, PublishesWhatWasShown

-----------------------------------------------------------------------------
(* The provider's mapping, which all Spaces publish.  A Space that checked   *)
(* its own dependents can be overtaken by another one, so this needs that    *)
(* there is no other.                                                        *)

\* Automations of a Space that use the active mapping are replaced with it.
MapCovered(s, c) ==
    SupersedesActive(c.map) /\ Active(mapping) # {} =>
        \A w \in Dependents(s, "map", ActiveVersion(mapping)) : Covers(auto[s][w].status, c.auto)

ValidInv ==
    \A s \in Spaces :
        tx[s].pc = "valid" => MapCovered(s, proposal[tx[s].proposal].content)

OneSpace == \A r, s \in Spaces : r = s

MappingInv == ConfigInv /\ ValidInv /\ MappingOfAutomationAlive

LEMMA ApplyKeepsMapping ==
    ASSUME ConfigInv, ValidInv, MappingOfAutomationAlive, OneSpace,
           NEW s \in Spaces, Apply(s)
    PROVE  MappingOfAutomationAlive'
<1>1. PICK p, c : Applied(s, p, c) /\ c = proposal[tx[s].proposal].content
  <2>1. PICK p, c : Applied(s, p, c)
    BY ApplyEffect
  <2>2. tx[s].pc = "valid" /\ proposal' = [proposal EXCEPT ![tx[s].proposal].status = "completed"]
        /\ tx[s].proposal \in Proposals /\ proposal[tx[s].proposal].status = "awaiting"
    BY DEF Apply, Complete, ConfigInv, TxInv
  <2>3. p = tx[s].proposal
    <3>1. /\ p \in Proposals /\ proposal[p].status = "awaiting"
          /\ proposal' = [proposal EXCEPT ![p].status = "completed"]
      BY <2>1 DEF Applied
    <3>2. /\ DOMAIN proposal = Proposals /\ "status" \in DOMAIN proposal[p]
      BY <3>1 DEF ConfigInv, ProposalsInv, IsProposal
    <3>3. PICK q \in Proposals : q = tx[s].proposal
      BY <2>2
    <3>4. ASSUME p # q PROVE FALSE
      <4>1. proposal'[p].status = proposal[p].status
        BY <2>2, <3>1, <3>2, <3>3, <3>4
      <4>2. proposal'[p].status = "completed"
        BY <3>1, <3>2
      <4>. QED
        BY <3>1, <4>1, <4>2
    <3>. QED
      BY <3>3, <3>4
  <2>4. c = proposal[p].content
    BY <2>1 DEF Applied
  <2>. QED
    BY <2>1, <2>3, <2>4
<1>2. MapCovered(s, c) /\ IsContent(c) /\ Applicable(s, c) /\ Grounded(s, c)
  <2>1. IsContent(c) /\ Applicable(s, c) /\ Grounded(s, c)
    BY <1>1 DEF Applied
  <2>2. tx[s].pc = "valid"
    BY DEF Apply
  <2>. QED
    BY <1>1, <2>1, <2>2 DEF ValidInv
<1>3. PICK record : /\ record = [status |-> c.map, content |-> c.content]
                    /\ mapping' = Publish(mapping, c.map, record)
  BY <1>1 DEF Applied
<1>4. Succeeds(mapping', mapping, c.map, record)
  <2>1. c.map # "none" => record \in MappingVersion
    BY <1>2, <1>3 DEF IsContent, Change, MappingVersion
  <2>. QED
    BY <1>3, <2>1, PublishedStatus, RetiredTypes DEF ConfigInv, StreamsType
<1>5. ASSUME NEW v \in DOMAIN auto'[s], auto'[s][v].status = "active"
      PROVE  mapping'[auto'[s][v].map].status = "active"
  <2>1. CASE v \in DOMAIN auto[s]
    <3>1. PICK m : m = auto[s][v].map
      OBVIOUS
    <3>2. /\ auto'[s][v].map = m /\ auto[s][v].status = "active"
          /\ ~Covers(auto[s][v].status, c.auto)
      BY <1>1, <1>5, <2>1, <3>1, ApplyAutomations
    <3>3. m \in DOMAIN mapping /\ mapping[m].status = "active" /\ m \in Active(mapping)
      BY <2>1, <3>1, <3>2 DEF ConfigInv, References, MappingOfAutomationAlive, Active
    <3>4. ~SupersedesActive(c.map)
      <4>1. m = ActiveVersion(mapping)
        BY <3>3, ActiveResult DEF ConfigInv, OneActive
      <4>2. v \in Dependents(s, "map", ActiveVersion(mapping))
        BY <2>1, <3>1, <3>2, <4>1 DEF Dependents
      <4>. QED
        BY <1>2, <3>2, <3>3, <4>2 DEF MapCovered
    <3>. QED
      BY <1>4, <3>2, <3>3, <3>4 DEF Succeeds
  <2>2. CASE v \notin DOMAIN auto[s]
    <3>1. c.auto = "active" /\ auto'[s][v].map = BoundMap(c).version
      BY <1>1, <1>5, <2>2, ApplyAutomations
    <3>2. BoundMap(c).status = "active"
      BY <1>2, <3>1 DEF Applicable
    <3>3. mapping'[BoundMap(c).version].status = BoundMap(c).status
      <4>1. CASE c.map = "none"
        BY <1>4, <4>1 DEF BoundMap, Succeeds
      <4>2. CASE c.map # "none"
        BY <1>3, <1>4, <4>2 DEF BoundMap, Succeeds
      <4>. QED
        BY <4>1, <4>2
    <3>. QED
      BY <3>1, <3>2, <3>3
  <2>. QED
    BY <2>1, <2>2
<1>6. \A r \in Spaces : r = s
  BY DEF OneSpace
<1>. QED
  BY <1>5, <1>6 DEF MappingOfAutomationAlive

LEMMA MappingFrame ==
    ASSUME UNCHANGED <<mapping, auto>> PROVE MappingOfAutomationAlive => MappingOfAutomationAlive'
BY DEF MappingOfAutomationAlive

\* A transaction that stays valid over the same content and streams.
LEMMA ValidFrame ==
    ASSUME ValidInv, UNCHANGED <<mapping, auto>>,
           \A s \in Spaces : tx'[s].pc = "valid" =>
              /\ tx[s].pc = "valid"
              /\ proposal'[tx'[s].proposal].content = proposal[tx[s].proposal].content
    PROVE  ValidInv'
<1>1. ASSUME NEW s \in Spaces, tx'[s].pc = "valid"
      PROVE  MapCovered(s, proposal[tx[s].proposal].content)'
  <2>1. PICK c : c = proposal[tx[s].proposal].content
    OBVIOUS
  <2>2. MapCovered(s, c)
    BY <1>1, <2>1 DEF ValidInv
  <2>3. MapCovered(s, c)'
    BY <2>2 DEF MapCovered, Dependents
  <2>. QED
    BY <1>1, <2>1, <2>3
<1>. QED
  BY <1>1 DEF ValidInv

LEMMA MappingStep == OneSpace /\ MappingInv /\ [Next]_vars => MappingInv'
<1>. SUFFICES ASSUME OneSpace, MappingInv, [Next]_vars PROVE MappingInv'
  OBVIOUS
<1>. ConfigInv /\ ValidInv /\ MappingOfAutomationAlive
  BY DEF MappingInv
<1>0. ConfigInv' /\ DOMAIN tx = Spaces /\ DOMAIN proposal = Proposals
  BY NextConfig DEF ConfigInv, TxInv, ProposalsInv
<1>1. ASSUME NEW p \in Proposals, NEW s \in Spaces, NEW i \in Intents, Prepare(p, s, i)
      PROVE  ValidInv' /\ MappingOfAutomationAlive'
  <2>1. UNCHANGED <<mapping, auto, tx>> /\ tx[s].pc = "idle"
    BY <1>1 DEF Prepare, definitions
  <2>2. \A r \in Spaces : tx'[r].pc # "valid"
    BY <2>1 DEF OneSpace
  <2>. QED
    BY <2>1, <2>2, MappingFrame DEF ValidInv
<1>2. ASSUME NEW p \in Proposals, CodeExpires(p)
      PROVE  ValidInv' /\ MappingOfAutomationAlive'
  <2>1. UNCHANGED <<mapping, auto, tx>> /\ \A q : proposal'[q].content = proposal[q].content
    BY <1>2 DEF CodeExpires, definitions
  <2>. QED
    BY <2>1, MappingFrame, ValidFrame
<1>3. ASSUME NEW s \in Spaces, NEW p \in Proposals, NEW a \in Persons, DenyCode(s, p, a)
      PROVE  ValidInv' /\ MappingOfAutomationAlive'
  <2>1. /\ UNCHANGED <<mapping, auto, tx>>
        /\ proposal' = [proposal EXCEPT ![p].attempts = @ + 1, ![p].tries = @ + 1]
    BY <1>3 DEF DenyCode, definitions
  <2>2. "content" \in DOMAIN proposal[p]
    BY DEF ConfigInv, ProposalsInv, IsProposal
  <2>3. \A q \in Proposals : proposal'[q].content = proposal[q].content
    BY <1>0, <2>1, <2>2
  <2>4. \A r \in Spaces : tx[r].pc = "valid" => tx[r].proposal \in Proposals
    BY DEF ConfigInv, TxInv
  <2>. QED
    BY <2>1, <2>3, <2>4, MappingFrame, ValidFrame
<1>4. ASSUME NEW s \in Spaces, NEW p \in Proposals, NEW a \in Persons, BeginConfirm(s, p, a)
      PROVE  ValidInv' /\ MappingOfAutomationAlive'
  <2>1. UNCHANGED <<mapping, auto>> /\ tx'[s].pc = "begun"
    BY <1>0, <1>4 DEF BeginConfirm, definitions
  <2>2. \A r \in Spaces : tx'[r].pc # "valid"
    BY <2>1 DEF OneSpace
  <2>. QED
    BY <2>1, <2>2, MappingFrame DEF ValidInv
<1>5. ASSUME NEW s \in Spaces, Revalidate(s)
      PROVE  ValidInv' /\ MappingOfAutomationAlive'
  <2>1. /\ UNCHANGED <<mapping, auto, proposal>>
        /\ TransitionsCovered(s, proposal[tx[s].proposal].content)
        /\ \E row : tx' = [tx EXCEPT ![s].pc = "valid", ![s].row = row]
    BY <1>5 DEF Revalidate, definitions
  <2>2. tx'[s].proposal = tx[s].proposal
    BY <1>0, <2>1
  <2>3. PICK c : c = proposal[tx[s].proposal].content
    OBVIOUS
  <2>4. MapCovered(s, c)
    BY <2>1, <2>3 DEF TransitionsCovered, MapCovered
  <2>5. MapCovered(s, c)'
    BY <2>1, <2>4 DEF MapCovered, Dependents
  <2>6. MapCovered(s, proposal[tx[s].proposal].content)'
    BY <2>1, <2>2, <2>3, <2>5
  <2>. QED
    BY <2>1, <2>6, MappingFrame DEF ValidInv, OneSpace
<1>6. ASSUME NEW s \in Spaces, Apply(s) \/ Abort(s)
      PROVE  ValidInv'
  <2>1. tx' = [tx EXCEPT ![s] = NoTx]
    BY <1>6 DEF Apply, Abort, EndTx
  <2>2. tx'[s].pc = "idle"
    BY <1>0, <2>1 DEF NoTx
  <2>. QED
    BY <2>2 DEF ValidInv, OneSpace
<1>7. ASSUME NEW s \in Spaces, Abort(s) PROVE MappingOfAutomationAlive'
  BY <1>7, MappingFrame DEF Abort, definitions
<1>8. ASSUME NEW s \in Spaces, NEW v, ObserveMapping(s, v) \/ ObserveAutomation(s, v)
      PROVE  ValidInv' /\ MappingOfAutomationAlive'
  BY <1>8, MappingFrame, ValidFrame DEF ObserveMapping, ObserveAutomation, definitions
<1>9. ASSUME UNCHANGED vars PROVE ValidInv' /\ MappingOfAutomationAlive'
  <2>1. UNCHANGED <<mapping, auto, tx, proposal>>
    BY <1>9 DEF vars
  <2>. QED
    BY <2>1, MappingFrame, ValidFrame
<1>. QED
  BY <1>0, <1>1, <1>2, <1>3, <1>4, <1>5, <1>6, <1>7, <1>8, <1>9, ApplyKeepsMapping
     DEF Next, MappingInv

\* In a community of one Space no running automation is left without the
\* provider's mapping either.
THEOREM MappingAlive ==
    ASSUME OneSpace PROVE Spec => []MappingOfAutomationAlive
<1>1. Init => MappingInv
  <2>1. Init => ValidInv /\ MappingOfAutomationAlive
    BY DEF Init, ValidInv, NoTx, MappingOfAutomationAlive
  <2>. QED
    BY <2>1, InitConfig DEF MappingInv
<1>2. MappingInv /\ [Next]_vars => MappingInv'
  BY MappingStep
<1>3. MappingInv => MappingOfAutomationAlive
  BY DEF MappingInv
<1>. QED
  BY <1>1, <1>2, <1>3, PTL DEF Spec

=============================================================================
