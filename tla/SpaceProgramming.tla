-------------------------- MODULE SpaceProgramming --------------------------
(* Requests for a new mapping of provider events.  A person asks in a space; *)
(* a confined programming agent claims the request once, makes a pull        *)
(* request and reports it; when the very bundle it reported is part of the   *)
(* running release, people of the space may plan with it in shadow.  Replies *)
(* may be lost, claims expire, releases come and go by restarts.             *)
EXTENDS Naturals, FiniteSets

CONSTANTS Briefs,     \* requests, numbered in creation order
          Bundles,    \* contents a mapping bundle may have
          NoBundle,   \* none
          People_,    \* persons of the space
          Asker,      \* the one who asks
          MaxInvalidExt \* MAX_INVALID_CANDIDATES_PER_CLAIM

VARIABLES ext,       \* the work items: [st, valid, owner, fresh, bundle]
          extOn,     \* the capability is enabled
          tokens,    \* requests whose claim token the agent has
          pulls,     \* request |-> the bundle of its pull request
          registry,  \* the bundle of the running release
          commit,    \* the release names its commit
          editors,   \* persons who may change the space
          claims,    \* history: claims of each request
          planned,   \* history: shadow plans [of, bundle, ran]
          ran        \* history: bundles of releases that named their commit

evars == <<ext, extOn, tokens, pulls, registry, commit, editors, claims, planned, ran>>

NoExt == [st |-> "none", valid |-> TRUE, owner |-> "none", fresh |-> FALSE, bundle |-> NoBundle]

ExtensionInit ==
    /\ ext = [r \in Briefs |-> NoExt] /\ extOn = TRUE /\ tokens = {}
    /\ pulls = [r \in Briefs |-> NoBundle] /\ registry = NoBundle /\ commit = TRUE
    /\ editors = People_ /\ claims = [r \in Briefs |-> 0] /\ planned = {} /\ ran = {}

\* Idempotent by the message that asked: only the first one writes.
prepare_programming_extension(r, p, valid) ==
    /\ extOn /\ ext[r].st = "none" /\ \A q \in Briefs : q < r => ext[q].st # "none"
    /\ ext' = [ext EXCEPT ![r] = [NoExt EXCEPT !.st = "queued", !.valid = valid, !.owner = p]]
    /\ UNCHANGED <<extOn, tokens, pulls, registry, commit, editors, claims, planned, ran>>

-----------------------------------------------------------------------------
(* The broker.                                                               *)

Overdue == {r \in Briefs : ext[r].st = "processing" /\ ~ext[r].fresh}
Failed_(r) == [ext[r] EXCEPT !.st = "failed", !.fresh = FALSE]

\* What one claim takes, oldest first: requests out of contract B, then at
\* most one that is within.
ExtensionCandidates(B, T) ==
    LET queued == {r \in Briefs : ext[r].st = "queued" /\ extOn} IN
    /\ B \cup T \subseteq queued /\ Cardinality(T) <= 1
    /\ \A b \in B : ~ext[b].valid /\ \A t \in T : b < t
    /\ \A t \in T : ext[t].valid
    /\ \A t \in B \cup T, u \in queued \ (B \cup T) : t < u
    /\ IF T = {} THEN Cardinality(B) = MaxInvalidExt \/ B = queued ELSE Cardinality(B) < MaxInvalidExt

\* Claims past their time fail with the same transaction; the reply with the
\* token may be lost.
claim_extension ==
    /\ \E B \in SUBSET Briefs : \E T \in SUBSET Briefs :
          /\ ExtensionCandidates(B, T) /\ B \cup T \cup Overdue # {}
          /\ ext' = [r \in Briefs |->
                CASE r \in T -> [ext[r] EXCEPT !.st = "processing", !.fresh = TRUE]
                  [] r \in B \cup Overdue -> Failed_(r)
                  [] OTHER -> ext[r]]
          /\ tokens' \in {tokens, tokens \cup T}
          /\ claims' = [r \in Briefs |-> IF r \in T THEN claims[r] + 1 ELSE claims[r]]
    /\ UNCHANGED <<extOn, pulls, registry, commit, editors, planned, ran>>

FinishAllowed(r) == r \in tokens /\ ext[r].st = "processing" /\ ext[r].fresh /\ extOn

finish_extension(r, ok) ==
    /\ FinishAllowed(r) /\ (ok => pulls[r] # NoBundle)
    /\ ext' = [ext EXCEPT ![r] = IF ok THEN [@ EXCEPT !.st = "awaiting_publish", !.fresh = FALSE, !.bundle = pulls[r]]
                                 ELSE Failed_(r)]
    /\ UNCHANGED <<extOn, tokens, pulls, registry, commit, editors, claims, planned, ran>>

-----------------------------------------------------------------------------
(* Back in the space.                                                        *)

\* Released once the running release has exactly the reported bundle.
reconcile_for_status(r) ==
    IF ext[r].st = "awaiting_publish" /\ commit /\ registry = ext[r].bundle
    THEN [ext EXCEPT ![r].st = "completed"] ELSE ext

status_extension(r) ==
    /\ ext[r].st # "none" /\ ext' = reconcile_for_status(r) /\ ext' # ext
    /\ UNCHANGED <<extOn, tokens, pulls, registry, commit, editors, claims, planned, ran>>

\* Completed, and the release still has the bundle.
ready_continuation(x, r) == x[r].st = "completed" /\ registry = x[r].bundle

load_ready_programming_extension(x, r, p) == (p = x[r].owner \/ p \in editors) /\ ready_continuation(x, r)

\* The whole transaction is undone unless the request is ready.
prepare_programming_extension_shadow(r, p) ==
    /\ ext[r].st # "none"
    /\ LET x == reconcile_for_status(r) IN
       /\ load_ready_programming_extension(x, r, p)
       /\ ext' = x /\ planned' = planned \cup {[of |-> r, bundle |-> x[r].bundle, ran |-> registry]}
    /\ UNCHANGED <<extOn, tokens, pulls, registry, commit, editors, claims, ran>>

-----------------------------------------------------------------------------
(* Outside.                                                                  *)

ExtensionExpires(r) ==
    /\ ext[r].st = "processing" /\ ext[r].fresh /\ ext' = [ext EXCEPT ![r].fresh = FALSE]
    /\ UNCHANGED <<extOn, tokens, pulls, registry, commit, editors, claims, planned, ran>>

\* The agent makes its pull request, in time or not.
PullRequest(r, b) ==
    /\ r \in tokens /\ pulls[r] = NoBundle /\ pulls' = [pulls EXCEPT ![r] = b]
    /\ UNCHANGED <<ext, extOn, tokens, registry, commit, editors, claims, planned, ran>>

\* A restart with another release: a bundle of a pull request, edited or not.
Released(b, named) ==
    /\ <<registry, commit>> # <<b, named>> /\ (b = NoBundle => named) /\ registry' = b /\ commit' = named
    /\ ran' = IF named /\ b # NoBundle THEN ran \cup {b} ELSE ran
    /\ UNCHANGED <<ext, extOn, tokens, pulls, editors, claims, planned>>

SwitchExtension ==
    /\ extOn' = ~extOn
    /\ UNCHANGED <<ext, tokens, pulls, registry, commit, editors, claims, planned, ran>>

EditorLeaves(p) ==
    /\ p \in editors \ {Asker} /\ editors' = editors \ {p}
    /\ UNCHANGED <<ext, extOn, tokens, pulls, registry, commit, claims, planned, ran>>

ExtensionNext ==
    \/ \E r \in Briefs, v \in BOOLEAN : prepare_programming_extension(r, Asker, v)
    \/ claim_extension
    \/ \E r \in Briefs : \/ \E ok \in BOOLEAN : finish_extension(r, ok)
                         \/ status_extension(r) \/ ExtensionExpires(r)
                         \/ \E p \in People_ : prepare_programming_extension_shadow(r, p)
                         \/ \E b \in Bundles : PullRequest(r, b)
    \/ \E b \in Bundles \cup {NoBundle}, n \in BOOLEAN : Released(b, n)
    \/ SwitchExtension
    \/ \E p \in People_ : EditorLeaves(p)

-----------------------------------------------------------------------------
\* A request is worked on once; what is planned with is what its own agent
\* reported and what runs; a request is completed only with a pull request of
\* its own, and no request out of contract gets anywhere.
ExtensionTrue ==
    /\ \A r \in Briefs : claims[r] <= 1
    /\ \A s \in planned : s.bundle = pulls[s.of] /\ s.ran = s.bundle
    /\ \A r \in Briefs : ext[r].st \in {"awaiting_publish", "completed"} =>
          ext[r].valid /\ claims[r] = 1 /\ ext[r].bundle = pulls[r] /\ pulls[r] # NoBundle
    /\ \A r \in Briefs : ext[r].st = "completed" => ext[r].bundle \in ran
=============================================================================
