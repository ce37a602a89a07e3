------------------------- MODULE WorkbenchAccounts -------------------------
(* Who is behind a request to the workbench.  A source account (WeCom) is    *)
(* observed, then confirmed to be a person's by somebody who manages         *)
(* identities: that leaves a tenant identity, the anchor, an account can be  *)
(* opened on.  A session is bound to the versions of its account and anchor  *)
(* at the login.  A request proves its session in one transaction and acts   *)
(* in another; the tenant lock makes each of them atomic and nothing else.   *)
EXTENDS Naturals, FiniteSets

CONSTANTS Folk,        \* persons
          First,       \* the one who is there first and manages identities
          Accounts_,   \* source accounts
          Seats,       \* sessions, in the order they are opened
          LoginLimit,  \* failures allowed in a window (5)
          MaxAnchor,   \* bound: versions of a source link
          MaxSecret    \* bound: passwords of an account

ASSUME ManagerPresent == First \in Folk /\ Accounts_ # {}

VARIABLES links,    \* source account |-> [st, person, ver]
          anchors,  \* source account |-> the tenant identity reviewed from it
          vouched,    \* persons whose ledger entry is verified
          posted,   \* persons with an appointment
          acct,     \* person |-> [st, ver, on, pw]
          sess,     \* [person, aver, iver, live] and history: pw, epoch
          busy,     \* sessions that were proven for a request under way
          draft_,   \* what a manager saw of a link: [link, ver]
          tries,    \* person |-> logins counted in this window
          epoch     \* history: person |-> identities revoked so far

wvars == <<links, anchors, vouched, posted, acct, sess, busy, draft_, tries, epoch>>

NoLink == [st |-> "none", person |-> "none", ver |-> 0]
NoAccount == [st |-> "none", ver |-> 0, on |-> "none", pw |-> 0]
NoSession == [person |-> "none", aver |-> 0, iver |-> 0, live |-> FALSE, pw |-> 0, epoch |-> 0]
NoDraft == [link |-> "none", ver |-> 0]

\* The first manager has an account.
AccountsInit ==
    LET mine == CHOOSE l \in Accounts_ : TRUE
        sure == [st |-> "confirmed", person |-> First, ver |-> 1]
    IN /\ links = [l \in Accounts_ |-> IF l = mine THEN sure ELSE NoLink]
       /\ anchors = [l \in Accounts_ |-> IF l = mine THEN sure ELSE NoLink]
       /\ vouched = {First} /\ posted = {First}
       /\ acct = [p \in Folk |-> IF p = First THEN [st |-> "active", ver |-> 1, on |-> mine, pw |-> 1]
                                 ELSE NoAccount]
       /\ sess = [s \in Seats |-> NoSession] /\ busy = {} /\ draft_ = NoDraft
       /\ tries = [p \in Folk |-> 0] /\ epoch = [p \in Folk |-> 0]

Verifications(a, p) == {l \in Accounts_ : a[l].st = "confirmed" /\ a[l].person = p}

\* The account is active and unchanged, so is the identity it was opened on.
verify_session(s) ==
    LET p == sess[s].person IN
    sess[s].live /\ acct[p].st = "active" /\ sess[s].aver = acct[p].ver
       /\ anchors[acct[p].on].person = p /\ anchors[acct[p].on].ver = sess[s].iver

\* verify: and the identity is confirmed.
Verified(s) == verify_session(s) /\ anchors[acct[sess[s].person].on].st = "confirmed"

\* session_actor, the first transaction of every request.
session_actor(s) ==
    /\ s \notin busy /\ sess[s].live /\ Verified(s) /\ busy' = busy \cup {s}
    /\ UNCHANGED <<links, anchors, vouched, posted, acct, sess, draft_, tries, epoch>>

\* Its second one proves everything again, or the request is refused.
Request(s) == s \in busy /\ busy' = busy \ {s}
Refused(s) ==
    /\ Request(s) /\ ~Verified(s)
    /\ UNCHANGED <<links, anchors, vouched, posted, acct, sess, draft_, tries, epoch>>
account_admin(s) == Request(s) /\ Verified(s) /\ sess[s].person \in posted

-----------------------------------------------------------------------------
(* Accounts.                                                                 *)

\* Attempts are counted and committed whatever comes of them; past the limit
\* nothing is even compared.
login(p, right) ==
    /\ tries[p] < LoginLimit /\ tries' = [tries EXCEPT ![p] = @ + 1]
    /\ LET free == {s \in Seats : sess[s] = NoSession}
           open == /\ right /\ acct[p].st = "active" /\ p \in vouched
                   /\ anchors[acct[p].on].st = "confirmed" /\ anchors[acct[p].on].person = p
       IN IF open
          THEN \E s \in free : /\ \A q \in free : s <= q
                  /\ sess' = [sess EXCEPT ![s] = [person |-> p, aver |-> acct[p].ver, live |-> TRUE,
                        iver |-> anchors[acct[p].on].ver, pw |-> acct[p].pw, epoch |-> epoch[p]]]
          ELSE UNCHANGED sess
    /\ UNCHANGED <<links, anchors, vouched, posted, acct, busy, draft_, epoch>>

WindowPasses(p) ==
    /\ tries[p] > 0 /\ tries' = [tries EXCEPT ![p] = 0]
    /\ UNCHANGED <<links, anchors, vouched, posted, acct, sess, busy, draft_, epoch>>

Closed(p) == [s \in Seats |-> IF sess[s].person = p THEN [sess[s] EXCEPT !.live = FALSE] ELSE sess[s]]

logout(s) ==
    /\ Request(s) /\ Verified(s) /\ sess' = [sess EXCEPT ![s].live = FALSE]
    /\ UNCHANGED <<links, anchors, vouched, posted, acct, draft_, tries, epoch>>

\* A new password ends every session of the account.
replace_password(p) ==
    /\ acct[p].st = "active" /\ acct[p].pw < MaxSecret
    /\ acct' = [acct EXCEPT ![p].ver = @ + 1, ![p].pw = @ + 1] /\ sess' = Closed(p)

change_password(s) ==
    /\ Request(s) /\ Verified(s) /\ replace_password(sess[s].person)
    /\ UNCHANGED <<links, anchors, vouched, posted, draft_, tries, epoch>>

create_account(s, p) ==
    /\ account_admin(s) /\ acct[p].st = "none" /\ p \in vouched /\ Verifications(anchors, p) # {}
    /\ \E l \in Verifications(anchors, p) :
          acct' = [acct EXCEPT ![p] = [st |-> "active", ver |-> 1, on |-> l, pw |-> 1]]
    /\ UNCHANGED <<links, anchors, vouched, posted, sess, draft_, tries, epoch>>

reset_account(s, p) ==
    /\ account_admin(s) /\ replace_password(p)
    /\ UNCHANGED <<links, anchors, vouched, posted, draft_, tries, epoch>>

disable_account(s, p) ==
    /\ account_admin(s) /\ acct[p].st = "active" /\ sess' = Closed(p)
    /\ acct' = [acct EXCEPT ![p].st = "disabled", ![p].ver = @ + 1]
    /\ UNCHANGED <<links, anchors, vouched, posted, draft_, tries, epoch>>

SessionExpires(s) ==
    /\ sess[s].live /\ sess' = [sess EXCEPT ![s].live = FALSE]
    /\ UNCHANGED <<links, anchors, vouched, posted, acct, busy, draft_, tries, epoch>>

-----------------------------------------------------------------------------
(* Identities.                                                               *)

\* A turn from the account: an observation, never a person.
observe_wecom_host_turn(l) ==
    /\ links[l].st = "none" /\ links' = [links EXCEPT ![l] = [NoLink EXCEPT !.st = "observed", !.ver = 1]]
    /\ UNCHANGED <<anchors, vouched, posted, acct, sess, busy, draft_, tries, epoch>>

\* A manager is shown the link.
preview_identity(l) ==
    /\ links[l].st # "none" /\ draft_' = [link |-> l, ver |-> links[l].ver] /\ draft_' # draft_
    /\ UNCHANGED <<links, anchors, vouched, posted, acct, sess, busy, tries, epoch>>

\* Both the page and the older tool save against the version that was shown.
Saves(s, l) ==
    /\ account_admin(s) /\ draft_ = [link |-> l, ver |-> links[l].ver] /\ draft_' = NoDraft
    /\ links[l].ver < MaxAnchor

confirm_identity(s, l, p) ==
    /\ Saves(s, l) /\ links[l].st \in {"observed", "revoked"}
    /\ links' = [links EXCEPT ![l] = [st |-> "confirmed", person |-> p, ver |-> @.ver + 1]]
    /\ anchors' = [anchors EXCEPT ![l] = [st |-> "confirmed", person |-> p, ver |-> @.ver + 1]]
    /\ vouched' = vouched \cup {p}
    /\ UNCHANGED <<posted, acct, sess, tries, epoch>>

\* With the identity go the sessions; with the last one the appointments too.
revoke_reviewed_identity(s, l) ==
    /\ Saves(s, l) /\ links[l].st = "confirmed"
    /\ LET p == links[l].person
           a == [anchors EXCEPT ![l] = IF @.st = "confirmed" /\ @.person = p
                                       THEN [anchors[l] EXCEPT !.st = "revoked", !.ver = @ + 1] ELSE @]
       IN /\ links' = [links EXCEPT ![l].st = "revoked", ![l].ver = @ + 1]
          /\ anchors' = a /\ sess' = Closed(p) /\ epoch' = [epoch EXCEPT ![p] = @ + 1]
          /\ IF Verifications(a, p) = {} THEN vouched' = vouched \ {p} /\ posted' = posted \ {p}
             ELSE UNCHANGED <<vouched, posted>>
    /\ UNCHANGED <<acct, tries>>

\* The older tool confirms the person a link has once more, without a review.
identity_change(s, l) ==
    /\ Saves(s, l) /\ links[l].st = "confirmed" /\ links' = [links EXCEPT ![l].ver = @ + 1]
    /\ UNCHANGED <<anchors, vouched, posted, acct, sess, tries, epoch>>

Appointed(p) ==
    /\ p \in vouched \ posted /\ posted' = posted \cup {p}
    /\ UNCHANGED <<links, anchors, vouched, acct, sess, busy, draft_, tries, epoch>>

AccountsNext ==
    \/ \E s \in Seats : session_actor(s) \/ Refused(s) \/ logout(s) \/ change_password(s) \/ SessionExpires(s)
    \/ \E s \in Seats, p \in Folk : create_account(s, p) \/ reset_account(s, p) \/ disable_account(s, p)
    \/ \E p \in Folk : WindowPasses(p) \/ Appointed(p) \/ \E right \in BOOLEAN : login(p, right)
    \/ \E l \in Accounts_ :
          \/ observe_wecom_host_turn(l) \/ preview_identity(l)
          \/ \E s \in Seats : \/ revoke_reviewed_identity(s, l) \/ identity_change(s, l)
                              \/ \E p \in Folk : confirm_identity(s, l, p)

-----------------------------------------------------------------------------
\* A session that still passes was opened with the password the account has
\* now and no identity of its person was revoked since, not even one that was
\* confirmed again; whoever is appointed has a verified identity, whose source
\* account is confirmed for the same person.
AccountsTrue ==
    /\ \A s \in Seats : sess[s].live /\ Verified(s) =>
          sess[s].pw = acct[sess[s].person].pw /\ sess[s].epoch = epoch[sess[s].person]
    /\ \A p \in posted : Verifications(anchors, p) # {}
    /\ \A l \in Accounts_ : anchors[l].st = "confirmed" =>
          links[l].st = "confirmed" /\ links[l].person = anchors[l].person
=============================================================================
