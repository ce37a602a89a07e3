---------------------------- MODULE RecordsProofs ----------------------------
(***************************************************************************)
(* TLAPS proofs about the parts that keep records, each by itself: the     *)
(* inductive invariant of a part, that its initial states satisfy it, that *)
(* every step of it and every step of the others preserves it, and that it *)
(* implies what the records promise.  BackOfficeProofs composes them.      *)
(***************************************************************************)
EXTENDS BusinessActions, FeishuImageStore, ActivitySignals, ActivityTable, PersonIdentity, SpaceProgramming,
        WorkbenchAccounts, DailyDigest, MemberProfile, DailyReport, ChatReport, FiniteSetTheorems, WellFoundedInduction, TLAPS

\* A set of numbers has a least one.
LEMMA LeastNumber ==
  ASSUME NEW S \in SUBSET Nat, S # {}
  PROVE  \E m \in S : \A n \in S : m <= n
<1>1. IsWellFoundedOn({q \in Nat \X Nat : q[1] < q[2]}, Nat)
  BY NatLessThanWellFounded, Zenon DEF OpToRel
<1>2. PICK m \in S : \A n \in S : ~(<<n, m>> \in {q \in Nat \X Nat : q[1] < q[2]})
  BY <1>1, WFMin
<1>3. \A n \in S : ~(n < m)
  BY <1>2
<1> QED
  BY <1>3

-----------------------------------------------------------------------------
(***************************************************************************)
(* Accounts of the workbench                                               *)
(***************************************************************************)

LinkFields == {"st", "person", "ver"}

(* A live session was opened with the password its account has and under   *)
(* the identities its person has: what changes either ends it.             *)
SessionsInv ==
    /\ DOMAIN acct = Folk /\ DOMAIN epoch = Folk /\ DOMAIN sess = Seats
    /\ \A p \in Folk : DOMAIN acct[p] = {"st", "ver", "on", "pw"}
    /\ \A s \in Seats :
          /\ DOMAIN sess[s] = {"person", "aver", "iver", "live", "pw", "epoch"}
          /\ sess[s].live => /\ sess[s].person \in Folk
                             /\ acct[sess[s].person].st = "active"
                             /\ sess[s].pw = acct[sess[s].person].pw
                             /\ sess[s].epoch = epoch[sess[s].person]

(* A verified person has a confirmed identity, and the link it was taken   *)
(* from says the same.                                                     *)
IdentitiesInv ==
    /\ DOMAIN links = Accounts_ /\ DOMAIN anchors = Accounts_
    /\ \A l \in Accounts_ :
          /\ DOMAIN links[l] = LinkFields /\ DOMAIN anchors[l] = LinkFields
          /\ anchors[l].st = "confirmed" =>
                links[l].st = "confirmed" /\ links[l].person = anchors[l].person
    /\ posted \subseteq vouched
    /\ \A p \in vouched : Verifications(anchors, p) # {}

AccountsInv == SessionsInv /\ IdentitiesInv

LEMMA AccountsInitInv == AccountsInit => AccountsInv
<1> SUFFICES ASSUME AccountsInit PROVE AccountsInv
  OBVIOUS
<1>1. PICK mine, noLink : mine = (CHOOSE l \in Accounts_ : TRUE) /\ noLink = NoLink
  OBVIOUS
<1>2. PICK sure : sure = [st |-> "confirmed", person |-> First, ver |-> 1]
  OBVIOUS
<1>3. PICK own, none, closed : /\ own = [st |-> "active", ver |-> 1, on |-> mine, pw |-> 1]
                               /\ none = NoAccount /\ closed = NoSession
  OBVIOUS
<1>4. mine \in Accounts_ /\ First \in Folk
  BY <1>1, ManagerPresent
<1>5. /\ links = [l \in Accounts_ |-> IF l = mine THEN sure ELSE noLink]
      /\ anchors = [l \in Accounts_ |-> IF l = mine THEN sure ELSE noLink]
      /\ acct = [p \in Folk |-> IF p = First THEN own ELSE none]
      /\ sess = [s \in Seats |-> closed] /\ epoch = [p \in Folk |-> 0]
      /\ vouched = {First} /\ posted = {First}
  BY <1>1, <1>2, <1>3 DEF AccountsInit
<1>6. /\ DOMAIN sure = LinkFields /\ sure.st = "confirmed" /\ sure.person = First
      /\ DOMAIN noLink = LinkFields /\ noLink.st = "none"
  BY <1>1, <1>2 DEF LinkFields, NoLink
<1>7. /\ DOMAIN own = {"st", "ver", "on", "pw"} /\ DOMAIN none = {"st", "ver", "on", "pw"}
      /\ DOMAIN closed = {"person", "aver", "iver", "live", "pw", "epoch"} /\ ~closed.live
  BY <1>3 DEF NoAccount, NoSession
<1>8. SessionsInv
  BY <1>5, <1>7 DEF SessionsInv
<1>9. mine \in Verifications(anchors, First)
  BY <1>4, <1>5, <1>6 DEF Verifications
<1>10. IdentitiesInv
  BY <1>4, <1>5, <1>6, <1>9 DEF IdentitiesInv
<1> QED
  BY <1>8, <1>10 DEF AccountsInv

LEMMA SessionsClosed ==
  ASSUME SessionsInv, NEW p, sess' = Closed(p)
  PROVE  /\ DOMAIN sess' = Seats
         /\ \A s \in Seats : /\ DOMAIN sess'[s] = {"person", "aver", "iver", "live", "pw", "epoch"}
                             /\ sess'[s].live => sess'[s] = sess[s] /\ sess[s].person # p
BY DEF Closed, SessionsInv

\* An account of p that is changed as its sessions end.
LEMMA AccountChanged ==
  ASSUME SessionsInv, NEW p \in Folk, sess' = Closed(p), UNCHANGED epoch,
         DOMAIN acct' = Folk, \A q \in Folk : q # p => acct'[q] = acct[q],
         DOMAIN acct'[p] = {"st", "ver", "on", "pw"}
  PROVE  SessionsInv'
BY SessionsClosed DEF SessionsInv

LEMMA PasswordStep ==
  ASSUME SessionsInv, NEW p, replace_password(p), UNCHANGED epoch
  PROVE  SessionsInv'
<1>1. PICK new : new = [acct[p] EXCEPT !.ver = @ + 1, !.pw = @ + 1]
  OBVIOUS
<1>2. acct' = [acct EXCEPT ![p] = new] /\ sess' = Closed(p)
  <2>1. acct' = [acct EXCEPT ![p].ver = @ + 1, ![p].pw = @ + 1] /\ sess' = Closed(p)
    BY DEF replace_password
  <2> QED
    BY <1>1, <2>1
<1>3. p \in Folk => DOMAIN new = {"st", "ver", "on", "pw"}
  BY <1>1 DEF SessionsInv
<1>4. CASE p \in Folk
  BY <1>2, <1>3, <1>4, AccountChanged DEF SessionsInv
<1>5. CASE p \notin Folk
  <2>1. DOMAIN acct' = Folk /\ \A q \in Folk : acct'[q] = acct[q]
    BY <1>2, <1>5 DEF SessionsInv
  <2> QED
    BY <1>2, <2>1, SessionsClosed DEF SessionsInv
<1> QED
  BY <1>4, <1>5

LEMMA DisableStep ==
  ASSUME SessionsInv, NEW s, NEW p \in Folk, disable_account(s, p)
  PROVE  SessionsInv'
<1>1. PICK new : new = [acct[p] EXCEPT !.st = "disabled", !.ver = @ + 1]
  OBVIOUS
<1>2. acct' = [acct EXCEPT ![p] = new] /\ sess' = Closed(p) /\ UNCHANGED epoch
  <2>1. /\ acct' = [acct EXCEPT ![p].st = "disabled", ![p].ver = @ + 1]
        /\ sess' = Closed(p) /\ UNCHANGED epoch
    BY DEF disable_account
  <2> QED
    BY <1>1, <2>1
<1>3. DOMAIN new = {"st", "ver", "on", "pw"}
  BY <1>1 DEF SessionsInv
<1> QED
  BY <1>2, <1>3, AccountChanged DEF SessionsInv

LEMMA AccountStep ==
  ASSUME SessionsInv, NEW s, NEW p \in Folk, create_account(s, p)
  PROVE  SessionsInv'
<1>1. PICK l : acct' = [acct EXCEPT ![p] = [st |-> "active", ver |-> 1, on |-> l, pw |-> 1]]
  BY DEF create_account
<1>2. PICK new : new = [st |-> "active", ver |-> 1, on |-> l, pw |-> 1]
  OBVIOUS
<1>3. DOMAIN new = {"st", "ver", "on", "pw"} /\ acct' = [acct EXCEPT ![p] = new]
  BY <1>1, <1>2
<1>4. acct[p].st = "none" /\ UNCHANGED <<sess, epoch>>
  BY DEF create_account
<1> QED
  BY <1>3, <1>4 DEF SessionsInv

LEMMA LoginStep ==
  ASSUME SessionsInv, NEW p \in Folk, NEW right, login(p, right)
  PROVE  SessionsInv'
<1>1. UNCHANGED <<acct, epoch>>
  BY DEF login
<1>2. CASE UNCHANGED sess
  BY <1>1, <1>2 DEF SessionsInv
<1>3. ASSUME NEW s \in Seats, acct[p].st = "active",
             sess' = [sess EXCEPT ![s] = [person |-> p, aver |-> acct[p].ver, live |-> TRUE,
                        iver |-> anchors[acct[p].on].ver, pw |-> acct[p].pw, epoch |-> epoch[p]]]
      PROVE  SessionsInv'
  <2>1. PICK new : new = [person |-> p, aver |-> acct[p].ver, live |-> TRUE,
                        iver |-> anchors[acct[p].on].ver, pw |-> acct[p].pw, epoch |-> epoch[p]]
    OBVIOUS
  <2>2. /\ DOMAIN new = {"person", "aver", "iver", "live", "pw", "epoch"}
        /\ new.person = p /\ new.pw = acct[p].pw /\ new.epoch = epoch[p]
    BY <2>1
  <2>3. sess' = [sess EXCEPT ![s] = new]
    BY <1>3, <2>1
  <2> QED
    BY <1>1, <1>3, <2>2, <2>3 DEF SessionsInv
<1> QED
  BY <1>2, <1>3 DEF login

\* A session that ends.
LEMMA SessionEndedStep ==
  ASSUME SessionsInv, NEW s, sess' = [sess EXCEPT ![s].live = FALSE], UNCHANGED <<acct, epoch>>
  PROVE  SessionsInv'
<1>1. PICK new : new = [sess[s] EXCEPT !.live = FALSE]
  OBVIOUS
<1>2. sess' = [sess EXCEPT ![s] = new]
  BY <1>1
<1>3. s \in Seats => /\ DOMAIN new = {"person", "aver", "iver", "live", "pw", "epoch"} /\ ~new.live
  BY <1>1 DEF SessionsInv
<1> QED
  BY <1>2, <1>3 DEF SessionsInv

-----------------------------------------------------------------------------
(* Identities.                                                             *)

\* A link that no anchor rests on, or that keeps its person and stays
\* confirmed, may change.
LEMMA AnchorStep ==
  ASSUME IdentitiesInv, NEW l \in Accounts_, NEW new, links' = [links EXCEPT ![l] = new],
         DOMAIN new = LinkFields,
         \/ anchors[l].st # "confirmed"
         \/ new.st = "confirmed" /\ new.person = links[l].person,
         UNCHANGED <<anchors, posted, vouched>>
  PROVE  IdentitiesInv'
BY DEF IdentitiesInv, Verifications

LEMMA ConfirmStep ==
  ASSUME IdentitiesInv, NEW s, NEW l \in Accounts_, NEW p, confirm_identity(s, l, p)
  PROVE  IdentitiesInv'
<1>1. PICK new : new = [st |-> "confirmed", person |-> p, ver |-> links[l].ver + 1]
  OBVIOUS
<1>2. PICK old : old = [st |-> "confirmed", person |-> p, ver |-> anchors[l].ver + 1]
  OBVIOUS
<1>3. /\ DOMAIN new = LinkFields /\ new.st = "confirmed" /\ new.person = p
      /\ DOMAIN old = LinkFields /\ old.st = "confirmed" /\ old.person = p
  BY <1>1, <1>2 DEF LinkFields
<1>4. links' = [links EXCEPT ![l] = new] /\ anchors' = [anchors EXCEPT ![l] = old]
  BY <1>1, <1>2 DEF confirm_identity
<1>5. /\ vouched' = vouched \cup {p} /\ UNCHANGED posted
      /\ links[l].st \in {"observed", "revoked"}
  BY DEF confirm_identity
<1>6. anchors[l].st # "confirmed"
  BY <1>5 DEF IdentitiesInv
<1>7. \A q : Verifications(anchors, q) \subseteq Verifications(anchors', q)
  BY <1>3, <1>4, <1>6 DEF IdentitiesInv, Verifications
<1>8. l \in Verifications(anchors', p)
  BY <1>3, <1>4 DEF IdentitiesInv, Verifications
<1>9. \A q \in vouched' : Verifications(anchors', q) # {}
  BY <1>5, <1>7, <1>8 DEF IdentitiesInv
<1> QED
  BY <1>3, <1>4, <1>5, <1>9 DEF IdentitiesInv

LEMMA AnchorRevokedStep ==
  ASSUME AccountsInv, NEW s, NEW l \in Accounts_, revoke_reviewed_identity(s, l)
  PROVE  AccountsInv'
<1>1. PICK p : p = links[l].person
  OBVIOUS
<1>2. PICK gone : gone = [anchors[l] EXCEPT !.st = "revoked", !.ver = @ + 1]
  OBVIOUS
<1>3. PICK new : new = anchors'[l]
  OBVIOUS
<1>4. PICK anchor : anchor = [links[l] EXCEPT !.st = "revoked", !.ver = @ + 1]
  OBVIOUS
<1>5. /\ links' = [links EXCEPT ![l] = anchor]
      /\ sess' = Closed(p) /\ epoch' = [epoch EXCEPT ![p] = @ + 1]
      /\ IF Verifications(anchors', p) = {} THEN vouched' = vouched \ {p} /\ posted' = posted \ {p}
         ELSE UNCHANGED <<vouched, posted>>
      /\ UNCHANGED acct
  <2>1. /\ links' = [links EXCEPT ![l].st = "revoked", ![l].ver = @ + 1]
        /\ sess' = Closed(p) /\ epoch' = [epoch EXCEPT ![p] = @ + 1] /\ UNCHANGED acct
    BY <1>1 DEF revoke_reviewed_identity
  <2>2. IF Verifications(anchors', p) = {} THEN vouched' = vouched \ {p} /\ posted' = posted \ {p}
         ELSE UNCHANGED <<vouched, posted>>
    BY <1>1 DEF revoke_reviewed_identity
  <2>3. links' = [links EXCEPT ![l] = anchor]
    BY <1>4, <2>1
  <2> QED
    BY <2>1, <2>2, <2>3
<1>6. /\ DOMAIN gone = LinkFields /\ gone.st = "revoked"
      /\ DOMAIN anchor = LinkFields /\ anchor.st = "revoked"
  BY <1>2, <1>4 DEF AccountsInv, IdentitiesInv, LinkFields
<1>7. /\ DOMAIN anchors' = Accounts_ /\ \A k \in Accounts_ : k # l => anchors'[k] = anchors[k]
      /\ DOMAIN new = LinkFields /\ new.st # "confirmed"
  <2>1. anchors' = [anchors EXCEPT ![l] = IF @.st = "confirmed" /\ @.person = p
                                            THEN [anchors[l] EXCEPT !.st = "revoked", !.ver = @ + 1] ELSE @]
    BY <1>1 DEF revoke_reviewed_identity
  <2>2. DOMAIN anchors' = Accounts_ /\ \A k \in Accounts_ : k # l => anchors'[k] = anchors[k]
    BY <2>1 DEF AccountsInv, IdentitiesInv
  <2>3. new = gone \/ (new = anchors[l] /\ ~(anchors[l].st = "confirmed" /\ anchors[l].person = p))
    BY <1>2, <1>3, <2>1 DEF AccountsInv, IdentitiesInv
  <2> QED
    BY <1>1, <1>6, <2>2, <2>3 DEF AccountsInv, IdentitiesInv
<1>8. \A q : q # p => Verifications(anchors, q) \subseteq Verifications(anchors', q)
  BY <1>1, <1>3, <1>7 DEF AccountsInv, IdentitiesInv, Verifications
<1>9. posted' \subseteq vouched' /\ \A q \in vouched' : Verifications(anchors', q) # {}
  BY <1>5, <1>8 DEF AccountsInv, IdentitiesInv
<1>10. IdentitiesInv'
  BY <1>3, <1>5, <1>6, <1>7, <1>9 DEF AccountsInv, IdentitiesInv
<1>11. SessionsInv'
  <2>1. /\ DOMAIN sess' = Seats
        /\ \A r \in Seats : /\ DOMAIN sess'[r] = {"person", "aver", "iver", "live", "pw", "epoch"}
                            /\ sess'[r].live => sess'[r] = sess[r] /\ sess[r].person # p
    BY <1>5, SessionsClosed DEF AccountsInv
  <2>2. DOMAIN epoch' = Folk /\ \A q \in Folk : q # p => epoch'[q] = epoch[q]
    BY <1>5 DEF AccountsInv, SessionsInv
  <2> QED
    BY <1>5, <2>1, <2>2 DEF AccountsInv, SessionsInv
<1> QED
  BY <1>10, <1>11 DEF AccountsInv

LEMMA AccountsAtRest == AccountsInv /\ UNCHANGED wvars => AccountsInv'
BY DEF AccountsInv, SessionsInv, IdentitiesInv, Verifications, wvars

LEMMA AccountsStep ==
  ASSUME AccountsInv, AccountsNext
  PROVE  AccountsInv'
<1>1. SessionsInv /\ IdentitiesInv
  BY DEF AccountsInv
<1>2. ASSUME UNCHANGED <<acct, sess, epoch>> PROVE SessionsInv'
  BY <1>1, <1>2 DEF SessionsInv
<1>3. ASSUME UNCHANGED <<links, anchors, vouched, posted>> PROVE IdentitiesInv'
  BY <1>1, <1>3 DEF IdentitiesInv, Verifications
<1>4. ASSUME NEW s \in Seats, session_actor(s) \/ Refused(s) PROVE AccountsInv'
  BY <1>2, <1>3, <1>4 DEF session_actor, Refused, AccountsInv
<1>5. ASSUME NEW s \in Seats, logout(s) \/ SessionExpires(s) PROVE AccountsInv'
  BY <1>1, <1>3, <1>5, SessionEndedStep DEF logout, SessionExpires, AccountsInv
<1>6. ASSUME NEW s \in Seats, change_password(s) PROVE AccountsInv'
  BY <1>1, <1>3, <1>6, PasswordStep DEF change_password, AccountsInv
<1>7. ASSUME NEW s \in Seats, NEW p \in Folk,
             create_account(s, p) \/ reset_account(s, p) \/ disable_account(s, p)
      PROVE  AccountsInv'
  <2>1. SessionsInv'
    BY <1>1, <1>7, AccountStep, PasswordStep, DisableStep DEF reset_account
  <2>2. UNCHANGED <<links, anchors, vouched, posted>>
    BY <1>7 DEF create_account, reset_account, disable_account
  <2> QED
    BY <1>3, <2>1, <2>2 DEF AccountsInv
<1>8. ASSUME NEW p \in Folk, WindowPasses(p) PROVE AccountsInv'
  BY <1>2, <1>3, <1>8 DEF WindowPasses, AccountsInv
<1>9. ASSUME NEW p \in Folk, Appointed(p) PROVE AccountsInv'
  <2>1. IdentitiesInv'
    BY <1>1, <1>9 DEF Appointed, IdentitiesInv, Verifications
  <2> QED
    BY <1>2, <1>9, <2>1 DEF Appointed, AccountsInv
<1>10. ASSUME NEW p \in Folk, NEW right \in BOOLEAN, login(p, right) PROVE AccountsInv'
  <2>1. UNCHANGED <<links, anchors, vouched, posted>>
    BY <1>10 DEF login
  <2> QED
    BY <1>1, <1>3, <1>10, <2>1, LoginStep DEF AccountsInv
<1>11. ASSUME NEW l \in Accounts_, observe_wecom_host_turn(l) PROVE AccountsInv'
  <2>1. PICK new : new = [NoLink EXCEPT !.st = "observed", !.ver = 1]
    OBVIOUS
  <2>2. DOMAIN new = LinkFields /\ links' = [links EXCEPT ![l] = new]
    BY <1>11, <2>1 DEF observe_wecom_host_turn, NoLink, LinkFields
  <2>3. anchors[l].st # "confirmed"
    BY <1>1, <1>11 DEF observe_wecom_host_turn, IdentitiesInv
  <2>4. IdentitiesInv'
    BY <1>1, <1>11, <2>2, <2>3, AnchorStep DEF observe_wecom_host_turn
  <2> QED
    BY <1>2, <1>11, <2>4 DEF observe_wecom_host_turn, AccountsInv
<1>12. ASSUME NEW l \in Accounts_, preview_identity(l) PROVE AccountsInv'
  BY <1>2, <1>3, <1>12 DEF preview_identity, AccountsInv
<1>13. ASSUME NEW l \in Accounts_, NEW s \in Seats, identity_change(s, l) PROVE AccountsInv'
  <2>1. PICK new : new = [links[l] EXCEPT !.ver = @ + 1]
    OBVIOUS
  <2>2. /\ links' = [links EXCEPT ![l] = new] /\ links[l].st = "confirmed"
        /\ UNCHANGED <<anchors, vouched, posted, acct, sess, epoch>>
    BY <1>13, <2>1 DEF identity_change
  <2>3. DOMAIN new = LinkFields /\ new.st = links[l].st /\ new.person = links[l].person
    BY <1>1, <2>1 DEF IdentitiesInv, LinkFields
  <2>4. IdentitiesInv'
    BY <1>1, <2>2, <2>3, AnchorStep
  <2> QED
    BY <1>2, <2>2, <2>4 DEF AccountsInv
<1>14. ASSUME NEW l \in Accounts_, NEW s \in Seats, NEW p \in Folk, confirm_identity(s, l, p)
       PROVE  AccountsInv'
  <2>1. UNCHANGED <<acct, sess, epoch>>
    BY <1>14 DEF confirm_identity
  <2> QED
    BY <1>1, <1>2, <1>14, <2>1, ConfirmStep DEF AccountsInv
<1> QED
  BY <1>4, <1>5, <1>6, <1>7, <1>8, <1>9, <1>10, <1>11, <1>12, <1>13, <1>14, AnchorRevokedStep
  DEF AccountsNext

LEMMA AccountsSafe == AccountsInv => AccountsTrue
BY DEF AccountsInv, SessionsInv, IdentitiesInv, AccountsTrue

-----------------------------------------------------------------------------
(***************************************************************************)
(* The programming extension                                               *)
(***************************************************************************)

ExtFields == {"st", "valid", "owner", "fresh", "bundle"}

(* A request is claimed when it leaves the queue, and only a valid one is  *)
(* worked on; a pull request stays as it was reported.                     *)
RequestOK(x, n, pull) ==
    /\ DOMAIN x = ExtFields
    /\ n \in {0, 1}
    /\ x.st \in {"none", "queued"} => n = 0
    /\ x.st = "processing" => x.valid /\ n = 1
    /\ x.st \in {"awaiting_publish", "completed"} =>
          x.valid /\ n = 1 /\ x.bundle = pull /\ pull # NoBundle
    /\ x.st = "completed" => x.bundle \in ran

ExtensionInv ==
    /\ DOMAIN ext = Briefs /\ DOMAIN pulls = Briefs /\ DOMAIN claims = Briefs
    /\ \A r \in Briefs : RequestOK(ext[r], claims[r], pulls[r])
    /\ \A s \in planned : /\ s.of \in Briefs /\ s.bundle = pulls[s.of]
                          /\ s.bundle # NoBundle /\ s.ran = s.bundle
    /\ commit /\ registry # NoBundle => registry \in ran

LEMMA ExtensionInitInv == ExtensionInit => ExtensionInv
<1> SUFFICES ASSUME ExtensionInit PROVE ExtensionInv
  OBVIOUS
<1>1. PICK no : no = NoExt
  OBVIOUS
<1>2. DOMAIN no = ExtFields /\ no.st = "none"
  BY <1>1 DEF NoExt, ExtFields
<1>3. ext = [r \in Briefs |-> no]
  BY <1>1 DEF ExtensionInit
<1> QED
  BY <1>2, <1>3 DEF ExtensionInit, ExtensionInv, RequestOK

\* One request changes, or none, and nothing but it.
LEMMA OneRequestStep ==
  ASSUME ExtensionInv, NEW r \in Briefs, DOMAIN ext' = Briefs,
         \A q \in Briefs : q # r => ext'[q] = ext[q],
         UNCHANGED <<claims, pulls, ran, registry, commit>>,
         RequestOK(ext'[r], claims[r], pulls[r]),
         \A s \in planned' : s \in planned \/ (/\ s.of \in Briefs /\ s.bundle = pulls[s.of]
                                               /\ s.bundle # NoBundle /\ s.ran = s.bundle)
  PROVE  ExtensionInv'
BY DEF ExtensionInv, RequestOK

LEMMA PrepareStep ==
  ASSUME ExtensionInv, NEW r \in Briefs, NEW p, NEW v, prepare_programming_extension(r, p, v)
  PROVE  ExtensionInv'
<1>1. PICK new : new = [NoExt EXCEPT !.st = "queued", !.valid = v, !.owner = p]
  OBVIOUS
<1>2. DOMAIN new = ExtFields /\ new.st = "queued"
  BY <1>1 DEF NoExt, ExtFields
<1>3. ext' = [ext EXCEPT ![r] = new] /\ ext[r].st = "none"
  BY <1>1 DEF prepare_programming_extension
<1>4. RequestOK(new, claims[r], pulls[r])
  BY <1>2, <1>3 DEF ExtensionInv, RequestOK
<1>5. DOMAIN ext' = Briefs /\ ext'[r] = new /\ \A q \in Briefs : q # r => ext'[q] = ext[q]
  BY <1>3 DEF ExtensionInv
<1> QED
  BY <1>4, <1>5, OneRequestStep DEF prepare_programming_extension

LEMMA FailedFacts ==
  ASSUME ExtensionInv, NEW r \in Briefs, ext[r].st \in {"queued", "processing"}
  PROVE  RequestOK(Failed_(r), claims[r], pulls[r])
<1>1. PICK new : new = Failed_(r)
  OBVIOUS
<1>2. DOMAIN new = ExtFields /\ new.st = "failed"
  BY <1>1 DEF Failed_, ExtensionInv, RequestOK, ExtFields
<1> QED
  BY <1>1, <1>2 DEF ExtensionInv, RequestOK

LEMMA ClaimExtensionStep ==
  ASSUME ExtensionInv, claim_extension
  PROVE  ExtensionInv'
<1>1. PICK B \in SUBSET Briefs, T \in SUBSET Briefs :
          /\ ExtensionCandidates(B, T)
          /\ ext' = [r \in Briefs |->
                CASE r \in T -> [ext[r] EXCEPT !.st = "processing", !.fresh = TRUE]
                  [] r \in B \cup Overdue -> Failed_(r)
                  [] OTHER -> ext[r]]
          /\ claims' = [r \in Briefs |-> IF r \in T THEN claims[r] + 1 ELSE claims[r]]
  BY DEF claim_extension
<1>2. UNCHANGED <<pulls, ran, registry, commit, planned>>
  BY DEF claim_extension
<1>3. \A r \in T : ext[r].st = "queued" /\ ext[r].valid
  BY <1>1 DEF ExtensionCandidates
<1>4. \A r \in B \cup Overdue : r \in Briefs /\ ext[r].st \in {"queued", "processing"}
  BY <1>1 DEF ExtensionCandidates, Overdue
<1>5. ASSUME NEW r \in Briefs PROVE RequestOK(ext'[r], claims'[r], pulls[r])
  <2>1. CASE r \in T
    <3>1. ext[r].st = "queued" /\ ext[r].valid /\ DOMAIN ext[r] = ExtFields
      BY <1>3, <2>1 DEF ExtensionInv, RequestOK
    <3>2. r \notin B \cup Overdue
      BY <1>1, <2>1, <3>1 DEF ExtensionCandidates, Overdue
    <3>3. /\ DOMAIN ext'[r] = ExtFields /\ ext'[r].st = "processing" /\ ext'[r].valid
      BY <1>1, <2>1, <3>1, <3>2 DEF ExtFields
    <3>4. claims'[r] = claims[r] + 1 /\ claims[r] = 0
      BY <1>1, <1>3, <2>1 DEF ExtensionInv, RequestOK
    <3> QED
      BY <3>3, <3>4 DEF RequestOK
  <2>2. CASE r \notin T /\ r \in B \cup Overdue
    <3>1. ext'[r] = Failed_(r) /\ claims'[r] = claims[r]
      BY <1>1, <2>2
    <3> QED
      BY <1>4, <2>2, <3>1, FailedFacts
  <2>3. CASE r \notin T /\ r \notin B \cup Overdue
    <3>1. ext'[r] = ext[r] /\ claims'[r] = claims[r]
      BY <1>1, <2>3
    <3> QED
      BY <3>1 DEF ExtensionInv
  <2> QED
    BY <2>1, <2>2, <2>3
<1>6. DOMAIN ext' = Briefs /\ DOMAIN claims' = Briefs
  BY <1>1
<1> QED
  BY <1>2, <1>5, <1>6 DEF ExtensionInv, RequestOK

LEMMA FinishStep ==
  ASSUME ExtensionInv, NEW r \in Briefs, NEW ok \in BOOLEAN, finish_extension(r, ok)
  PROVE  ExtensionInv'
<1>1. PICK new : new = IF ok THEN [ext[r] EXCEPT !.st = "awaiting_publish", !.fresh = FALSE, !.bundle = pulls[r]]
                       ELSE Failed_(r)
  OBVIOUS
<1>2. /\ ext' = [ext EXCEPT ![r] = new] /\ ext[r].st = "processing" /\ (ok => pulls[r] # NoBundle)
      /\ UNCHANGED <<pulls, registry, commit, claims, planned, ran>>
  BY <1>1 DEF finish_extension, FinishAllowed
<1>3. RequestOK(new, claims[r], pulls[r])
  <2>1. CASE ok
    <3>1. new = [ext[r] EXCEPT !.st = "awaiting_publish", !.fresh = FALSE, !.bundle = pulls[r]]
      BY <1>1, <2>1
    <3>2. /\ DOMAIN new = ExtFields /\ new.st = "awaiting_publish" /\ new.bundle = pulls[r]
          /\ new.valid = ext[r].valid
      BY <3>1 DEF ExtensionInv, RequestOK, ExtFields
    <3> QED
      BY <1>2, <2>1, <3>2 DEF ExtensionInv, RequestOK
  <2>2. CASE ~ok
    BY <1>1, <1>2, <2>2, FailedFacts
  <2> QED
    BY <2>1, <2>2
<1>4. DOMAIN ext' = Briefs /\ ext'[r] = new /\ \A q \in Briefs : q # r => ext'[q] = ext[q]
  BY <1>2 DEF ExtensionInv
<1> QED
  BY <1>2, <1>3, <1>4, OneRequestStep

\* What a status request finds: the same rows, or the request completed.
Settled_(x, r) ==
    /\ DOMAIN x = Briefs /\ \A q \in Briefs : q # r => x[q] = ext[q]
    /\ RequestOK(x[r], claims[r], pulls[r])

LEMMA Reconciled ==
  ASSUME ExtensionInv, NEW r \in Briefs
  PROVE  Settled_(reconcile_for_status(r), r)
<1>1. CASE ext[r].st = "awaiting_publish" /\ commit /\ registry = ext[r].bundle
  <2>1. PICK new : new = [ext[r] EXCEPT !.st = "completed"]
    OBVIOUS
  <2>2. reconcile_for_status(r) = [ext EXCEPT ![r] = new]
    BY <1>1, <2>1 DEF reconcile_for_status
  <2>3. DOMAIN new = ExtFields /\ new.st = "completed" /\ new.valid = ext[r].valid /\ new.bundle = ext[r].bundle
    BY <2>1 DEF ExtensionInv, RequestOK, ExtFields
  <2>4. RequestOK(new, claims[r], pulls[r])
    BY <1>1, <2>3 DEF ExtensionInv, RequestOK
  <2> QED
    BY <2>2, <2>4 DEF ExtensionInv, Settled_
<1>2. CASE ~(ext[r].st = "awaiting_publish" /\ commit /\ registry = ext[r].bundle)
  BY <1>2 DEF reconcile_for_status, ExtensionInv, Settled_
<1> QED
  BY <1>1, <1>2

LEMMA StatusStep ==
  ASSUME ExtensionInv, NEW r \in Briefs, status_extension(r)
  PROVE  ExtensionInv'
<1>1. Settled_(ext', r)
  BY Reconciled DEF status_extension
<1>2. UNCHANGED <<claims, pulls, ran, registry, commit, planned>>
  BY DEF status_extension
<1> QED
  BY <1>1, <1>2, OneRequestStep DEF Settled_

LEMMA ShadowStep ==
  ASSUME ExtensionInv, NEW r \in Briefs, NEW p, prepare_programming_extension_shadow(r, p)
  PROVE  ExtensionInv'
<1>1. /\ ext' = reconcile_for_status(r)
      /\ ext'[r].st = "completed" /\ registry = ext'[r].bundle
      /\ planned' = planned \cup {[of |-> r, bundle |-> ext'[r].bundle, ran |-> registry]}
      /\ UNCHANGED <<claims, pulls, ran, registry, commit>>
  BY DEF prepare_programming_extension_shadow, load_ready_programming_extension, ready_continuation
<1>2. Settled_(ext', r)
  BY <1>1, Reconciled
<1>3. ext'[r].bundle = pulls[r] /\ pulls[r] # NoBundle
  BY <1>1, <1>2 DEF Settled_, RequestOK
<1>4. PICK new : new = [of |-> r, bundle |-> ext'[r].bundle, ran |-> registry]
  OBVIOUS
<1>5. new.of = r /\ new.bundle = pulls[r] /\ new.ran = pulls[r]
  BY <1>1, <1>3, <1>4
<1>6. planned' = planned \cup {new}
  BY <1>1, <1>4
<1> QED
  BY <1>1, <1>2, <1>3, <1>5, <1>6, OneRequestStep DEF Settled_

LEMMA PullStep ==
  ASSUME ExtensionInv, NEW r \in Briefs, NEW b, PullRequest(r, b)
  PROVE  ExtensionInv'
<1>1. /\ pulls[r] = NoBundle /\ pulls' = [pulls EXCEPT ![r] = b]
      /\ UNCHANGED <<ext, registry, commit, claims, planned, ran>>
  BY DEF PullRequest
<1>2. \A q \in Briefs : RequestOK(ext[q], claims[q], pulls'[q])
  BY <1>1 DEF ExtensionInv, RequestOK
<1>3. \A s \in planned : s.of # r
  BY <1>1 DEF ExtensionInv
<1> QED
  BY <1>1, <1>2, <1>3 DEF ExtensionInv, RequestOK

LEMMA ReleasedStep ==
  ASSUME ExtensionInv, NEW b, NEW named, Released(b, named)
  PROVE  ExtensionInv'
BY DEF Released, ExtensionInv, RequestOK

LEMMA LapseExtensionStep ==
  ASSUME ExtensionInv, NEW r \in Briefs, ExtensionExpires(r)
  PROVE  ExtensionInv'
<1>1. PICK new : new = [ext[r] EXCEPT !.fresh = FALSE]
  OBVIOUS
<1>2. ext' = [ext EXCEPT ![r] = new]
  BY <1>1 DEF ExtensionExpires
<1>3. DOMAIN new = ExtFields /\ new.st = ext[r].st /\ new.valid = ext[r].valid /\ new.bundle = ext[r].bundle
  BY <1>1 DEF ExtensionInv, RequestOK, ExtFields
<1>4. RequestOK(new, claims[r], pulls[r])
  BY <1>3 DEF ExtensionInv, RequestOK
<1>5. DOMAIN ext' = Briefs /\ ext'[r] = new /\ \A q \in Briefs : q # r => ext'[q] = ext[q]
  BY <1>2 DEF ExtensionInv
<1> QED
  BY <1>4, <1>5, OneRequestStep DEF ExtensionExpires

LEMMA ExtensionAtRest == ExtensionInv /\ UNCHANGED evars => ExtensionInv'
BY DEF ExtensionInv, RequestOK, evars

LEMMA ExtensionStep ==
  ASSUME ExtensionInv, ExtensionNext
  PROVE  ExtensionInv'
<1>1. ASSUME SwitchExtension \/ \E p \in People_ : EditorLeaves(p)
      PROVE  ExtensionInv'
  BY <1>1 DEF SwitchExtension, EditorLeaves, ExtensionInv, RequestOK
<1> QED
  BY <1>1, PrepareStep, ClaimExtensionStep, FinishStep, StatusStep, LapseExtensionStep, ShadowStep,
     PullStep, ReleasedStep DEF ExtensionNext

LEMMA ExtensionSafe == ExtensionInv => ExtensionTrue
BY DEF ExtensionInv, RequestOK, ExtensionTrue

-----------------------------------------------------------------------------
(***************************************************************************)
(* The activity tables                                                     *)
(***************************************************************************)

WriteFields == {"pc", "value", "sure"}

\* Until the cell is put nothing of the call has landed; what an audit says
\* was put has been put.
WriteOK(x, landed_, shown_, w) ==
    /\ DOMAIN x = WriteFields
    /\ x.pc \in {"idle", "fields", "rows", "put"} => w \notin landed_
    /\ x.pc \in {"audit", "done"} =>
          /\ x.sure \in {"updated", "already_in_sync"} => x.value \in shown_
          /\ x.sure = "updated" => w \in landed_
          /\ w \in landed_ => x.sure \in {"updated", "failed"}

CellsInv ==
    /\ DOMAIN write = Asked /\ cell \in shown
    /\ \A w \in Asked : WriteOK(write[w], landed, shown, w)

DraftOK(d) ==
    /\ d.escalated = (d.attempt = 3)
    /\ d.made # 0 => d.attempt = d.made - 1 /\ <<d.rec, d.made>> \in lacking

FollowupsInv ==
    /\ day \in Nat /\ \A r \in Recs \ material : <<r, day>> \in lacking
    /\ \A d \in drafts \cup batch : DraftOK(d)
    /\ \A d, e \in drafts : d.rec = e.rec /\ d.attempt = e.attempt => d = e

TableInv == CellsInv /\ FollowupsInv

cellvars == <<write, cell, shown, landed>>
followvars == <<day, material, drafts, batch, lacking>>

LEMMA TableInitInv == TableInit => TableInv
<1> SUFFICES ASSUME TableInit PROVE TableInv
  OBVIOUS
<1>1. CellsInv
  BY DEF TableInit, NoWrite, CellsInv, WriteOK, WriteFields
<1>2. FollowupsInv
  BY DEF TableInit, FollowupsInv
<1> QED
  BY <1>1, <1>2 DEF TableInv

\* One call changes, and what has been shown and put before stays so.
LEMMA OneWriteStep ==
  ASSUME CellsInv, NEW w \in Asked, DOMAIN write' = Asked,
         \A v \in Asked : v # w => write'[v] = write[v],
         shown \subseteq shown', cell' \in shown',
         landed' \in {landed, landed \cup {w}},
         WriteOK(write'[w], landed', shown', w)
  PROVE  CellsInv'
BY DEF CellsInv, WriteOK

LEMMA SettledStep ==
  ASSUME CellsInv, NEW w \in Asked, NEW pc, NEW value, NEW sure, NEW new,
         DOMAIN new = WriteFields, new.pc = pc, new.value = value, new.sure = sure,
         write' = [write EXCEPT ![w] = new], UNCHANGED <<cell, shown, landed>>,
         WriteOK(new, landed, shown, w)
  PROVE  CellsInv'
<1>1. DOMAIN write' = Asked /\ write'[w] = new /\ \A v \in Asked : v # w => write'[v] = write[v]
  BY DEF CellsInv
<1> QED
  BY <1>1, OneWriteStep DEF CellsInv

LEMMA RefuseStep ==
  ASSUME CellsInv, NEW w \in Asked, NEW why, Refuse(w, why), UNCHANGED <<cell, shown, landed>>,
         w \notin landed, why \in {"updated", "already_in_sync"} => why # "updated" /\ write[w].value \in shown
  PROVE  CellsInv'
<1>1. PICK new : new = [write[w] EXCEPT !.pc = "done", !.sure = why]
  OBVIOUS
<1>2. DOMAIN new = WriteFields /\ new.pc = "done" /\ new.value = write[w].value /\ new.sure = why
  BY <1>1 DEF CellsInv, WriteOK, WriteFields
<1>3. write' = [write EXCEPT ![w] = new]
  BY <1>1 DEF Refuse, CellsInv
<1>4. WriteOK(new, landed, shown, w)
  BY <1>2 DEF WriteOK
<1> QED
  BY <1>2, <1>3, <1>4, SettledStep

LEMMA AdvanceStep ==
  ASSUME CellsInv, NEW w \in Asked, NEW pc, At_(w, pc), UNCHANGED <<cell, shown, landed>>,
         \/ pc \in {"rows", "put"} /\ w \notin landed
         \/ pc = "done" /\ write[w].pc = "audit"
         \/ pc = "lost"
  PROVE  CellsInv'
<1>1. PICK new : new = [write[w] EXCEPT !.pc = pc]
  OBVIOUS
<1>2. DOMAIN new = WriteFields /\ new.pc = pc /\ new.value = write[w].value /\ new.sure = write[w].sure
  BY <1>1 DEF CellsInv, WriteOK, WriteFields
<1>3. write' = [write EXCEPT ![w] = new]
  BY <1>1 DEF At_, CellsInv
<1>4. WriteOK(new, landed, shown, w)
  BY <1>2 DEF CellsInv, WriteOK
<1> QED
  BY <1>2, <1>3, <1>4, SettledStep

LEMMA AskedStep ==
  ASSUME CellsInv, NEW w \in Asked, NEW value, execute_feishu_field_update(w, value)
  PROVE  CellsInv'
<1>1. PICK new : new = [pc |-> "fields", value |-> value, sure |-> "none"]
  OBVIOUS
<1>2. DOMAIN new = WriteFields /\ new.pc = "fields" /\ new.value = value /\ new.sure = "none"
  BY <1>1 DEF WriteFields
<1>3. /\ write' = [write EXCEPT ![w] = new] /\ UNCHANGED <<cell, shown, landed>>
      /\ write[w].pc = "idle"
  BY <1>1 DEF execute_feishu_field_update
<1>4. WriteOK(new, landed, shown, w)
  BY <1>2, <1>3 DEF CellsInv, WriteOK
<1> QED
  BY <1>2, <1>3, <1>4, SettledStep

LEMMA FieldsStep ==
  ASSUME CellsInv, NEW w \in Asked, list_fields(w)
  PROVE  CellsInv'
<1>1. w \notin landed /\ UNCHANGED <<cell, shown, landed>>
  BY DEF CellsInv, WriteOK, list_fields
<1>2. \/ Refuse(w, "column_missing") \/ Refuse(w, "type_not_writable")
      \/ Refuse(w, "option_not_allowed") \/ At_(w, "rows")
  BY DEF list_fields
<1> QED
  BY <1>1, <1>2, RefuseStep, AdvanceStep

LEMMA RowsStep ==
  ASSUME CellsInv, NEW w \in Asked, resolve_plan_record(w)
  PROVE  CellsInv'
<1>1. w \notin landed /\ UNCHANGED <<cell, shown, landed>> /\ cell \in shown
  BY DEF CellsInv, WriteOK, resolve_plan_record
<1>2. \/ Refuse(w, "record_not_found") \/ Refuse(w, "record_ambiguous")
      \/ cell = write[w].value /\ Refuse(w, "already_in_sync")
      \/ At_(w, "put")
  BY DEF resolve_plan_record
<1> QED
  BY <1>1, <1>2, RefuseStep, AdvanceStep

LEMMA PutStep ==
  ASSUME CellsInv, NEW w \in Asked, update_record_call(w)
  PROVE  CellsInv'
<1>1. PICK sure \in {"updated", "failed"} :
          /\ write' = [write EXCEPT ![w].pc = "audit", ![w].sure = sure]
          /\ \/ cell' = write[w].value /\ shown' = shown \cup {cell'} /\ landed' = landed \cup {w}
             \/ sure = "failed" /\ UNCHANGED <<cell, shown, landed>>
  BY DEF update_record_call
<1>2. write[w].pc = "put" /\ w \notin landed
  BY DEF update_record_call, CellsInv, WriteOK
<1>3. PICK new : new = [write[w] EXCEPT !.pc = "audit", !.sure = sure]
  OBVIOUS
<1>4. DOMAIN new = WriteFields /\ new.pc = "audit" /\ new.value = write[w].value /\ new.sure = sure
  BY <1>3 DEF CellsInv, WriteOK, WriteFields
<1>5. DOMAIN write' = Asked /\ write'[w] = new /\ \A v \in Asked : v # w => write'[v] = write[v]
  BY <1>1, <1>3 DEF CellsInv
<1>6. WriteOK(write'[w], landed', shown', w)
  BY <1>1, <1>2, <1>4, <1>5 DEF WriteOK
<1>7. shown \subseteq shown' /\ cell' \in shown' /\ landed' \in {landed, landed \cup {w}}
  BY <1>1 DEF CellsInv
<1> QED
  BY <1>5, <1>6, <1>7, OneWriteStep

LEMMA EditStep == ASSUME CellsInv, PeopleEdit PROVE CellsInv'
BY DEF PeopleEdit, CellsInv, WriteOK

LEMMA CellStep ==
  ASSUME TableInv, CellNext
  PROVE  TableInv'
<1>1. CellsInv'
  <2>1. ASSUME NEW w \in Asked, audit_feishu_field_update(w) \/ CallDies(w) PROVE CellsInv'
    BY <2>1, AdvanceStep DEF audit_feishu_field_update, CallDies, TableInv
  <2> QED
    BY <2>1, AskedStep, FieldsStep, RowsStep, PutStep, EditStep DEF CellNext, TableInv
<1>2. UNCHANGED followvars
  BY DEF CellNext, execute_feishu_field_update, list_fields, resolve_plan_record, update_record_call,
         audit_feishu_field_update, CallDies, PeopleEdit, followvars
<1>3. FollowupsInv'
  BY <1>2 DEF TableInv, FollowupsInv, DraftOK, followvars
<1> QED
  BY <1>1, <1>3 DEF TableInv

\* The days only add to what was lacking.
LEMMA NextDayStep == ASSUME FollowupsInv, NextDay PROVE FollowupsInv'
BY DEF NextDay, FollowupsInv, DraftOK

LEMMA ScanStep ==
  ASSUME FollowupsInv, NEW byhand \in BOOLEAN, execute_material_followup_scan(byhand)
  PROVE  FollowupsInv'
<1>1. /\ UNCHANGED <<day, material, drafts, lacking>>
      /\ \A d \in batch' : \E r \in Recs \ material, t \in validate_material_followup_attempt \cup material_followup_scan_targets :
            /\ t.date = 1 /\ d = material_followup_work_item_request(r, t, byhand)
            /\ byhand \/ t \in material_followup_scan_targets
  BY DEF execute_material_followup_scan
<1>2. ASSUME NEW d \in batch' PROVE DraftOK(d)
  <2>1. PICK r \in Recs \ material, t \in validate_material_followup_attempt \cup material_followup_scan_targets :
            /\ t.date = 1 /\ d = material_followup_work_item_request(r, t, byhand)
            /\ byhand \/ t \in material_followup_scan_targets
    BY <1>1, <1>2
  <2>2. d.escalated = (d.attempt = 3) /\ d.made = IF byhand THEN 0 ELSE day
    BY <2>1 DEF material_followup_work_item_request
  <2>3. d.rec = r /\ d.attempt = t.attempt
    BY <2>1 DEF material_followup_work_item_request
  <2>4. CASE byhand
    BY <2>2, <2>4 DEF DraftOK
  <2>5. CASE ~byhand
    <3>1. PICK n \in 1..3 : t = [date |-> day - n, attempt |-> n]
      BY <2>1, <2>5 DEF material_followup_scan_targets
    <3>2. day - n = 1 /\ t.attempt = n
      BY <2>1, <3>1
    <3>3. t.attempt = day - 1 /\ <<r, day>> \in lacking
      BY <3>2 DEF FollowupsInv
    <3> QED
      BY <2>2, <2>3, <2>5, <3>3 DEF DraftOK
  <2> QED
    BY <2>4, <2>5
<1> QED
  BY <1>1, <1>2 DEF FollowupsInv, DraftOK

LEMMA DraftStep == ASSUME FollowupsInv, MakeDraft PROVE FollowupsInv'
<1>1. PICK d \in batch :
          /\ batch' = batch \ {d}
          /\ drafts' = IF create_followup(d) THEN drafts \cup {d} ELSE drafts
  BY DEF MakeDraft
<1>2. UNCHANGED <<day, material, lacking>>
  BY DEF MakeDraft
<1>3. \A e, f \in drafts' : e.rec = f.rec /\ e.attempt = f.attempt => e = f
  BY <1>1 DEF FollowupsInv, create_followup
<1> QED
  BY <1>1, <1>2, <1>3 DEF FollowupsInv, DraftOK

LEMMA FollowupStep ==
  ASSUME TableInv, FollowupNext
  PROVE  TableInv'
<1>1. FollowupsInv'
  <2>1. ASSUME ScanDies \/ MaterialArrives PROVE FollowupsInv'
    BY <2>1 DEF TableInv, ScanDies, MaterialArrives, FollowupsInv, DraftOK
  <2> QED
    BY <2>1, NextDayStep, ScanStep, DraftStep DEF FollowupNext, TableInv
<1>2. UNCHANGED cellvars
  BY DEF FollowupNext, NextDay, execute_material_followup_scan, MakeDraft, ScanDies, MaterialArrives, cellvars
<1>3. CellsInv'
  BY <1>2 DEF TableInv, CellsInv, WriteOK, cellvars
<1> QED
  BY <1>1, <1>3 DEF TableInv

LEMMA TableAtRest == TableInv /\ UNCHANGED tvars => TableInv'
BY DEF TableInv, CellsInv, WriteOK, FollowupsInv, DraftOK, tvars

LEMMA TableSafe == TableInv => TableTrue
BY DEF TableInv, CellsInv, WriteOK, FollowupsInv, DraftOK, TableTrue

-----------------------------------------------------------------------------
(***************************************************************************)
(* The digest                                                              *)
(***************************************************************************)

Signal == [word : Nat, rec : Nat]
SignalRow == [of : Notes, word : Nat]

\* A record that a signal is said to have is a row of that signal.
Points(s, rec, table) == rec > 0 => rec <= Len(table) /\ table[rec].of = s

DigestTables ==
    /\ DOMAIN base = {"archive", "daily", "signals"}
    /\ base.archive = <<>> \/ \E x : base.archive = <<x>>
    /\ base.daily = <<>> \/ \E x : base.daily = <<x>>
    /\ base.signals \in Seq(SignalRow)

DigestRow == DOMAIN digest = {"st", "body", "count", "tries", "hash"}

NotesPoint ==
    /\ note \in [Notes -> Signal]
    /\ \A s \in Notes : Points(s, note[s].rec, base.signals)
    /\ copied \subseteq Notes
    /\ \A s \in copied : note[s].rec > 0

(* What is under way works on a row that is not published meanwhile, and   *)
(* what it has written so far is what it took; the signals it is done with *)
(* have their record in its model, and from the noting on in the notes.    *)
PubInv ==
    /\ DOMAIN pub = {"at", "row", "model", "left"}
    /\ pub.at \in {"idle", "archive", "daily", "signals", "noting"}
    /\ pub.at # "idle" => digest.st \in {"pending", "failed"}
    /\ pub.at \in {"daily", "signals", "noting"} => base.archive = <<pub.row.body>>
    /\ pub.at \in {"signals", "noting"} => base.daily = <<pub.row.body>>
    /\ DOMAIN pub.model \subseteq Notes /\ pub.left \subseteq DOMAIN pub.model
    /\ \A s \in DOMAIN pub.model : /\ pub.model[s] \in Signal
                                   /\ Points(s, pub.model[s].rec, base.signals)
    /\ pub.at \in {"archive", "daily"} => pub.left = DOMAIN pub.model
    /\ pub.at = "signals" => \A s \in DOMAIN pub.model \ pub.left : pub.model[s].rec > 0
    /\ pub.at = "noting" => /\ \A s \in DOMAIN pub.model : pub.model[s].rec > 0
                            /\ \A s \in DOMAIN pub.model \ pub.left : note[s].rec > 0

PublishedShown ==
    digest.st = "published" /\ pub.at = "idle" =>
        base.archive = <<digest.hash>> /\ base.daily = <<digest.hash>>

DigestInv == DigestTables /\ DigestRow /\ NotesPoint /\ PubInv /\ PublishedShown

LEMMA NoPubFacts ==
  /\ DOMAIN NoPub = {"at", "row", "model", "left"} /\ NoPub.at = "idle"
  /\ DOMAIN NoPub.model = {} /\ NoPub.left = {}
BY DEF NoPub

LEMMA DigestInitInv == DigestInit => DigestInv
<1> SUFFICES ASSUME DigestInit PROVE DigestInv
  OBVIOUS
<1>1. DigestTables
  BY DEF DigestInit, DigestTables, SignalRow
<1>2. DigestRow /\ digest.st = "none"
  BY DEF DigestInit, DigestRow, NoDigest
<1>3. NotesPoint
  BY DEF DigestInit, NotesPoint, Signal, Points
<1>4. PubInv
  BY NoPubFacts DEF DigestInit, PubInv
<1> QED
  BY <1>1, <1>2, <1>3, <1>4 DEF DigestInv, PublishedShown

\* The row is written again, or a failure is noted; nothing else moves.
LEMMA DigestRowStep ==
  ASSUME DigestInv, UNCHANGED <<note, base, copied>>, DigestRow', digest'.hash = digest.hash,
         \/ digest'.st \in {"pending", "failed"}
         \/ digest'.st = digest.st,
         pub' = pub \/ (pub' = NoPub /\ digest'.st \in {"pending", "failed"})
  PROVE  DigestInv'
<1>1. DigestTables' /\ NotesPoint'
  BY DEF DigestInv, DigestTables, NotesPoint
<1>2. PubInv'
  BY NoPubFacts DEF DigestInv, PubInv, NotesPoint
<1>3. PublishedShown'
  BY DEF DigestInv, PublishedShown, PubInv
<1> QED
  BY <1>1, <1>2, <1>3 DEF DigestInv

LEMMA WrittenStep ==
  ASSUME DigestInv, run_digest_inner, UNCHANGED <<note, pub, base, copied>>
  PROVE  DigestInv'
<1>1. PICK st : st = IF /\ digest.st = "published" /\ digest.body = render_markdown
                         /\ digest.count = Cardinality(Accepted)
                      THEN "published" ELSE "pending"
  OBVIOUS
<1>2. digest' = [digest EXCEPT !.body = render_markdown, !.count = Cardinality(Accepted), !.st = st]
  BY <1>1 DEF run_digest_inner, upsert_daily_digest
<1>3. DigestRow' /\ digest'.hash = digest.hash /\ digest'.st = st
  BY <1>2 DEF DigestInv, DigestRow
<1> QED
  BY <1>1, <1>3, DigestRowStep

LEMMA FailureNoted ==
  ASSUME DigestRow, record_publish_failure
  PROVE  DigestRow' /\ digest'.hash = digest.hash /\ digest'.st = "failed"
<1>1. PICK attempts : digest' = [digest EXCEPT !.st = "failed", !.tries = attempts]
  BY DEF record_publish_failure
<1> QED
  BY <1>1 DEF DigestRow

LEMMA TakenStep ==
  ASSUME DigestInv, Taken
  PROVE  DigestInv'
<1>1. CASE record_publish_failure /\ UNCHANGED pub
  BY <1>1, FailureNoted, DigestRowStep DEF Taken, DigestInv
<1>2. CASE /\ UNCHANGED digest
           /\ pub' = [at |-> "archive", row |-> digest, model |-> build_publish_model, left |-> Accepted]
  <2>1. UNCHANGED <<note, digest, base, copied>> /\ digest.st \in {"pending", "failed"}
    BY <1>2 DEF Taken, publish_pending_batch, load_publishable_digest_ids
  <2>2. /\ DOMAIN pub' = {"at", "row", "model", "left"} /\ pub'.at = "archive" /\ pub'.left = Accepted
        /\ pub'.model = [s \in Accepted |-> note[s]]
    BY <1>2 DEF build_publish_model
  <2>3. /\ DOMAIN pub'.model = Accepted /\ Accepted \subseteq Notes
        /\ \A s \in Accepted : pub'.model[s] = note[s]
    BY <2>2 DEF Accepted
  <2>4. \A s \in Accepted : note[s] \in Signal /\ Points(s, note[s].rec, base.signals)
    BY <2>3 DEF DigestInv, NotesPoint
  <2>5. PubInv'
    BY <2>1, <2>2, <2>3, <2>4 DEF PubInv
  <2>6. DigestTables' /\ DigestRow' /\ NotesPoint'
    BY <2>1 DEF DigestInv, DigestTables, DigestRow, NotesPoint
  <2> QED
    BY <2>1, <2>2, <2>5, <2>6 DEF DigestInv, PublishedShown
<1> QED
  BY <1>1, <1>2 DEF Taken

LEMMA OneRow ==
  ASSUME NEW table, NEW body, table = <<>> \/ \E x : table = <<x>>
  PROVE  upsert_by_text_field(table, body) = <<body>>
BY DEF upsert_by_text_field

LEMMA ArchiveStep ==
  ASSUME DigestInv, NEW reached \in BOOLEAN, NEW answered \in BOOLEAN, WriteArchive(reached, answered)
  PROVE  DigestInv'
<1>1. /\ pub.at = "archive" /\ (answered => reached) /\ UNCHANGED <<note, copied>>
      /\ base' = IF reached THEN [base EXCEPT !.archive = upsert_by_text_field(base.archive, pub.row.body)] ELSE base
      /\ IF answered THEN pub' = [pub EXCEPT !.at = "daily"] /\ UNCHANGED digest ELSE PublishFails
  BY DEF WriteArchive, request_json
<1>2. /\ DOMAIN base' = {"archive", "daily", "signals"}
      /\ base'.daily = base.daily /\ base'.signals = base.signals
      /\ base'.archive = IF reached THEN <<pub.row.body>> ELSE base.archive
  BY <1>1, OneRow DEF DigestInv, DigestTables
<1>3. DigestTables'
  BY <1>2 DEF DigestInv, DigestTables
<1>4. NotesPoint'
  BY <1>1, <1>2 DEF DigestInv, NotesPoint
<1>5. CASE answered
  <2>1. /\ DOMAIN pub' = {"at", "row", "model", "left"} /\ pub'.at = "daily" /\ pub'.row = pub.row
        /\ pub'.model = pub.model /\ pub'.left = pub.left
    BY <1>1, <1>5 DEF DigestInv, PubInv
  <2>2. PubInv'
    BY <1>1, <1>2, <1>5, <2>1 DEF DigestInv, PubInv
  <2> QED
    BY <1>1, <1>3, <1>4, <1>5, <2>1, <2>2 DEF DigestInv, DigestRow, PublishedShown
<1>6. CASE ~answered
  <2>1. DigestRow' /\ digest'.st = "failed" /\ pub' = NoPub
    BY <1>1, <1>6, FailureNoted DEF PublishFails, DigestInv
  <2>2. PubInv'
    BY <2>1, NoPubFacts DEF PubInv
  <2> QED
    BY <1>3, <1>4, <2>1, <2>2 DEF DigestInv, PublishedShown
<1> QED
  BY <1>5, <1>6

LEMMA DailyStep ==
  ASSUME DigestInv, NEW reached \in BOOLEAN, NEW answered \in BOOLEAN, WriteDaily(reached, answered)
  PROVE  DigestInv'
<1>1. /\ pub.at = "daily" /\ (answered => reached) /\ UNCHANGED <<note, copied>>
      /\ base' = IF reached THEN [base EXCEPT !.daily = upsert_by_text_field(base.daily, pub.row.body)] ELSE base
      /\ IF answered THEN pub' = [pub EXCEPT !.at = "signals"] /\ UNCHANGED digest ELSE PublishFails
  BY DEF WriteDaily, request_json
<1>2. /\ DOMAIN base' = {"archive", "daily", "signals"}
      /\ base'.archive = base.archive /\ base'.signals = base.signals
      /\ base'.daily = IF reached THEN <<pub.row.body>> ELSE base.daily
  BY <1>1, OneRow DEF DigestInv, DigestTables
<1>3. DigestTables'
  BY <1>2 DEF DigestInv, DigestTables
<1>4. NotesPoint'
  BY <1>1, <1>2 DEF DigestInv, NotesPoint
<1>5. CASE answered
  <2>1. /\ DOMAIN pub' = {"at", "row", "model", "left"} /\ pub'.at = "signals" /\ pub'.row = pub.row
        /\ pub'.model = pub.model /\ pub'.left = pub.left
    BY <1>1, <1>5 DEF DigestInv, PubInv
  <2>2. PubInv'
    BY <1>1, <1>2, <1>5, <2>1 DEF DigestInv, PubInv
  <2> QED
    BY <1>1, <1>3, <1>4, <1>5, <2>1, <2>2 DEF DigestInv, DigestRow, PublishedShown
<1>6. CASE ~answered
  <2>1. DigestRow' /\ digest'.st = "failed" /\ pub' = NoPub
    BY <1>1, <1>6, FailureNoted DEF PublishFails, DigestInv
  <2>2. PubInv'
    BY <2>1, NoPubFacts DEF PubInv
  <2> QED
    BY <1>3, <1>4, <2>1, <2>2 DEF DigestInv, PublishedShown
<1> QED
  BY <1>5, <1>6

\* A row is put where the record says, or at the end; the others stay.
LEMMA PutFacts ==
  ASSUME DigestInv, NEW s \in DOMAIN pub.model, NEW base2, base2 = PutSignal(s)
  PROVE  /\ DOMAIN base2 = {"archive", "daily", "signals"}
         /\ base2.archive = base.archive /\ base2.daily = base.daily
         /\ base2.signals \in Seq(SignalRow)
         /\ Len(base2.signals) >= Len(base.signals)
         /\ \A i \in 1..Len(base.signals) : base2.signals[i].of = base.signals[i].of
         /\ pub.model[s].rec = 0 => /\ Len(base2.signals) = Len(base.signals) + 1
                                    /\ base2.signals[Len(base.signals) + 1].of = s
<1>1. PICK row : row = [of |-> s, word |-> pub.model[s].word]
  OBVIOUS
<1>2. s \in Notes /\ pub.model[s] \in Signal /\ Points(s, pub.model[s].rec, base.signals)
  BY DEF DigestInv, PubInv
<1>3. row \in SignalRow /\ row.of = s
  BY <1>1, <1>2 DEF SignalRow, Signal
<1>4. base.signals \in Seq(SignalRow) /\ DOMAIN base = {"archive", "daily", "signals"}
  BY DEF DigestInv, DigestTables
<1>5. CASE pub.model[s].rec > 0
  <2>1. PICK rec : rec = pub.model[s].rec
    OBVIOUS
  <2>2. rec \in 1..Len(base.signals) /\ base.signals[rec].of = s
    BY <1>2, <1>4, <1>5, <2>1 DEF Points, Signal
  <2>3. PICK table : table = [base.signals EXCEPT ![rec] = row]
    OBVIOUS
  <2>4. base2 = [base EXCEPT !.signals = table]
    BY <1>1, <1>5, <2>1, <2>3 DEF PutSignal
  <2>5. /\ table \in Seq(SignalRow) /\ Len(table) = Len(base.signals)
        /\ \A i \in 1..Len(base.signals) : table[i].of = base.signals[i].of
    BY <1>3, <1>4, <2>2, <2>3
  <2>6. DOMAIN base2 = {"archive", "daily", "signals"} /\ base2.signals = table
        /\ base2.archive = base.archive /\ base2.daily = base.daily
    BY <1>4, <2>4
  <2> QED
    BY <1>4, <1>5, <2>5, <2>6
<1>6. CASE ~(pub.model[s].rec > 0)
  <2>1. PICK table : table = Append(base.signals, row)
    OBVIOUS
  <2>2. base2 = [base EXCEPT !.signals = table]
    BY <1>1, <1>6, <2>1 DEF PutSignal
  <2>3. /\ table \in Seq(SignalRow) /\ Len(table) = Len(base.signals) + 1
        /\ \A i \in 1..Len(base.signals) : table[i] = base.signals[i]
        /\ table[Len(base.signals) + 1] = row
    BY <1>3, <1>4, <2>1
  <2>4. DOMAIN base2 = {"archive", "daily", "signals"} /\ base2.signals = table
        /\ base2.archive = base.archive /\ base2.daily = base.daily
    BY <1>4, <2>2
  <2> QED
    BY <1>3, <1>4, <2>3, <2>4
<1> QED
  BY <1>5, <1>6

LEMMA PointsStay ==
  ASSUME NEW old \in Seq(SignalRow), NEW table \in Seq(SignalRow), Len(table) >= Len(old),
         \A i \in 1..Len(old) : table[i].of = old[i].of,
         NEW s, NEW rec \in Nat, Points(s, rec, old)
  PROVE  Points(s, rec, table)
BY DEF Points

LEMMA SignalStep ==
  ASSUME DigestInv, NEW s \in Notes, NEW reached \in BOOLEAN, NEW answered \in BOOLEAN,
         WriteSignal(s, reached, answered)
  PROVE  DigestInv'
<1>1. /\ pub.at = "signals" /\ s \in pub.left /\ (answered => reached) /\ UNCHANGED <<note, copied>>
      /\ base' = IF reached THEN PutSignal(s) ELSE base
  BY DEF WriteSignal, request_json
<1>2. s \in DOMAIN pub.model
  BY <1>1 DEF DigestInv, PubInv
<1>3. /\ DOMAIN base' = {"archive", "daily", "signals"}
      /\ base'.archive = base.archive /\ base'.daily = base.daily
      /\ base'.signals \in Seq(SignalRow) /\ base.signals \in Seq(SignalRow)
      /\ Len(base'.signals) >= Len(base.signals)
      /\ \A i \in 1..Len(base.signals) : base'.signals[i].of = base.signals[i].of
  <2>1. CASE reached
    BY <1>1, <1>2, <2>1, PutFacts DEF DigestInv, DigestTables
  <2>2. CASE ~reached
    BY <1>1, <2>2 DEF DigestInv, DigestTables
  <2> QED
    BY <2>1, <2>2
<1>4. DigestTables'
  BY <1>3 DEF DigestInv, DigestTables
<1>5. NotesPoint'
  BY <1>1, <1>3, PointsStay DEF DigestInv, NotesPoint, Signal
<1>6. CASE answered
  <2>1. PICK rec : rec = IF pub.model[s].rec > 0 THEN pub.model[s].rec ELSE Len(base.signals) + 1
    OBVIOUS
  <2>2. PICK m : m = [pub.model EXCEPT ![s] = [pub.model[s] EXCEPT !.rec = rec]]
    OBVIOUS
  <2>3. pub' = [pub EXCEPT !.left = pub.left \ {s}, !.model = m] /\ UNCHANGED digest
    BY <1>6, <2>1, <2>2 DEF WriteSignal
  <2>4. /\ DOMAIN pub' = {"at", "row", "model", "left"} /\ pub'.at = "signals" /\ pub'.row = pub.row
        /\ pub'.model = m /\ pub'.left = pub.left \ {s}
    BY <1>1, <2>3 DEF DigestInv, PubInv
  <2>5. pub.model[s] \in Signal
    BY <1>2 DEF DigestInv, PubInv
  <2>6. /\ DOMAIN m = DOMAIN pub.model /\ m[s] \in Signal /\ m[s].rec = rec /\ rec \in Nat /\ rec > 0
        /\ \A q \in DOMAIN pub.model : q # s => m[q] = pub.model[q]
    BY <1>2, <1>3, <2>1, <2>2, <2>5 DEF Signal
  <2>7. Points(s, rec, base'.signals)
    <3>1. CASE pub.model[s].rec > 0
      BY <1>2, <1>3, <2>1, <2>6, <3>1, PointsStay DEF DigestInv, PubInv
    <3>2. CASE ~(pub.model[s].rec > 0)
      BY <1>1, <1>2, <1>6, <2>1, <2>5, <3>2, PutFacts DEF Points, Signal
    <3> QED
      BY <3>1, <3>2
  <2>8. \A q \in DOMAIN m : m[q] \in Signal /\ Points(q, m[q].rec, base'.signals)
    BY <1>3, <2>6, <2>7, PointsStay DEF DigestInv, PubInv, Signal
  <2>9. PubInv'
    BY <1>1, <1>3, <2>3, <2>4, <2>6, <2>8 DEF DigestInv, PubInv
  <2>10. PublishedShown'
    BY <1>1, <2>3, <2>4 DEF DigestInv, PublishedShown
  <2> QED
    BY <1>1, <1>4, <1>5, <2>3, <2>4, <2>9, <2>10 DEF DigestInv, DigestRow
<1>7. CASE ~answered
  <2>1. DigestRow' /\ digest'.st = "failed" /\ pub' = NoPub
    BY <1>7, FailureNoted DEF WriteSignal, PublishFails, DigestInv
  <2>2. PubInv'
    BY <2>1, NoPubFacts DEF PubInv
  <2> QED
    BY <1>4, <1>5, <2>1, <2>2 DEF DigestInv, PublishedShown
<1> QED
  BY <1>6, <1>7

LEMMA LeastSignal ==
  ASSUME NEW S \in SUBSET Notes, S # {}
  PROVE  Min(S) \in S
<1>1. \E m \in S : \A n \in S : m <= n
  BY NotesNumbered, LeastNumber
<1> QED
  BY <1>1 DEF Min

LEMMA NotingStep ==
  ASSUME DigestInv, update_event_signal_publish_state
  PROVE  DigestInv'
<1>1. PICK todo : todo = IF pub.at = "signals" THEN DOMAIN pub.model ELSE pub.left
  OBVIOUS
<1>2. /\ pub.at \in {"signals", "noting"} /\ (pub.at = "signals" => pub.left = {}) /\ todo # {}
      /\ note' = [note EXCEPT ![Min(todo)].rec = pub.model[Min(todo)].rec]
      /\ pub' = [pub EXCEPT !.at = "noting", !.left = todo \ {Min(todo)}]
      /\ UNCHANGED <<digest, base, copied>>
  BY <1>1 DEF update_event_signal_publish_state
<1>3. todo \subseteq DOMAIN pub.model /\ DOMAIN pub.model \subseteq Notes
  BY <1>1 DEF DigestInv, PubInv
<1>4. PICK s : s = Min(todo)
  OBVIOUS
<1>5. s \in todo /\ s \in Notes
  BY <1>2, <1>3, <1>4, LeastSignal
<1>6. pub.model[s].rec > 0 /\ pub.model[s] \in Signal /\ Points(s, pub.model[s].rec, base.signals)
  BY <1>1, <1>2, <1>3, <1>5 DEF DigestInv, PubInv
<1>7. PICK new : new = [note[s] EXCEPT !.rec = pub.model[s].rec]
  OBVIOUS
<1>8. new \in Signal /\ new.rec = pub.model[s].rec
  BY <1>5, <1>6, <1>7 DEF DigestInv, NotesPoint, Signal
<1>9. note' = [note EXCEPT ![s] = new]
  BY <1>2, <1>4, <1>7
<1>10. /\ note' \in [Notes -> Signal] /\ note'[s].rec = pub.model[s].rec
       /\ \A q \in Notes : q # s => note'[q] = note[q]
  BY <1>5, <1>8, <1>9 DEF DigestInv, NotesPoint
<1>11. /\ DOMAIN pub' = {"at", "row", "model", "left"} /\ pub'.at = "noting" /\ pub'.row = pub.row
       /\ pub'.model = pub.model /\ pub'.left = todo \ {s}
  BY <1>2, <1>4 DEF DigestInv, PubInv
<1>12. NotesPoint'
  BY <1>2, <1>6, <1>10 DEF DigestInv, NotesPoint
<1>13. \A q \in DOMAIN pub.model : pub.model[q].rec > 0
  BY <1>2 DEF DigestInv, PubInv
<1>14. \A q \in DOMAIN pub.model \ (todo \ {s}) : note'[q].rec > 0
  <2>1. CASE pub.at = "signals"
    BY <1>1, <1>6, <1>10, <2>1
  <2>2. CASE pub.at = "noting"
    <3>1. todo = pub.left /\ \A q \in DOMAIN pub.model \ pub.left : note[q].rec > 0
      BY <1>1, <2>2 DEF DigestInv, PubInv
    <3> QED
      BY <1>3, <1>6, <1>10, <3>1
  <2> QED
    BY <1>2, <2>1, <2>2
<1>15. PubInv'
  BY <1>2, <1>3, <1>11, <1>13, <1>14 DEF DigestInv, PubInv
<1> QED
  BY <1>2, <1>11, <1>12, <1>15 DEF DigestInv, DigestTables, DigestRow, PublishedShown

LEMMA PublishedStep ==
  ASSUME DigestInv, Published
  PROVE  DigestInv'
<1>1. PICK attempts : digest' = [digest EXCEPT !.st = "published", !.hash = pub.row.body, !.tries = attempts]
  BY DEF Published
<1>2. DigestRow' /\ digest'.hash = pub.row.body
  BY <1>1 DEF DigestInv, DigestRow
<1>3. /\ pub.at = IF pub.model = <<>> THEN "signals" ELSE "noting"
      /\ pub.left = {} /\ pub' = NoPub /\ copied' = DOMAIN pub.model /\ UNCHANGED <<note, base>>
  BY DEF Published
<1>4. \A s \in DOMAIN pub.model : note[s].rec > 0
  BY <1>3 DEF DigestInv, PubInv
<1>5. DigestTables' /\ NotesPoint'
  BY <1>3, <1>4 DEF DigestInv, DigestTables, NotesPoint, PubInv
<1>6. base.archive = <<pub.row.body>> /\ base.daily = <<pub.row.body>>
  BY <1>3 DEF DigestInv, PubInv
<1>7. PubInv'
  BY <1>3, NoPubFacts DEF PubInv
<1> QED
  BY <1>2, <1>3, <1>5, <1>6, <1>7 DEF DigestInv, PublishedShown

LEMMA SignalChangesStep ==
  ASSUME DigestInv, NEW s \in Notes, SignalChanges(s)
  PROVE  DigestInv'
<1>1. PICK new : new = [note[s] EXCEPT !.word = note[s].word + 1]
  OBVIOUS
<1>2. note' = [note EXCEPT ![s] = new] /\ UNCHANGED <<digest, pub, base, copied>>
  BY <1>1 DEF SignalChanges
<1>3. new \in Signal /\ new.rec = note[s].rec
  BY <1>1 DEF DigestInv, NotesPoint, Signal
<1>4. note' \in [Notes -> Signal] /\ \A q \in Notes : note'[q].rec = note[q].rec
  BY <1>2, <1>3 DEF DigestInv, NotesPoint
<1>5. NotesPoint'
  BY <1>2, <1>4 DEF DigestInv, NotesPoint
<1>6. PubInv'
  BY <1>2, <1>4 DEF DigestInv, PubInv
<1> QED
  BY <1>2, <1>5, <1>6 DEF DigestInv, DigestTables, DigestRow, PublishedShown

LEMMA DigestRestartStep ==
  ASSUME DigestInv, PublisherRestarts
  PROVE  DigestInv'
<1>1. CASE pub.at = "idle"
  <2>1. pub' = NoPub /\ UNCHANGED <<note, digest, base, copied>>
    BY DEF PublisherRestarts
  <2>2. PubInv'
    BY <2>1, NoPubFacts DEF PubInv
  <2> QED
    BY <1>1, <2>1, <2>2, NoPubFacts DEF DigestInv, DigestTables, DigestRow, NotesPoint, PublishedShown
<1>2. CASE pub.at # "idle"
  BY <1>2, DigestRowStep DEF PublisherRestarts, DigestInv, DigestRow, PubInv
<1> QED
  BY <1>1, <1>2

LEMMA DigestAtRest == DigestInv /\ UNCHANGED dvars => DigestInv'
BY DEF DigestInv, DigestTables, DigestRow, NotesPoint, PubInv, PublishedShown, dvars

LEMMA DigestStep ==
  ASSUME DigestInv, DigestNext
  PROVE  DigestInv'
<1>1. ASSUME run_digest_worker \/ run_digest PROVE DigestInv'
  BY <1>1, WrittenStep DEF run_digest_worker, run_digest
<1>2. ASSUME HourComes \/ WorkerRestarts PROVE DigestInv'
  BY <1>2 DEF HourComes, WorkerRestarts, DigestInv, DigestTables, DigestRow, NotesPoint, PubInv, PublishedShown
<1> QED
  BY <1>1, <1>2, TakenStep, ArchiveStep, DailyStep, SignalStep, NotingStep, PublishedStep,
     SignalChangesStep, DigestRestartStep DEF DigestNext

LEMMA DigestSafe == DigestInv => DigestTrue
<1> SUFFICES ASSUME DigestInv PROVE DigestTrue
  OBVIOUS
<1>1. Len(base.archive) <= 1 /\ Len(base.daily) <= 1
  <2>1. ASSUME NEW t, t = <<>> \/ \E x : t = <<x>> PROVE Len(t) <= 1
    <3>1. CASE t = <<>>
      BY <3>1
    <3>2. CASE \E x : t = <<x>>
      <4>1. PICK x : t = <<x>>
        BY <3>2
      <4> QED
        BY <4>1
    <3> QED
      BY <2>1, <3>1, <3>2
  <2> QED
    BY <2>1 DEF DigestInv, DigestTables
<1>2. \A s \in Notes : note[s].rec > 0 => note[s].rec <= Len(base.signals) /\ base.signals[note[s].rec].of = s
  BY DEF DigestInv, NotesPoint, Points
<1>3. \A s \in copied : note[s].rec > 0
  BY DEF DigestInv, NotesPoint
<1> QED
  BY <1>1, <1>2, <1>3 DEF DigestInv, PublishedShown, DigestTrue

-----------------------------------------------------------------------------
(***************************************************************************)
(* The profiles of members                                                 *)
(***************************************************************************)

\* A fact is about the sender of its message.
FactOK(f) ==
    /\ f = [msg |-> f.msg, person |-> f.person, type |-> f.type, key |-> f.key]
    /\ f.msg \in Msgs /\ f.person \in Members /\ said[f.msg].by = f.person

FactsNow(p) == UNION {{candidate_fact_for_label(m, p, l) : l \in LabelsOf(m)} : m \in Valuable(p)}
Aggregate(p) == [msgs |-> Valuable(p), facts |-> FactsNow(p)]

MembersKnown ==
    /\ DOMAIN said = Msgs /\ \A m \in Msgs : DOMAIN said[m] = {"by", "cues"}
    /\ room \subseteq Members
    /\ \A f \in inforce : FactOK(f)

GatheredOK ==
    /\ DOMAIN gathered \subseteq Members
    /\ \A p \in DOMAIN gathered :
          /\ DOMAIN gathered[p] = {"msgs", "facts"}
          /\ \A f \in gathered[p].facts : FactOK(f) /\ f.person = p /\ f.msg \in gathered[p].msgs

(* A profile rests on the facts of its input, and these are the facts in   *)
(* force about the person from the messages of the input.                  *)
ProfileOK(p) ==
    profile[p] # NoProfile =>
        /\ profile[p].facts = profile[p].hash.facts
        /\ profile[p].facts = {f \in inforce : f.person = p /\ f.msg \in profile[p].hash.msgs}
        /\ profile[p].hash.facts # {} => profile[p].hints = "profile_available"

UpToDate(p) ==
    /\ Valuable(p) # {} => profile[p] # NoProfile /\ profile[p].hash = Aggregate(p)
    /\ p \in room \ shut => profile[p] # NoProfile

ProfileInv ==
    /\ MembersKnown /\ GatheredOK
    /\ DOMAIN profile = Members /\ \A p \in Members : ProfileOK(p)
    /\ settled /\ gathered # NoBatch =>
          \A p \in Members : /\ Valuable(p) # {} \/ p \in room \ shut => p \in DOMAIN gathered
                             /\ p \in DOMAIN gathered => gathered[p] = Aggregate(p)
    /\ settled /\ gathered = NoBatch => \A p \in Members : UpToDate(p)

\* An edge is a fact that was in force, and who said it has not changed.
GraphInv == \A e \in graph : FactOK(e)
ProfilesInv == ProfileInv /\ GraphInv

factvars == <<said, spoken, shut, room, gathered, inforce, profile, settled>>

LEMMA NoBatchFacts == DOMAIN NoBatch = {}
BY DEF NoBatch

LEMMA ProfileInitInv == ProfileInit => ProfileInv
<1> SUFFICES ASSUME ProfileInit PROVE ProfileInv
  OBVIOUS
<1>1. MembersKnown
  BY DEF ProfileInit, MembersKnown
<1>2. GatheredOK
  BY NoBatchFacts DEF ProfileInit, GatheredOK
<1> QED
  BY <1>1, <1>2 DEF ProfileInit, ProfileInv, ProfileOK

\* What the run reads about one person.
LEMMA AggregateFacts ==
  ASSUME MembersKnown, NEW p \in Members
  PROVE  /\ DOMAIN Aggregate(p) = {"msgs", "facts"}
         /\ Aggregate(p).msgs = Valuable(p) /\ Aggregate(p).facts = FactsNow(p)
         /\ \A f \in FactsNow(p) : FactOK(f) /\ f.person = p /\ f.msg \in Valuable(p)
         /\ Valuable(p) # {} => FactsNow(p) # {}
         /\ \A f \in FactsNow(p) : \E l \in LabelsOf(f.msg) : f = candidate_fact_for_label(f.msg, p, l)
<1>1. \A m \in Valuable(p) : m \in Msgs /\ said[m].by = p /\ LabelsOf(m) # {}
  BY DEF Valuable, load_messages, Received
<1>2. ASSUME NEW f \in FactsNow(p)
      PROVE  /\ FactOK(f) /\ f.person = p /\ f.msg \in Valuable(p)
             /\ \E l \in LabelsOf(f.msg) : f = candidate_fact_for_label(f.msg, p, l)
  <2>1. PICK m \in Valuable(p) : \E l \in LabelsOf(m) : f = candidate_fact_for_label(m, p, l)
    BY DEF FactsNow
  <2>2. PICK l \in LabelsOf(m) : f = candidate_fact_for_label(m, p, l)
    BY <2>1
  <2>3. PICK type, key : f = [msg |-> m, person |-> p, type |-> type, key |-> key]
    BY <2>2 DEF candidate_fact_for_label
  <2>4. f.msg = m /\ f.person = p /\ f.type = type /\ f.key = key
    BY <2>3
  <2> QED
    BY <1>1, <2>2, <2>3, <2>4 DEF FactOK
<1>3. ASSUME Valuable(p) # {} PROVE FactsNow(p) # {}
  <2>1. PICK m \in Valuable(p) : TRUE
    BY <1>3
  <2>2. PICK l \in LabelsOf(m) : TRUE
    BY <1>1
  <2>3. candidate_fact_for_label(m, p, l) \in FactsNow(p)
    BY DEF FactsNow
  <2> QED
    BY <2>3
<1>4. Aggregate(p).msgs = Valuable(p) /\ Aggregate(p).facts = FactsNow(p) /\ DOMAIN Aggregate(p) = {"msgs", "facts"}
  BY DEF Aggregate
<1> QED
  BY <1>2, <1>3, <1>4

LEMMA GatherStep ==
  ASSUME ProfileInv, run_profile_inner
  PROVE  ProfileInv'
<1>1. PICK D : /\ D = {p \in Members : Valuable(p) # {}} \cup seed_current_room_profile_targets
               /\ D # {} /\ gathered' = [p \in D |-> Aggregate(p)]
  BY DEF run_profile_inner, Aggregate, FactsNow
<1>2. UNCHANGED <<said, spoken, shut, room, inforce, profile>> /\ settled' = TRUE
  BY DEF run_profile_inner
<1>3. /\ D \subseteq Members
      /\ \A p \in Members : Valuable(p) # {} \/ p \in room \ shut => p \in D
  BY <1>1 DEF seed_current_room_profile_targets, is_profile_excluded_identity, ProfileInv, MembersKnown
<1>4. MembersKnown
  BY DEF ProfileInv
<1>5. \A p \in Members : /\ Aggregate(p)' = Aggregate(p) /\ Valuable(p)' = Valuable(p)
  BY <1>2 DEF Aggregate, FactsNow, Valuable, load_messages, Received, LabelsOf, is_profile_excluded_identity
<1>6. MembersKnown' /\ \A p \in Members : ProfileOK(p)'
  BY <1>2 DEF ProfileInv, MembersKnown, FactOK, ProfileOK
<1>7. \A p \in D : gathered'[p] = Aggregate(p) /\ DOMAIN gathered' = D
  BY <1>1
<1>8. GatheredOK'
  <2>1. \A p \in D : /\ DOMAIN Aggregate(p) = {"msgs", "facts"}
                     /\ \A f \in Aggregate(p).facts : FactOK(f) /\ f.person = p /\ f.msg \in Aggregate(p).msgs
    BY <1>3, <1>4, AggregateFacts
  <2> QED
    BY <1>1, <1>2, <1>3, <1>7, <2>1 DEF GatheredOK, FactOK
<1>9. gathered' # NoBatch
  BY <1>1, <1>7, NoBatchFacts
<1>10. DOMAIN profile' = Members
  BY <1>2 DEF ProfileInv
<1>11. \A p \in Members : /\ Valuable(p)' # {} \/ p \in room' \ shut' => p \in DOMAIN gathered'
                          /\ p \in DOMAIN gathered' => gathered'[p] = Aggregate(p)'
  BY <1>1, <1>2, <1>3, <1>5, <1>7
<1> QED
  BY <1>6, <1>8, <1>9, <1>10, <1>11 DEF ProfileInv

LEMMA NewFactsOK == ASSUME ProfileInv PROVE \A f \in NewFacts : FactOK(f)
BY DEF ProfileInv, MembersKnown, GatheredOK, NewFacts, Kept

\* A message is about its sender only, so nothing of somebody else stands in
\* the way of a fact, and what is in force of the messages read is what the
\* rules give.
LEMMA NewFactsFor ==
  ASSUME ProfileInv, NEW p \in Members
  PROVE  /\ p \in DOMAIN gathered => load_existing_fact_ids(p) = gathered[p].facts
         /\ p \notin DOMAIN gathered \/ gathered[p].msgs = {} =>
               {f \in NewFacts : f.person = p} = {f \in inforce : f.person = p}
<1>1. \A f \in inforce : FactOK(f)
  BY DEF ProfileInv, MembersKnown
<1>2. \A q \in DOMAIN gathered : \A f \in gathered[q].facts : FactOK(f) /\ f.person = q /\ f.msg \in gathered[q].msgs
  BY DEF ProfileInv, GatheredOK
<1>3. \A f, g : FactOK(f) /\ FactOK(g) /\ f.msg = g.msg /\ f.type = g.type /\ f.key = g.key => f = g
  BY DEF FactOK
<1>4. \A f : f \in Kept <=> f \in inforce /\ \A q \in DOMAIN gathered :
                 ~(f.person = q /\ f.msg \in gathered[q].msgs /\ f \notin gathered[q].facts)
  BY DEF Kept, revoke_stale_profile_facts
<1>5. \A f : f \in NewFacts <=> f \in Kept \/ \E q \in DOMAIN gathered : f \in gathered[q].facts
  <2>1. ASSUME NEW q \in DOMAIN gathered, NEW f \in gathered[q].facts, AlreadyNoted(Kept, f)
        PROVE  f \in Kept
    BY <1>1, <1>2, <1>3, <1>4, <2>1 DEF AlreadyNoted
  <2>2. \A f : f \in UNION {gathered[q].facts : q \in DOMAIN gathered} <=> \E q \in DOMAIN gathered : f \in gathered[q].facts
    OBVIOUS
  <2> QED
    BY <2>1, <2>2 DEF NewFacts
<1>7. ASSUME p \in DOMAIN gathered PROVE load_existing_fact_ids(p) = gathered[p].facts
  BY <1>2, <1>4, <1>5, <1>7 DEF load_existing_fact_ids
<1>8. ASSUME p \notin DOMAIN gathered \/ gathered[p].msgs = {}
      PROVE  {f \in NewFacts : f.person = p} = {f \in inforce : f.person = p}
  BY <1>2, <1>4, <1>5, <1>8
<1> QED
  BY <1>7, <1>8

LEMMA ReplacedProfile ==
  ASSUME ProfileInv, NEW p \in DOMAIN gathered,
         ~((gathered[p].msgs = {} /\ has_active_reply_context_snapshot(p)) \/ find_active_snapshot_by_hash(p))
  PROVE  /\ NewProfile(p) # NoProfile /\ NewProfile(p).hash = gathered[p]
         /\ NewProfile(p).facts = load_existing_fact_ids(p)
         /\ gathered[p].facts # {} => NewProfile(p).hints = "profile_available"
<1>1. PICK h \in {"profile_available", "no_stable_profile"} :
          h = safe_reply_hints(p) /\ (gathered[p].facts # {} => h = "profile_available")
  BY DEF safe_reply_hints
<1>2. NewProfile(p) = [hash |-> gathered[p], facts |-> load_existing_fact_ids(p), hints |-> h]
  BY <1>1 DEF NewProfile, input_hash
<1>3. NoProfile.hints = "none"
  BY DEF NoProfile
<1> QED
  BY <1>1, <1>2, <1>3

LEMMA ProfileApplyStep ==
  ASSUME ProfileInv, apply_profile
  PROVE  ProfileInv'
<1>1. /\ gathered # NoBatch /\ inforce' = NewFacts /\ gathered' = NoBatch
      /\ profile' = [p \in Members |-> IF p \in DOMAIN gathered THEN NewProfile(p) ELSE profile[p]]
      /\ UNCHANGED <<said, spoken, shut, room, settled>>
  BY DEF apply_profile
<1>2. MembersKnown'
  BY <1>1, NewFactsOK DEF ProfileInv, MembersKnown, FactOK
<1>3. GatheredOK'
  BY <1>1, NoBatchFacts DEF GatheredOK
<1>4. DOMAIN profile' = Members
  BY <1>1
<1>5. ASSUME NEW p \in Members PROVE ProfileOK(p)'
  <2>1. CASE /\ p \in DOMAIN gathered
             /\ ~((gathered[p].msgs = {} /\ has_active_reply_context_snapshot(p)) \/ find_active_snapshot_by_hash(p))
    <3>1. /\ profile'[p].hash = gathered[p] /\ profile'[p].facts = gathered[p].facts
          /\ gathered[p].facts # {} => profile'[p].hints = "profile_available"
      BY <1>1, <2>1, ReplacedProfile, NewFactsFor
    <3>2. gathered[p].facts = {f \in inforce' : f.person = p /\ f.msg \in gathered[p].msgs}
      BY <1>1, <2>1, NewFactsFor DEF load_existing_fact_ids
    <3> QED
      BY <3>1, <3>2 DEF ProfileOK
  <2>2. CASE p \notin DOMAIN gathered \/ (gathered[p].msgs = {} /\ has_active_reply_context_snapshot(p))
    <3>1. profile'[p] = profile[p]
      BY <1>1, <2>2 DEF NewProfile
    <3>2. {f \in inforce' : f.person = p} = {f \in inforce : f.person = p}
      BY <1>1, <2>2, NewFactsFor
    <3>3. ProfileOK(p)
      BY DEF ProfileInv
    <3> QED
      BY <3>1, <3>2, <3>3 DEF ProfileOK
  <2>3. CASE p \in DOMAIN gathered /\ find_active_snapshot_by_hash(p)
    <3>1. profile'[p] = profile[p] /\ profile[p] # NoProfile /\ profile[p].hash = gathered[p]
      BY <1>1, <2>3 DEF NewProfile, find_active_snapshot_by_hash, has_active_reply_context_snapshot, input_hash
    <3>2. gathered[p].facts = {f \in inforce' : f.person = p /\ f.msg \in gathered[p].msgs}
      BY <1>1, <2>3, NewFactsFor DEF load_existing_fact_ids
    <3>3. ProfileOK(p)
      BY DEF ProfileInv
    <3> QED
      BY <3>1, <3>2, <3>3 DEF ProfileOK
  <2> QED
    BY <2>1, <2>2, <2>3
<1>6. ASSUME settled PROVE \A p \in Members : UpToDate(p)'
  <2> SUFFICES ASSUME NEW p \in Members PROVE UpToDate(p)'
    OBVIOUS
  <2>1. /\ Valuable(p) # {} \/ p \in room \ shut => p \in DOMAIN gathered
        /\ p \in DOMAIN gathered => gathered[p] = Aggregate(p)
    BY <1>1, <1>6 DEF ProfileInv
  <2>2. Aggregate(p)' = Aggregate(p) /\ Valuable(p)' = Valuable(p)
    BY <1>1 DEF Aggregate, FactsNow, Valuable, load_messages, Received, LabelsOf, is_profile_excluded_identity
  <2>3. ASSUME p \in DOMAIN gathered
        PROVE  /\ profile'[p] # NoProfile
               /\ gathered[p].msgs # {} => profile'[p].hash = gathered[p]
    <3>1. CASE (gathered[p].msgs = {} /\ has_active_reply_context_snapshot(p)) \/ find_active_snapshot_by_hash(p)
      BY <1>1, <2>3, <3>1 DEF NewProfile, find_active_snapshot_by_hash, has_active_reply_context_snapshot, input_hash
    <3>2. CASE ~((gathered[p].msgs = {} /\ has_active_reply_context_snapshot(p)) \/ find_active_snapshot_by_hash(p))
      BY <1>1, <2>3, <3>2, ReplacedProfile
    <3> QED
      BY <3>1, <3>2
  <2>4. Aggregate(p).msgs = Valuable(p)
    BY DEF Aggregate
  <2> QED
    BY <1>1, <2>1, <2>2, <2>3, <2>4 DEF UpToDate
<1> QED
  BY <1>1, <1>2, <1>3, <1>4, <1>5, <1>6 DEF ProfileInv

\* Nothing about facts and profiles changes; what was read may be given up.
LEMMA ProfileRest ==
  ASSUME ProfileInv, UNCHANGED <<inforce, profile>>, settled' = FALSE, gathered' \in {gathered, NoBatch},
         DOMAIN said' = Msgs, \A m \in Msgs : DOMAIN said'[m] = {"by", "cues"},
         \A m \in Msgs : said[m].by \in Members => said'[m].by = said[m].by,
         room' \subseteq Members
  PROVE  ProfileInv'
<1>1. \A f : FactOK(f) => FactOK(f)'
  BY DEF FactOK
<1>2. MembersKnown'
  BY <1>1 DEF ProfileInv, MembersKnown
<1>3. GatheredOK'
  BY <1>1, NoBatchFacts DEF ProfileInv, GatheredOK
<1> QED
  BY <1>2, <1>3 DEF ProfileInv, ProfileOK

LEMMA ComesStep ==
  ASSUME ProfileInv, NEW m \in Msgs, NEW p, NEW c, MessageComes(m, p, c)
  PROVE  ProfileInv'
<1>1. PICK new : new = [by |-> p, cues |-> c]
  OBVIOUS
<1>2. DOMAIN new = {"by", "cues"} /\ said' = [said EXCEPT ![m] = new] /\ said[m].by \notin Members
  BY <1>1, MembersNamed DEF MessageComes
<1> QED
  BY <1>2, ProfileRest DEF MessageComes, ProfileInv, MembersKnown

LEMMA RecognisedStep ==
  ASSUME ProfileInv, NEW m \in Msgs, NEW p, SenderRecognised(m, p)
  PROVE  ProfileInv'
<1>1. PICK new : new = [said[m] EXCEPT !.by = p]
  OBVIOUS
<1>2. said' = [said EXCEPT ![m] = new] /\ said[m].by \notin Members
  BY <1>1, MembersNamed DEF SenderRecognised
<1>3. DOMAIN new = {"by", "cues"}
  BY <1>1 DEF ProfileInv, MembersKnown
<1> QED
  BY <1>2, <1>3, ProfileRest DEF SenderRecognised, ProfileInv, MembersKnown

LEMMA FactsAtRest ==
  ASSUME ProfileInv, UNCHANGED factvars
  PROVE  ProfileInv'
<1>1. \A p \in Members : Aggregate(p)' = Aggregate(p) /\ Valuable(p)' = Valuable(p)
  BY DEF factvars, Aggregate, FactsNow, Valuable, load_messages, Received, LabelsOf, is_profile_excluded_identity
<1>2. MembersKnown' /\ GatheredOK' /\ \A p \in Members : ProfileOK(p)'
  BY DEF factvars, ProfileInv, MembersKnown, GatheredOK, FactOK, ProfileOK
<1> QED
  BY <1>1, <1>2 DEF factvars, ProfileInv, UpToDate

LEMMA MembersStep ==
  ASSUME ProfileInv, MembersNext
  PROVE  ProfileInv'
<1>1. ASSUME RunLost PROVE ProfileInv'
  BY <1>1, ProfileRest DEF RunLost, ProfileInv, MembersKnown
<1>2. ASSUME NEW k, NEW x, NewRelease(k, x) PROVE ProfileInv'
  BY <1>2, ProfileRest DEF NewRelease, ProfileInv, MembersKnown
<1>3. ASSUME NEW p \in Members, JoinsRoom(p) PROVE ProfileInv'
  BY <1>3, ProfileRest DEF JoinsRoom, ProfileInv, MembersKnown
<1> QED
  BY <1>1, <1>2, <1>3, GatherStep, ProfileApplyStep, ComesStep, RecognisedStep DEF MembersNext

\* What a recognised sender said stays what this sender said.
LEMMA SendersStay ==
  ASSUME MembersKnown, MembersNext, NEW f, FactOK(f)
  PROVE  FactOK(f)'
<1>1. CASE \E m \in Msgs, p \in Members \cup {Nobody_}, c \in Sayings : MessageComes(m, p, c)
  BY <1>1, MembersNamed DEF MessageComes, FactOK, MembersKnown
<1>2. CASE \E m \in Msgs, p \in Members : SenderRecognised(m, p)
  BY <1>2, MembersNamed DEF SenderRecognised, FactOK, MembersKnown
<1>3. CASE UNCHANGED said
  BY <1>3 DEF FactOK
<1> QED
  BY <1>1, <1>2, <1>3 DEF MembersNext, run_profile_inner, apply_profile, RunLost, NewRelease, JoinsRoom

LEMMA ProfilesInitInv == ProfileInit => ProfilesInv
BY ProfileInitInv DEF ProfileInit, ProfilesInv, GraphInv

LEMMA ProfilesAtRest == ProfilesInv /\ UNCHANGED mvars => ProfilesInv'
BY FactsAtRest DEF ProfilesInv, GraphInv, FactOK, mvars, factvars

LEMMA ProfileStep ==
  ASSUME ProfilesInv, ProfileNext
  PROVE  ProfilesInv'
<1>1. CASE MembersNext /\ UNCHANGED graph
  BY <1>1, MembersStep, SendersStay DEF ProfilesInv, GraphInv, ProfileInv
<1>2. CASE project_member_facts
  <2>1. UNCHANGED factvars
    BY <1>2 DEF project_member_facts, factvars
  <2>2. PICK F \in newest_facts : graph' = graph \cup F
    BY <1>2 DEF project_member_facts
  <2>3. F \subseteq inforce
    BY <2>2 DEF newest_facts, candidate_edges
  <2>4. \A e \in graph \cup F : FactOK(e)
    BY <2>3 DEF ProfilesInv, GraphInv, ProfileInv, MembersKnown
  <2>5. \A e : FactOK(e) => FactOK(e)'
    BY <2>1 DEF FactOK, factvars
  <2> QED
    BY <2>1, <2>2, <2>4, <2>5, FactsAtRest DEF ProfilesInv, GraphInv
<1> QED
  BY <1>1, <1>2 DEF ProfileNext

LEMMA ProfileSafe == ProfilesInv => ProfilesTrue
<1> SUFFICES ASSUME ProfilesInv PROVE ProfilesTrue
  OBVIOUS
<1> ProfileInv /\ GraphInv
  BY DEF ProfilesInv
<1>1. \A f, g \in inforce : f.msg = g.msg /\ f.type = g.type /\ f.key = g.key => f = g
  BY DEF ProfileInv, MembersKnown, FactOK
<1>2. ASSUME NEW p \in Members, NEW f \in profile[p].facts PROVE f.person = p
  <2>1. CASE profile[p] = NoProfile
    BY <1>2, <2>1 DEF NoProfile
  <2>2. CASE profile[p] # NoProfile
    BY <1>2, <2>2 DEF ProfileInv, ProfileOK
  <2> QED
    BY <2>1, <2>2
<1>3. ASSUME settled, gathered = NoBatch, NEW p \in Members, Valuable(p) # {}
      PROVE  /\ profile[p].facts = {f \in inforce : f.person = p /\ f.msg \in Valuable(p)}
             /\ \A f \in profile[p].facts : \E l \in LabelsOf(f.msg) : f = candidate_fact_for_label(f.msg, p, l)
             /\ profile[p].hints = "profile_available"
  <2>1. profile[p] # NoProfile /\ profile[p].hash = Aggregate(p)
    BY <1>3 DEF ProfileInv, UpToDate
  <2>2. ProfileOK(p) /\ MembersKnown
    BY DEF ProfileInv
  <2>3. profile[p].hash.msgs = Valuable(p) /\ profile[p].hash.facts = FactsNow(p) /\ FactsNow(p) # {}
    BY <1>3, <2>1, <2>2, AggregateFacts
  <2> QED
    BY <2>1, <2>2, <2>3, AggregateFacts DEF ProfileOK
<1>4. ASSUME settled, gathered = NoBatch, NEW p \in room \ shut PROVE profile[p] # NoProfile
  BY <1>4 DEF ProfileInv, MembersKnown, UpToDate
<1>5. \A e \in graph : said[e.msg].by = e.person
  BY DEF GraphInv, FactOK
<1> QED
  BY <1>1, <1>2, <1>3, <1>4, <1>5 DEF ProfilesTrue

-----------------------------------------------------------------------------
(***************************************************************************)
(* The report images                                                       *)
(***************************************************************************)

JobFields == {"at", "by", "apply", "day", "seen", "words", "attempt", "merged", "got"}

Image(x) == [day |-> x.day, seen |-> x.seen, words |-> x.words]

\* What an invocation holds: messages of its day, and once it has stored, the
\* image of its own window.
JobOK(x, uttered_) ==
    /\ DOMAIN x = JobFields
    /\ x.at # "rest" => \A l \in x.seen : <<x.day, l>> \in uttered_
    /\ x.at = "stored" => x.got = Image(x) /\ (x.by = "worker" => x.seen # {})

\* A key tells the day and the image; the image tells the same day, and only
\* what was said on it.
KeyOK(key, uttered_) ==
    /\ key.hash.day = key.day
    /\ \A l \in key.hash.seen : <<key.day, l>> \in uttered_

TicketOK(o, uttered_) ==
    /\ DOMAIN o = {"key", "by", "text", "sent"}
    /\ KeyOK(o.key, uttered_)
    /\ o.text = [day |-> o.key.day, count |-> Cardinality(o.key.hash.seen)]
    /\ o.by = "worker" => o.key.hash.seen # {}

PostOK(p) ==
    /\ p.pic = p.key.hash
    /\ \E o \in tickets : o.key = p.key /\ o.text = p.text /\ o.sent

ReportInv ==
    /\ DOMAIN jobs = Jobs_ /\ \A j \in Jobs_ : JobOK(jobs[j], uttered)
    /\ \A v \in vault : v.pic = v.key.hash
    /\ \A o \in tickets : TicketOK(o, uttered)
    /\ \A o, q \in tickets : o.key = q.key => o = q
    /\ \A p \in onboard : PostOK(p)
    /\ \A p, q \in onboard : p.key = q.key => p = q

LEMMA RestOK ==
  ASSUME NEW said_
  PROVE  JobOK(AtRest, said_) /\ DOMAIN AtRest = JobFields
BY DEF AtRest, JobOK, JobFields

LEMMA ReportInitInv == PipelineInit => ReportInv
<1> SUFFICES ASSUME PipelineInit PROVE ReportInv
  OBVIOUS
<1>1. PICK no : no = AtRest
  OBVIOUS
<1>2. jobs = [j \in Jobs_ |-> no]
  BY <1>1 DEF PipelineInit
<1>3. JobOK(no, uttered)
  BY <1>1, RestOK
<1> QED
  BY <1>2, <1>3 DEF PipelineInit, ReportInv

\* One invocation moves on; the requests and what was posted stay.
LEMMA OneJobStep ==
  ASSUME ReportInv, NEW j \in Jobs_, NEW new, jobs' = [jobs EXCEPT ![j] = new],
         UNCHANGED <<uttered, tickets, onboard>>, JobOK(new, uttered),
         \A v \in vault' : v \in vault \/ v.pic = v.key.hash
  PROVE  ReportInv'
BY DEF ReportInv, PostOK

LEMMA MovedOn ==
  ASSUME ReportInv, NEW j \in Jobs_, NEW step, Go(j, step),
         UNCHANGED <<uttered, tickets, onboard, vault>>,
         jobs[j].at # "rest", step # "stored"
  PROVE  ReportInv'
<1>1. PICK new : new = [jobs[j] EXCEPT !.at = step]
  OBVIOUS
<1>2. jobs' = [jobs EXCEPT ![j] = new]
  BY <1>1 DEF Go
<1>3. /\ DOMAIN new = JobFields /\ new.at = step /\ new.seen = jobs[j].seen /\ new.day = jobs[j].day
  BY <1>1 DEF ReportInv, JobOK, JobFields
<1>4. JobOK(new, uttered)
  BY <1>3 DEF ReportInv, JobOK
<1> QED
  BY <1>2, <1>4, OneJobStep

LEMMA JobEnds ==
  ASSUME ReportInv, NEW j \in Jobs_, End(j), UNCHANGED <<uttered, tickets, onboard>>,
         \A v \in vault' : v \in vault \/ v.pic = v.key.hash
  PROVE  ReportInv'
<1>1. PICK no : no = AtRest
  OBVIOUS
<1>2. jobs' = [jobs EXCEPT ![j] = no] /\ JobOK(no, uttered)
  BY <1>1, RestOK DEF End
<1> QED
  BY <1>2, OneJobStep

LEMMA RecordStep ==
  ASSUME ReportInv, NEW d, NEW l, Record(d, l)
  PROVE  ReportInv'
<1>1. UNCHANGED <<jobs, vault, tickets, onboard>> /\ uttered \subseteq uttered'
  BY DEF Record
<1>2. \A j \in Jobs_ : JobOK(jobs[j], uttered')
  BY <1>1 DEF ReportInv, JobOK
<1>3. \A o \in tickets : TicketOK(o, uttered')
  BY <1>1 DEF ReportInv, TicketOK, KeyOK
<1> QED
  BY <1>1, <1>2, <1>3 DEF ReportInv, PostOK

LEMMA ReportStartStep ==
  ASSUME ReportInv, NEW j \in Jobs_, NEW by, NEW d, NEW apply, NEW modelled,
         StartReport(j, by, d, apply, modelled)
  PROVE  ReportInv'
<1>1. PICK new : new = [AtRest EXCEPT !.at = IF modelled THEN "asking" ELSE "told", !.by = by,
                                      !.apply = apply, !.day = d, !.seen = collect_for_report(d)]
  OBVIOUS
<1>2. jobs' = [jobs EXCEPT ![j] = new] /\ UNCHANGED <<uttered, vault, tickets, onboard>>
  BY <1>1 DEF StartReport
<1>3. /\ DOMAIN new = JobFields /\ new.at # "stored" /\ new.day = d /\ new.seen = collect_for_report(d)
  BY <1>1 DEF AtRest, JobFields
<1>4. JobOK(new, uttered)
  BY <1>3 DEF JobOK, collect_for_report
<1> QED
  BY <1>2, <1>4, OneJobStep

LEMMA AnswerStep ==
  ASSUME ReportInv, NEW j \in Jobs_, NEW answer, chat_completion(j, answer)
  PROVE  ReportInv'
<1>1. /\ jobs[j].at = "asking" /\ UNCHANGED <<uttered, vault, tickets, onboard>>
      /\ DOMAIN jobs[j] = JobFields /\ DOMAIN jobs = Jobs_
  BY DEF chat_completion, ReportInv, JobOK
<1>2. PICK words, n :
         \/ jobs' = [jobs EXCEPT ![j] = [jobs[j] EXCEPT !.merged = TRUE]]
         \/ jobs' = [jobs EXCEPT ![j] = [jobs[j] EXCEPT !.attempt = n]]
         \/ jobs' = [jobs EXCEPT ![j] = [jobs[j] EXCEPT !.at = "told", !.attempt = 0, !.merged = FALSE, !.words = words]]
  BY DEF chat_completion
<1>3. PICK new : /\ jobs' = [jobs EXCEPT ![j] = new]
                 /\ \/ new = [jobs[j] EXCEPT !.merged = TRUE]
                    \/ new = [jobs[j] EXCEPT !.attempt = n]
                    \/ new = [jobs[j] EXCEPT !.at = "told", !.attempt = 0, !.merged = FALSE, !.words = words]
  BY <1>2
<1>4. /\ DOMAIN new = JobFields /\ new.at \in {"asking", "told"} /\ new.day = jobs[j].day /\ new.seen = jobs[j].seen
  BY <1>1, <1>3 DEF JobFields
<1>5. JobOK(new, uttered)
  BY <1>1, <1>4 DEF ReportInv, JobOK
<1> QED
  BY <1>1, <1>3, <1>5, OneJobStep

LEMMA UploadStep ==
  ASSUME ReportInv, NEW j \in Jobs_, Upload(j)
  PROVE  ReportInv'
<1>1. UNCHANGED <<uttered, tickets, onboard>> /\ jobs[j].at = "drawn"
  BY DEF Upload
<1>2. CASE send_gate_allows(j) /\ image_identity(j)
  <2>1. PICK pic : pic = Bytes(j).pic
    OBVIOUS
  <2>2. pic = Image(jobs[j]) /\ pic = Picture(j) /\ (jobs[j].by = "worker" => jobs[j].seen # {})
    BY <1>2, <2>1 DEF image_identity, Picture, Image, send_gate_allows
  <2>3. PICK new : new = [jobs[j] EXCEPT !.at = "stored", !.got = pic]
    OBVIOUS
  <2>4. jobs' = [jobs EXCEPT ![j] = new]
    BY <1>2, <2>1, <2>3 DEF Upload, ReportInv
  <2>5. \A v \in vault' : v \in vault \/ v.pic = v.key.hash
    BY <1>2, <2>1 DEF Upload, StorageIds
  <2>6. /\ DOMAIN new = JobFields /\ new.at = "stored" /\ new.got = pic /\ new.by = jobs[j].by
        /\ new.day = jobs[j].day /\ new.seen = jobs[j].seen /\ new.words = jobs[j].words
    BY <2>3 DEF ReportInv, JobOK, JobFields
  <2>7. JobOK(new, uttered)
    BY <1>1, <2>2, <2>6 DEF ReportInv, JobOK, Image
  <2> QED
    BY <1>1, <2>4, <2>5, <2>7, OneJobStep
<1>3. CASE ~(send_gate_allows(j) /\ image_identity(j))
  BY <1>1, <1>3, JobEnds DEF Upload
<1> QED
  BY <1>2, <1>3

LEMMA PublishStep ==
  ASSUME ReportInv, NEW j \in Jobs_, Publish(j)
  PROVE  ReportInv'
<1>1. /\ UNCHANGED <<uttered, vault, onboard>> /\ jobs[j].at = "stored" /\ End(j)
  BY DEF Publish
<1>2. CASE ~Revalidated(j)
  BY <1>1, <1>2, JobEnds DEF Publish
<1>3. CASE Revalidated(j)
  <2>1. PICK no : no = AtRest
    OBVIOUS
  <2>2. jobs' = [jobs EXCEPT ![j] = no] /\ JobOK(no, uttered)
    BY <1>1, <2>1, RestOK DEF End
  <2>3. PICK t : t = SendRequest(j)
    OBVIOUS
  <2>4. tickets' = {o \in tickets : o.key # t.key} \cup {t}
    BY <1>3, <2>3 DEF Publish, SendRequest
  <2>5. /\ jobs[j].got = Image(jobs[j]) /\ (jobs[j].by = "worker" => jobs[j].seen # {})
        /\ \A l \in jobs[j].seen : <<jobs[j].day, l>> \in uttered
    BY <1>1 DEF ReportInv, JobOK
  <2>6. /\ DOMAIN t = {"key", "by", "text", "sent"} /\ t.by = jobs[j].by
        /\ t.text = [day |-> jobs[j].day, count |-> Cardinality(jobs[j].seen)]
        /\ t.key = [day |-> jobs[j].day, hash |-> jobs[j].got]
        /\ t.sent = \E o \in tickets : o.key = t.key /\ o.sent
    BY <2>3 DEF SendRequest, SendKey, StorageIds, default_intro_text
  <2>7. t.key.day = jobs[j].day /\ t.key.hash.day = jobs[j].day /\ t.key.hash.seen = jobs[j].seen
    BY <2>5, <2>6 DEF Image
  <2>8. TicketOK(t, uttered)
    BY <2>5, <2>6, <2>7 DEF TicketOK, KeyOK
  <2>9. \A o \in tickets : o.key = t.key => o.text = t.text
    BY <2>6, <2>7 DEF ReportInv, TicketOK
  <2>10. \A p \in onboard : PostOK(p)'
    <3>1. ASSUME NEW p \in onboard PROVE \E o \in tickets' : o.key = p.key /\ o.text = p.text /\ o.sent
      <4>1. PICK o \in tickets : o.key = p.key /\ o.text = p.text /\ o.sent
        BY DEF ReportInv, PostOK
      <4>2. CASE o.key = t.key
        BY <2>4, <2>6, <2>9, <4>1, <4>2
      <4>3. CASE o.key # t.key
        BY <2>4, <4>1, <4>3
      <4> QED
        BY <4>2, <4>3
    <3> QED
      BY <3>1 DEF ReportInv, PostOK
  <2>11. \A o, q \in tickets' : o.key = q.key => o = q
    BY <2>4 DEF ReportInv
  <2>12. \A o \in tickets' : TicketOK(o, uttered)
    BY <2>4, <2>8 DEF ReportInv
  <2>13. DOMAIN jobs' = Jobs_ /\ \A i \in Jobs_ : JobOK(jobs'[i], uttered)
    BY <2>2 DEF ReportInv
  <2> QED
    BY <1>1, <2>10, <2>11, <2>12, <2>13 DEF ReportInv
<1> QED
  BY <1>2, <1>3

LEMMA ReportFailStep ==
  ASSUME ReportInv, NEW j \in Jobs_, Fail(j)
  PROVE  ReportInv'
<1>1. End(j) /\ UNCHANGED <<uttered, tickets, onboard>>
  BY DEF Fail
<1>2. \A v \in vault' : v \in vault \/ v.pic = v.key.hash
  BY DEF Fail, StorageIds
<1> QED
  BY <1>1, <1>2, JobEnds

LEMMA PostStep ==
  ASSUME ReportInv, NEW o \in tickets, Post(o)
  PROVE  ReportInv'
<1>1. PICK v \in vault : v.key = o.key /\ onboard' = onboard \cup {[key |-> o.key, pic |-> v.pic, text |-> o.text]}
  BY DEF Post
<1>2. PICK p : p = [key |-> o.key, pic |-> v.pic, text |-> o.text]
  OBVIOUS
<1>3. p.key = o.key /\ p.pic = o.key.hash /\ p.text = o.text /\ onboard' = onboard \cup {p}
  BY <1>1, <1>2 DEF ReportInv
<1>4. PICK t : t = [o EXCEPT !.sent = TRUE]
  OBVIOUS
<1>5. tickets' = (tickets \ {o}) \cup {t} /\ UNCHANGED <<uttered, jobs, vault>> /\ ~o.sent
  BY <1>4 DEF Post
<1>6. DOMAIN t = {"key", "by", "text", "sent"} /\ t.key = o.key /\ t.by = o.by /\ t.text = o.text /\ t.sent
  BY <1>4 DEF ReportInv, TicketOK
<1>7. \A q \in tickets' : TicketOK(q, uttered)
  BY <1>5, <1>6 DEF ReportInv, TicketOK
<1>8. \A q, s \in tickets' : q.key = s.key => q = s
  BY <1>5, <1>6 DEF ReportInv
<1>9. \A q \in onboard : q.key # o.key
  BY <1>5 DEF ReportInv, PostOK
<1>10. ASSUME NEW q \in onboard' PROVE PostOK(q)'
  <2>1. CASE q = p
    BY <1>3, <1>5, <1>6, <2>1 DEF PostOK
  <2>2. CASE q \in onboard
    <3>1. PICK s \in tickets : s.key = q.key /\ s.text = q.text /\ s.sent
      BY <2>2 DEF ReportInv, PostOK
    <3>2. s \in tickets'
      BY <1>5, <3>1
    <3> QED
      BY <2>2, <3>1, <3>2 DEF ReportInv, PostOK
  <2> QED
    BY <1>3, <2>1, <2>2
<1>11. \A q, s \in onboard' : q.key = s.key => q = s
  BY <1>3, <1>9 DEF ReportInv
<1> QED
  BY <1>5, <1>7, <1>8, <1>10, <1>11 DEF ReportInv

LEMMA ReportAtRest == ReportInv /\ UNCHANGED nvars => ReportInv'
BY DEF ReportInv, PostOK, nvars

LEMMA ReportStep ==
  ASSUME ReportInv, PipelineNext
  PROVE  ReportInv'
<1>1. ASSUME NEW j \in Jobs_, Draw(j) PROVE ReportInv'
  BY <1>1, MovedOn DEF Draw
<1>2. ASSUME NEW j \in Jobs_, Copied(j) PROVE ReportInv'
  BY <1>2, MovedOn DEF Copied
<1>3. ASSUME NEW j \in Jobs_, Preview(j) PROVE ReportInv'
  BY <1>3, JobEnds DEF Preview
<1> QED
  BY <1>1, <1>2, <1>3, RecordStep, ReportStartStep, AnswerStep, UploadStep, PublishStep, ReportFailStep, PostStep
     DEF PipelineNext

LEMMA ReportSafe == ReportInv => PostedTrue
<1> SUFFICES ASSUME ReportInv PROVE PostedTrue
  OBVIOUS
<1>1. ASSUME NEW p \in onboard
      PROVE  /\ p.pic = p.key.hash /\ p.pic.day = p.key.day
             /\ p.text = [day |-> p.pic.day, count |-> Cardinality(p.pic.seen)]
             /\ \A l \in p.pic.seen : <<p.pic.day, l>> \in uttered
  <2>1. PICK o \in tickets : o.key = p.key /\ o.text = p.text /\ o.sent
    BY DEF ReportInv, PostOK
  <2>2. p.pic = p.key.hash /\ TicketOK(o, uttered)
    BY DEF ReportInv, PostOK
  <2> QED
    BY <2>1, <2>2 DEF TicketOK, KeyOK
<1>2. \A p, q \in onboard : p.key = q.key => p = q
  BY DEF ReportInv
<1>3. \A o \in tickets : o.by = "worker" => o.key.hash.seen # {}
  BY DEF ReportInv, TicketOK
<1> QED
  BY <1>1, <1>2, <1>3 DEF PostedTrue

-----------------------------------------------------------------------------
(***************************************************************************)
(* The Feishu image table                                                  *)
(***************************************************************************)

ReviewStates == {"none", "pending", "approved", "rejected"}
TableRow == [shown : ReviewStates, file : {"none", "ours", "damaged"}]
ImageJob == [pc : {"idle", "begun", "search", "fetched", "upload", "commit", "store", "persist"},
             stamp : Nat, row : Nat, file : {"none", "ours", "damaged"}]

ImageTypes ==
    /\ conf \subseteq Settings /\ pict \in [kind : Kinds, flaw : Flaws, review : ReviewStates, stamp : Nat]
    /\ rows \in Seq(TableRow) /\ wref \in [st : {"none", "active"}, synced : Nat]
    /\ job \in [Workers -> ImageJob]
    /\ desk \in [decision : {"none", "approved", "rejected"}, stamp : Nat]
    /\ tick \in Nat /\ raced \in BOOLEAN
    /\ pict.review \in had

\* What a mirror knows of the row it is working on.
MirrorKnows(j) ==
    /\ j.pc = "fetched" => j.row = Len(rows)
    /\ j.pc \in {"upload", "commit"} => j.row = 1 /\ Len(rows) = 1
    /\ j.pc = "commit" => rows[1].file # "none" /\ rows[1].shown = pict.review

(* A mirror that may write holds the artifact row; nobody reviews the      *)
(* artifact meanwhile, and only an image that is behind is worked on.      *)
MirrorInv ==
    /\ \A p \in Workers : job[p].pc \in {"idle", "begun", "search", "fetched", "upload", "commit"}
    /\ \A p \in Workers : job[p].pc \notin {"idle", "begun"} =>
          held = p /\ pict.flaw = "none" /\ MirrorKnows(job[p])
    /\ held # Nobody => ~mirror_is_current
    /\ Len(rows) <= 1 /\ (pict.flaw # "none" => rows = <<>>)
    /\ wref.st = "active" => Len(rows) = 1 /\ rows[1].file # "none"
    /\ mirror_is_current /\ ~raced => rows[1].shown = pict.review
    /\ \A r \in 1..Len(rows) : rows[r].shown = "approved" => "approved" \in had

StoreInv ==
    /\ \A p \in Workers : job[p].pc \in {"idle", "store", "persist"} /\ job[p].row <= Len(rows)
    /\ \A r \in 1..Len(rows) : rows[r].file = "ours" /\ (pict.kind = "poster" => rows[r].shown = "pending")

ImageInv ==
    /\ ImageTypes
    /\ pict.kind = "mirrored" => MirrorInv
    /\ pict.kind # "mirrored" => StoreInv

LEMMA NoJobFacts == NoJob \in ImageJob /\ NoJob.pc = "idle" /\ NoJob.row = 0
BY DEF NoJob, ImageJob

LEMMA ImageInitInv == ImageInit => ImageInv
<1> SUFFICES ASSUME ImageInit PROVE ImageInv
  OBVIOUS
<1>1. PICK kind \in Kinds, flaw \in Flaws :
          pict = [kind |-> kind, flaw |-> flaw, stamp |-> 0,
                  review |-> IF kind = "mirrored" THEN "pending" ELSE "none"]
  BY DEF ImageInit
<1>2. conf \subseteq Settings
  BY DEF ImageInit
<1>3. /\ pict \in [kind : Kinds, flaw : Flaws, review : ReviewStates, stamp : Nat]
  BY <1>1 DEF ReviewStates
<1>4. rows = <<>> /\ wref = [st |-> "none", synced |-> 0] /\ desk = [decision |-> "none", stamp |-> 0]
      /\ tick = 0 /\ raced = FALSE /\ pict.review \in had
  BY DEF ImageInit, NoDesk
<1>5. PICK no : no = NoJob
  OBVIOUS
<1>6. job = [p \in Workers |-> no] /\ no \in ImageJob /\ no.pc = "idle" /\ no.row = 0 /\ held = Nobody
  BY <1>5, NoJobFacts DEF ImageInit
<1>7. ImageTypes
  <2>1. rows \in Seq(TableRow) /\ wref \in [st : {"none", "active"}, synced : Nat]
    BY <1>4
  <2>2. desk \in [decision : {"none", "approved", "rejected"}, stamp : Nat] /\ tick \in Nat /\ raced \in BOOLEAN
    BY <1>4
  <2>3. job \in [Workers -> ImageJob]
    BY <1>6
  <2> QED
    BY <1>2, <1>3, <1>4, <2>1, <2>2, <2>3 DEF ImageTypes
<1>8. MirrorInv
  BY <1>4, <1>6 DEF MirrorInv, mirror_is_current
<1>9. StoreInv
  BY <1>4, <1>6 DEF StoreInv
<1> QED
  BY <1>7, <1>8, <1>9 DEF ImageInv

ImageRest == UNCHANGED <<conf, pict, rows, wref, desk, tick, had, raced>>

\* A mirror takes one step of its own and changes nothing that is shared.
LEMMA MirrorMoves ==
  ASSUME ImageInv, NEW p \in Workers, NEW new \in ImageJob, job' = [job EXCEPT ![p] = new],
         pict.kind = "mirrored", UNCHANGED <<conf, pict, rows, wref, desk, had, raced, held>>,
         tick' \in Nat,
         new.pc \in {"begun", "search", "fetched", "upload", "commit"},
         new.pc # "begun" => held = p /\ pict.flaw = "none" /\ MirrorKnows(new)
  PROVE  ImageInv'
<1>1. ImageTypes'
  BY DEF ImageInv, ImageTypes
<1>2. job'[p] = new /\ \A q \in Workers : q # p => job'[q] = job[q]
  BY DEF ImageInv, ImageTypes
<1>3. MirrorInv'
  BY <1>2 DEF ImageInv, MirrorInv, MirrorKnows, mirror_is_current
<1> QED
  BY <1>1, <1>3 DEF ImageInv

\* A mirror lets go, having changed nothing that is shared.
LEMMA MirrorLets ==
  ASSUME ImageInv, NEW p \in Workers, Release(p), pict.kind = "mirrored",
         UNCHANGED <<conf, pict, rows, wref, desk, had, raced>>, tick' \in Nat
  PROVE  ImageInv'
<1>1. PICK no : no = NoJob
  OBVIOUS
<1>2. no \in ImageJob /\ no.pc = "idle" /\ job' = [job EXCEPT ![p] = no]
      /\ held' = IF held = p THEN Nobody ELSE held
  BY <1>1, NoJobFacts DEF Release
<1>3. ImageTypes'
  BY <1>2 DEF ImageInv, ImageTypes
<1>4. job'[p] = no /\ \A q \in Workers : q # p => job'[q] = job[q]
  BY <1>2 DEF ImageInv, ImageTypes
<1>5. MirrorInv'
  BY <1>2, <1>4 DEF ImageInv, MirrorInv, MirrorKnows, mirror_is_current
<1> QED
  BY <1>3, <1>5 DEF ImageInv

LEMMA BeginMirror ==
  ASSUME ImageInv, NEW p \in Workers, run_apply(p)
  PROVE  ImageInv'
<1>1. PICK new : new = [NoJob EXCEPT !.pc = "begun", !.stamp = tick']
  OBVIOUS
<1>2. /\ job' = [job EXCEPT ![p] = new] /\ tick' \in Nat /\ pict.kind = "mirrored"
      /\ UNCHANGED <<conf, pict, rows, wref, desk, held, had, raced>>
  BY <1>1 DEF run_apply, Begin, ImageInv, ImageTypes
<1>3. new \in ImageJob /\ new.pc = "begun"
  BY <1>1, <1>2 DEF NoJob, ImageJob
<1> QED
  BY <1>2, <1>3, MirrorMoves

LEMMA LockStep ==
  ASSUME ImageInv, NEW p \in Workers, lock_candidate(p)
  PROVE  ImageInv'
<1>1. /\ job[p].pc = "begun" /\ held = Nobody /\ UNCHANGED <<conf, pict, rows, wref, desk, tick, had, raced>>
      /\ pict.kind = "mirrored"
  BY DEF lock_candidate, ImageInv, StoreInv
<1>2. CASE ~validate_artifact \/ mirror_is_current
  <2>1. Release(p)
    BY <1>1, <1>2 DEF lock_candidate, Release
  <2> QED
    BY <1>1, <2>1, MirrorLets DEF ImageInv, ImageTypes
<1>3. CASE validate_artifact /\ ~mirror_is_current
  <2>1. PICK new : new = [job[p] EXCEPT !.pc = "search"]
    OBVIOUS
  <2>2. job' = [job EXCEPT ![p] = new] /\ held' = p
    BY <1>3, <2>1 DEF lock_candidate, At
  <2>3. new \in ImageJob /\ new.pc = "search"
    BY <2>1 DEF ImageInv, ImageTypes, ImageJob
  <2>4. job'[p] = new /\ \A q \in Workers : q # p => job'[q] = job[q]
    BY <2>2 DEF ImageInv, ImageTypes
  <2>5. \A q \in Workers : q # p => job[q].pc \in {"idle", "begun"}
    BY <1>1, NobodyNoWorker DEF ImageInv, MirrorInv
  <2>6. pict.flaw = "none"
    BY <1>3 DEF validate_artifact, validate_source_ids, validate_creation_event, ImageInv, ImageTypes, Flaws
  <2>7. ImageTypes'
    BY <1>1, <2>2, <2>3 DEF ImageInv, ImageTypes
  <2>8. MirrorInv'
    BY <1>1, <1>3, <2>2, <2>3, <2>4, <2>5, <2>6 DEF ImageInv, MirrorInv, MirrorKnows, mirror_is_current
  <2> QED
    BY <1>1, <2>7, <2>8 DEF ImageInv
<1> QED
  BY <1>2, <1>3

LEMMA SearchStep ==
  ASSUME ImageInv, NEW p \in Workers, MirrorSearch(p)
  PROVE  ImageInv'
<1>1. PICK r \in search_record : job' = [job EXCEPT ![p].pc = "fetched", ![p].row = r]
  BY DEF MirrorSearch
<1>2. /\ job[p].pc = "search" /\ UNCHANGED <<conf, pict, rows, wref, desk, held, tick, had, raced>>
      /\ pict.kind = "mirrored"
  BY DEF MirrorSearch, ImageInv, StoreInv
<1>3. r = Len(rows) /\ r \in Nat
  BY <1>1 DEF search_record, ImageInv, ImageTypes
<1>4. PICK new : new = [job[p] EXCEPT !.pc = "fetched", !.row = r]
  OBVIOUS
<1>5. job' = [job EXCEPT ![p] = new]
  BY <1>1, <1>4 DEF ImageInv, ImageTypes
<1>6. new \in ImageJob /\ new.pc = "fetched" /\ new.row = Len(rows)
  BY <1>3, <1>4 DEF ImageInv, ImageTypes, ImageJob
<1>7. held = p /\ pict.flaw = "none" /\ MirrorKnows(new)
  BY <1>2, <1>6 DEF ImageInv, MirrorInv, MirrorKnows
<1> QED
  BY <1>2, <1>5, <1>6, <1>7, MirrorMoves DEF ImageInv, ImageTypes

\* The holder alone works on the table.
LEMMA Alone ==
  ASSUME ImageInv, NEW p \in Workers, pict.kind = "mirrored", job[p].pc \notin {"idle", "begun"}
  PROVE  /\ held = p /\ held # Nobody /\ ~mirror_is_current /\ pict.flaw = "none" /\ MirrorKnows(job[p])
         /\ \A q \in Workers : q # p => job[q].pc \in {"idle", "begun"}
BY NobodyNoWorker DEF ImageInv, MirrorInv

\* The holder writes rows, and goes on or lets go.
LEMMA MirrorWrites ==
  ASSUME ImageInv, NEW p \in Workers, pict.kind = "mirrored", job[p].pc \in {"fetched", "upload"},
         UNCHANGED <<conf, pict, wref, desk, tick, had, raced>>,
         rows' \in Seq(TableRow), Len(rows') = 1,
         rows'[1].shown = pict.review, wref.st = "active" => rows'[1].file # "none",
         \/ Release(p)
         \/ /\ UNCHANGED held
            /\ \E new \in ImageJob : /\ job' = [job EXCEPT ![p] = new] /\ new.pc \in {"upload", "commit"}
                                     /\ new.row = 1 /\ (new.pc = "commit" => rows'[1].file # "none")
  PROVE  ImageInv'
<1>1. /\ held = p /\ held # Nobody /\ ~mirror_is_current /\ pict.flaw = "none"
      /\ \A q \in Workers : q # p => job[q].pc \in {"idle", "begun"}
  BY Alone
<1>2. PICK new \in ImageJob :
          /\ job' = [job EXCEPT ![p] = new]
          /\ \/ new.pc = "idle" /\ held' = Nobody
             \/ /\ UNCHANGED held /\ new.pc \in {"upload", "commit"} /\ new.row = 1
                /\ new.pc = "commit" => rows'[1].file # "none"
  BY <1>1, NoJobFacts DEF Release
<1>3. job'[p] = new /\ \A q \in Workers : q # p => job'[q] = job[q]
  BY <1>2 DEF ImageInv, ImageTypes
<1>4. ImageTypes'
  BY <1>2 DEF ImageInv, ImageTypes
<1>5. \A r \in 1..Len(rows') : rows'[r].shown = "approved" => "approved" \in had
  BY DEF ImageInv, ImageTypes
<1>6. MirrorInv'
  BY <1>1, <1>2, <1>3, <1>5 DEF ImageInv, MirrorInv, MirrorKnows, mirror_is_current
<1> QED
  BY <1>4, <1>6 DEF ImageInv

LEMMA RowCreateStep ==
  ASSUME ImageInv, NEW p \in Workers, MirrorCreate(p)
  PROVE  ImageInv'
<1>1. job[p].pc = "fetched" /\ UNCHANGED <<conf, pict, wref, desk, tick, had, raced>> /\ pict.kind = "mirrored"
  BY DEF MirrorCreate, ImageInv, StoreInv
<1>2. held = p /\ pict.flaw = "none" /\ job[p].row = Len(rows) /\ Len(rows) <= 1
  BY <1>1, Alone DEF MirrorKnows, ImageInv, MirrorInv
<1>3. CASE job[p].row = 0
  <2>1. PICK f : f = build_feishu_fields("none")
    OBVIOUS
  <2>2. rows' = Append(rows, f) /\ f \in TableRow /\ f.shown = pict.review
    BY <1>1, <1>3, <2>1 DEF MirrorCreate, create_record, build_feishu_fields, TableRow, ImageInv, ImageTypes
  <2>3. rows' \in Seq(TableRow) /\ Len(rows') = 1 /\ rows'[1] = f
    <3>1. rows \in Seq(TableRow) /\ Len(rows) = 0
      BY <1>2, <1>3 DEF ImageInv, ImageTypes
    <3> QED
      BY <2>2, <3>1
  <2>4. wref.st # "active"
    BY <1>1, <1>2, <1>3 DEF ImageInv, MirrorInv
  <2>5. CASE Release(p)
    BY <1>1, <2>2, <2>3, <2>4, <2>5, MirrorWrites
  <2>6. CASE job' = [job EXCEPT ![p].pc = "upload", ![p].row = Len(rows')] /\ UNCHANGED held
    <3>1. PICK new : new = [job[p] EXCEPT !.pc = "upload", !.row = 1]
      OBVIOUS
    <3>2. job' = [job EXCEPT ![p] = new] /\ new \in ImageJob /\ new.pc = "upload" /\ new.row = 1
      BY <2>3, <2>6, <3>1 DEF ImageInv, ImageTypes, ImageJob
    <3> QED
      BY <1>1, <2>2, <2>3, <2>4, <2>6, <3>2, MirrorWrites
  <2> QED
    BY <1>3, <2>5, <2>6 DEF MirrorCreate
<1>4. CASE job[p].row # 0
  <2>1. PICK new : new = [job[p] EXCEPT !.pc = "upload"]
    OBVIOUS
  <2>2. job' = [job EXCEPT ![p] = new] /\ UNCHANGED <<rows, held>>
    BY <1>4, <2>1 DEF MirrorCreate, At
  <2>3. new \in ImageJob /\ new.pc = "upload" /\ new.row = job[p].row
    BY <2>1 DEF ImageInv, ImageTypes, ImageJob
  <2>4. new.row = 1 /\ Len(rows) = 1
    <3>1. rows \in Seq(TableRow) /\ Len(rows) \in Nat
      BY DEF ImageInv, ImageTypes
    <3>2. PICK n \in Nat : n = Len(rows)
      BY <3>1
    <3>3. n <= 1 /\ n # 0
      BY <1>2, <1>4, <3>2
    <3> QED
      BY <1>2, <2>3, <3>2, <3>3
  <2>5. MirrorKnows(new)
    BY <2>3, <2>4 DEF MirrorKnows
  <2> QED
    BY <1>1, <1>2, <2>2, <2>3, <2>5, MirrorMoves DEF ImageInv, ImageTypes
<1> QED
  BY <1>3, <1>4

LEMMA UpdateStep ==
  ASSUME ImageInv, NEW p \in Workers, MirrorUpdate(p)
  PROVE  ImageInv'
<1>1. job[p].pc = "upload" /\ UNCHANGED <<conf, pict, wref, desk, tick, had, raced>> /\ pict.kind = "mirrored"
  BY DEF MirrorUpdate, ImageInv, StoreInv
<1>2. held = p /\ job[p].row = 1 /\ Len(rows) = 1
  BY <1>1, Alone DEF MirrorKnows
<1>3. PICK file \in {"ours", "damaged"} : update_record(job[p].row, build_feishu_fields(file))
  BY DEF MirrorUpdate
<1>4. PICK f : f = build_feishu_fields(file)
  OBVIOUS
<1>5. rows' = [rows EXCEPT ![1] = f] /\ f \in TableRow /\ f.shown = pict.review /\ f.file # "none"
  BY <1>2, <1>3, <1>4 DEF update_record, build_feishu_fields, TableRow, ImageInv, ImageTypes
<1>6. rows' \in Seq(TableRow) /\ Len(rows') = 1 /\ rows'[1] = f
  <2>1. rows \in Seq(TableRow) /\ Len(rows) = 1
    BY <1>2 DEF ImageInv, ImageTypes
  <2>2. rows' = [rows EXCEPT ![1] = f] /\ f \in TableRow
    BY <1>5
  <2> QED
    BY <2>1, <2>2
<1>7. CASE Release(p)
  BY <1>1, <1>5, <1>6, <1>7, MirrorWrites
<1>8. CASE At(p, "commit") /\ UNCHANGED held
  <2>1. PICK new : new = [job[p] EXCEPT !.pc = "commit"]
    OBVIOUS
  <2>2. job' = [job EXCEPT ![p] = new]
    BY <1>8, <2>1 DEF At
  <2>3. new \in ImageJob /\ new.pc = "commit" /\ new.row = 1
    BY <1>2, <2>1 DEF ImageInv, ImageTypes, ImageJob
  <2> QED
    BY <1>1, <1>5, <1>6, <1>8, <2>2, <2>3, MirrorWrites
<1> QED
  BY <1>7, <1>8 DEF MirrorUpdate

LEMMA CommitStep ==
  ASSUME ImageInv, NEW p \in Workers, MirrorCommit(p)
  PROVE  ImageInv'
<1>1. /\ job[p].pc = "commit" /\ UNCHANGED <<conf, pict, rows, desk, tick, had>> /\ Release(p)
      /\ raced' = FALSE /\ wref' = [st |-> "active", synced |-> job[p].stamp] /\ pict.kind = "mirrored"
  BY DEF MirrorCommit, upsert_workbench_ref, ImageInv, StoreInv
<1>2. /\ held = p /\ Len(rows) = 1 /\ rows[1].file # "none" /\ rows[1].shown = pict.review /\ pict.flaw = "none"
      /\ \A q \in Workers : q # p => job[q].pc \in {"idle", "begun"}
  BY <1>1, Alone DEF MirrorKnows
<1>3. PICK no : no = NoJob
  OBVIOUS
<1>4. no \in ImageJob /\ no.pc = "idle" /\ job' = [job EXCEPT ![p] = no] /\ held' = Nobody
  BY <1>1, <1>2, <1>3, NoJobFacts DEF Release
<1>5. job'[p] = no /\ \A q \in Workers : q # p => job'[q] = job[q]
  BY <1>4 DEF ImageInv, ImageTypes
<1>6. job[p].stamp \in Nat
  BY DEF ImageInv, ImageTypes, ImageJob
<1>7. ImageTypes'
  BY <1>1, <1>4, <1>6 DEF ImageInv, ImageTypes
<1>8. MirrorInv'
  BY <1>1, <1>2, <1>4, <1>5 DEF ImageInv, MirrorInv, MirrorKnows, mirror_is_current
<1> QED
  BY <1>1, <1>7, <1>8 DEF ImageInv

\* A store moves: the rows only gain what was read back.
LEMMA StoreMoves ==
  ASSUME ImageInv, NEW p \in Workers, NEW new \in ImageJob, job' = [job EXCEPT ![p] = new],
         pict.kind # "mirrored", pict'.kind = pict.kind,
         pict' \in [kind : Kinds, flaw : Flaws, review : ReviewStates, stamp : Nat],
         pict'.review \in had', had \subseteq had', tick' \in Nat,
         wref' \in [st : {"none", "active"}, synced : Nat],
         UNCHANGED <<conf, desk, raced>>,
         rows' \in Seq(TableRow), Len(rows') >= Len(rows), new.row <= Len(rows'),
         new.pc \in {"idle", "store", "persist"},
         \A r \in 1..Len(rows') : rows'[r].file = "ours" /\ (pict.kind = "poster" => rows'[r].shown = "pending")
  PROVE  ImageInv'
<1>1. ImageTypes'
  BY DEF ImageInv, ImageTypes
<1>2. job'[p] = new /\ \A q \in Workers : q # p => job'[q] = job[q]
  BY DEF ImageInv, ImageTypes
<1>3. \A q \in Workers : job[q].row \in Nat /\ Len(rows) \in Nat /\ Len(rows') \in Nat
  BY DEF ImageInv, ImageTypes, ImageJob
<1>4. StoreInv'
  BY <1>2, <1>3 DEF ImageInv, StoreInv
<1> QED
  BY <1>1, <1>4 DEF ImageInv

LEMMA StoreSearchStep ==
  ASSUME ImageInv, NEW p \in Workers, StoreSearch(p)
  PROVE  ImageInv'
<1>1. PICK r \in search_record :
          job' = [job EXCEPT ![p] = [pc |-> "store", stamp |-> tick', row |-> r, file |-> "none"]]
  BY DEF StoreSearch
<1>2. /\ UNCHANGED <<conf, pict, rows, wref, desk, had, raced>> /\ pict.kind # "mirrored" /\ tick' \in Nat
  BY DEF StoreSearch, Begin, ImageInv, ImageTypes
<1>3. r = Len(rows) /\ r \in Nat
  BY <1>1 DEF search_record, ImageInv, ImageTypes
<1>4. PICK new : new = [pc |-> "store", stamp |-> tick', row |-> r, file |-> "none"]
  OBVIOUS
<1>5. job' = [job EXCEPT ![p] = new] /\ new \in ImageJob /\ new.pc = "store" /\ new.row = Len(rows)
  BY <1>1, <1>2, <1>3, <1>4 DEF ImageJob
<1> QED
  BY <1>2, <1>3, <1>5, StoreMoves DEF ImageInv, ImageTypes, StoreInv

LEMMA UploadMediaStep ==
  ASSUME ImageInv, NEW p \in Workers, upload_media(p)
  PROVE  ImageInv'
<1>1. PICK file \in {"ours", "damaged"} : job' = [job EXCEPT ![p].file = file]
  BY DEF upload_media
<1>2. /\ job[p].pc = "store" /\ UNCHANGED <<conf, pict, rows, wref, desk, tick, had, raced>> /\ pict.kind # "mirrored"
  BY DEF upload_media, ImageInv, MirrorInv
<1>3. PICK new : new = [job[p] EXCEPT !.file = file]
  OBVIOUS
<1>4. job' = [job EXCEPT ![p] = new] /\ new \in ImageJob /\ new.pc = "store" /\ new.row = job[p].row
  BY <1>1, <1>2, <1>3 DEF ImageInv, ImageTypes, ImageJob
<1> QED
  BY <1>2, <1>4, StoreMoves DEF ImageInv, ImageTypes, StoreInv

LEMMA StoreStep ==
  ASSUME ImageInv, NEW p \in Workers, store_feishu_image(p)
  PROVE  ImageInv'
<1>1. /\ job[p].pc = "store" /\ job[p].file = "ours" /\ UNCHANGED <<conf, pict, wref, desk, tick, had, raced>>
      /\ pict.kind # "mirrored"
  BY DEF store_feishu_image, ImageInv, MirrorInv
<1>2. PICK f : f = build_feishu_image_storage_fields("ours")
  OBVIOUS
<1>3. f \in TableRow /\ f.file = "ours" /\ (pict.kind = "poster" => f.shown = "pending")
  BY <1>2 DEF build_feishu_image_storage_fields, TableRow, ReviewStates
<1>4. /\ rows \in Seq(TableRow) /\ job[p].row \in Nat /\ job[p].row <= Len(rows)
      /\ \A r \in 1..Len(rows) : rows[r].file = "ours" /\ (pict.kind = "poster" => rows[r].shown = "pending")
  BY <1>1 DEF ImageInv, ImageTypes, StoreInv, ImageJob
<1>5. \/ job[p].row = 0 /\ rows' = Append(rows, f)
      \/ job[p].row # 0 /\ rows' = [rows EXCEPT ![job[p].row] = f]
  BY <1>1, <1>2 DEF store_feishu_image, create_record, update_record
<1>6. /\ rows' \in Seq(TableRow) /\ Len(rows') >= Len(rows)
      /\ \A r \in 1..Len(rows') : rows'[r].file = "ours" /\ (pict.kind = "poster" => rows'[r].shown = "pending")
  <2>1. CASE job[p].row = 0 /\ rows' = Append(rows, f)
    BY <1>3, <1>4, <2>1
  <2>2. CASE job[p].row # 0 /\ rows' = [rows EXCEPT ![job[p].row] = f]
    BY <1>3, <1>4, <2>2
  <2> QED
    BY <1>5, <2>1, <2>2
<1>a. Len(rows) \in Nat /\ Len(rows') \in Nat
  BY <1>4, <1>6
<1>7. PICK new \in ImageJob : /\ job' = [job EXCEPT ![p] = new] /\ new.pc \in {"idle", "persist"}
                              /\ new.row <= Len(rows')
  <2>1. CASE At(p, "persist")
    <3>1. PICK new : new = [job[p] EXCEPT !.pc = "persist"]
      OBVIOUS
    <3>2. job' = [job EXCEPT ![p] = new]
      BY <2>1, <3>1 DEF At
    <3>3. new \in ImageJob /\ new.pc = "persist" /\ new.row = job[p].row
      BY <3>1 DEF ImageInv, ImageTypes, ImageJob
    <3> QED
      <4>1. new.row <= Len(rows')
        BY <1>4, <1>6, <1>a, <3>3
      <4> QED
        BY <3>2, <3>3, <4>1, Zenon
  <2>2. CASE job' = [job EXCEPT ![p] = NoJob]
    <3>1. NoJob.row <= Len(rows')
      BY <1>a, NoJobFacts
    <3> QED
      BY <2>2, <3>1, NoJobFacts, Zenon
  <2> QED
    BY <2>1, <2>2 DEF store_feishu_image
<1> QED
  BY <1>1, <1>6, <1>7, StoreMoves DEF ImageInv, ImageTypes

LEMMA PersistStep ==
  ASSUME ImageInv, NEW p \in Workers, persist_generated_image(p)
  PROVE  ImageInv'
<1>1. /\ job[p].pc = "persist" /\ UNCHANGED <<conf, rows, desk, tick, raced>> /\ Release(p)
      /\ wref' = [st |-> "active", synced |-> job[p].stamp] /\ pict.kind # "mirrored"
  BY DEF persist_generated_image, upsert_workbench_ref, ImageInv, MirrorInv
<1>2. PICK as \in ReviewStates : as = build_feishu_image_storage_fields("ours").shown
  BY DEF build_feishu_image_storage_fields, ReviewStates
<1>3. job[p].stamp \in Nat
  BY DEF ImageInv, ImageTypes, ImageJob
<1>4. /\ pict' \in [kind : Kinds, flaw : Flaws, review : ReviewStates, stamp : Nat]
      /\ pict'.kind = pict.kind /\ pict'.review \in had' /\ had \subseteq had'
  <2>1. CASE pict.review = "none"
    <3>1. pict' = [pict EXCEPT !.stamp = job[p].stamp, !.review = as] /\ had' = had \cup {pict'.review}
      BY <1>2, <2>1 DEF persist_generated_image
    <3> QED
      BY <1>3, <3>1 DEF ImageInv, ImageTypes
  <2>2. CASE pict.review # "none"
    BY <2>2 DEF persist_generated_image, ImageInv, ImageTypes
  <2> QED
    BY <2>1, <2>2
<1>5. PICK no : no = NoJob
  OBVIOUS
<1>6. no \in ImageJob /\ no.pc = "idle" /\ no.row = 0 /\ job' = [job EXCEPT ![p] = no]
  BY <1>1, <1>5, NoJobFacts DEF Release
<1>7. /\ rows \in Seq(TableRow) /\ Len(rows) \in Nat
      /\ \A r \in 1..Len(rows) : rows[r].file = "ours" /\ (pict.kind = "poster" => rows[r].shown = "pending")
  BY <1>1 DEF ImageInv, ImageTypes, StoreInv
<1>8. wref' \in [st : {"none", "active"}, synced : Nat] /\ tick' \in Nat
  BY <1>1, <1>3 DEF ImageInv, ImageTypes
<1>9. rows' \in Seq(TableRow) /\ Len(rows') >= Len(rows) /\ no.row <= Len(rows')
  BY <1>1, <1>6, <1>7
<1> QED
  BY <1>1, <1>4, <1>6, <1>7, <1>8, <1>9, StoreMoves

LEMMA FailureStep ==
  ASSUME ImageInv, NEW p \in Workers, append_failure_event(p)
  PROVE  ImageInv'
<1>1. CASE pict.kind = "mirrored"
  BY <1>1, MirrorLets DEF append_failure_event, ImageInv, ImageTypes
<1>2. CASE pict.kind # "mirrored"
  <2>1. PICK no : no = NoJob
    OBVIOUS
  <2>2. no \in ImageJob /\ no.pc = "idle" /\ no.row = 0 /\ job' = [job EXCEPT ![p] = no]
    BY <2>1, NoJobFacts DEF append_failure_event, Release
  <2>3. UNCHANGED <<conf, pict, rows, wref, desk, tick, had, raced>>
    BY DEF append_failure_event
  <2> QED
    BY <1>2, <2>2, <2>3, StoreMoves DEF ImageInv, ImageTypes, StoreInv
<1> QED
  BY <1>1, <1>2

LEMMA BeginReviewStep ==
  ASSUME ImageInv, NEW d \in {"approved", "rejected"}, BeginReview(d)
  PROVE  ImageInv'
<1>1. /\ desk' = [decision |-> d, stamp |-> tick'] /\ tick' \in Nat
      /\ UNCHANGED <<conf, pict, rows, wref, job, held, had, raced>>
  BY DEF BeginReview, Begin, ImageInv, ImageTypes
<1>2. ImageTypes'
  BY <1>1 DEF ImageInv, ImageTypes
<1> QED
  BY <1>1, <1>2 DEF ImageInv, MirrorInv, MirrorKnows, StoreInv, mirror_is_current

\* The review is written while nobody holds the row: a row that is current
\* afterwards was synced later than the review began, which is noted.
LEMMA RecordReviewStep ==
  ASSUME ImageInv, RecordReview
  PROVE  ImageInv'
<1>1. /\ held = Nobody /\ desk' = NoDesk /\ UNCHANGED <<conf, rows, wref, job, held, tick>> /\ desk # NoDesk
  BY DEF RecordReview
<1>2. NoDesk \in [decision : {"none", "approved", "rejected"}, stamp : Nat]
  BY DEF NoDesk
<1>3. CASE UNCHANGED <<pict, had, raced>>
  BY <1>1, <1>2, <1>3 DEF ImageInv, ImageTypes, MirrorInv, MirrorKnows, StoreInv, mirror_is_current
<1>4. CASE /\ pict' = [pict EXCEPT !.review = desk.decision, !.stamp = desk.stamp]
           /\ had' = had \cup {desk.decision}
           /\ raced' = (raced \/ (wref.st = "active" /\ desk.stamp <= wref.synced))
  <2>1. desk.decision \in ReviewStates /\ desk.stamp \in Nat
    BY DEF ImageInv, ImageTypes, ReviewStates
  <2>2. /\ pict' \in [kind : Kinds, flaw : Flaws, review : ReviewStates, stamp : Nat]
        /\ pict'.kind = pict.kind /\ pict'.flaw = pict.flaw
        /\ pict'.review = desk.decision /\ pict'.stamp = desk.stamp
    BY <1>4, <2>1 DEF ImageInv, ImageTypes
  <2>3. ImageTypes'
    BY <1>1, <1>2, <1>4, <2>2 DEF ImageInv, ImageTypes
  <2>4. ASSUME pict.kind = "mirrored" PROVE MirrorInv'
    <3>1. \A p \in Workers : job[p].pc \in {"idle", "begun"}
      BY <1>1, <2>4, NobodyNoWorker DEF ImageInv, MirrorInv
    <3>2. ~(mirror_is_current' /\ ~raced')
      BY <1>1, <1>4, <2>1, <2>2 DEF mirror_is_current, ImageInv, ImageTypes
    <3> QED
      BY <1>1, <1>4, <2>2, <2>4, <3>1, <3>2 DEF ImageInv, MirrorInv, MirrorKnows
  <2> QED
    BY <1>1, <2>2, <2>3, <2>4 DEF ImageInv, StoreInv
<1> QED
  BY <1>3, <1>4 DEF RecordReview

LEMMA ImageAtRest == ImageInv /\ UNCHANGED ivars => ImageInv'
BY DEF ImageInv, ImageTypes, MirrorInv, MirrorKnows, StoreInv, mirror_is_current, ivars

LEMMA ImageStep ==
  ASSUME ImageInv, ImageNext
  PROVE  ImageInv'
BY BeginMirror, LockStep, SearchStep, RowCreateStep, UpdateStep, CommitStep, FailureStep, StoreSearchStep,
   UploadMediaStep, StoreStep, PersistStep, BeginReviewStep, RecordReviewStep DEF ImageNext

LEMMA ReadyIsReady == ASSUME conf \subseteq Settings PROVE run_preflight = (MirrorPolicy /\ MirrorConfig)
BY DEF Settings, run_preflight, missing_configuration, validate_local_configuration, MirrorPolicy, MirrorConfig

LEMMA ImageSafe == ImageInv => WorkbenchTrue
<1> SUFFICES ASSUME ImageInv PROVE WorkbenchTrue
  OBVIOUS
<1>1. pict.kind \in {"mirrored", "poster"} =>
          \A r \in 1..Len(rows) : rows[r].shown = "approved" => "approved" \in had
  BY DEF ImageInv, MirrorInv, StoreInv
<1>2. pict.kind = "mirrored" =>
          /\ Len(rows) <= 1
          /\ wref.st = "active" => Len(rows) = 1 /\ rows[1].file # "none"
          /\ (mirror_is_current /\ ~raced /\ held = Nobody) => rows[1].shown = pict.review
  BY DEF ImageInv, MirrorInv
<1>3. pict.kind # "mirrored" => \A r \in 1..Len(rows) : rows[r].file = "ours"
  BY DEF ImageInv, StoreInv
<1>4. run_preflight = (MirrorPolicy /\ MirrorConfig)
  BY ReadyIsReady DEF ImageInv, ImageTypes
<1>5. pict.flaw # "none" /\ pict.kind = "mirrored" => rows = <<>>
  BY DEF ImageInv, MirrorInv
<1>6. ASSUME read_revalidated_bytes PROVE rows[1].file = "ours"
  <2>1. PICK r \in search_record \ {0} : rows[r].file = "ours"
    BY <1>6 DEF read_revalidated_bytes, validate_primary_storage_readback, primary_storage_attachment_token
  <2>2. r = 1
    BY <2>1 DEF search_record, ImageInv, ImageTypes
  <2> QED
    BY <2>1, <2>2
<1> QED
  BY <1>1, <1>2, <1>3, <1>4, <1>5, <1>6 DEF WorkbenchTrue, revalidate_for_delivery, revalidate_for_review_notification


-----------------------------------------------------------------------------
(***************************************************************************)
(* Work accounts                                                           *)
(***************************************************************************)

PermitFields == {"role", "ver", "by", "id", "live", "saw", "broken"}

PermitRow(r) == DOMAIN r = PermitFields /\ r.live \in BOOLEAN /\ r.broken \in BOOLEAN

DeskTypes ==
    /\ DOMAIN gate = {"on", "ver"} /\ gate.ver \in Nat
    /\ DOMAIN observed = {"st", "ver"} /\ observed.ver \in Nat
    /\ DOMAIN shared = {"active", "ver", "sver", "gver"} /\ shared.active \in BOOLEAN
    /\ shared.ver \in Nat /\ shared.sver \in Nat /\ shared.gver \in Nat
    /\ shared.sver <= observed.ver /\ shared.gver <= gate.ver
    /\ DOMAIN group = {"bound", "ver"} /\ group.ver \in Nat /\ site \in BOOLEAN
    /\ DOMAIN permits = DeskOps /\ \A op \in DeskOps : PermitRow(permits[op])

\* Only the senior manages execution, under one grant that may be replaced or
\* withdrawn for good.
ChiefsKnown ==
    /\ DOMAIN chief = Chiefs /\ \A m \in Chiefs : DOMAIN chief[m] = Actions_ /\ chief[m]["read_business"] = 1
    /\ chief[Senior]["execute_business"] \in {0, 1, 2}
    /\ \A m \in Chiefs : m # Senior => chief[m]["execute_business"] = 0

\* A grant in force is for the registration its author saw, and where it is
\* broken one of the versions it rests on has moved.
PermitOK(op) ==
    permits[op].live =>
        /\ shared.active /\ site /\ permits[op].ver = shared.ver /\ permits[op].saw = shared.ver
        /\ op = "order_create" => /\ permits[op].by = Senior /\ permits[op].id \in {1, 2}
                                  /\ permits[op].id = 2 => chief[Senior]["execute_business"] = 2
        /\ permits[op].broken =>
              \/ shared.gver < gate.ver \/ shared.sver < observed.ver
              \/ op = "order_create" /\ chief[Senior]["execute_business"] # permits[op].id
OneRole == \A op, o \in DeskOps : permits[op].live /\ permits[o].live => permits[op].role = permits[o].role

TurnOK ==
    /\ DOMAIN turn = {"on", "ver", "sver", "gver", "broken"} /\ turn.on \in BOOLEAN /\ turn.broken \in BOOLEAN
    /\ turn.ver \in Nat /\ turn.sver \in Nat /\ turn.gver \in Nat
    /\ turn.on => turn.ver <= shared.ver /\ turn.sver <= observed.ver /\ turn.gver <= gate.ver
    /\ turn.broken => turn.on /\ (turn.ver < shared.ver \/ turn.sver < observed.ver \/ turn.gver < gate.ver)

RouteOK ==
    /\ DOMAIN route = {"set", "basis", "broken"} /\ route.set \in BOOLEAN /\ route.broken \in BOOLEAN
    /\ DOMAIN route.basis = 1 .. 4 /\ \A i \in 1 .. 4 : route.basis[i] \in Nat
    /\ route.set => /\ route.basis[1] <= group.ver /\ route.basis[2] <= observed.ver
                    /\ route.basis[3] <= gate.ver /\ route.basis[4] <= shared.ver
    /\ route.broken => /\ route.set
                       /\ \/ route.basis[1] < group.ver \/ route.basis[2] < observed.ver
                          \/ route.basis[3] < gate.ver \/ route.basis[4] < shared.ver

\* A command under way was made for the registration there is.
SentOK == \A c \in sent : c.by \in Chiefs /\ c.op \in DeskOps /\ c.saw = shared.ver

DeskInv == DeskTypes /\ ChiefsKnown /\ (\A op \in DeskOps : PermitOK(op)) /\ OneRole /\ TurnOK /\ RouteOK /\ SentOK

LEMMA NoPermitFacts == PermitRow(NoPermit) /\ NoPermit.live = FALSE /\ NoPermit.broken = FALSE
BY DEF NoPermit, PermitFields, PermitRow

LEMMA OpsFacts == DeskOps = {"order_read", "order_create"} /\ action_of("order_read") = "read_business"
                  /\ action_of("order_create") = "execute_business" /\ Actions_ = {"read_business", "execute_business"}
BY DEF DeskOps, action_of, Actions_

LEMMA DeskInitInv == DeskInit => DeskInv
<1> SUFFICES ASSUME DeskInit PROVE DeskInv
  OBVIOUS
<1>1. DeskTypes
  BY NoPermitFacts DEF DeskInit, DeskTypes
<1>2. ChiefsKnown
  BY SeniorManages, OpsFacts DEF DeskInit, ChiefsKnown
<1>3. TurnOK
  BY DEF DeskInit, NoTurn, TurnOK
<1>4. RouteOK
  BY DEF DeskInit, NoRoute, RouteOK
<1> QED
  BY <1>1, <1>2, <1>3, <1>4, NoPermitFacts DEF DeskInit, DeskInv, PermitOK, OneRole, SentOK

\* The turn and the route after what stood behind them moved.
LEMMA TurnBreaks ==
  ASSUME DeskInv, turn' = [turn EXCEPT !.broken = turn.on],
         shared.ver <= shared.ver', observed.ver <= observed.ver', gate.ver <= gate.ver',
         shared.ver < shared.ver' \/ observed.ver < observed.ver' \/ gate.ver < gate.ver',
         shared.ver' \in Nat, observed.ver' \in Nat, gate.ver' \in Nat
  PROVE  TurnOK'
BY DEF DeskInv, DeskTypes, TurnOK

LEMMA RouteBreaks ==
  ASSUME DeskInv, route' = [route EXCEPT !.broken = route.set],
         shared.ver <= shared.ver', observed.ver <= observed.ver', gate.ver <= gate.ver', group.ver <= group.ver',
         \/ shared.ver < shared.ver' \/ observed.ver < observed.ver'
         \/ gate.ver < gate.ver' \/ group.ver < group.ver',
         shared.ver' \in Nat, observed.ver' \in Nat, gate.ver' \in Nat, group.ver' \in Nat
  PROVE  RouteOK'
BY DEF DeskInv, DeskTypes, RouteOK

\* Neither is touched, and no version goes back.
LEMMA TurnKept ==
  ASSUME DeskInv, UNCHANGED turn, shared.ver <= shared.ver', observed.ver <= observed.ver', gate.ver <= gate.ver',
         shared.ver' \in Nat, observed.ver' \in Nat, gate.ver' \in Nat
  PROVE  TurnOK'
BY DEF DeskInv, DeskTypes, TurnOK

LEMMA RouteKept ==
  ASSUME DeskInv, UNCHANGED route,
         shared.ver <= shared.ver', observed.ver <= observed.ver', gate.ver <= gate.ver', group.ver <= group.ver',
         shared.ver' \in Nat, observed.ver' \in Nat, gate.ver' \in Nat, group.ver' \in Nat
  PROVE  RouteOK'
BY DEF DeskInv, DeskTypes, RouteOK

\* Every permit is the one before or none, and the registration is the same.
LEMMA PermitsKept ==
  ASSUME DeskInv, DOMAIN permits' = DeskOps,
         \A op \in DeskOps : permits'[op] = permits[op] \/ permits'[op] = NoPermit,
         \A op \in DeskOps : permits'[op].live => shared' = shared /\ site',
         UNCHANGED <<gate, observed, chief>>
  PROVE  /\ \A op \in DeskOps : PermitOK(op)'
         /\ OneRole'
         /\ \A op \in DeskOps : PermitRow(permits'[op])
<1>1. ASSUME NEW op \in DeskOps
      PROVE  /\ permits'[op].live => permits'[op] = permits[op]
             /\ PermitRow(permits'[op])
  BY NoPermitFacts DEF DeskInv, DeskTypes
<1>2. \A op \in DeskOps : PermitOK(op)'
  BY <1>1 DEF DeskInv, PermitOK
<1>3. OneRole'
  BY <1>1 DEF DeskInv, OneRole
<1> QED
  BY <1>1, <1>2, <1>3

LEMMA ChiefsStay == DeskInv /\ UNCHANGED chief => ChiefsKnown'
BY DEF DeskInv, ChiefsKnown

-----------------------------------------------------------------------------
LEMMA RegisterStep ==
  ASSUME DeskInv, NEW m \in Chiefs, RegisterAccount(m), UNCHANGED <<gate, observed, chief, group>>, sent' = {}
  PROVE  DeskInv'
<1>1. /\ shared' = [active |-> TRUE, ver |-> shared.ver + 1, sver |-> observed.ver, gver |-> gate.ver]
      /\ \A op \in DeskOps : ~permits[op].live
      /\ UNCHANGED <<permits, site, route, turn>>
  BY DEF RegisterAccount
<1>2. DeskTypes'
  BY <1>1 DEF DeskInv, DeskTypes
<1>3. (\A op \in DeskOps : PermitOK(op)') /\ OneRole'
  BY <1>1 DEF PermitOK, OneRole
<1>4. TurnOK' /\ RouteOK'
  BY <1>1, <1>2, TurnKept, RouteKept DEF DeskInv, DeskTypes
<1> QED
  BY <1>2, <1>3, <1>4, ChiefsStay DEF DeskInv, SentOK

LEMMA DisableAccountStep ==
  ASSUME DeskInv, NEW m \in Chiefs, NEW ver, DisableAccount(m, ver), UNCHANGED <<gate, observed, chief, group>>, sent' = {}
  PROVE  DeskInv'
<1>1. /\ shared' = [shared EXCEPT !.active = FALSE, !.ver = shared.ver + 1]
      /\ permits' = [op \in DeskOps |-> NoPermit]
      /\ route' = [route EXCEPT !.broken = route.set] /\ turn' = [turn EXCEPT !.broken = turn.on]
      /\ UNCHANGED site
  BY DEF DisableAccount, DeskInv, DeskTypes
<1>2. /\ DOMAIN shared' = {"active", "ver", "sver", "gver"} /\ shared'.active = FALSE /\ shared'.ver = shared.ver + 1
      /\ shared'.sver = shared.sver /\ shared'.gver = shared.gver
  BY <1>1 DEF DeskInv, DeskTypes
<1>3. (\A op \in DeskOps : PermitOK(op)') /\ OneRole'
  BY <1>1, NoPermitFacts DEF PermitOK, OneRole
<1>4. DeskTypes'
  BY <1>1, <1>2, NoPermitFacts DEF DeskInv, DeskTypes
<1>5. TurnOK' /\ RouteOK'
  BY <1>1, <1>2, <1>4, TurnBreaks, RouteBreaks DEF DeskInv, DeskTypes
<1> QED
  BY <1>3, <1>4, <1>5, ChiefsStay DEF DeskInv, SentOK

LEMMA GrantStep ==
  ASSUME DeskInv, NEW m \in Chiefs, NEW op \in DeskOps, NEW role, GrantAccountOperation(m, op, role, shared.ver),
         UNCHANGED <<gate, observed, chief, group>>, sent' = {}
  PROVE  DeskInv'
<1>1. PICK new : new = [role |-> role, ver |-> shared.ver, by |-> m, live |-> TRUE,
                        id |-> chief[m][action_of(op)], saw |-> shared.ver, broken |-> FALSE]
  OBVIOUS
<1>2. /\ DOMAIN new = PermitFields /\ new.role = role /\ new.ver = shared.ver /\ new.by = m /\ new.live = TRUE
      /\ new.id = chief[m][action_of(op)] /\ new.saw = shared.ver /\ new.broken = FALSE /\ PermitRow(new)
  BY <1>1 DEF PermitFields, PermitRow
<1>3. /\ chief[m][action_of(op)] # 0 /\ site /\ shared.active /\ permits' = [permits EXCEPT ![op] = new]
      /\ \A o \in DeskOps : permits[o].live => permits[o].role = role
      /\ UNCHANGED <<shared, site, route, turn>>
  BY <1>1 DEF GrantAccountOperation, Manages, DeskValid
<1>4. permits'[op] = new /\ \A o \in DeskOps \ {op} : permits'[o] = permits[o]
  BY <1>3 DEF DeskInv, DeskTypes
<1>5. ASSUME op = "order_create"
      PROVE  /\ m = Senior /\ new.id \in {1, 2}
             /\ new.id = 2 => chief[Senior]["execute_business"] = 2
  BY <1>2, <1>3, <1>5, OpsFacts DEF DeskInv, ChiefsKnown
<1>6. ASSUME NEW o \in DeskOps PROVE PermitOK(o)'
  <2>1. CASE o = op
    BY <1>2, <1>3, <1>4, <1>5, <2>1 DEF PermitOK
  <2>2. CASE o # op
    BY <1>3, <1>4, <2>2 DEF PermitOK, DeskInv
  <2> QED
    BY <2>1, <2>2
<1>7. OneRole'
  BY <1>2, <1>3, <1>4 DEF OneRole, DeskInv
<1>8. DeskTypes'
  BY <1>2, <1>3, <1>4 DEF DeskTypes, DeskInv
<1>9. TurnOK' /\ RouteOK'
  BY <1>3 DEF DeskInv, TurnOK, RouteOK
<1> QED
  BY <1>6, <1>7, <1>8, <1>9, ChiefsStay DEF DeskInv, SentOK

LEMMA DeskRevokeStep ==
  ASSUME DeskInv, NEW m, NEW op \in DeskOps, RevokeAccountOperation(m, op),
         UNCHANGED <<gate, observed, chief, group>>, sent' = {}
  PROVE  DeskInv'
<1>1. permits' = [permits EXCEPT ![op] = NoPermit] /\ UNCHANGED <<shared, site, route, turn>>
  BY DEF RevokeAccountOperation
<1>2. /\ DOMAIN permits' = DeskOps
      /\ \A o \in DeskOps : permits'[o] = permits[o] \/ permits'[o] = NoPermit
  BY <1>1 DEF DeskInv, DeskTypes
<1>3. \A o \in DeskOps : permits'[o].live => site'
  BY <1>1, <1>2, NoPermitFacts DEF DeskInv, PermitOK
<1>4. /\ (\A o \in DeskOps : PermitOK(o)') /\ OneRole'
      /\ \A o \in DeskOps : PermitRow(permits'[o])
  BY <1>1, <1>2, <1>3, PermitsKept
<1>5. DeskTypes' /\ TurnOK' /\ RouteOK'
  BY <1>1, <1>2, <1>4 DEF DeskInv, DeskTypes, TurnOK, RouteOK
<1> QED
  BY <1>4, <1>5, ChiefsStay DEF DeskInv, SentOK

LEMMA SiteStep ==
  ASSUME DeskInv, NEW m, DisableSite(m) \/ CreateSite(m), UNCHANGED <<gate, observed, chief, group>>, sent' = {}
  PROVE  DeskInv'
<1>1. /\ site' \in BOOLEAN /\ UNCHANGED <<shared, route, turn>>
      /\ permits' = [op \in DeskOps |-> NoPermit] \/ (site' = TRUE /\ UNCHANGED permits)
  BY DEF DisableSite, CreateSite
<1>2. /\ DOMAIN permits' = DeskOps
      /\ \A o \in DeskOps : permits'[o] = permits[o] \/ permits'[o] = NoPermit
      /\ \A o \in DeskOps : permits'[o].live => site'
  BY <1>1, NoPermitFacts DEF DeskInv, DeskTypes
<1>3. /\ (\A o \in DeskOps : PermitOK(o)') /\ OneRole'
      /\ \A o \in DeskOps : PermitRow(permits'[o])
  BY <1>1, <1>2, PermitsKept
<1>4. DeskTypes' /\ TurnOK' /\ RouteOK'
  BY <1>1, <1>2, <1>3 DEF DeskInv, DeskTypes, TurnOK, RouteOK
<1> QED
  BY <1>3, <1>4, ChiefsStay DEF DeskInv, SentOK

LEMMA RouteStep ==
  ASSUME DeskInv, NEW m, SetScopeCommunication(m), UNCHANGED <<gate, observed, chief, group>>, sent' = {}
  PROVE  DeskInv'
<1>1. PICK b : b = communication_basis
  OBVIOUS
<1>2. /\ DOMAIN b = 1 .. 4 /\ b[1] = group.ver /\ b[2] = shared.sver /\ b[3] = shared.gver /\ b[4] = shared.ver
  BY <1>1 DEF communication_basis
<1>3. route' = [set |-> TRUE, basis |-> b, broken |-> FALSE] /\ UNCHANGED <<shared, permits, site, turn>>
  BY <1>1 DEF SetScopeCommunication
<1>4. RouteOK'
  <2>1. b[1] \in Nat /\ b[2] \in Nat /\ b[3] \in Nat /\ b[4] \in Nat
    BY <1>2 DEF DeskInv, DeskTypes
  <2>2. \A i \in 1 .. 4 : b[i] \in Nat
    BY <2>1
  <2> QED
    BY <1>2, <1>3, <2>2 DEF DeskInv, DeskTypes, RouteOK
<1>5. DeskTypes' /\ TurnOK' /\ (\A op \in DeskOps : PermitOK(op)') /\ OneRole'
  BY <1>3 DEF DeskInv, DeskTypes, TurnOK, PermitOK, OneRole
<1> QED
  BY <1>4, <1>5, ChiefsStay DEF DeskInv, SentOK

LEMMA ConfigureStep ==
  ASSUME DeskInv, NEW c \in sent, business_configure(c)
  PROVE  DeskInv'
<1>1. /\ ConfigChange(c.by, c) /\ sent' = {} /\ UNCHANGED <<gate, observed, chief, group>>
      /\ c.by \in Chiefs /\ c.op \in DeskOps /\ c.saw = shared.ver
  BY DEF business_configure, DeskInv, SentOK
<1>2. \/ RegisterAccount(c.by) \/ DisableAccount(c.by, c.saw)
      \/ GrantAccountOperation(c.by, c.op, c.role, shared.ver)
      \/ RevokeAccountOperation(c.by, c.op) \/ DisableSite(c.by) \/ CreateSite(c.by)
      \/ SetScopeCommunication(c.by)
  BY <1>1 DEF ConfigChange
<1> QED
  BY <1>1, <1>2, RegisterStep, DisableAccountStep, GrantStep, DeskRevokeStep, SiteStep, RouteStep

LEMMA CommandStep ==
  ASSUME DeskInv, NEW m \in Chiefs, CommandSent(m)
  PROVE  DeskInv'
<1>1. PICK c \in ConfigCommands(m) : sent' = sent \cup {c}
  BY DEF CommandSent
<1>2. c.by = m /\ c.op \in DeskOps /\ c.saw = shared.ver
  BY DEF ConfigCommands
<1>3. UNCHANGED <<gate, observed, shared, permits, site, chief, group, route, turn>>
  BY DEF CommandSent
<1>4. SentOK'
  BY <1>1, <1>2, <1>3 DEF DeskInv, SentOK
<1>5. DeskTypes' /\ TurnOK' /\ RouteOK' /\ (\A op \in DeskOps : PermitOK(op)') /\ OneRole'
  BY <1>3 DEF DeskInv, DeskTypes, TurnOK, RouteOK, PermitOK, OneRole
<1> QED
  BY <1>3, <1>4, <1>5, ChiefsStay DEF DeskInv

LEMMA ResolveStep ==
  ASSUME DeskInv, resolve_gateway_actor
  PROVE  DeskInv'
<1>1. /\ turn' = [on |-> TRUE, ver |-> shared.ver, sver |-> shared.sver, gver |-> shared.gver, broken |-> FALSE]
      /\ UNCHANGED <<gate, observed, shared, permits, site, chief, group, route, sent>>
  BY DEF resolve_gateway_actor
<1>2. TurnOK'
  BY <1>1 DEF DeskInv, DeskTypes, TurnOK
<1>3. DeskTypes' /\ RouteOK' /\ (\A op \in DeskOps : PermitOK(op)') /\ OneRole' /\ SentOK'
  BY <1>1 DEF DeskInv, DeskTypes, RouteOK, PermitOK, OneRole, SentOK
<1> QED
  BY <1>1, <1>2, <1>3, ChiefsStay DEF DeskInv

\* The gateway or the source link moved on: what was built on it is broken.
LEMMA BehindMoved ==
  ASSUME DeskInv, Breaks, UNCHANGED <<shared, site, sent, chief, group>>,
         DOMAIN gate' = {"on", "ver"}, gate'.ver \in Nat, DOMAIN observed' = {"st", "ver"}, observed'.ver \in Nat,
         gate.ver <= gate'.ver, observed.ver <= observed'.ver, gate.ver < gate'.ver \/ observed.ver < observed'.ver
  PROVE  DeskInv'
<1>1. /\ permits' = [op \in DeskOps |-> [permits[op] EXCEPT !.broken = permits[op].broken \/ permits[op].live]]
      /\ route' = [route EXCEPT !.broken = route.set] /\ turn' = [turn EXCEPT !.broken = turn.on]
  BY DEF Breaks, DeskInv, DeskTypes, PermitRow, PermitFields
<1>2. ASSUME NEW op \in DeskOps
      PROVE  /\ PermitRow(permits'[op]) /\ permits'[op].live = permits[op].live
             /\ permits'[op].role = permits[op].role /\ permits'[op].ver = permits[op].ver /\ permits'[op].by = permits[op].by
             /\ permits'[op].id = permits[op].id /\ permits'[op].saw = permits[op].saw
  BY <1>1 DEF DeskInv, DeskTypes, PermitFields, PermitRow
<1>3. DeskTypes'
  <2>1. DOMAIN permits' = DeskOps /\ \A op \in DeskOps : PermitRow(permits'[op])
    BY <1>1, <1>2
  <2>2. shared.sver <= observed'.ver /\ shared.gver <= gate'.ver
    BY DEF DeskInv, DeskTypes
  <2> QED
    BY <2>1, <2>2 DEF DeskInv, DeskTypes
<1>4. shared.gver < gate'.ver \/ shared.sver < observed'.ver
  BY DEF DeskInv, DeskTypes
<1>5. ASSUME NEW op \in DeskOps PROVE PermitOK(op)'
  BY <1>2, <1>4 DEF DeskInv, PermitOK
<1>6. OneRole'
  BY <1>2 DEF DeskInv, OneRole
<1>7. TurnOK' /\ RouteOK'
  BY <1>1, <1>3, TurnBreaks, RouteBreaks DEF DeskInv, DeskTypes
<1> QED
  BY <1>3, <1>5, <1>6, <1>7, ChiefsStay DEF DeskInv, SentOK

LEMMA GatewayStep ==
  ASSUME DeskInv, GatewayChanged
  PROVE  DeskInv'
<1>1. UNCHANGED <<shared, site, sent, observed, chief, group>>
  BY DEF GatewayChanged, Outside
<1>2. CASE gate' = [gate EXCEPT !.ver = @ + 1] /\ Breaks
  BY <1>1, <1>2, BehindMoved DEF DeskInv, DeskTypes
<1>3. CASE gate' = [gate EXCEPT !.on = ~@] /\ UNCHANGED <<permits, route, turn>>
  <2>1. DOMAIN gate' = {"on", "ver"} /\ gate'.ver = gate.ver
    BY <1>3 DEF DeskInv, DeskTypes
  <2>2. DeskTypes' /\ TurnOK' /\ RouteOK' /\ (\A op \in DeskOps : PermitOK(op)') /\ OneRole' /\ SentOK'
    BY <1>1, <1>3, <2>1 DEF DeskInv, DeskTypes, TurnOK, RouteOK, PermitOK, OneRole, SentOK
  <2> QED
    BY <1>1, <2>2, ChiefsStay DEF DeskInv
<1> QED
  BY <1>2, <1>3 DEF GatewayChanged

LEMMA SourceStep ==
  ASSUME DeskInv, NEW st, SourceChanged(st)
  PROVE  DeskInv'
BY BehindMoved DEF SourceChanged, Outside, DeskInv, DeskTypes

LEMMA ChiefStep ==
  ASSUME DeskInv, ChiefChanged
  PROVE  DeskInv'
<1>1. PICK id \in {0, 2} : chief' = [chief EXCEPT ![Senior]["execute_business"] = id]
  BY DEF ChiefChanged
<1>2. PICK new : new = [chief[Senior] EXCEPT !["execute_business"] = id]
  OBVIOUS
<1>3. /\ DOMAIN new = Actions_ /\ new["execute_business"] = id /\ new["read_business"] = 1
  BY <1>2, SeniorManages, OpsFacts DEF DeskInv, ChiefsKnown
<1>4. DOMAIN chief' = Chiefs /\ chief'[Senior] = new /\ \A m \in Chiefs \ {Senior} : chief'[m] = chief[m]
  BY <1>1, <1>2, SeniorManages DEF DeskInv, ChiefsKnown
<1>5. ChiefsKnown'
  BY <1>3, <1>4, SeniorManages DEF DeskInv, ChiefsKnown
<1>6. chief[Senior]["execute_business"] # 2
  BY DEF ChiefChanged
<1>7. /\ permits' = [op \in DeskOps |-> IF action_of(op) = "execute_business" /\ permits[op].live
                                       THEN [permits[op] EXCEPT !.broken = TRUE] ELSE permits[op]]
      /\ UNCHANGED <<shared, site, sent, gate, observed, group, route, turn>>
  BY DEF ChiefChanged, Outside
<1>8. /\ DOMAIN permits' = DeskOps /\ permits'["order_read"] = permits["order_read"]
      /\ permits'["order_create"] = IF permits["order_create"].live
                                    THEN [permits["order_create"] EXCEPT !.broken = TRUE] ELSE permits["order_create"]
  BY <1>7, OpsFacts
<1>9. /\ PermitRow(permits'["order_create"])
      /\ permits'["order_create"].live = permits["order_create"].live
      /\ permits'["order_create"].role = permits["order_create"].role
      /\ permits'["order_create"].ver = permits["order_create"].ver /\ permits'["order_create"].by = permits["order_create"].by
      /\ permits'["order_create"].id = permits["order_create"].id /\ permits'["order_create"].saw = permits["order_create"].saw
  BY <1>8, OpsFacts DEF DeskInv, DeskTypes, PermitFields, PermitRow
<1>10. DeskTypes'
  BY <1>7, <1>8, <1>9, OpsFacts DEF DeskInv, DeskTypes
<1>11. PermitOK("order_create")'
  <2>1. chief'[Senior]["execute_business"] = id
    BY <1>3, <1>4
  <2> QED
    BY <1>6, <1>7, <1>9, <2>1, OpsFacts DEF DeskInv, PermitOK
<1>12. PermitOK("order_read")'
  BY <1>7, <1>8, OpsFacts DEF DeskInv, PermitOK
<1>13. OneRole'
  <2>1. \A op \in DeskOps : permits'[op].live = permits[op].live /\ permits'[op].role = permits[op].role
    BY <1>8, <1>9, OpsFacts
  <2> QED
    BY <2>1 DEF DeskInv, OneRole
<1>14. TurnOK' /\ RouteOK' /\ SentOK'
  BY <1>7 DEF DeskInv, TurnOK, RouteOK, SentOK
<1> QED
  BY <1>5, <1>10, <1>11, <1>12, <1>13, <1>14, OpsFacts DEF DeskInv

LEMMA GroupStep ==
  ASSUME DeskInv, GroupChanged
  PROVE  DeskInv'
<1>1. UNCHANGED <<shared, site, sent, gate, observed, chief, permits, turn>>
  BY DEF GroupChanged, Outside
<1>2. \/ group' = [group EXCEPT !.bound = ~@] /\ UNCHANGED route
      \/ group' = [group EXCEPT !.ver = @ + 1] /\ route' = [route EXCEPT !.broken = route.set]
  BY DEF GroupChanged
<1>3. DeskTypes' /\ TurnOK' /\ (\A op \in DeskOps : PermitOK(op)') /\ OneRole' /\ SentOK'
  BY <1>1, <1>2 DEF DeskInv, DeskTypes, TurnOK, PermitOK, OneRole, SentOK
<1>4. RouteOK'
  BY <1>1, <1>2, RouteBreaks, RouteKept DEF DeskInv, DeskTypes
<1> QED
  BY <1>1, <1>3, <1>4, ChiefsStay DEF DeskInv

LEMMA DeskAtRest == DeskInv /\ UNCHANGED zvars => DeskInv'
BY DEF zvars, DeskInv, DeskTypes, ChiefsKnown, PermitOK, OneRole, TurnOK, RouteOK, SentOK

LEMMA DeskStep == DeskInv /\ DeskNext => DeskInv'
BY CommandStep, ConfigureStep, ResolveStep, GatewayStep, ChiefStep, GroupStep, SourceStep DEF DeskNext

LEMMA DeskSafe == DeskInv => DeskTrue
<1> SUFFICES ASSUME DeskInv PROVE DeskTrue
  OBVIOUS
<1>1. ASSUME NEW op \in business_context PROVE ~turn.broken /\ ~permits[op].broken
  <2>1. operation_for_actor_in(op) /\ op \in DeskOps
    BY DEF business_context
  <2>2. /\ turn.on /\ shared.gver = gate.ver /\ shared.sver = observed.ver
        /\ shared.ver = turn.ver /\ shared.sver = turn.sver /\ shared.gver = turn.gver
    BY <2>1 DEF operation_for_actor_in, verify_work_account, DeskValid
  <2>3. ~turn.broken
    BY <2>2 DEF DeskInv, DeskTypes, TurnOK
  <2>4. permits[op].live /\ chief[permits[op].by][action_of(op)] = permits[op].id
    BY <2>1 DEF operation_for_actor_in
  <2>5. ~permits[op].broken
    BY <2>1, <2>2, <2>4, OpsFacts DEF DeskInv, DeskTypes, PermitOK
  <2> QED
    BY <2>3, <2>5
<1>2. scope_communication_current => ~route.broken
  BY DEF scope_communication_current, validate_scope_communication_in, communication_basis, DeskValid, DeskInv, DeskTypes, RouteOK
<1>3. \A op \in DeskOps : permits[op].live =>
         /\ shared.active /\ site /\ permits[op].ver = shared.ver /\ permits[op].saw = shared.ver
         /\ \A o \in DeskOps : permits[o].live => permits[o].role = permits[op].role
  BY DEF DeskInv, PermitOK, OneRole
<1> QED
  BY <1>1, <1>2, <1>3 DEF DeskTrue


-----------------------------------------------------------------------------
(***************************************************************************)
(* The signals of a chat                                                   *)
(***************************************************************************)

SignalFields == {"id", "type", "status", "promo", "gap", "phase", "published", "retired", "wiped"}
AuditFields == {"id", "signal", "op", "old", "new"}

RowKnown(s) ==
    /\ DOMAIN s = SignalFields /\ s.id \in 1 .. made /\ s.phase \in Nat
    /\ s.retired \in BOOLEAN /\ s.wiped \in BOOLEAN /\ s.published \in BOOLEAN
    /\ s.retired => s.status = "closed"
    /\ <<s.id, s.phase>> \in past

AuditRow(a) ==
    /\ DOMAIN a = AuditFields /\ a.signal \in 0 .. made
    /\ a.signal = 0 <=> a = Erased
    /\ a.op = "phase" => a.new \in Nat

SignalsKnown ==
    /\ made \in Nat /\ DOMAIN signals = SignalKeys
    /\ \A k \in SignalKeys : signals[k] # NoSignal => RowKnown(signals[k])
    /\ \A k, j \in SignalKeys : signals[k] # NoSignal /\ signals[j] # NoSignal /\ signals[k].id = signals[j].id => k = j
    /\ \E S : audit \in Seq(S)
    /\ \A i \in DOMAIN audit : AuditRow(audit[i])

\* The chain of the audit rows of a field, and the value it ends in.
Linked(id, op) ==
    \A i, j \in Chain(id, op) : i < j =>
       /\ op \in {"gap", "phase"} /\ (\A n \in Chain(id, op) : n <= i \/ j <= n) => audit[j].old = audit[i].new
       /\ op = "phase" => audit[i].new <= audit[j].new
       /\ op = "status" /\ audit[i].new = "closed" => audit[j].new = "closed"
EndsIn(s, op) ==
    /\ ~(op = "status" /\ s.retired) /\ ~(op = "promo" /\ s.wiped) =>
          \A i \in Chain(s.id, op) : (\A j \in Chain(s.id, op) : j <= i) => s[op] = audit[i].new
    /\ \A i \in Chain(s.id, op) : /\ op = "phase" => audit[i].new <= s.phase
                                  /\ op = "status" /\ audit[i].new = "closed" => s.status = "closed"

ChainsInv ==
    \A op \in DOMAIN Values :
       /\ \A id \in 1 .. made : Linked(id, op)
       /\ \A k \in SignalKeys : signals[k] # NoSignal => EndsIn(signals[k], op)

RequestsInv == requests \subseteq past /\ picked \subseteq past
PastPairs == \A c \in past : c = <<c[1], c[2]>>
AuditOnce == \A i, j \in DOMAIN audit : audit[i] # Erased /\ audit[j] # Erased /\ audit[i].id = audit[j].id => i = j

ScansKnown ==
    /\ PastPairs /\ DOMAIN chat = DOMAIN Labels /\ DOMAIN scan = Extractors
    /\ \A e \in Extractors : DOMAIN scan[e] = {"pc", "keys", "todo"} /\ scan[e].todo \subseteq SignalKeys

SignalsInv == SignalsKnown /\ ChainsInv /\ RequestsInv /\ AuditOnce
SignalInv == ScansKnown /\ SignalsInv

\* What a sequence is, and what adding one more makes of it.
LEMMA SeqFacts ==
  ASSUME NEW q, \E S : q \in Seq(S)
  PROVE  Len(q) \in Nat /\ DOMAIN q = 1 .. Len(q)
OBVIOUS

LEMMA AppendFacts ==
  ASSUME NEW q, \E S : q \in Seq(S), NEW e
  PROVE  /\ \E S : Append(q, e) \in Seq(S)
         /\ Len(Append(q, e)) = Len(q) + 1 /\ Append(q, e)[Len(q) + 1] = e
         /\ \A i \in 1 .. Len(q) : Append(q, e)[i] = q[i]
<1>1. PICK S : q \in Seq(S)
  OBVIOUS
<1>2. q \in Seq(S \cup {e})
  BY <1>1
<1> QED
  BY <1>2

LEMMA MappedFacts ==
  ASSUME NEW q, NEW n \in Nat, DOMAIN q = 1 .. n, q = [i \in 1 .. n |-> q[i]]
  PROVE  (\E S : q \in Seq(S)) /\ Len(q) = n
<1>1. q \in [1 .. n -> {q[i] : i \in 1 .. n}]
  OBVIOUS
<1>2. q \in Seq({q[i] : i \in 1 .. n})
  BY <1>1
<1>3. Len(q) = n
  BY <1>1, <1>2
<1> QED
  BY <1>2, <1>3, Zenon

LEMMA SignalsInitInv == SignalsInit => SignalsInv
<1> SUFFICES ASSUME SignalsInit PROVE SignalsInv
  OBVIOUS
<1>1. \A k \in SignalKeys : signals[k] = NoSignal
  BY DEF SignalsInit
<1>2. audit = <<>> /\ DOMAIN audit = {} /\ Len(audit) = 0
  BY DEF SignalsInit
<1>3. SignalsKnown
  <2>1. audit \in Seq({})
    BY <1>2
  <2> QED
    BY <1>1, <1>2, <2>1 DEF SignalsInit, SignalsKnown
<1>4. ChainsInv
  BY <1>1, <1>2 DEF ChainsInv, Linked, Chain
<1> QED
  BY <1>2, <1>3, <1>4 DEF SignalsInit, SignalsInv, RequestsInv, AuditOnce

\* Rows are made, rewritten, published or retired, and the audit is as before.
LEMMA RowsChange ==
  ASSUME SignalsInv, UNCHANGED audit, DOMAIN signals' = SignalKeys, made' \in Nat, made <= made', past \subseteq past',
         requests' \subseteq past', picked' \subseteq past',
         \A k \in SignalKeys : signals'[k] # NoSignal =>
            /\ RowKnown(signals[k])'
            /\ \/ signals[k] = NoSignal /\ signals'[k].id = made' /\ made < made'
                  /\ \A j \in SignalKeys \ {k} : signals'[j] = signals[j]
               \/ /\ signals[k] # NoSignal /\ signals'[k].id = signals[k].id
                  /\ signals'[k].phase = signals[k].phase /\ signals'[k].gap = signals[k].gap
                  /\ signals'[k].status = signals[k].status \/ signals'[k].retired
                  /\ signals[k].retired => signals'[k].retired
                  /\ signals'[k].promo = signals[k].promo \/ signals'[k].wiped
                  /\ signals[k].wiped => signals'[k].wiped
  PROVE  SignalsInv'
<1>1. \A i \in DOMAIN audit : AuditRow(audit[i])'
  BY DEF SignalsInv, SignalsKnown, AuditRow, Erased
<1>2. \A k \in SignalKeys : signals[k] # NoSignal => signals[k].id \in 1 .. made
  BY DEF SignalsInv, SignalsKnown, RowKnown
<1>3. \A k, j \in SignalKeys : signals'[k] # NoSignal /\ signals'[j] # NoSignal /\ signals'[k].id = signals'[j].id => k = j
  BY <1>2 DEF SignalsInv, SignalsKnown
<1>4. SignalsKnown'
  BY <1>1, <1>3 DEF SignalsInv, SignalsKnown
<1>5. \A id, op : Chain(id, op)' = Chain(id, op)
  BY DEF Chain
<1>6. ASSUME NEW op \in DOMAIN Values, NEW id \in 1 .. made' PROVE Linked(id, op)'
  <2>1. CASE id \in 1 .. made
    BY <1>5, <2>1 DEF SignalsInv, ChainsInv, Linked
  <2>2. CASE id \notin 1 .. made
    <3>1. Chain(id, op) = {}
      BY <2>2 DEF SignalsInv, SignalsKnown, AuditRow, Chain
    <3> QED
      BY <1>5, <3>1 DEF Linked
  <2> QED
    BY <2>1, <2>2
<1>7. ASSUME NEW op \in DOMAIN Values, NEW k \in SignalKeys, signals'[k] # NoSignal PROVE EndsIn(signals[k], op)'
  <2>1. CASE signals[k] = NoSignal
    <3>1. Chain(signals'[k].id, op) = {}
      BY <1>7, <2>1 DEF SignalsInv, SignalsKnown, AuditRow, Chain
    <3> QED
      BY <1>5, <3>1 DEF EndsIn
  <2>2. CASE signals[k] # NoSignal
    <3>1. EndsIn(signals[k], op)
      BY <2>2 DEF SignalsInv, ChainsInv
    <3>2. op \in {"status", "phase", "gap", "promo"}
      BY DEF Values
    <3>3. /\ signals'[k].retired \in BOOLEAN /\ signals'[k].wiped \in BOOLEAN /\ signals'[k].id = signals[k].id
          /\ signals'[k].retired => signals'[k].status = "closed"
      BY <1>7, <2>2 DEF RowKnown
    <3>4. CASE op = "status"
      <4>1. ~signals'[k].retired => ~signals[k].retired /\ signals'[k].status = signals[k].status
        BY <1>7, <2>2, <3>3
      <4>2. signals[k].status = "closed" => signals'[k].status = "closed"
        BY <1>7, <2>2, <3>3
      <4>3. \A i \in Chain(signals[k].id, op) :
               /\ ~signals[k].retired /\ (\A j \in Chain(signals[k].id, op) : j <= i) => signals[k].status = audit[i].new
               /\ audit[i].new = "closed" => signals[k].status = "closed"
        BY <3>1, <3>4 DEF EndsIn
      <4> QED
        BY <1>5, <3>3, <3>4, <4>1, <4>2, <4>3 DEF EndsIn
    <3>5. CASE op = "phase"
      BY <1>5, <1>7, <2>2, <3>1, <3>3, <3>5 DEF EndsIn
    <3>6. CASE op = "gap"
      BY <1>5, <1>7, <2>2, <3>1, <3>3, <3>6 DEF EndsIn
    <3>7. CASE op = "promo"
      BY <1>5, <1>7, <2>2, <3>1, <3>3, <3>7 DEF EndsIn
    <3> QED
      BY <3>2, <3>4, <3>5, <3>6, <3>7
  <2> QED
    BY <2>1, <2>2
<1>8. ChainsInv'
  BY <1>6, <1>7 DEF ChainsInv
<1> QED
  BY <1>4, <1>8 DEF SignalsInv, RequestsInv, AuditOnce

LEMMA FreshStep ==
  ASSUME SignalsInv, NEW e, NEW k \in SignalKeys, signals[k] = NoSignal, made' = made + 1,
         signals' = [signals EXCEPT ![k] = FreshSignal(k)],
         past' = past \cup {<<made', initial_phase_for_signal(TypeOf(k))>>},
         UNCHANGED <<audit, requests, picked>>
  PROVE  SignalsInv'
<1>1. PICK new : new = FreshSignal(k)
  OBVIOUS
<1>2. /\ DOMAIN new = SignalFields /\ new.id = made + 1 /\ new.status = "open" /\ new.published = FALSE /\ new.retired = FALSE
      /\ new.wiped = FALSE /\ new.phase = initial_phase_for_signal(TypeOf(k))
  BY <1>1 DEF FreshSignal, SignalFields
<1>3. new.phase \in Nat
  BY <1>2 DEF initial_phase_for_signal
<1>4. /\ DOMAIN signals' = SignalKeys /\ signals'[k] = new
      /\ \A j \in SignalKeys \ {k} : signals'[j] = signals[j]
  BY <1>1 DEF SignalsInv, SignalsKnown
<1>5. made \in Nat
  BY DEF SignalsInv, SignalsKnown
<1>6. RowKnown(signals[k])'
  <2>1. <<new.id, new.phase>> \in past'
    BY <1>2
  <2>2. new.retired \in BOOLEAN /\ new.wiped \in BOOLEAN /\ new.published \in BOOLEAN
    BY <1>2
  <2>3. new.id \in 1 .. made'
    BY <1>2, <1>5
  <2> QED
    BY <1>2, <1>3, <1>4, <2>1, <2>2, <2>3 DEF RowKnown
<1>7. ASSUME NEW j \in SignalKeys, j # k, signals'[j] # NoSignal PROVE RowKnown(signals[j])'
  BY <1>4, <1>5, <1>7 DEF SignalsInv, SignalsKnown, RowKnown
<1>8. requests' \subseteq past' /\ picked' \subseteq past'
  BY DEF SignalsInv, RequestsInv
<1> QED
  BY <1>2, <1>4, <1>5, <1>6, <1>7, <1>8, RowsChange

\* One row changes, and neither what it is nor what its fields are.
LEMMA OneSignal ==
  ASSUME SignalsInv, NEW k \in SignalKeys, signals[k] # NoSignal, NEW new, signals' = [signals EXCEPT ![k] = new],
         UNCHANGED <<made, audit, past>>, requests' \subseteq past, picked' \subseteq past,
         RowKnown(new), new.id = signals[k].id, new.phase = signals[k].phase, new.gap = signals[k].gap,
         new.status = signals[k].status \/ new.retired, signals[k].retired => new.retired,
         new.promo = signals[k].promo \/ new.wiped, signals[k].wiped => new.wiped
  PROVE  SignalsInv'
<1>1. /\ DOMAIN signals' = SignalKeys /\ signals'[k] = new
      /\ \A j \in SignalKeys \ {k} : signals'[j] = signals[j]
  BY DEF SignalsInv, SignalsKnown
<1>2. ASSUME NEW j \in SignalKeys, signals'[j] # NoSignal PROVE RowKnown(signals[j])'
  BY <1>1, <1>2 DEF SignalsInv, SignalsKnown, RowKnown
<1>3. made \in Nat
  BY DEF SignalsInv, SignalsKnown
<1> QED
  BY <1>1, <1>2, <1>3, RowsChange

LEMMA SignalsUnchanged ==
  ASSUME SignalsInv, UNCHANGED <<signals, made, past, audit, requests, picked>>
  PROVE  SignalsInv'
BY DEF SignalsInv, SignalsKnown, RowKnown, AuditRow, ChainsInv, Linked, EndsIn, Chain, RequestsInv, AuditOnce

LEMMA UpsertStep ==
  ASSUME ScansKnown, SignalsInv, NEW e \in Extractors, upsert_events(e)
  PROVE  SignalsInv'
<1>1. UNCHANGED <<chat, audit, requests, picked>>
  BY DEF upsert_events
<1>2. CASE UNCHANGED <<signals, made, past>>
  BY <1>1, <1>2, SignalsUnchanged
<1>3. ASSUME NEW k \in scan[e].todo, signals[k] = NoSignal, made' = made + 1,
             signals' = [signals EXCEPT ![k] = FreshSignal(k)],
             past' = past \cup {<<made', initial_phase_for_signal(TypeOf(k))>>}
      PROVE  SignalsInv'
  BY <1>1, <1>3, FreshStep DEF ScansKnown
<1>4. ASSUME NEW k \in scan[e].todo, signals[k] # NoSignal,
             signals' = [signals EXCEPT ![k] = Rewritten(k)], UNCHANGED <<made, past>>
      PROVE  SignalsInv'
  <2>1. k \in SignalKeys /\ RowKnown(signals[k])
    BY <1>4 DEF ScansKnown, SignalsInv, SignalsKnown
  <2>2. PICK new : new = [signals[k] EXCEPT !.promo = "none", !.wiped = (signals[k].wiped \/ signals[k].promo # "none")]
    OBVIOUS
  <2>3. signals' = [signals EXCEPT ![k] = new]
    BY <1>4, <2>1, <2>2 DEF Rewritten, RowKnown, SignalFields
  <2>4. /\ DOMAIN new = SignalFields /\ new.promo = "none" /\ new.wiped = (signals[k].wiped \/ signals[k].promo # "none")
        /\ new.id = signals[k].id /\ new.phase = signals[k].phase /\ new.gap = signals[k].gap /\ new.status = signals[k].status
        /\ new.retired = signals[k].retired /\ new.published = signals[k].published
    BY <2>1, <2>2 DEF RowKnown, SignalFields
  <2>5. RowKnown(new)
    BY <2>1, <2>4 DEF RowKnown
  <2>6. new.promo = signals[k].promo \/ new.wiped
    BY <2>4
  <2>7. requests' \subseteq past /\ picked' \subseteq past
    BY <1>1 DEF SignalsInv, RequestsInv
  <2> QED
    BY <1>1, <1>4, <2>1, <2>3, <2>4, <2>5, <2>6, <2>7, OneSignal
<1> QED
  BY <1>1, <1>2, <1>3, <1>4 DEF upsert_events

LEMMA CloseStep ==
  ASSUME SignalsInv, NEW e, close_stale_events(e)
  PROVE  SignalsInv'
<1>0. UNCHANGED <<chat, made, audit, requests, picked, past>>
  BY DEF close_stale_events
<1>1. signals' = [k \in SignalKeys |-> IF k \in Unsupported(e) /\ signals[k].published
                       THEN [signals[k] EXCEPT !.status = "closed", !.retired = TRUE] ELSE signals[k]]
  BY DEF close_stale_events
<1>2. ASSUME NEW k \in SignalKeys, signals'[k] # NoSignal
      PROVE  /\ RowKnown(signals[k])' /\ signals[k] # NoSignal /\ signals'[k].id = signals[k].id
             /\ signals'[k].phase = signals[k].phase /\ signals'[k].gap = signals[k].gap
             /\ signals'[k].status = signals[k].status \/ signals'[k].retired
             /\ signals[k].retired => signals'[k].retired
             /\ signals'[k].promo = signals[k].promo
             /\ signals[k].wiped => signals'[k].wiped
  <2>1. CASE k \in Unsupported(e) /\ signals[k].published
    <3>1. signals[k] # NoSignal /\ RowKnown(signals[k])
      BY <2>1 DEF Unsupported, SignalsInv, SignalsKnown
    <3>2. signals'[k] = [signals[k] EXCEPT !.status = "closed", !.retired = TRUE]
      BY <1>1, <2>1
    <3> QED
      BY <1>0, <3>1, <3>2 DEF RowKnown, SignalFields
  <2>2. CASE ~(k \in Unsupported(e) /\ signals[k].published)
    <3>1. signals'[k] = signals[k]
      BY <1>1, <2>2
    <3>2. RowKnown(signals[k])
      BY <1>2, <3>1 DEF SignalsInv, SignalsKnown
    <3>3. RowKnown(signals[k])'
      BY <1>0, <3>1, <3>2 DEF RowKnown
    <3> QED
      BY <1>2, <3>1, <3>3
  <2> QED
    BY <2>1, <2>2
<1>3. made \in Nat /\ requests \subseteq past /\ picked \subseteq past
  BY DEF SignalsInv, SignalsKnown, RequestsInv
<1>4. /\ made' = made /\ past' = past /\ audit' = audit
      /\ requests' \subseteq past' /\ picked' \subseteq past' /\ made <= made'
  BY <1>0, <1>3
<1>5. DOMAIN signals' = SignalKeys
  BY <1>1
<1> QED
  BY <1>2, <1>3, <1>4, <1>5, RowsChange

LEMMA PublishStep_ ==
  ASSUME SignalsInv, NEW k \in SignalKeys, PublishDigest(k)
  PROVE  SignalsInv'
<1>1. /\ signals[k] # NoSignal /\ RowKnown(signals[k]) /\ UNCHANGED <<made, audit, past, requests, picked>>
      /\ signals' = [signals EXCEPT ![k].published = TRUE]
  BY DEF PublishDigest, SignalsInv, SignalsKnown
<1>2. PICK new : new = [signals[k] EXCEPT !.published = TRUE]
  OBVIOUS
<1>3. signals' = [signals EXCEPT ![k] = new]
  BY <1>1, <1>2
<1>4. /\ RowKnown(new) /\ new.id = signals[k].id /\ new.phase = signals[k].phase /\ new.gap = signals[k].gap
      /\ new.status = signals[k].status /\ new.retired = signals[k].retired /\ new.promo = signals[k].promo
      /\ new.wiped = signals[k].wiped
  BY <1>1, <1>2 DEF RowKnown, SignalFields
<1>5. requests' \subseteq past /\ picked' \subseteq past
  BY <1>1 DEF SignalsInv, RequestsInv
<1> QED
  BY <1>1, <1>3, <1>4, <1>5, OneSignal

\* Deleted rows take their audit with them.
LEMMA DeleteStep ==
  ASSUME SignalsInv, NEW e, delete_stale_events(e)
  PROVE  SignalsInv'
<1>1. PICK gone : gone = {k \in Unsupported(e) : ~signals[k].published}
  OBVIOUS
<1>2. /\ UNCHANGED <<chat, made, requests, picked, past>>
      /\ signals' = [k \in SignalKeys |-> IF k \in gone THEN NoSignal ELSE signals[k]]
      /\ audit' = [i \in DOMAIN audit |-> IF \E k \in gone : audit[i].signal = signals[k].id THEN Erased ELSE audit[i]]
  BY <1>1 DEF delete_stale_events
<1>3. /\ DOMAIN signals' = SignalKeys /\ \A k \in SignalKeys : signals'[k] # NoSignal => k \notin gone /\ signals'[k] = signals[k]
  BY <1>2
<1>4. DOMAIN audit' = DOMAIN audit /\ Len(audit') = Len(audit) /\ \E S : audit' \in Seq(S)
  <2>1. Len(audit) \in Nat /\ DOMAIN audit = 1 .. Len(audit)
    BY SeqFacts DEF SignalsInv, SignalsKnown
  <2>2. DOMAIN audit' = 1 .. Len(audit) /\ audit' = [i \in 1 .. Len(audit) |-> audit'[i]]
    BY <1>2, <2>1
  <2> QED
    BY <2>1, <2>2, MappedFacts
<1>5. ASSUME NEW i \in DOMAIN audit PROVE audit'[i] = Erased \/ (audit'[i] = audit[i] /\ \A k \in gone : audit[i].signal # signals[k].id)
  BY <1>2
<1>6. AuditRow(Erased) /\ Erased.signal = 0
  BY DEF Erased, AuditRow, AuditFields, SignalsInv, SignalsKnown
<1>7. \A i \in DOMAIN audit : AuditRow(audit[i])'
  BY <1>2, <1>4, <1>5, <1>6 DEF SignalsInv, SignalsKnown, AuditRow
<1>8. SignalsKnown'
  BY <1>2, <1>3, <1>4, <1>7 DEF SignalsInv, SignalsKnown, RowKnown
<1>9. ASSUME NEW id \in 1 .. made, NEW op
      PROVE  \/ Chain(id, op)' = {}
             \/ /\ Chain(id, op)' = Chain(id, op) /\ \A k \in gone : signals[k].id # id
                /\ \A i \in Chain(id, op) : audit'[i] = audit[i]
  <2>1. CASE \E k \in gone : signals[k].id = id
    BY <1>4, <1>5, <1>6, <2>1 DEF Chain
  <2>2. CASE \A k \in gone : signals[k].id # id
    <3>1. \A i \in DOMAIN audit : audit[i].signal = id => audit'[i] = audit[i]
      BY <1>2, <2>2
    <3>2. \A i \in DOMAIN audit : audit'[i].signal = id => audit'[i] = audit[i]
      BY <1>5, <1>6
    <3> QED
      BY <1>4, <2>2, <3>1, <3>2 DEF Chain
  <2> QED
    BY <2>1, <2>2
<1>10. ASSUME NEW op \in DOMAIN Values, NEW id \in 1 .. made PROVE Linked(id, op)'
  BY <1>9 DEF SignalsInv, ChainsInv, Linked
<1>11. ASSUME NEW op \in DOMAIN Values, NEW k \in SignalKeys, signals'[k] # NoSignal PROVE EndsIn(signals[k], op)'
  <2>1. signals'[k] = signals[k] /\ signals[k] # NoSignal /\ signals[k].id \in 1 .. made /\ EndsIn(signals[k], op)
    BY <1>3, <1>11 DEF SignalsInv, SignalsKnown, RowKnown, ChainsInv
  <2> QED
    BY <1>9, <2>1 DEF EndsIn
<1>12. ChainsInv'
  BY <1>2, <1>10, <1>11 DEF ChainsInv
<1>13. AuditOnce'
  BY <1>4, <1>5 DEF SignalsInv, AuditOnce
<1> QED
  BY <1>2, <1>8, <1>12, <1>13 DEF SignalsInv, RequestsInv

\* The old value of a new row is the last one the chain had.
LEMMA MutationStep ==
  ASSUME SignalsInv, NEW id, NEW k \in SignalKeys, NEW op \in DOMAIN Values, NEW val \in Values[op],
         apply_event_signal_mutation(id, k, op, val)
  PROVE  SignalsInv'
<1>1. PICK row : row = [id |-> id, signal |-> signals[k].id, op |-> op, old |-> Current(signals[k], op), new |-> val]
  OBVIOUS
<1>2. PICK s : s = Updated(signals[k], op, val)
  OBVIOUS
<1>3. /\ signals[k] # NoSignal /\ ~replayed(id) /\ transition_allowed(signals[k], op, val)
      /\ signals' = [signals EXCEPT ![k] = s] /\ audit' = Append(audit, row)
      /\ UNCHANGED <<chat, made, scan, requests, picked>>
  BY <1>1, <1>2 DEF apply_event_signal_mutation
<1>4. past' = past \cup {<<signals'[k].id, signals'[k].phase>>}
  BY DEF apply_event_signal_mutation
<1>5. /\ DOMAIN row = AuditFields /\ row.id = id /\ row.signal = signals[k].id /\ row.op = op
      /\ row.old = signals[k][op] /\ row.new = val
  BY <1>1 DEF AuditFields, Current
<1>6. /\ op \in {"status", "phase", "gap", "promo"} /\ (op = "phase" => val \in Nat)
      /\ op = "status" => val \in {"open", "doing", "closed"}
  BY DEF Values
<1>7. RowKnown(signals[k]) /\ made \in Nat
  BY <1>3 DEF SignalsInv, SignalsKnown
\* What becomes of the row.
<1>8. /\ DOMAIN s = SignalFields /\ s.id = signals[k].id /\ s[op] = val /\ s.published = signals[k].published
      /\ \A o \in {"status", "phase", "gap", "promo"} \ {op} : s[o] = signals[k][o]
      /\ s.retired \in BOOLEAN /\ s.wiped \in BOOLEAN
      /\ s.retired => signals[k].retired /\ s.status = "closed"
      /\ op # "status" => s.retired = signals[k].retired
      /\ op # "promo" => s.wiped = signals[k].wiped
  <2>1. CASE op = "status"
    BY <1>2, <1>7, <2>1 DEF Updated, RowKnown, SignalFields
  <2>2. CASE op = "phase"
    BY <1>2, <1>7, <2>2 DEF Updated, RowKnown, SignalFields
  <2>3. CASE op = "gap"
    BY <1>2, <1>7, <2>3 DEF Updated, RowKnown, SignalFields
  <2>4. CASE op = "promo"
    BY <1>2, <1>7, <2>4 DEF Updated, RowKnown, SignalFields
  <2> QED
    BY <1>6, <2>1, <2>2, <2>3, <2>4
<1>9. /\ DOMAIN signals' = SignalKeys /\ signals'[k] = s
      /\ \A j \in SignalKeys \ {k} : signals'[j] = signals[j]
  BY <1>3 DEF SignalsInv, SignalsKnown
<1>10. /\ Len(audit') = Len(audit) + 1 /\ DOMAIN audit' = 1 .. Len(audit') /\ audit'[Len(audit')] = row
       /\ \A i \in DOMAIN audit : audit'[i] = audit[i] /\ i < Len(audit')
       /\ DOMAIN audit = 1 .. Len(audit) /\ Len(audit) \in Nat
  <2>1. Len(audit) \in Nat /\ DOMAIN audit = 1 .. Len(audit)
    BY SeqFacts DEF SignalsInv, SignalsKnown
  <2>2. /\ \E S : Append(audit, row) \in Seq(S)
        /\ Len(Append(audit, row)) = Len(audit) + 1 /\ Append(audit, row)[Len(audit) + 1] = row
        /\ \A i \in 1 .. Len(audit) : Append(audit, row)[i] = audit[i]
    <3>1. \E S : audit \in Seq(S)
      BY DEF SignalsInv, SignalsKnown
    <3>2. PICK S : audit \in Seq(S)
      BY <3>1
    <3>3. audit \in Seq(S \cup {row})
      BY <3>2
    <3> QED
      BY <3>3
  <2>3. DOMAIN audit' = 1 .. Len(audit')
    BY <1>3, <2>2, SeqFacts
  <2>4. audit' = Append(audit, row)
    BY <1>3
  <2>5. Len(audit') = Len(audit) + 1 /\ audit'[Len(audit')] = row
    BY <2>2, <2>4
  <2>6. ASSUME NEW i \in DOMAIN audit PROVE audit'[i] = audit[i] /\ i < Len(audit')
    <3>1. i \in 1 .. Len(audit)
      BY <2>1
    <3>2. audit'[i] = audit[i]
      BY <2>2, <2>4, <3>1
    <3>3. i < Len(audit')
      BY <2>1, <2>5, <3>1
    <3> QED
      BY <3>2, <3>3
  <2> QED
    BY <2>1, <2>3, <2>5, <2>6
<1>11. /\ past \subseteq past' /\ <<s.id, s.phase>> \in past'
  BY <1>4, <1>9
<1>12. s.phase \in Nat
  BY <1>6, <1>7, <1>8 DEF RowKnown
<1>13. RowKnown(signals[k])'
  BY <1>3, <1>7, <1>8, <1>9, <1>11, <1>12 DEF RowKnown
<1>14. ASSUME NEW j \in SignalKeys, j # k, signals'[j] # NoSignal PROVE RowKnown(signals[j])'
  BY <1>3, <1>9, <1>11, <1>14 DEF SignalsInv, SignalsKnown, RowKnown
<1>15. row.signal # 0 /\ AuditRow(row) /\ row # Erased
  <2>1. row.signal # 0 /\ row.signal \in 0 .. made
    BY <1>5, <1>7 DEF RowKnown
  <2>2. row # Erased
    BY <2>1 DEF Erased
  <2> QED
    BY <1>5, <1>6, <2>1, <2>2 DEF AuditRow
<1>16. \A i \in DOMAIN audit' : AuditRow(audit[i])'
  <2>1. ASSUME NEW i \in DOMAIN audit' PROVE AuditRow(audit'[i])
    <3>1. CASE i = Len(audit')
      BY <1>10, <1>15, <3>1
    <3>2. CASE i # Len(audit')
      <4>1. i \in DOMAIN audit
        BY <1>10, <3>2
      <4> QED
        BY <1>10, <4>1 DEF SignalsInv, SignalsKnown
    <3> QED
      BY <3>1, <3>2
  <2> QED
    BY <1>3, <2>1 DEF AuditRow
<1>17. \E S : audit' \in Seq(S)
  BY <1>3, AppendFacts DEF SignalsInv, SignalsKnown
<1>18. \A j, i \in SignalKeys : signals'[j] # NoSignal /\ signals'[i] # NoSignal /\ signals'[j].id = signals'[i].id => j = i
  BY <1>3, <1>8, <1>9 DEF SignalsInv, SignalsKnown
<1>19. SignalsKnown'
  BY <1>3, <1>7, <1>9, <1>13, <1>14, <1>16, <1>17, <1>18 DEF SignalsKnown
<1>20. PICK last : last = Len(audit')
  OBVIOUS
<1>21. last \in Nat /\ \A i \in DOMAIN audit : i \in Nat /\ i < last /\ audit'[i] = audit[i]
  BY <1>10, <1>20
<1>22. ASSUME NEW n, NEW o
       PROVE  /\ Chain(n, o)' = IF n = signals[k].id /\ o = op THEN Chain(n, o) \cup {last} ELSE Chain(n, o)
              /\ \A i \in Chain(n, o) : i \in Nat /\ i < last /\ audit'[i] = audit[i]
  <2>1. DOMAIN audit' = DOMAIN audit \cup {last} /\ audit'[last] = row
    BY <1>10, <1>20
  <2> QED
    BY <1>5, <1>21, <2>1 DEF Chain
<1>23. audit'[last].old = signals[k][op] /\ audit'[last].new = val
  BY <1>5, <1>10, <1>20
<1>24. EndsIn(signals[k], op) /\ Linked(signals[k].id, op)
  BY <1>3, <1>7 DEF SignalsInv, ChainsInv, RowKnown
<1>25. /\ op = "phase" => signals[k].phase <= val
       /\ op = "status" /\ signals[k].status = "closed" => val = "closed"
  BY <1>3 DEF transition_allowed, can_transition_to, validate_status_transition
<1>26. ASSUME NEW i \in Chain(signals[k].id, op)
       PROVE  /\ op \in {"gap", "phase"} /\ (\A n \in Chain(signals[k].id, op) : n <= i) => signals[k][op] = audit[i].new
              /\ op = "phase" => audit[i].new \in Nat /\ audit[i].new <= val
              /\ op = "status" /\ audit[i].new = "closed" => val = "closed"
  <2>1. /\ op \in {"gap", "phase"} /\ (\A n \in Chain(signals[k].id, op) : n <= i) => signals[k][op] = audit[i].new
        /\ op = "phase" => audit[i].new <= signals[k].phase
        /\ op = "status" /\ audit[i].new = "closed" => signals[k].status = "closed"
    BY <1>24 DEF EndsIn
  <2>2. op = "phase" => audit[i].new \in Nat
    BY DEF SignalsInv, SignalsKnown, Chain, AuditRow
  <2>3. signals[k].phase \in Nat
    BY <1>7 DEF RowKnown
  <2> QED
    BY <1>6, <1>25, <2>1, <2>2, <2>3
<1>27. ASSUME NEW n, n = signals[k].id PROVE Linked(n, op)'
  <2>1. Chain(n, op)' = Chain(n, op) \cup {last} /\ \A i \in Chain(n, op) : i \in Nat /\ i < last /\ audit'[i] = audit[i]
    BY <1>22, <1>27
  <2>2. ASSUME NEW i \in Chain(n, op) \cup {last}, NEW j \in Chain(n, op) \cup {last}, i < j
        PROVE  /\ op \in {"gap", "phase"} /\ (\A m \in Chain(n, op) \cup {last} : m <= i \/ j <= m)
                     => audit'[j].old = audit'[i].new
               /\ op = "phase" => audit'[i].new <= audit'[j].new
               /\ op = "status" /\ audit'[i].new = "closed" => audit'[j].new = "closed"
    <3>1. i \in Chain(n, op) /\ audit'[i] = audit[i]
      BY <1>21, <2>1, <2>2
    <3>2. CASE j = last
      <4>1. (\A m \in Chain(n, op) \cup {last} : m <= i \/ j <= m) => \A m \in Chain(n, op) : m <= i
        <5>1. ASSUME NEW m \in Chain(n, op), m <= i \/ j <= m PROVE m <= i
          BY <1>21, <2>1, <3>2, <5>1
        <5> QED
          BY <5>1
      <4>2. /\ op \in {"gap", "phase"} /\ (\A m \in Chain(n, op) : m <= i) => signals[k][op] = audit[i].new
            /\ op = "phase" => audit[i].new <= val
            /\ op = "status" /\ audit[i].new = "closed" => val = "closed"
        BY <1>26, <1>27, <3>1
      <4> QED
        BY <1>23, <3>1, <3>2, <4>1, <4>2
    <3>3. CASE j # last
      <4>1. j \in Chain(n, op) /\ audit'[j] = audit[j] /\ last \in Chain(n, op) \cup {last}
        BY <2>1, <3>3, <2>2
      <4> QED
        BY <1>24, <1>27, <2>2, <3>1, <4>1 DEF Linked
    <3> QED
      BY <3>2, <3>3
  <2> QED
    BY <2>1, <2>2 DEF Linked
<1>28. ASSUME NEW n \in 1 .. made, NEW o \in DOMAIN Values, n # signals[k].id \/ o # op PROVE Linked(n, o)'
  <2>1. Chain(n, o)' = Chain(n, o) /\ \A i \in Chain(n, o) : audit'[i] = audit[i]
    BY <1>22, <1>28
  <2>2. Linked(n, o)
    BY DEF SignalsInv, ChainsInv
  <2> QED
    BY <2>1, <2>2 DEF Linked
<1>29. \A n \in 1 .. made, o \in DOMAIN Values : Linked(n, o)'
  BY <1>27, <1>28
<1>30. EndsIn(signals[k], op)'
  <2>1. s.id = signals[k].id /\ s[op] = val /\ Chain(s.id, op)' = Chain(s.id, op) \cup {last} /\ last \in Nat
    BY <1>8, <1>21, <1>22
  <2>2. ASSUME NEW i \in Chain(s.id, op), \A j \in Chain(s.id, op) \cup {last} : j <= i PROVE FALSE
    BY <1>21, <1>22, <2>2
  <2>3. ASSUME NEW i \in Chain(s.id, op) \cup {last}
        PROVE  /\ op = "phase" => audit'[i].new <= s.phase
               /\ op = "status" /\ audit'[i].new = "closed" => s.status = "closed"
    <3>1. CASE i = last
      BY <1>6, <1>23, <2>1, <3>1
    <3>2. CASE i # last
      <4>1. i \in Chain(signals[k].id, op) /\ audit'[i] = audit[i]
        BY <1>8, <1>22, <2>3, <3>2
      <4> QED
        BY <1>26, <2>1, <4>1
    <3> QED
      BY <3>1, <3>2
  <2> QED
    BY <1>9, <1>23, <2>1, <2>2, <2>3 DEF EndsIn
<1>31. ASSUME NEW o \in DOMAIN Values, o # op PROVE EndsIn(signals[k], o)'
  <2>1. EndsIn(signals[k], o)
    BY <1>3 DEF SignalsInv, ChainsInv
  <2>2. /\ s.id = signals[k].id /\ Chain(s.id, o)' = Chain(s.id, o) /\ s[o] = signals[k][o]
        /\ \A i \in Chain(s.id, o) : audit'[i] = audit[i]
    BY <1>8, <1>22, <1>31 DEF Values
  <2>3. /\ o = "status" => s.retired = signals[k].retired /\ s.status = signals[k].status
        /\ o = "promo" => s.wiped = signals[k].wiped
        /\ o = "phase" => s.phase = signals[k].phase
    BY <1>8, <1>31, <1>6
  <2> QED
    BY <1>9, <2>1, <2>2, <2>3 DEF EndsIn
<1>32. ASSUME NEW j \in SignalKeys, j # k, signals'[j] # NoSignal, NEW o \in DOMAIN Values PROVE EndsIn(signals[j], o)'
  <2>1. signals'[j] = signals[j] /\ signals[j].id # signals[k].id /\ EndsIn(signals[j], o)
    BY <1>3, <1>9, <1>32 DEF SignalsInv, SignalsKnown, ChainsInv
  <2>2. Chain(signals[j].id, o)' = Chain(signals[j].id, o) /\ \A i \in Chain(signals[j].id, o) : audit'[i] = audit[i]
    BY <1>22, <2>1
  <2> QED
    BY <2>1, <2>2 DEF EndsIn
<1>33. ChainsInv'
  BY <1>3, <1>29, <1>30, <1>31, <1>32 DEF ChainsInv
<1>34. AuditOnce'
  <2>1. \A i \in DOMAIN audit : audit[i] # Erased => audit[i].id # id
    BY <1>3 DEF replayed
  <2>2. \A i \in DOMAIN audit' : i = last \/ i \in DOMAIN audit
    BY <1>10, <1>20
  <2>3. audit'[last].id = id
    BY <1>5, <1>10, <1>20
  <2> QED
    BY <1>21, <2>1, <2>2, <2>3 DEF SignalsInv, AuditOnce
<1> QED
  BY <1>3, <1>11, <1>19, <1>33, <1>34 DEF SignalsInv, RequestsInv

\* Requests are for what was read, which was true when it was.
LEMMA CandidatesWere ==
  ASSUME SignalsInv
  PROVE  load_signal_ingest_candidates \subseteq past
BY DEF SignalsInv, SignalsKnown, RowKnown, load_signal_ingest_candidates

LEMMA RequestsStep ==
  ASSUME SignalsInv, UNCHANGED <<signals, made, audit, past>>, requests' \subseteq past, picked' \subseteq past
  PROVE  SignalsInv'
BY DEF SignalsInv, SignalsKnown, RowKnown, AuditRow, ChainsInv, Linked, EndsIn, Chain, RequestsInv, AuditOnce

LEMMA SubmitStep ==
  ASSUME PastPairs, SignalsInv, run_signal_worker_batch \/ SubmitCandidate
  PROVE  SignalsInv'
<1>1. requests \subseteq past /\ picked \subseteq past
  BY DEF SignalsInv, RequestsInv
<1>2. CASE run_signal_worker_batch
  BY <1>1, <1>2, CandidatesWere, RequestsStep DEF run_signal_worker_batch
<1>3. CASE SubmitCandidate
  <2>1. PICK c \in picked : requests' \subseteq requests \cup {<<c[1], c[2]>>} /\ picked' \subseteq picked
    BY <1>3 DEF SubmitCandidate, signal_idempotency_key
  <2>2. c \in past
    BY <1>1
  <2>3. <<c[1], c[2]>> = c
    BY <2>2 DEF PastPairs
  <2> QED
    BY <1>1, <1>3, <2>1, <2>2, <2>3, RequestsStep DEF SubmitCandidate
<1> QED
  BY <1>2, <1>3

LEMMA IngestStep ==
  ASSUME SignalsInv, NEW k \in SignalKeys, NEW asked, execute_signal_ingest(k, asked)
  PROVE  SignalsInv'
<1>1. <<signals[k].id, signals[k].phase>> \in past
  BY DEF execute_signal_ingest, SignalsInv, SignalsKnown, RowKnown
<1>2. /\ requests' = requests \cup {<<signals[k].id, signals[k].phase>>}
      /\ UNCHANGED <<chat, signals, made, scan, audit, picked, past>>
  BY DEF execute_signal_ingest, signal_idempotency_key
<1>3. requests' \subseteq past /\ picked' \subseteq past
  BY <1>1, <1>2 DEF SignalsInv, RequestsInv
<1> QED
  BY <1>2, <1>3, RequestsStep

\* What an extraction writes are the dedupe keys of the day's messages.
LEMMA ScansInit == SignalsInit => ScansKnown
BY DEF SignalsInit, ScansKnown, NoScan, PastPairs

LEMMA PastStep ==
  ASSUME PastPairs, SignalsNext
  PROVE  PastPairs'
<1>1. ASSUME NEW e, upsert_events(e) PROVE past' = past \/ \E a, b : past' = past \cup {<<a, b>>}
  BY <1>1 DEF upsert_events
<1>2. ASSUME NEW id, NEW k, NEW op, NEW new, apply_event_signal_mutation(id, k, op, new)
      PROVE  \E a, b : past' = past \cup {<<a, b>>}
  BY <1>2 DEF apply_event_signal_mutation
<1>3. past' = past \/ \E a, b : past' = past \cup {<<a, b>>}
  BY <1>1, <1>2, Zenon DEF SignalsNext, MessageStored, run_inner, delete_stale_events, close_stale_events, ExtractorDies,
       PublishDigest, execute_signal_ingest, run_signal_worker_batch, SubmitCandidate
<1> QED
  BY <1>3 DEF PastPairs

LEMMA JudgedKeys ==
  ASSUME ScansKnown
  PROVE  judge_candidates \subseteq SignalKeys
<1>1. ASSUME NEW m \in {n \in load_messages_between : judge_candidate(classify_candidate(n)) # "none"}
      PROVE  dedupe_key(m) \in SignalKeys
  <2>1. m \in {"m1", "m2", "m3"}
    BY DEF ScansKnown, load_messages_between, Labels
  <2>2. m # "m3"
    BY <1>1 DEF classify_candidate, judge_candidate, Labels
  <2>3. "activity" \in Labels["m1"] /\ "activity" \notin Labels["m2"]
    BY DEF Labels
  <2> QED
    BY <2>1, <2>2, <2>3 DEF dedupe_key, judge_candidate, SignalKeys
<1> QED
  BY <1>1 DEF judge_candidates

LEMMA ScansStep ==
  ASSUME ScansKnown, SignalsNext
  PROVE  ScansKnown'
<1>0. PastPairs'
  BY PastStep DEF ScansKnown
<1>1. CASE \E m \in DOMAIN chat : MessageStored(m)
  BY <1>0, <1>1 DEF MessageStored, ScansKnown
<1>2. ASSUME NEW e \in Extractors, run_inner(e) PROVE ScansKnown'
  BY <1>0, <1>2, JudgedKeys DEF run_inner, ScansKnown
<1>3. ASSUME NEW e \in Extractors, upsert_events(e) PROVE ScansKnown'
  BY <1>0, <1>3 DEF upsert_events, ScansKnown
<1>4. ASSUME NEW e \in Extractors, delete_stale_events(e) PROVE ScansKnown'
  BY <1>0, <1>4 DEF delete_stale_events, ScansKnown
<1>5. ASSUME NEW e \in Extractors, close_stale_events(e) PROVE ScansKnown'
  BY <1>0, <1>5 DEF close_stale_events, ScansKnown, NoScan
<1>6. ASSUME NEW e \in Extractors, ExtractorDies(e) PROVE ScansKnown'
  BY <1>0, <1>6 DEF ExtractorDies, ScansKnown, NoScan
<1>7. CASE UNCHANGED <<chat, scan>>
  BY <1>0, <1>7 DEF ScansKnown
<1> QED
  BY <1>0, <1>1, <1>2, <1>3, <1>4, <1>5, <1>6, <1>7
  DEF SignalsNext, PublishDigest, execute_signal_ingest, apply_event_signal_mutation, run_signal_worker_batch, SubmitCandidate

LEMMA SignalInitInv == SignalsInit => SignalInv
BY ScansInit, SignalsInitInv DEF SignalInv

LEMMA SignalsAtRest == SignalInv /\ UNCHANGED svars => SignalInv'
BY SignalsUnchanged DEF SignalInv, ScansKnown, svars, PastPairs

LEMMA SignalsStep ==
  ASSUME SignalInv, SignalsNext
  PROVE  SignalInv'
<1>1. ScansKnown /\ SignalsInv
  BY DEF SignalInv
<1>2. ScansKnown'
  BY <1>1, ScansStep
<1>3. ASSUME NEW m \in DOMAIN chat, MessageStored(m) PROVE SignalsInv'
  BY <1>1, <1>3, SignalsUnchanged DEF MessageStored
<1>4. ASSUME NEW e \in Extractors, run_inner(e) \/ ExtractorDies(e) PROVE SignalsInv'
  BY <1>1, <1>4, SignalsUnchanged DEF run_inner, ExtractorDies
<1>5. ASSUME NEW e \in Extractors, upsert_events(e) \/ delete_stale_events(e) \/ close_stale_events(e) PROVE SignalsInv'
  BY <1>1, <1>5, UpsertStep, DeleteStep, CloseStep
<1>6. ASSUME NEW k \in SignalKeys, PublishDigest(k) PROVE SignalsInv'
  BY <1>1, <1>6, PublishStep_
<1>7. ASSUME NEW k \in SignalKeys, NEW asked \in {0, 1}, execute_signal_ingest(k, asked) PROVE SignalsInv'
  BY <1>1, <1>7, IngestStep
<1>8. ASSUME NEW id \in Mutations, NEW k \in SignalKeys, NEW op \in DOMAIN Values, NEW new \in Values[op],
             apply_event_signal_mutation(id, k, op, new)
      PROVE  SignalsInv'
  BY <1>1, <1>8, MutationStep
<1>9. ASSUME run_signal_worker_batch \/ SubmitCandidate PROVE SignalsInv'
  BY <1>1, <1>9, SubmitStep DEF ScansKnown
<1>10. SignalsInv'
  BY <1>3, <1>4, <1>5, <1>6, <1>7, <1>8, <1>9 DEF SignalsNext
<1> QED
  BY <1>2, <1>10 DEF SignalInv

LEMMA SignalsSafe == SignalInv => SignalsTrue
<1> SUFFICES ASSUME SignalInv PROVE SignalsTrue
  OBVIOUS
<1>1. ASSUME NEW k \in SignalKeys, signals[k] # NoSignal, NEW op \in DOMAIN Values
      PROVE  Linked(signals[k].id, op) /\ EndsIn(signals[k], op)
  BY <1>1 DEF SignalInv, SignalsInv, SignalsKnown, RowKnown, ChainsInv
<1>2. requests \subseteq past /\ AuditOnce
  BY DEF SignalInv, SignalsInv, RequestsInv
<1> QED
  BY <1>1, <1>2 DEF SignalsTrue, Linked, EndsIn, AuditOnce

-----------------------------------------------------------------------------
(***************************************************************************)
(* The analysis behind the daily case report                               *)
(***************************************************************************)

PaperFields == {"stage", "ms", "limit", "mark", "title", "cases", "counts", "topics", "suspects", "cast"}
CountedOn == {"counted", "topics", "ranked", "done"}
CasesOn == {"cases"} \cup CountedOn
TitledOn == {"titled"} \cup CasesOn
MarkedOn == {"marked"} \cup TitledOn

\* A term was met: said, a part of something said, or a title somebody gave.
Met(t) == \E k \in All : \/ \E u \in Terms : ms[k].terms[u] > 0 /\ (t = u \/ <<t, u>> \in Inside)
                         \/ ms[k].title = t
LabelMet(l) == l = [h |-> l.h, t |-> l.t] /\ l.h \in Nat /\ l.t \in Terms /\ Met(l.t)

PaperKnown == DOMAIN paper = PaperFields /\ paper.stage \in {"none"} \cup MarkedOn /\ talk \in Seq(Chatter)
MessagesInv ==
    paper.stage \in MarkedOn => /\ IsFiniteSet(All) /\ All \subseteq Nat /\ paper.limit \in Nat
                                /\ \A i \in All : ms[i] \in Chatter
MarksInv ==
    paper.stage \in MarkedOn => \A i \in All : paper.mark[i] # <<>> =>
        \E m \in {"relay", "topic"}, t \in Terms : paper.mark[i] = <<m, t>> /\ Met(t)
TitlesInv ==
    paper.stage \in TitledOn => \A i \in All : paper.title[i] # <<>> =>
        \E m \in {"relay", "topic", "about"}, t \in Terms : paper.title[i] = <<m, t>> /\ Met(t)
CasesInv ==
    paper.stage \in CasesOn =>
        /\ CasesSound /\ LargestTold /\ IsFiniteSet(paper.cases)
        /\ \A c \in paper.cases : /\ Cardinality(c.of) \in Nat /\ c.people \in Nat
                                  /\ c.title[1] # "hour" \/ c.title[3] # "none" => LabelMet(CaseLabel(c))
CountsInv ==
    paper.stage \in CountedOn => \A l \in DOMAIN paper.counts :
        LabelMet(l) /\ paper.counts[l].n \in Nat /\ paper.counts[l].folk \in Nat
TopicsInv == paper.stage \in {"topics", "ranked", "done"} => TopicsSound
CastInv == paper.stage = "done" => CastSound
PaperInv == PaperKnown /\ MessagesInv /\ MarksInv /\ TitlesInv /\ CasesInv /\ CountsInv /\ TopicsInv /\ CastInv

LEMMA PaperInitInv == ReportInit => PaperInv
BY DEF ReportInit, NoPaper, PaperInv, PaperKnown, PaperFields, MessagesInv, MarksInv, TitlesInv, CasesInv, CountsInv, TopicsInv, CastInv,
       MarkedOn, TitledOn, CasesOn, CountedOn

\* The values of a function on a finite set.
LEMMA FiniteValues ==
  ASSUME NEW S, IsFiniteSet(S), NEW f, DOMAIN f = S
  PROVE  IsFiniteSet({f[x] : x \in S}) /\ Cardinality({f[x] : x \in S}) \in Nat
<1>1. [x \in S |-> f[x]] \in Surjection(S, {f[x] : x \in S})
  BY DEF Surjection
<1>2. IsFiniteSet({f[x] : x \in S})
  BY <1>1, FS_Surjection
<1> QED
  BY <1>2, FS_CardinalityType

\* A finite set of numbers has a greatest one.
LEMMA GreatestNumber ==
  ASSUME NEW S \in SUBSET Nat, IsFiniteSet(S), S # {}
  PROVE  \E m \in S : \A n \in S : n <= m
<1> DEFINE Bad == {T \in SUBSET S : T # {} /\ ~\E m \in T : \A n \in T : n <= m}
<1>1. \A T \in SUBSET S : IsFiniteSet(T) /\ Cardinality(T) \in Nat
  BY FS_Subset, FS_CardinalityType
<1>2. SUFFICES ASSUME Bad # {} PROVE FALSE
  OBVIOUS
<1>3. {Cardinality(T) : T \in Bad} \in SUBSET Nat /\ {Cardinality(T) : T \in Bad} # {}
  BY <1>1, <1>2
<1>4. PICK T \in Bad : \A U \in Bad : Cardinality(T) <= Cardinality(U)
  <2>1. PICK m \in {Cardinality(T) : T \in Bad} : \A n \in {Cardinality(T) : T \in Bad} : m <= n
    BY <1>3, LeastNumber, Zenon
  <2> QED
    BY <2>1
<1>5. PICK x \in T : TRUE
  BY <1>4
<1>6. T \ {x} \in SUBSET S /\ Cardinality(T \ {x}) = Cardinality(T) - 1 /\ Cardinality(T) \in Nat
  BY <1>1, <1>4, <1>5, FS_RemoveElement
<1>7. T \ {x} \notin Bad
  <2>1. ~(Cardinality(T) <= Cardinality(T) - 1)
    BY <1>6
  <2> QED
    BY <1>4, <1>6, <2>1, Zenon
<1>8. CASE T \ {x} = {}
  <2>1. T = {x} /\ x \in Nat
    BY <1>4, <1>5, <1>8
  <2> QED
    BY <1>4, <2>1
<1>9. CASE T \ {x} # {}
  <2>1. PICK y \in T \ {x} : \A n \in T \ {x} : n <= y
    BY <1>6, <1>7, <1>9
  <2>2. x \in Nat /\ y \in Nat /\ T \subseteq Nat
    BY <1>4, <1>5, <2>1
  <2>3. CASE x <= y
    BY <1>4, <2>1, <2>2, <2>3
  <2>4. CASE y <= x
    BY <1>4, <1>5, <2>1, <2>2, <2>4
  <2> QED
    BY <2>2, <2>3, <2>4
<1> QED
  BY <1>8, <1>9

\* What is repeated is said.
LEMMA ScoreFacts ==
  ASSUME \A i \in All : ms[i] \in Chatter, IsFiniteSet(All), NEW I, I \subseteq All, NEW t \in Terms
  PROVE  KeywordScores(I)[t] \in Nat /\ (KeywordScores(I)[t] > 0 => \E i \in I : ms[i].terms[t] > 0)
<1>1. PICK f : f = [i \in I |-> {i} \X (1 .. ms[i].terms[t])]
  OBVIOUS
<1>2. PICK O : O = UNION {f[i] : i \in I}
  OBVIOUS
<1>3. KeywordScores(I)[t] = Cardinality(O)
  BY <1>1, <1>2 DEF KeywordScores
<1>4. ASSUME NEW i \in I PROVE ms[i].terms[t] \in Nat /\ IsFiniteSet(f[i])
  <2>1. ms[i].terms[t] \in Nat
    BY ChatWords
  <2>2. IsFiniteSet({i}) /\ IsFiniteSet(1 .. ms[i].terms[t])
    <3>1. IsFiniteSet(1 .. ms[i].terms[t])
      BY <2>1, FS_Interval
    <3>2. IsFiniteSet({i})
      BY FS_Singleton, Zenon
    <3> QED
      BY <3>1, <3>2
  <2>3. IsFiniteSet({i} \X (1 .. ms[i].terms[t]))
    BY <2>2, FS_Product
  <2> QED
    BY <1>1, <2>1, <2>3
<1>5. IsFiniteSet({f[i] : i \in I})
  <2>1. DOMAIN f = I /\ IsFiniteSet(I)
    BY <1>1, FS_Subset
  <2> QED
    BY <2>1, FiniteValues
<1>6. IsFiniteSet(O)
  <2>1. \A T \in {f[i] : i \in I} : IsFiniteSet(T)
    BY <1>4
  <2> QED
    BY <1>2, <1>5, <2>1, FS_UNION
<1>7. Cardinality(O) \in Nat
  BY <1>6, FS_CardinalityType
<1>8. ASSUME Cardinality(O) > 0 PROVE \E i \in I : ms[i].terms[t] > 0
  <2>1. O # {}
    BY <1>8, FS_EmptySet
  <2>2. PICK i \in I : f[i] # {}
    BY <1>2, <2>1
  <2>3. {i} \X (1 .. ms[i].terms[t]) # {}
    BY <1>1, <2>2
  <2>4. 1 .. ms[i].terms[t] # {}
    BY <2>3
  <2> QED
    BY <1>4, <2>4
<1> QED
  BY <1>3, <1>7, <1>8

LEMMA RepeatedSaid ==
  ASSUME \A i \in All : ms[i] \in Chatter, IsFiniteSet(All), NEW I, I \subseteq All, NEW t \in Repeated(I)
  PROVE  t \in Terms /\ \E i \in I : ms[i].terms[t] > 0
<1>1. t \in Terms /\ KeywordScores(I)[t] >= MinCase
  BY DEF Repeated
<1>2. KeywordScores(I)[t] \in Nat
  BY <1>1, ScoreFacts
<1>3. KeywordScores(I)[t] > 0
  BY <1>1, <1>2, ChatWords
<1> QED
  BY <1>1, <1>3, ScoreFacts

LEMMA TopRepeated ==
  ASSUME NEW I
  PROVE  TopKeywords(I) \subseteq Repeated(I)
BY DEF TopKeywords, FirstOf
\* What the analysis has found stays as the next stage is added.
LEMMA MetStays ==
  ASSUME paper'.ms = paper.ms
  PROVE  /\ ms' = ms /\ All' = All /\ \A t : Met(t) => Met(t)'
         /\ \A l : LabelMet(l) => LabelMet(l)'
BY DEF ms, All, Met, LabelMet

LEMMA MarksStay ==
  ASSUME PaperInv, paper'.ms = paper.ms, paper'.mark = paper.mark, paper'.limit = paper.limit, paper.stage \in MarkedOn
  PROVE  MessagesInv' /\ MarksInv'
<1>1. ms' = ms /\ All' = All /\ \A t : Met(t) => Met(t)'
  BY MetStays
<1> QED
  BY <1>1 DEF PaperInv, MessagesInv, MarksInv

LEMMA TitlesStay ==
  ASSUME PaperInv, paper'.ms = paper.ms, paper'.title = paper.title, paper.stage \in TitledOn
  PROVE  TitlesInv'
<1>1. All' = All /\ \A t : Met(t) => Met(t)'
  BY MetStays
<1> QED
  BY <1>1 DEF PaperInv, TitlesInv

LEMMA CasesStay ==
  ASSUME PaperInv, paper'.ms = paper.ms, paper'.title = paper.title, paper'.limit = paper.limit, paper'.cases = paper.cases,
         paper.stage \in CasesOn
  PROVE  CasesInv'
<1>1. All' = All /\ \A l : LabelMet(l) => LabelMet(l)'
  BY MetStays
<1>2. Told' = Told
  BY <1>1 DEF Told
<1>3. TopicClusters' = TopicClusters
  BY <1>1, <1>2 DEF TopicClusters
<1>4. CasesSound' /\ LargestTold'
  BY <1>3 DEF PaperInv, CasesInv, CasesSound, LargestTold, Large
<1> QED
  BY <1>1, <1>4 DEF PaperInv, CasesInv, CaseLabel, Plain

LEMMA SayStep ==
  ASSUME PaperInv, NEW m \in Chatter, Say(m)
  PROVE  PaperInv'
BY DEF Say, PaperInv, PaperKnown, MessagesInv, MarksInv, TitlesInv, CasesInv, CountsInv, TopicsInv, CastInv,
       MarkedOn, TitledOn, CasesOn, CountedOn

\* A marker is one of the messages.
LEMMA MarkStep ==
  ASSUME PaperInv, MarkTopics
  PROVE  PaperInv'
<1>1. PICK limit \in CaseLimits :
         paper' = [NoPaper EXCEPT !.stage = "marked", !.ms = discussion_messages, !.limit = limit,
                                  !.mark = TopicMarkers(discussion_messages)]
  BY DEF MarkTopics
<1>2. /\ DOMAIN paper' = PaperFields /\ paper'.stage = "marked" /\ paper'.ms = discussion_messages
      /\ paper'.limit = limit /\ paper'.mark = TopicMarkers(discussion_messages)
  BY <1>1 DEF NoPaper, PaperFields
<1>3. talk \in Seq(Chatter) /\ talk' = talk /\ Len(talk) \in Nat
  BY DEF PaperInv, PaperKnown, MarkTopics, Stage
<1>4. DOMAIN discussion_messages \subseteq 1 .. Len(talk) /\ \A i \in DOMAIN discussion_messages : discussion_messages[i] \in Chatter
  BY <1>3 DEF discussion_messages
<1>5. IsFiniteSet(DOMAIN discussion_messages) /\ DOMAIN discussion_messages \subseteq Nat
  <2>1. IsFiniteSet(1 .. Len(talk))
    BY <1>3, FS_Interval
  <2> QED
    BY <1>4, <2>1, FS_Subset
<1>6. ms' = discussion_messages /\ All' = DOMAIN discussion_messages
  BY <1>2 DEF ms, All
<1>7. MessagesInv'
  BY <1>2, <1>4, <1>5, <1>6, ChatWords DEF MessagesInv
<1>8. ASSUME NEW i \in All', paper'.mark[i] # <<>>
      PROVE  \E m \in {"relay", "topic"}, t \in Terms : paper'.mark[i] = <<m, t>> /\ Met(t)'
  <2>1. PICK j \in DOMAIN discussion_messages :
           /\ discussion_messages[j].mark \in {"relay", "topic"}
           /\ paper'.mark[i] = <<discussion_messages[j].mark, discussion_messages[j].title>>
    <3>1. PICK q : q = discussion_messages
      OBVIOUS
    <3>2. i \in DOMAIN q /\ paper'.mark[i] = TopicMarkers(q)[i]
      BY <1>2, <1>6, <3>1
    <3> QED
      BY <1>8, <3>1, <3>2 DEF TopicMarkers, Opening
  <2>2. PICK t : t = discussion_messages[j].title
    OBVIOUS
  <2>3. t \in Terms
    BY <1>4, <2>1, <2>2, ChatWords
  <2>4. Met(t)'
    BY <1>6, <2>2 DEF Met
  <2> QED
    BY <2>1, <2>2, <2>3, <2>4
<1>9. MarksInv'
  BY <1>8 DEF MarksInv
<1> QED
  BY <1>2, <1>3, <1>7, <1>9 DEF PaperInv, PaperKnown, TitlesInv, CasesInv, CountsInv, TopicsInv, CastInv,
       MarkedOn, TitledOn, CasesOn, CountedOn

LEMMA TitleStep ==
  ASSUME PaperInv, TitleMessages
  PROVE  PaperInv'
<1>a. PICK I \in {{i \in All : paper.mark[i] = <<>>}} : \E top \in {TopKeywords(I)} :
         paper' = [paper EXCEPT !.stage = "titled",
                     !.title = [i \in All |-> IF i \in I THEN KeywordOf(i, I, top) ELSE paper.mark[i]]]
  BY DEF TitleMessages
<1>0. PICK top \in {TopKeywords(I)} :
         paper' = [paper EXCEPT !.stage = "titled",
                     !.title = [i \in All |-> IF i \in I THEN KeywordOf(i, I, top) ELSE paper.mark[i]]]
  BY <1>a
<1>1. /\ I = {i \in All : paper.mark[i] = <<>>} /\ top = TopKeywords(I)
      /\ paper' = [paper EXCEPT !.stage = "titled",
                      !.title = [i \in All |-> IF i \in I THEN KeywordOf(i, I, top) ELSE paper.mark[i]]]
  BY <1>0, <1>a
<1>2. /\ DOMAIN paper' = PaperFields /\ paper'.stage = "titled" /\ paper'.ms = paper.ms /\ paper'.mark = paper.mark
      /\ paper'.limit = paper.limit /\ talk' = talk /\ paper.stage = "marked"
      /\ paper'.title = [i \in All |-> IF i \in I THEN KeywordOf(i, I, top) ELSE paper.mark[i]]
  BY <1>1 DEF PaperInv, PaperKnown, PaperFields, TitleMessages, Stage
<1>3. All' = All /\ \A t : Met(t) => Met(t)'
  BY <1>2, MetStays
<1>4. MessagesInv' /\ MarksInv'
  BY <1>2, MarksStay DEF MarkedOn
<1>5. ASSUME NEW i \in All, paper'.title[i] # <<>>
      PROVE  \E m \in {"relay", "topic", "about"}, t \in Terms : paper'.title[i] = <<m, t>> /\ Met(t)
  <2>1. CASE i \in I
    <3>1. PICK t \in top : ms[i].terms[t] > 0 /\ paper'.title[i] = <<"about", t>>
      BY <1>2, <1>5, <2>1 DEF KeywordOf
    <3>2. t \in Terms
      BY <1>1, <3>1, TopRepeated DEF Repeated
    <3>3. Met(t)
      BY <3>1, <3>2 DEF Met
    <3> QED
      BY <3>1, <3>2, <3>3
  <2>2. CASE i \notin I
    BY <1>1, <1>2, <1>5, <2>2 DEF PaperInv, MarksInv, MarkedOn
  <2> QED
    BY <2>1, <2>2
<1>6. TitlesInv'
  BY <1>3, <1>5 DEF TitlesInv
<1> QED
  BY <1>2, <1>4, <1>6 DEF PaperInv, PaperKnown, CasesInv, CountsInv, TopicsInv, CastInv,
       MarkedOn, TitledOn, CasesOn, CountedOn

\* Clusters by title and by hour: each is some messages, none is in two.
Disjoint(C) == \A c, d \in C : c # d => c.of \cap d.of = {}
Described(c) == c.title[1] # "hour" \/ c.title[3] # "none" => LabelMet(CaseLabel(c))

LEMMA TopicClusterFacts ==
  ASSUME PaperInv, paper.stage \in TitledOn
  PROVE  /\ IsFiniteSet(TopicClusters) /\ Disjoint(TopicClusters)
         /\ \A c \in TopicClusters : c.of \subseteq Told /\ Described(c)
<1>1. IsFiniteSet(All) /\ \A i \in All : ms[i] \in Chatter
  BY DEF PaperInv, MessagesInv, MarkedOn
<1>2. Told \subseteq All /\ IsFiniteSet(Told)
  BY <1>1, FS_Subset DEF Told
<1>3. IsFiniteSet(TopicClusters)
  <2>1. PICK f : f = [i \in Told |-> [title |-> paper.title[i], of |-> {j \in All : paper.title[j] = paper.title[i]}]]
    OBVIOUS
  <2>2. TopicClusters = {f[i] : i \in Told}
    BY <2>1 DEF TopicClusters
  <2>3. IsFiniteSet({f[i] : i \in Told})
    <3>1. DOMAIN f = Told
      BY <2>1
    <3> QED
      BY <1>2, <3>1, FiniteValues
  <2> QED
    BY <2>2, <2>3
<1>4. ASSUME NEW c \in TopicClusters
      PROVE  /\ c.title # <<>> /\ c.of = {i \in All : paper.title[i] = c.title}
             /\ \E i \in Told : c.title = paper.title[i]
  <2>1. PICK i \in Told : c = [title |-> paper.title[i], of |-> {j \in All : paper.title[j] = paper.title[i]}]
    BY DEF TopicClusters
  <2> QED
    BY <2>1 DEF Told
<1>5. \A c \in TopicClusters : c.of \subseteq Told
  BY <1>4 DEF Told
<1>6. Disjoint(TopicClusters)
  <2>1. ASSUME NEW c \in TopicClusters, NEW d \in TopicClusters, c.title = d.title PROVE c = d
    BY <2>1 DEF TopicClusters
  <2> QED
    BY <1>4, <2>1 DEF Disjoint
<1>7. ASSUME NEW c \in TopicClusters PROVE LabelMet(CaseLabel(c))
  <2>1. PICK i \in Told : c.title = paper.title[i]
    BY <1>4
  <2>2. PICK m \in {"relay", "topic", "about"}, t \in Terms : c.title = <<m, t>> /\ Met(t)
    BY <1>2, <2>1 DEF PaperInv, TitlesInv, Told
  <2>3. CaseLabel(c) = [h |-> 0, t |-> t]
    BY <2>2 DEF CaseLabel, Plain
  <2> QED
    BY <2>2, <2>3 DEF LabelMet
<1> QED
  BY <1>3, <1>5, <1>6, <1>7 DEF Described

HoursKnown(B, rest) ==
    /\ IsFiniteSet(B) /\ \A b, d \in B : b.hour = d.hour => b = d
    /\ \A b \in B : b.of \subseteq rest /\ b.hour \in Nat /\ \A i \in b.of : ms[i].hour = b.hour

LEMMA HourFacts ==
  ASSUME PaperInv, paper.stage \in TitledOn, NEW rest, rest \subseteq All, NEW free
  PROVE  HoursKnown(HourBuckets(rest, free), rest)
<1>1. IsFiniteSet(All) /\ \A i \in All : ms[i] \in Chatter
  BY DEF PaperInv, MessagesInv, MarkedOn
<1>2. PICK hours : hours = {ms[i].hour : i \in rest}
  OBVIOUS
<1>3. IsFiniteSet(hours) /\ hours \subseteq Nat
  <2>1. IsFiniteSet(rest)
    BY <1>1, FS_Subset
  <2>2. PICK f : f = [i \in rest |-> ms[i].hour]
    OBVIOUS
  <2>3. hours = {f[i] : i \in rest}
    BY <1>2, <2>2
  <2>4. IsFiniteSet({f[i] : i \in rest})
    BY <2>1, <2>2, FiniteValues
  <2> QED
    BY <1>1, <1>2, <2>3, <2>4, ChatWords
<1>4. PICK B : B = HourBuckets(rest, free)
  OBVIOUS
<1>5. ASSUME NEW b \in B PROVE \E h \in hours : b = [hour |-> h, of |-> AtHour(rest, h)]
  BY <1>2, <1>4 DEF HourBuckets, FirstOf
<1>6. IsFiniteSet(B)
  <2>1. PICK f : f = [h \in hours |-> [hour |-> h, of |-> AtHour(rest, h)]]
    OBVIOUS
  <2>2. B \subseteq {f[h] : h \in hours}
    BY <1>5, <2>1
  <2>3. IsFiniteSet({f[h] : h \in hours})
    <3>1. DOMAIN f = hours
      BY <2>1
    <3> QED
      BY <1>3, <3>1, FiniteValues
  <2> QED
    BY <2>2, <2>3, FS_Subset
<1>7. ASSUME NEW b \in B PROVE b = [hour |-> b.hour, of |-> AtHour(rest, b.hour)] /\ b.hour \in hours
  BY <1>5
<1>8. \A b, d \in B : b.hour = d.hour => b = d
  BY <1>7
<1>9. ASSUME NEW b \in B PROVE b.of \subseteq rest /\ b.hour \in Nat /\ \A i \in b.of : ms[i].hour = b.hour
  <2>1. b.of = AtHour(rest, b.hour)
    BY <1>7
  <2> QED
    BY <1>3, <1>7, <2>1 DEF AtHour
<1> QED
  BY <1>4, <1>6, <1>8, <1>9 DEF HoursKnown

LEMMA HourClusterFacts ==
  ASSUME PaperInv, paper.stage \in TitledOn, NEW rest, rest \subseteq All, NEW free, NEW T \in Titled(HourBuckets(rest, free))
  PROVE  /\ IsFiniteSet(T) /\ Disjoint(T)
         /\ \A c \in T : c.of \subseteq rest /\ Described(c)
<1>1. PICK B : B = HourBuckets(rest, free)
  OBVIOUS
<1>2. /\ IsFiniteSet(B) /\ \A b, d \in B : b.hour = d.hour => b = d
      /\ \A b \in B : b.of \subseteq rest /\ b.hour \in Nat /\ \A i \in b.of : ms[i].hour = b.hour
  BY <1>1, HourFacts DEF HoursKnown
<1>3. PICK f : T = {[title |-> f[b], of |-> b.of] : b \in B} /\ \A b \in B : f[b] \in TimeBucketTitles(b)
  BY <1>1 DEF Titled
<1>4. IsFiniteSet(T)
  <2>1. PICK g : g = [b \in B |-> [title |-> f[b], of |-> b.of]]
    OBVIOUS
  <2>2. T = {g[b] : b \in B}
    BY <1>3, <2>1
  <2> QED
    BY <1>2, <2>1, <2>2, FiniteValues
<1>5. Disjoint(T)
  <2> SUFFICES ASSUME NEW c \in T, NEW d \in T, c # d PROVE c.of \cap d.of = {}
    BY DEF Disjoint
  <2>1. PICK b \in B, e \in B : c = [title |-> f[b], of |-> b.of] /\ d = [title |-> f[e], of |-> e.of]
    BY <1>3
  <2>2. b.hour # e.hour
    BY <1>2, <2>1
  <2> QED
    BY <1>2, <2>1, <2>2
<1>6. ASSUME NEW c \in T PROVE c.of \subseteq rest /\ Described(c)
  <2>1. PICK b \in B : c = [title |-> f[b], of |-> b.of]
    BY <1>3
  <2>2. b.of \subseteq rest /\ b.hour \in Nat /\ b.of \subseteq All /\ c.of = b.of /\ c.title = f[b]
    BY <1>2, <2>1
  <2>3. PICK t : c.title = <<"hour", b.hour, t>> /\ (t = "none" \/ t \in Repeated(b.of))
    BY <1>3, <2>2 DEF TimeBucketTitles
  <2>4. ASSUME t # "none" PROVE LabelMet(CaseLabel(c))
    <3>1. t \in Terms /\ \E i \in b.of : ms[i].terms[t] > 0
      <4>1. IsFiniteSet(All) /\ \A i \in All : ms[i] \in Chatter
        BY DEF PaperInv, MessagesInv, MarkedOn
      <4> QED
        BY <2>2, <2>3, <2>4, <4>1, RepeatedSaid
    <3>2. Met(t)
      BY <2>2, <3>1 DEF Met
    <3>3. CaseLabel(c) = [h |-> b.hour, t |-> t]
      BY <2>3 DEF CaseLabel
    <3> QED
      BY <2>2, <3>1, <3>2, <3>3 DEF LabelMet
  <2> QED
    BY <2>2, <2>3, <2>4 DEF Described
<1> QED
  BY <1>4, <1>5, <1>6

\* An order of a finite set has each of its elements once, the largest first.
LEMMA OrderFacts ==
  ASSUME NEW C, IsFiniteSet(C), NEW n, NEW q \in Orders_(C, n)
  PROVE  /\ DOMAIN q = 1 .. Len(q) /\ Len(q) \in Nat /\ \A k \in 1 .. Len(q) : q[k] \in C
         /\ \A i, j \in 1 .. Len(q) : i # j => q[i] # q[j]
         /\ \A i, j \in 1 .. Len(q) : i < j => n[q[i]] >= n[q[j]]
         /\ \A c \in C : \E k \in 1 .. Len(q) : q[k] = c
<1>1. PICK size : size = Cardinality(C)
  OBVIOUS
<1>2. size \in Nat
  BY <1>1, FS_CardinalityType
<1>3. /\ q \in [1 .. size -> C] /\ \A i, j \in DOMAIN q : i # j => q[i] # q[j]
      /\ \A i, j \in DOMAIN q : i < j => n[q[i]] >= n[q[j]]
  BY <1>1 DEF Orders_
<1>4. DOMAIN q = 1 .. size /\ Len(q) = size
  BY <1>2, <1>3
<1>5. q \in Injection(1 .. size, C)
  BY <1>3 DEF Injection, IsInjective
<1>6. Cardinality(1 .. size) = size
  BY <1>2, FS_Interval
<1>7. q \in Surjection(1 .. size, C)
  BY <1>1, <1>5, <1>6, FS_Injection
<1>8. \A c \in C : \E k \in 1 .. size : q[k] = c
  BY <1>7 DEF Surjection
<1> QED
  BY <1>2, <1>3, <1>4, <1>8

LEMMA MinOfTwo ==
  ASSUME NEW a \in Nat, NEW b \in Nat
  PROVE  Lists!Min({a, b}) \in Nat /\ \A k \in Nat : k <= Lists!Min({a, b}) <=> k <= a /\ k <= b
<1>1. \E x \in {a, b} : \A y \in {a, b} : x <= y
  BY a <= b \/ b <= a
<1> QED
  BY <1>1 DEF Lists!Min

\* The cases on the page, from clusters in order.
PageKnown(C, K) ==
    /\ IsFiniteSet(K) /\ Cardinality(K) <= paper.limit
    /\ \A c, d \in K : c # d => c.of \cap d.of = {} /\ c.no # d.no
    /\ \A c \in K : /\ Large(c) /\ c.no <= Cardinality(K) /\ \E d \in C : c.title = d.title /\ c.of = d.of
                    /\ c.people = Cardinality({ms[i].name : i \in c.of})
    /\ \A c \in C : Large(c) /\ (\A d \in K : d.of # c.of) =>
          Cardinality(K) = paper.limit /\ \A d \in K : Cardinality(d.of) >= Cardinality(c.of)

LEMMA PageFacts ==
  ASSUME NEW C, IsFiniteSet(C), Disjoint(C), \A c \in C : IsFiniteSet(c.of), paper.limit \in Nat,
         NEW q \in Orders_(C, [c \in C |-> Cardinality(c.of)]), NEW K, K = CaseCards(q)
  PROVE  PageKnown(C, K)
<1>1. PICK len : len = Len(q)
  OBVIOUS
<1>2. PICK n : n = [c \in C |-> Cardinality(c.of)]
  OBVIOUS
<1>3. /\ len \in Nat /\ \A k \in 1 .. len : q[k] \in C
      /\ \A i, j \in 1 .. len : i # j => q[i] # q[j]
      /\ \A i, j \in 1 .. len : i < j => n[q[i]] >= n[q[j]]
      /\ \A c \in C : \E k \in 1 .. len : q[k] = c
  BY <1>1, <1>2, OrderFacts
<1>4. \A c \in C : n[c] = Cardinality(c.of) /\ n[c] \in Nat
  BY <1>2, FS_CardinalityType
<1>5. PICK J : J = {j \in 1 .. Lists!Min({len, paper.limit}) : Large(q[j])}
  OBVIOUS
<1>6. PICK card : card = [k \in J |-> [no |-> k, title |-> q[k].title, of |-> q[k].of,
                                       people |-> Cardinality({ms[i].name : i \in q[k].of})]]
  OBVIOUS
<1>7. K = {card[k] : k \in J}
  BY <1>1, <1>5, <1>6 DEF CaseCards
<1>8. \A k : k \in J <=> k \in 1 .. len /\ k <= paper.limit /\ Cardinality(q[k].of) >= MinCase
  BY <1>3, <1>5, MinOfTwo DEF Large
<1>9. ASSUME NEW j \in J, NEW i \in 1 .. j PROVE i \in J
  <2>1. i \in 1 .. len /\ i <= paper.limit /\ j \in 1 .. len /\ Cardinality(q[j].of) >= MinCase
    BY <1>3, <1>8
  <2>2. n[q[i]] >= n[q[j]]
    BY <1>3, <1>4, <2>1
  <2>3. Cardinality(q[i].of) >= MinCase
    BY <1>3, <1>4, <2>1, <2>2, ChatWords
  <2>4. i <= paper.limit
    BY <2>1
  <2> QED
    BY <1>8, <2>1, <2>3, <2>4
<1>10. IsFiniteSet(J) /\ Cardinality(J) \in Nat /\ Cardinality(J) <= paper.limit
  <2>1. J \subseteq 1 .. paper.limit
    BY <1>8
  <2>2. IsFiniteSet(1 .. paper.limit) /\ Cardinality(1 .. paper.limit) = paper.limit
    BY FS_Interval
  <2> QED
    BY <2>1, <2>2, FS_Subset, FS_CardinalityType
<1>11. IsFiniteSet(K) /\ Cardinality(K) = Cardinality(J)
  <2>1. card \in [J -> K] /\ \A k \in J : card[k].no = k
    BY <1>6, <1>7
  <2>2. card \in Injection(J, K)
    BY <2>1 DEF Injection, IsInjective
  <2>3. card \in Surjection(J, K)
    BY <1>7, <2>1 DEF Surjection
  <2>4. ExistsBijection(J, K)
    BY <2>2, <2>3 DEF ExistsBijection, Bijection
  <2> QED
    BY <1>10, <2>4, FS_Bijection
<1>12. ASSUME NEW c \in K
       PROVE  /\ c.no \in J /\ c.title = q[c.no].title /\ c.of = q[c.no].of /\ c = card[c.no]
              /\ c.people = Cardinality({ms[i].name : i \in c.of})
  <2>1. PICK k \in J : c = card[k]
    BY <1>7
  <2>2. /\ c.no = k /\ c.title = q[k].title /\ c.of = q[k].of
        /\ c.people = Cardinality({ms[i].name : i \in q[k].of})
    BY <1>6, <2>1
  <2> QED
    BY <2>1, <2>2
<1>13. \A c, d \in K : c # d => c.of \cap d.of = {} /\ c.no # d.no
  <2> SUFFICES ASSUME NEW c \in K, NEW d \in K, c # d PROVE c.of \cap d.of = {} /\ c.no # d.no
    OBVIOUS
  <2>1. c.no # d.no
    BY <1>12
  <2>2. q[c.no] \in C /\ q[d.no] \in C /\ q[c.no] # q[d.no]
    BY <1>3, <1>8, <1>12, <2>1
  <2> QED
    BY <1>12, <2>1, <2>2 DEF Disjoint
<1>14. ASSUME NEW k \in J PROVE k <= Cardinality(J)
  <2>1. 1 .. k \subseteq J /\ k \in Nat
    BY <1>8, <1>9
  <2>2. Cardinality(1 .. k) = k
    BY <2>1, FS_Interval
  <2> QED
    BY <1>10, <2>1, <2>2, FS_Subset
<1>15. ASSUME NEW c \in K PROVE Large(c) /\ c.no <= Cardinality(K) /\ \E d \in C : c.title = d.title /\ c.of = d.of
  <2>1. c.no \in J /\ q[c.no] \in C
    BY <1>3, <1>8, <1>12
  <2> QED
    BY <1>8, <1>11, <1>12, <1>14, <2>1 DEF Large
<1>16. ASSUME NEW c \in C, Large(c), \A d \in K : d.of # c.of
       PROVE  Cardinality(K) = paper.limit /\ \A d \in K : Cardinality(d.of) >= Cardinality(c.of)
  <2>1. PICK k \in 1 .. len : q[k] = c
    BY <1>3
  <2>2. k \notin J
    <3>1. ASSUME k \in J PROVE card[k] \in K /\ card[k].of = c.of
      BY <1>6, <1>7, <2>1, <3>1
    <3> QED
      BY <1>16, <3>1
  <2>3. k > paper.limit /\ n[q[k]] >= MinCase
    BY <1>4, <1>8, <1>16, <2>1, <2>2 DEF Large
  <2>4. ASSUME NEW j \in 1 .. paper.limit PROVE j \in 1 .. len /\ n[q[j]] >= n[q[k]] /\ n[q[j]] \in Nat /\ j \in J
    <3>1. j \in 1 .. len /\ j < k
      BY <1>3, <2>1, <2>3
    <3>2. n[q[j]] >= n[q[k]] /\ n[q[j]] \in Nat /\ n[q[k]] \in Nat
      BY <1>3, <1>4, <2>1, <3>1
    <3>3. Cardinality(q[j].of) >= MinCase
      BY <1>3, <1>4, <2>3, <3>1, <3>2, ChatWords
    <3> QED
      BY <1>8, <3>1, <3>2, <3>3
  <2>5. J = 1 .. paper.limit
    <3>1. \A j \in 1 .. paper.limit : j \in J
      BY <2>4
    <3>2. \A j \in J : j \in 1 .. paper.limit
      BY <1>3, <1>8
    <3> QED
      BY <3>1, <3>2
  <2>6. Cardinality(K) = paper.limit
    BY <1>11, <2>5, FS_Interval
  <2>7. ASSUME NEW d \in K PROVE Cardinality(d.of) >= Cardinality(c.of)
    <3>1. d.no \in 1 .. paper.limit /\ d.of = q[d.no].of
      BY <1>12, <2>5
    <3> QED
      BY <1>3, <1>4, <2>1, <2>4, <3>1
  <2> QED
    BY <2>6, <2>7
<1> QED
  BY <1>10, <1>11, <1>12, <1>13, <1>15, <1>16 DEF PageKnown

LEMMA ClusterStep ==
  ASSUME PaperInv, ClusterCases
  PROVE  PaperInv'
<1>1. PICK free \in {paper.limit - Cardinality({c \in TopicClusters : Large(c)})} :
       \E T \in Titled(HourBuckets(All \ Told, free)) :
       \E C \in {TopicClusters \cup T} :
       \E q \in Orders_(C, [c \in C |-> Cardinality(c.of)]) :
         paper' = [paper EXCEPT !.stage = "cases", !.cases = CaseCards(q)]
  BY DEF ClusterCases
<1>2. PICK T \in Titled(HourBuckets(All \ Told, free)) :
       \E C \in {TopicClusters \cup T} :
       \E q \in Orders_(C, [c \in C |-> Cardinality(c.of)]) :
         paper' = [paper EXCEPT !.stage = "cases", !.cases = CaseCards(q)]
  BY <1>1
<1>3. PICK C \in {TopicClusters \cup T} :
       \E q \in Orders_(C, [c \in C |-> Cardinality(c.of)]) :
         paper' = [paper EXCEPT !.stage = "cases", !.cases = CaseCards(q)]
  BY <1>2
<1>4. PICK q \in Orders_(C, [c \in C |-> Cardinality(c.of)]) :
         paper' = [paper EXCEPT !.stage = "cases", !.cases = CaseCards(q)]
  BY <1>3
<1>5. paper.stage = "titled" /\ talk' = talk /\ DOMAIN paper = PaperFields
  BY DEF ClusterCases, Stage, PaperInv, PaperKnown
<1>6. PICK K : K = CaseCards(q)
  OBVIOUS
<1>7. /\ DOMAIN paper' = PaperFields /\ paper'.stage = "cases" /\ paper'.ms = paper.ms /\ paper'.mark = paper.mark
      /\ paper'.limit = paper.limit /\ paper'.title = paper.title /\ paper'.cases = K
  BY <1>4, <1>5, <1>6 DEF PaperFields
<1>8. /\ IsFiniteSet(TopicClusters) /\ Disjoint(TopicClusters)
      /\ \A c \in TopicClusters : c.of \subseteq Told /\ Described(c)
  BY <1>5, TopicClusterFacts DEF TitledOn
<1>9. /\ IsFiniteSet(T) /\ Disjoint(T)
      /\ \A c \in T : c.of \subseteq All \ Told /\ Described(c)
  BY <1>5, HourClusterFacts DEF TitledOn
<1>10. IsFiniteSet(C) /\ Disjoint(C) /\ \A c \in C : Described(c) /\ c.of \subseteq All
  <2>1. C = TopicClusters \cup T
    OBVIOUS
  <2>2. IsFiniteSet(C)
    BY <1>8, <1>9, <2>1, FS_Union
  <2>3. Disjoint(C)
    BY <1>8, <1>9, <2>1 DEF Disjoint
  <2> QED
    BY <1>8, <1>9, <2>1, <2>2, <2>3 DEF Told
<1>11. IsFiniteSet(All) /\ paper.limit \in Nat
  BY <1>5 DEF PaperInv, MessagesInv, MarkedOn, TitledOn
<1>12. \A c \in C : IsFiniteSet(c.of)
  BY <1>10, <1>11, FS_Subset
<1>13. PageKnown(C, K)
  BY <1>6, <1>10, <1>11, <1>12, PageFacts
<1>14. All' = All /\ \A l : LabelMet(l) => LabelMet(l)'
  BY <1>7, MetStays
<1>15. TopicClusters' = TopicClusters
  <2>1. Told' = Told
    BY <1>7, <1>14 DEF Told
  <2> QED
    BY <1>7, <1>14, <2>1 DEF TopicClusters
<1>16. CasesSound'
  BY <1>7, <1>13 DEF CasesSound, Large, PageKnown
<1>17. LargestTold'
  BY <1>7, <1>10, <1>13, <1>15 DEF LargestTold, Large, PageKnown
<1>18. ASSUME NEW c \in K
       PROVE  /\ Cardinality(c.of) \in Nat /\ c.people \in Nat
              /\ c.title[1] # "hour" \/ c.title[3] # "none" => LabelMet(CaseLabel(c))
  <2>1. PICK d \in C : c.title = d.title /\ c.of = d.of
    BY <1>13 DEF PageKnown
  <2>2. IsFiniteSet(c.of) /\ c.of \subseteq All
    BY <1>10, <1>12, <2>1
  <2>3. c.people \in Nat
    <3>1. PICK f : f = [i \in c.of |-> ms[i].name]
      OBVIOUS
    <3>2. Cardinality({f[i] : i \in c.of}) \in Nat
      <4>1. DOMAIN f = c.of
        BY <3>1
      <4> QED
        BY <2>2, <4>1, FiniteValues
    <3>3. {f[i] : i \in c.of} = {ms[i].name : i \in c.of}
      BY <3>1
    <3> QED
      BY <1>13, <3>2, <3>3 DEF PageKnown
  <2>4. CaseLabel(c) = CaseLabel(d)
    BY <2>1 DEF CaseLabel
  <2> QED
    BY <1>10, <2>1, <2>2, <2>3, <2>4, FS_CardinalityType DEF Described
<1>19. CasesInv'
  <2>1. ASSUME NEW c \in K PROVE c.title[1] # "hour" \/ c.title[3] # "none" => LabelMet(CaseLabel(c))'
    BY <1>14, <1>18 DEF CaseLabel, Plain
  <2> QED
    BY <1>7, <1>13, <1>16, <1>17, <1>18, <2>1 DEF CasesInv, PageKnown
<1>20. MessagesInv' /\ MarksInv' /\ TitlesInv'
  BY <1>5, <1>7, MarksStay, TitlesStay DEF MarkedOn, TitledOn
<1> QED
  BY <1>5, <1>7, <1>19, <1>20 DEF PaperInv, PaperKnown, CountsInv, TopicsInv, CastInv,
       MarkedOn, TitledOn, CasesOn, CountedOn

LEMMA MaxIn ==
  ASSUME NEW S \in SUBSET Nat, IsFiniteSet(S), S # {}
  PROVE  Lists!Max(S) \in S
<1>1. PICK m \in S : \A n \in S : m >= n
  BY GreatestNumber
<1> QED
  BY <1>1 DEF Lists!Max

LEMMA CountFacts ==
  ASSUME PaperInv, paper.stage = "cases", NEW l, LabelMet(l)
  PROVE  LabelCount(l).n \in Nat /\ LabelCount(l).folk \in Nat
<1>1. /\ IsFiniteSet(All) /\ \A i \in All : ms[i] \in Chatter
      /\ IsFiniteSet(paper.cases) /\ \A c \in paper.cases : Cardinality(c.of) \in Nat /\ c.people \in Nat
  BY DEF PaperInv, MessagesInv, CasesInv, MarkedOn, TitledOn, CasesOn
<1>2. PICK term : term = IF l.h = 0 THEN {TermCount(l.t)} ELSE {}
  OBVIOUS
<1>3. PICK told : told = {[n |-> Cardinality(c.of), folk |-> c.people] : c \in {d \in CaseTopics : CaseLabel(d) = l}}
  OBVIOUS
<1>4. TermCount(l.t).n \in Nat /\ TermCount(l.t).folk \in Nat
  <2>1. PICK t \in Terms : t = l.t
    BY DEF LabelMet
  <2>2. Worded(t) \subseteq All /\ Phrased(t) \subseteq All
    BY DEF Worded, Phrased
  <2>3. KeywordScores(Worded(t))[t] \in Nat
    BY <1>1, <2>2, ScoreFacts
  <2>4. Cardinality(Phrased(t) \ Worded(t)) \in Nat
    <3>1. IsFiniteSet(Phrased(t) \ Worded(t))
      BY <1>1, <2>2, FS_Subset
    <3> QED
      BY <3>1, FS_CardinalityType
  <2>5. Cardinality({Speaker(ms[i]) : i \in Worded(t) \cup Phrased(t)}) \in Nat
    <3>1. PICK I : I = Worded(t) \cup Phrased(t)
      OBVIOUS
    <3>2. IsFiniteSet(I)
      BY <1>1, <2>2, <3>1, FS_Subset
    <3>3. PICK f : f = [i \in I |-> Speaker(ms[i])]
      OBVIOUS
    <3>4. DOMAIN f = I
      BY <3>3
    <3>5. Cardinality({f[i] : i \in I}) \in Nat
      BY <3>2, <3>4, FiniteValues
    <3>6. {f[i] : i \in I} = {Speaker(ms[i]) : i \in I}
      BY <3>3
    <3> QED
      BY <3>1, <3>5, <3>6
  <2> QED
    BY <2>1, <2>3, <2>4, <2>5 DEF TermCount
<1>5. IsFiniteSet(told) /\ \A x \in told : x.n \in Nat /\ x.folk \in Nat
  <2>1. PICK D : D = {d \in CaseTopics : CaseLabel(d) = l}
    OBVIOUS
  <2>2. D \subseteq paper.cases
    BY <2>1 DEF CaseTopics
  <2>3. IsFiniteSet(D)
    BY <1>1, <2>2, FS_Subset
  <2>4. PICK f : f = [c \in D |-> [n |-> Cardinality(c.of), folk |-> c.people]]
    OBVIOUS
  <2>5. DOMAIN f = D /\ {f[c] : c \in D} = told
    BY <1>3, <2>1, <2>4
  <2>6. IsFiniteSet({f[c] : c \in D})
    BY <2>3, <2>5, FiniteValues
  <2>7. IsFiniteSet(told)
    BY <2>5, <2>6
  <2>8. ASSUME NEW x \in told PROVE x.n \in Nat /\ x.folk \in Nat
    BY <1>1, <1>3, <2>1, <2>2
  <2> QED
    BY <2>7, <2>8
<1>6. PICK X : X = term \cup told
  OBVIOUS
<1>7. IsFiniteSet(X) /\ \A x \in X : x.n \in Nat /\ x.folk \in Nat
  <2>1. IsFiniteSet(term)
    BY <1>2, FS_Singleton, FS_EmptySet
  <2> QED
    BY <1>2, <1>4, <1>5, <1>6, <2>1, FS_Union
<1>8. ASSUME NEW f, DOMAIN f = X, \A x \in X : f[x] \in Nat PROVE Lists!Max({0} \cup {f[x] : x \in X}) \in Nat
  <2>1. PICK S : S = {0} \cup {f[x] : x \in X}
    OBVIOUS
  <2>2. IsFiniteSet(S)
    <3>1. IsFiniteSet({f[x] : x \in X})
      BY <1>7, <1>8, FiniteValues
    <3>2. IsFiniteSet({0})
      BY FS_Singleton
    <3> QED
      BY <2>1, <3>1, <3>2, FS_Union
  <2>3. S \in SUBSET Nat /\ S # {}
    BY <1>8, <2>1
  <2>4. Lists!Max(S) \in S
    BY <2>2, <2>3, MaxIn
  <2> QED
    BY <2>1, <2>3, <2>4
<1>9. Lists!Max({0} \cup {x.n : x \in X}) \in Nat
  <2>1. PICK f : f = [x \in X |-> x.n]
    OBVIOUS
  <2>2. DOMAIN f = X /\ (\A x \in X : f[x] \in Nat) /\ {f[x] : x \in X} = {x.n : x \in X}
    BY <1>7, <2>1
  <2> QED
    BY <1>8, <2>2
<1>10. Lists!Max({0} \cup {x.folk : x \in X}) \in Nat
  <2>1. PICK f : f = [x \in X |-> x.folk]
    OBVIOUS
  <2>2. DOMAIN f = X /\ (\A x \in X : f[x] \in Nat) /\ {f[x] : x \in X} = {x.folk : x \in X}
    BY <1>7, <2>1
  <2> QED
    BY <1>8, <2>2
<1>11. /\ LabelCount(l).n = Lists!Max({0} \cup {x.n : x \in X})
       /\ LabelCount(l).folk = Lists!Max({0} \cup {x.folk : x \in X})
  BY <1>2, <1>3, <1>6 DEF LabelCount
<1> QED
  BY <1>9, <1>10, <1>11

LEMMA CountStep ==
  ASSUME PaperInv, CountTopics
  PROVE  PaperInv'
<1>1. PICK labels \in {{Plain(t) : t \in {u \in Terms : Worded(u) \cup Phrased(u) # {}}}
                        \cup {CaseLabel(c) : c \in CaseTopics}} :
         paper' = [paper EXCEPT !.stage = "counted", !.counts = [l \in labels |-> LabelCount(l)]]
  BY DEF CountTopics
<1>2. paper.stage = "cases" /\ talk' = talk /\ DOMAIN paper = PaperFields
  BY DEF CountTopics, Stage, PaperInv, PaperKnown
<1>3. /\ DOMAIN paper' = PaperFields /\ paper'.stage = "counted" /\ paper'.ms = paper.ms /\ paper'.mark = paper.mark
      /\ paper'.limit = paper.limit /\ paper'.title = paper.title /\ paper'.cases = paper.cases
      /\ paper'.counts = [l \in labels |-> LabelCount(l)]
  BY <1>1, <1>2 DEF PaperFields
<1>4. ASSUME NEW l \in labels PROVE LabelMet(l)
  <2>1. CASE \E t \in Terms : l = Plain(t) /\ Worded(t) \cup Phrased(t) # {}
    <3>1. PICK t \in Terms : l = [h |-> 0, t |-> t] /\ Worded(t) \cup Phrased(t) # {}
      BY <2>1 DEF Plain
    <3>2. Met(t)
      BY <3>1 DEF Met, Worded, Phrased
    <3> QED
      BY <3>1, <3>2 DEF LabelMet
  <2>2. CASE \E c \in CaseTopics : l = CaseLabel(c)
    <3>1. PICK c \in paper.cases : l = CaseLabel(c) /\ (c.title[1] = "hour" => c.title[3] # "none")
      BY <2>2 DEF CaseTopics
    <3> QED
      BY <1>2, <3>1 DEF PaperInv, CasesInv, CasesOn
  <2> QED
    BY <1>1, <2>1, <2>2
<1>5. \A l \in labels : LabelCount(l).n \in Nat /\ LabelCount(l).folk \in Nat
  BY <1>2, <1>4, CountFacts
<1>6. \A l : LabelMet(l) => LabelMet(l)'
  BY <1>3, MetStays
<1>7. CountsInv'
  BY <1>3, <1>4, <1>5, <1>6 DEF CountsInv
<1>8. MessagesInv' /\ MarksInv' /\ TitlesInv' /\ CasesInv'
  BY <1>2, <1>3, MarksStay, TitlesStay, CasesStay DEF MarkedOn, TitledOn, CasesOn
<1> QED
  BY <1>2, <1>3, <1>7, <1>8 DEF PaperInv, PaperKnown, TopicsInv, CastInv, MarkedOn, TitledOn, CasesOn, CountedOn

\* Of two different lists of numbers one is ahead of the other.
LEMMA OneAhead ==
  ASSUME NEW k \in [1 .. 6 -> Int], NEW l \in [1 .. 6 -> Int], k # l
  PROVE  Ahead(k, l) \/ Ahead(l, k)
<1>1. {i \in 1 .. 6 : k[i] # l[i]} \in SUBSET Nat /\ {i \in 1 .. 6 : k[i] # l[i]} # {}
  OBVIOUS
<1>2. PICK i \in 1 .. 6 : k[i] # l[i] /\ \A j \in 1 .. 6 : k[j] # l[j] => i <= j
  <2>1. PICK i \in {i \in 1 .. 6 : k[i] # l[i]} : \A j \in {j \in 1 .. 6 : k[j] # l[j]} : i <= j
    BY <1>1, LeastNumber
  <2> QED
    BY <2>1
<1>3. \A j \in 1 .. i - 1 : k[j] = l[j]
  BY <1>2
<1>4. k[i] > l[i] \/ l[i] > k[i]
  BY <1>2
<1> QED
  BY <1>3, <1>4 DEF Ahead

LEMMA RankStep ==
  ASSUME PaperInv, RankTopics
  PROVE  PaperInv'
<1>1. PICK L \in {{l \in DOMAIN paper.counts : paper.counts[l].n >= MinTopicMessages}} :
       \E P \in HotTopics(L, [l \in L |-> TopicRank(l)]) :
         paper' = [paper EXCEPT !.stage = "topics", !.topics = P]
  BY DEF RankTopics
<1>2. PICK P \in HotTopics(L, [l \in L |-> TopicRank(l)]) : paper' = [paper EXCEPT !.stage = "topics", !.topics = P]
  BY <1>1
<1>3. paper.stage = "counted" /\ talk' = talk /\ DOMAIN paper = PaperFields
  BY DEF RankTopics, Stage, PaperInv, PaperKnown
<1>4. /\ DOMAIN paper' = PaperFields /\ paper'.stage = "topics" /\ paper'.ms = paper.ms /\ paper'.mark = paper.mark
      /\ paper'.limit = paper.limit /\ paper'.title = paper.title /\ paper'.cases = paper.cases
      /\ paper'.counts = paper.counts /\ paper'.topics = P
  BY <1>2, <1>3 DEF PaperFields
<1>5. PICK rank : rank = [l \in L |-> TopicRank(l)]
  OBVIOUS
<1>6. P \subseteq L /\ L \subseteq DOMAIN paper.counts
  BY <1>2, <1>1 DEF HotTopics
<1>7. ASSUME NEW l \in P, NEW k \in P, Ahead(rank[k], rank[l]) PROVE ~Overlap(k, l)
  <2>1. P \in HotTopics(L, rank)
    BY <1>2, <1>5
  <2> QED
    BY <1>6, <1>7, <2>1 DEF HotTopics
<1>8. ASSUME NEW l \in L PROVE /\ LabelMet(l) /\ rank[l] \in [1 .. 6 -> Int]
                                /\ rank[l][5] = -l.h /\ rank[l][6] = -Alpha(l.t)
  <2>1. LabelMet(l) /\ paper.counts[l].n \in Nat /\ paper.counts[l].folk \in Nat
    BY <1>3, <1>6 DEF PaperInv, CountsInv, CountedOn
  <2>2. l.h \in Nat /\ Alpha(l.t) \in Nat /\ Size(l.t) \in Nat
    BY <2>1, ChatWords DEF LabelMet
  <2>3. Chars(l) \in Nat
    BY <2>2 DEF Chars
  <2>4. PICK a, b, c, d, e, f : a = Chars(l) * paper.counts[l].n /\ b = paper.counts[l].n /\ c = paper.counts[l].folk
                                /\ d = Chars(l) /\ e = -l.h /\ f = -Alpha(l.t)
    OBVIOUS
  <2>5. a \in Int /\ b \in Int /\ c \in Int /\ d \in Int /\ e \in Int /\ f \in Int
    BY <2>1, <2>2, <2>3, <2>4
  <2>6. rank[l] = <<a, b, c, d, e, f>>
    BY <1>5, <2>4 DEF TopicRank
  <2> QED
    BY <2>1, <2>4, <2>5, <2>6
<1>9. ASSUME NEW k \in P, NEW l \in P, k # l PROVE ~Within(k, l)
  <2>1. k.h # l.h \/ k.t # l.t
    BY <1>6, <1>8, <1>9 DEF LabelMet
  <2>2. /\ k.h \in Nat /\ l.h \in Nat /\ Alpha(k.t) \in Nat /\ Alpha(l.t) \in Nat
        /\ Alpha(k.t) = Alpha(l.t) => k.t = l.t
    BY <1>6, <1>8, ChatWords DEF LabelMet
  <2>3. /\ rank[k] \in [1 .. 6 -> Int] /\ rank[k][5] = -k.h /\ rank[k][6] = -Alpha(k.t)
        /\ rank[l] \in [1 .. 6 -> Int] /\ rank[l][5] = -l.h /\ rank[l][6] = -Alpha(l.t)
    BY <1>6, <1>8
  <2>4. ASSUME rank[k] = rank[l] PROVE FALSE
    <3>1. -k.h = -l.h /\ -Alpha(k.t) = -Alpha(l.t)
      BY <2>3, <2>4
    <3>2. k.h = l.h /\ Alpha(k.t) = Alpha(l.t)
      BY <2>2, <3>1
    <3> QED
      BY <2>1, <2>2, <3>2
  <2>5. Ahead(rank[k], rank[l]) \/ Ahead(rank[l], rank[k])
    BY <2>3, <2>4, OneAhead
  <2> QED
    BY <1>7, <2>5 DEF Overlap
<1>10. ASSUME NEW l \in P
       PROVE  \E k \in All : \/ \E u \in Terms : ms[k].terms[u] > 0 /\ Within(Plain(l.t), Plain(u))
                             \/ ms[k].title = l.t
  BY <1>6, <1>8 DEF LabelMet, Met, Within, Plain
<1>11. ms' = ms /\ All' = All
  BY <1>4, MetStays
<1>12. TopicsSound'
  BY <1>4, <1>9, <1>10, <1>11 DEF TopicsSound
<1>13. CountsInv'
  BY <1>3, <1>4, MetStays DEF PaperInv, CountsInv, CountedOn
<1>14. MessagesInv' /\ MarksInv' /\ TitlesInv' /\ CasesInv'
  BY <1>3, <1>4, MarksStay, TitlesStay, CasesStay DEF MarkedOn, TitledOn, CasesOn, CountedOn
<1> QED
  BY <1>3, <1>4, <1>12, <1>13, <1>14 DEF PaperInv, PaperKnown, TopicsInv, CastInv, MarkedOn, TitledOn, CasesOn, CountedOn

\* The stages after the topics leave them, and what they rest on, alone.
LEMMA TopicsStay ==
  ASSUME PaperInv, paper.stage \in {"topics", "ranked"}, paper'.ms = paper.ms, paper'.mark = paper.mark, paper'.limit = paper.limit,
         paper'.title = paper.title, paper'.cases = paper.cases, paper'.counts = paper.counts, paper'.topics = paper.topics
  PROVE  MessagesInv' /\ MarksInv' /\ TitlesInv' /\ CasesInv' /\ CountsInv' /\ TopicsInv'
<1>1. ms' = ms /\ All' = All /\ \A l : LabelMet(l) => LabelMet(l)'
  BY MetStays
<1>2. MessagesInv' /\ MarksInv' /\ TitlesInv' /\ CasesInv'
  BY MarksStay, TitlesStay, CasesStay DEF MarkedOn, TitledOn, CasesOn, CountedOn
<1>3. CountsInv'
  BY <1>1 DEF PaperInv, CountsInv, CountedOn
<1>4. TopicsInv'
  BY <1>1 DEF PaperInv, TopicsInv, TopicsSound
<1> QED
  BY <1>2, <1>3, <1>4

LEMMA SuspectsStep ==
  ASSUME PaperInv, ComputeSuspects
  PROVE  PaperInv'
<1>1. \E s : paper' = [paper EXCEPT !.stage = "ranked", !.suspects = s]
  BY DEF ComputeSuspects
<1>2. paper.stage = "topics" /\ talk' = talk /\ DOMAIN paper = PaperFields
  BY DEF ComputeSuspects, Stage, PaperInv, PaperKnown
<1>3. /\ DOMAIN paper' = PaperFields /\ paper'.stage = "ranked" /\ paper'.ms = paper.ms /\ paper'.mark = paper.mark
      /\ paper'.limit = paper.limit /\ paper'.title = paper.title /\ paper'.cases = paper.cases
      /\ paper'.counts = paper.counts /\ paper'.topics = paper.topics
  BY <1>1, <1>2 DEF PaperFields
<1> QED
  BY <1>2, <1>3, TopicsStay DEF PaperInv, PaperKnown, CastInv, MarkedOn, TitledOn, CasesOn, CountedOn

\* A hint is about somebody else who spoke of the same.
LEMMA HintFacts ==
  ASSUME PaperInv, paper.stage = "ranked", NEW g \in Groups, NEW tally, tally = [k \in Groups |-> KeywordScores(Spoke(k))],
         NEW p \in RelationshipHints(g, tally), p # <<>>
  PROVE  p[2] # g /\ p[1] \in GroupTopics(g) \cap GroupTopics(p[2])
<1>1. IsFiniteSet(All) /\ \A i \in All : ms[i] \in Chatter
  BY DEF PaperInv, MessagesInv, MarkedOn, TitledOn, CasesOn, CountedOn
<1>2. /\ p[1] \in Terms /\ p[2] \in Groups \ {g} /\ IsCleanTopic(p[1])
      /\ tally[g][p[1]] > 0 /\ tally[p[2]][p[1]] > 0
  BY DEF RelationshipHints
<1>3. ASSUME NEW k \in Groups, tally[k][p[1]] > 0 PROVE p[1] \in GroupTopics(k)
  <2>1. Spoke(k) \subseteq All /\ KeywordScores(Spoke(k))[p[1]] > 0
    BY <1>3 DEF Spoke
  <2>2. \E i \in Spoke(k) : ms[i].terms[p[1]] > 0
    BY <1>1, <1>2, <2>1, ScoreFacts
  <2> QED
    BY <1>2, <2>2 DEF GroupTopics
<1> QED
  BY <1>2, <1>3

\* Without a memory of the person, only several messages and a hint count.
LEMMA EvidenceFacts ==
  ASSUME NEW g, NEW n \in Nat, NEW topics, NEW hint,
         ProfileUpgradeStatus(ProfileEvidence(g, n, topics, hint # <<>>)) = "eligible"
  PROVE  (g[1] = "person" /\ g[2] \in DOMAIN Recalled \cup DOMAIN Reviewed_) \/ (n >= 2 /\ hint # <<>>)
<1> SUFFICES ASSUME ~Remembers(g, Recalled), ~Remembers(g, Reviewed_), ~(n >= 2 /\ hint # <<>>) PROVE FALSE
  BY DEF Remembers
<1>1. MemoryOf(g, Recalled) = 0 /\ MemoryOf(g, Reviewed_) = 0
  BY DEF MemoryOf
<1>2. Lists!Min({0, 20}) = 0
  BY DEF Lists!Min
<1>3. Lists!Max({0, 0}) = 0
  BY DEF Lists!Max
<1>4. ProfileEvidence(g, n, topics, hint # <<>>) = 0 + (IF n >= 2 THEN 1 ELSE 0) + 0 + 0 + (IF hint # <<>> THEN 1 ELSE 0)
  BY <1>1, <1>2, <1>3 DEF ProfileEvidence
<1>5. ProfileEvidence(g, n, topics, hint # <<>>) < 2
  BY <1>4
<1>6. ProfileEvidence(g, n, topics, hint # <<>>) >= 2
  BY DEF ProfileUpgradeStatus
<1> QED
  BY <1>4, <1>5, <1>6

LEMMA CastStep ==
  ASSUME PaperInv, ComputeCharacters
  PROVE  PaperInv'
<1>1. PICK F \in {{g \in Groups : Cardinality(Spoke(g)) >= 2 \/ RoleScore(Spoke(g)) > 0}} :
       \E score \in {[g \in F |-> CharacterScore(g, Spoke(g))]} :
       \E tally \in {[g \in Groups |-> KeywordScores(Spoke(g))]} :
       \E S \in {X \in SUBSET F : /\ Cardinality(X) = Lists!Min({Cardinality(F), CharacterLimit})
                                  /\ \A g \in X, h \in F \ X : score[g] >= score[h]} :
       \E hint \in {f \in [S -> UNION {RelationshipHints(g, tally) : g \in S}] :
                      \A g \in S : f[g] \in RelationshipHints(g, tally)} :
         paper' = [paper EXCEPT !.stage = "done", !.cast = {CharacterCard(g, hint[g]) : g \in S}]
  BY DEF ComputeCharacters
<1>a. PICK score \in {[g \in F |-> CharacterScore(g, Spoke(g))]} :
       \E tally \in {[g \in Groups |-> KeywordScores(Spoke(g))]} :
       \E S \in {X \in SUBSET F : /\ Cardinality(X) = Lists!Min({Cardinality(F), CharacterLimit})
                                  /\ \A g \in X, h \in F \ X : score[g] >= score[h]} :
       \E hint \in {f \in [S -> UNION {RelationshipHints(g, tally) : g \in S}] :
                      \A g \in S : f[g] \in RelationshipHints(g, tally)} :
         paper' = [paper EXCEPT !.stage = "done", !.cast = {CharacterCard(g, hint[g]) : g \in S}]
  BY <1>1
<1>b. PICK tally \in {[g \in Groups |-> KeywordScores(Spoke(g))]} :
       \E S \in {X \in SUBSET F : /\ Cardinality(X) = Lists!Min({Cardinality(F), CharacterLimit})
                                  /\ \A g \in X, h \in F \ X : score[g] >= score[h]} :
       \E hint \in {f \in [S -> UNION {RelationshipHints(g, tally) : g \in S}] :
                      \A g \in S : f[g] \in RelationshipHints(g, tally)} :
         paper' = [paper EXCEPT !.stage = "done", !.cast = {CharacterCard(g, hint[g]) : g \in S}]
  BY <1>a
<1>c. PICK S \in {X \in SUBSET F : /\ Cardinality(X) = Lists!Min({Cardinality(F), CharacterLimit})
                                   /\ \A g \in X, h \in F \ X : score[g] >= score[h]} :
       \E hint \in {f \in [S -> UNION {RelationshipHints(g, tally) : g \in S}] :
                      \A g \in S : f[g] \in RelationshipHints(g, tally)} :
         paper' = [paper EXCEPT !.stage = "done", !.cast = {CharacterCard(g, hint[g]) : g \in S}]
  BY <1>b
<1>d. PICK hint \in {f \in [S -> UNION {RelationshipHints(g, tally) : g \in S}] :
                      \A g \in S : f[g] \in RelationshipHints(g, tally)} :
         paper' = [paper EXCEPT !.stage = "done", !.cast = {CharacterCard(g, hint[g]) : g \in S}]
  BY <1>c
<1>e. /\ S \subseteq Groups /\ tally = [g \in Groups |-> KeywordScores(Spoke(g))]
      /\ \A g \in S : hint[g] \in RelationshipHints(g, tally)
  BY <1>1, <1>b, <1>c, <1>d
<1>2. paper.stage = "ranked" /\ talk' = talk /\ DOMAIN paper = PaperFields
  BY DEF ComputeCharacters, Stage, PaperInv, PaperKnown
<1>3. PICK K : K = {CharacterCard(g, hint[g]) : g \in S}
  OBVIOUS
<1>4. /\ DOMAIN paper' = PaperFields /\ paper'.stage = "done" /\ paper'.ms = paper.ms /\ paper'.mark = paper.mark
      /\ paper'.limit = paper.limit /\ paper'.title = paper.title /\ paper'.cases = paper.cases
      /\ paper'.counts = paper.counts /\ paper'.topics = paper.topics /\ paper'.cast = K
  BY <1>d, <1>2, <1>3 DEF PaperFields
<1>5. ms' = ms /\ All' = All
  BY <1>4, MetStays
<1>6. ASSUME NEW c \in K
      PROVE  /\ c.key \in S /\ c.of = Spoke(c.key) /\ c.hint = hint[c.key] /\ c = CharacterCard(c.key, hint[c.key])
             /\ c.status = ProfileUpgradeStatus(ProfileEvidence(c.key, Cardinality(c.of), Cardinality(GroupTopics(c.key)), c.hint # <<>>))
  BY <1>3 DEF CharacterCard
<1>7. \A c, d \in K : c # d => c.of \cap d.of = {}
  BY <1>6 DEF Spoke
<1>8. ASSUME NEW c \in K, c.hint # <<>>
      PROVE  c.hint[2] # c.key /\ c.hint[1] \in GroupTopics(c.key) \cap GroupTopics(c.hint[2])
  BY <1>e, <1>2, <1>6, <1>8, HintFacts
<1>9. ASSUME NEW c \in K, c.status = "eligible"
      PROVE  \/ c.key[1] = "person" /\ c.key[2] \in DOMAIN Recalled \cup DOMAIN Reviewed_
             \/ Cardinality(c.of) >= 2 /\ c.hint # <<>>
  <2>1. Cardinality(c.of) \in Nat
    <3>1. c.of \subseteq All
      BY <1>6 DEF Spoke
    <3>2. IsFiniteSet(All)
      BY <1>2 DEF PaperInv, MessagesInv, MarkedOn, TitledOn, CasesOn, CountedOn
    <3>3. IsFiniteSet(c.of)
      BY <3>1, <3>2, FS_Subset
    <3> QED
      BY <3>3, FS_CardinalityType
  <2>2. ProfileUpgradeStatus(ProfileEvidence(c.key, Cardinality(c.of), Cardinality(GroupTopics(c.key)), c.hint # <<>>)) = "eligible"
    BY <1>6, <1>9
  <2> QED
    BY <2>1, <2>2, EvidenceFacts
<1>10. \A g : GroupTopics(g)' = GroupTopics(g)
  BY <1>5 DEF GroupTopics, Spoke
<1>11. CastSound'
  BY <1>4, <1>7, <1>8, <1>9, <1>10 DEF CastSound
<1> QED
  BY <1>2, <1>4, <1>11, TopicsStay DEF PaperInv, PaperKnown, CastInv, MarkedOn, TitledOn, CasesOn, CountedOn

LEMMA PaperStep ==
  ASSUME PaperInv, ReportNext
  PROVE  PaperInv'
BY SayStep, MarkStep, TitleStep, ClusterStep, CountStep, RankStep, SuspectsStep, CastStep DEF ReportNext

LEMMA PaperAtRest == PaperInv /\ UNCHANGED rvars => PaperInv'
<1> SUFFICES ASSUME PaperInv, talk' = talk, paper' = paper PROVE PaperInv'
  BY DEF rvars
<1>1. ms' = ms /\ All' = All /\ (\A t : Met(t)' = Met(t)) /\ \A l : LabelMet(l)' = LabelMet(l)
  BY DEF ms, All, Met, LabelMet
<1>2. TopicClusters' = TopicClusters /\ \A g : GroupTopics(g)' = GroupTopics(g)
  BY <1>1 DEF TopicClusters, Told, GroupTopics, Spoke
<1>3. CasesInv'
  BY <1>1, <1>2 DEF PaperInv, CasesInv, CasesSound, LargestTold, Large, CaseLabel, Plain
<1> QED
  BY <1>1, <1>2, <1>3 DEF PaperInv, PaperKnown, MessagesInv, MarksInv, TitlesInv, CountsInv, TopicsInv, TopicsSound, CastInv, CastSound

LEMMA PaperSafe == PaperInv => PaperTrue
BY DEF PaperInv, CasesInv, TopicsInv, CastInv, PaperTrue, CasesOn, CountedOn

-----------------------------------------------------------------------------
(***************************************************************************)
(* Who sent a message                                                      *)
(***************************************************************************)

Plat(u) == <<"all", u>>

\* Person p has a row of a chat to which QiWe gives the name n.
Borne(p, n) == \E j \in ChatKeys : cards[j].person = p /\ label[j] = n

Circle(p) == {u \in Senders : p \in PersonsOf(cards, u)}
HangTogether(S) == \A U \in (SUBSET S) \ {{}, S} : \E u \in U, v \in S \ U : SameName(u, v)

CardsKnown ==
    /\ label \in [ChatKeys -> NickNames] /\ people \in Seq(NickNames \cup GivenNames)
    /\ DOMAIN cards = AllKeys
    /\ \A k \in AllKeys : DOMAIN cards[k] = {"name", "person"} /\ cards[k].person \in 0 .. Len(people)
RowsInv ==
    /\ \A k \in ChatKeys : /\ cards[k].name \in {"none", label[k]}
                           /\ cards[k].person # 0 => cards[k].name = label[k]
    /\ \A u \in Senders : cards[Plat(u)].name = "none" <=> cards[Plat(u)].person = 0
MailsInv ==
    /\ DOMAIN mails = ChatKeys
    /\ \A k \in ChatKeys : DOMAIN mails[k] = {"st", "person"}
    /\ \A k \in ChatKeys : mails[k].person # 0 =>
          mails[k].person = cards[k].person \/ mails[k].person = cards[Plat(k[2])].person
LinkedInv ==
    /\ \A p \in DOMAIN people : \E k \in ChatKeys : cards[k].person = p
    /\ \A u \in Senders : cards[Plat(u)].person # 0 =>
          \E k \in ChatKeys : k[2] = u /\ cards[k].person = cards[Plat(u)].person
NicksKnown == \A a \in nicks : a[1] \in 1 .. Len(people)
BorneInv ==
    ~reviewed => /\ \A p \in DOMAIN people : Borne(p, people[p])
                 /\ \A a \in nicks : Borne(a[1], a[2])
                 /\ \A u \in Senders : cards[Plat(u)].person # 0 => Borne(cards[Plat(u)].person, cards[Plat(u)].name)
CircleInv == ~reviewed => \A p \in DOMAIN people : HangTogether(Circle(p))
SafeInv ==
    /\ safe.kind = "identity" => /\ safe.key \in ChatKeys /\ safe.person \in 0 .. Len(people)
                                 /\ cards[safe.key].name # "none" /\ safe.name \in GivenNames
    /\ safe.kind = "alias" => safe.person \in 1 .. Len(people)
BootNames(n) == Named(boot.cards, boot.people, boot.nicks, n)
BootInv ==
    boot # NoBoot =>
        /\ boot.pc = "run" /\ boot.locked \subseteq boot.scope /\ boot.scope \subseteq ChatKeys
        /\ \A k \in AllKeys : /\ boot.cards[k].person \in 0 .. Len(people)
                              /\ boot.cards[k].person # 0 => cards[k].person = boot.cards[k].person
        /\ \A k \in ChatKeys : boot.cards[k].person # 0 => boot.cards[k].name = label[k]
        /\ \A k \in boot.locked : /\ boot.cards[k].person = 0 /\ boot.cards[k].name = label[k]
                                  /\ cards[k].person = 0 /\ cards[k].name = label[k]
        /\ \A n \in NickNames : BootNames(n) \subseteq 1 .. Len(people)
        /\ ~reviewed => \A n \in NickNames : \A p \in BootNames(n) : Borne(p, n)
PersonInv == CardsKnown /\ RowsInv /\ MailsInv /\ LinkedInv /\ NicksKnown /\ BorneInv /\ CircleInv /\ SafeInv /\ BootInv

LEMMA RowFacts ==
  /\ \A u \in Senders : Plat(u) \in AllKeys /\ Plat(u) \notin ChatKeys /\ Plat(u)[1] = "all" /\ Plat(u)[2] = u
  /\ \A k \in ChatKeys : k \in AllKeys /\ k[2] \in Senders
  /\ \A k \in AllKeys : k \in ChatKeys \/ \E u \in Senders : k = Plat(u)
BY PersonKeys DEF Plat, AllKeys, Senders

LEMMA OwnRows ==
  ASSUME NEW u \in Senders
  PROVE  OfUser(u) = {k \in ChatKeys : k[2] = u} \cup {Plat(u)}
BY RowFacts DEF OfUser

LEMMA PersonFacts ==
  ASSUME NEW c, NEW u \in Senders, NEW p
  PROVE  p \in PersonsOf(c, u) <=> p # 0 /\ (c[Plat(u)].person = p \/ \E k \in ChatKeys : k[2] = u /\ c[k].person = p)
<1>1. p \in PersonsOf(c, u) <=> p # 0 /\ \E k \in OfUser(u) : c[k].person = p
  BY DEF PersonsOf
<1>2. (\E k \in OfUser(u) : c[k].person = p) <=> c[Plat(u)].person = p \/ \E k \in ChatKeys : k[2] = u /\ c[k].person = p
  BY OwnRows
<1> QED
  BY <1>1, <1>2

LEMMA OneOf ==
  ASSUME NEW n \in Nat, NEW S \in SUBSET (1 .. n)
  PROVE  IsFiniteSet(S) /\ (Cardinality(S) = 1 <=> \E x \in S : S = {x})
<1>1. IsFiniteSet(S)
  <2>1. 1 \in Int /\ n \in Int
    OBVIOUS
  <2>2. IsFiniteSet(1 .. n)
    BY <2>1, FS_Interval
  <2> QED
    BY <2>2, FS_Subset
<1>2. Cardinality(S) = 1 <=> \E x : S = {x}
  BY <1>1, FS_Singleton, Zenon
<1> QED
  BY <1>1, <1>2

LEMMA PersonInitInv == PersonInit => PersonInv
<1> SUFFICES ASSUME PersonInit PROVE PersonInv
  OBVIOUS
<1>1. /\ label \in [ChatKeys -> NickNames] /\ DOMAIN cards = AllKeys /\ people = <<>> /\ Len(people) = 0 /\ DOMAIN people = {}
      /\ \A k \in AllKeys : cards[k].name = "none" /\ cards[k].person = 0 /\ DOMAIN cards[k] = {"name", "person"}
      /\ DOMAIN mails = ChatKeys
      /\ \A k \in ChatKeys : mails[k].person = 0 /\ DOMAIN mails[k] = {"st", "person"}
      /\ nicks = {} /\ boot = NoBoot /\ safe.kind = "none"
  BY DEF PersonInit, NoCard, NoSafe
<1>2. CardsKnown
  BY <1>1 DEF CardsKnown
<1>3. RowsInv /\ MailsInv /\ LinkedInv /\ NicksKnown /\ BorneInv /\ CircleInv
  BY <1>1, RowFacts DEF RowsInv, MailsInv, LinkedInv, NicksKnown, BorneInv, CircleInv
<1>4. SafeInv /\ BootInv
  BY <1>1 DEF SafeInv, BootInv
<1> QED
  BY <1>2, <1>3, <1>4 DEF PersonInv

-----------------------------------------------------------------------------
\* What stays true while rows are only filled in.
Grows == \A k \in AllKeys : cards[k].person # 0 => cards'[k].person = cards[k].person

LEMMA BorneStays ==
  ASSUME Grows, label' = label, NEW p, p # 0, NEW n, Borne(p, n)
  PROVE  Borne(p, n)'
BY RowFacts DEF Grows, Borne

LEMMA MailsStay ==
  ASSUME PersonInv, Grows, mails' = mails
  PROVE  MailsInv'
BY RowFacts DEF PersonInv, MailsInv, Grows

LEMMA LinkedStay ==
  ASSUME PersonInv, Grows
  PROVE  /\ \A p \in DOMAIN people : \E k \in ChatKeys : cards'[k].person = p
         /\ \A u \in Senders : cards[Plat(u)].person # 0 => 
              \E k \in ChatKeys : k[2] = u /\ cards'[k].person = cards'[Plat(u)].person
<1>1. DOMAIN people = 1 .. Len(people)
  BY DEF PersonInv, CardsKnown
<1> QED
  BY <1>1, RowFacts DEF PersonInv, LinkedInv, Grows

LEMMA BootStays ==
  ASSUME PersonInv, Grows, label' = label, boot' = boot, Len(people) <= Len(people'), Len(people') \in Nat,
         reviewed => reviewed', \A k \in Locked : cards'[k] = cards[k]
  PROVE  BootInv'
<1> SUFFICES ASSUME boot # NoBoot PROVE BootInv'
  BY DEF BootInv
<1>1. Len(people) \in Nat
  BY DEF PersonInv, CardsKnown
<1>2. \A n : BootNames(n)' = BootNames(n)
  BY DEF BootNames, Named
<1>3. /\ boot.pc = "run" /\ boot.locked \subseteq boot.scope /\ boot.scope \subseteq ChatKeys
      /\ Locked = boot.locked
  BY DEF PersonInv, BootInv, Locked
<1>4. ASSUME NEW k \in AllKeys
      PROVE  /\ boot.cards[k].person \in 0 .. Len(people)'
             /\ boot.cards[k].person # 0 => cards'[k].person = boot.cards[k].person
  BY <1>1 DEF PersonInv, BootInv, Grows
<1>5. ASSUME NEW k \in boot.locked PROVE cards'[k].person = 0 /\ cards'[k].name = label[k]
  BY <1>3 DEF PersonInv, BootInv
<1>6. ASSUME NEW n \in NickNames PROVE BootNames(n) \subseteq 1 .. Len(people)'
  BY <1>1 DEF PersonInv, BootInv
<1>7. ASSUME ~reviewed', NEW n \in NickNames, NEW p \in BootNames(n) PROVE Borne(p, n)'
  <2>1. Borne(p, n) /\ p # 0
    BY <1>1, <1>7 DEF PersonInv, BootInv
  <2> QED
    BY <2>1, BorneStays
<1> QED
  BY <1>2, <1>3, <1>4, <1>5, <1>6, <1>7 DEF PersonInv, BootInv

\* Who goes by a name is a person, with a row that goes by it as long as no reviewer stepped in.
LEMMA NamedKnown ==
  ASSUME PersonInv, NEW n
  PROVE  Named(cards, people, nicks, n) \subseteq 1 .. Len(people)
BY DEF PersonInv, CardsKnown, NicksKnown, Named

LEMMA NamedBorne ==
  ASSUME PersonInv, ~reviewed, NEW n \in NickNames, NEW p \in Named(cards, people, nicks, n)
  PROVE  Borne(p, n)
<1>1. CASE \E i \in DOMAIN people : people[i] = n /\ p = i
  BY <1>1 DEF PersonInv, BorneInv
<1>2. CASE \E a \in nicks : a[2] = n /\ p = a[1]
  BY <1>2 DEF PersonInv, BorneInv
<1>3. CASE \E k \in AllKeys : cards[k].name = n /\ p = cards[k].person /\ p # 0
  <2>1. PICK k \in AllKeys : cards[k].name = n /\ p = cards[k].person /\ p # 0
    BY <1>3
  <2>2. CASE k \in ChatKeys
    BY <2>1, <2>2 DEF PersonInv, RowsInv, Borne
  <2>3. CASE \E u \in Senders : k = Plat(u)
    BY <2>1, <2>3 DEF PersonInv, BorneInv
  <2> QED
    BY <2>2, <2>3, RowFacts
<1> QED
  BY <1>1, <1>2, <1>3 DEF Named, PersonInv, CardsKnown

\* The persons of users are the same: so are the circles.
LEMMA CircleStays ==
  ASSUME PersonInv, label' = label, people' = people, reviewed' = reviewed,
         \A u \in Senders : PersonsOf(cards', u) = PersonsOf(cards, u)
  PROVE  CircleInv'
<1>1. \A u, v : SameName(u, v)' = SameName(u, v)
  BY DEF SameName
<1>2. \A p : Circle(p)' = Circle(p)
  BY DEF Circle
<1> QED
  BY <1>1, <1>2 DEF PersonInv, CircleInv, HangTogether


-----------------------------------------------------------------------------
LEMMA MailSteps ==
  ASSUME PersonInv, NEW k \in ChatKeys, MessageArrives(k) \/ ADayLater(k) \/ mark_unresolved(k)
  PROVE  PersonInv'
<1>1. /\ UNCHANGED <<label, cards, roster, people, nicks, boot, safe, reviewed>>
      /\ \E s : mails' = [mails EXCEPT ![k].st = s]
  BY DEF MessageArrives, ADayLater, mark_unresolved
<1>2. PICK s : mails' = [mails EXCEPT ![k].st = s]
  BY <1>1
<1>3. /\ DOMAIN mails' = ChatKeys
      /\ \A j \in ChatKeys : DOMAIN mails'[j] = DOMAIN mails[j] /\ mails'[j].person = mails[j].person
  BY <1>2 DEF PersonInv, MailsInv
<1>4. MailsInv'
  BY <1>1, <1>3 DEF PersonInv, MailsInv
<1>5. CircleInv'
  BY <1>1, CircleStays
<1>6. Grows /\ Len(people) \in Nat /\ Len(people) <= Len(people')
  BY <1>1 DEF Grows, PersonInv, CardsKnown
<1>7. BootInv'
  BY <1>1, <1>6, BootStays
<1>8. CardsKnown' /\ RowsInv' /\ LinkedInv' /\ NicksKnown' /\ SafeInv'
  BY <1>1 DEF PersonInv, CardsKnown, RowsInv, LinkedInv, NicksKnown, SafeInv
<1>9. BorneInv'
  BY <1>1 DEF PersonInv, BorneInv, Borne
<1> QED
  BY <1>4, <1>5, <1>7, <1>8, <1>9 DEF PersonInv

LEMMA BootBegins ==
  ASSUME PersonInv, NEW scope, run_bootstrap(scope)
  PROVE  PersonInv'
<1>1. /\ UNCHANGED <<label, cards, roster, people, nicks, mails, safe, reviewed>>
      /\ boot' = [pc |-> "run", locked |-> candidate_sources(scope), cards |-> cards,
                  people |-> people, nicks |-> nicks, scope |-> {k \in ChatKeys : InScope(scope, k)}]
  BY DEF run_bootstrap
<1>2. /\ boot'.pc = "run" /\ boot'.cards = cards /\ boot'.people = people /\ boot'.nicks = nicks
      /\ boot'.locked = candidate_sources(scope) /\ boot'.scope = {k \in ChatKeys : InScope(scope, k)}
  BY <1>1
<1>3. \A n : BootNames(n)' = Named(cards, people, nicks, n)
  BY <1>2 DEF BootNames, Named
<1>4. ASSUME NEW k \in candidate_sources(scope)
      PROVE  k \in ChatKeys /\ cards[k].person = 0 /\ cards[k].name = label[k] /\ InScope(scope, k)
  BY DEF candidate_sources, PersonInv, RowsInv
<1>5. BootInv'
  <2>1. ASSUME NEW k \in ChatKeys, cards[k].person # 0 PROVE cards[k].name = label[k]
    BY <2>1 DEF PersonInv, RowsInv
  <2>2. \A k \in AllKeys : cards[k].person \in 0 .. Len(people)
    BY DEF PersonInv, CardsKnown
  <2>3. ASSUME ~reviewed, NEW n \in NickNames, NEW p \in Named(cards, people, nicks, n) PROVE Borne(p, n)'
    <3>1. Borne(p, n)
      BY <2>3, NamedBorne
    <3> QED
      BY <1>1, <3>1 DEF Borne
  <2> QED
    BY <1>1, <1>2, <1>3, <1>4, <2>1, <2>2, <2>3, NamedKnown DEF BootInv
<1>6. CircleInv'
  BY <1>1, CircleStays
<1>7. CardsKnown' /\ RowsInv' /\ MailsInv' /\ LinkedInv' /\ NicksKnown' /\ SafeInv'
  BY <1>1 DEF PersonInv, CardsKnown, RowsInv, MailsInv, LinkedInv, NicksKnown, SafeInv
<1>8. BorneInv'
  BY <1>1 DEF PersonInv, BorneInv, Borne
<1> QED
  BY <1>5, <1>6, <1>7, <1>8 DEF PersonInv

LEMMA OthersRest ==
  ASSUME PersonInv, UNCHANGED <<label, cards, people, nicks, mails, reviewed>>
  PROVE  CardsKnown' /\ RowsInv' /\ MailsInv' /\ LinkedInv' /\ NicksKnown' /\ BorneInv' /\ CircleInv' /\ Grows
<1>1. CircleInv'
  BY CircleStays
<1>2. CardsKnown' /\ RowsInv' /\ MailsInv' /\ LinkedInv' /\ NicksKnown' /\ Grows
  BY DEF PersonInv, CardsKnown, RowsInv, MailsInv, LinkedInv, NicksKnown, Grows
<1>3. BorneInv'
  BY DEF PersonInv, BorneInv, Borne
<1> QED
  BY <1>1, <1>2, <1>3

LEMMA BootDies ==
  ASSUME PersonInv, BootstrapDies
  PROVE  PersonInv'
<1>1. UNCHANGED <<label, cards, people, nicks, mails, reviewed>> /\ safe' = safe /\ boot' = NoBoot
  BY DEF BootstrapDies
<1>2. BootInv' /\ SafeInv'
  BY <1>1 DEF BootInv, PersonInv, SafeInv
<1> QED
  BY <1>1, <1>2, OthersRest DEF PersonInv

LEMMA IdentityChecked ==
  ASSUME PersonInv, NEW k \in ChatKeys, NEW asked \in 0 .. MaxPeople, NEW name \in GivenNames, SafeIdentityChecked(k, asked, name)
  PROVE  PersonInv'
<1>1. /\ UNCHANGED <<label, cards, people, nicks, mails, reviewed>> /\ boot' = boot
      /\ cards[k].name # "none" /\ asked \in 0 .. Len(people)
      /\ \E p : /\ p = IF resolve_safe_identity_person(k, asked) = {} THEN 0
                       ELSE CHOOSE q \in resolve_safe_identity_person(k, asked) : TRUE
                /\ safe' = [kind |-> "identity", key |-> k, person |-> p, name |-> name]
  BY DEF SafeIdentityChecked
<1>2. PICK p : /\ p = IF resolve_safe_identity_person(k, asked) = {} THEN 0
                      ELSE CHOOSE q \in resolve_safe_identity_person(k, asked) : TRUE
               /\ safe' = [kind |-> "identity", key |-> k, person |-> p, name |-> name]
  BY <1>1
<1>3. resolve_safe_identity_person(k, asked) \subseteq 0 .. Len(people)
  <2>1. cards[k].person \in 0 .. Len(people)
    BY RowFacts DEF PersonInv, CardsKnown
  <2>2. PersonsOf(cards, k[2]) \subseteq 0 .. Len(people)
    BY DEF PersonInv, CardsKnown, PersonsOf, OfUser
  <2> QED
    BY <1>1, <2>1, <2>2 DEF resolve_safe_identity_person
<1>4. p \in 0 .. Len(people)
  BY <1>2, <1>3 DEF PersonInv, CardsKnown
<1>5. SafeInv'
  BY <1>1, <1>2, <1>4 DEF SafeInv
<1>6. Len(people) \in Nat /\ Len(people) <= Len(people')
  BY <1>1 DEF PersonInv, CardsKnown
<1>7. BootInv'
  BY <1>1, <1>6, OthersRest, BootStays
<1> QED
  BY <1>1, <1>5, <1>7, OthersRest DEF PersonInv

LEMMA AliasChecked ==
  ASSUME PersonInv, NEW p, NEW name, SafeAliasChecked(p, name)
  PROVE  PersonInv'
<1>1. /\ UNCHANGED <<label, cards, people, nicks, mails, reviewed>> /\ boot' = boot
      /\ p \in DOMAIN people /\ safe' = [kind |-> "alias", person |-> p, name |-> name]
  BY DEF SafeAliasChecked
<1>2. SafeInv'
  BY <1>1 DEF SafeInv, PersonInv, CardsKnown
<1>3. Len(people) \in Nat /\ Len(people) <= Len(people')
  BY <1>1 DEF PersonInv, CardsKnown
<1>4. BootInv'
  BY <1>1, <1>3, OthersRest, BootStays
<1> QED
  BY <1>1, <1>2, <1>4, OthersRest DEF PersonInv

LEMMA AliasInserted ==
  ASSUME PersonInv, insert_safe_alias
  PROVE  PersonInv'
<1>1. /\ UNCHANGED <<label, cards, roster, people, mails, boot>> /\ safe' = NoSafe /\ reviewed' = TRUE
      /\ nicks' = nicks \cup {<<safe.person, safe.name>>} /\ safe.kind = "alias"
  BY DEF insert_safe_alias
<1>2. NicksKnown'
  BY <1>1 DEF PersonInv, NicksKnown, SafeInv
<1>3. CardsKnown' /\ RowsInv' /\ MailsInv' /\ LinkedInv' /\ Grows
  BY <1>1 DEF PersonInv, CardsKnown, RowsInv, MailsInv, LinkedInv, Grows
<1>4. SafeInv' /\ BorneInv' /\ CircleInv'
  BY <1>1 DEF SafeInv, NoSafe, BorneInv, CircleInv
<1>5. Len(people) \in Nat /\ Len(people) <= Len(people')
  BY <1>1 DEF PersonInv, CardsKnown
<1>6. BootInv'
  BY <1>1, <1>3, <1>5, BootStays
<1> QED
  BY <1>2, <1>3, <1>4, <1>6 DEF PersonInv

\* The roster of a chat gives rows their names.
LEMMA RosterNamed ==
  ASSUME PersonInv, NEW block, NEW here, apply_room_member_identities(block, here)
  PROVE  PersonInv'
<1>1. /\ here \subseteq ChatKeys /\ here \cap Locked = {}
      /\ cards' = [k \in AllKeys |-> IF k \in here THEN [cards[k] EXCEPT !.name = label[k]] ELSE cards[k]]
      /\ UNCHANGED <<label, people, nicks, mails, boot, safe, reviewed>>
  BY DEF apply_room_member_identities
<1>2. DOMAIN cards' = AllKeys
  BY <1>1
<1>3. ASSUME NEW k \in AllKeys
      PROVE  /\ cards'[k].person = cards[k].person /\ DOMAIN cards'[k] = {"name", "person"}
             /\ k \notin here => cards'[k] = cards[k]
             /\ k \in here => cards'[k].name = label[k]
  <2>1. DOMAIN cards[k] = {"name", "person"}
    BY DEF PersonInv, CardsKnown
  <2>2. cards'[k] = IF k \in here THEN [cards[k] EXCEPT !.name = label[k]] ELSE cards[k]
    BY <1>1
  <2> QED
    BY <2>1, <2>2
<1>4. Grows
  BY <1>3 DEF Grows
<1>5. CardsKnown'
  BY <1>1, <1>2, <1>3 DEF PersonInv, CardsKnown
<1>6. RowsInv'
  <2>1. \A u \in Senders : cards'[Plat(u)] = cards[Plat(u)]
    BY <1>1, <1>3, RowFacts
  <2> QED
    BY <1>1, <1>3, <2>1, RowFacts DEF PersonInv, RowsInv
<1>7. MailsInv'
  BY <1>1, <1>4, MailsStay
<1>8. LinkedInv'
  BY <1>1, <1>3, RowFacts DEF PersonInv, LinkedInv
<1>9. NicksKnown' /\ SafeInv'
  <2>1. safe.kind = "identity" => cards'[safe.key].name # "none"
    BY <1>1, <1>3, RowFacts, PersonKeys DEF PersonInv, SafeInv, CardsKnown
  <2> QED
    BY <1>1, <2>1 DEF PersonInv, NicksKnown, SafeInv
<1>10. BorneInv'
  <2>1. \A j \in ChatKeys : cards'[j].person = cards[j].person
    BY <1>3, RowFacts
  <2>2. \A u \in Senders : cards'[Plat(u)] = cards[Plat(u)]
    BY <1>1, <1>3, RowFacts
  <2>3. ~reviewed => \A p \in DOMAIN people : Borne(p, people[p])'
    BY <1>1, <2>1 DEF PersonInv, BorneInv, Borne
  <2>4. ~reviewed => \A a \in nicks : Borne(a[1], a[2])'
    BY <1>1, <2>1 DEF PersonInv, BorneInv, Borne
  <2>5. ASSUME ~reviewed, NEW u \in Senders, cards[Plat(u)].person # 0
        PROVE  \E j \in ChatKeys : cards'[j].person = cards'[Plat(u)].person /\ label'[j] = cards'[Plat(u)].name
    <3>1. PICK j \in ChatKeys : cards[j].person = cards[Plat(u)].person /\ label[j] = cards[Plat(u)].name
      BY <2>5 DEF PersonInv, BorneInv, Borne
    <3>2. label' = label
      BY <1>1
    <3>3. cards'[Plat(u)] = cards[Plat(u)]
      BY <2>2
    <3>4. cards'[j].person = cards'[Plat(u)].person
      BY <2>1, <3>1, <3>3
    <3>5. label'[j] = cards'[Plat(u)].name
      BY <3>1, <3>2, <3>3
    <3> QED
      BY <3>4, <3>5
  <2>6. ~reviewed => \A u \in Senders : cards'[Plat(u)].person # 0 => Borne(cards[Plat(u)].person, cards[Plat(u)].name)'
    BY <2>2, <2>5 DEF Borne
  <2>7. reviewed' = reviewed /\ people' = people /\ nicks' = nicks
    BY <1>1
  <2> QED
    BY <2>3, <2>4, <2>6, <2>7 DEF BorneInv
<1>11. CircleInv'
  <2>1. ASSUME NEW u \in Senders PROVE PersonsOf(cards', u) = PersonsOf(cards, u)
    BY <1>3 DEF PersonsOf, OfUser
  <2> QED
    BY <1>1, <2>1, CircleStays
<1>12. Len(people) \in Nat /\ Len(people) <= Len(people') /\ \A k \in Locked : cards'[k] = cards[k]
  <2>1. \A k \in Locked : k \in AllKeys /\ k \notin here
    BY <1>1, RowFacts DEF PersonInv, BootInv, Locked, NoBoot
  <2> QED
    BY <1>1, <1>3, <2>1 DEF PersonInv, CardsKnown
<1>13. BootInv'
  BY <1>1, <1>4, <1>12, BootStays
<1> QED
  BY <1>5, <1>6, <1>7, <1>8, <1>9, <1>10, <1>11, <1>13 DEF PersonInv

-----------------------------------------------------------------------------
\* A user of one person gets it everywhere: from the rows c to the rows d.
FilledIn(u, n, c, d) ==
    /\ DOMAIN d = AllKeys
    /\ \A j \in AllKeys : /\ DOMAIN d[j] = {"name", "person"} /\ d[j].person \in 0 .. n
                          /\ c[j].person # 0 => d[j].person = c[j].person
                          /\ j \notin OfUser(u) => d[j] = c[j]
    /\ \A j \in ChatKeys : d[j].name = c[j].name /\ (d[j].person # 0 => c[j].person # 0 \/ c[j].name # "none")
    /\ \/ d[Plat(u)].name = c[Plat(u)].name /\ d[Plat(u)].person = c[Plat(u)].person
       \/ \E j \in ChatKeys : j[2] = u /\ c[j].person # 0 /\ c[Plat(u)].person = 0
                                    /\ d[Plat(u)].person = c[j].person /\ d[Plat(u)].name = c[j].name
    /\ \A v \in Senders : PersonsOf(d, v) = PersonsOf(c, v)
    /\ \A q \in Nat : Cardinality(PersonsOf(c, u)) = 1 /\ q \in PersonsOf(c, u) => d[Plat(u)].person = q

LEMMA Filled ==
  ASSUME NEW u \in Senders, NEW c, NEW n \in Nat, DOMAIN c = AllKeys,
         \A j \in AllKeys : DOMAIN c[j] = {"name", "person"} /\ c[j].person \in 0 .. n,
         c[Plat(u)].name = "none" <=> c[Plat(u)].person = 0,
         NEW d, d = materialize_platform_identity(c, u)
  PROVE  FilledIn(u, n, c, d)
<1>1. CASE Cardinality(PersonsOf(c, u)) # 1
  BY <1>1 DEF materialize_platform_identity, FilledIn
<1>2. CASE Cardinality(PersonsOf(c, u)) = 1
  <2>1. PersonsOf(c, u) \subseteq 1 .. n
    BY DEF PersonsOf, OfUser
  <2>2. PICK p \in 1 .. n : PersonsOf(c, u) = {p}
    BY <1>2, <2>1, OneOf
  <2>3. d = [k \in AllKeys |->
            CASE k = <<"all", u>> ->
                   [name |-> IF c[k].name = "none"
                             THEN c[CHOOSE j \in OfUser(u) : c[j].person = p].name ELSE c[k].name,
                    person |-> p]
              [] k \in OfUser(u) /\ k \in ChatKeys /\ c[k].name # "none" /\ c[k].person = 0 ->
                   [c[k] EXCEPT !.person = p]
              [] OTHER -> c[k]]
    BY <1>2, <2>2 DEF materialize_platform_identity
  <2>4. /\ d[Plat(u)].person = p /\ DOMAIN d[Plat(u)] = {"name", "person"}
        /\ d[Plat(u)].name = IF c[Plat(u)].name = "none" THEN c[CHOOSE j \in OfUser(u) : c[j].person = p].name
                             ELSE c[Plat(u)].name
        /\ d[Plat(u)] = [name |-> d[Plat(u)].name, person |-> p]
    BY <2>3, RowFacts DEF Plat
  <2>5. ASSUME NEW j \in AllKeys, j # Plat(u)
        PROVE  /\ d[j].name = c[j].name /\ DOMAIN d[j] = {"name", "person"}
               /\ d[j].person = c[j].person \/ (d[j].person = p /\ c[j].person = 0 /\ c[j].name # "none" /\ j \in OfUser(u))
               /\ j \notin OfUser(u) => d[j] = c[j]
    <3>1. d[j] = IF j \in OfUser(u) /\ j \in ChatKeys /\ c[j].name # "none" /\ c[j].person = 0
                 THEN [c[j] EXCEPT !.person = p] ELSE c[j]
      BY <2>3, <2>5 DEF Plat
    <3>2. DOMAIN c[j] = {"name", "person"}
      OBVIOUS
    <3> QED
      BY <3>1, <3>2
  <2>6. \A j \in OfUser(u) : c[j].person \in {0, p}
    BY <2>2 DEF PersonsOf
  <2>7. Plat(u) \in OfUser(u) /\ Plat(u) \in AllKeys /\ Plat(u) \notin ChatKeys
    BY RowFacts, OwnRows
  <2>8. ASSUME NEW v \in Senders PROVE PersonsOf(d, v) = PersonsOf(c, v)
    <3>1. CASE v = u
      <4>1. \A j \in OfUser(u) : d[j].person \in {0, p}
        BY <2>4, <2>5, <2>6 DEF OfUser
      <4>2. p \in PersonsOf(d, u)
        BY <2>4, <2>7 DEF PersonsOf
      <4> QED
        BY <2>2, <3>1, <4>1, <4>2 DEF PersonsOf
    <3>2. CASE v # u
      <4>1. \A j \in OfUser(v) : j \in AllKeys /\ j \notin OfUser(u) /\ j # Plat(u)
        BY <3>2, RowFacts DEF OfUser
      <4> QED
        BY <2>5, <4>1 DEF PersonsOf
    <3> QED
      BY <3>1, <3>2
  <2>9. \/ d[Plat(u)].name = c[Plat(u)].name /\ d[Plat(u)].person = c[Plat(u)].person
        \/ \E j \in ChatKeys : j[2] = u /\ c[j].person # 0 /\ c[Plat(u)].person = 0
                                     /\ d[Plat(u)].person = c[j].person /\ d[Plat(u)].name = c[j].name
    <3>1. CASE c[Plat(u)].person = 0
      <4>1. PICK j \in OfUser(u) : j = (CHOOSE i \in OfUser(u) : c[i].person = p) /\ c[j].person = p
        BY <2>2 DEF PersonsOf
      <4>2. j \in ChatKeys /\ j[2] = u
        BY <3>1, <4>1, OwnRows
      <4>3. c[Plat(u)].name = "none"
        BY <3>1
      <4>4. d[Plat(u)].name = c[j].name
        BY <2>4, <4>1, <4>3
      <4>5. d[Plat(u)].person = c[j].person /\ c[j].person # 0
        BY <2>4, <4>1
      <4> QED
        BY <3>1, <4>2, <4>4, <4>5, Zenon
    <3>2. CASE c[Plat(u)].person # 0
      <4>1. c[Plat(u)].person = p /\ c[Plat(u)].name # "none"
        BY <2>6, <2>7, <3>2
      <4>2. d[Plat(u)].name = c[Plat(u)].name /\ d[Plat(u)].person = c[Plat(u)].person
        BY <2>4, <4>1
      <4> QED
        BY <4>2
    <3> QED
      BY <3>1, <3>2
  <2>10. DOMAIN d = AllKeys
    BY <2>3
  <2>11. \A j \in AllKeys : /\ DOMAIN d[j] = {"name", "person"} /\ d[j].person \in 0 .. n
                            /\ c[j].person # 0 => d[j].person = c[j].person
                            /\ j \notin OfUser(u) => d[j] = c[j]
    BY <2>2, <2>4, <2>5, <2>6, <2>7
  <2>12. \A j \in ChatKeys : d[j].name = c[j].name /\ (d[j].person # 0 => c[j].person # 0 \/ c[j].name # "none")
    BY <2>5, <2>7, RowFacts
  <2> QED
    BY <2>2, <2>4, <2>8, <2>9, <2>10, <2>11, <2>12 DEF FilledIn
<1> QED
  BY <1>1, <1>2

\* A message whose sender is known gets the name of its row, and its person.
LEMMA IdentityApplied ==
  ASSUME PersonInv, NEW k, apply_identity(k)
  PROVE  PersonInv'
<1>1. PICK c, d, m : /\ c = upsert_channel_identity(cards, k) /\ d = materialize_platform_identity(c, k[2])
                     /\ m = linked_messages(c, k[2]) /\ cards' = d
                     /\ mails' = [m EXCEPT ![k] = [st |-> "linked",
                            person |-> IF mails[k].person # 0 THEN mails[k].person
                                       ELSE IF c[k].person # 0 THEN c[k].person ELSE m[k].person]]
  BY DEF apply_identity
<1>2. PICK u \in Senders : u = k[2] /\ k \in ChatKeys /\ k \in AllKeys /\ k # Plat(u)
  BY RowFacts DEF apply_identity, load_identity_keys
<1>3. PICK n \in Nat : n = Len(people)
  BY DEF PersonInv, CardsKnown
<1>4. UNCHANGED <<label, people, nicks, boot, safe, reviewed>> /\ OfUser(u) \cap Locked = {}
  BY <1>2 DEF apply_identity
<1>5. /\ DOMAIN c = AllKeys /\ c[k].name = label[k]
      /\ \A j \in AllKeys : /\ DOMAIN c[j] = {"name", "person"} /\ c[j].person = cards[j].person /\ c[j].person \in 0 .. n
                            /\ j # k => c[j] = cards[j]
  BY <1>1, <1>2, <1>3 DEF upsert_channel_identity, PersonInv, CardsKnown
<1>6. \A v \in Senders : c[Plat(v)] = cards[Plat(v)]
  BY <1>2, <1>5, RowFacts
<1>7. ASSUME NEW j \in ChatKeys
      PROVE  c[j].name \in {"none", label[j]} /\ (c[j].person # 0 => c[j].name = label[j])
  BY <1>5, RowFacts DEF PersonInv, RowsInv
<1>8. \A v \in Senders : c[Plat(v)].name = "none" <=> c[Plat(v)].person = 0
  BY <1>6 DEF PersonInv, RowsInv
<1>9. /\ DOMAIN d = AllKeys
      /\ \A j \in AllKeys : /\ DOMAIN d[j] = {"name", "person"} /\ d[j].person \in 0 .. n
                            /\ c[j].person # 0 => d[j].person = c[j].person
                            /\ j \notin OfUser(u) => d[j] = c[j]
      /\ \A j \in ChatKeys : d[j].name = c[j].name /\ (d[j].person # 0 => c[j].person # 0 \/ c[j].name # "none")
      /\ \/ d[Plat(u)].name = c[Plat(u)].name /\ d[Plat(u)].person = c[Plat(u)].person
         \/ \E j \in ChatKeys : j[2] = u /\ c[j].person # 0 /\ c[Plat(u)].person = 0
                                 /\ d[Plat(u)].person = c[j].person /\ d[Plat(u)].name = c[j].name
      /\ \A v \in Senders : PersonsOf(d, v) = PersonsOf(c, v)
      /\ \A q \in Nat : Cardinality(PersonsOf(c, u)) = 1 /\ q \in PersonsOf(c, u) => d[Plat(u)].person = q
  <2>1. c[Plat(u)].name = "none" <=> c[Plat(u)].person = 0
    BY <1>8
  <2>2. FilledIn(u, n, c, d)
    BY <1>1, <1>2, <1>5, <2>1, Filled
  <2> QED
    BY <2>2 DEF FilledIn
<1>10. Grows
  BY <1>1, <1>5, <1>9 DEF Grows
<1>11. CardsKnown'
  BY <1>1, <1>3, <1>4, <1>9 DEF PersonInv, CardsKnown
<1>12. ASSUME NEW v \in Senders, v # u PROVE d[Plat(v)] = c[Plat(v)]
  BY <1>9, <1>12, RowFacts DEF OfUser
<1>13. ASSUME NEW v \in Senders
       PROVE  \/ d[Plat(v)].name = c[Plat(v)].name /\ d[Plat(v)].person = c[Plat(v)].person
              \/ \E j \in ChatKeys : /\ j[2] = v /\ d[j].person # 0 /\ d[j].person = d[Plat(v)].person
                                     /\ d[Plat(v)].name = label[j]
  BY <1>7, <1>9, <1>12, RowFacts
<1>14. RowsInv'
  <2>1. ASSUME NEW j \in ChatKeys PROVE d[j].name \in {"none", label[j]} /\ (d[j].person # 0 => d[j].name = label[j])
    BY <1>7, <1>9
  <2>2. ASSUME NEW v \in Senders PROVE d[Plat(v)].name = "none" <=> d[Plat(v)].person = 0
    <3>1. \A j \in ChatKeys : label[j] # "none"
      BY PersonKeys DEF PersonInv, CardsKnown
    <3> QED
      BY <1>8, <1>13, <3>1
  <2> QED
    BY <1>1, <1>4, <2>1, <2>2 DEF RowsInv
<1>15. \A v \in Senders : PersonsOf(cards', v) = PersonsOf(cards, v)
  <2>1. \A v : PersonsOf(c, v) = PersonsOf(cards, v)
    BY <1>5 DEF PersonsOf, OfUser
  <2> QED
    BY <1>1, <1>9, <2>1
<1>16. MailsInv'
  <2>1. ASSUME NEW j \in ChatKeys
        PROVE  /\ DOMAIN m[j] = {"st", "person"}
               /\ m[j].person # 0 => m[j].person = d[j].person \/ m[j].person = d[Plat(j[2])].person
    <3>1. m[j] = IF /\ j \in OfUser(u) /\ mails[j].st # "none" /\ mails[j].person = 0 /\ Cardinality(PersonsOf(c, u)) = 1
                 THEN [mails[j] EXCEPT !.person = CHOOSE p \in PersonsOf(c, u) : TRUE] ELSE mails[j]
      BY <1>1, <1>2 DEF linked_messages
    <3>2. /\ DOMAIN mails[j] = {"st", "person"}
          /\ mails[j].person # 0 => mails[j].person = cards[j].person \/ mails[j].person = cards[Plat(j[2])].person
      BY DEF PersonInv, MailsInv
    <3>3. CASE m[j] = mails[j]
      BY <1>1, <1>10, <3>2, <3>3, RowFacts DEF Grows
    <3>4. CASE j \in OfUser(u) /\ Cardinality(PersonsOf(c, u)) = 1 /\ m[j] # mails[j]
      <4>1. PersonsOf(c, u) \subseteq 1 .. n
        BY <1>5 DEF PersonsOf, OfUser
      <4>2. PICK p \in 1 .. n : PersonsOf(c, u) = {p}
        BY <3>4, <4>1, OneOf
      <4>3. d[Plat(u)].person = p
        BY <1>9, <3>4, <4>2
      <4>4. DOMAIN m[j] = {"st", "person"} /\ m[j].person = p
        BY <3>1, <3>2, <3>4, <4>2
      <4> QED
        BY <3>4, <4>3, <4>4 DEF OfUser
    <3> QED
      BY <3>1, <3>3, <3>4
  <2>2. DOMAIN mails' = ChatKeys /\ \A j \in ChatKeys : j # k => mails'[j] = m[j]
    BY <1>1, <1>2 DEF linked_messages
  <2>3. mails'[k] = [st |-> "linked", person |-> IF mails[k].person # 0 THEN mails[k].person
                                                 ELSE IF c[k].person # 0 THEN c[k].person ELSE m[k].person]
    BY <1>1, <1>2 DEF linked_messages
  <2>4. mails[k].person # 0 => mails[k].person = d[k].person \/ mails[k].person = d[Plat(u)].person
    BY <1>1, <1>2, <1>10, RowFacts DEF Grows, PersonInv, MailsInv
  <2>5. DOMAIN mails'[k] = {"st", "person"} /\ (mails'[k].person # 0 =>
            mails'[k].person = d[k].person \/ mails'[k].person = d[Plat(k[2])].person)
    BY <1>2, <1>9, <2>1, <2>3, <2>4
  <2> QED
    BY <1>1, <2>1, <2>2, <2>5 DEF MailsInv
<1>17. LinkedInv'
  <2>1. ASSUME NEW v \in Senders, d[Plat(v)].person # 0
        PROVE  \E j \in ChatKeys : j[2] = v /\ d[j].person = d[Plat(v)].person
    BY <1>1, <1>5, <1>6, <1>9, <1>10, <1>13, <2>1, LinkedStay, RowFacts
  <2> QED
    BY <1>1, <1>4, <1>10, <2>1, LinkedStay DEF LinkedInv
<1>18. NicksKnown' /\ SafeInv'
  <2>1. ASSUME NEW j \in ChatKeys, cards[j].name # "none" PROVE d[j].name # "none"
    <3>1. label[j] # "none" /\ j \in AllKeys
      BY RowFacts, PersonKeys DEF PersonInv, CardsKnown
    <3>2. c[j].name # "none"
      BY <1>5, <2>1, <3>1
    <3> QED
      BY <1>9, <3>2
  <2> QED
    BY <1>1, <1>4, <2>1 DEF PersonInv, NicksKnown, SafeInv
<1>19. BorneInv'
  <2>1. ~reviewed => \A p \in DOMAIN people : Borne(p, people[p])'
    <3>1. ASSUME ~reviewed, NEW p \in DOMAIN people PROVE \E j \in ChatKeys : cards'[j].person = p /\ label[j] = people[p]
      BY <1>10, <3>1, RowFacts DEF PersonInv, CardsKnown, BorneInv, Borne, Grows
    <3> QED
      BY <1>4, <3>1 DEF Borne
  <2>2. ~reviewed => \A a \in nicks : Borne(a[1], a[2])'
    <3>1. ASSUME ~reviewed, NEW a \in nicks PROVE \E j \in ChatKeys : cards'[j].person = a[1] /\ label[j] = a[2]
      BY <1>10, <3>1, RowFacts DEF PersonInv, NicksKnown, BorneInv, Borne, Grows
    <3> QED
      BY <1>4, <3>1 DEF Borne
  <2>3. ASSUME ~reviewed, NEW v \in Senders, d[Plat(v)].person # 0
        PROVE  \E j \in ChatKeys : d[j].person = d[Plat(v)].person /\ label[j] = d[Plat(v)].name
    <3>1. CASE d[Plat(v)].name = c[Plat(v)].name /\ d[Plat(v)].person = c[Plat(v)].person
      <4>1. PICK j \in ChatKeys : cards[j].person = d[Plat(v)].person /\ label[j] = d[Plat(v)].name
        BY <1>6, <2>3, <3>1 DEF PersonInv, BorneInv, Borne
      <4> QED
        BY <1>1, <1>10, <2>3, <4>1, RowFacts DEF Grows
    <3> QED
      BY <1>13, <3>1
  <2> QED
    BY <1>1, <1>4, <2>1, <2>2, <2>3 DEF BorneInv, Borne
<1>20. CircleInv'
  BY <1>4, <1>15, CircleStays
<1>21. BootInv'
  <2>1. ASSUME NEW j \in Locked PROVE cards'[j] = cards[j]
    BY <1>1, <1>2, <1>4, <1>5, <1>9, RowFacts DEF PersonInv, BootInv, Locked, NoBoot, OfUser
  <2> QED
    BY <1>3, <1>4, <1>10, <2>1, BootStays
<1> QED
  BY <1>11, <1>14, <1>16, <1>17, <1>18, <1>19, <1>20, <1>21 DEF PersonInv

\* A reviewed link is written, or undone if the row has another person by now.
LEMMA IdentityLinked ==
  ASSUME PersonInv, apply_safe_identity
  PROVE  PersonInv'
<1>1. PICK k, p : /\ k = safe.key /\ p = (IF safe.person = 0 THEN Len(people) + 1 ELSE safe.person)
                  /\ \/ UNCHANGED <<cards, people, nicks, mails, reviewed>>
                     \/ /\ cards[k].person \in {0, p} /\ people' = create_safe_identity_person
                        /\ nicks' = nicks \cup {<<p, safe.name>>}
                        /\ cards' = materialize_safe_identity_platform_identity(link_safe_identity(p), k, p)
                        /\ mails' = backfill_safe_identity_messages(k, p)
                        /\ reviewed' = TRUE
  BY DEF apply_safe_identity
<1>2. UNCHANGED <<label, roster, boot>> /\ safe' = NoSafe /\ k \notin Locked
  BY <1>1 DEF apply_safe_identity
<1>3. SafeInv'
  BY <1>2 DEF SafeInv, NoSafe
<1>4. PICK n \in Nat : n = Len(people)
  BY DEF PersonInv, CardsKnown
<1>5. CASE UNCHANGED <<cards, people, nicks, mails, reviewed>>
  <2>1. BootInv'
    BY <1>2, <1>4, <1>5, OthersRest, BootStays
  <2> QED
    BY <1>2, <1>3, <1>5, <2>1, OthersRest DEF PersonInv
<1>6. CASE /\ cards[k].person \in {0, p} /\ people' = create_safe_identity_person
           /\ nicks' = nicks \cup {<<p, safe.name>>}
           /\ cards' = materialize_safe_identity_platform_identity(link_safe_identity(p), k, p)
           /\ mails' = backfill_safe_identity_messages(k, p)
           /\ reviewed' = TRUE
  <2>1. PICK u \in Senders : u = k[2] /\ k \in ChatKeys /\ k \in AllKeys /\ k # Plat(u) /\ Plat(u) \in AllKeys
    BY <1>1, RowFacts DEF apply_safe_identity, PersonInv, SafeInv
  <2>2. safe.person \in 0 .. n /\ safe.name \in GivenNames /\ cards[k].name = label[k] /\ label[k] # "none"
    BY <1>1, <1>4, <2>1, PersonKeys DEF apply_safe_identity, PersonInv, SafeInv, RowsInv, CardsKnown
  <2>3. PICK n2 \in Nat : /\ n2 = Len(people') /\ n <= n2 /\ p \in 1 .. n2 /\ (n2 = n \/ (n2 = n + 1 /\ p = n2))
                          /\ people' \in Seq(NickNames \cup GivenNames)
    <3>1. people \in Seq(NickNames \cup GivenNames)
      BY DEF PersonInv, CardsKnown
    <3>2. CASE safe.person = 0
      BY <1>1, <1>4, <1>6, <2>2, <3>1, <3>2 DEF create_safe_identity_person
    <3>3. CASE safe.person # 0
      BY <1>1, <1>4, <1>6, <2>2, <3>1, <3>3 DEF create_safe_identity_person
    <3> QED
      BY <3>2, <3>3
  <2>4. PICK c : c = link_safe_identity(p)
    OBVIOUS
  <2>5. /\ DOMAIN c = AllKeys /\ c[k].name = cards[k].name /\ c[k].person = p /\ DOMAIN c[k] = {"name", "person"}
        /\ \A j \in AllKeys : j # k => c[j] = cards[j]
    BY <1>1, <2>1, <2>4 DEF link_safe_identity, PersonInv, CardsKnown
  <2>6. /\ DOMAIN cards' = AllKeys
        /\ \A j \in AllKeys : j # Plat(u) => cards'[j] = c[j]
        /\ \/ cards'[Plat(u)] = cards[Plat(u)]
           \/ cards[Plat(u)].person \in {0, p} /\ cards'[Plat(u)] = [name |-> label[k], person |-> p]
    BY <1>6, <2>1, <2>2, <2>4, <2>5 DEF materialize_safe_identity_platform_identity, Plat
  <2>7. cards'[k].person = p /\ cards'[k].name = label[k]
    BY <2>1, <2>2, <2>5, <2>6
  <2>8. \A j \in AllKeys : j # k /\ j # Plat(u) => cards'[j] = cards[j]
    BY <2>5, <2>6
  <2>9. Grows
    BY <1>6, <2>3, <2>6, <2>7, <2>8 DEF Grows
  <2>10. CardsKnown'
    <3>1. ASSUME NEW j \in AllKeys PROVE DOMAIN cards'[j] = {"name", "person"} /\ cards'[j].person \in 0 .. n2
      <4>1. DOMAIN cards[j] = {"name", "person"} /\ cards[j].person \in 0 .. n2
        BY <1>4, <2>3 DEF PersonInv, CardsKnown
      <4>2. CASE j = k
        BY <2>1, <2>3, <2>5, <2>6, <2>7, <4>2
      <4>3. CASE j = Plat(u)
        BY <2>3, <2>6, <4>1, <4>3
      <4> QED
        BY <2>8, <4>1, <4>2, <4>3
    <3> QED
      BY <1>2, <2>3, <2>6, <3>1 DEF PersonInv, CardsKnown
  <2>11. RowsInv'
    <3>1. ASSUME NEW j \in ChatKeys
          PROVE  cards'[j].name \in {"none", label[j]} /\ (cards'[j].person # 0 => cards'[j].name = label[j])
      BY <2>1, <2>7, <2>8, RowFacts DEF PersonInv, RowsInv
    <3>2. ASSUME NEW v \in Senders PROVE cards'[Plat(v)].name = "none" <=> cards'[Plat(v)].person = 0
      <4>1. cards[Plat(v)].name = "none" <=> cards[Plat(v)].person = 0
        BY DEF PersonInv, RowsInv
      <4>2. CASE v = u
        BY <2>2, <2>3, <2>6, <4>1, <4>2
      <4>3. CASE v # u
        BY <2>1, <2>8, <4>1, <4>3, RowFacts
      <4> QED
        BY <4>2, <4>3
    <3> QED
      BY <1>2, <3>1, <3>2 DEF RowsInv
  <2>12. MailsInv'
    <3>1. mails' = IF mails[k].st = "linked" /\ mails[k].person = 0 THEN [mails EXCEPT ![k].person = p] ELSE mails
      BY <1>6 DEF backfill_safe_identity_messages
    <3>2. /\ DOMAIN mails' = ChatKeys
          /\ \A j \in ChatKeys : DOMAIN mails'[j] = {"st", "person"} /\ (mails'[j].person = mails[j].person \/ (j = k /\ mails'[j].person = p))
      BY <2>1, <3>1 DEF PersonInv, MailsInv
    <3>3. ASSUME NEW j \in ChatKeys, mails[j].person # 0
          PROVE  mails[j].person = cards'[j].person \/ mails[j].person = cards'[Plat(j[2])].person
      BY <2>9, <3>3, RowFacts DEF PersonInv, MailsInv, Grows
    <3> QED
      BY <2>7, <3>2, <3>3 DEF MailsInv
  <2>13. LinkedInv'
    <3>1. ASSUME NEW q \in 1 .. n2 PROVE \E j \in ChatKeys : cards'[j].person = q
      <4>1. CASE q \in 1 .. n
        BY <1>4, <2>9, <4>1, LinkedStay DEF PersonInv, CardsKnown
      <4>2. CASE q = p
        BY <2>1, <2>7, <4>2
      <4> QED
        BY <1>4, <2>3, <4>1, <4>2
    <3>2. ASSUME NEW v \in Senders, cards'[Plat(v)].person # 0
          PROVE  \E j \in ChatKeys : j[2] = v /\ cards'[j].person = cards'[Plat(v)].person
      <4>1. CASE cards'[Plat(v)] = cards[Plat(v)]
        BY <2>9, <3>2, <4>1, LinkedStay
      <4>2. CASE v = u /\ cards'[Plat(v)].person = p
        BY <2>1, <2>7, <4>2
      <4> QED
        BY <2>1, <2>6, <2>8, <4>1, <4>2, RowFacts
    <3>3. DOMAIN people' = 1 .. n2
      BY <2>3
    <3> QED
      BY <3>1, <3>2, <3>3 DEF LinkedInv
  <2>14. NicksKnown'
    BY <1>4, <1>6, <2>3 DEF PersonInv, NicksKnown
  <2>15. BorneInv' /\ CircleInv'
    BY <1>6 DEF BorneInv, CircleInv
  <2>16. BootInv'
    <3>1. ASSUME NEW j \in Locked PROVE cards'[j] = cards[j]
      BY <1>2, <2>1, <2>8, RowFacts DEF PersonInv, BootInv, Locked, NoBoot
    <3> QED
      BY <1>2, <1>4, <1>6, <2>3, <2>9, <3>1, BootStays
  <2> QED
    BY <1>3, <2>10, <2>11, <2>12, <2>13, <2>14, <2>15, <2>16 DEF PersonInv
<1> QED
  BY <1>1, <1>5, <1>6


-----------------------------------------------------------------------------
NewUsers == {k[2] : k \in create_sources}

\* The new users are numbered without a gap.
LEMMA NumberFacts ==
  ASSUME create_sources \subseteq ChatKeys, NEW f \in Numbering(NewUsers)
  PROVE  /\ IsFiniteSet(NewUsers) /\ Cardinality(NewUsers) \in Nat /\ DOMAIN f = NewUsers
         /\ \A u \in NewUsers : f[u] \in 1 .. Cardinality(NewUsers)
         /\ \A u, v \in NewUsers : f[u] = f[v] => u = v
         /\ \A i \in 1 .. Cardinality(NewUsers) : \E u \in NewUsers : f[u] = i
<1>1. IsFiniteSet(create_sources)
  BY FS_Subset, PersonKeys
<1>2. PICK g : g = [k \in create_sources |-> k[2]]
  OBVIOUS
<1>3. IsFiniteSet({g[k] : k \in create_sources})
  BY <1>1, <1>2, FiniteValues
<1>4. {g[k] : k \in create_sources} = NewUsers
  BY <1>2 DEF NewUsers
<1>5. IsFiniteSet(NewUsers)
  BY <1>3, <1>4
<1>6. PICK n \in Nat : n = Cardinality(NewUsers)
  BY <1>5, FS_CardinalityType
<1>7. f \in [NewUsers -> 1 .. n] /\ \A u, v \in NewUsers : f[u] = f[v] => u = v
  BY <1>6 DEF Numbering
<1>8. f \in Injection(NewUsers, 1 .. n)
  BY <1>7 DEF Injection, IsInjective
<1>9. IsFiniteSet(1 .. n) /\ Cardinality(1 .. n) = n
  <2>1. 1 \in Int /\ n \in Int
    OBVIOUS
  <2>2. IsFiniteSet(1 .. n) /\ Cardinality(1 .. n) = IF 1 > n THEN 0 ELSE n - 1 + 1
    BY <2>1, FS_Interval
  <2> QED
    BY <2>2
<1>10. f \in Surjection(NewUsers, 1 .. n)
  BY <1>6, <1>8, <1>9, FS_Injection
<1> QED
  BY <1>5, <1>6, <1>7, <1>10 DEF Surjection

LEMMA SourceFacts ==
  ASSUME PersonInv, boot # NoBoot, NEW k \in boot.locked
  PROVE  /\ k \in ChatKeys /\ k \in AllKeys /\ k \in boot.scope /\ k[2] \in Senders
         /\ boot.cards[k].person = 0 /\ boot.cards[k].name = label[k] /\ label[k] \in NickNames
         /\ cards[k].person = 0 /\ cards[k].name = label[k]
BY RowFacts DEF PersonInv, BootInv, CardsKnown

\* What an existing person is linked by.
LEMMA ExistingFacts ==
  ASSUME PersonInv, boot # NoBoot, NEW k \in existing_links
  PROVE  \E p \in 1 .. Len(people) :
            /\ classify_unlinked_identity_action(k) = {p}
            /\ PersonsOf(boot.cards, k[2]) = {p} \/ p \in BootNames(label[k])
<1>1. PICK n \in Nat : n = Len(people)
  BY DEF PersonInv, CardsKnown
<1>2. k \in boot.locked /\ classify_unlinked_identity_action(k) # {} /\ classify_unlinked_identity_action(k) # {0}
  BY DEF existing_links
<1>3. PICK A, B : A = PersonsOf(boot.cards, k[2]) /\ B = BootNames(label[k])
  OBVIOUS
<1>4. A \subseteq 1 .. n
  BY <1>1, <1>3 DEF PersonsOf, OfUser, PersonInv, BootInv
<1>5. B \subseteq 1 .. n
  BY <1>1, <1>2, <1>3, SourceFacts DEF PersonInv, BootInv
<1>6. classify_unlinked_identity_action(k) =
        CASE Cardinality(A) = 1 -> A
          [] A = {} /\ Cardinality(B) = 1 -> B
          [] A = {} /\ B = {} -> {0}
          [] OTHER -> {}
  BY <1>2, <1>3, SourceFacts DEF classify_unlinked_identity_action, BootNames
<1>7. Cardinality(A) = 1 \/ (A = {} /\ Cardinality(B) = 1)
  BY <1>2, <1>6
<1>8. CASE Cardinality(A) = 1
  <2>1. A # {}
    BY <1>8, FS_EmptySet
  <2>2. classify_unlinked_identity_action(k) = A
    BY <1>6, <1>8, <2>1
  <2>3. \E x \in A : A = {x}
    BY <1>1, <1>4, <1>8, OneOf
  <2> QED
    BY <1>1, <1>3, <1>4, <2>2, <2>3
<1>9. CASE A = {} /\ Cardinality(B) = 1
  <2>1. Cardinality(A) # 1 /\ B # {}
    BY <1>9, FS_EmptySet
  <2>2. classify_unlinked_identity_action(k) = B
    BY <1>6, <1>9, <2>1
  <2>3. \E x \in B : B = {x}
    BY <1>1, <1>5, <1>9, OneOf
  <2> QED
    BY <1>1, <1>3, <1>5, <2>2, <2>3
<1> QED
  BY <1>7, <1>8, <1>9

\* The links that the bootstrap makes.
LEMMA LinkFacts ==
  ASSUME PersonInv, boot # NoBoot, NEW f \in Numbering(NewUsers), NEW L, L = linked(f)
  PROVE  /\ DOMAIN L \subseteq boot.locked /\ create_sources \subseteq DOMAIN L /\ create_sources \subseteq ChatKeys
         /\ \A k \in DOMAIN L : \/ k \in create_sources /\ L[k] = Len(people) + f[k[2]]
                                \/ /\ L[k] \in 1 .. Len(people)
                                   /\ PersonsOf(boot.cards, k[2]) = {L[k]} \/ L[k] \in BootNames(label[k])
         /\ \A k \in create_sources : L[k] = Len(people) + f[k[2]] /\ k[2] \in NewUsers
<1>1. /\ DOMAIN L = existing_links \cup create_sources
      /\ \A k \in DOMAIN L : L[k] = IF k \in create_sources THEN created_links(f)[k]
                                    ELSE CHOOSE p \in classify_unlinked_identity_action(k) : TRUE
  BY DEF linked
<1>2. existing_links \subseteq boot.locked /\ create_sources \subseteq boot.locked
  BY DEF existing_links, create_sources
<1>3. create_sources \subseteq ChatKeys
  BY <1>2, SourceFacts
<1>4. ASSUME NEW k \in create_sources PROVE L[k] = Len(people) + f[k[2]] /\ k[2] \in NewUsers
  BY <1>1 DEF created_links, NewUsers
<1>5. ASSUME NEW k \in DOMAIN L, k \notin create_sources
      PROVE  /\ L[k] \in 1 .. Len(people)
             /\ PersonsOf(boot.cards, k[2]) = {L[k]} \/ L[k] \in BootNames(label[k])
  <2>1. PICK p \in 1 .. Len(people) :
            /\ classify_unlinked_identity_action(k) = {p}
            /\ PersonsOf(boot.cards, k[2]) = {p} \/ p \in BootNames(label[k])
    BY <1>1, <1>5, ExistingFacts
  <2>2. L[k] = p
    BY <1>1, <1>5, <2>1
  <2> QED
    BY <2>1, <2>2
<1> QED
  BY <1>1, <1>2, <1>3, <1>4, <1>5

\* A platform row the bootstrap writes is of a user whose rows name one person.
LEMMA PlatformFacts ==
  ASSUME PersonInv, boot # NoBoot, NEW f \in Numbering(NewUsers), NEW L, L = linked(f),
         NEW Q, Q = platform_identities(f), NEW u \in DOMAIN Q
  PROVE  /\ Q[u] # 0 /\ PersonsOf(boot.cards, u) \subseteq {Q[u]} /\ u \in Senders
         /\ \E j \in ChatKeys : j[2] = u /\ (j \in DOMAIN L \/ boot.cards[j].person # 0)
         /\ \A j \in ChatKeys : j[2] = u => /\ j \in DOMAIN L => L[j] = Q[u]
                                            /\ boot.cards[j].person # 0 => boot.cards[j].person = Q[u]
<1>1. PICK n \in Nat, s \in Nat : n = Len(people) /\ s = Cardinality(NewUsers)
  BY LinkFacts, NumberFacts DEF PersonInv, CardsKnown
<1>2. /\ DOMAIN L \subseteq ChatKeys
      /\ \A k \in DOMAIN L : L[k] \in 1 .. n + s
  <2>1. \A k \in DOMAIN L : k \in ChatKeys
    BY LinkFacts, SourceFacts
  <2>2. \A v \in NewUsers : f[v] \in 1 .. s
    BY <1>1, LinkFacts, NumberFacts
  <2>3. ASSUME NEW k \in DOMAIN L PROVE L[k] \in 1 .. n + s
    BY <1>1, <2>2, LinkFacts
  <2> QED
    BY <2>1, <2>3
<1>3. PICK K : K = PersonsOf(boot.cards, u) \cup {L[k] : k \in OfUser(u) \cap DOMAIN L}
  OBVIOUS
<1>4. /\ \E j \in {i \in boot.scope : boot.cards[i].person # 0} \cup DOMAIN L : u = j[2]
      /\ Cardinality(K) = 1 /\ Q[u] = CHOOSE p \in K : TRUE
  BY <1>3 DEF platform_identities
<1>5. boot.scope \subseteq ChatKeys
  BY DEF PersonInv, BootInv
<1>6. u \in Senders
  BY <1>2, <1>4, <1>5, RowFacts
<1>7. K \subseteq 1 .. n + s
  <2>1. PersonsOf(boot.cards, u) \subseteq 1 .. n
    BY <1>1 DEF PersonsOf, OfUser, PersonInv, BootInv
  <2> QED
    BY <1>2, <1>3, <2>1
<1>8. PICK x \in 1 .. n + s : K = {x}
  BY <1>4, <1>7, OneOf
<1>9. Q[u] = x /\ x # 0
  BY <1>4, <1>8
<1>10. ASSUME NEW j \in ChatKeys, j[2] = u
       PROVE  (j \in DOMAIN L => L[j] = x) /\ (boot.cards[j].person # 0 => boot.cards[j].person = x)
  <2>1. j \in OfUser(u)
    BY <1>10, RowFacts DEF OfUser
  <2> QED
    BY <1>3, <1>8, <2>1 DEF PersonsOf
<1> QED
  BY <1>2, <1>3, <1>4, <1>5, <1>6, <1>8, <1>9, <1>10

\* What the commit writes.
CommitMade(f, L, Q, n, s) ==
    /\ label' = label /\ reviewed' = reviewed /\ safe' = safe /\ boot' = NoBoot
    /\ people' \in Seq(NickNames \cup GivenNames) /\ Len(people') = n + s
    /\ \A i \in 1 .. n : people'[i] = people[i]
    /\ \A i \in 1 .. s : \E k \in create_sources : f[k[2]] = i /\ people'[n + i] = label[k]
    /\ nicks' = nicks \cup alias_sources(f) /\ mails' = updated_messages
    /\ DOMAIN cards' = AllKeys
    /\ \A j \in ChatKeys : /\ cards'[j].name = cards[j].name /\ DOMAIN cards'[j] = {"name", "person"}
                           /\ cards'[j].person = IF j \in DOMAIN L THEN L[j] ELSE cards[j].person
    /\ \A u \in Senders : /\ DOMAIN cards'[Plat(u)] = {"name", "person"}
                          /\ \/ cards'[Plat(u)] = cards[Plat(u)]
                             \/ /\ u \in DOMAIN Q /\ cards[Plat(u)].person \in {0, Q[u]} /\ cards'[Plat(u)].person = Q[u]
                                /\ \E j \in ChatKeys : /\ j[2] = u /\ cards'[Plat(u)].name = boot.cards[j].name
                                                       /\ j \in DOMAIN L \/ boot.cards[j].person # 0

LEMMA CommitFacts ==
  ASSUME PersonInv, BootstrapCommits
  PROVE  /\ boot # NoBoot
         /\ \E f \in Numbering(NewUsers) :
               CommitMade(f, linked(f), platform_identities(f), Len(people), Cardinality(NewUsers))
<1>1. boot # NoBoot /\ UNCHANGED <<label, roster, safe, reviewed>> /\ boot' = NoBoot
  BY DEF BootstrapCommits
<1>2. PICK f \in Numbering(NewUsers) :
          /\ cards' = [k \in AllKeys |->
                CASE k \in DOMAIN linked(f) -> [cards[k] EXCEPT !.person = linked(f)[k]]
                  [] k[1] = "all" /\ k[2] \in DOMAIN platform_identities(f)
                       /\ cards[k].person \in {0, platform_identities(f)[k[2]]} ->
                       [name |-> boot.cards[CHOOSE j \in ChatKeys : j[2] = k[2] /\
                                    (j \in DOMAIN linked(f) \/ boot.cards[j].person # 0)].name,
                        person |-> platform_identities(f)[k[2]]]
                  [] OTHER -> cards[k]]
          /\ people' = people \o [i \in 1..Cardinality(DOMAIN f) |->
                boot.cards[CHOOSE k \in create_sources : f[k[2]] = i].name]
          /\ nicks' = nicks \cup alias_sources(f)
          /\ mails' = updated_messages
  BY DEF BootstrapCommits, NewUsers
<1>3. PICK L, Q : L = linked(f) /\ Q = platform_identities(f)
  OBVIOUS
<1>4. /\ DOMAIN L \subseteq boot.locked /\ create_sources \subseteq ChatKeys /\ DOMAIN L \subseteq ChatKeys
      /\ \A k \in create_sources : k \in boot.locked
  BY <1>1, <1>3, LinkFacts, SourceFacts
<1>5. PICK n \in Nat, s \in Nat : n = Len(people) /\ s = Cardinality(NewUsers)
  BY <1>4, NumberFacts DEF PersonInv, CardsKnown
<1>6. PICK new : new = [i \in 1 .. s |-> boot.cards[CHOOSE k \in create_sources : f[k[2]] = i].name]
  OBVIOUS
<1>7. people' = people \o new
  BY <1>2, <1>4, <1>5, <1>6, NumberFacts
<1>8. ASSUME NEW i \in 1 .. s PROVE \E k \in create_sources : f[k[2]] = i /\ new[i] = label[k] /\ label[k] \in NickNames
  <2>1. \E u \in NewUsers : f[u] = i
    BY <1>4, <1>5, NumberFacts
  <2>2. PICK k \in create_sources : k = (CHOOSE j \in create_sources : f[j[2]] = i) /\ f[k[2]] = i
    BY <2>1 DEF NewUsers
  <2>3. new[i] = label[k] /\ label[k] \in NickNames
    BY <1>1, <1>4, <1>6, <2>2, SourceFacts
  <2> QED
    BY <2>2, <2>3
<1>9. new \in Seq(NickNames \cup GivenNames) /\ Len(new) = s
  BY <1>5, <1>6, <1>8
<1>10. /\ people' \in Seq(NickNames \cup GivenNames) /\ Len(people') = n + s
       /\ \A i \in 1 .. n : people'[i] = people[i]
       /\ \A i \in 1 .. s : people'[n + i] = new[i]
  <2>1. people \in Seq(NickNames \cup GivenNames)
    BY DEF PersonInv, CardsKnown
  <2> QED
    BY <1>5, <1>7, <1>9, <2>1
<1>11. DOMAIN cards' = AllKeys
  BY <1>2
<1>12. ASSUME NEW j \in ChatKeys
       PROVE  /\ cards'[j].name = cards[j].name /\ DOMAIN cards'[j] = {"name", "person"}
              /\ cards'[j].person = IF j \in DOMAIN L THEN L[j] ELSE cards[j].person
  <2>1. j \in AllKeys /\ j[1] # "all" /\ DOMAIN cards[j] = {"name", "person"}
    BY RowFacts, PersonKeys DEF PersonInv, CardsKnown
  <2>2. cards'[j] = IF j \in DOMAIN L THEN [cards[j] EXCEPT !.person = L[j]] ELSE cards[j]
    BY <1>2, <1>3, <2>1
  <2> QED
    BY <2>1, <2>2
<1>13. ASSUME NEW u \in Senders
       PROVE  /\ DOMAIN cards'[Plat(u)] = {"name", "person"}
              /\ \/ cards'[Plat(u)] = cards[Plat(u)]
                 \/ /\ u \in DOMAIN Q /\ cards[Plat(u)].person \in {0, Q[u]} /\ cards'[Plat(u)].person = Q[u]
                    /\ \E j \in ChatKeys : /\ j[2] = u /\ cards'[Plat(u)].name = boot.cards[j].name
                                           /\ j \in DOMAIN L \/ boot.cards[j].person # 0
  <2>1. /\ Plat(u) \in AllKeys /\ Plat(u)[1] = "all" /\ Plat(u)[2] = u /\ Plat(u) \notin DOMAIN L
        /\ DOMAIN cards[Plat(u)] = {"name", "person"}
    BY <1>4, RowFacts DEF PersonInv, CardsKnown
  <2>2. PICK g : g = (CHOOSE j \in ChatKeys : j[2] = u /\ (j \in DOMAIN L \/ boot.cards[j].person # 0))
    OBVIOUS
  <2>3. cards'[Plat(u)] = IF u \in DOMAIN Q /\ cards[Plat(u)].person \in {0, Q[u]}
                          THEN [name |-> boot.cards[g].name, person |-> Q[u]] ELSE cards[Plat(u)]
    BY <1>2, <1>3, <2>1, <2>2
  <2>4. ASSUME u \in DOMAIN Q PROVE g \in ChatKeys /\ g[2] = u /\ (g \in DOMAIN L \/ boot.cards[g].person # 0)
    <3>1. \E j \in ChatKeys : j[2] = u /\ (j \in DOMAIN L \/ boot.cards[j].person # 0)
      BY <1>1, <1>3, <2>4, PlatformFacts
    <3> QED
      BY <2>2, <3>1
  <2>5. CASE u \in DOMAIN Q /\ cards[Plat(u)].person \in {0, Q[u]}
    BY <2>3, <2>4, <2>5
  <2> QED
    BY <2>1, <2>3, <2>5
<1>14. \A i \in 1 .. s : \E k \in create_sources : f[k[2]] = i /\ people'[n + i] = label[k]
  BY <1>8, <1>10
<1>15. nicks' = nicks \cup alias_sources(f) /\ mails' = updated_messages
  BY <1>2
<1>16. CommitMade(f, L, Q, n, s)
  BY <1>1, <1>10, <1>11, <1>12, <1>13, <1>14, <1>15, Zenon DEF CommitMade
<1> QED
  BY <1>1, <1>3, <1>5, <1>16

\* A circle grows by those who share a name with one of it.
LEMMA CircleGrows ==
  ASSUME NEW S, NEW T, S \subseteq T, T \subseteq Senders, S # {}, HangTogether(S), \A t \in T \ S : \E u \in S : SameName(t, u)
  PROVE  HangTogether(T)
<1> SUFFICES ASSUME NEW U \in SUBSET T, U # {}, U # T PROVE \E u \in U, v \in T \ U : SameName(u, v)
  BY DEF HangTogether
<1>1. \A u, v : SameName(u, v) <=> SameName(v, u)
  BY DEF SameName
<1>2. CASE S \subseteq U
  BY <1>1, <1>2
<1>3. CASE S \cap U = {}
  BY <1>3
<1>4. CASE S \cap U # {} /\ ~(S \subseteq U)
  <2>1. (S \cap U) \in (SUBSET S) \ {{}, S}
    BY <1>4
  <2>2. PICK u \in S \cap U, v \in S \ (S \cap U) : SameName(u, v)
    BY <2>1 DEF HangTogether
  <2> QED
    BY <2>2
<1> QED
  BY <1>2, <1>3, <1>4

LEMMA BootCommits ==
  ASSUME PersonInv, BootstrapCommits
  PROVE  PersonInv'
<1>1. boot # NoBoot
  BY CommitFacts
<1>a. PICK f \in Numbering(NewUsers) :
          CommitMade(f, linked(f), platform_identities(f), Len(people), Cardinality(NewUsers))
  BY CommitFacts
<1>b. create_sources \subseteq ChatKeys
  BY <1>1, LinkFacts
<1>c. PICK n \in Nat, s \in Nat : n = Len(people) /\ s = Cardinality(NewUsers)
  BY <1>b, NumberFacts DEF PersonInv, CardsKnown
<1>d. PICK L, Q : L = linked(f) /\ Q = platform_identities(f)
  OBVIOUS
<1>2. /\ n = Len(people) /\ s = Cardinality(NewUsers) /\ L = linked(f) /\ Q = platform_identities(f)
      /\ CommitMade(f, L, Q, n, s)
  BY <1>a, <1>c, <1>d
<1>e. \A j \in ChatKeys : /\ DOMAIN cards'[j] = {"name", "person"}
                           /\ cards'[j].person = IF j \in DOMAIN L THEN L[j] ELSE cards[j].person
  BY <1>2 DEF CommitMade
<1>3. /\ DOMAIN L \subseteq boot.locked /\ create_sources \subseteq DOMAIN L /\ create_sources \subseteq ChatKeys
      /\ \A k \in DOMAIN L : \/ k \in create_sources /\ L[k] = n + f[k[2]]
                             \/ /\ L[k] \in 1 .. n
                                /\ PersonsOf(boot.cards, k[2]) = {L[k]} \/ L[k] \in BootNames(label[k])
      /\ \A k \in create_sources : L[k] = n + f[k[2]] /\ k[2] \in NewUsers
  BY <1>1, <1>2, LinkFacts
<1>4. /\ \A u \in NewUsers : f[u] \in 1 .. s
      /\ \A u, v \in NewUsers : f[u] = f[v] => u = v
  BY <1>2, <1>3, NumberFacts
<1>5. ASSUME NEW k \in DOMAIN L
      PROVE  /\ k \in ChatKeys /\ k[2] \in Senders /\ boot.cards[k].person = 0 /\ boot.cards[k].name = label[k]
             /\ cards[k].person = 0 /\ cards[k].name = label[k] /\ label[k] \in NickNames
             /\ L[k] \in 1 .. n + s /\ cards'[k].person = L[k]
  <2>1. L[k] \in 1 .. n + s
    BY <1>3, <1>4
  <2> QED
    BY <1>1, <1>2, <1>3, <2>1, SourceFacts DEF CommitMade
<1>6. ASSUME NEW u \in DOMAIN Q
      PROVE  /\ Q[u] # 0 /\ u \in Senders /\ PersonsOf(boot.cards, u) \subseteq {Q[u]}
             /\ \A j \in ChatKeys : j[2] = u => /\ j \in DOMAIN L => L[j] = Q[u]
                                                /\ boot.cards[j].person # 0 => boot.cards[j].person = Q[u]
  BY <1>1, <1>2, <1>3, PlatformFacts
<1>7. ASSUME NEW j \in ChatKeys, boot.cards[j].person # 0
      PROVE  /\ j \notin DOMAIN L /\ boot.cards[j].name = label[j] /\ boot.cards[j].person \in 1 .. n
             /\ cards[j].person = boot.cards[j].person /\ cards'[j].person = boot.cards[j].person
  BY <1>1, <1>2, <1>5, <1>7, RowFacts DEF CommitMade, PersonInv, BootInv
\* A row of the platform that is written has a row of its user with that person and name.
<1>8. ASSUME NEW u \in Senders, cards'[Plat(u)] # cards[Plat(u)]
      PROVE  /\ u \in DOMAIN Q /\ cards[Plat(u)].person \in {0, Q[u]} /\ cards'[Plat(u)].person = Q[u]
             /\ \E j \in ChatKeys : /\ j[2] = u /\ cards'[Plat(u)].name = label[j] /\ cards'[j].person = Q[u]
                                    /\ j \in DOMAIN L \/ boot.cards[j].person # 0
  <2>1. PICK j \in ChatKeys : /\ j[2] = u /\ cards'[Plat(u)].name = boot.cards[j].name
                              /\ j \in DOMAIN L \/ boot.cards[j].person # 0
    BY <1>2, <1>8 DEF CommitMade
  <2>2. u \in DOMAIN Q /\ cards[Plat(u)].person \in {0, Q[u]} /\ cards'[Plat(u)].person = Q[u]
    BY <1>2, <1>8 DEF CommitMade
  <2> QED
    BY <1>5, <1>6, <1>7, <2>1, <2>2
<1>9. Grows
  <2>1. ASSUME NEW j \in ChatKeys, cards[j].person # 0 PROVE cards'[j].person = cards[j].person
    BY <1>2, <1>5, <2>1 DEF CommitMade
  <2>2. ASSUME NEW u \in Senders, cards[Plat(u)].person # 0 PROVE cards'[Plat(u)].person = cards[Plat(u)].person
    BY <1>8, <2>2
  <2> QED
    BY <2>1, <2>2, RowFacts DEF Grows
<1>10. label' = label /\ reviewed' = reviewed /\ safe' = safe /\ boot' = NoBoot
  BY <1>2 DEF CommitMade
<1>11. DOMAIN people = 1 .. n /\ Len(people') = n + s /\ DOMAIN people' = 1 .. n + s
  BY <1>2 DEF CommitMade, PersonInv, CardsKnown
<1>12. CardsKnown'
  <2>1. \A k \in AllKeys : cards[k].person \in 0 .. n
    BY <1>2 DEF PersonInv, CardsKnown
  <2>2. ASSUME NEW j \in ChatKeys PROVE DOMAIN cards'[j] = {"name", "person"} /\ cards'[j].person \in 0 .. n + s
    BY <1>e, <1>5, <2>1, RowFacts
  <2>3. ASSUME NEW u \in Senders PROVE DOMAIN cards'[Plat(u)] = {"name", "person"} /\ cards'[Plat(u)].person \in 0 .. n + s
    <3>1. CASE cards'[Plat(u)] = cards[Plat(u)]
      BY <1>2, <2>1, <3>1, RowFacts DEF CommitMade
    <3>2. CASE cards'[Plat(u)] # cards[Plat(u)]
      BY <1>2, <1>8, <2>2, <3>2 DEF CommitMade
    <3> QED
      BY <3>1, <3>2
  <2>4. \A k \in AllKeys : DOMAIN cards'[k] = {"name", "person"} /\ cards'[k].person \in 0 .. n + s
    BY <2>2, <2>3, RowFacts
  <2> QED
    BY <1>2, <1>10, <1>11, <2>4 DEF CommitMade, PersonInv, CardsKnown
<1>13. RowsInv'
  <2>1. ASSUME NEW j \in ChatKeys
        PROVE  cards'[j].name \in {"none", label[j]} /\ (cards'[j].person # 0 => cards'[j].name = label[j])
    BY <1>2, <1>5 DEF CommitMade, PersonInv, RowsInv
  <2>2. ASSUME NEW u \in Senders PROVE cards'[Plat(u)].name = "none" <=> cards'[Plat(u)].person = 0
    <3>1. \A j \in ChatKeys : label[j] # "none"
      BY PersonKeys DEF PersonInv, CardsKnown
    <3>2. CASE cards'[Plat(u)] # cards[Plat(u)]
      BY <1>6, <1>8, <3>1, <3>2
    <3> QED
      BY <3>2 DEF PersonInv, RowsInv
  <2> QED
    BY <1>10, <2>1, <2>2 DEF RowsInv
<1>14. MailsInv'
  <2>1. /\ DOMAIN mails' = ChatKeys
        /\ \A k \in ChatKeys : mails'[k] = IF k \in boot.scope /\ boot.cards[k].person # 0 /\ mails[k].st = "linked" /\ mails[k].person = 0
                                           THEN [mails[k] EXCEPT !.person = boot.cards[k].person] ELSE mails[k]
    BY <1>2 DEF CommitMade, updated_messages
  <2>2. ASSUME NEW k \in ChatKeys
        PROVE  DOMAIN mails'[k] = {"st", "person"} /\ (mails'[k].person = mails[k].person \/ mails'[k].person = cards'[k].person)
    BY <1>7, <2>1 DEF PersonInv, MailsInv
  <2>3. ASSUME NEW k \in ChatKeys, mails[k].person # 0
        PROVE  mails[k].person = cards'[k].person \/ mails[k].person = cards'[Plat(k[2])].person
    BY <1>9, <2>3, RowFacts DEF PersonInv, MailsInv, Grows
  <2> QED
    BY <2>1, <2>2, <2>3 DEF MailsInv
<1>15. LinkedInv'
  <2>1. ASSUME NEW p \in 1 .. n + s PROVE \E j \in ChatKeys : cards'[j].person = p
    <3>1. CASE p \in 1 .. n
      BY <1>9, <1>11, <3>1, LinkedStay
    <3>2. CASE p \notin 1 .. n
      <4>1. PICK i \in 1 .. s : p = n + i
        <5>1. p - n \in 1 .. s /\ p = n + (p - n)
          BY <3>2
        <5> QED
          BY <5>1
      <4>2. PICK k \in create_sources : f[k[2]] = i
        BY <1>2 DEF CommitMade
      <4> QED
        BY <1>3, <1>5, <4>1, <4>2
    <3> QED
      BY <3>1, <3>2
  <2>2. ASSUME NEW u \in Senders, cards'[Plat(u)].person # 0
        PROVE  \E j \in ChatKeys : j[2] = u /\ cards'[j].person = cards'[Plat(u)].person
    <3>1. CASE cards'[Plat(u)] = cards[Plat(u)]
      BY <1>9, <2>2, <3>1, LinkedStay
    <3>2. CASE cards'[Plat(u)] # cards[Plat(u)]
      BY <1>8, <3>2
    <3> QED
      BY <3>1, <3>2
  <2> QED
    BY <1>11, <2>1, <2>2 DEF LinkedInv
\* Every alias the commit adds is the name of a row of that person.
<1>16. ASSUME NEW a \in alias_sources(f)
       PROVE  a[1] \in 1 .. n + s /\ \E j \in ChatKeys : cards'[j].person = a[1] /\ label[j] = a[2]
  <2>1. CASE \E k \in ChatKeys : boot.cards[k].person # 0 /\ a = <<boot.cards[k].person, boot.cards[k].name>>
    BY <1>7, <2>1
  <2>2. CASE \E k \in DOMAIN L : a = <<L[k], boot.cards[k].name>>
    BY <1>5, <2>2
  <2> QED
    BY <1>1, <1>2, <2>1, <2>2 DEF alias_sources, PersonInv, BootInv
<1>17. nicks' = nicks \cup alias_sources(f)
  BY <1>2 DEF CommitMade
<1>18. NicksKnown'
  BY <1>2, <1>11, <1>16, <1>17 DEF PersonInv, NicksKnown
<1>19. SafeInv'
  BY <1>2, <1>10, <1>11 DEF CommitMade, PersonInv, SafeInv
<1>20. BootInv'
  BY <1>10 DEF BootInv
<1>21. BorneInv'
  <2>1. ASSUME ~reviewed, NEW p \in 1 .. n + s PROVE \E j \in ChatKeys : cards'[j].person = p /\ label[j] = people'[p]
    <3>1. CASE p \in 1 .. n
      <4>1. PICK j \in ChatKeys : cards[j].person = p /\ label[j] = people[p]
        BY <1>11, <2>1, <3>1 DEF PersonInv, BorneInv, Borne
      <4> QED
        BY <1>2, <1>9, <3>1, <4>1, RowFacts DEF Grows, CommitMade
    <3>2. CASE p \notin 1 .. n
      <4>1. PICK i \in 1 .. s : p = n + i
        <5>1. p - n \in 1 .. s /\ p = n + (p - n)
          BY <3>2
        <5> QED
          BY <5>1
      <4>2. PICK k \in create_sources : f[k[2]] = i /\ people'[n + i] = label[k]
        BY <1>2 DEF CommitMade
      <4> QED
        BY <1>3, <1>5, <4>1, <4>2
    <3> QED
      BY <3>1, <3>2
  <2>2. ASSUME ~reviewed, NEW a \in nicks' PROVE \E j \in ChatKeys : cards'[j].person = a[1] /\ label[j] = a[2]
    <3>1. CASE a \in nicks
      <4>1. PICK j \in ChatKeys : cards[j].person = a[1] /\ label[j] = a[2]
        BY <2>2, <3>1 DEF PersonInv, BorneInv, Borne
      <4>2. a[1] # 0
        BY <3>1 DEF PersonInv, NicksKnown
      <4> QED
        BY <1>9, <4>1, <4>2, RowFacts DEF Grows
    <3> QED
      BY <1>16, <1>17, <2>2, <3>1
  <2>3. ASSUME ~reviewed, NEW u \in Senders, cards'[Plat(u)].person # 0
        PROVE  \E j \in ChatKeys : cards'[j].person = cards'[Plat(u)].person /\ label[j] = cards'[Plat(u)].name
    <3>1. CASE cards'[Plat(u)] = cards[Plat(u)]
      <4>1. PICK j \in ChatKeys : cards[j].person = cards[Plat(u)].person /\ label[j] = cards[Plat(u)].name
        BY <2>3, <3>1 DEF PersonInv, BorneInv, Borne
      <4> QED
        BY <1>9, <2>3, <3>1, <4>1, RowFacts DEF Grows
    <3>2. CASE cards'[Plat(u)] # cards[Plat(u)]
      BY <1>8, <3>2
    <3> QED
      BY <3>1, <3>2
  <2> QED
    BY <1>10, <1>11, <2>1, <2>2, <2>3 DEF BorneInv, Borne
\* Who comes to have a person of before shares a name with one who has it.
<1>22. ASSUME ~reviewed, NEW p \in 1 .. n, NEW u \in Senders, p \in PersonsOf(cards', u), p \notin PersonsOf(cards, u)
       PROVE  \E v \in Senders : p \in PersonsOf(cards, v) /\ SameName(u, v)
  <2>1. p \notin PersonsOf(boot.cards, u)
    <3>1. ASSUME NEW k \in OfUser(u), boot.cards[k].person = p PROVE FALSE
      <4>1. cards[k].person = p
        BY <1>1, <3>1 DEF OfUser, PersonInv, BootInv
      <4> QED
        BY <1>22, <3>1, <4>1 DEF PersonsOf
    <3> QED
      BY <3>1 DEF PersonsOf
  <2>2. PICK k \in DOMAIN L : k[2] = u /\ L[k] = p
    <3>1. CASE \E j \in ChatKeys : j[2] = u /\ cards'[j].person = p
      <4>1. PICK j \in ChatKeys : j[2] = u /\ cards'[j].person = p
        BY <3>1
      <4>2. cards[j].person # p
        BY <1>22, <4>1, PersonFacts
      <4> QED
        BY <1>2, <4>1, <4>2 DEF CommitMade
    <3>2. CASE cards'[Plat(u)].person = p
      <4>1. cards'[Plat(u)] # cards[Plat(u)]
        BY <1>22, <3>2, PersonFacts
      <4>2. PICK j \in ChatKeys : j[2] = u /\ cards'[j].person = p /\ (j \in DOMAIN L \/ boot.cards[j].person # 0)
        BY <1>8, <3>2, <4>1
      <4>3. boot.cards[j].person # p
        BY <1>22, <2>1, <4>2, PersonFacts
      <4> QED
        BY <1>5, <1>7, <4>2, <4>3
    <3> QED
      BY <1>22, <3>1, <3>2, PersonFacts
  <2>3. k \notin create_sources
    BY <1>3, <1>4, <2>2
  <2>4. p \in BootNames(label[k])
    BY <1>3, <2>1, <2>2, <2>3
  <2>5. Borne(p, label[k])
    BY <1>1, <1>5, <1>22, <2>4 DEF PersonInv, BootInv
  <2>6. PICK j \in ChatKeys : cards[j].person = p /\ label[j] = label[k]
    BY <2>5 DEF Borne
  <2>7. PICK v \in Senders : v = j[2]
    BY RowFacts
  <2>8. p \in PersonsOf(cards, v)
    BY <1>22, <2>6, <2>7, PersonFacts
  <2>9. SameName(u, v)
    BY <1>5, <2>2, <2>6, <2>7, RowFacts DEF SameName, OfUser
  <2> QED
    BY <2>7, <2>8, <2>9
\* A new person has one user.
<1>23. ASSUME NEW p \in 1 .. n + s, p \notin 1 .. n,
              NEW u \in Senders, p \in PersonsOf(cards', u), NEW v \in Senders, p \in PersonsOf(cards', v)
       PROVE  u = v
  <2>1. ASSUME NEW w \in Senders, p \in PersonsOf(cards', w) PROVE \E k \in create_sources : k[2] = w /\ L[k] = p
    <3>1. \A j \in AllKeys : cards[j].person \in 0 .. n
      BY <1>2 DEF PersonInv, CardsKnown
    <3>2. \A j \in DOMAIN L : L[j] = p => j \in create_sources
      BY <1>3, <1>23
    <3>3. CASE \E j \in ChatKeys : j[2] = w /\ cards'[j].person = p
      <4>1. PICK j \in ChatKeys : j[2] = w /\ cards'[j].person = p
        BY <3>3
      <4>2. cards[j].person # p
        BY <1>23, <3>1, RowFacts
      <4>3. j \in DOMAIN L /\ L[j] = p
        BY <1>e, <4>1, <4>2
      <4> QED
        BY <3>2, <4>1, <4>3
    <3>4. CASE cards'[Plat(w)].person = p
      <4>1. cards'[Plat(w)] # cards[Plat(w)]
        BY <1>23, <3>1, <3>4, RowFacts
      <4>2. PICK j \in ChatKeys : j[2] = w /\ cards'[j].person = p /\ (j \in DOMAIN L \/ boot.cards[j].person # 0)
        BY <1>8, <3>4, <4>1
      <4>3. j \in DOMAIN L
        BY <1>7, <1>23, <4>2
      <4> QED
        BY <1>5, <3>2, <4>2, <4>3
    <3> QED
      BY <2>1, <3>3, <3>4, PersonFacts
  <2>2. PICK j \in create_sources : j[2] = u /\ L[j] = p
    BY <1>23, <2>1
  <2>3. PICK k \in create_sources : k[2] = v /\ L[k] = p
    BY <1>23, <2>1
  <2>4. u \in NewUsers /\ v \in NewUsers /\ n + f[u] = n + f[v]
    BY <1>3, <2>2, <2>3
  <2>5. f[u] \in 1 .. s /\ f[v] \in 1 .. s
    BY <1>4, <2>4
  <2>6. f[u] = f[v]
    BY <2>4, <2>5
  <2> QED
    BY <1>4, <2>4, <2>6
<1>24. CircleInv'
  <2>1. ASSUME ~reviewed, NEW p \in 1 .. n PROVE HangTogether({u \in Senders : p \in PersonsOf(cards', u)})
    <3>1. PICK S : S = {u \in Senders : p \in PersonsOf(cards, u)}
      OBVIOUS
    <3>2. PICK T : T = {u \in Senders : p \in PersonsOf(cards', u)}
      OBVIOUS
    <3>3. HangTogether(S)
      BY <1>11, <2>1, <3>1 DEF PersonInv, CircleInv, Circle
    <3>4. S \subseteq T
      BY <1>9, <3>1, <3>2, RowFacts DEF PersonsOf, OfUser, Grows
    <3>5. S # {}
      <4>1. PICK k \in ChatKeys : cards[k].person = p
        BY <1>11 DEF PersonInv, LinkedInv
      <4>2. k[2] \in Senders /\ p \in PersonsOf(cards, k[2])
        BY <4>1, RowFacts, PersonFacts
      <4> QED
        BY <3>1, <4>2
    <3>6. \A t \in T \ S : \E u \in S : SameName(t, u)
      BY <1>22, <2>1, <3>1, <3>2
    <3>7. HangTogether(T)
      BY <3>2, <3>3, <3>4, <3>5, <3>6, CircleGrows
    <3> QED
      BY <3>2, <3>7
  <2>2. ASSUME NEW p \in 1 .. n + s, p \notin 1 .. n PROVE HangTogether({u \in Senders : p \in PersonsOf(cards', u)})
    BY <1>23, <2>2 DEF HangTogether
  <2>3. \A u, v : SameName(u, v)' = SameName(u, v)
    BY <1>10 DEF SameName
  <2>4. ASSUME ~reviewed, NEW p \in 1 .. n + s PROVE HangTogether({u \in Senders : p \in PersonsOf(cards', u)})
    BY <2>1, <2>2, <2>4
  <2> QED
    BY <1>10, <1>11, <2>3, <2>4 DEF CircleInv, Circle, HangTogether
<1> QED
  BY <1>12, <1>13, <1>14, <1>15, <1>18, <1>19, <1>20, <1>21, <1>24 DEF PersonInv

LEMMA PersonStep ==
  ASSUME PersonInv, PersonNext
  PROVE  PersonInv'
<1>1. CASE \E k \in ChatKeys : MessageArrives(k) \/ ADayLater(k) \/ apply_identity(k) \/ mark_unresolved(k)
  BY <1>1, MailSteps, IdentityApplied
<1>2. CASE \E block, here : apply_room_member_identities(block, here)
  BY <1>2, RosterNamed
<1>3. CASE (\E scope : run_bootstrap(scope)) \/ BootstrapCommits \/ BootstrapDies
  BY <1>3, BootBegins, BootCommits, BootDies
<1>4. CASE \E name \in GivenNames : \/ \E k \in ChatKeys, asked \in 0..MaxPeople : SafeIdentityChecked(k, asked, name)
                                    \/ \E p \in 1..MaxPeople : SafeAliasChecked(p, name)
  BY <1>4, IdentityChecked, AliasChecked
<1>5. CASE apply_safe_identity \/ insert_safe_alias
  BY <1>5, IdentityLinked, AliasInserted
<1> QED
  BY <1>1, <1>2, <1>3, <1>4, <1>5 DEF PersonNext, run_batch

LEMMA PersonsAtRest == PersonInv /\ UNCHANGED uvars => PersonInv'
<1> SUFFICES ASSUME PersonInv, UNCHANGED uvars PROVE PersonInv'
  OBVIOUS
<1>1. UNCHANGED <<label, cards, people, nicks, mails, reviewed>> /\ boot' = boot /\ safe' = safe
  BY DEF uvars
<1>2. Len(people) \in Nat /\ Len(people) <= Len(people')
  BY <1>1 DEF PersonInv, CardsKnown
<1>3. BootInv'
  BY <1>1, <1>2, OthersRest, BootStays
<1>4. SafeInv'
  BY <1>1 DEF PersonInv, SafeInv
<1> QED
  BY <1>1, <1>3, <1>4, OthersRest DEF PersonInv

LEMMA PersonsSafe == PersonInv => PersonsTrue
<1> SUFFICES ASSUME PersonInv PROVE PersonsTrue
  OBVIOUS
<1>1. \A k \in ChatKeys : mails[k].person # 0 => mails[k].person \in {cards[k].person, cards[<<"all", k[2]>>].person}
  BY DEF PersonInv, MailsInv, Plat
<1>2. \A p \in DOMAIN people : \E k \in ChatKeys : cards[k].person = p
  BY DEF PersonInv, LinkedInv
<1>3. \A u \in Senders : cards[<<"all", u>>].person # 0 =>
          \E k \in OfUser(u) \cap ChatKeys : cards[k].person = cards[<<"all", u>>].person
  BY OwnRows DEF PersonInv, LinkedInv, Plat
<1>4. ~reviewed => \A p \in DOMAIN people :
          LET users == {u \in Senders : p \in PersonsOf(cards, u)} IN
          \A U \in (SUBSET users) \ {{}, users} : \E u \in U, v \in users \ U : SameName(u, v)
  BY DEF PersonInv, CircleInv, Circle, HangTogether
<1> QED
  BY <1>1, <1>2, <1>3, <1>4 DEF PersonsTrue
=============================================================================
