---------------------------- MODULE MCBackOffice ----------------------------
(* The record keeping parts of the sidecar in one model.  Each keeps its own *)
(* tables and asks the others single questions (is this grant in force, is   *)
(* this identity confirmed) whose answers are state of the asking part and   *)
(* change by actions of its own; so a behaviour explores one part, chosen by *)
(* focus, with the others at rest.                                           *)
EXTENDS CollaborationPolicy, RuleLifecycle, BusinessActions, PaymentFeed,
        FeishuImageStore, ActivitySignals, ActivityTable, PersonIdentity,
        SpaceProgramming, WorkbenchAccounts, DailyDigest, MemberProfile,
        DailyReport, ChatReport, TLC

VARIABLE focus  \* the part this behaviour explores

\* Two users of a chat with the same name, one of them in a second chat with
\* another name.
ChatRows == {<<"c", "u">>, <<"d", "u">>, <<"c", "v">>}
Called == [k \in ChatRows |-> IF k[1] = "c" THEN "A" ELSE "B"]

\* What messages say: an interest, one under a vow of silence.
Said == {{"I like", "running"}, {"me", "silence", "I like"}}

\* What a chat says: terms that contain each other, one that is no topic, a
\* person under a name that another sender has too, an anonymous sender, the
\* markers and an advertisement.
Line(who, name, person, at, f) ==
    [who |-> who, name |-> name, person |-> person, hour |-> at, terms |-> f @@ [t \in Terms |-> 0],
     mark |-> "none", title |-> "none", noise |-> FALSE, text |-> <<who, f>>, size |-> 40, hints |-> 0]
Gossip ==
    {Line("u", "A", "p", 9, "garden" :> 1),
     Line("v", "B", "none", 9, ("rose garden" :> 2) @@ ("garden" :> 1)),
     Line("w", "A", "none", 9, "haha" :> 1),
     Line("x", "anonymous", "none", 10, "song" :> 1),
     [Line("v", "B", "none", 10, "song" :> 1) EXCEPT !.mark = "topic", !.title = "rose garden", !.hints = 1],
     [Line("u", "A", "p", 10, "relay" :> 0) EXCEPT !.mark = "relay", !.title = "relay"],
     [Line("u", "A", "p", 10, "garden" :> 1) EXCEPT !.mark = "colon"],
     [Line("u", "A", "p", 10, "garden" :> 1) EXCEPT !.noise = TRUE]}
Vocabulary == <<"garden", "rose garden", "song", "relay", "haha">>
TermSize(t) == CASE t = "garden" -> 3 [] t = "rose garden" -> 5 [] t = "relay" -> 6 [] OTHER -> 2
TermOrder(t) == CHOOSE i \in 1 .. 5 : Vocabulary[i] = t
TermParts == {<<"garden", "rose garden">>}
Remembered_ == "p" :> 1
Profiled == "q" :> 1

Init ==
    /\ focus \in {"policy", "rules", "business", "payments", "reminders",
                 "images", "signals", "cells", "followups", "persons",
                 "extension", "accounts", "digest", "profiles", "report",
                 "paper", "desks"}
    /\ DeskInit /\ PolicyInit /\ (focus # "policy" => /\ scope["child"] = "none" /\ Len(conns) = 1
                                          /\ \A q \in Staff : ledger[q] = "none")
    /\ ImageInit /\ (focus # "images" => conf = {} /\ pict.kind = "mirrored" /\ pict.flaw = "none")
    /\ TableInit /\ (focus # "cells" => column = "Text" /\ match = 1)
    /\ label = Called /\ PersonInit /\ RulesInit /\ BusinessInit /\ FeedInit
    /\ SignalsInit /\ ExtensionInit /\ AccountsInit /\ DigestInit /\ (focus # "digest" => opened) /\ ProfileInit /\ PipelineInit /\ ReportInit

allvars == <<focus, pvars, kvars, bvars, zvars, fvars, ivars, svars, tvars, uvars, evars, wvars, dvars, mvars, nvars, rvars>>

\* A state is told by the part in focus: the others never move.
Seen == <<focus, CASE focus = "policy" -> pvars
                   [] focus = "rules" -> kvars
                   [] focus = "business" -> bvars
                   [] focus = "desks" -> zvars
                   [] focus \in {"payments", "reminders"} -> fvars
                   [] focus = "images" -> ivars
                   [] focus = "signals" -> svars
                   [] focus \in {"cells", "followups"} -> tvars
                   [] focus = "persons" -> uvars
                   [] focus = "extension" -> evars
                   [] focus = "accounts" -> wvars
                   [] focus = "digest" -> dvars
                   [] focus = "profiles" -> mvars
                   [] focus = "report" -> nvars
                   [] focus = "paper" -> rvars>>

Policy == focus = "policy" /\ PolicyNext /\ UNCHANGED <<focus, kvars, bvars, fvars, ivars, svars, tvars, uvars, evars, wvars, dvars, mvars, nvars, rvars, zvars>>
Rules == focus = "rules" /\ RulesNext /\ UNCHANGED <<focus, pvars, bvars, fvars, ivars, svars, tvars, uvars, evars, wvars, dvars, mvars, nvars, rvars, zvars>>
Business == focus = "business" /\ BusinessNext /\ UNCHANGED <<focus, pvars, kvars, fvars, ivars, svars, tvars, uvars, evars, wvars, dvars, mvars, nvars, rvars, zvars>>
Desks == focus = "desks" /\ DeskNext /\ UNCHANGED <<focus, pvars, kvars, bvars, fvars, ivars, svars, tvars, uvars, evars, wvars, dvars, mvars, nvars, rvars>>
Payments == focus = "payments" /\ PaymentNext /\ UNCHANGED <<focus, pvars, kvars, bvars, ivars, svars, tvars, uvars, evars, wvars, dvars, mvars, nvars, rvars, zvars>>
Reminders == focus = "reminders" /\ ReminderNext /\ UNCHANGED <<focus, pvars, kvars, bvars, ivars, svars, tvars, uvars, evars, wvars, dvars, mvars, nvars, rvars, zvars>>
Images == focus = "images" /\ ImageNext /\ UNCHANGED <<focus, pvars, kvars, bvars, fvars, svars, tvars, uvars, evars, wvars, dvars, mvars, nvars, rvars, zvars>>
Signals == focus = "signals" /\ SignalsNext /\ UNCHANGED <<focus, pvars, kvars, bvars, fvars, ivars, tvars, uvars, evars, wvars, dvars, mvars, nvars, rvars, zvars>>
Cells == focus = "cells" /\ CellNext /\ UNCHANGED <<focus, pvars, kvars, bvars, fvars, ivars, svars, uvars, evars, wvars, dvars, mvars, nvars, rvars, zvars>>
Followups == focus = "followups" /\ FollowupNext /\ UNCHANGED <<focus, pvars, kvars, bvars, fvars, ivars, svars, uvars, evars, wvars, dvars, mvars, nvars, rvars, zvars>>
Identities == focus = "persons" /\ PersonNext /\ UNCHANGED <<focus, pvars, kvars, bvars, fvars, ivars, svars, tvars, evars, wvars, dvars, mvars, nvars, rvars, zvars>>
Extensions == focus = "extension" /\ ExtensionNext /\ UNCHANGED <<focus, pvars, kvars, bvars, fvars, ivars, svars, tvars, uvars, wvars, dvars, mvars, nvars, rvars, zvars>>
Workbench == focus = "accounts" /\ AccountsNext /\ UNCHANGED <<focus, pvars, kvars, bvars, fvars, ivars, svars, tvars, uvars, evars, dvars, mvars, nvars, rvars, zvars>>
Digests == focus = "digest" /\ DigestNext /\ UNCHANGED <<focus, pvars, kvars, bvars, fvars, ivars, svars, tvars, uvars, evars, wvars, mvars, nvars, rvars, zvars>>
Profiles == focus = "profiles" /\ ProfileNext /\ UNCHANGED <<focus, pvars, kvars, bvars, fvars, ivars, svars, tvars, uvars, evars, wvars, dvars, nvars, rvars, zvars>>
Reports == focus = "report" /\ PipelineNext /\ UNCHANGED <<focus, pvars, kvars, bvars, fvars, ivars, svars, tvars, uvars, evars, wvars, dvars, mvars, rvars, zvars>>
Papers == focus = "paper" /\ ReportNext /\ UNCHANGED <<focus, pvars, kvars, bvars, fvars, ivars, svars, tvars, uvars, evars, wvars, dvars, mvars, nvars, zvars>>

Next == \/ Policy \/ Rules \/ Business \/ Desks \/ Payments \/ Reminders \/ Images
        \/ Signals \/ Cells \/ Followups \/ Identities \/ Extensions \/ Workbench \/ Digests \/ Profiles \/ Reports \/ Papers

Spec == Init /\ [][Next]_allvars

\* Authority is bounded by the chain above it and by what was stopped, ended
\* or retired: AuthorityBounded and StopIsFinal.
AuthorityHolds ==
    /\ focus = "policy" => AuthorityBounded
    /\ focus = "rules" => StopIsFinal

\* Restoring a retired object gives no authority back.
NothingComesBack == [][focus = "policy" => RestoreGivesNothing]_pvars

\* What leaves the service takes effect once: EffectOnce and OrderOnce for the
\* PMS, PaymentOnce for the works of its payments, ReminderOnce for reminders.
OutsideOnce ==
    /\ focus = "business" => EffectOnce /\ OrderOnce
    /\ focus = "payments" => PaymentOnce
    /\ focus = "reminders" => ReminderOnce

\* What is recorded, or shown to people elsewhere, is what happened:
\* WorkbenchTrue for the Feishu table of images, SignalsTrue for the activity
\* signals of a chat, TableTrue for the activity table, PersonsTrue for who
\* sent a message, ExtensionTrue for requests to the programming extension,
\* AccountsTrue for sessions of the workbench, DigestTrue for a published
\* digest, ProfilesTrue for what is noted about members, PostedTrue for the
\* report image of a group, PaperTrue for the analysis behind it, DeskTrue for
\* what a shared work account is let do.
RecordsTrue ==
    /\ focus = "images" => WorkbenchTrue
    /\ focus = "signals" => SignalsTrue
    /\ focus \in {"cells", "followups"} => TableTrue
    /\ focus = "persons" => PersonsTrue
    /\ focus = "extension" => ExtensionTrue
    /\ focus = "accounts" => AccountsTrue
    /\ focus = "digest" => DigestTrue
    /\ focus = "profiles" => ProfilesTrue
    /\ focus = "report" => PostedTrue
    /\ focus = "paper" => PaperTrue
    /\ focus = "desks" => DeskTrue

\* Staff can be exchanged, and quotes and bills, in whole behaviours: the
\* ones explored stand for their mirror images.
AnyOf(S) == CHOOSE x \in S : TRUE
Unmirrored ==
    /\ Len(conns) > 1 => conns[2].person \in {Root, AnyOf(Staff)}
    /\ biz[1].by \in {NoClerk, AnyOf(Clerks)}
    /\ \A a \in Ids : biz[a].op = "book" /\ (\A b \in 1 .. (a - 1) : biz[b].op # "book")
                       => biz[a].key = AnyOf(Quotes)
    /\ log # <<>> => log[1].bill = AnyOf(Bills)
\* Bounds: two plans wait for the words of who started them; the requester or
\* the reviewer of rules is reassigned, not both.
OwnWords == biz[2].st # "none" => \A h \in heard : h.by = biz[h.a].by
OneReassigned == auth.q.grant + auth.v.grant <= MaxGrantId + 1
=============================================================================
