----------------------------- MODULE StakeSetup -----------------------------
(***************************************************************************)
(* A new stake from its creation by the operator to the end of its setup   *)
(* wizard, as its designated admin lives it: the claims two triggers mint, *)
(* the stake the tab resolves (ActiveStake), the gate that picks the page, *)
(* the wizard's writes under the rules, and the Complete Setup click that  *)
(* waits for the manager claim before it ends the setup for good.          *)
(***************************************************************************)
EXTENDS ActiveStake

CONSTANTS
    New,        \* the stakes whose setup is still to be done
    MaxMisses   \* bound: lost trigger runs, failed auto-adds, deletions

ASSUME StakeSetupAssumption == New \subseteq Stakes /\ MaxMisses \in Nat

VARIABLES
    exists,     \* stakes whose document exists
    complete,   \* stakes with setup_complete = true
    filled,     \* per stake, the steps that have what the wizard asks for
    admins,     \* stakes whose kindooManagers has the person, active
    events,     \* document writes whose trigger has not run
    tried,      \* tabs whose wizard has asked for its auto-add
    click,      \* per tab, the stake of a Complete Setup click and how far it is
    misses

ssVars == <<exists, complete, filled, admins, events, tried, click, misses>>
vars == <<asVars, ssVars>>
docs == <<exists, complete, filled, admins>>

Steps == {"stake", "building", "ward"}
Idle == [stake |-> None, step |-> "idle"]
Events == {"bootstrap", "managers"} \X Stakes

TypeOK ==
    /\ ASTypeOK
    /\ complete \subseteq exists /\ exists \subseteq Stakes /\ admins \subseteq exists
    /\ filled \in [Stakes -> SUBSET Steps]
    /\ events \subseteq Events /\ tried \subseteq Tabs /\ misses \in 0..MaxMisses
    /\ \A t \in Tabs : click[t].stake = None <=> click[t].step = "idle"

\* The person may manage older stakes already, and may be a superadmin.
Init ==
    /\ exists = Stakes \ New /\ complete = exists
    /\ filled = [s \in Stakes |-> IF s \in New THEN {} ELSE Steps]
    /\ admins \in SUBSET exists
    /\ claims \in [manager : {admins}, boot : {{}}, super : BOOLEAN]
    /\ local \in exists \cup {None}
    /\ tab = [t \in Tabs |-> [Opened EXCEPT !.token = claims]]
    /\ choice = [t \in Tabs |-> NoChoice]
    /\ events = {} /\ tried = {} /\ click = [t \in Tabs |-> Idle] /\ moves = 0 /\ misses = 0

(***************************************************************************)
(* The rules.                                                              *)
(***************************************************************************)
InSetup(s) == s \in exists \ complete
\* The person is the new stakes' bootstrap_admin_email, and nobody's else.
IsBootstrapAdmin(s) == InSetup(s) /\ s \in New
MayAdminister(token, s) == s \in token.manager \/ IsBootstrapAdmin(s)
MayReadStake(token, s) == s \in token.manager \/ token.super \/ InSetup(s)

(***************************************************************************)
(* The page a tab shows, once its stake document is read.                  *)
(***************************************************************************)
Gate(t) ==
    LET b == tab[t]
        s == b.shown
        roles == ~Settling(b)
    IN  CASE ~b.in -> "sign-in"
          [] b.in /\ s = None /\ Principal(b).super -> "authed"
          [] b.in /\ s = None /\ ~Principal(b).super -> IF roles THEN "pending" ELSE "not-authorized"
          [] b.in /\ s # None /\ ~MayReadStake(b.token, s) -> "not-authorized"
          [] b.in /\ s # None /\ MayReadStake(b.token, s) ->
               CASE s \notin exists -> IF roles THEN "setup-in-progress" ELSE "not-authorized"
                 [] InSetup(s) -> IF s \in New THEN "wizard" ELSE "setup-in-progress"
                 [] s \in complete -> IF roles THEN "authed" ELSE "not-authorized"

Wizard(t, s) == tab[t].shown = s /\ Gate(t) = "wizard"

(***************************************************************************)
(* The operator, and the triggers.                                         *)
(***************************************************************************)
CreateStake(s) ==
    /\ s \in New \ exists
    /\ exists' = exists \cup {s}
    /\ events' = events \cup {<<"bootstrap", s>>}
    /\ UNCHANGED <<asVars, complete, filled, admins, tried, click, misses>>

Claim(roles) == claims' = [claims EXCEPT !.manager = roles.manager, !.boot = roles.boot]
Handled(e) == events' = events \ {e} /\ UNCHANGED <<tab, local, moves, choice, docs, tried, click>>

RunBootstrap(s) ==
    /\ <<"bootstrap", s>> \in events
    /\ Claim([claims EXCEPT !.boot = IF InSetup(s) THEN @ \cup {s} ELSE @ \ {s}])
    /\ Handled(<<"bootstrap", s>>) /\ UNCHANGED misses

RunManagers(s) ==
    /\ <<"managers", s>> \in events
    /\ Claim([claims EXCEPT !.manager = IF s \in admins THEN @ \cup {s} ELSE @ \ {s}])
    /\ Handled(<<"managers", s>>) /\ UNCHANGED misses

\* userIndex has no entry for the person yet: the trigger returns.
MissManagers(s) ==
    /\ <<"managers", s>> \in events /\ misses < MaxMisses
    /\ misses' = misses + 1
    /\ Handled(<<"managers", s>>) /\ UNCHANGED claims

(***************************************************************************)
(* The wizard.                                                             *)
(***************************************************************************)
\* writeBootstrapAdminManagerDoc: merged, so it may be written again.
WriteAdmin(s) == admins' = admins \cup {s} /\ events' = events \cup {<<"managers", s>>}

\* On mount, and when the list of managers changes.
AutoAdd(t) ==
    /\ \E s \in New \ admins :
         Wizard(t, s) /\ t \notin tried /\ MayAdminister(tab[t].token, s) /\ WriteAdmin(s)
    /\ tried' = tried \cup {t}
    /\ UNCHANGED <<asVars, exists, complete, filled, click, misses>>

AutoAddFails(t) ==
    /\ misses < MaxMisses
    /\ \E s \in New \ admins : Wizard(t, s)
    /\ t \notin tried
    /\ tried' = tried \cup {t} /\ misses' = misses + 1
    /\ UNCHANGED <<asVars, docs, events, click>>

\* Every write is for the stake the tab shows, under its own token.
Fills(t, part) ==
    /\ \E s \in New :
         /\ Wizard(t, s) /\ part \notin filled[s] /\ MayAdminister(tab[t].token, s)
         /\ part = "ward" => "building" \in filled[s]
         /\ filled' = [filled EXCEPT ![s] = @ \cup {part}]
    /\ UNCHANGED <<asVars, exists, complete, admins, events, tried, click, misses>>

Step1(t) == Fills(t, "stake")
AddBuilding(t) == Fills(t, "building")
AddWard(t) == Fills(t, "ward")

\* The last one goes again.
Empties(t, part) ==
    /\ misses < MaxMisses
    /\ \E s \in New :
         /\ Wizard(t, s) /\ part \in filled[s] /\ MayAdminister(tab[t].token, s)
         /\ part = "building" => "ward" \notin filled[s]
         /\ filled' = [filled EXCEPT ![s] = @ \ {part}]
    /\ misses' = misses + 1
    /\ UNCHANGED <<asVars, exists, complete, admins, events, tried, click>>

DeleteBuilding(t) == Empties(t, "building")
DeleteWard(t) == Empties(t, "ward")

CanFinish(s) == filled[s] = Steps

ClickComplete(t) ==
    /\ click[t] = Idle
    /\ \E s \in New :
         /\ Wizard(t, s) /\ CanFinish(s)
         /\ click' = [click EXCEPT ![t] = [stake |-> s, step |-> "wait"]]
    /\ UNCHANGED <<asVars, docs, events, tried, misses>>

CanAdministerStakePostFlip(token, s) == s \in token.manager

\* The refreshed token has the claim: go on to the flip.
PollClaim(t) ==
    /\ click[t].step = "wait" /\ tab[t].in
    /\ CanAdministerStakePostFlip(claims, click[t].stake)
    /\ Put(t, WithFreshToken(tab[t]))
    /\ click' = [click EXCEPT ![t].step = "flip"]
    /\ UNCHANGED <<claims, local, moves, choice, docs, events, tried, misses>>

\* mutation: give up and leave it to the next click.
ReissueNothing(s) == UNCHANGED <<admins, events>>

\* It never had it: write the manager document again and give up.
Reissue(s) == IF MayAdminister(claims, s) THEN WriteAdmin(s) ELSE UNCHANGED <<admins, events>>
GiveUp(t) ==
    /\ click[t].step = "wait" /\ tab[t].in
    /\ ~CanAdministerStakePostFlip(claims, click[t].stake)
    /\ Put(t, WithFreshToken(tab[t]))
    /\ Reissue(click[t].stake)
    /\ click' = [click EXCEPT ![t] = Idle]
    /\ UNCHANGED <<claims, local, moves, choice, exists, complete, filled, tried, misses>>

Flip(t) ==
    /\ click[t].step = "flip"
    /\ LET s == click[t].stake
       IN  IF MayAdminister(tab[t].token, s)
           THEN complete' = complete \cup {s} /\ events' = events \cup {<<"bootstrap", s>>}
           ELSE UNCHANGED <<complete, events>>
    /\ click' = [click EXCEPT ![t] = Idle]
    /\ UNCHANGED <<asVars, exists, filled, admins, tried, misses>>

(***************************************************************************)
(* What ActiveStake does, on the pages that offer it; leaving the page     *)
(* drops a click that waits and forgets an auto-add.                       *)
(***************************************************************************)
Off(who) ==
    /\ tried' = tried \ who /\ click' = [t \in Tabs |-> IF t \in who THEN Idle ELSE click[t]]
    /\ UNCHANGED <<docs, events, misses>>

Loads(t) == (Commit(t) \/ Restore(t) \/ ReadClaims(t)) /\ UNCHANGED ssVars
Refreshes(t) == TokenRefresh(t) /\ UNCHANGED ssVars
MovesOn(t) == Navigate(t) /\ UNCHANGED ssVars
Opens(t) == Mount(t) /\ UNCHANGED ssVars
SignedIn == SignIn /\ Off(Tabs)

Next ==
    \/ \E s \in New : CreateStake(s) \/ RunBootstrap(s) \/ RunManagers(s) \/ MissManagers(s)
    \/ SignedIn
    \/ SignOut /\ Off(Tabs)
    \/ \E t \in Tabs :
         \/ Loads(t) \/ Refreshes(t) \/ MovesOn(t)
         \/ Opens(t)
         \/ Reload(t) /\ Off({t})
         \/ Gate(t) = "wizard" /\ BackToStakes(t) /\ UNCHANGED ssVars
         \/ AutoAdd(t) \/ AutoAddFails(t)
         \/ Step1(t) \/ AddBuilding(t) \/ AddWard(t) \/ DeleteBuilding(t) \/ DeleteWard(t)
         \/ ClickComplete(t) \/ PollClaim(t) \/ GiveUp(t) \/ Flip(t)
         \/ \E s \in Stakes :
              \/ FollowLink(t, s) /\ UNCHANGED ssVars
              \/ Gate(t) = "authed" /\ Switch(t, s) /\ UNCHANGED ssVars

Spec == Init /\ [][Next]_vars

\* Triggers are retried until they run, the page renders and reads its
\* token, and the admin keeps at the wizard while it shows and moves on
\* from pages that offer nothing.  Nobody must create a stake, switch,
\* follow a link, reload or sign out.
FairSpec ==
    /\ Spec
    /\ WF_vars(\E s \in New : RunBootstrap(s) \/ RunManagers(s))
    /\ WF_vars(SignedIn)
    /\ \A t \in Tabs :
         /\ WF_vars(Loads(t)) /\ WF_vars(Refreshes(t)) /\ WF_vars(MovesOn(t)) /\ WF_vars(Opens(t))
         /\ WF_vars(AutoAdd(t)) /\ WF_vars(Step1(t) \/ AddBuilding(t) \/ AddWard(t))
         /\ WF_vars(ClickComplete(t)) /\ WF_vars(PollClaim(t) \/ GiveUp(t) \/ Flip(t))

(***************************************************************************)
(* Properties.                                                             *)
(***************************************************************************)
\* Ending the setup closes the wizard and the rules' bootstrap escape for
\* good, so by then its admin holds the manager claim: waitForPostFlip-
\* AdminAccess and the re-issued document leave nobody locked out, whatever
\* trigger was missed and however many tabs clicked.
AdminNotStranded == \A s \in New \cap complete : s \in claims.manager

\* A link that the resolver honoured is what every component of the tab
\* works on from then on, while the page lives, its person stays signed in
\* and may have the stake: token refreshes, other tabs' choices, later
\* mounts, the strip and the consumption of the link do not lose it.  A
\* superadmin without roles has only the provenance mark to hold it.
MayHave(t, s) == tab[t].token.super \/ s \in Access(tab[t].token)
Settled(t) == tab[t].in /\ tab[t].read /\ ~tab[t].due
Shows(t, s) == tab[t].shown = s /\ tab[t].page = s
Keeps(t, absences) ==
    Settled(t) /\ choice[t].by = "link" /\ choice[t].left \subseteq absences /\ MayHave(t, choice[t].stake)
        => Shows(t, choice[t].stake)
LinkHonoured == \A t \in Tabs : Keeps(t, {})

\* Nobody loses a stake: neither the admin who set it up nor who asked for it
\* (and the variables keep their types).
StakeNotLost == TypeOK /\ AdminNotStranded /\ LinkHonoured

\* An admin with no other role gets to the wizard of the created stake and
\* through it, whatever stale link or stored stake the tabs start with.
SetupComes ==
    \A s \in New : (s \in exists /\ claims.manager = {} /\ ~claims.super) ~> (s \in complete)

\* No tab shows a wizard for ever: a manager claim that never came is asked
\* for again by the click that missed it.
WizardFinishes == \A t \in Tabs : []<>(Gate(t) # "wizard")

=============================================================================
