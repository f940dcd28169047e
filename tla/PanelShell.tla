----------------------------- MODULE PanelShell -----------------------------
(***************************************************************************)
(* The slide-over panel of one Kindoo tab (extension, panel/App.tsx): who  *)
(* is signed in, which stake the Kindoo site on screen belongs to, and     *)
(* what the panel shows.  Kindoo never remounts the panel: accounts and    *)
(* sites change under it, and every answer of the service worker, of the   *)
(* storage and of the backend lands in whatever state the panel is in by   *)
(* then.                                                                   *)
(*                                                                         *)
(* A React commit and the effects it runs are one step (Commit).           *)
(***************************************************************************)
EXTENDS Integers, Sequences, FiniteSets, SequencesExt

CONSTANTS
    Accounts,       \* accounts that use the profile
    StakeIds,
    Eids,           \* Kindoo sites
    Serves,         \* [Eids -> stakes whose configuration names the site]
    FirstRoles,     \* [Accounts -> stakes the account manages at the start]
    MaxEvents       \* bound: sign-ins, moves, retries, changes of stake, demotions

Nothing == "nothing"     \* no account, no readable site, no stake

ASSUME PanelAssumption ==
    /\ Nothing \notin Accounts \cup StakeIds \cup Eids
    /\ Serves \in [Eids -> SUBSET StakeIds] /\ FirstRoles \in [Accounts -> SUBSET StakeIds]
    /\ MaxEvents \in Nat

VARIABLES
    roles,          \* stakes each account manages
    user,           \* the service worker's signed-in account
    inbox,          \* auth states on their way to the panel
    authState,      \* the panel's copy of it, "loading" before the first
    notAuthorized,
    named,          \* the sites whose names Kindoo's page shows
    attempted,      \* attemptedEidRef
    run,            \* resolveRunRef
    asking,         \* resolution runs that wait for an answer
    stake,          \* the stake resolution
    config,         \* configStatus
    loads,          \* stakes whose configuration is being read
    queues,         \* queue requests: the stake, and the account that asks
    choice,         \* eidStakeChoice
    click,          \* a pick or a change of stake that waits for the storage
    crossed,        \* history: such a click landed on a panel that had moved on
    spent           \* how much of the bound is used

panelVars == <<roles, user, inbox, authState, notAuthorized, named, attempted, run, asking,
               stake, config, loads, queues, choice, click, crossed, spent>>

\* A resolution: its kind, and for some kinds the site, the candidates and the stake.
View(kind, eid, candidates, id) == [kind |-> kind, eid |-> eid, candidates |-> candidates, id |-> id]
Bare(kind) == View(kind, Nothing, {}, Nothing)
Pick(eid, candidates) == View("pick", eid, candidates, Nothing)
Resolved(eid, candidates, id) == View("resolved", eid, candidates, id)

Config(kind, id) == [kind |-> kind, bundle |-> id]
NoClick == [do |-> "none"]

SignedIn(auth) == auth \in Accounts

\* The page names one site, or which one is active cannot be told
\* (readActiveEidFromDom); a page without a Kindoo session is taken as one.
ActiveEid == IF Cardinality(named) = 1 THEN CHOOSE e \in named : TRUE ELSE Nothing

\* The effects that resolve and watch are on.
Watching(auth, turnedAway) == SignedIn(auth) /\ ~turnedAway

\* What App renders, by its early returns.
Screen(auth, turnedAway, view, conf) ==
    CASE ~SignedIn(auth) -> "signed-out or loading"
      [] SignedIn(auth) /\ (turnedAway \/ conf.kind = "denied") -> "not-authorized"
      [] Watching(auth, turnedAway) /\ conf.kind # "denied" /\ view.kind # "resolved" -> view.kind
      [] OTHER -> conf.kind

Shown == Screen(authState, notAuthorized, stake, config)

\* The stake of the tabs, when they are mounted.
Tabbed(auth, turnedAway, view, conf) ==
    IF Screen(auth, turnedAway, view, conf) = "configured" THEN {view.id} ELSE {}

\* Tabs that mount, or change stake, ask for that stake's queue.
Asked(auth, turnedAway, view, conf) ==
    {[stake |-> s, as |-> user] :
        s \in Tabbed(auth, turnedAway, view, conf) \ Tabbed(authState, notAuthorized, stake, config)}

\* A commit of App's auth state and resolution, with its effects: a sign-in starts
\* a resolution run, as the watcher and Retry do (`again`), and a new resolution
\* has its configuration read.  A run stamps the site it reads and asks about it.
\* `waiting` is what is left of asking.
Commit(auth, turnedAway, view, waiting, again) ==
    LET starts == again \/ (Watching(auth, turnedAway) /\ ~Watching(authState, notAuthorized))
        reads  == ~starts /\ view # stake /\ view.kind = "resolved"
    IN  /\ authState' = auth /\ notAuthorized' = turnedAway
        /\ queues' = queues \cup Asked(auth, turnedAway, view, config)
        /\ config' = IF reads THEN Config("loading", Nothing) ELSE config
        /\ loads' = IF reads THEN loads \cup {view.id} ELSE loads
        /\ stake' = IF ~starts THEN view
                    ELSE IF ActiveEid = Nothing THEN Bare("no-session") ELSE Bare("loading")
        /\ run' = IF starts THEN run + 1 ELSE run
        /\ attempted' = IF starts THEN ActiveEid ELSE attempted
        /\ asking' = IF starts /\ ActiveEid # Nothing
                     THEN waiting \cup {[run |-> run + 1, eid |-> ActiveEid, as |-> user,
                                         waits |-> "answer", candidates |-> {}]}
                     ELSE waiting

\* Only the resolution changes.
Shows(view, waiting) == Commit(authState, notAuthorized, view, waiting, FALSE)

\* A resolution run begins over whatever was shown.
Resolve == Commit(authState, notAuthorized, Bare("loading"), asking, TRUE)

\* Someone still signed in is turned away.
TurnAway(denied) == notAuthorized' = (notAuthorized \/ (denied /\ SignedIn(authState)))

world  == <<roles, user, inbox, named>>
clicks == <<choice, click, crossed>>
app    == <<authState, notAuthorized, attempted, run, asking, stake, config, loads, queues>>

Spend == spent < MaxEvents /\ spent' = spent + 1

\* A panel that has just mounted ...
Mounted ==
    /\ roles = FirstRoles
    /\ user \in Accounts \cup {Nothing}
    /\ authState = "loading" /\ notAuthorized = FALSE
    /\ named \in SUBSET Eids /\ attempted = Nothing
    /\ run = 0 /\ asking = {}
    /\ stake = Bare("loading") /\ config = Config("loading", Nothing)
    /\ loads = {} /\ queues = {}
    /\ choice = [e \in Eids |-> Nothing]
    /\ click = NoClick /\ crossed = FALSE
    /\ spent = 0

\* ... and has asked for the auth state; no answer reads as signed out.
PanelInit == Mounted /\ inbox \in {<<user>>, <<Nothing>>}

-----------------------------------------------------------------------------
(* The world around the panel.                                             *)

\* Every change of the account is pushed to the tab (authPush.ts).
SignIn(a) ==
    /\ authState = Nothing /\ inbox = <<>>
    /\ Spend
    /\ user' = a /\ inbox' = Append(inbox, a)
    /\ UNCHANGED <<roles, named, clicks, app>>

\* The choices go with the account, unless the storage refuses.
SignOut ==
    /\ user # Nothing
    /\ user' = Nothing /\ inbox' = Append(inbox, Nothing)
    /\ choice' \in {choice, [e \in Eids |-> Nothing]}
    /\ UNCHANGED <<roles, named, click, crossed, app, spent>>

\* Firebase refuses the sign-out after the storage was cleared.
SignOutFails ==
    /\ user # Nothing /\ choice # [e \in Eids |-> Nothing]
    /\ choice' = [e \in Eids |-> Nothing]
    /\ UNCHANGED <<world, click, crossed, app, spent>>

\* Kindoo shows another site, a list of sites, or a page that names none.
Move(names) ==
    /\ names # named
    /\ Spend
    /\ named' = names
    /\ UNCHANGED <<roles, user, inbox, clicks, app>>

Demote(a, s) ==
    /\ s \in roles[a]
    /\ Spend
    /\ roles' = [roles EXCEPT ![a] = @ \ {s}]
    /\ UNCHANGED <<user, inbox, named, clicks, app>>

\* A pushed or answered auth state; the signed-out screen forgets notAuthorized.
AuthLands ==
    /\ inbox # <<>>
    /\ inbox' = Tail(inbox)
    /\ Commit(Head(inbox), notAuthorized /\ SignedIn(Head(inbox)), stake, asking, FALSE)
    /\ UNCHANGED <<roles, user, named, clicks, spent>>

-----------------------------------------------------------------------------
(* Resolving the site.                                                     *)

\* The watcher acts on a different site only, and never on an unreadable one.
Watch ==
    /\ Watching(authState, notAuthorized)
    /\ ActiveEid \notin {Nothing, attempted}
    /\ Resolve
    /\ UNCHANGED <<world, clicks, spent>>

Retry ==
    /\ Shown \in {"no-session", "wire-error", "no-candidates"}
    /\ Spend
    /\ Resolve
    /\ UNCHANGED <<world, clicks>>

\* (mutation) runs carry no token.
SupersededNever(c) == c.run # c.run

\* Another run has started since; what this one learns is dropped.
Superseded(c) == c.run # run

Concludes(c, view) == Shows(IF Superseded(c) THEN stake ELSE view, asking \ {c})

\* The one candidate, or the picker.
Offer(eid, candidates) ==
    IF Cardinality(candidates) = 1 THEN Resolved(eid, candidates, CHOOSE s \in candidates : TRUE)
    ELSE Pick(eid, candidates)

\* The worker cannot answer, or nobody is signed in there any more.
ResolveFails(c) ==
    /\ c.waits = "answer"
    /\ Concludes(c, Bare("wire-error"))
    /\ UNCHANGED <<world, clicks, spent>>

\* An account without any stake is turned away.
ResolveFindsNoRole(c) ==
    /\ c.waits = "answer" /\ c.as # Nothing
    /\ roles[c.as] = {}
    /\ TurnAway(~Superseded(c))
    /\ asking' = asking \ {c}
    /\ UNCHANGED <<world, clicks, authState, attempted, run, stake, config, loads, queues, spent>>

\* Stakes of which the read failed are left out of the candidates.
ResolveAnswers(c, failed) ==
    /\ c.waits = "answer" /\ c.as # Nothing
    /\ roles[c.as] # {} /\ failed \subseteq roles[c.as]
    /\ LET candidates == (Serves[c.eid] \cap roles[c.as]) \ failed IN
       IF candidates = {}
       THEN Concludes(c, IF failed = {} THEN View("no-candidates", c.eid, {}, Nothing) ELSE Bare("wire-error"))
       ELSE Shows(stake, IF Superseded(c) THEN asking \ {c}
                         ELSE (asking \ {c}) \cup {[c EXCEPT !.waits = "choice", !.candidates = candidates]})
    /\ UNCHANGED <<world, clicks, spent>>

\* The stored choice, when it can be read and is a candidate, else the picker;
\* one that is no candidate any more is removed first.
ReadChoice(c) ==
    /\ c.waits = "choice"
    /\ \E stored \in {choice[c.eid], Nothing} :
          IF stored \in c.candidates THEN Concludes(c, Resolved(c.eid, c.candidates, stored))
          ELSE IF stored = Nothing THEN Concludes(c, Offer(c.eid, c.candidates))
          ELSE Shows(stake, IF Superseded(c) THEN asking \ {c}
                            ELSE (asking \ {c}) \cup {[c EXCEPT !.waits = "clear"]})
    /\ UNCHANGED <<world, clicks, spent>>

\* The map of choices with one entry set or removed.
Chosen(eid, id) == [choice EXCEPT ![eid] = id]

ClearChoice(c) ==
    /\ c.waits = "clear"
    /\ choice' \in {choice, Chosen(c.eid, Nothing)}
    /\ Concludes(c, Offer(c.eid, c.candidates))
    /\ UNCHANGED <<world, click, crossed, spent>>

-----------------------------------------------------------------------------
(* The resolved stake: configuration, queue, picker.                       *)

\* What reading a stake's configuration gives: an error, or what the rules say of
\* the account that is signed in by now.
ConfigKinds(s) ==
    {"error"} \cup (IF user = Nothing THEN {}
                    ELSE IF s \in roles[user] THEN {"configured", "needs-config"} ELSE {"denied"})

\* No token here: the answer is taken as the current stake's.
ConfigLands(s, kind) ==
    /\ s \in loads /\ kind \in ConfigKinds(s)
    /\ config' = Config(kind, IF kind = "configured" THEN s ELSE Nothing)
    /\ loads' = loads \ {s}
    /\ queues' = queues \cup Asked(authState, notAuthorized, stake, config')
    /\ UNCHANGED <<world, clicks, authState, notAuthorized, attempted, run, asking, stake, spent>>

\* Retry after an error, and the wizard or the Configure tab when it has saved.
RefreshConfig ==
    /\ Shown \in {"error", "needs-config", "configured"}
    /\ Spend
    /\ config' = Config("loading", Nothing)
    /\ loads' = loads \cup {stake.id}
    /\ UNCHANGED <<world, clicks, authState, notAuthorized, attempted, run, asking, stake, queues>>

\* The backend looks the asker's role up (getMyPendingRequests).
Refused(q) == q.as # Nothing /\ q.stake \notin roles[q.as]

\* The queue's answer; a refusal turns away whoever is signed in when it lands.
QueueAnswers(q) ==
    /\ q \in queues
    /\ queues' = queues \ {q}
    /\ TurnAway(Refused(q))
    /\ UNCHANGED <<world, clicks, authState, attempted, run, asking, stake, config, loads, spent>>

\* A candidate is picked; the choice is stored before it is shown.
PickStake(s) ==
    /\ Shown = "pick" /\ s \in stake.candidates /\ click = NoClick
    /\ click' = [do |-> "pick", view |-> stake, id |-> s]
    /\ UNCHANGED <<world, choice, crossed, app, spent>>

\* The chevron, where there is more than one candidate: the stored choice is
\* cleared before the picker shows.
ChangeStake ==
    /\ Shown = "configured" /\ Cardinality(stake.candidates) > 1 /\ click = NoClick
    /\ Spend
    /\ click' = [do |-> "change", view |-> stake]
    /\ UNCHANGED <<world, choice, crossed, app>>

\* A pick that cannot be stored shows nothing; a choice that cannot be cleared does.
ClickLands(stored) ==
    LET from == click.view IN
    /\ click # NoClick
    /\ click' = NoClick
    /\ choice' = IF stored THEN Chosen(from.eid, IF click.do = "pick" THEN click.id ELSE Nothing)
                 ELSE choice
    /\ IF click.do = "pick" /\ ~stored THEN UNCHANGED <<app, crossed>>
       ELSE /\ Shows(IF click.do = "pick" THEN Resolved(from.eid, from.candidates, click.id)
                     ELSE Pick(from.eid, from.candidates), asking)
            /\ crossed' = (crossed \/ stake # from)
    /\ UNCHANGED <<world, spent>>

-----------------------------------------------------------------------------
Resolving(c) ==
    \/ ResolveFails(c) \/ ResolveFindsNoRole(c) \/ ReadChoice(c) \/ ClearChoice(c)
    \/ \E failed \in SUBSET StakeIds : ResolveAnswers(c, failed)

PanelNext ==
    \/ \E a \in Accounts : SignIn(a) \/ (\E s \in StakeIds : Demote(a, s))
    \/ SignOut \/ SignOutFails \/ AuthLands
    \/ \E names \in SUBSET Eids : Move(names)
    \/ Watch \/ Retry \/ RefreshConfig \/ ChangeStake
    \/ \E c \in asking : Resolving(c)
    \/ \E s \in loads, kind \in {"configured", "needs-config", "denied", "error"} : ConfigLands(s, kind)
    \/ \E q \in queues : QueueAnswers(q)
    \/ \E s \in stake.candidates : PickStake(s)
    \/ \E stored \in BOOLEAN : ClickLands(stored)

\* Pushes and answers arrive, and the watcher's interval fires.
PanelFairness ==
    /\ WF_panelVars(AuthLands) /\ WF_panelVars(Watch)
    /\ \A e \in Eids : WF_panelVars(\E c \in asking : c.eid = e /\ Resolving(c))

PanelSpec == PanelInit /\ [][PanelNext]_panelVars /\ PanelFairness

-----------------------------------------------------------------------------
(* Properties.                                                             *)

\* What the panel shows was found for this site, or finding it failed.
FollowsSite(e) == stake.kind = "wire-error" \/ (stake.kind \in {"pick", "resolved", "no-candidates"} /\ stake.eid = e)

\* Once the operator stays on a site, signed in, the panel comes to show that
\* site's stakes and nothing of a site left behind, whatever order the answers
\* come in (App.tsx, resolveRunRef and the watcher) - unless a click was stored
\* across the move, or the account was turned away.
PanelSettles ==
    \A e \in Eids :
        <>[](Watching(authState, notAuthorized) /\ ActiveEid = e /\ ~crossed) => <>[]FollowsSite(e)

\* "Signed-in, active stake resolved, signed-in non-manager - render NotAuthorized"
\* (App.tsx, 5): an account that manages a stake is never shown that screen.
ManagersComeIn == Shown = "not-authorized" => roles[authState] = {}
=============================================================================
