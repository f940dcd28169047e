---------------------------- MODULE ActiveStake ----------------------------
(***************************************************************************)
(* Which stake a browser tab of the web app works on.  Each tab resolves   *)
(* it from a ?stake= link, its own session storage, the local storage all  *)
(* tabs share, and the roles on its ID token; the hook that resolves it    *)
(* also strips and consumes the link, persists what the link chose, and    *)
(* overwrites a stored stake the person can no longer reach.               *)
(* One hook instance stands for all that are mounted: instances mounted    *)
(* together keep equal refs, and a page that mounts brings fresh ones.     *)
(* Stakes are numbers, so that the first one in order is the least.        *)
(***************************************************************************)
EXTENDS Integers, FiniteSets, FiniteSetsExt

CONSTANTS
    Tabs,       \* open tabs of one browser profile
    Stakes,
    MaxMoves    \* bound: links, switches, navigations, reloads and sign-outs

ASSUME ActiveStakeAssumption ==
    /\ Stakes \subseteq Nat \ {0} /\ Stakes # {} /\ IsFiniteSet(Stakes) /\ MaxMoves \in Nat

VARIABLES
    claims,     \* the custom claims the server holds for the person
    tab,        \* what each tab holds
    local,      \* localStorage, shared by the tabs
    moves,
    choice      \* history: the last stake a link, or the person, chose in each tab

asVars == <<claims, tab, local, moves, choice>>

None == 0
Claims == [manager : SUBSET Stakes, boot : SUBSET Stakes, super : BOOLEAN]
Nobody == [manager |-> {}, boot |-> {}, super |-> FALSE]
ChoiceSet == [stake : Stakes \cup {None}, by : {"nobody", "link", "back", "switch"},
              left : SUBSET {"reload", "signout"}]
NoChoice == [stake |-> None, by |-> "nobody", left |-> {}]

\* What a component sees of the person: nothing before the session is
\* restored, and no roles before the token is decoded.
Principal(b) == IF b.in /\ b.read THEN b.token ELSE Nobody
Access(p) == p.manager \cup p.boot
\* Signed in, and no role that counts: claims still loading, or none at all.
Settling(b) == LET p == Principal(b) IN b.in /\ p.manager = {} /\ ~p.super

First(S) == IF S = {} THEN None ELSE Min(S)
PrincipalDerived(p) == IF p.manager # {} \/ p.super THEN First(p.manager) ELSE First(p.boot)

\* The first tier that carries a stake the person may have wins; `bad` is
\* the first tier that carries one at all, when that one may not.
Resolution(b, loc) ==
    LET p == Principal(b)
        candidate == Settling(b)
        stored == candidate /\ p.boot = {}
        linked == p.super /\ b.mark # None /\ b.session = b.mark
        value == [url |-> b.slot, session |-> b.session, local |-> loc]
        open == [url |-> candidate \/ p.super, session |-> stored \/ linked, local |-> stored]
        order == <<"url", "session", "local">>
        given == {i \in 1..3 : value[order[i]] # None}
        honoured == {i \in given : open[order[i]] \/ value[order[i]] \in Access(p)}
        derived == PrincipalDerived(p)
        bad == IF given # {} /\ Min(given) \notin honoured THEN order[Min(given)] ELSE "none"
    IN  IF honoured # {}
        THEN [stake |-> value[order[Min(honoured)]], tier |-> order[Min(honoured)], bad |-> bad]
        ELSE [stake |-> derived, tier |-> IF derived = None THEN "none" ELSE "principal", bad |-> bad]

\* A fresh page: the module reads the address bar before the first render.
Fresh == [stripped |-> None, used |-> None, persisted |-> None]
NothingSaid == [to |-> Nobody, slot |-> None, bad |-> "none", stake |-> None]
Loaded(b) == [b EXCEPT !.in = FALSE, !.read = FALSE, !.slot = b.bar, !.consumed = FALSE,
                       !.refs = Fresh, !.said = NothingSaid, !.shown = None, !.page = None,
                       !.due = TRUE]
Opened == [user |-> TRUE, in |-> FALSE, read |-> FALSE, token |-> Nobody, bar |-> None, slot |-> None,
           consumed |-> FALSE, session |-> None, mark |-> None, refs |-> Fresh, said |-> NothingSaid,
           shown |-> None, page |-> None, due |-> TRUE]

ASTypeOK ==
    /\ claims \in Claims /\ local \in Stakes \cup {None} /\ moves \in 0..MaxMoves
    /\ choice \in [Tabs -> ChoiceSet]
    /\ \A t \in Tabs :
        /\ tab[t].token \in Claims
        /\ {tab[t].bar, tab[t].slot, tab[t].session, tab[t].mark, tab[t].shown} \subseteq Stakes \cup {None}
        /\ tab[t].in => tab[t].user
        /\ tab[t].read => tab[t].in

(***************************************************************************)
(* What the tab's own refresh of the link slot does.                       *)
(***************************************************************************)
\* mutation: a bare address clears the slot at once.
RefreshedAtOnce(b) ==
    IF b.bar = None THEN [b EXCEPT !.slot = None]
    ELSE IF b.bar = b.slot THEN [b EXCEPT !.bar = None]
    ELSE [b EXCEPT !.slot = b.bar, !.consumed = FALSE]

\* refreshModuleUrlStakeParamFromUrl: a link moves in, a bare address
\* clears the slot only once its stake was used.
Refreshed(b) ==
    IF b.bar = None THEN [b EXCEPT !.slot = IF b.consumed THEN None ELSE @]
    ELSE IF b.bar = b.slot THEN [b EXCEPT !.bar = None]
    ELSE [b EXCEPT !.slot = b.bar, !.consumed = FALSE]

\* mutation: like the other effects, only once a role that counts is there.
ActsWhenSettled(b) == b.slot # None /\ ~Settling(b)

\* The link part of the effect.  Roles that are still loading have no
\* bootstrap stakes, so those prove that the claims are there.
Acts(b) == b.slot # None /\ (~Settling(b) \/ Principal(b).boot # {})
Strips(b) == Acts(b) /\ b.refs.stripped # b.slot
Uses(b, r) == Acts(b) /\ r.tier = "url" /\ b.refs.used # r.stake
Persists(b, r) == ~Settling(b) /\ b.slot # None /\ r.tier = "url" /\ b.refs.persisted # r.stake
SessionOnly(p) == p.super /\ p.manager = {}

\* The toast part: a stored stake that is out of reach is overwritten by
\* the resolved one, once for each answer to the same roles and link.
Saying(b, r) ==
    IF r.bad = "none" THEN NothingSaid
    ELSE [to |-> Principal(b), slot |-> b.slot, bad |-> r.bad, stake |-> r.stake]
Overwrites(b, r) == ~Settling(b) /\ r.bad # "none" /\ b.said # Saying(b, r)

\* All of it, over a resolution `r` taken before any of it.
Effect(b, r) ==
    [b EXCEPT !.bar = IF Strips(b) THEN None ELSE @,
              !.consumed = @ \/ Uses(b, r),
              !.session = IF Persists(b, r) \/ Overwrites(b, r) THEN r.stake ELSE @,
              !.mark = IF Persists(b, r) THEN r.stake ELSE @,
              !.refs = [stripped |-> IF Strips(b) THEN b.slot ELSE @.stripped,
                        used |-> IF Uses(b, r) THEN r.stake ELSE @.used,
                        persisted |-> IF Persists(b, r) THEN r.stake ELSE @.persisted],
              !.said = IF Settling(b) THEN @ ELSE Saying(b, r)]

LocalAfter(b, r) ==
    IF Overwrites(b, r) \/ (Persists(b, r) /\ ~SessionOnly(Principal(b))) THEN r.stake ELSE local

\* A choice is forgotten when its stake goes out of reach.
ChoiceAfter(t, b, r) ==
    IF Persists(b, r) THEN [stake |-> r.stake, by |-> "link", left |-> {}]
    ELSE IF b.in /\ b.read /\ ~b.token.super /\ choice[t].stake \notin Access(b.token) THEN NoChoice
    ELSE choice[t]

(***************************************************************************)
(* Renders.  What is mounted renders again when the roles, the link slot   *)
(* or this tab's storage writes ask for it (`due`); a component that       *)
(* mounts renders alone, and reads storage as it is by then.               *)
(***************************************************************************)
Renders(t, b, r) ==
    /\ local' = LocalAfter(b, r)
    /\ choice' = [choice EXCEPT ![t] = ChoiceAfter(t, b, r)]
    /\ UNCHANGED <<claims, moves>>

Commit(t) ==
    /\ tab[t].due
    /\ \E r \in {Resolution(tab[t], local)} :
         /\ tab' = [tab EXCEPT ![t] = [Effect(tab[t], r) EXCEPT !.shown = r.stake, !.page = r.stake,
                                                                !.due = Persists(tab[t], r)]]
         /\ Renders(t, tab[t], r)

\* Its first effect refreshes the slot, its second still holds the slot it
\* was rendered with, and no ref remembers what others did with it.
Mount(t) ==
    /\ ~tab[t].due
    /\ \E b \in {[tab[t] EXCEPT !.refs = Fresh]} : \E r \in {Resolution(b, local)}, b1 \in {Refreshed(b)} :
         /\ tab' = [tab EXCEPT ![t] = [Effect([b1 EXCEPT !.slot = b.slot], r) EXCEPT
                                           !.slot = b1.slot, !.page = r.stake,
                                           !.due = b1.slot # b.slot \/ Persists(b, r)]]
         /\ Renders(t, b, r)

(***************************************************************************)
(* The token.                                                              *)
(***************************************************************************)
Put(t, b) == tab' = [tab EXCEPT ![t] = b]

\* Firebase Auth finds the session it had persisted.
Restore(t) ==
    /\ tab[t].user /\ ~tab[t].in
    /\ Put(t, [tab[t] EXCEPT !.in = TRUE, !.due = TRUE])
    /\ UNCHANGED <<claims, local, moves, choice>>

ReadClaims(t) ==
    /\ tab[t].in /\ ~tab[t].read
    /\ Put(t, [tab[t] EXCEPT !.read = TRUE, !.due = TRUE])
    /\ UNCHANGED <<claims, local, moves, choice>>

WithFreshToken(b) == [b EXCEPT !.token = claims, !.read = TRUE, !.due = @ \/ b.token # claims \/ ~b.read]
TokenRefresh(t) ==
    /\ tab[t].in /\ tab[t].token # claims
    /\ Put(t, WithFreshToken(tab[t]))
    /\ UNCHANGED <<claims, local, moves, choice>>

\* Signing out of one tab signs all of them out; storage is left alone.
SignOut ==
    /\ moves < MaxMoves /\ \E t \in Tabs : tab[t].in
    /\ tab' = [t \in Tabs |-> [tab[t] EXCEPT !.user = FALSE, !.in = FALSE, !.read = FALSE,
                                             !.token = Nobody, !.due = TRUE]]
    /\ choice' = [t \in Tabs |-> [choice[t] EXCEPT !.left = @ \cup {"signout"}]]
    /\ moves' = moves + 1
    /\ UNCHANGED <<claims, local>>

SignIn ==
    /\ \A t \in Tabs : ~tab[t].user
    /\ tab' = [t \in Tabs |-> [tab[t] EXCEPT !.user = TRUE, !.in = TRUE, !.token = claims, !.due = TRUE]]
    /\ UNCHANGED <<claims, local, moves, choice>>

(***************************************************************************)
(* The person, who acts on what is rendered.                               *)
(***************************************************************************)
\* Only a history change that says something new asks for a render.
Moved(t, b) == Put(t, [b EXCEPT !.due = @ \/ b.slot # tab[t].slot])

\* While the slot still holds a link that was used, another to the same stake
\* changes nothing: the last choice stands, be it a switch made since.
Repeats(b, s) == b.slot = s /\ b.consumed

FollowLink(t, s) ==
    /\ ~tab[t].due /\ moves < MaxMoves
    /\ Moved(t, Refreshed([tab[t] EXCEPT !.bar = s]))
    /\ choice' = IF Repeats(tab[t], s) THEN choice
                 ELSE [choice EXCEPT ![t] = [stake |-> s, by |-> "link", left |-> {}]]
    /\ moves' = moves + 1
    /\ UNCHANGED <<claims, local>>

Navigate(t) ==
    /\ ~tab[t].due
    /\ Moved(t, Refreshed([tab[t] EXCEPT !.bar = None]))
    /\ UNCHANGED <<claims, local, moves, choice>>

Reload(t) ==
    /\ moves < MaxMoves
    /\ Put(t, Loaded(tab[t]))
    /\ choice' = [choice EXCEPT ![t].left = @ \cup {"reload"}]
    /\ moves' = moves + 1
    /\ UNCHANGED <<claims, local>>

\* A choice persists in both stores and renders; it touches no link.
Chosen(b, s) == [b EXCEPT !.session = s, !.due = TRUE]

\* The switcher in the header, from two stakes up.
Switch(t, s) ==
    /\ moves < MaxMoves /\ ~tab[t].due
    /\ tab[t].shown # None /\ s \in Access(Principal(tab[t])) /\ Cardinality(Access(Principal(tab[t]))) > 1
    /\ Put(t, Chosen(tab[t], s))
    /\ local' = s
    /\ choice' = [choice EXCEPT ![t] = [stake |-> s, by |-> "switch", left |-> {}]]
    /\ moves' = moves + 1
    /\ UNCHANGED claims

\* The way out of the wizard: the first other stake, then home.
BackToStakes(t) ==
    LET others == Principal(tab[t]).manager \ {tab[t].shown}
    IN  /\ moves < MaxMoves /\ ~tab[t].due /\ others # {}
        /\ Moved(t, Refreshed([Chosen(tab[t], First(others)) EXCEPT !.bar = None]))
        /\ local' = First(others)
        /\ choice' = [choice EXCEPT ![t] = [stake |-> First(others), by |-> "back", left |-> {}]]
        /\ moves' = moves + 1
        /\ UNCHANGED claims
=============================================================================
