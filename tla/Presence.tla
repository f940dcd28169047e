------------------------------ MODULE Presence ------------------------------
(***************************************************************************)
(* What one manager's Chrome profile tells his phone about remote apply:   *)
(* the opt-in in extension storage, which each Kindoo tab follows through  *)
(* a cached copy; the heartbeat of each tab, which writes the manager's    *)
(* presence flag and then the desktop document of the site it is in; and   *)
(* the two writes of an opt-out.  Writes of different tabs, and of one tab *)
(* before and after a change of mind, land in any order.                   *)
(***************************************************************************)
EXTENDS Integers, FiniteSets

CONSTANTS
    Tabs,       \* Kindoo tabs of the profile
    StakeSites, \* Kindoo sites configured for the stake
    MaxToggles, \* bound: changes of the opt-in
    MaxMoves    \* bound: tabs opened, closed or taken to another site, and
                \* calls that Kindoo or Firestore refuse

Closed == "closed"          \* a tab that is not there
Elsewhere == "elsewhere"    \* a Kindoo site the stake does not have
None == "none"

ASSUME PresenceAssumption ==
    /\ IsFiniteSet(Tabs) /\ IsFiniteSet(StakeSites)
    /\ {Closed, Elsewhere, None} \cap StakeSites = {}
    /\ MaxToggles \in Nat /\ MaxMoves \in Nat

VARIABLES
    optIn,      \* chrome.storage.local: remoteApplyEnabled
    cached,     \* each tab's last known value of it; its loop runs while it is true
    at,         \* the site each tab is in
    tick,       \* each tab's heartbeat: idle, or the site it asked Kindoo about
    published,  \* the site each tab's last heartbeat landed for (publishedSiteKey)
    posts,     \* presence writes on their way
    flag,       \* remoteApply/{manager}.remote_apply_enabled
    desktops,   \* remoteApply/{manager}/desktops/{site}: absent, fresh or stale
    toggles, moves

presenceVars == <<optIn, cached, at, tick, published, posts, flag, desktops, toggles, moves>>

Post == [tab : Tabs, enabled : BOOLEAN, site : StakeSites \cup {None}, part : {"flag", "desktop"}]

PresenceTypeOK ==
    /\ optIn \in BOOLEAN /\ flag \in BOOLEAN
    /\ cached \in [Tabs -> BOOLEAN]
    /\ at \in [Tabs -> StakeSites \cup {Closed, Elsewhere}]
    /\ tick \in [Tabs -> {"idle", "writing"} \cup StakeSites]
    /\ published \in [Tabs -> StakeSites \cup {None}]
    /\ posts \subseteq Post
    /\ desktops \in [StakeSites -> {"absent", "fresh", "stale"}]

PresenceInit ==
    /\ optIn \in BOOLEAN
    /\ at \in [Tabs -> StakeSites \cup {Closed}]
    /\ cached = [t \in Tabs |-> optIn /\ at[t] # Closed]
    /\ tick = [t \in Tabs |-> "idle"]
    /\ published = [t \in Tabs |-> None]
    /\ posts = {}
    /\ flag = FALSE
    /\ desktops = [s \in StakeSites |-> "absent"]
    /\ toggles = 0 /\ moves = 0

-----------------------------------------------------------------------------
(* The opt-in.                                                             *)

\* A tab's loop stops as its copy turns false, and the tab takes back what it
\* last published (publishDisabled); it starts as the copy turns true.
Follows(t, value) ==
    /\ cached' = [cached EXCEPT ![t] = value]
    /\ posts' = IF cached[t] /\ ~value
                 THEN posts \cup {[tab |-> t, enabled |-> FALSE, site |-> published[t], part |-> "flag"]}
                 ELSE posts

\* The toggle writes the storage and tells its own tab.
SetEnabled(t, value) ==
    /\ at[t] # Closed
    /\ value # optIn
    /\ toggles < MaxToggles
    /\ toggles' = toggles + 1
    /\ optIn' = value
    /\ Follows(t, value)
    /\ UNCHANGED <<at, tick, published, flag, desktops, moves>>

\* (mutation) a tab takes over only that the opt-in was given.
StorageChangedToOn(t) ==
    /\ at[t] # Closed
    /\ cached[t] # optIn
    /\ optIn
    /\ Follows(t, optIn)
    /\ UNCHANGED <<optIn, at, tick, published, flag, desktops, toggles, moves>>

\* chrome.storage.onChanged tells the other tabs.
StorageChanged(t) ==
    /\ at[t] # Closed
    /\ cached[t] # optIn
    /\ Follows(t, optIn)
    /\ UNCHANGED <<optIn, at, tick, published, flag, desktops, toggles, moves>>

-----------------------------------------------------------------------------
(* The tabs.                                                               *)

Moves ==
    /\ moves < MaxMoves
    /\ moves' = moves + 1

\* A tab goes to another site, by a switch inside Kindoo, which keeps its loop.
Switches(t, site) ==
    /\ Moves
    /\ at[t] # Closed /\ at[t] # site
    /\ at' = [at EXCEPT ![t] = site]
    /\ UNCHANGED <<optIn, cached, tick, published, posts, flag, desktops, toggles>>

\* A closed tab says nothing; what it has sent still lands.
Closes(t) ==
    /\ Moves
    /\ at[t] # Closed
    /\ at' = [at EXCEPT ![t] = Closed]
    /\ cached' = [cached EXCEPT ![t] = FALSE]
    /\ tick' = [tick EXCEPT ![t] = "idle"]
    /\ published' = [published EXCEPT ![t] = None]
    /\ UNCHANGED <<optIn, posts, flag, desktops, toggles>>

\* A new tab reads the storage before its loop starts (readRemoteApplyEnabled).
Opens(t, site) ==
    /\ Moves
    /\ at[t] = Closed
    /\ at' = [at EXCEPT ![t] = site]
    /\ cached' = [cached EXCEPT ![t] = optIn]
    /\ UNCHANGED <<optIn, tick, published, posts, flag, desktops, toggles>>

-----------------------------------------------------------------------------
(* The heartbeat (heartbeatIfDue).  An opt-out does not end one that is    *)
(* under way; a tab has one at a time.                                     *)

\* The site is the one of the session the tick started with.
HeartbeatDue(t) ==
    /\ cached[t]
    /\ tick[t] = "idle"
    /\ at[t] \in StakeSites
    /\ tick' = [tick EXCEPT ![t] = at[t]]
    /\ UNCHANGED <<optIn, cached, at, published, posts, flag, desktops, toggles, moves>>

\* Every heartbeat writes the flag, then the desktop document.
FirstPart(t, site) == "flag"

\* Kindoo has answered: the opt-in is looked at once more before the write.
Publishes(t) ==
    /\ tick[t] \in StakeSites
    /\ IF cached[t]
       THEN /\ tick' = [tick EXCEPT ![t] = "writing"]
            /\ posts' = posts \cup {[tab |-> t, enabled |-> TRUE, site |-> tick[t],
                                       part |-> FirstPart(t, tick[t])]}
       ELSE /\ tick' = [tick EXCEPT ![t] = "idle"]
            /\ UNCHANGED posts
    /\ UNCHANGED <<optIn, cached, at, published, flag, desktops, toggles, moves>>

\* Kindoo does not answer: nothing is published.
KindooRefuses(t) ==
    /\ Moves
    /\ tick[t] \in StakeSites
    /\ tick' = [tick EXCEPT ![t] = "idle"]
    /\ UNCHANGED <<optIn, cached, at, published, posts, flag, desktops, toggles>>

\* The tab a write belongs to goes on when it has ended.
Answered(w) ==
    tick' = IF w.enabled /\ tick[w.tab] = "writing" THEN [tick EXCEPT ![w.tab] = "idle"] ELSE tick

\* writeRemotePresence: the flag first; without a site that is all.
WriteFlag(w) ==
    /\ w \in posts /\ w.part = "flag"
    /\ flag' = w.enabled
    /\ posts' = (posts \ {w}) \cup (IF w.site = None THEN {} ELSE {[w EXCEPT !.part = "desktop"]})
    /\ UNCHANGED <<optIn, cached, at, tick, published, desktops, toggles, moves>>

\* Then the site's document is stamped, or deleted by an opt-out.
WriteDesktop(w) ==
    /\ w \in posts /\ w.part = "desktop"
    /\ desktops' = [desktops EXCEPT ![w.site] = IF w.enabled THEN "fresh" ELSE "absent"]
    /\ posts' = posts \ {w}
    /\ Answered(w)
    /\ published' = IF w.enabled /\ tick[w.tab] = "writing" THEN [published EXCEPT ![w.tab] = w.site] ELSE published
    /\ UNCHANGED <<optIn, cached, at, flag, toggles, moves>>

\* A refused write is not repeated before the next heartbeat.
WriteRefused(w) ==
    /\ Moves
    /\ w \in posts
    /\ posts' = posts \ {w}
    /\ Answered(w)
    /\ UNCHANGED <<optIn, cached, at, published, flag, desktops, toggles>>

\* REMOTE_APPLY_STALE_MS pass without a heartbeat for the site.
GoesStale(s) ==
    /\ desktops[s] = "fresh"
    /\ desktops' = [desktops EXCEPT ![s] = "stale"]
    /\ UNCHANGED <<optIn, cached, at, tick, published, posts, flag, toggles, moves>>

-----------------------------------------------------------------------------
PresenceNext ==
    \/ \E t \in Tabs :
          \/ \E value \in BOOLEAN : SetEnabled(t, value)
          \/ StorageChanged(t)
          \/ \E site \in StakeSites \cup {Elsewhere} : Switches(t, site) \/ Opens(t, site)
          \/ Closes(t)
          \/ HeartbeatDue(t) \/ Publishes(t) \/ KindooRefuses(t)
    \/ \E w \in posts : WriteFlag(w) \/ WriteDesktop(w) \/ WriteRefused(w)
    \/ \E s \in StakeSites : GoesStale(s)

PresenceSpec == PresenceInit /\ [][PresenceNext]_presenceVars

\* Chrome tells every tab of the change, a running loop ticks, Kindoo answers,
\* writes end, and time passes.
PresenceFairness ==
    /\ \A t \in Tabs : WF_presenceVars(StorageChanged(t)) /\ WF_presenceVars(HeartbeatDue(t))
                       /\ WF_presenceVars(Publishes(t))
    /\ \A t \in Tabs, enabled \in BOOLEAN, s \in StakeSites \cup {None} :
          WF_presenceVars(\E w \in posts : w.tab = t /\ w.enabled = enabled /\ w.site = s
                                            /\ (WriteFlag(w) \/ WriteDesktop(w)))
    /\ \A s \in StakeSites : WF_presenceVars(GoesStale(s))

-----------------------------------------------------------------------------
(* Properties.                                                             *)

\* The desktops heard from recently enough, while the manager has opted in.
FreshDesktops == {s \in StakeSites : flag /\ desktops[s] = "fresh"}

\* The phone offers the button on the requests of a site.
Offered(s) == s \in FreshDesktops

Served(s) == \E t \in Tabs : optIn /\ at[t] = s

\* When the manager has opted out, or no tab is left in a site, the phone stops
\* offering the button there for good, also if a heartbeat that was under way
\* lands after the opt-out's writes and turns the flag on again
\* (loop.ts, "the last gate before the write").
DeadOffersFade == \A s \in StakeSites : <>[]~Served(s) => <>[]~Offered(s)

\* While the manager is opted in and a tab stays in a site, the phone keeps
\* being offered it: what a sibling tab takes back late - the flag, the site's
\* document - is written again (useRemoteApply.ts, publishDisabled).
LiveTabShown == \A t \in Tabs, s \in StakeSites : <>[](optIn /\ at[t] = s) => []<>Offered(s)

\* What the phone is offered comes to be what the tabs serve, both ways.
OffersFollowTabs == DeadOffersFade /\ LiveTabShown
=============================================================================
