--------------------------- MODULE KindooTab_proofs --------------------------
(***************************************************************************)
(* Three parts of the extension that lives in a Kindoo tab, for every      *)
(* profile, every set of devices and every catalogue of a stake.           *)
(*                                                                         *)
(* Presence: whatever the tabs, the toggle and the delayed writes do, the  *)
(* documents the phone reads and the writes on their way are well formed.  *)
(* What the documents come to say is a liveness property and is            *)
(* model-checked.                                                          *)
(*                                                                         *)
(* The pruning of dead push registrations: FCM never issues a token twice, *)
(* so one that a fan-out found dead stays dead while the slot it stood in  *)
(* may change.                                                             *)
(*                                                                         *)
(* Sync: a fix, however old its row, writes one grant - the one the row    *)
(* was surfaced from, or the slot of the new one - and moves the access of *)
(* a scope with its grants; that of a row that is still true heals it.     *)
(***************************************************************************)
EXTENDS Presence, PushTokens, SyncFixes, FiniteSetTheorems, SequenceTheorems,
        WellFoundedInduction, TLAPS

-----------------------------------------------------------------------------
(* Presence.                                                               *)

\* The second write of a heartbeat or of an opt-out has a site to stamp.
DesktopsHaveSites == \A w \in posts : w.part = "desktop" => w.site \in StakeSites

PresenceInv == PresenceTypeOK /\ DesktopsHaveSites

LEMMA SitesAreNamed == Closed \notin StakeSites /\ Elsewhere \notin StakeSites /\ None \notin StakeSites
BY PresenceAssumption

LEMMA PresenceInitial == PresenceInit => PresenceInv
BY DEF PresenceInit, PresenceInv, PresenceTypeOK, DesktopsHaveSites, Post

LEMMA FollowsKeeps ==
    ASSUME PresenceInv, NEW t \in Tabs, NEW value \in BOOLEAN, Follows(t, value)
    PROVE  cached' \in [Tabs -> BOOLEAN] /\ posts' \subseteq Post
           /\ \A w \in posts' : w.part = "desktop" => w.site \in StakeSites
<1>1. t \in Tabs /\ published[t] \in StakeSites \cup {None}
    BY DEF PresenceInv, PresenceTypeOK
<1>2. [tab |-> t, enabled |-> FALSE, site |-> published[t], part |-> "flag"] \in Post
    BY <1>1 DEF Post
<1>3. cached' \in [Tabs -> BOOLEAN]
    BY DEF Follows, PresenceInv, PresenceTypeOK
<1>4. posts \subseteq Post /\ \A w \in posts : w.part = "desktop" => w.site \in StakeSites
    BY DEF PresenceInv, PresenceTypeOK, DesktopsHaveSites
<1>5. posts' = posts
      \/ posts' = posts \cup {[tab |-> t, enabled |-> FALSE, site |-> published[t], part |-> "flag"]}
    BY DEF Follows
<1>6. posts' \subseteq Post
    BY <1>2, <1>4, <1>5
<1>7. ASSUME NEW w \in posts', w.part = "desktop" PROVE w.site \in StakeSites
    BY <1>4, <1>5, <1>7
<1> QED BY <1>3, <1>6, <1>7

LEMMA PresenceStep == PresenceInv /\ [PresenceNext]_presenceVars => PresenceInv'
<1> USE DEF PresenceInv, PresenceTypeOK, DesktopsHaveSites
<1> SUFFICES ASSUME PresenceInv, [PresenceNext]_presenceVars PROVE PresenceInv'
    OBVIOUS
<1>1. ASSUME NEW t \in Tabs, NEW value \in BOOLEAN, SetEnabled(t, value) PROVE PresenceInv'
    BY <1>1, FollowsKeeps DEF SetEnabled
<1>2. ASSUME NEW t \in Tabs, StorageChanged(t) PROVE PresenceInv'
    BY <1>2, FollowsKeeps DEF StorageChanged
<1>3. ASSUME NEW t \in Tabs, NEW site \in StakeSites \cup {Elsewhere}, Switches(t, site) PROVE PresenceInv'
    BY <1>3 DEF Switches, Moves
<1>4. ASSUME NEW t \in Tabs, NEW site \in StakeSites \cup {Elsewhere}, Opens(t, site) PROVE PresenceInv'
    BY <1>4 DEF Opens, Moves
<1>5. ASSUME NEW t \in Tabs, Closes(t) PROVE PresenceInv'
    BY <1>5 DEF Closes, Moves
<1>6. ASSUME NEW t \in Tabs, HeartbeatDue(t) PROVE PresenceInv'
    BY <1>6 DEF HeartbeatDue
<1>7. ASSUME NEW t \in Tabs, Publishes(t) PROVE PresenceInv'
  <2>1. posts' \subseteq Post /\ \A w \in posts' : w.part = "desktop" => w.site \in StakeSites
    <3> DEFINE new == [tab |-> t, enabled |-> TRUE, site |-> tick[t], part |-> "flag"]
    <3>1. new \in Post
        BY <1>7 DEF Publishes, Post
    <3>2. posts' = posts \/ posts' = posts \cup {new}
        BY <1>7 DEF Publishes, FirstPart
    <3>3. new.part # "desktop"
        OBVIOUS
    <3> HIDE DEF new
    <3>4. posts' \subseteq Post
        BY <3>1, <3>2
    <3>5. ASSUME NEW w \in posts', w.part = "desktop" PROVE w.site \in StakeSites
        BY <3>2, <3>3, <3>5
    <3> QED BY <3>4, <3>5
  <2>2. tick' \in [Tabs -> {"idle", "writing"} \cup StakeSites]
      BY <1>7 DEF Publishes
  <2> QED BY <1>7, <2>1, <2>2 DEF Publishes
<1>8. ASSUME NEW t \in Tabs, KindooRefuses(t) PROVE PresenceInv'
    BY <1>8 DEF KindooRefuses, Moves
<1>9. ASSUME NEW w \in posts, WriteFlag(w) PROVE PresenceInv'
  <2>1. w \in Post
      BY <1>9
  <2>2. posts' \subseteq Post /\ \A v \in posts' : v.part = "desktop" => v.site \in StakeSites
      BY <1>9, <2>1 DEF WriteFlag, Post
  <2> QED BY <1>9, <2>1, <2>2 DEF WriteFlag, Post
<1>10. ASSUME NEW w \in posts PROVE Answered(w) => tick' \in [Tabs -> {"idle", "writing"} \cup StakeSites]
    BY DEF Answered
<1>11. ASSUME NEW w \in posts, WriteDesktop(w) PROVE PresenceInv'
  <2>1. w \in Post /\ w.site \in StakeSites
      BY <1>11 DEF WriteDesktop
  <2>2. published' \in [Tabs -> StakeSites \cup {None}]
      BY <1>11, <2>1 DEF WriteDesktop, Post
  <2>3. desktops' \in [StakeSites -> {"absent", "fresh", "stale"}]
      BY <1>11, <2>1 DEF WriteDesktop
  <2> QED BY <1>10, <1>11, <2>2, <2>3 DEF WriteDesktop
<1>12. ASSUME NEW w \in posts, WriteRefused(w) PROVE PresenceInv'
    BY <1>10, <1>12 DEF WriteRefused, Moves
<1>13. ASSUME NEW s \in StakeSites, GoesStale(s) PROVE PresenceInv'
    BY <1>13 DEF GoesStale
<1>14. ASSUME UNCHANGED presenceVars PROVE PresenceInv'
    BY <1>14 DEF presenceVars
<1> QED BY <1>1, <1>2, <1>3, <1>4, <1>5, <1>6, <1>7, <1>8, <1>9, <1>11, <1>12, <1>13, <1>14 DEF PresenceNext

\* The presence flag, the desktop documents, the tabs' copies of the opt-in
\* and the writes on their way are always of their types, and no write of a
\* desktop document lacks its site (background/data.ts,
\* writeRemotePresence).
THEOREM PresenceTypeCorrect == PresenceSpec => []PresenceInv
BY PresenceInitial, PresenceStep, PTL DEF PresenceSpec

-----------------------------------------------------------------------------
(* Push registrations.                                                     *)

LEMMA NewRequestIsCategory == NewRequest \in Categories /\ MaxTokens \in Nat
BY PushAssumption

\* FCM has not issued the token yet when it hands out the next one.
TokensIssued ==
    /\ \A d \in Devices : live[d] \leq issued[d] /\ slots[d] \leq issued[d] /\ enabling[d] \leq issued[d]
    /\ \A c \in Categories : \A e \in fanouts[c] \cup dead[c] : e.token \leq issued[e.device]

\* A token that a fan-out gave up works no longer.
DeadIsDead == \A c \in Categories : \A e \in dead[c] : live[e.device] # e.token

PushInv == PushTypeOK /\ TokensIssued /\ DeadIsDead

LEMMA PushInitial == PushInit => PushInv
<1> SUFFICES ASSUME PushInit PROVE PushInv
    OBVIOUS
<1>1. PushTypeOK
    BY NewRequestIsCategory DEF PushInit, PushTypeOK, Token, Entry, NoToken
<1>2. TokensIssued
    BY DEF PushInit, TokensIssued, NoToken
<1>3. DeadIsDead
    BY DEF PushInit, DeadIsDead
<1> QED BY <1>1, <1>2, <1>3 DEF PushInv

LEMMA PushStep == PushInv /\ [PushNext]_pushVars => PushInv'
<1> USE NewRequestIsCategory DEF Token, Entry, NoToken
<1> SUFFICES ASSUME PushInv, [PushNext]_pushVars PROVE PushInv'
    OBVIOUS
<1>0. PushTypeOK /\ TokensIssued /\ DeadIsDead
    BY DEF PushInv
<1>1. ASSUME NEW d \in Devices, GetToken(d) PROVE PushInv'
  <2>1. /\ issued' \in [Devices -> Token] /\ live' \in [Devices -> Token]
        /\ \A o \in Devices : issued[o] \leq issued'[o] /\ live'[o] \leq issued'[o]
      BY <1>0, <1>1 DEF GetToken, PushTypeOK, TokensIssued
  <2>2. enabling' \in [Devices -> Token] /\ \A o \in Devices : enabling'[o] \leq issued'[o]
      BY <1>0, <1>1, <2>1 DEF GetToken, PushTypeOK, TokensIssued
  <2>3. PushTypeOK'
      BY <1>0, <1>1, <2>1, <2>2 DEF GetToken, PushTypeOK
  <2>4. TokensIssued'
    <3>1. ASSUME NEW o \in Devices PROVE slots'[o] \leq issued'[o]
        BY <1>0, <1>1, <2>1 DEF GetToken, PushTypeOK, TokensIssued
    <3>2. ASSUME NEW c \in Categories, NEW e \in fanouts'[c] \cup dead'[c]
          PROVE  e.token \leq issued'[e.device]
      <4>1. e \in fanouts[c] \cup dead[c] /\ e \in Entry
          BY <1>0, <1>1, <3>2 DEF GetToken, PushTypeOK
      <4> QED BY <1>0, <2>1, <4>1 DEF PushTypeOK, TokensIssued
    <3> QED BY <2>1, <2>2, <3>1, <3>2 DEF TokensIssued
  <2>5. DeadIsDead'
    <3> SUFFICES ASSUME NEW c \in Categories, NEW e \in dead[c] PROVE live'[e.device] # e.token
        BY <1>1 DEF GetToken, DeadIsDead
    <3>1. e \in Entry /\ e.token \leq issued[e.device] /\ live[e.device] # e.token
        BY <1>0 DEF PushTypeOK, TokensIssued, DeadIsDead
    <3>2. live'[e.device] = live[e.device] \/ live'[e.device] = issued[e.device] + 1
        BY <1>0, <1>1, <3>1 DEF GetToken, PushTypeOK
    <3> QED BY <1>0, <3>1, <3>2 DEF PushTypeOK
  <2> QED BY <2>3, <2>4, <2>5 DEF PushInv
<1>2. ASSUME NEW d \in Devices, Enable(d) PROVE PushInv'
    BY <1>0, <1>2 DEF Enable, NewRequest, PushInv, PushTypeOK, TokensIssued, DeadIsDead
<1>3. ASSUME NEW d \in Devices, NEW takenBack \in BOOLEAN, Disable(d, takenBack) PROVE PushInv'
  <2>1. PushTypeOK'
      BY <1>0, <1>3 DEF Disable, PushTypeOK
  <2>2. TokensIssued'
      BY <1>0, <1>3 DEF Disable, PushTypeOK, TokensIssued
  <2>3. DeadIsDead'
      BY <1>0, <1>3 DEF Disable, PushTypeOK, DeadIsDead
  <2> QED BY <2>1, <2>2, <2>3 DEF PushInv
<1>4. ASSUME NEW d \in Devices, TokenExpires(d) PROVE PushInv'
    BY <1>0, <1>4 DEF TokenExpires, PushInv, PushTypeOK, TokensIssued, DeadIsDead
<1>5. ASSUME NEW c \in Categories, UpdatePref(c) PROVE PushInv'
    BY <1>0, <1>5 DEF UpdatePref, PushInv, PushTypeOK, TokensIssued, DeadIsDead
<1>6. ASSUME NEW c \in Categories, Collect(c) PROVE PushInv'
  <2>1. PushTypeOK'
      BY <1>0, <1>6 DEF Collect, PushTypeOK
  <2>2. TokensIssued'
      BY <1>0, <1>6 DEF Collect, PushTypeOK, TokensIssued
  <2>3. DeadIsDead'
      BY <1>0, <1>6 DEF Collect, DeadIsDead
  <2> QED BY <2>1, <2>2, <2>3 DEF PushInv
<1>7. ASSUME NEW c \in Categories, Prune(c) PROVE PushInv'
  <2>1. PushTypeOK'
      BY <1>0, <1>7 DEF Prune, PushTypeOK
  <2>2. TokensIssued'
      BY <1>0, <1>7 DEF Prune, PushTypeOK, TokensIssued
  <2>3. DeadIsDead'
      BY <1>0, <1>7 DEF Prune, PushTypeOK, DeadIsDead
  <2> QED BY <2>1, <2>2, <2>3 DEF PushInv
<1>8. ASSUME NEW c \in Categories, NEW transient \in SUBSET fanouts[c], Send(c, transient)
      PROVE  PushInv'
  <2> DEFINE rejected == {e \in fanouts[c] : live[e.device] # e.token}
  <2>1. dead' = [dead EXCEPT ![c] = rejected]
      BY <1>8 DEF Send, Unrecoverable
  <2>2. PushTypeOK'
      BY <1>0, <1>8, <2>1 DEF Send, PushTypeOK
  <2>3. TokensIssued'
      BY <1>0, <1>8, <2>1 DEF Send, PushTypeOK, TokensIssued
  <2>4. DeadIsDead'
      BY <1>0, <1>8, <2>1 DEF Send, PushTypeOK, DeadIsDead
  <2> QED BY <2>2, <2>3, <2>4 DEF PushInv
<1>9. ASSUME UNCHANGED pushVars PROVE PushInv'
    BY <1>0, <1>9 DEF pushVars, PushInv, PushTypeOK, TokensIssued, DeadIsDead
<1> QED BY <1>1, <1>2, <1>3, <1>4, <1>5, <1>6, <1>7, <1>8, <1>9 DEF PushNext

\* Tokens a fan-out gave up stay dead: the registrations, the fan-outs and
\* FCM's issue count are always of their types, and no token it is about to
\* prune works (lib/push.ts and features/notifications/hooks.ts).
THEOREM GivenUpStaysDead == PushSpec => []PushInv
BY PushInitial, PushStep, PTL DEF PushSpec

\* A device's working token is the last one it was issued.
LiveIsLast == \A d \in Devices : live[d] \in {NoToken, issued[d]}

LEMMA LiveIsLastStep == PushInv /\ LiveIsLast /\ [PushNext]_pushVars => LiveIsLast'
<1> SUFFICES ASSUME PushInv, LiveIsLast, [PushNext]_pushVars PROVE LiveIsLast'
    OBVIOUS
<1>0. live \in [Devices -> Token] /\ issued \in [Devices -> Token]
    BY DEF PushInv, PushTypeOK
<1>1. ASSUME NEW d \in Devices, GetToken(d) PROVE LiveIsLast'
    BY <1>0, <1>1 DEF GetToken, LiveIsLast
<1>2. ASSUME NEW d \in Devices, Enable(d) \/ TokenExpires(d) \/ \E takenBack \in BOOLEAN : Disable(d, takenBack)
      PROVE  LiveIsLast'
    BY <1>0, <1>2 DEF Enable, TokenExpires, Disable, LiveIsLast
<1>3. ASSUME NEW c \in Categories,
             UpdatePref(c) \/ Collect(c) \/ Prune(c) \/ \E transient \in SUBSET fanouts[c] : Send(c, transient)
      PROVE  LiveIsLast'
    BY <1>3 DEF UpdatePref, Collect, Prune, Send, LiveIsLast
<1>4. CASE UNCHANGED pushVars
    BY <1>4 DEF pushVars, LiveIsLast
<1> QED BY <1>1, <1>2, <1>3, <1>4 DEF PushNext

\* What the prune of lib/push.ts deletes is dead, or newer than the token that the
\* send found dead: a working registration is lost only to a device that registered
\* anew meanwhile, and the loss of that one the code does not prevent.
THEOREM PrunedIsDeadOrNewer == PushSpec => WorkingPrunedOnlyIfNewer
<1>1. PushInit => LiveIsLast
    BY DEF PushInit, LiveIsLast
<1>2. PushInv /\ LiveIsLast =>
        [\A c \in Categories : \A e \in dead[c] :
           Prune(c) /\ slots[e.device] # NoToken /\ slots[e.device] = live[e.device]
           => slots[e.device] > e.token]_pushVars
  <2> SUFFICES ASSUME PushInv, LiveIsLast, NEW c \in Categories, NEW e \in dead[c],
                      slots[e.device] # NoToken, slots[e.device] = live[e.device]
               PROVE  slots[e.device] > e.token
      OBVIOUS
  <2>1. e \in Entry
      BY DEF PushInv, PushTypeOK
  <2>2. e.device \in Devices /\ e.token \in Nat
      BY <2>1, PushAssumption DEF Entry, Token
  <2>3. live[e.device] = issued[e.device] /\ issued[e.device] \in Nat
      BY <2>2, PushAssumption DEF LiveIsLast, PushInv, PushTypeOK, Token
  <2>4. e.token \leq issued[e.device] /\ live[e.device] # e.token
      BY <2>2 DEF PushInv, TokensIssued, DeadIsDead
  <2> QED BY <2>2, <2>3, <2>4
<1> QED BY <1>1, <1>2, LiveIsLastStep, GivenUpStaysDead, PTL DEF PushSpec, WorkingPrunedOnlyIfNewer

-----------------------------------------------------------------------------
(* Seats, grant by grant.                                                  *)

\* A set of naturals that is not empty has a least member.
LEMMA LeastMember == ASSUME NEW I, I \subseteq Nat, I # {}
  PROVE Min(I) \in I /\ \A i \in I : Min(I) <= i
<1> DEFINE R == OpToRel(<, Nat)
<1>1. \E x \in I : \A y \in I : ~(<<y, x>> \in R)
  BY NatLessThanWellFounded, WFMin
<1>2. ASSUME NEW x \in Nat, NEW y \in Nat, y < x PROVE <<y, x>> \in R
  <2>1. <<y, x>>[1] < <<y, x>>[2] BY <1>2
  <2> QED BY <2>1, Zenon DEF OpToRel
<1> HIDE DEF R
<1>3. PICK x \in I : \A y \in I : ~(<<y, x>> \in R) BY <1>1
<1>4. ASSUME NEW y \in I PROVE x <= y
  <2>1. x \in Nat /\ y \in Nat OBVIOUS
  <2>2. ~(y < x) BY <1>2, <1>3, <2>1
  <2> QED BY <2>1, <2>2
<1> QED BY <1>4 DEF Min

\* Removing one position moves the later entries up by one.
LEMMA RemoveAtFacts ==
    ASSUME NEW S, NEW d \in Seq(S), NEW i \in 1..Len(d)
    PROVE  /\ RemoveAt(d, i) \in Seq(S)
           /\ Len(RemoveAt(d, i)) = Len(d) - 1
           /\ \A j \in 1..Len(d) - 1 : RemoveAt(d, i)[j] = IF j < i THEN d[j] ELSE d[j + 1]
<1> DEFINE a == SubSeq(d, 1, i - 1)
           b == SubSeq(d, i + 1, Len(d))
<1>1. Len(d) \in Nat BY LenProperties
<1>2. \A j \in 1..Len(d) : d[j] \in S BY ElementOfSeq
<1>3. a \in Seq(S) /\ Len(a) = i - 1 /\ \A j \in 1..i - 1 : a[j] = d[j]
  <2>1. a \in Seq(S) /\ Len(a) = (IF 1 <= i - 1 THEN i - 1 - 1 + 1 ELSE 0)
        /\ \A j \in 1..(i - 1) - 1 + 1 : a[j] = d[1 + j - 1]
    BY <1>1, <1>2, SubSeqProperties
  <2>2. Len(a) = i - 1 BY <2>1
  <2>3. \A j \in 1..i - 1 : j \in 1..(i - 1) - 1 + 1 /\ 1 + j - 1 = j BY <1>1
  <2> QED BY <2>1, <2>2, <2>3
<1>4. b \in Seq(S) /\ Len(b) = Len(d) - i /\ \A j \in 1..Len(d) - i : b[j] = d[j + i]
  <2>1. b \in Seq(S) /\ Len(b) = (IF i + 1 <= Len(d) THEN Len(d) - (i + 1) + 1 ELSE 0)
        /\ \A j \in 1..Len(d) - (i + 1) + 1 : b[j] = d[i + 1 + j - 1]
    BY <1>1, <1>2, SubSeqProperties
  <2>2. Len(b) = Len(d) - i BY <2>1, <1>1
  <2>3. \A j \in 1..Len(d) - i : j \in 1..Len(d) - (i + 1) + 1 /\ i + 1 + j - 1 = j + i BY <1>1
  <2> QED BY <2>1, <2>2, <2>3
<1>5. RemoveAt(d, i) = a \o b BY DEF RemoveAt
<1> HIDE DEF a, b
<1>6. /\ a \o b \in Seq(S)
      /\ Len(a \o b) = Len(d) - 1
      /\ \A j \in 1..Len(d) - 1 : (a \o b)[j] = IF j <= i - 1 THEN a[j] ELSE b[j - (i - 1)]
  <2>1. /\ a \o b \in Seq(S)
        /\ Len(a \o b) = Len(a) + Len(b)
        /\ \A j \in 1..Len(a) + Len(b) : (a \o b)[j] = IF j <= Len(a) THEN a[j] ELSE b[j - Len(a)]
    BY <1>3, <1>4, ConcatProperties
  <2>2. Len(a) + Len(b) = Len(d) - 1 BY <1>1, <1>3, <1>4
  <2> QED BY <2>1, <2>2, <1>3
<1>7. ASSUME NEW j \in 1..Len(d) - 1 PROVE (a \o b)[j] = IF j < i THEN d[j] ELSE d[j + 1]
  <2>1. CASE j < i
    <3>1. j \in 1..i - 1 /\ j <= i - 1 BY <1>1, <2>1
    <3> QED BY <1>6, <1>3, <2>1, <3>1
  <2>2. CASE ~(j < i)
    <3>1. j - (i - 1) \in 1..Len(d) - i /\ j - (i - 1) + i = j + 1 /\ ~(j <= i - 1) BY <1>1, <2>2
    <3> QED BY <1>6, <1>4, <2>2, <3>1
  <2> QED BY <2>1, <2>2
<1> QED BY <1>5, <1>6, <1>7

LEMMA ScopesOfType == ASSUME NEW d \in Seq(Grant) PROVE ScopesOf(d) \in Seq(Scopes)
<1>1. Len(d) \in Nat /\ d \in [1..Len(d) -> Grant] BY LenProperties
<1>2. ScopesOf(d) \in [1..Len(d) -> Scopes] BY <1>1 DEF ScopesOf, Grant
<1> QED BY <1>1, <1>2, SeqDef

LEMMA WithDupsType ==
    ASSUME NEW s \in Seat, NEW d \in Seq(Grant)
    PROVE  /\ WithDups(s, d) \in Seat
           /\ WithDups(s, d).dups = d
           /\ WithDups(s, d).dupScopes = ScopesOf(d)
           /\ Primary(WithDups(s, d)) = Primary(s)
  BY ScopesOfType DEF WithDups, Seat, Primary

Places(st) == 0..Len(st.dups)

LEMMA SeatFacts ==
    ASSUME NEW st \in Seat
    PROVE  /\ st # NoSeat
           /\ st.dups \in Seq(Grant)
           /\ Len(st.dups) \in Nat
           /\ \A i \in 1..Len(st.dups) : st.dups[i] \in Grant
           /\ \A i \in Places(st) : GrantAt(st, i) \in Grant
           /\ GrantAt(st, 0) = Primary(st)
           /\ \A i \in 1..Len(st.dups) : GrantAt(st, i) = st.dups[i]
           /\ Grants(st) = {GrantAt(st, i) : i \in Places(st)}
<1>1. st # NoSeat BY DEF Seat, NoSeat
<1>2. st.dups \in Seq(Grant) BY DEF Seat
<1>3. /\ Len(st.dups) \in Nat
      /\ DOMAIN st.dups = 1..Len(st.dups)
      /\ \A i \in 1..Len(st.dups) : st.dups[i] \in Grant
  BY <1>2, LenProperties, ElementOfSeq
<1>4. Primary(st) \in Grant BY DEF Primary, Seat, Grant
<1>5. /\ GrantAt(st, 0) = Primary(st)
      /\ \A i \in 1..Len(st.dups) : GrantAt(st, i) = st.dups[i]
  BY <1>3 DEF GrantAt
<1>6. \A i \in Places(st) : i = 0 \/ i \in 1..Len(st.dups) BY <1>3 DEF Places
<1>7. 0 \in Places(st) /\ \A i \in 1..Len(st.dups) : i \in Places(st) BY <1>3 DEF Places
<1>8. Grants(st) = {Primary(st)} \cup {st.dups[i] : i \in 1..Len(st.dups)}
  BY <1>1, <1>3 DEF Grants, ToSet
<1>9. Grants(st) = {GrantAt(st, i) : i \in Places(st)}
  <2>1. ASSUME NEW g \in Grants(st) PROVE \E i \in Places(st) : g = GrantAt(st, i)
    BY <1>5, <1>7, <1>8
  <2>2. ASSUME NEW i \in Places(st) PROVE GrantAt(st, i) \in Grants(st)
    BY <1>5, <1>6, <1>8
  <2> QED BY <2>1, <2>2
<1> QED BY <1>1, <1>2, <1>3, <1>4, <1>5, <1>6, <1>9

\* A seat whose mirror is that of its duplicates.
Mirrored(st) == st.dupScopes = ScopesOf(st.dups)

\* Two mirrored seats with the same grants in the same places are the same.
LEMMA SameSeat ==
    ASSUME NEW s \in Seat, NEW t \in Seat, Mirrored(s), Mirrored(t), Len(s.dups) = Len(t.dups),
           \A i \in Places(s) : GrantAt(s, i) = GrantAt(t, i)
    PROVE  s = t
<1>1. Primary(s) = Primary(t)
  <2>1. 0 \in Places(s) BY SeatFacts DEF Places
  <2> QED BY <2>1, SeatFacts
<1>2. s.dups = t.dups
  <2>1. \A i \in 1..Len(s.dups) : i \in Places(s) BY SeatFacts DEF Places
  <2>2. \A i \in 1..Len(s.dups) : s.dups[i] = t.dups[i] BY <2>1, SeatFacts
  <2> QED BY <2>2, SeatFacts, SeqEqual
<1> QED BY <1>1, <1>2 DEF Seat, Primary, Mirrored

LEMMA SeatOfIs ==
    ASSUME NEW g \in Grant, NEW d \in Seq(Grant)
    PROVE  LET t == SeatOf(g, d) IN t \in Seat /\ t.dups = d /\ Mirrored(t) /\ Primary(t) = g
<1> DEFINE t == SeatOf(g, d)
<1>1. t \in Seat BY ScopesOfType DEF SeatOf, Seat, Grant
<1>2. t.dups = d /\ Mirrored(t) BY DEF SeatOf, Mirrored
<1>3. Primary(t) = [scope |-> g.scope, type |-> g.type, site |-> g.site,
                    buildings |-> g.buildings, org |-> g.org, callings |-> g.callings]
  BY DEF SeatOf, Primary
<1>4. @ = g BY DEF Grant
<1> QED BY <1>1, <1>2, <1>3, <1>4

LEMMA Patched ==
    ASSUME NEW st \in Seat, NEW i \in Places(st), NEW g \in Grant
    PROVE  LET t == PatchGrant(st, i, g) IN
           /\ t \in Seat /\ Mirrored(t)
           /\ Len(t.dups) = Len(st.dups)
           /\ \A j \in Places(st) : GrantAt(t, j) = IF j = i THEN g ELSE GrantAt(st, j)
<1> DEFINE t == PatchGrant(st, i, g)
<1>1. /\ st.dups \in Seq(Grant) /\ Len(st.dups) \in Nat
      /\ \A j \in 1..Len(st.dups) : st.dups[j] \in Grant
  BY SeatFacts
<1>2. CASE i = 0
  <2>1. t = SeatOf(g, st.dups) BY <1>2 DEF PatchGrant
  <2>2. t \in Seat /\ t.dups = st.dups /\ Mirrored(t) /\ Primary(t) = g
    BY <2>1, <1>1, SeatOfIs
  <2> QED BY <1>2, <2>2 DEF GrantAt
<1>3. CASE i # 0
  <2> DEFINE d == ReplaceAt(st.dups, i, g)
  <2>1. i \in 1..Len(st.dups) BY <1>1, <1>3 DEF Places
  <2>2. d \in Seq(Grant) /\ Len(d) = Len(st.dups)
        /\ \A j \in 1..Len(st.dups) : d[j] = IF j = i THEN g ELSE st.dups[j]
    BY <1>1, <2>1, ExceptSeq DEF ReplaceAt
  <2>3. t = WithDups(st, d) BY <1>3 DEF PatchGrant
  <2> HIDE DEF d, t
  <2>4. t \in Seat /\ t.dups = d /\ Mirrored(t) /\ Primary(t) = Primary(st)
    BY <2>2, <2>3, WithDupsType DEF Mirrored
  <2>5. ASSUME NEW j \in Places(st) PROVE GrantAt(t, j) = IF j = i THEN g ELSE GrantAt(st, j)
    <3>1. j = 0 \/ j \in 1..Len(st.dups) BY <1>1 DEF Places
    <3> QED BY <1>3, <2>2, <2>4, <3>1 DEF GrantAt
  <2> QED BY <2>2, <2>4, <2>5 DEF t
<1> QED BY <1>2, <1>3

LEMMA Appended ==
    ASSUME NEW st \in Seat, NEW g \in Grant
    PROVE  LET t == WithDups(st, Append(st.dups, g)) IN
           /\ t \in Seat /\ Mirrored(t)
           /\ Len(t.dups) = Len(st.dups) + 1
           /\ \A j \in Places(st) : GrantAt(t, j) = GrantAt(st, j)
           /\ GrantAt(t, Len(st.dups) + 1) = g
<1> DEFINE d == Append(st.dups, g)
           t == WithDups(st, d)
<1>1. st.dups \in Seq(Grant) /\ Len(st.dups) \in Nat BY SeatFacts
<1>2. /\ d \in Seq(Grant) /\ Len(d) = Len(st.dups) + 1
      /\ \A j \in 1..Len(st.dups) : d[j] = st.dups[j]
      /\ d[Len(st.dups) + 1] = g
  BY <1>1, AppendProperties
<1> HIDE DEF d
<1>3. t \in Seat /\ t.dups = d /\ Mirrored(t) /\ Primary(t) = Primary(st)
  BY <1>2, WithDupsType DEF Mirrored
<1> HIDE DEF t
<1>4. ASSUME NEW j \in Places(st) PROVE GrantAt(t, j) = GrantAt(st, j)
  <2>1. j = 0 \/ j \in 1..Len(st.dups) BY <1>1 DEF Places
  <2> QED BY <1>2, <1>3, <2>1 DEF GrantAt
<1>5. GrantAt(t, Len(st.dups) + 1) = g
  <2>1. Len(st.dups) + 1 # 0 BY <1>1
  <2> QED BY <1>2, <1>3, <2>1 DEF GrantAt
<1> QED BY <1>2, <1>3, <1>4, <1>5 DEF t, d

LEMMA Dropped ==
    ASSUME NEW st \in Seat, NEW i \in 1..Len(st.dups)
    PROVE  LET t == WithDups(st, RemoveAt(st.dups, i)) IN
           /\ t \in Seat /\ Mirrored(t)
           /\ \A j \in Places(st) : j # i => GrantAt(st, j) \in Grants(t)
<1> DEFINE d == RemoveAt(st.dups, i)
           t == WithDups(st, d)
           n == Len(st.dups)
<1>1. st.dups \in Seq(Grant) /\ n \in Nat BY SeatFacts
<1>2. /\ d \in Seq(Grant) /\ Len(d) = n - 1
      /\ \A j \in 1..n - 1 : d[j] = IF j < i THEN st.dups[j] ELSE st.dups[j + 1]
  BY <1>1, RemoveAtFacts
<1> HIDE DEF d
<1>3. t \in Seat /\ t.dups = d /\ Mirrored(t) /\ Primary(t) = Primary(st)
  BY <1>2, WithDupsType DEF Mirrored
<1> HIDE DEF t
<1>4. ASSUME NEW j \in Places(st), j # i PROVE GrantAt(st, j) \in Grants(t)
  <2>1. CASE j = 0
    <3>1. 0 \in Places(t) BY <1>3, SeatFacts DEF Places
    <3> QED BY <1>3, <2>1, <3>1, SeatFacts
  <2>2. CASE j # 0
    <3>1. PICK k \in 1..n - 1 : d[k] = st.dups[j]
      <4>1. CASE j < i
        <5>1. j \in 1..n - 1 BY <1>1, <2>2, <4>1 DEF Places
        <5> QED BY <1>2, <4>1, <5>1
      <4>2. CASE ~(j < i)
        <5>1. j - 1 \in 1..n - 1 /\ ~(j - 1 < i) /\ (j - 1) + 1 = j
          BY <1>1, <1>4, <2>2, <4>2 DEF Places
        <5> QED BY <1>2, <5>1
      <4> QED BY <4>1, <4>2
    <3>2. k \in Places(t) /\ GrantAt(t, k) = d[k] BY <1>1, <1>2, <1>3 DEF Places, GrantAt
    <3>3. GrantAt(st, j) = st.dups[j] BY <2>2 DEF GrantAt
    <3> QED BY <1>3, <3>1, <3>2, <3>3, SeatFacts
  <2> QED BY <2>1, <2>2
<1> QED BY <1>3, <1>4 DEF t, d

\* A promotion keeps the scope and the type of every grant but the primary.
LEMMA Promoted ==
    ASSUME NEW st \in Seat, st.dups # <<>>
    PROVE  LET t == ApplyRemove(st, Plan("promote", 1)) IN
           /\ t \in Seat /\ Mirrored(t)
           /\ \A j \in 1..Len(st.dups) : \E g \in Grants(t) : g.scope = st.dups[j].scope
<1> DEFINE n == Len(st.dups)
           d == RemoveAt(st.dups, 1)
           u == WithDups(st, d)
           t == ApplyRemove(st, Plan("promote", 1))
           first == st.dups[1]
<1>1. st.dups \in Seq(Grant) /\ n \in Nat /\ \A j \in 1..n : st.dups[j] \in Grant BY SeatFacts
<1>2. 1 \in 1..n BY <1>1, EmptySeq
<1>3. d \in Seq(Grant) BY <1>1, <1>2, RemoveAtFacts
<1>4. /\ u \in Seat /\ Mirrored(u)
      /\ \A j \in Places(st) : j # 1 => GrantAt(st, j) \in Grants(u)
  BY <1>2, Dropped
<1>5. t = [u EXCEPT !.scope = first.scope, !.type = first.type, !.site = first.site,
                    !.buildings = first.buildings, !.callings = first.callings]
  BY DEF ApplyRemove, Plan
<1>6. first \in Grant /\ u.dups = d BY <1>1, <1>2, <1>3, WithDupsType
<1> HIDE DEF d, u, t, first
<1>7. t \in Seat /\ Mirrored(t) /\ t.dups = u.dups /\ t.scope = first.scope
  BY <1>4, <1>5, <1>6 DEF Seat, Grant, Mirrored
<1>8. Primary(t) \in Grants(t) /\ Primary(t).scope = first.scope
  <2>1. 0 \in Places(t) BY <1>7, SeatFacts DEF Places
  <2> QED BY <1>7, <2>1, SeatFacts DEF Primary
<1>9. ASSUME NEW j \in 1..n PROVE \E g \in Grants(t) : g.scope = st.dups[j].scope
  <2>1. CASE j = 1 BY <1>8, <2>1 DEF first
  <2>2. CASE j # 1
    <3> DEFINE e == RemoveAt(st.dups, 1)
    <3>1. /\ e \in Seq(Grant) /\ Len(e) = n - 1
          /\ \A k \in 1..n - 1 : e[k] = IF k < 1 THEN st.dups[k] ELSE st.dups[k + 1]
      BY <1>1, <1>2, RemoveAtFacts
    <3>2. t.dups = e BY <1>6, <1>7 DEF d
    <3> HIDE DEF e
    <3>3. j - 1 \in 1..n - 1 /\ ~(j - 1 < 1) /\ (j - 1) + 1 = j BY <1>1, <2>2
    <3>4. t.dups[j - 1] = st.dups[j] BY <3>1, <3>2, <3>3
    <3>5. j - 1 \in Places(t) /\ GrantAt(t, j - 1) = t.dups[j - 1]
      BY <1>1, <3>1, <3>2, <3>3 DEF Places, GrantAt
    <3> QED BY <1>7, <3>4, <3>5, SeatFacts
  <2> QED BY <2>1, <2>2
<1> QED BY <1>7, <1>9 DEF t

-----------------------------------------------------------------------------
(* The slot a fix writes.                                                  *)

LEMMA ResolvedSlot ==
    ASSUME NEW st \in Seat, NEW scope, NEW site
    PROVE  LET i == ResolveGrantSlot(st, scope, site) IN
           i = Missing \/ (i \in Places(st) /\ GrantAt(st, i).scope = scope)
<1> DEFINE n == Len(st.dups)
           I == {i \in 1..n : Matches(st.dups[i], scope, site)}
           k == SelectInSeq(st.dups, LAMBDA d : Matches(d, scope, site))
<1>1. n \in Nat BY SeatFacts
<1>2. k = IF I # {} THEN Min(I) ELSE 0 BY DEF SelectInSeq
<1>3. I # {} => Min(I) \in I
  <2>1. I \subseteq Nat OBVIOUS
  <2> QED BY ONLY <2>1, LeastMember
<1>4. k > 0 => k \in 1..n /\ st.dups[k].scope = scope
  <2>1. \A i \in I : i \in 1..n /\ st.dups[i].scope = scope BY DEF Matches
  <2> HIDE DEF I, k
  <2> QED BY <1>2, <1>3, <2>1
<1>5. ResolveGrantSlot(st, scope, site) = IF Matches(st, scope, site) THEN 0 ELSE IF k > 0 THEN k ELSE Missing
  BY DEF ResolveGrantSlot
<1> HIDE DEF k, I
<1>6. GrantAt(st, 0).scope = st.scope BY DEF GrantAt, Primary
<1>7. 0 \in Places(st) /\ \A i \in 1..n : i \in Places(st) BY <1>1 DEF Places
<1>8. k > 0 => GrantAt(st, k) = st.dups[k] BY <1>4, SeatFacts
<1>9. Matches(st, scope, site) => st.scope = scope BY DEF Matches
<1>10. CASE Matches(st, scope, site) BY <1>5, <1>6, <1>7, <1>9, <1>10
<1>11. CASE ~Matches(st, scope, site) /\ k > 0 BY <1>4, <1>5, <1>7, <1>8, <1>11
<1>12. CASE ~Matches(st, scope, site) /\ ~(k > 0) BY <1>5, <1>12
<1> QED BY <1>10, <1>11, <1>12

LEMMA SlotAtIs ==
    ASSUME NEW st \in Seat, NEW scope, NEW type
    PROVE  LET i == SlotAt(st, scope, type) IN
           i = Missing \/ (i \in Places(st) /\ GrantAt(st, i).scope = scope)
<1> DEFINE n == Len(st.dups)
           I == {i \in 1..n : st.dups[i].scope = scope /\ st.dups[i].type = type}
           k == SlotIndex(st.dups, scope, type)
<1>1. n \in Nat BY SeatFacts
<1>2. k = IF I # {} THEN Min(I) ELSE 0 BY DEF SlotIndex, SelectInSeq
<1>3. I # {} => Min(I) \in I
  <2>1. I \subseteq Nat OBVIOUS
  <2> QED BY ONLY <2>1, LeastMember
<1>4. k > 0 => k \in 1..n /\ st.dups[k].scope = scope BY <1>2, <1>3
<1>5. SlotAt(st, scope, type) = IF st.scope = scope /\ st.type = type THEN 0 ELSE IF k > 0 THEN k ELSE Missing
  BY DEF SlotAt
<1> HIDE DEF k, I
<1>6. GrantAt(st, 0).scope = st.scope BY DEF GrantAt, Primary
<1>7. 0 \in Places(st) /\ \A i \in 1..n : i \in Places(st) BY <1>1 DEF Places
<1>8. k > 0 => GrantAt(st, k) = st.dups[k] BY <1>4, SeatFacts
<1>9. CASE st.scope = scope /\ st.type = type BY <1>5, <1>6, <1>7, <1>9
<1>10. CASE ~(st.scope = scope /\ st.type = type) /\ k > 0 BY <1>4, <1>5, <1>7, <1>8, <1>10
<1>11. CASE ~(st.scope = scope /\ st.type = type) /\ ~(k > 0) BY <1>5, <1>11
<1> QED BY <1>9, <1>10, <1>11

-----------------------------------------------------------------------------
(* What every fix does to a seat and to the access that goes with it.      *)

Access == [Scopes -> SUBSET Callings]

ByCalling(g, s) == g.scope = s /\ g.type = "auto"

Earned(acc, st, acc2) == \A s \in Scopes : acc2[s] \ acc[s] # {} => \E g \in Grants(st) : ByCalling(g, s)

ByAuto(st, acc) == \A s \in Scopes : acc[s] # {} => \E g \in Grants(st) : ByCalling(g, s)

Backed(st, acc) == \A s \in Scopes : acc[s] # {} => \E g \in Grants(st) : g.scope = s

\* A row of a Description that names callings.
Named(row) == row.code = "scope-mismatch" => row.callings # {}

\* One grant written or appended, and the others where they were.
OneWritten(st, t, scopes) ==
    \/ st = NoSeat /\ Len(t.dups) = 0
    \/ /\ st \in Seat /\ Len(t.dups) = Len(st.dups) + 1
       /\ \A j \in Places(st) : GrantAt(t, j) = GrantAt(st, j)
    \/ /\ st \in Seat /\ Len(t.dups) = Len(st.dups)
       /\ \E i \in Places(st) : /\ GrantAt(st, i).scope \in scopes
                                /\ \A j \in Places(st) \ {i} : GrantAt(t, j) = GrantAt(st, j)

Fixed(st, acc, row, result) ==
    /\ result.seat \in Seat /\ Mirrored(result.seat) /\ result.access \in Access
    /\ Earned(acc, result.seat, result.access)
    /\ Named(row) /\ ByAuto(st, acc) => Backed(result.seat, result.access)
    /\ OneWritten(st, result.seat, {row.scope, row.newScope})

\* A grant is written in its place.  Access is gained for what it has become,
\* and what it was takes its access along unless another grant holds the scope.
LEMMA PatchFixes ==
    ASSUME NEW st \in Seat, NEW i \in Places(st), NEW g \in Grant, NEW acc \in Access, NEW acc2 \in Access,
           NEW row, GrantAt(st, i).scope \in {row.scope, row.newScope},
           \A s \in Scopes : acc2[s] \ acc[s] # {} => ByCalling(g, s),
           Named(row) => \A s \in Scopes : acc2[s] # {} /\ s # g.scope =>
               acc[s] # {} /\ (ByCalling(GrantAt(st, i), s) => HeldElsewhere(st, i, s))
    PROVE  Fixed(st, acc, row, Done(PatchGrant(st, i, g), acc2))
<1> DEFINE t == PatchGrant(st, i, g)
<1>1. /\ t \in Seat /\ Mirrored(t) /\ Len(t.dups) = Len(st.dups)
      /\ \A j \in Places(st) : GrantAt(t, j) = IF j = i THEN g ELSE GrantAt(st, j)
  BY Patched
<1>2. Done(t, acc2).seat = t /\ Done(t, acc2).access = acc2 BY DEF Done
<1> HIDE DEF t
<1>3. Places(t) = Places(st) BY <1>1 DEF Places
<1>4. g \in Grants(t) /\ \A j \in Places(st) : j # i => GrantAt(st, j) \in Grants(t)
  BY <1>1, <1>3, SeatFacts
<1>5. Earned(acc, t, acc2) BY <1>4 DEF Earned
<1>6. ASSUME Named(row), ByAuto(st, acc), NEW s \in Scopes, acc2[s] # {}
      PROVE  \E h \in Grants(t) : h.scope = s
  <2>1. CASE s = g.scope BY <1>4, <2>1
  <2>2. CASE s # g.scope
    <3>1. acc[s] # {} /\ (ByCalling(GrantAt(st, i), s) => HeldElsewhere(st, i, s)) BY <1>6, <2>2
    <3>2. PICK h \in Grants(st) : ByCalling(h, s) BY <1>6, <3>1 DEF ByAuto
    <3>3. PICK j \in Places(st) : h = GrantAt(st, j) BY <3>2, SeatFacts
    <3>4. CASE j # i BY <1>4, <3>2, <3>3, <3>4 DEF ByCalling
    <3>5. CASE j = i
      <4>1. PICK k \in Places(st) \ {i} : GrantAt(st, k).scope = s
        BY <3>1, <3>2, <3>3, <3>5 DEF HeldElsewhere, Places
      <4> QED BY <1>4, <4>1
    <3> QED BY <3>4, <3>5
  <2> QED BY <2>1, <2>2
<1>7. OneWritten(st, t, {row.scope, row.newScope}) BY <1>1 DEF OneWritten
<1>8. Named(row) /\ ByAuto(st, acc) => Backed(t, acc2) BY <1>6 DEF Backed
<1> QED BY <1>1, <1>2, <1>5, <1>7, <1>8 DEF Fixed, t

LEMMA AccessWritten ==
    ASSUME NEW acc \in Access, NEW scope \in Scopes, NEW callings \in SUBSET Callings
    PROVE  /\ WriteAccess(acc, scope, callings) \in Access
           /\ ClearAccess(acc, scope) \in Access
           /\ \A s \in Scopes : WriteAccess(acc, scope, callings)[s] = IF s = scope THEN callings ELSE acc[s]
           /\ \A s \in Scopes : ClearAccess(acc, scope)[s] = IF s = scope THEN {} ELSE acc[s]
  BY DEF WriteAccess, ClearAccess, Access

LEMMA EarnedType ==
    ASSUME NEW scope, NEW callings \in SUBSET Callings
    PROVE  EarnsAccess(scope, callings) \in SUBSET Callings
  BY DEF EarnsAccess

LEMMA CallingsWritten ==
    ASSUME NEW st \in Seat, NEW i \in Places(st), NEW acc \in Access, NEW row,
           GrantAt(st, i).scope = row.scope, row.callings \in SUBSET Callings,
           ApplyCallingsMismatch(st, acc, i, row).ok
    PROVE  Fixed(st, acc, row, ApplyCallingsMismatch(st, acc, i, row))
<1> DEFINE h == GrantAt(st, i)
           g == [h EXCEPT !.callings = row.callings]
           acc2 == WriteAccess(acc, h.scope, EarnsAccess(h.scope, row.callings))
<1>1. h \in Grant BY SeatFacts
<1>2. h.type = "auto" /\ ApplyCallingsMismatch(st, acc, i, row) = Done(PatchGrant(st, i, g), acc2)
  BY DEF ApplyCallingsMismatch, Refused
<1> HIDE DEF h
<1>3. g \in Grant /\ g.scope = h.scope /\ g.type = h.type BY <1>1 DEF Grant
<1>4. h.scope \in Scopes BY <1>1 DEF Grant
<1>5. /\ acc2 \in Access
      /\ \A s \in Scopes : s # h.scope => acc2[s] = acc[s]
  BY <1>4, AccessWritten, EarnedType
<1> HIDE DEF g, acc2
<1>6. \A s \in Scopes : acc2[s] \ acc[s] # {} => ByCalling(g, s) BY <1>2, <1>3, <1>5 DEF ByCalling
<1>7. \A s \in Scopes : acc2[s] # {} /\ s # g.scope =>
         acc[s] # {} /\ (ByCalling(GrantAt(st, i), s) => HeldElsewhere(st, i, s))
  BY <1>3, <1>5 DEF ByCalling, h
<1> QED BY <1>2, <1>3, <1>5, <1>6, <1>7, PatchFixes

LEMMA TypeWritten ==
    ASSUME NEW st \in Seat, NEW i \in Places(st), NEW acc \in Access, NEW row,
           GrantAt(st, i).scope = row.scope, row.callings \in SUBSET Callings, row.type \in SeatTypes
    PROVE  Fixed(st, acc, row, ApplyTypeMismatch(st, acc, i, row))
<1> DEFINE h == GrantAt(st, i)
           promoted == row.type = "auto" /\ h.type # "auto"
           demoted  == row.type # "auto" /\ h.type = "auto"
           callings == IF promoted /\ row.callings # {} THEN row.callings ELSE h.callings
           earned   == EarnsAccess(h.scope, callings)
           g == [h EXCEPT !.type = row.type, !.callings = callings]
           acc2 == IF promoted /\ earned # {} THEN WriteAccess(acc, h.scope, earned)
                   ELSE IF demoted /\ ~HeldElsewhere(st, i, h.scope) THEN ClearAccess(acc, h.scope)
                   ELSE acc
<1>1. h \in Grant BY SeatFacts
<1>2. ApplyTypeMismatch(st, acc, i, row) = Done(PatchGrant(st, i, g), acc2)
  BY DEF ApplyTypeMismatch
<1> HIDE DEF h
<1>3. h.scope \in Scopes /\ h.callings \in SUBSET Callings BY <1>1 DEF Grant
<1>4. callings \in SUBSET Callings BY <1>3
<1>5. earned \in SUBSET Callings BY <1>4, EarnedType
<1>6. g \in Grant /\ g.scope = h.scope /\ g.type = row.type BY <1>1, <1>4 DEF Grant
<1> HIDE DEF g, callings, earned
<1>7. /\ acc2 \in Access
      /\ \A s \in Scopes : s # h.scope => acc2[s] = acc[s]
      /\ acc2[h.scope] \ acc[h.scope] # {} => promoted
  BY <1>3, <1>5, AccessWritten
<1> HIDE DEF acc2
<1>8. \A s \in Scopes : acc2[s] \ acc[s] # {} => ByCalling(g, s) BY <1>6, <1>7 DEF ByCalling
<1>9. \A s \in Scopes : acc2[s] # {} /\ s # g.scope =>
         acc[s] # {} /\ (ByCalling(GrantAt(st, i), s) => HeldElsewhere(st, i, s))
  BY <1>6, <1>7 DEF ByCalling, h
<1> QED BY <1>2, <1>6, <1>7, <1>8, <1>9, PatchFixes DEF h

LEMMA SiteOfType == ASSUME NEW scope \in Scopes PROVE SiteOf(scope) \in Sites
  BY ScopesAssumption, WardsAssumption DEF SiteOf, Sites

LEMMA NoStampType == ASSUME NEW i PROVE NoStamp(i) \in Sites
  BY DEF NoStamp, Sites

LEMMA ScopeWritten ==
    ASSUME NEW st \in Seat, NEW i \in Places(st), NEW acc \in Access, NEW row, row.code = "scope-mismatch",
           GrantAt(st, i).scope = row.scope, row.callings \in SUBSET Callings, row.newScope \in Scopes
    PROVE  Fixed(st, acc, row, ApplyScopeMismatch(st, acc, i, row))
<1> DEFINE h == GrantAt(st, i)
           site == IF row.newScope = Stake THEN NoStamp(i)
                   ELSE IF SiteOf(row.newScope) = Unset THEN h.site ELSE SiteOf(row.newScope)
           org == IF row.newScope = Stake THEN h.org ELSE NoOrg
           g == [h EXCEPT !.scope = row.newScope, !.site = site, !.org = org]
           crosses == h.scope # row.newScope /\ row.callings # {} /\ h.type = "auto"
           earned == EarnsAccess(row.newScope, row.callings)
           kept == IF HeldElsewhere(st, i, h.scope) THEN acc ELSE ClearAccess(acc, h.scope)
           acc2 == IF crosses THEN IF earned # {} THEN WriteAccess(kept, row.newScope, earned) ELSE kept
                   ELSE acc
<1>1. h \in Grant BY SeatFacts
<1>2. ApplyScopeMismatch(st, acc, i, row) = Done(PatchGrant(st, i, g), acc2)
  BY DEF ApplyScopeMismatch, MovedAccess
<1> HIDE DEF h
<1>3. h.scope \in Scopes /\ h.site \in Sites /\ h.org \in Orgs \cup {NoOrg} BY <1>1 DEF Grant
<1>4. site \in Sites /\ org \in Orgs \cup {NoOrg} BY <1>3, SiteOfType, NoStampType
<1>5. g \in Grant /\ g.scope = row.newScope /\ g.type = h.type
  <2> HIDE DEF site, org
  <2> QED BY <1>1, <1>4 DEF Grant
<1>6. earned \in SUBSET Callings BY EarnedType
<1> HIDE DEF g, earned
<1>7. /\ kept \in Access
      /\ \A s \in Scopes : s # h.scope => kept[s] = acc[s]
      /\ kept[h.scope] # {} => kept[h.scope] = acc[h.scope] /\ HeldElsewhere(st, i, h.scope)
      /\ kept[h.scope] \subseteq acc[h.scope]
  <2>1. CASE HeldElsewhere(st, i, h.scope) BY <2>1
  <2>2. CASE ~HeldElsewhere(st, i, h.scope)
    <3>1. kept = ClearAccess(acc, h.scope) BY <2>2
    <3> HIDE DEF kept
    <3>2. kept \in Access /\ \A s \in Scopes : kept[s] = IF s = h.scope THEN {} ELSE acc[s]
      BY <1>3, <3>1, AccessWritten
    <3> QED BY <1>3, <3>2
  <2> QED BY <2>1, <2>2
<1> HIDE DEF kept
<1>8. /\ acc2 \in Access
      /\ \A s \in Scopes : s # row.newScope => acc2[s] = IF crosses THEN kept[s] ELSE acc[s]
      /\ acc2[row.newScope] \ acc[row.newScope] # {} => crosses
  BY <1>6, <1>7, AccessWritten
<1>9. \A s \in Scopes : acc2[s] \ acc[s] # {} => ByCalling(g, s)
  <2> HIDE DEF acc2
  <2> SUFFICES ASSUME NEW s \in Scopes, acc2[s] \ acc[s] # {} PROVE s = row.newScope /\ crosses
    BY <1>5 DEF ByCalling
  <2>1. CASE s = row.newScope BY <1>8, <2>1
  <2>2. CASE s # row.newScope
    <3>1. acc2[s] \subseteq acc[s] BY <1>7, <1>8, <2>2
    <3> QED BY <3>1
  <2> QED BY <2>1, <2>2
<1>10. Named(row) => \A s \in Scopes : acc2[s] # {} /\ s # g.scope =>
         acc[s] # {} /\ (ByCalling(GrantAt(st, i), s) => HeldElsewhere(st, i, s))
  <2> HIDE DEF acc2
  <2> SUFFICES ASSUME row.callings # {}, NEW s \in Scopes, acc2[s] # {}, s # row.newScope
               PROVE  acc[s] # {} /\ (h.scope = s /\ h.type = "auto" => HeldElsewhere(st, i, s))
    BY <1>5 DEF Named, ByCalling, h
  <2>1. acc2[s] = IF crosses THEN kept[s] ELSE acc[s] BY <1>8
  <2>2. CASE s = h.scope BY <1>7, <2>1, <2>2
  <2>3. CASE s # h.scope BY <1>7, <2>1, <2>3
  <2> QED BY <2>2, <2>3
<1> HIDE DEF acc2
<1> QED BY <1>2, <1>5, <1>8, <1>9, <1>10, PatchFixes DEF h

LEMMA UnparseableWritten ==
    ASSUME NEW st \in Seat, NEW i \in Places(st), NEW acc \in Access, NEW row,
           GrantAt(st, i).scope = row.scope, row.callings \in SUBSET Callings
    PROVE  Fixed(st, acc, row, ApplyKindooUnparseable(st, acc, i, row))
<1> DEFINE h == GrantAt(st, i)
           g == [h EXCEPT !.scope = Stake, !.site = NoStamp(i), !.callings = row.callings]
           earned == EarnsAccess(Stake, row.callings)
           merged == IF i = 0 THEN earned ELSE acc[Stake] \cup earned
           acc2 == IF h.type = "auto" THEN WriteAccess(ClearAccess(acc, h.scope), Stake, merged) ELSE acc
<1>1. h \in Grant BY SeatFacts
<1>2. ApplyKindooUnparseable(st, acc, i, row) = Done(PatchGrant(st, i, g), acc2)
  BY DEF ApplyKindooUnparseable
<1> HIDE DEF h
<1>3. h.scope \in Scopes /\ Stake \in Scopes BY <1>1 DEF Grant, Scopes
<1>4. g \in Grant /\ g.scope = Stake /\ g.type = h.type BY <1>1, <1>3, NoStampType DEF Grant
<1>5. merged \in SUBSET Callings BY <1>3, EarnedType DEF Access
<1> HIDE DEF g, merged
<1>6. /\ acc2 \in Access
      /\ \A s \in Scopes : s # Stake =>
            acc2[s] = IF h.type = "auto" /\ s = h.scope THEN {} ELSE acc[s]
      /\ acc2[Stake] # acc[Stake] => h.type = "auto"
  <2>1. CASE h.type = "auto"
    <3>1. /\ ClearAccess(acc, h.scope) \in Access
          /\ \A s \in Scopes : ClearAccess(acc, h.scope)[s] = IF s = h.scope THEN {} ELSE acc[s]
      BY <1>3, AccessWritten
    <3>2. /\ acc2 \in Access
          /\ \A s \in Scopes : s # Stake => acc2[s] = ClearAccess(acc, h.scope)[s]
      BY <1>3, <1>5, <2>1, <3>1, AccessWritten
    <3> QED BY <2>1, <3>1, <3>2
  <2>2. CASE h.type # "auto" BY <2>2
  <2> QED BY <2>1, <2>2
<1> HIDE DEF acc2
<1>7. \A s \in Scopes : acc2[s] \ acc[s] # {} => ByCalling(g, s) BY <1>4, <1>6 DEF ByCalling
<1>8. \A s \in Scopes : acc2[s] # {} /\ s # g.scope =>
         acc[s] # {} /\ (ByCalling(GrantAt(st, i), s) => HeldElsewhere(st, i, s))
  BY <1>4, <1>6 DEF ByCalling, h
<1> QED BY <1>2, <1>4, <1>6, <1>7, <1>8, PatchFixes DEF h

\* A grant written without a word of access, in the scope and type it had.
LEMMA GrantWritten ==
    ASSUME NEW st \in Seat, NEW i \in Places(st), NEW acc \in Access, NEW row, NEW g \in Grant,
           GrantAt(st, i).scope \in {row.scope, row.newScope}, g.scope = GrantAt(st, i).scope
    PROVE  Fixed(st, acc, row, Done(PatchGrant(st, i, g), acc))
<1>1. \A s \in Scopes : acc[s] \ acc[s] = {} OBVIOUS
<1>2. \A s \in Scopes : acc[s] # {} /\ s # g.scope =>
         acc[s] # {} /\ (ByCalling(GrantAt(st, i), s) => HeldElsewhere(st, i, s))
  BY DEF ByCalling
<1> QED BY <1>1, <1>2, PatchFixes

LEMMA BuildingsWritten ==
    ASSUME NEW st \in Seat, NEW i \in Places(st), NEW acc \in Access, NEW row,
           GrantAt(st, i).scope = row.scope, row.buildings \in SUBSET Buildings,
           ApplyBuildingsMismatch(st, acc, i, row).ok
    PROVE  Fixed(st, acc, row, ApplyBuildingsMismatch(st, acc, i, row))
<1> DEFINE g == [GrantAt(st, i) EXCEPT !.buildings = row.buildings]
<1>1. ApplyBuildingsMismatch(st, acc, i, row) = Done(PatchGrant(st, i, g), acc)
  BY DEF ApplyBuildingsMismatch, Refused
<1>2. g \in Grant /\ g.scope = GrantAt(st, i).scope BY SeatFacts DEF Grant
<1> HIDE DEF g
<1> QED BY <1>1, <1>2, GrantWritten

NewGrantOK(row) ==
    /\ row.newScope \in Scopes /\ row.type \in SeatTypes
    /\ row.buildings \in SUBSET Buildings /\ row.callings \in SUBSET Callings

LEMMA NewGrantType ==
    ASSUME NEW row, NewGrantOK(row), NEW site \in Sites
    PROVE  /\ NewGrant(row, site) \in Grant
           /\ NewGrant(row, site).scope = row.newScope
           /\ NewGrant(row, site).type = row.type
  BY DEF NewGrantOK, NewGrant, Grant

LEMMA GrantAppended ==
    ASSUME NEW st \in Seat, NEW acc \in Access, NEW row, NEW g \in Grant
    PROVE  Fixed(st, acc, row, Done(WithDups(st, Append(st.dups, g)), acc))
<1> DEFINE t == WithDups(st, Append(st.dups, g))
<1>1. /\ t \in Seat /\ Mirrored(t) /\ Len(t.dups) = Len(st.dups) + 1
      /\ \A j \in Places(st) : GrantAt(t, j) = GrantAt(st, j)
  BY Appended
<1>2. Done(t, acc).seat = t /\ Done(t, acc).access = acc BY DEF Done
<1> HIDE DEF t
<1>3. Places(st) \subseteq Places(t) BY <1>1, SeatFacts DEF Places
<1>4. Grants(st) \subseteq Grants(t) BY <1>1, <1>3, SeatFacts
<1>5. Earned(acc, t, acc) BY DEF Earned
<1>6. ByAuto(st, acc) => Backed(t, acc) BY <1>4 DEF ByAuto, Backed, ByCalling
<1>7. OneWritten(st, t, {row.scope, row.newScope}) BY <1>1 DEF OneWritten
<1> QED BY <1>1, <1>2, <1>5, <1>6, <1>7 DEF Fixed, t

LEMMA GrantMerged ==
    ASSUME NEW st \in Seat, NEW acc \in Access, NEW row, NewGrantOK(row), NEW site \in Sites,
           MergeKindooOnly(st, acc, row, site).ok
    PROVE  Fixed(st, acc, row, MergeKindooOnly(st, acc, row, site))
<1> DEFINE i == SlotAt(st, row.newScope, row.type)
           h == GrantAt(st, i)
           stamp == IF site = Unset THEN h.site ELSE IF site = Home THEN NoStamp(i) ELSE site
           g == [h EXCEPT !.buildings = h.buildings \cup row.buildings, !.site = stamp]
<1>1. i = Missing \/ (i \in Places(st) /\ h.scope = row.newScope) BY SlotAtIs
<1>2. CASE i = Missing
  <2>1. MergeKindooOnly(st, acc, row, site) = Done(WithDups(st, Append(st.dups, NewGrant(row, site))), acc)
    BY <1>2 DEF MergeKindooOnly
  <2> QED BY <2>1, NewGrantType, GrantAppended
<1>3. CASE i # Missing
  <2>1. i \in Places(st) /\ h.scope = row.newScope BY <1>1, <1>3
  <2>2. MergeKindooOnly(st, acc, row, site) = Done(PatchGrant(st, i, g), acc)
    BY <1>3 DEF MergeKindooOnly, Refused
  <2> HIDE DEF i
  <2>3. h \in Grant BY <2>1, SeatFacts
  <2>4. g \in Grant /\ g.scope = h.scope
    <3> HIDE DEF h
    <3>1. stamp \in Sites BY <2>3, NoStampType DEF Grant
    <3> HIDE DEF stamp
    <3> QED BY <2>3, <3>1 DEF Grant, NewGrantOK
  <2> HIDE DEF g
  <2> QED BY <2>1, <2>2, <2>4, GrantWritten
<1> QED BY <1>2, <1>3

LEMMA SeatCreated ==
    ASSUME NEW acc \in Access, NEW row, NewGrantOK(row), NEW site \in Sites
    PROVE  Fixed(NoSeat, acc, row, CreateSeat(acc, row, site))
<1> DEFINE stamp == IF site = Home THEN Unset ELSE site
           g == NewGrant(row, stamp)
           t == SeatOf(g, <<>>)
           earned == EarnsAccess(row.newScope, row.callings)
           earns == row.type = "auto" /\ earned # {}
           acc2 == IF earns THEN WriteAccess(acc, row.newScope, earned) ELSE acc
<1>1. CreateSeat(acc, row, site) = Done(t, acc2) BY DEF CreateSeat
<1>2. stamp \in Sites BY DEF Sites
<1>3. g \in Grant /\ g.scope = row.newScope /\ g.type = row.type BY <1>2, NewGrantType
<1>4. <<>> \in Seq(Grant) /\ Len(<<>>) = 0 BY EmptySeq
<1> HIDE DEF g
<1>5. t \in Seat /\ t.dups = <<>> /\ Mirrored(t) /\ Primary(t) = g BY <1>3, <1>4, SeatOfIs
<1> HIDE DEF t
<1>6. g \in Grants(t)
  <2>1. 0 \in Places(t) BY <1>4, <1>5 DEF Places
  <2> QED BY <1>5, <2>1, SeatFacts
<1>7. earned \in SUBSET Callings /\ row.newScope \in Scopes BY EarnedType DEF NewGrantOK
<1> HIDE DEF earned
<1>8. /\ acc2 \in Access
      /\ \A s \in Scopes : s # row.newScope => acc2[s] = acc[s]
      /\ acc2[row.newScope] # acc[row.newScope] => row.type = "auto"
  BY <1>7, AccessWritten
<1>9. Earned(acc, t, acc2)
  <2> HIDE DEF acc2
  <2> QED BY <1>3, <1>6, <1>8 DEF Earned, ByCalling
<1>10. ByAuto(NoSeat, acc) => Backed(t, acc2)
  <2> HIDE DEF acc2
  <2>1. ByAuto(NoSeat, acc) => \A s \in Scopes : acc[s] = {} BY DEF ByAuto, Grants
  <2>2. ASSUME ByAuto(NoSeat, acc), NEW s \in Scopes, acc2[s] # {} PROVE \E x \in Grants(t) : x.scope = s
    <3>1. s = row.newScope BY <1>8, <2>1, <2>2
    <3> QED BY <1>3, <1>6, <3>1
  <2> QED BY <2>2 DEF Backed
<1>11. OneWritten(NoSeat, t, {row.scope, row.newScope}) BY <1>4, <1>5 DEF OneWritten
<1>12. Done(t, acc2).seat = t /\ Done(t, acc2).access = acc2 BY DEF Done
<1> HIDE DEF acc2
<1> QED BY <1>1, <1>5, <1>8, <1>9, <1>10, <1>11, <1>12 DEF Fixed

LEMMA KindooOnlyWritten ==
    ASSUME NEW st \in Seat \cup {NoSeat}, NEW acc \in Access, NEW row, NewGrantOK(row),
           ApplyKindooOnly(st, acc, row).ok
    PROVE  Fixed(st, acc, row, ApplyKindooOnly(st, acc, row))
<1>1. SiteOf(row.newScope) \in Sites BY SiteOfType DEF NewGrantOK
<1>2. CASE st = NoSeat
  <2>1. ApplyKindooOnly(st, acc, row) = CreateSeat(acc, row, SiteOf(row.newScope))
    BY <1>2 DEF ApplyKindooOnly
  <2> QED BY <1>1, <1>2, <2>1, SeatCreated
<1>3. CASE st # NoSeat
  <2>1. ApplyKindooOnly(st, acc, row) = MergeKindooOnly(st, acc, row, SiteOf(row.newScope))
    BY <1>3 DEF ApplyKindooOnly, Refused
  <2> QED BY <1>1, <1>3, <2>1, GrantMerged
<1> QED BY <1>2, <1>3

-----------------------------------------------------------------------------
(* Rows.                                                                   *)

Codes == {"kindoo-only", "callings-mismatch", "scope-mismatch", "type-mismatch",
          "kindoo-unparseable", "buildings-mismatch"}

\* The scopes a segment may name.
Units == {Stake} \cup Wards

LEMMA UnitsAre == ASSUME NEW scope \in Units PROVE scope \in Scopes /\ SiteOf(scope) \in KindooSites
  BY ScopesAssumption, WardsAssumption DEF Units, Scopes, SiteOf, KindooSites

\* What a row that can be fixed carries.
RowOK(row) ==
    Fixable(row) =>
        /\ row.type \in SeatTypes
        /\ row.callings \in SUBSET Callings
        /\ row.buildings \in SUBSET Buildings
        /\ row.code \in {"kindoo-only", "scope-mismatch"} => row.newScope \in Units

LEMMA FixWritten ==
    ASSUME NEW st \in Seat \cup {NoSeat}, NEW acc \in Access, NEW row, Fixable(row), RowOK(row),
           row.code \in Codes, ApplyFix(st, acc, row).ok
    PROVE  Fixed(st, acc, row, ApplyFix(st, acc, row))
<1> DEFINE i == IF st = NoSeat THEN Missing ELSE ResolveGrantSlot(st, row.scope, row.site)
<1>1. /\ row.type \in SeatTypes /\ row.callings \in SUBSET Callings
      /\ row.buildings \in SUBSET Buildings
      /\ row.code \in {"kindoo-only", "scope-mismatch"} => row.newScope \in Scopes
  BY UnitsAre DEF RowOK
<1>2. CASE row.code = "kindoo-only"
  <2>1. ApplyFix(st, acc, row) = ApplyKindooOnly(st, acc, row) BY <1>2 DEF ApplyFix
  <2> QED BY <1>1, <1>2, <2>1, KindooOnlyWritten DEF NewGrantOK
<1>3. CASE row.code # "kindoo-only"
  <2>1. i # Missing BY <1>3 DEF ApplyFix, Refused
  <2>2. st \in Seat BY <2>1
  <2>3. i \in Places(st) /\ GrantAt(st, i).scope = row.scope BY <2>1, <2>2, ResolvedSlot
  <2>4. ApplyFix(st, acc, row) =
          CASE row.code = "callings-mismatch"  -> ApplyCallingsMismatch(st, acc, i, row)
            [] row.code = "scope-mismatch"     -> ApplyScopeMismatch(st, acc, i, row)
            [] row.code = "type-mismatch"      -> ApplyTypeMismatch(st, acc, i, row)
            [] row.code = "kindoo-unparseable" -> ApplyKindooUnparseable(st, acc, i, row)
            [] row.code = "buildings-mismatch" -> ApplyBuildingsMismatch(st, acc, i, row)
    BY <1>3, <2>1 DEF ApplyFix
  <2> HIDE DEF i
  <2>5. CASE row.code = "callings-mismatch" BY <1>1, <2>2, <2>3, <2>4, <2>5, CallingsWritten
  <2>6. CASE row.code = "scope-mismatch" BY <1>1, <2>2, <2>3, <2>4, <2>6, ScopeWritten
  <2>7. CASE row.code = "type-mismatch" BY <1>1, <2>2, <2>3, <2>4, <2>7, TypeWritten
  <2>8. CASE row.code = "kindoo-unparseable" BY <1>1, <2>2, <2>3, <2>4, <2>8, UnparseableWritten
  <2>9. CASE row.code = "buildings-mismatch" BY <1>1, <2>2, <2>3, <2>4, <2>9, BuildingsWritten
  <2> QED BY <1>3, <2>5, <2>6, <2>7, <2>8, <2>9 DEF Codes
<1> QED BY <1>2, <1>3

LEMMA PickIs ==
    ASSUME NEW X, X \subseteq {s \in Segment : s.scope \notin {Unresolved, Ignored}}
    PROVE  PickPrimarySegment(X) = NoSegment \/ PickPrimarySegment(X) \in X
<1> DEFINE opening == {s \in X : EarnsAccess(s.scope, s.callings) # {}}
           pool == IF opening # {} THEN opening ELSE X
<1>1. pool \subseteq X OBVIOUS
<1>2. PickPrimarySegment(X) =
        IF pool = {} THEN NoSegment
        ELSE IF \E s \in pool : s.scope = Stake THEN CHOOSE s \in pool : s.scope = Stake
        ELSE CHOOSE s \in pool : \A t \in pool : WardRank[s.scope] <= WardRank[t.scope]
  BY DEF PickPrimarySegment
<1> HIDE DEF pool
<1>3. CASE pool = {} BY <1>2, <1>3
<1>4. CASE \E s \in pool : s.scope = Stake
  <2>1. pool # {} BY <1>4
  <2>2. PickPrimarySegment(X) = CHOOSE s \in pool : s.scope = Stake BY <1>2, <1>4, <2>1
  <2>3. (CHOOSE s \in pool : s.scope = Stake) \in pool BY <1>4
  <2> QED BY <1>1, <2>2, <2>3
<1>5. CASE pool # {} /\ ~\E s \in pool : s.scope = Stake
  <2>1. PickPrimarySegment(X) = CHOOSE s \in pool : \A t \in pool : WardRank[s.scope] <= WardRank[t.scope]
    BY <1>2, <1>5
  <2>2. ASSUME NEW s \in pool PROVE WardRank[s.scope] \in Nat
    <3>1. s.scope \in Wards BY <1>1, <1>5 DEF Segment
    <3> QED BY <3>1, DetectorAssumption
  <2> DEFINE ranks == {WardRank[s.scope] : s \in pool}
  <2>3. ranks \subseteq Nat BY <2>2
  <2>4. ranks # {} BY <1>5
  <2>5. Min(ranks) \in ranks /\ \A r \in ranks : Min(ranks) <= r
    <3> HIDE DEF ranks
    <3> QED BY ONLY <2>3, <2>4, LeastMember
  <2>6. PICK s \in pool : WardRank[s.scope] = Min(ranks) BY <2>5
  <2>7. \A t \in pool : WardRank[s.scope] <= WardRank[t.scope] BY <2>5, <2>6
  <2>8. (CHOOSE x \in pool : \A t \in pool : WardRank[x.scope] <= WardRank[t.scope]) \in pool
    BY <2>7
  <2> QED BY <1>1, <2>1, <2>8
<1> QED BY <1>3, <1>4, <1>5

\* Every segment that names a unit names a calling of it.
NamesCallings(user) ==
    user # NoUser => \A s \in user.segments : s.scope \in Scopes => s.callings # {}

LEMMA PrimaryIs ==
    ASSUME NEW user \in KindooUser, NEW site,
           PickSegmentForSite(user, site) # NoSegment
    PROVE  LET p == PickSegmentForSite(user, site) IN
           /\ p.scope \in Units /\ SiteOf(p.scope) = site
           /\ p.callings \in SUBSET Callings
           /\ NamesCallings(user) => p.callings # {}
<1> DEFINE p == PickSegmentForSite(user, site)
           X == {s \in Resolved(user) : SiteOf(s.scope) = site}
<1>1. user # NoUser BY DEF KindooUser, NoUser
<1>2. X \subseteq {s \in Segment : s.scope \notin {Unresolved, Ignored}} /\ X \subseteq user.segments
  BY DEF Resolved, Segments, KindooUser
<1>3. p = PickPrimarySegment(X) BY DEF PickSegmentForSite
<1> HIDE DEF p, X
<1>4. p # NoSegment BY DEF p
<1>5. p \in X BY <1>2, <1>3, <1>4, PickIs
<1>6. p \in Segment /\ p.scope \notin {Unresolved, Ignored} /\ p \in user.segments BY <1>2, <1>5
<1>7. p.scope \in Units /\ p.callings \in SUBSET Callings BY <1>6 DEF Segment, Units
<1>8. NamesCallings(user) => p.callings # {} BY <1>1, <1>6, <1>7, UnitsAre DEF NamesCallings
<1>9. SiteOf(p.scope) = site BY <1>5 DEF X
<1> QED BY <1>7, <1>8, <1>9 DEF p

LEMMA CallingsOfType ==
    ASSUME NEW user \in KindooUser, NEW site
    PROVE  CallingsOf(PickSegmentForSite(user, site)) \in SUBSET Callings
  BY PrimaryIs DEF CallingsOf

\* A row can be fixed as it is, and names callings when its user's segments do.
Sendable(row, user) == RowOK(row) /\ (Fixable(row) /\ NamesCallings(user) => Named(row))

LEMMA NoFix == ASSUME NEW user, NEW site PROVE Sendable(NoRow, user) /\ Sendable(Review(site), user)
  BY DEF Sendable, RowOK, Fixable, Review

LEMMA RowsOf ==
    ASSUME NEW user \in KindooUser, NEW site, NEW block
    PROVE  LET p == PickSegmentForSite(user, site) IN
           /\ \A type \in SeatTypes, doorsRead \in BOOLEAN :
                  Sendable(KindooOnlyFix(user, site, type, doorsRead), user)
           /\ p # NoSegment => /\ Sendable(ScopeFix(block, p, site), user)
                              /\ Sendable(CallingsFix(block, p, site), user)
           /\ Sendable(PromoteFix(block, p, site), user)
           /\ Sendable(PromoteFix(block, NoSegment, site), user)
           /\ Sendable(DemoteFix(block, site), user)
           /\ \A derived \in SUBSET Buildings : Sendable(BuildingsFix(block, derived, site), user)
           /\ Sendable(OrphanFix(block, site), user)
           /\ Sendable(UnparseableFix(block, user, site), user)
<1> DEFINE p == PickSegmentForSite(user, site)
<1>1. p # NoSegment => /\ p.scope \in Units /\ p.callings \in SUBSET Callings
                       /\ NamesCallings(user) => p.callings # {}
  BY PrimaryIs
<1>2. CallingsOf(p) \in SUBSET Callings /\ CallingsOf(NoSegment) = {} BY CallingsOfType DEF CallingsOf
<1>3. /\ DerivedBuildings(user, site) \in SUBSET Buildings
      /\ user.rules \in SUBSET Buildings /\ user.text \in Callings
  BY DEF DerivedBuildings, BuildingsBehind, KindooUser
<1>4. "manual" \in SeatTypes /\ "auto" \in SeatTypes /\ Stake \in Units BY DEF SeatTypes, Units
<1> HIDE DEF p
<1> USE DEF Sendable, RowOK, Named, Row
<1>5. \A type \in SeatTypes, doorsRead \in BOOLEAN : Sendable(KindooOnlyFix(user, site, type, doorsRead), user)
  BY <1>1, <1>2, <1>3, <1>4 DEF KindooOnlyFix, p
<1>6. p # NoSegment => Sendable(ScopeFix(block, p, site), user) BY <1>1, <1>4 DEF ScopeFix
<1>7. p # NoSegment => Sendable(CallingsFix(block, p, site), user) BY <1>1, <1>4 DEF CallingsFix
<1>8. Sendable(PromoteFix(block, p, site), user) /\ Sendable(PromoteFix(block, NoSegment, site), user)
  BY <1>2, <1>4 DEF PromoteFix
<1>9. Sendable(DemoteFix(block, site), user) /\ Sendable(OrphanFix(block, site), user)
  BY <1>4 DEF DemoteFix, OrphanFix
<1>10. \A derived \in SUBSET Buildings : Sendable(BuildingsFix(block, derived, site), user)
  BY <1>4 DEF BuildingsFix
<1>11. Sendable(UnparseableFix(block, user, site), user) BY <1>3, <1>4 DEF UnparseableFix
<1> QED BY <1>5, <1>6, <1>7, <1>8, <1>9, <1>10, <1>11 DEF p

LEMMA DetectOffers ==
    ASSUME NEW st, NEW user \in KindooUser \cup {NoUser}, NEW site, NEW doorsRead \in BOOLEAN
    PROVE  Sendable(Detect(st, user, site, doorsRead), user)
<1> DEFINE block == SeatBlock(st, site)
           p == PickSegmentForSite(user, site)
           seated == Contributors(st, site) # {}
           row == Detect(st, user, site, doorsRead)
<1>1. CASE ~OnSite(user, site)
  <2>1. row = IF seated THEN OrphanFix(block, site) ELSE NoRow BY <1>1 DEF Detect
  <2>2. Sendable(OrphanFix(block, site), user)
    <3> HIDE DEF block
    <3> QED BY DEF Sendable, RowOK, Named, OrphanFix, Row, SeatTypes
  <2> QED BY <2>1, <2>2, NoFix
<1>2. CASE OnSite(user, site)
  <2>1. user \in KindooUser BY <1>2 DEF OnSite
  <2> HIDE DEF block, p
  <2>2. /\ \A type \in SeatTypes : Sendable(KindooOnlyFix(user, site, type, doorsRead), user)
        /\ p # NoSegment => /\ Sendable(ScopeFix(block, p, site), user)
                           /\ Sendable(CallingsFix(block, p, site), user)
        /\ Sendable(PromoteFix(block, p, site), user)
        /\ Sendable(PromoteFix(block, NoSegment, site), user)
        /\ Sendable(DemoteFix(block, site), user)
        /\ \A derived \in SUBSET Buildings : Sendable(BuildingsFix(block, derived, site), user)
        /\ Sendable(OrphanFix(block, site), user)
        /\ Sendable(UnparseableFix(block, user, site), user)
    BY <2>1, RowsOf DEF p
  <2>3. Sendable(KindooOnlyRow(st, user, site, doorsRead), user)
    <3>1. CreatedType(user, site, doorsRead) \in SeatTypes BY DEF CreatedType, SeatTypes
    <3> QED BY <2>2, <3>1, NoFix DEF KindooOnlyRow
  <2>4. Sendable(NoSegmentRow(block, user, site), user) BY <2>2, NoFix DEF NoSegmentRow
  <2>5. p # NoSegment => Sendable(MismatchRow(block, user, p, site, doorsRead), user)
    <3>1. DerivedBuildings(user, site) \in SUBSET Buildings BY DEF DerivedBuildings, BuildingsBehind
    <3> QED BY <2>2, <3>1, NoFix DEF MismatchRow
  <2>6. row = IF user.role = "installer" THEN NoRow
              ELSE IF ~seated THEN KindooOnlyRow(st, user, site, doorsRead)
              ELSE IF user.role = "admin" /\ block.type = "manual" THEN PromoteFix(block, NoSegment, site)
              ELSE IF p = NoSegment THEN NoSegmentRow(block, user, site)
              ELSE MismatchRow(block, user, p, site, doorsRead)
    BY <1>2 DEF Detect, block, p
  <2> QED BY <2>2, <2>3, <2>4, <2>5, <2>6, NoFix
<1> QED BY <1>1, <1>2

-----------------------------------------------------------------------------
(* Requests.                                                               *)

LEMMA MergedOrgType ==
    ASSUME NEW req \in Request, NEW org \in Orgs \cup {NoOrg}
    PROVE  MergedOrg(req, org) \in Orgs \cup {NoOrg}
  BY DEF MergedOrg, Request

LEMMA AddTypeType == ASSUME NEW type PROVE AddType(type) \in SeatTypes
  BY DEF AddType, SeatTypes

LEMMA NewSeatTyped ==
    ASSUME NEW req \in Request
    PROVE  NewSeat(req) \in Seat /\ Mirrored(NewSeat(req))
<1> DEFINE doors == IF req.buildings = {} /\ req.scope \in Wards
                    THEN {WardBuilding[req.scope]} ELSE req.buildings
<1>1. req.scope \in Scopes /\ req.buildings \in SUBSET Buildings /\ req.reason \in SUBSET Callings
  BY DEF Request
<1>2. <<>> \in Seq(Grant) /\ <<>> \in Seq(Scopes) /\ Len(<<>>) = 0 BY EmptySeq
<1>3. doors \in SUBSET Buildings BY <1>1, WardsAssumption
<1>4. SiteOf(req.scope) \in Sites /\ AddType(req.type) \in SeatTypes
      /\ MergedOrg(req, NoOrg) \in Orgs \cup {NoOrg}
  BY <1>1, SiteOfType, AddTypeType, MergedOrgType
<1>5. ScopesOf(<<>>) = <<>> BY <1>2 DEF ScopesOf
<1>6. NewSeat(req) =
        [scope |-> req.scope, type |-> AddType(req.type), site |-> SiteOf(req.scope), buildings |-> doors,
         org |-> MergedOrg(req, NoOrg), callings |-> req.reason, dups |-> <<>>, dupScopes |-> <<>>]
  BY DEF NewSeat
<1> HIDE DEF doors
<1> QED BY <1>1, <1>2, <1>3, <1>4, <1>5, <1>6 DEF Seat, Mirrored

LEMMA AddTyped ==
    ASSUME NEW st \in Seat, Mirrored(st), NEW req \in Request
    PROVE  PlanAddMerge(st, req) \in Seat /\ Mirrored(PlanAddMerge(st, req))
<1> DEFINE type == AddType(req.type)
           n == Len(st.dups)
           I == {i \in 1..n : st.dups[i].scope = req.scope /\ st.dups[i].type = type}
           k == SlotIndex(st.dups, req.scope, type)
           here == st.scope = req.scope /\ st.type = type
<1>1. /\ st.dups \in Seq(Grant) /\ n \in Nat
      /\ \A i \in 1..n : st.dups[i] \in Grant
  BY SeatFacts
<1>2. req.scope \in Scopes /\ req.buildings \in SUBSET Buildings /\ req.reason \in SUBSET Callings
  BY DEF Request
<1>3. CASE here
  <2>1. PlanAddMerge(st, req) = Merged(st, req) BY <1>3 DEF PlanAddMerge
  <2>2. MergedOrg(req, st.org) \in Orgs \cup {NoOrg} BY MergedOrgType DEF Seat
  <2>3. Merged(st, req) = [st EXCEPT !.buildings = st.buildings \cup req.buildings,
                                     !.org = MergedOrg(req, st.org)]
    BY DEF Merged
  <2> QED BY <1>2, <2>1, <2>2, <2>3 DEF Seat, Mirrored
<1>4. CASE ~here /\ k > 0
  <2> DEFINE merged == Merged(st.dups[k], req)
             d == ReplaceAt(st.dups, k, merged)
  <2>1. k = IF I # {} THEN Min(I) ELSE 0 BY DEF SlotIndex, SelectInSeq
  <2>2. I # {} => Min(I) \in I
    <3>1. I \subseteq Nat OBVIOUS
    <3> QED BY ONLY <3>1, LeastMember
  <2>3. k \in 1..n BY <1>4, <2>1, <2>2
  <2>4. PlanAddMerge(st, req) = IF merged = st.dups[k] THEN st ELSE WithDups(st, d)
    BY <1>4 DEF PlanAddMerge
  <2> HIDE DEF k
  <2>5. merged \in Grant
    <3>1. st.dups[k] \in Grant BY <1>1, <2>3
    <3>2. MergedOrg(req, st.dups[k].org) \in Orgs \cup {NoOrg} BY <3>1, MergedOrgType DEF Grant
    <3>3. merged = [st.dups[k] EXCEPT !.buildings = st.dups[k].buildings \cup req.buildings,
                                      !.org = MergedOrg(req, st.dups[k].org)]
      BY DEF Merged
    <3> HIDE DEF merged
    <3> QED BY <1>2, <3>1, <3>2, <3>3 DEF Grant
  <2> HIDE DEF merged
  <2>6. d \in Seq(Grant) BY <1>1, <2>3, <2>5, ExceptSeq DEF ReplaceAt
  <2> QED BY <2>4, <2>6, WithDupsType DEF Mirrored
<1>5. CASE ~here /\ ~(k > 0)
  <2>1. PlanAddMerge(st, req) = WithDups(st, Append(st.dups, NewDuplicate(req))) BY <1>5 DEF PlanAddMerge
  <2>2. NewDuplicate(req) \in Grant
    <3>1. SiteOf(req.scope) \in Sites /\ type \in SeatTypes /\ MergedOrg(req, NoOrg) \in Orgs \cup {NoOrg}
      BY <1>2, SiteOfType, AddTypeType, MergedOrgType
    <3> QED BY <1>2, <3>1 DEF NewDuplicate, Grant
  <2> QED BY <2>1, <2>2, Appended
<1> QED BY <1>3, <1>4, <1>5

LEMMA RemoveTyped ==
    ASSUME NEW st \in Seat, Mirrored(st), NEW scope, NEW site
    PROVE  LET t == ApplyRemove(st, PlanRemove(st, scope, site)) IN
           t = NoSeat \/ (t \in Seat /\ Mirrored(t))
<1> DEFINE n == Len(st.dups)
           plan == PlanRemove(st, scope, site)
           M == {i \in 1..n : Addressed(st.dups[i], scope, site) /\ st.dups[i].type # "auto"}
           A == {i \in 1..n : Addressed(st.dups[i], scope, site)}
           manual == SelectInSeq(st.dups, LAMBDA d : Addressed(d, scope, site) /\ d.type # "auto")
           any == SelectInSeq(st.dups, LAMBDA d : Addressed(d, scope, site))
<1>1. manual = (IF M # {} THEN Min(M) ELSE 0) /\ any = IF A # {} THEN Min(A) ELSE 0
  BY DEF SelectInSeq
<1>2. (M # {} => Min(M) \in M) /\ (A # {} => Min(A) \in A)
  <2>1. M \subseteq Nat /\ A \subseteq Nat OBVIOUS
  <2> QED BY ONLY <2>1, LeastMember
<1>3. /\ manual > 0 => manual \in 1..n
      /\ any > 0 => any \in 1..n
  BY <1>1, <1>2
<1>4. plan =
        LET primary == Addressed(st, scope, site) IN
        IF primary /\ st.type = "auto" /\ manual > 0 THEN Plan("drop_duplicate", manual)
        ELSE IF primary /\ st.dups = <<>> THEN Plan("delete", 0)
        ELSE IF primary THEN Plan("promote", 1)
        ELSE IF any > 0 THEN Plan("drop_duplicate", any)
        ELSE Plan("no_match", 0)
  BY DEF PlanRemove
<1> HIDE DEF manual, any, M, A
<1>5. \/ plan = Plan("no_match", 0)
      \/ plan = Plan("delete", 0)
      \/ plan = Plan("promote", 1) /\ st.dups # <<>>
      \/ \E i \in 1..n : plan = Plan("drop_duplicate", i)
  BY <1>3, <1>4
<1> HIDE DEF plan
<1>6. CASE plan = Plan("no_match", 0)
  <2>1. ApplyRemove(st, plan) = st BY <1>6 DEF ApplyRemove, Plan
  <2> QED BY <2>1 DEF plan
<1>7. CASE plan = Plan("delete", 0)
  <2>1. ApplyRemove(st, plan) = NoSeat BY <1>7 DEF ApplyRemove, Plan
  <2> QED BY <2>1 DEF plan
<1>8. CASE plan = Plan("promote", 1) /\ st.dups # <<>> BY <1>8, Promoted DEF plan
<1>9. CASE \E i \in 1..n : plan = Plan("drop_duplicate", i)
  <2>1. PICK i \in 1..n : plan = Plan("drop_duplicate", i) BY <1>9
  <2>2. i # 0 BY SeatFacts
  <2>3. ApplyRemove(st, plan) = WithDups(st, RemoveAt(st.dups, i)) BY <2>1, <2>2 DEF ApplyRemove, Plan
  <2> QED BY <2>3, Dropped DEF plan
<1> QED BY <1>5, <1>6, <1>7, <1>8, <1>9

-----------------------------------------------------------------------------
(* The invariant, and what a step may do.                                  *)

SeatTyped(st) == st = NoSeat \/ (st \in Seat /\ Mirrored(st))

\* The seat and the access are well formed, and every row a panel shows, however
\* old, is one that some state of its site's Kindoo offered.
FixesInv ==
    /\ SeatTyped(seat)
    /\ access \in Access
    /\ DOMAIN kindoo = KindooSites /\ \A site \in KindooSites : kindoo[site] \in KindooUsers[site]
    /\ DOMAIN rows = KindooSites
    /\ \A site \in KindooSites : \E user \in KindooUsers[site] : Sendable(rows[site], user)
    /\ DOMAIN removal = KindooSites
    /\ served \in Nat

LEMMA FixesInitial == ASSUME Init PROVE FixesInv
<1>1. SeatTyped(seat) BY FixesAssumption DEF Init, SeatTyped, Mirrored
<1>2. access \in Access
  <2>1. ASSUME NEW s \in Scopes, NEW callings PROVE EarnsAccess(s, callings) \subseteq Callings
    BY <2>1, DetectorAssumption DEF EarnsAccess
  <2>2. access = [s \in Scopes |-> UNION {EarnsAccess(s, g.callings) :
                    g \in {h \in Grants(seat) : h.scope = s /\ h.type = "auto"}}]
    BY DEF Init
  <2> QED BY <2>1, <2>2 DEF Access
<1>3. DOMAIN kindoo = KindooSites /\ \A site \in KindooSites : kindoo[site] \in KindooUsers[site]
  BY FixesAssumption DEF Init
<1>4. DOMAIN rows = KindooSites /\ \A site \in KindooSites : rows[site] = NoRow BY DEF Init
<1>5. \A site \in KindooSites : \E user \in KindooUsers[site] : Sendable(rows[site], user)
  BY <1>3, <1>4, NoFix
<1> QED BY <1>1, <1>2, <1>3, <1>4, <1>5 DEF Init, FixesInv

\* A step that leaves the access of every scope as it was, or takes it away.
Gives(acc, acc2) == \A s \in Scopes : acc2[s] = acc[s] \/ acc2[s] = {}

\* What a step does to the seat and to its access.
StepOK(strands) ==
    /\ SeatTyped(seat')
    /\ access' \in Access
    /\ Earned(access, seat', access')
    /\ ~strands /\ (\A site \in KindooSites : Fixable(rows[site]) => Named(rows[site]))
       /\ ByAuto(seat, access) => Backed(seat', access')

LEMMA GivesEarns ==
    ASSUME NEW acc, NEW acc2, NEW st, Gives(acc, acc2)
    PROVE  Earned(acc, st, acc2)
  BY DEF Gives, Earned

LEMMA SeatKept ==
    ASSUME FixesInv, seat' = seat, access' = access
    PROVE  StepOK(FALSE)
<1>1. Earned(access, seat', access') BY GivesEarns DEF Gives
<1>2. ByAuto(seat, access) => Backed(seat', access') BY DEF ByAuto, Backed, ByCalling
<1> QED BY <1>1, <1>2 DEF StepOK, FixesInv

LEMMA FixStep ==
    ASSUME FixesInv, NEW site \in KindooSites, Fix(site)
    PROVE  StepOK(FALSE) /\ seat' \in Seat /\ Mirrored(seat')
           /\ OneWritten(seat, seat', {rows[site].scope, rows[site].newScope})
<1> DEFINE row == rows[site]
           result == ApplyFix(seat, access, row)
<1>1. /\ Fixable(row) /\ row.code \in Codes
      /\ result.ok /\ seat' = result.seat /\ access' = result.access
  BY DEF Fix, Shows, Codes
<1>2. RowOK(row) BY DEF FixesInv, Sendable
<1>3. seat \in Seat \cup {NoSeat} /\ access \in Access BY DEF FixesInv, SeatTyped
<1>4. Fixed(seat, access, row, result) BY <1>1, <1>2, <1>3, FixWritten
<1> HIDE DEF result
<1>5. /\ seat' \in Seat /\ Mirrored(seat') /\ access' \in Access
      /\ Earned(access, seat', access')
      /\ Named(row) /\ ByAuto(seat, access) => Backed(seat', access')
      /\ OneWritten(seat, seat', {row.scope, row.newScope})
  BY <1>1, <1>4 DEF Fixed
<1> QED BY <1>1, <1>5 DEF StepOK, SeatTyped

LEMMA DropStep ==
    ASSUME FixesInv, NEW site \in KindooSites, DropDuplicate(site)
    PROVE  StepOK(FALSE)
<1> DEFINE n == Len(seat.dups)
           i == DupIndex(site)
           scope == seat.dups[i].scope
           t == WithDups(seat, RemoveAt(seat.dups, i))
<1>1. /\ i > 0
      /\ seat' = t
      /\ access' = IF HeldElsewhere(seat, i, scope) THEN access ELSE ClearAccess(access, scope)
  BY DEF DropDuplicate
<1>2. seat \in Seat /\ Mirrored(seat) /\ i \in 1..n
  <2> DEFINE Test(d) == d.scope = removal[site].scope /\ d.site = removal[site].stamp
             I == {j \in 1..Len(Dups(seat)) : Test(Dups(seat)[j])}
  <2>1. i = IF I # {} THEN Min(I) ELSE 0 BY DEF DupIndex, SelectInSeq
  <2>2. I # {} => Min(I) \in I
    <3>1. I \subseteq Nat OBVIOUS
    <3> QED BY ONLY <3>1, LeastMember
  <2>3. i \in 1..Len(Dups(seat)) BY <1>1, <2>1, <2>2
  <2>4. CASE seat = NoSeat
    <3>1. Len(Dups(seat)) = 0 BY <2>4, EmptySeq DEF Dups
    <3> QED BY <2>3, <3>1
  <2>5. CASE seat # NoSeat BY <2>3, <2>5 DEF Dups, FixesInv, SeatTyped
  <2> QED BY <2>4, <2>5
<1>3. /\ t \in Seat /\ Mirrored(t)
      /\ \A j \in Places(seat) : j # i => GrantAt(seat, j) \in Grants(t)
  BY <1>2, Dropped
<1>4. i \in Places(seat) /\ GrantAt(seat, i) = seat.dups[i] /\ scope \in Scopes
  BY <1>2, SeatFacts DEF Places, Grant
<1> HIDE DEF t, i, scope
<1>5. /\ access' \in Access
      /\ \A s \in Scopes : s # scope => access'[s] = access[s]
      /\ access'[scope] = {} \/ (access'[scope] = access[scope] /\ HeldElsewhere(seat, i, scope))
  BY <1>1, <1>4, AccessWritten DEF FixesInv
<1>6. Earned(access, seat', access')
  <2>1. Gives(access, access') BY <1>5 DEF Gives
  <2> QED BY <2>1, GivesEarns
<1>7. ASSUME ByAuto(seat, access), NEW s \in Scopes, access'[s] # {}
      PROVE  \E h \in Grants(t) : h.scope = s
  <2>1. access[s] # {} BY <1>5, <1>7
  <2>2. PICK h \in Grants(seat) : h.scope = s BY <1>7, <2>1 DEF ByAuto, ByCalling
  <2>3. PICK j \in Places(seat) : h = GrantAt(seat, j) BY <1>2, <2>2, SeatFacts
  <2>4. CASE j # i BY <1>3, <2>2, <2>3, <2>4
  <2>5. CASE j = i
    <3>1. s = scope BY <1>4, <2>2, <2>3, <2>5 DEF scope
    <3>2. PICK k \in Places(seat) \ {i} : GrantAt(seat, k).scope = s
      BY <1>5, <1>7, <3>1 DEF HeldElsewhere, Places
    <3> QED BY <1>3, <3>2
  <2> QED BY <2>4, <2>5
<1>8. ByAuto(seat, access) => Backed(seat', access') BY <1>1, <1>7 DEF Backed
<1> QED BY <1>1, <1>3, <1>5, <1>6, <1>8 DEF StepOK, SeatTyped

LEMMA ReapStep ==
    ASSUME FixesInv, NEW site \in KindooSites, ReapOrphan(site)
    PROVE  StepOK(FALSE)
<1>1. seat \in Seat /\ Mirrored(seat) /\ seat' = seat /\ access' = ClearAccess(access, seat.scope)
  BY DEF ReapOrphan, FixesInv, SeatTyped
<1>2. seat.scope \in Scopes BY <1>1 DEF Seat
<1>3. access' \in Access /\ Gives(access, access') BY <1>1, <1>2, AccessWritten DEF FixesInv, Gives
<1>4. ByAuto(seat, access) => Backed(seat', access')
  BY <1>1, <1>3 DEF ByAuto, Backed, ByCalling, Gives
<1> QED BY <1>1, <1>3, <1>4, GivesEarns DEF StepOK, SeatTyped

LEMMA PromoteStep ==
    ASSUME FixesInv, NEW site \in KindooSites, PromoteDuplicate(site)
    PROVE  StepOK(FALSE)
<1> DEFINE t == ApplyRemove(seat, Plan("promote", 1))
<1>1. /\ seat \in Seat /\ Mirrored(seat) /\ seat.dups # <<>>
      /\ seat' = t /\ access' = ClearAccess(access, seat.scope)
  BY DEF PromoteDuplicate, FixesInv, SeatTyped
<1>2. /\ t \in Seat /\ Mirrored(t)
      /\ \A j \in 1..Len(seat.dups) : \E g \in Grants(t) : g.scope = seat.dups[j].scope
  BY <1>1, Promoted
<1> HIDE DEF t
<1>3. seat.scope \in Scopes BY <1>1 DEF Seat
<1>4. /\ access' \in Access
      /\ \A s \in Scopes : access'[s] = IF s = seat.scope THEN {} ELSE access[s]
  BY <1>1, <1>3, AccessWritten DEF FixesInv
<1>5. Gives(access, access') BY <1>4 DEF Gives
<1>6. ASSUME ByAuto(seat, access), NEW s \in Scopes, access'[s] # {}
      PROVE  \E h \in Grants(t) : h.scope = s
  <2>1. s # seat.scope /\ access[s] # {} BY <1>4, <1>6
  <2>2. PICK h \in Grants(seat) : h.scope = s BY <1>6, <2>1 DEF ByAuto, ByCalling
  <2>3. PICK j \in Places(seat) : h = GrantAt(seat, j) BY <1>1, <2>2, SeatFacts
  <2>4. j # 0 BY <1>1, <2>1, <2>2, <2>3, SeatFacts DEF Primary
  <2>5. j \in 1..Len(seat.dups) BY <1>1, <2>4, SeatFacts DEF Places
  <2>6. h = seat.dups[j] BY <1>1, <2>3, <2>5, SeatFacts
  <2> QED BY <1>2, <2>2, <2>5, <2>6
<1>7. ByAuto(seat, access) => Backed(seat', access') BY <1>1, <1>6 DEF Backed
<1> QED BY <1>1, <1>2, <1>4, <1>5, <1>7, GivesEarns DEF StepOK, SeatTyped

LEMMA DeleteStep ==
    ASSUME FixesInv, NEW site \in KindooSites, DeleteOrphan(site)
    PROVE  StepOK(TRUE)
<1>1. seat' = NoSeat /\ access' = access BY DEF DeleteOrphan
<1>2. Earned(access, seat', access') BY <1>1, GivesEarns DEF Gives
<1> QED BY <1>1, <1>2 DEF StepOK, SeatTyped, FixesInv

LEMMA RequestStep ==
    ASSUME FixesInv, NEW req \in Requests, RequestAdds(req) \/ RequestRemoves(req)
    PROVE  StepOK(TRUE) /\ served' = served + 1
<1>1. req \in Request BY FixesAssumption
<1>2. SeatTyped(seat) /\ access \in Access BY DEF FixesInv
<1>3. CASE RequestAdds(req)
  <2>1. /\ seat' = IF seat = NoSeat THEN NewSeat(req) ELSE PlanAddMerge(seat, req)
        /\ access' = access /\ served' = served + 1
    BY <1>3 DEF RequestAdds
  <2>2. SeatTyped(seat') BY <1>1, <1>2, <2>1, NewSeatTyped, AddTyped DEF SeatTyped
  <2>3. Earned(access, seat', access') BY <2>1, GivesEarns DEF Gives
  <2> QED BY <1>2, <2>1, <2>2, <2>3 DEF StepOK
<1>4. CASE RequestRemoves(req)
  <2> DEFINE plan == PlanRemove(seat, req.scope, req.site)
             next == ApplyRemove(seat, plan)
  <2>1. /\ seat # NoSeat /\ seat' = next /\ served' = served + 1
        /\ access' = access \/ access' = ClearAccess(access, req.scope)
    BY <1>4 DEF RequestRemoves
  <2>2. SeatTyped(next) BY <1>2, <2>1, RemoveTyped DEF SeatTyped
  <2> HIDE DEF next
  <2>3. req.scope \in Scopes BY <1>1 DEF Request
  <2>4. access' \in Access /\ Gives(access, access') BY <1>2, <2>1, <2>3, AccessWritten DEF Gives
  <2> QED BY <2>1, <2>2, <2>4, GivesEarns DEF StepOK
<1> QED BY <1>3, <1>4

\* Which seats and accesses a step of Next may lead to.
LEMMA AnyStep ==
    ASSUME FixesInv, [Next]_vars
    PROVE  /\ StepOK(TRUE)
           /\ served' = served /\ (\A site \in KindooSites : ~DeleteOrphan(site)) => StepOK(FALSE)
<1>1. StepOK(FALSE) => StepOK(TRUE) BY DEF StepOK
<1>2. ASSUME NEW site \in KindooSites, PanelStep(site)
      PROVE  StepOK(FALSE) \/ (DeleteOrphan(site) /\ StepOK(TRUE))
  <2>1. ASSUME NEW doorsRead \in BOOLEAN, Scan(site, doorsRead) PROVE StepOK(FALSE)
    BY <2>1, SeatKept DEF Scan
  <2>2. CASE Fix(site) BY <2>2, FixStep
  <2>3. CASE StartRemoval(site) BY <2>3, SeatKept DEF StartRemoval
  <2>4. CASE RemovalFails(site) BY <2>4, SeatKept DEF RemovalFails
  <2>5. CASE DropDuplicate(site) BY <2>5, DropStep
  <2>6. CASE ReapOrphan(site) BY <2>6, ReapStep
  <2>7. CASE DeleteOrphan(site) BY <2>7, DeleteStep
  <2>8. CASE PromoteDuplicate(site) BY <2>8, PromoteStep
  <2> QED BY <1>2, <2>1, <2>2, <2>3, <2>4, <2>5, <2>6, <2>7, <2>8 DEF PanelStep
<1>3. ASSUME NEW site \in KindooSites, NEW user \in KindooUsers[site], KindooChanges(site, user)
      PROVE  StepOK(FALSE)
  BY <1>3, SeatKept DEF KindooChanges
<1>4. ASSUME NEW req \in Requests, RequestAdds(req) \/ RequestRemoves(req)
      PROVE  StepOK(TRUE) /\ served' # served
  <2>1. StepOK(TRUE) /\ served' = served + 1 BY <1>4, RequestStep
  <2>2. served \in Nat BY DEF FixesInv
  <2>3. served' = served + 1 BY <2>1
  <2>4. served' # served BY <2>2, <2>3
  <2> QED BY <2>1, <2>4
<1>5. CASE UNCHANGED vars BY <1>1, <1>5, SeatKept DEF vars
<1>6. CASE Next BY <1>1, <1>2, <1>3, <1>4, <1>6 DEF Next
<1> QED BY <1>5, <1>6

LEMMA RowReplaced ==
    ASSUME FixesInv, NEW site \in KindooSites, NEW row, NEW user \in KindooUsers[site], Sendable(row, user),
           rows' = [rows EXCEPT ![site] = row]
    PROVE  /\ DOMAIN rows' = KindooSites
           /\ \A s \in KindooSites : \E u \in KindooUsers[s] : Sendable(rows'[s], u)
<1>1. \A s \in KindooSites : rows'[s] = IF s = site THEN row ELSE rows[s] BY DEF FixesInv
<1> QED BY <1>1 DEF FixesInv

\* What the panels show and have in flight, and what Kindoo says.
Around ==
    /\ DOMAIN kindoo = KindooSites /\ \A site \in KindooSites : kindoo[site] \in KindooUsers[site]
    /\ DOMAIN rows = KindooSites
    /\ \A site \in KindooSites : \E user \in KindooUsers[site] : Sendable(rows[site], user)
    /\ DOMAIN removal = KindooSites
    /\ served \in Nat

LEMMA AroundKept ==
    ASSUME FixesInv, UNCHANGED <<kindoo, rows, served>>, DOMAIN removal' = DOMAIN removal
    PROVE  Around'
  BY DEF FixesInv, Around

LEMMA AroundFinished ==
    ASSUME FixesInv, NEW site \in KindooSites, NEW row, row = NoRow \/ row = rows[site],
           rows' = [rows EXCEPT ![site] = row], UNCHANGED <<kindoo, served>>,
           DOMAIN removal' = DOMAIN removal
    PROVE  Around'
<1>1. PICK user \in KindooUsers[site] : Sendable(row, user) BY NoFix DEF FixesInv
<1>2. /\ DOMAIN rows' = KindooSites
      /\ \A s \in KindooSites : \E u \in KindooUsers[s] : Sendable(rows'[s], u)
  BY <1>1, RowReplaced
<1> QED BY <1>2 DEF FixesInv, Around

LEMMA FixesStep ==
    ASSUME FixesInv, [Next]_vars
    PROVE  FixesInv'
<1>1. SeatTyped(seat') /\ access' \in Access BY AnyStep DEF StepOK
<1>2. ASSUME NEW site \in KindooSites, PanelStep(site) PROVE Around'
  <2>1. ASSUME NEW doorsRead \in BOOLEAN, Scan(site, doorsRead) PROVE Around'
    <3> DEFINE row == Detect(seat, kindoo[site], site, doorsRead)
    <3>1. kindoo[site] \in KindooUsers[site] BY DEF FixesInv
    <3>2. kindoo[site] \in KindooUser \cup {NoUser} BY <3>1, FixesAssumption
    <3>3. Sendable(row, kindoo[site]) BY <3>2, DetectOffers
    <3>4. rows' = [rows EXCEPT ![site] = row] /\ UNCHANGED <<kindoo, removal, served>> BY <2>1 DEF Scan
    <3> HIDE DEF row
    <3>5. /\ DOMAIN rows' = KindooSites
          /\ \A s \in KindooSites : \E u \in KindooUsers[s] : Sendable(rows'[s], u)
      BY <3>1, <3>3, <3>4, RowReplaced
    <3> QED BY <3>4, <3>5 DEF FixesInv, Around
  <2>2. CASE Fix(site) BY <2>2, AroundFinished DEF Fix
  <2>3. CASE StartRemoval(site) BY <2>3, AroundKept DEF StartRemoval
  <2>4. CASE RemovalFails(site) BY <2>4, AroundFinished DEF RemovalFails, Finish
  <2>5. CASE DropDuplicate(site) BY <2>5, AroundFinished DEF DropDuplicate, Finish
  <2>6. CASE ReapOrphan(site) BY <2>6, AroundKept DEF ReapOrphan
  <2>7. CASE DeleteOrphan(site) BY <2>7, AroundFinished DEF DeleteOrphan, Finish
  <2>8. CASE PromoteDuplicate(site) BY <2>8, AroundFinished DEF PromoteDuplicate, Finish
  <2> QED BY <1>2, <2>1, <2>2, <2>3, <2>4, <2>5, <2>6, <2>7, <2>8 DEF PanelStep
<1>3. ASSUME NEW site \in KindooSites, NEW user \in KindooUsers[site], KindooChanges(site, user)
      PROVE  Around'
  BY <1>3 DEF KindooChanges, FixesInv, Around
<1>4. ASSUME NEW req \in Requests, RequestAdds(req) \/ RequestRemoves(req) PROVE Around'
  BY <1>4, RequestStep DEF RequestAdds, RequestRemoves, FixesInv, Around
<1>5. ASSUME UNCHANGED vars PROVE Around' BY <1>5 DEF vars, FixesInv, Around
<1>6. ASSUME Next PROVE Around' BY <1>2, <1>3, <1>4, <1>6 DEF Next
<1>7. Around' BY <1>5, <1>6
<1> QED BY <1>1, <1>7 DEF FixesInv, Around

\* The seat keeps its types and its mirror of duplicate scopes, whatever row is
\* applied to it (the transactions of syncApplyFix.ts), and a row on screen,
\* however old, is one that a Kindoo user of its site was reported with
\* (detector.ts, SyncPanel.tsx).
THEOREM FixesStayTyped == Spec => []FixesInv
BY FixesInitial, FixesStep, PTL DEF Spec

-----------------------------------------------------------------------------
(* Access.                                                                 *)

\* App access to a scope is gained only with an automatic grant of it (the
\* access writes of syncApplyFix.ts, and the absence of one in
\* planKindooOnlyMerge).
THEOREM AccessIsEarned == Spec => [][AccessEarned]_vars
<1>1. FixesInv /\ [Next]_vars => [AccessEarned]_vars
  BY AnyStep DEF StepOK, Earned, AccessEarned, ByCalling
<1> QED BY <1>1, FixesStayTyped, PTL DEF Spec

\* And no fix strands it: what a scope gave goes with the last grant of the
\* scope, when every segment that names a unit names a calling (a client that
\* sends none moves the grant and leaves the access, applyScopeMismatch).
THEOREM AccessStaysWithGrants ==
    ASSUME \A site \in KindooSites : \A user \in KindooUsers[site] : NamesCallings(user)
    PROVE  Spec => AccessFollowsGrants
<1>1. ASSUME FixesInv PROVE \A site \in KindooSites : Fixable(rows[site]) => Named(rows[site])
  <2> SUFFICES ASSUME NEW site \in KindooSites, Fixable(rows[site]) PROVE Named(rows[site])
    OBVIOUS
  <2>1. PICK user \in KindooUsers[site] : Sendable(rows[site], user) BY <1>1 DEF FixesInv
  <2>2. NamesCallings(user) OBVIOUS
  <2> QED BY <2>1, <2>2 DEF Sendable
<1>2. ASSUME FixesInv, [Next]_vars PROVE AccessEarned
  BY <1>2, AnyStep DEF StepOK, Earned, AccessEarned, ByCalling
<1>3. ASSUME FixesInv, [Next]_vars PROVE FixesStrandNoAccess
  <2> SUFFICES ASSUME AccessEarnedByAuto, served' = served, \A site \in KindooSites : ~DeleteOrphan(site)
               PROVE  AccessBacked'
    BY DEF FixesStrandNoAccess
  <2>1. StepOK(FALSE) BY <1>3, AnyStep
  <2>2. ByAuto(seat, access) BY DEF AccessEarnedByAuto, ByAuto, ByCalling
  <2>3. Backed(seat', access') BY <1>1, <1>3, <2>1, <2>2 DEF StepOK
  <2> QED BY <2>3 DEF Backed, AccessBacked
<1>4. FixesInv /\ [Next]_vars => [AccessEarned /\ FixesStrandNoAccess]_vars BY <1>2, <1>3
<1> QED BY <1>4, FixesStayTyped, PTL DEF Spec, AccessFollowsGrants

-----------------------------------------------------------------------------
(* The surfaced grant.                                                     *)

LEMMA AllIs ==
    ASSUME NEW st \in Seat
    PROVE  /\ Len(All(st)) = Len(st.dups) + 1
           /\ \A k \in 1..Len(st.dups) + 1 : k - 1 \in Places(st) /\ All(st)[k] = GrantAt(st, k - 1)
<1> DEFINE n == Len(st.dups)
           all == <<Primary(st)>> \o st.dups
<1>1. /\ <<Primary(st)>> \in Seq(Grant)
      /\ Len(<<Primary(st)>>) = 1
      /\ <<Primary(st)>>[1] = Primary(st)
  <2>1. Primary(st) \in Grant BY SeatFacts DEF Places
  <2> QED BY <2>1
<1>2. st.dups \in Seq(Grant) /\ n \in Nat BY SeatFacts
<1>3. /\ Len(all) = 1 + n
      /\ \A k \in 1..1 + n : all[k] = IF k <= 1 THEN <<Primary(st)>>[k] ELSE st.dups[k - 1]
  BY <1>1, <1>2, ConcatProperties
<1>4. All(st) = all BY SeatFacts DEF All
<1> HIDE DEF all
<1>5. ASSUME NEW k \in 1..n + 1 PROVE k - 1 \in Places(st) /\ all[k] = GrantAt(st, k - 1)
  <2>1. k - 1 \in Places(st) /\ k \in 1..1 + n BY <1>2 DEF Places
  <2>2. CASE k = 1 BY <1>1, <1>2, <1>3, <2>1, <2>2 DEF GrantAt
  <2>3. CASE k # 1
    <3>1. ~(k <= 1) /\ k - 1 # 0 BY <1>2, <2>3
    <3> QED BY <1>3, <2>1, <3>1 DEF GrantAt
  <2> QED BY <2>1, <2>2, <2>3
<1> QED BY <1>2, <1>3, <1>4, <1>5

Changed(old, new) == {i \in 1..Len(old) : i > Len(new) \/ new[i] # old[i]}

LEMMA OneChange ==
    ASSUME NEW st, SeatTyped(st), NEW t \in Seat, Mirrored(t), t # st, NEW scopes, OneWritten(st, t, scopes)
    PROVE  /\ Len(All(t)) >= Len(All(st))
           /\ Cardinality(Changed(All(st), All(t))) + (Len(All(t)) - Len(All(st))) = 1
           /\ \A i \in Changed(All(st), All(t)) : All(st)[i].scope \in scopes
<1> DEFINE n == Len(st.dups)
           m == Len(t.dups)
<1>1. m \in Nat /\ Len(All(t)) = m + 1 BY SeatFacts, AllIs
<1>2. CASE st = NoSeat
  <2>1. All(st) = <<>> /\ Len(All(st)) = 0 BY <1>2, EmptySeq DEF All
  <2>2. Len(t.dups) = 0 BY <1>2, SeatFacts DEF OneWritten
  <2>3. Changed(All(st), All(t)) = {} BY <2>1 DEF Changed
  <2>4. Cardinality({}) = 0 BY FS_EmptySet
  <2> QED BY <1>1, <2>1, <2>2, <2>3, <2>4
<1>3. CASE st # NoSeat
  <2>1. st \in Seat /\ Mirrored(st) BY <1>3 DEF SeatTyped
  <2>2. n \in Nat /\ Len(All(st)) = n + 1 BY <2>1, SeatFacts, AllIs
  <2>3. \A k \in 1..n + 1 : k - 1 \in Places(st) /\ All(st)[k] = GrantAt(st, k - 1) BY <2>1, AllIs
  <2>4. \A k \in 1..m + 1 : All(t)[k] = GrantAt(t, k - 1) BY AllIs
  <2>5. CASE m = n + 1 /\ \A j \in Places(st) : GrantAt(t, j) = GrantAt(st, j)
    <3>1. \A k \in 1..n + 1 : ~(k > m + 1) /\ k \in 1..m + 1 BY <2>2, <2>5
    <3>2. Changed(All(st), All(t)) = {} BY <1>1, <2>2, <2>3, <2>4, <2>5, <3>1 DEF Changed
    <3>3. Cardinality({}) = 0 BY FS_EmptySet
    <3> QED BY <1>1, <2>2, <2>5, <3>2, <3>3
  <2>6. CASE m = n /\ \E i \in Places(st) :
                /\ GrantAt(st, i).scope \in scopes
                /\ \A j \in Places(st) \ {i} : GrantAt(t, j) = GrantAt(st, j)
    <3>1. PICK i \in Places(st) : /\ GrantAt(st, i).scope \in scopes
                                 /\ \A j \in Places(st) \ {i} : GrantAt(t, j) = GrantAt(st, j)
      BY <2>6
    <3>2. GrantAt(t, i) # GrantAt(st, i) BY <2>1, <2>6, <3>1, SameSeat
    <3>3. i + 1 \in 1..n + 1 /\ (i + 1) - 1 = i BY <2>2 DEF Places
    <3>4. \A k \in 1..n + 1 : ~(k > m + 1) /\ (k - 1 = i <=> k = i + 1) BY <2>2, <2>6 DEF Places
    <3>5. \A k \in 1..n + 1 : All(t)[k] # All(st)[k] <=> k = i + 1
      BY <2>3, <2>4, <2>6, <3>1, <3>2, <3>4
    <3>6. Changed(All(st), All(t)) = {i + 1}
      BY <1>1, <2>2, <2>6, <3>3, <3>4, <3>5 DEF Changed
    <3>7. Cardinality({i + 1}) = 1 BY FS_Singleton
    <3>8. All(st)[i + 1].scope \in scopes BY <2>3, <3>1, <3>3
    <3> QED BY <1>1, <2>2, <2>6, <3>6, <3>7, <3>8
  <2> QED BY <1>3, <2>5, <2>6 DEF OneWritten
<1> QED BY <1>2, <1>3

\* A row leaves its panel with its fix, or with the removal its panel started.
LEMMA OnlyFixTakesRow ==
    ASSUME FixesInv, [Next]_vars, NEW site \in KindooSites, Shows(site, Codes), rows'[site] = NoRow,
           removal'[site] = Idle, seat' # seat
    PROVE  Fix(site)
<1>1. rows[site] # NoRow /\ removal[site] = Idle /\ rows'[site] # rows[site] BY DEF Shows, Fixable
<1>2. removal[site].stage = "idle" BY <1>1 DEF Idle
<1>3. DOMAIN rows = KindooSites BY DEF FixesInv
<1>4. \A s \in KindooSites : \A row : rows' = [rows EXCEPT ![s] = row] => s = site BY <1>1, <1>3
<1>5. ASSUME NEW s \in KindooSites, PanelStep(s) PROVE Fix(site)
  <2>1. ASSUME NEW doorsRead \in BOOLEAN, Scan(s, doorsRead) PROVE FALSE BY <2>1 DEF Scan
  <2>2. CASE Fix(s) BY <1>4, <2>2 DEF Fix
  <2>3. CASE StartRemoval(s) BY <2>3 DEF StartRemoval
  <2>4. CASE RemovalFails(s) BY <2>4 DEF RemovalFails
  <2>5. CASE DropDuplicate(s) BY <1>2, <1>4, <2>5 DEF DropDuplicate, Finish, At
  <2>6. CASE ReapOrphan(s) BY <2>6 DEF ReapOrphan
  <2>7. CASE DeleteOrphan(s) BY <1>2, <1>4, <2>7 DEF DeleteOrphan, Finish, At
  <2>8. CASE PromoteDuplicate(s) BY <1>2, <1>4, <2>8 DEF PromoteDuplicate, Finish, At
  <2> QED BY <1>5, <2>1, <2>2, <2>3, <2>4, <2>5, <2>6, <2>7, <2>8 DEF PanelStep
<1>6. ASSUME NEW s \in KindooSites, NEW user \in KindooUsers[s], KindooChanges(s, user) PROVE FALSE
  BY <1>6 DEF KindooChanges
<1>7. ASSUME NEW req \in Requests, RequestAdds(req) \/ RequestRemoves(req) PROVE FALSE
  BY <1>1, <1>7 DEF RequestAdds, RequestRemoves
<1>8. ASSUME UNCHANGED vars PROVE FALSE BY <1>8 DEF vars
<1>9. CASE Next BY <1>5, <1>6, <1>7, <1>9 DEF Next
<1> QED BY <1>8, <1>9

\* A fix writes the grant its row was surfaced from, or the slot its new grant
\* has or gets, and every other grant stays what and where it was
\* (resolveGrantSlot, patchGrant and planKindooOnlyMerge of syncApplyFix.ts).
THEOREM FixWritesSurfacedGrant == Spec => OnlySurfacedGrantWritten
<1> DEFINE Only(site) ==
        Shows(site, {"kindoo-only", "callings-mismatch", "scope-mismatch",
                "type-mismatch", "kindoo-unparseable", "buildings-mismatch"})
            /\ rows'[site] = NoRow /\ removal'[site] = Idle /\ seat' # seat =>
          LET old == All(seat)  new == All(seat')
              changed == {i \in 1..Len(old) : i > Len(new) \/ new[i] # old[i]} IN
          /\ Len(new) >= Len(old)
          /\ Cardinality(changed) + (Len(new) - Len(old)) = 1
          /\ \A i \in changed : old[i].scope \in {rows[site].scope, rows[site].newScope}
<1>1. ASSUME FixesInv, [Next]_vars, NEW site \in KindooSites PROVE Only(site)
  <2> SUFFICES ASSUME Shows(site, Codes), rows'[site] = NoRow, removal'[site] = Idle, seat' # seat
               PROVE  /\ Len(All(seat')) >= Len(All(seat))
                      /\ Cardinality(Changed(All(seat), All(seat'))) + (Len(All(seat')) - Len(All(seat))) = 1
                      /\ \A i \in Changed(All(seat), All(seat')) :
                            All(seat)[i].scope \in {rows[site].scope, rows[site].newScope}
    BY DEF Codes, Changed
  <2>1. Fix(site) BY <1>1, OnlyFixTakesRow
  <2>2. /\ seat' \in Seat /\ Mirrored(seat')
        /\ OneWritten(seat, seat', {rows[site].scope, rows[site].newScope})
    BY <1>1, <2>1, FixStep
  <2>3. SeatTyped(seat) BY <1>1 DEF FixesInv
  <2> QED BY <2>2, <2>3, OneChange
<1>2. FixesInv /\ [Next]_vars => [\A site \in KindooSites : Only(site)]_vars BY <1>1
<1> QED BY <1>2, FixesStayTyped, PTL DEF Spec, OnlySurfacedGrantWritten
-----------------------------------------------------------------------------
(* Which seats a fix finds its grant in.                                   *)

\* The grant a row was surfaced from can be told by scope and stamp: a foreign
\* stamp is that of the grant's ward, and beside an unstamped grant of a foreign
\* ward no grant of that ward is stamped as home.
Findable(st) ==
    \A g \in Grants(st), h \in Grants(st) :
        /\ g.site \in ForeignSites => g.site = SiteOf(g.scope)
        /\ g.scope = h.scope /\ g.site = Unset /\ SiteOf(g.scope) \in ForeignSites => h.site # Home

\* A grant stamped as fixes and requests stamp them.
Stamped(g) == IF SiteOf(g.scope) \in ForeignSites THEN g.site = SiteOf(g.scope) ELSE g.site \in {Home, Unset}

\* Every grant is stamped that way or keeps the scope and the stamp of one there was.
Kin(t, st) == \A g \in Grants(t) : Stamped(g) \/ \E h \in Grants(st) : g.scope = h.scope /\ g.site = h.site

LEMMA StaysFindable == ASSUME NEW st, NEW t, Findable(st), Kin(t, st) PROVE Findable(t)
<1>0. Home \notin ForeignSites /\ Unset \notin ForeignSites BY ScopesAssumption
<1> SUFFICES ASSUME NEW g \in Grants(t), NEW h \in Grants(t)
             PROVE  /\ g.site \in ForeignSites => g.site = SiteOf(g.scope)
                    /\ g.scope = h.scope /\ g.site = Unset /\ SiteOf(g.scope) \in ForeignSites => h.site # Home
  BY DEF Findable
<1>1. ASSUME g.site \in ForeignSites PROVE g.site = SiteOf(g.scope)
  BY <1>0, <1>1 DEF Kin, Stamped, Findable
<1>2. ASSUME g.scope = h.scope, g.site = Unset, SiteOf(g.scope) \in ForeignSites PROVE h.site # Home
  <2>1. ~Stamped(g) BY <1>0, <1>2 DEF Stamped
  <2>2. PICK e \in Grants(st) : g.scope = e.scope /\ g.site = e.site BY <2>1 DEF Kin
  <2>3. CASE Stamped(h) BY <1>0, <1>2, <2>3 DEF Stamped
  <2>4. CASE ~Stamped(h)
    <3>1. PICK k \in Grants(st) : h.scope = k.scope /\ h.site = k.site BY <2>4 DEF Kin
    <3> QED BY <1>2, <2>2, <3>1 DEF Findable
  <2> QED BY <2>3, <2>4
<1> QED BY <1>1, <1>2

LEMMA PatchKin ==
    ASSUME NEW st \in Seat, NEW i \in Places(st), NEW g \in Grant,
           Stamped(g) \/ (g.scope = GrantAt(st, i).scope /\ g.site = GrantAt(st, i).site)
    PROVE  Kin(PatchGrant(st, i, g), st)
<1> DEFINE t == PatchGrant(st, i, g)
<1>1. /\ t \in Seat /\ Len(t.dups) = Len(st.dups)
      /\ \A j \in Places(st) : GrantAt(t, j) = IF j = i THEN g ELSE GrantAt(st, j)
  BY Patched
<1> HIDE DEF t
<1>2. Places(t) = Places(st) BY <1>1 DEF Places
<1>3. \A j \in Places(st) : GrantAt(st, j) \in Grants(st) BY SeatFacts
<1>4. \A e \in Grants(t) : e = g \/ e \in Grants(st) BY <1>1, <1>2, <1>3, SeatFacts
<1> QED BY <1>3, <1>4 DEF Kin, t

LEMMA AppendKin ==
    ASSUME NEW st \in Seat, NEW g \in Grant, Stamped(g)
    PROVE  Kin(WithDups(st, Append(st.dups, g)), st)
<1> DEFINE t == WithDups(st, Append(st.dups, g))
<1>1. /\ t \in Seat /\ Len(t.dups) = Len(st.dups) + 1
      /\ \A j \in Places(st) : GrantAt(t, j) = GrantAt(st, j)
      /\ GrantAt(t, Len(st.dups) + 1) = g
  BY Appended
<1> HIDE DEF t
<1>2. \A j \in Places(t) : j \in Places(st) \/ j = Len(st.dups) + 1 BY <1>1, SeatFacts DEF Places
<1>3. \A e \in Grants(t) : e = g \/ e \in Grants(st) BY <1>1, <1>2, SeatFacts
<1> QED BY <1>3 DEF Kin, t

LEMMA StampedBySite == ASSUME NEW g, g.scope \in Scopes, g.site = SiteOf(g.scope) PROVE Stamped(g)
  BY SiteOfType DEF Stamped, Sites

LEMMA StampedAtHome ==
    ASSUME NEW g, SiteOf(g.scope) = Home, g.site \in {Home, Unset} PROVE Stamped(g)
  BY ScopesAssumption DEF Stamped

\* What the transaction of a fix writes in place of the grant it found.
Writes(row, h, g) ==
    /\ row.code = "callings-mismatch" => g.callings = row.callings
    /\ row.code = "type-mismatch" => g.type = row.type
    /\ row.code = "buildings-mismatch" => g.buildings = row.buildings
    /\ row.code = "kindoo-unparseable" => g.callings = row.callings /\ g.scope = Stake
    /\ row.code = "scope-mismatch" => g.scope = row.newScope
    /\ row.code \in {"scope-mismatch", "kindoo-unparseable"} =>
          Stamped(g) /\ GrantSite(g) = SiteOf(g.scope)
    /\ row.code \notin {"scope-mismatch", "kindoo-unparseable"} => g.scope = h.scope /\ g.site = h.site

LEMMA FixWrites ==
    ASSUME NEW st \in Seat, NEW acc, NEW row, Fixable(row), RowOK(row),
           row.code \in Codes, row.code # "kindoo-only", ApplyFix(st, acc, row).ok
    PROVE  LET i == ResolveGrantSlot(st, row.scope, row.site) IN
           /\ i \in Places(st)
           /\ \E g \in Grant : /\ ApplyFix(st, acc, row).seat = PatchGrant(st, i, g)
                              /\ Writes(row, GrantAt(st, i), g)
<1> DEFINE i == ResolveGrantSlot(st, row.scope, row.site)
           h == GrantAt(st, i)
           t == ApplyFix(st, acc, row).seat
<1>0. /\ \A s, a : Done(s, a).seat = s
      /\ Home # Unset /\ Home \notin ForeignSites /\ Unset \notin ForeignSites
  BY ScopesAssumption DEF Done, Home, Unset
<1>1. /\ row.type \in SeatTypes /\ row.callings \in SUBSET Callings /\ row.buildings \in SUBSET Buildings
      /\ row.code = "scope-mismatch" => row.newScope \in Units
  BY DEF RowOK
<1>2. i # Missing /\ st # NoSeat BY SeatFacts DEF ApplyFix, Refused
<1>3. i \in Places(st) BY <1>2, ResolvedSlot
<1>4. ApplyFix(st, acc, row) =
        CASE row.code = "callings-mismatch"  -> ApplyCallingsMismatch(st, acc, i, row)
          [] row.code = "scope-mismatch"     -> ApplyScopeMismatch(st, acc, i, row)
          [] row.code = "type-mismatch"      -> ApplyTypeMismatch(st, acc, i, row)
          [] row.code = "kindoo-unparseable" -> ApplyKindooUnparseable(st, acc, i, row)
          [] row.code = "buildings-mismatch" -> ApplyBuildingsMismatch(st, acc, i, row)
  BY <1>2 DEF ApplyFix
<1> HIDE DEF i
<1>5. h \in Grant BY <1>3, SeatFacts
<1>6. CASE row.code = "callings-mismatch"
  <2> DEFINE g == [h EXCEPT !.callings = row.callings]
  <2>1. t = PatchGrant(st, i, g) BY <1>0, <1>4, <1>6 DEF ApplyCallingsMismatch, Refused
  <2> HIDE DEF h, t
  <2>2. g \in Grant /\ g.scope = h.scope /\ g.site = h.site /\ g.callings = row.callings
    BY <1>1, <1>5 DEF Grant
  <2> HIDE DEF g
  <2>3. Writes(row, h, g) BY <1>6, <2>2 DEF Writes
  <2> QED BY <1>3, <2>1, <2>2, <2>3 DEF t, h, i
<1>7. CASE row.code = "type-mismatch"
  <2> DEFINE callings == IF row.type = "auto" /\ h.type # "auto" /\ row.callings # {}
                         THEN row.callings ELSE h.callings
             g == [h EXCEPT !.type = row.type, !.callings = callings]
  <2>1. t = PatchGrant(st, i, g) BY <1>0, <1>4, <1>7 DEF ApplyTypeMismatch
  <2> HIDE DEF h, t
  <2>2. callings \in SUBSET Callings BY <1>1, <1>5 DEF Grant
  <2> HIDE DEF callings
  <2>3. g \in Grant /\ g.scope = h.scope /\ g.site = h.site /\ g.type = row.type
    BY <1>1, <1>5, <2>2 DEF Grant
  <2> HIDE DEF g
  <2>4. Writes(row, h, g) BY <1>7, <2>3 DEF Writes
  <2> QED BY <1>3, <2>1, <2>3, <2>4 DEF t, h, i
<1>8. CASE row.code = "buildings-mismatch"
  <2> DEFINE g == [h EXCEPT !.buildings = row.buildings]
  <2>1. row.buildings # {} BY <1>4, <1>8 DEF ApplyBuildingsMismatch, Refused
  <2>2. t = PatchGrant(st, i, g) BY <1>0, <1>4, <1>8, <2>1 DEF ApplyBuildingsMismatch
  <2> HIDE DEF h, t
  <2>3. g \in Grant /\ g.scope = h.scope /\ g.site = h.site /\ g.buildings = row.buildings
    BY <1>1, <1>5 DEF Grant
  <2> HIDE DEF g
  <2>4. Writes(row, h, g) BY <1>8, <2>3 DEF Writes
  <2> QED BY <1>3, <2>2, <2>3, <2>4 DEF t, h, i
<1>9. SiteOf(Stake) = Home /\ Stake \in Scopes BY DEF SiteOf, Scopes
<1>10. NoStamp(i) \in {Unset, Home} BY DEF NoStamp
<1>11. CASE row.code = "kindoo-unparseable"
  <2> DEFINE g == [h EXCEPT !.scope = Stake, !.site = NoStamp(i), !.callings = row.callings]
  <2>1. t = PatchGrant(st, i, g) BY <1>0, <1>4, <1>11 DEF ApplyKindooUnparseable
  <2> HIDE DEF h, t
  <2>2. g \in Grant /\ g.scope = Stake /\ g.site = NoStamp(i) /\ g.callings = row.callings
    BY <1>1, <1>5, <1>9, NoStampType DEF Grant
  <2> HIDE DEF g
  <2>3. Stamped(g) BY <1>9, <1>10, <2>2, StampedAtHome
  <2>4. GrantSite(g) = SiteOf(g.scope) BY <1>9, <1>10, <2>2 DEF GrantSite, NormSite
  <2>5. Writes(row, h, g) BY <1>11, <2>2, <2>3, <2>4 DEF Writes
  <2> QED BY <1>3, <2>1, <2>2, <2>5 DEF t, h, i
<1>12. CASE row.code = "scope-mismatch"
  <2> DEFINE unit == row.newScope
             site == IF unit = Stake THEN NoStamp(i) ELSE IF SiteOf(unit) = Unset THEN h.site ELSE SiteOf(unit)
             org == IF unit = Stake THEN h.org ELSE NoOrg
             g == [h EXCEPT !.scope = unit, !.site = site, !.org = org]
  <2>1. t = PatchGrant(st, i, g) BY <1>0, <1>4, <1>12 DEF ApplyScopeMismatch
  <2> HIDE DEF h, t
  <2>2. unit \in Scopes /\ SiteOf(unit) \in KindooSites /\ SiteOf(unit) \in Sites
    BY <1>1, <1>12, UnitsAre, SiteOfType
  <2>3. SiteOf(unit) # Unset BY <1>0, <2>2 DEF KindooSites
  <2>4. site = SiteOf(unit) \/ (unit = Stake /\ site \in {Unset, Home}) BY <1>10, <2>3
  <2>5. site \in Sites BY <1>9, <2>2, <2>4 DEF Sites
  <2>6. org \in Orgs \cup {NoOrg} BY <1>5 DEF Grant
  <2> HIDE DEF site, org
  <2>7. g \in Grant /\ g.scope = unit /\ g.site = site BY <1>5, <2>2, <2>5, <2>6 DEF Grant
  <2> HIDE DEF g
  <2>8. Stamped(g) BY <1>9, <2>2, <2>4, <2>7, StampedBySite, StampedAtHome
  <2>9. GrantSite(g) = SiteOf(g.scope) BY <1>9, <2>3, <2>4, <2>7 DEF GrantSite, NormSite
  <2>10. Writes(row, h, g) BY <1>12, <2>7, <2>8, <2>9 DEF Writes
  <2> QED BY <1>3, <2>1, <2>7, <2>10 DEF t, h, i
<1> QED BY <1>6, <1>7, <1>8, <1>11, <1>12 DEF Codes

\* The transaction of a fix leaves grants that can be found again.
LEMMA FixKin ==
    ASSUME NEW st \in Seat \cup {NoSeat}, NEW acc, NEW row, Fixable(row), RowOK(row), row.code \in Codes,
           ApplyFix(st, acc, row).ok
    PROVE  Kin(ApplyFix(st, acc, row).seat, st)
<1> DEFINE i == IF st = NoSeat THEN Missing ELSE ResolveGrantSlot(st, row.scope, row.site)
           unit == row.newScope
           t == ApplyFix(st, acc, row).seat
<1>0. \A s, a : Done(s, a).seat = s BY DEF Done
<1>1. /\ row.type \in SeatTypes /\ row.callings \in SUBSET Callings /\ row.buildings \in SUBSET Buildings
      /\ row.code \in {"kindoo-only", "scope-mismatch"} =>
            unit \in Units /\ unit \in Scopes /\ SiteOf(unit) \in KindooSites /\ SiteOf(unit) \in Sites
  BY UnitsAre, SiteOfType DEF RowOK
<1>2. CASE row.code = "kindoo-only" /\ st = NoSeat
  <2> DEFINE stamp == IF SiteOf(unit) = Home THEN Unset ELSE SiteOf(unit)
             g == NewGrant(row, stamp)
  <2>1. NewGrantOK(row) BY <1>1, <1>2 DEF NewGrantOK
  <2>2. stamp \in Sites BY <1>1, <1>2 DEF Sites
  <2>3. g \in Grant /\ g.scope = unit /\ g.site = stamp BY <2>1, <2>2, NewGrantType DEF NewGrant
  <2>4. t = SeatOf(g, <<>>) BY <1>0, <1>2 DEF ApplyFix, ApplyKindooOnly, CreateSeat
  <2>5. Stamped(g) BY <1>1, <1>2, <2>3, StampedBySite, StampedAtHome
  <2> HIDE DEF g, t
  <2>6. <<>> \in Seq(Grant) /\ Len(<<>>) = 0 BY EmptySeq
  <2>7. t \in Seat /\ t.dups = <<>> /\ Primary(t) = g BY <2>3, <2>4, <2>6, SeatOfIs
  <2>8. Grants(t) = {GrantAt(t, j) : j \in Places(t)} /\ GrantAt(t, 0) = g BY <2>7, SeatFacts
  <2>9. Places(t) = {0} BY <2>6, <2>7 DEF Places
  <2>10. Grants(t) = {g} BY <2>8, <2>9
  <2> QED BY <2>5, <2>10 DEF Kin, t
<1>3. CASE row.code = "kindoo-only" /\ st # NoSeat
  <2> DEFINE site == SiteOf(unit)
             k == SlotAt(st, unit, row.type)
             h == GrantAt(st, k)
             stamp == IF site = Unset THEN h.site ELSE IF site = Home THEN NoStamp(k) ELSE site
             g == [h EXCEPT !.buildings = h.buildings \cup row.buildings, !.site = stamp]
  <2>1. ApplyFix(st, acc, row) = MergeKindooOnly(st, acc, row, site)
    BY <1>3 DEF ApplyFix, ApplyKindooOnly, Refused
  <2>2. NewGrantOK(row) BY <1>1, <1>3 DEF NewGrantOK
  <2>3. CASE k = Missing
    <3>1. t = WithDups(st, Append(st.dups, NewGrant(row, site))) BY <1>0, <2>1, <2>3 DEF MergeKindooOnly
    <3>2. NewGrant(row, site) \in Grant /\ NewGrant(row, site).scope = unit /\ NewGrant(row, site).site = site
      BY <1>1, <1>3, <2>2, NewGrantType DEF NewGrant
    <3>3. Stamped(NewGrant(row, site)) BY <1>1, <1>3, <3>2, StampedBySite
    <3> HIDE DEF t
    <3> QED BY <1>3, <3>1, <3>2, <3>3, AppendKin DEF t
  <2>4. CASE k # Missing
    <3>1. MergeKindooOnly(st, acc, row, site) = Done(PatchGrant(st, k, g), acc)
      BY <1>3, <2>1, <2>4 DEF MergeKindooOnly, Refused
    <3>2. t = PatchGrant(st, k, g) BY <1>0, <2>1, <3>1
    <3>3. k \in Places(st) /\ h.scope = unit BY <1>3, <2>4, SlotAtIs
    <3> HIDE DEF k, t
    <3>4. h \in Grant BY <1>3, <3>3, SeatFacts
    <3> HIDE DEF h
    <3>5. stamp \in Sites BY <1>1, <1>3, <3>4, NoStampType DEF Grant
    <3>6. site # Unset BY <1>1, <1>3, ScopesAssumption DEF KindooSites, Home, Unset
    <3>7. (stamp \in {Home, Unset} /\ site = Home) \/ stamp = site BY <3>6 DEF NoStamp
    <3> HIDE DEF stamp
    <3>8. g \in Grant /\ g.scope = unit /\ g.site = stamp BY <1>1, <2>2, <3>3, <3>4, <3>5 DEF Grant, NewGrantOK
    <3> HIDE DEF g
    <3>9. Stamped(g) BY <1>1, <1>3, <3>7, <3>8, StampedBySite, StampedAtHome
    <3> QED BY <1>3, <3>2, <3>3, <3>8, <3>9, PatchKin DEF t
  <2> QED BY <2>3, <2>4
<1>4. CASE row.code # "kindoo-only"
  <2>1. st # NoSeat BY <1>4 DEF ApplyFix, Refused
  <2>2. PICK g \in Grant : t = PatchGrant(st, i, g) /\ Writes(row, GrantAt(st, i), g) /\ i \in Places(st)
    BY <1>4, <2>1, FixWrites
  <2>3. Stamped(g) \/ (g.scope = GrantAt(st, i).scope /\ g.site = GrantAt(st, i).site)
    BY <2>2 DEF Writes
  <2> HIDE DEF i, t
  <2> QED BY <2>1, <2>2, <2>3, PatchKin DEF t
<1> QED BY <1>2, <1>3, <1>4

LEMMA KinRefl == ASSUME NEW st PROVE Kin(st, st)
  BY DEF Kin

LEMMA DropKin == ASSUME NEW st \in Seat, NEW i \in 1..Len(st.dups)
  PROVE Kin(WithDups(st, RemoveAt(st.dups, i)), st)
<1> DEFINE d == RemoveAt(st.dups, i)
           t == WithDups(st, d)
           n == Len(st.dups)
<1>1. st.dups \in Seq(Grant) /\ n \in Nat BY SeatFacts
<1>2. /\ d \in Seq(Grant) /\ Len(d) = n - 1
      /\ \A j \in 1..n - 1 : d[j] = IF j < i THEN st.dups[j] ELSE st.dups[j + 1]
  BY <1>1, RemoveAtFacts
<1> HIDE DEF d
<1>3. t \in Seat /\ t.dups = d /\ Primary(t) = Primary(st) BY <1>2, WithDupsType
<1> HIDE DEF t
<1>4. \A j \in Places(st) : GrantAt(st, j) \in Grants(st) BY SeatFacts
<1>5. ASSUME NEW j \in Places(t) PROVE GrantAt(t, j) \in Grants(st)
  <2>1. CASE j = 0
    <3>1. 0 \in Places(st) BY <1>1 DEF Places
    <3> QED BY <1>3, <1>4, <2>1, <3>1, SeatFacts
  <2>2. CASE j # 0
    <3>1. j \in 1..n - 1 BY <1>1, <1>2, <1>3, <2>2 DEF Places
    <3>2. j \in 1..n /\ j + 1 \in 1..n BY <1>1, <3>1
    <3>3. j \in Places(st) /\ j + 1 \in Places(st) BY <1>1, <3>2 DEF Places
    <3>4. GrantAt(t, j) = d[j] BY <1>3, <2>2 DEF GrantAt
    <3>5. GrantAt(st, j) = st.dups[j] /\ GrantAt(st, j + 1) = st.dups[j + 1] BY <3>2, SeatFacts
    <3> QED BY <1>2, <1>4, <3>1, <3>3, <3>4, <3>5
  <2> QED BY <2>1, <2>2
<1>6. \A g \in Grants(t) : g \in Grants(st) BY <1>3, <1>5, SeatFacts
<1> QED BY <1>6 DEF Kin, t, d

LEMMA PromoteKin == ASSUME NEW st \in Seat, st.dups # <<>>
  PROVE Kin(ApplyRemove(st, Plan("promote", 1)), st)
<1> DEFINE n == Len(st.dups)
           u == WithDups(st, RemoveAt(st.dups, 1))
           t == ApplyRemove(st, Plan("promote", 1))
           first == st.dups[1]
<1>1. st.dups \in Seq(Grant) /\ n \in Nat BY SeatFacts
<1>2. 1 \in 1..n BY <1>1, EmptySeq
<1>3. u \in Seat BY <1>2, Dropped
<1>4. t = [u EXCEPT !.scope = first.scope, !.type = first.type, !.site = first.site,
                    !.buildings = first.buildings, !.callings = first.callings]
  BY DEF ApplyRemove, Plan
<1>5. Kin(u, st) BY <1>2, DropKin
<1>6. t \in Seat BY Promoted
<1>7. first \in Grants(st)
  <2>1. 1 \in Places(st) /\ GrantAt(st, 1) = first BY <1>1, <1>2, SeatFacts DEF Places
  <2> QED BY <2>1, SeatFacts
<1> HIDE DEF u, t, first
<1>8. t.dups = u.dups /\ t.scope = first.scope /\ t.site = first.site BY <1>3, <1>4 DEF Seat
<1>9. Primary(t).scope = first.scope /\ Primary(t).site = first.site BY <1>8 DEF Primary
<1>10. \A j \in Places(t) : j = 0 \/ (j \in Places(u) /\ GrantAt(t, j) = GrantAt(u, j))
  BY <1>8 DEF Places, GrantAt
<1>11. \A g \in Grants(t) : g = Primary(t) \/ g \in Grants(u) BY <1>3, <1>6, <1>10, SeatFacts
<1> QED BY <1>5, <1>7, <1>9, <1>11 DEF Kin, t

LEMMA AddKin == ASSUME NEW st \in Seat, NEW req \in Request PROVE Kin(PlanAddMerge(st, req), st)
<1> DEFINE type == AddType(req.type)
           n == Len(st.dups)
           I == {i \in 1..n : st.dups[i].scope = req.scope /\ st.dups[i].type = type}
           k == SlotIndex(st.dups, req.scope, type)
           here == st.scope = req.scope /\ st.type = type
           t == PlanAddMerge(st, req)
<1>1. /\ st.dups \in Seq(Grant) /\ n \in Nat
      /\ \A i \in 1..n : st.dups[i] \in Grant
  BY SeatFacts
<1>2. req.scope \in Scopes /\ req.buildings \in SUBSET Buildings /\ req.reason \in SUBSET Callings
  BY DEF Request
<1>3. CASE here
  <2>1. t = Merged(st, req) BY <1>3 DEF PlanAddMerge
  <2>2. MergedOrg(req, st.org) \in Orgs \cup {NoOrg} BY MergedOrgType DEF Seat
  <2>3. t \in Seat /\ t.scope = st.scope /\ t.site = st.site /\ t.dups = st.dups
    <3>1. Merged(st, req) = [st EXCEPT !.buildings = st.buildings \cup req.buildings,
                                       !.org = MergedOrg(req, st.org)]
      BY DEF Merged
    <3> HIDE DEF t
    <3> QED BY <1>2, <2>1, <2>2, <3>1 DEF Seat
  <2> HIDE DEF t
  <2>4. Primary(t).scope = Primary(st).scope /\ Primary(t).site = Primary(st).site BY <2>3 DEF Primary
  <2>5. \A j \in Places(t) : j = 0 \/ (j \in Places(st) /\ GrantAt(t, j) = GrantAt(st, j))
    BY <2>3 DEF Places, GrantAt
  <2>6. \A g \in Grants(t) : g = Primary(t) \/ g \in Grants(st) BY <2>3, <2>5, SeatFacts
  <2>7. Primary(st) \in Grants(st)
    <3>1. 0 \in Places(st) BY <1>1 DEF Places
    <3> QED BY <3>1, SeatFacts
  <2> QED BY <2>4, <2>6, <2>7 DEF Kin, t
<1>4. CASE ~here /\ k > 0
  <2> DEFINE merged == Merged(st.dups[k], req)
             d == ReplaceAt(st.dups, k, merged)
  <2>1. k = IF I # {} THEN Min(I) ELSE 0 BY DEF SlotIndex, SelectInSeq
  <2>2. I # {} => Min(I) \in I
    <3>1. I \subseteq Nat OBVIOUS
    <3> QED BY ONLY <3>1, LeastMember
  <2>3. k \in 1..n BY <1>4, <2>1, <2>2
  <2>4. t = IF merged = st.dups[k] THEN st ELSE WithDups(st, d) BY <1>4 DEF PlanAddMerge
  <2> HIDE DEF k, t
  <2>5. k \in Places(st) /\ k # 0 /\ GrantAt(st, k) = st.dups[k] BY <1>1, <2>3, SeatFacts DEF Places
  <2>6. merged \in Grant /\ merged.scope = st.dups[k].scope /\ merged.site = st.dups[k].site
    <3>1. st.dups[k] \in Grant BY <1>1, <2>3
    <3>2. MergedOrg(req, st.dups[k].org) \in Orgs \cup {NoOrg} BY <3>1, MergedOrgType DEF Grant
    <3>3. merged = [st.dups[k] EXCEPT !.buildings = st.dups[k].buildings \cup req.buildings,
                                      !.org = MergedOrg(req, st.dups[k].org)]
      BY DEF Merged
    <3> HIDE DEF merged
    <3> QED BY <1>2, <3>1, <3>2, <3>3 DEF Grant
  <2>7. WithDups(st, d) = PatchGrant(st, k, merged) BY <2>5 DEF PatchGrant
  <2> HIDE DEF merged, d
  <2>8. Kin(PatchGrant(st, k, merged), st) BY <2>5, <2>6, PatchKin
  <2> QED BY <2>4, <2>7, <2>8, KinRefl DEF t
<1>5. CASE ~here /\ ~(k > 0)
  <2>1. t = WithDups(st, Append(st.dups, NewDuplicate(req))) BY <1>5 DEF PlanAddMerge
  <2>2. NewDuplicate(req) \in Grant /\ NewDuplicate(req).scope = req.scope
        /\ NewDuplicate(req).site = SiteOf(req.scope)
    <3>1. SiteOf(req.scope) \in Sites /\ type \in SeatTypes /\ MergedOrg(req, NoOrg) \in Orgs \cup {NoOrg}
      BY <1>2, SiteOfType, AddTypeType, MergedOrgType
    <3> QED BY <1>2, <3>1 DEF NewDuplicate, Grant
  <2>3. Stamped(NewDuplicate(req)) BY <1>2, <2>2, StampedBySite
  <2> HIDE DEF t
  <2> QED BY <2>1, <2>2, <2>3, AppendKin DEF t
<1> QED BY <1>3, <1>4, <1>5

LEMMA NewSeatKin == ASSUME NEW req \in Request, NEW st PROVE Kin(NewSeat(req), st)
<1> DEFINE t == NewSeat(req)
<1>1. t \in Seat BY NewSeatTyped
<1>2. t.dups = <<>> /\ t.scope = req.scope /\ t.site = SiteOf(req.scope) BY DEF NewSeat
<1> HIDE DEF t
<1>3. req.scope \in Scopes BY DEF Request
<1>4. Stamped(Primary(t)) BY <1>2, <1>3, StampedBySite DEF Primary
<1>5. Places(t) = {0}
  <2>1. Len(<<>>) = 0 BY EmptySeq
  <2> QED BY <1>2, <2>1 DEF Places
<1>6. \A g \in Grants(t) : g = Primary(t) BY <1>1, <1>5, SeatFacts
<1> QED BY <1>4, <1>6 DEF Kin, t

LEMMA RemoveKin ==
    ASSUME NEW st \in Seat, NEW scope, NEW site
    PROVE  Kin(ApplyRemove(st, PlanRemove(st, scope, site)), st)
<1> DEFINE n == Len(st.dups)
           plan == PlanRemove(st, scope, site)
           M == {i \in 1..n : Addressed(st.dups[i], scope, site) /\ st.dups[i].type # "auto"}
           A == {i \in 1..n : Addressed(st.dups[i], scope, site)}
           manual == SelectInSeq(st.dups, LAMBDA d : Addressed(d, scope, site) /\ d.type # "auto")
           any == SelectInSeq(st.dups, LAMBDA d : Addressed(d, scope, site))
<1>1. manual = (IF M # {} THEN Min(M) ELSE 0) /\ any = IF A # {} THEN Min(A) ELSE 0
  BY DEF SelectInSeq
<1>2. (M # {} => Min(M) \in M) /\ (A # {} => Min(A) \in A)
  <2>1. M \subseteq Nat /\ A \subseteq Nat OBVIOUS
  <2> QED BY ONLY <2>1, LeastMember
<1>3. /\ manual > 0 => manual \in 1..n
      /\ any > 0 => any \in 1..n
  BY <1>1, <1>2
<1> HIDE DEF manual, any, M, A
<1>4. \/ plan = Plan("no_match", 0)
      \/ plan = Plan("delete", 0)
      \/ plan = Plan("promote", 1) /\ st.dups # <<>>
      \/ \E i \in 1..n : plan = Plan("drop_duplicate", i)
  BY <1>3 DEF PlanRemove, manual, any
<1> HIDE DEF plan
<1>5. CASE plan = Plan("no_match", 0)
  <2>1. ApplyRemove(st, plan) = st BY <1>5 DEF ApplyRemove, Plan
  <2> QED BY <2>1, KinRefl DEF plan
<1>6. CASE plan = Plan("delete", 0)
  <2>1. ApplyRemove(st, plan) = NoSeat BY <1>6 DEF ApplyRemove, Plan
  <2>2. Kin(NoSeat, st) BY DEF Kin, Grants
  <2> QED BY <2>1, <2>2 DEF plan
<1>7. CASE plan = Plan("promote", 1) /\ st.dups # <<>> BY <1>7, PromoteKin DEF plan
<1>8. CASE \E i \in 1..n : plan = Plan("drop_duplicate", i)
  <2>1. PICK i \in 1..n : plan = Plan("drop_duplicate", i) BY <1>8
  <2>2. i # 0 BY SeatFacts
  <2>3. ApplyRemove(st, plan) = WithDups(st, RemoveAt(st.dups, i)) BY <2>1, <2>2 DEF ApplyRemove, Plan
  <2> QED BY <2>3, DropKin DEF plan
<1> QED BY <1>4, <1>5, <1>6, <1>7, <1>8

\* Whatever a step does to the seat, its grants can be found again.
LEMMA AnyKin == ASSUME FixesInv, [Next]_vars PROVE Kin(seat', seat)
<1>0. SeatTyped(seat) BY DEF FixesInv
<1>1. ASSUME NEW site \in KindooSites, PanelStep(site) PROVE Kin(seat', seat)
  <2>1. ASSUME NEW doorsRead \in BOOLEAN, Scan(site, doorsRead) PROVE Kin(seat', seat)
    BY <2>1, KinRefl DEF Scan
  <2>2. CASE Fix(site)
    <3> DEFINE row == rows[site]
               result == ApplyFix(seat, access, row)
    <3>1. Fixable(row) /\ row.code \in Codes /\ result.ok /\ seat' = result.seat
      BY <2>2 DEF Fix, Shows, Codes
    <3>2. RowOK(row) BY DEF FixesInv, Sendable
    <3>3. seat \in Seat \cup {NoSeat} BY <1>0 DEF SeatTyped
    <3>4. Kin(result.seat, seat) BY <3>1, <3>2, <3>3, FixKin
    <3> QED BY <3>1, <3>4
  <2>3. CASE StartRemoval(site) BY <2>3, KinRefl DEF StartRemoval
  <2>4. CASE RemovalFails(site) BY <2>4, KinRefl DEF RemovalFails
  <2>5. CASE DropDuplicate(site)
    <3> DEFINE i == DupIndex(site)
               I == {j \in 1..Len(Dups(seat)) : Dups(seat)[j].scope = removal[site].scope
                                                /\ Dups(seat)[j].site = removal[site].stamp}
    <3>1. i > 0 /\ seat' = WithDups(seat, RemoveAt(seat.dups, i)) BY <2>5 DEF DropDuplicate
    <3>2. i = IF I # {} THEN Min(I) ELSE 0 BY DEF DupIndex, SelectInSeq
    <3>3. I # {} => Min(I) \in I
      <4>1. I \subseteq Nat OBVIOUS
      <4> QED BY ONLY <4>1, LeastMember
    <3>4. i \in 1..Len(Dups(seat)) BY <3>1, <3>2, <3>3
    <3> HIDE DEF i
    <3>5. seat # NoSeat
      <4>1. ASSUME seat = NoSeat PROVE Len(Dups(seat)) = 0 BY <4>1, EmptySeq DEF Dups
      <4> QED BY <3>4, <4>1
    <3> QED BY <1>0, <3>1, <3>4, <3>5, DropKin DEF SeatTyped, Dups
  <2>6. CASE ReapOrphan(site) BY <2>6, KinRefl DEF ReapOrphan
  <2>7. CASE DeleteOrphan(site) BY <2>7 DEF DeleteOrphan, Kin, Grants
  <2>8. CASE PromoteDuplicate(site) BY <1>0, <2>8, PromoteKin DEF PromoteDuplicate, SeatTyped
  <2> QED BY <1>1, <2>1, <2>2, <2>3, <2>4, <2>5, <2>6, <2>7, <2>8 DEF PanelStep
<1>2. ASSUME NEW site \in KindooSites, NEW user \in KindooUsers[site], KindooChanges(site, user)
      PROVE  Kin(seat', seat)
  BY <1>2, KinRefl DEF KindooChanges
<1>3. ASSUME NEW req \in Requests, RequestAdds(req) \/ RequestRemoves(req) PROVE Kin(seat', seat)
  <2>1. req \in Request BY FixesAssumption
  <2>2. CASE RequestAdds(req) BY <1>0, <2>1, <2>2, AddKin, NewSeatKin DEF RequestAdds, SeatTyped
  <2>3. CASE RequestRemoves(req) BY <1>0, <2>3, RemoveKin DEF RequestRemoves, SeatTyped
  <2> QED BY <1>3, <2>2, <2>3
<1>4. CASE UNCHANGED vars BY <1>4, KinRefl DEF vars
<1>5. CASE Next BY <1>1, <1>2, <1>3, <1>5 DEF Next
<1> QED BY <1>4, <1>5

-----------------------------------------------------------------------------
(* A fix heals the row it was applied to.                                  *)

LEMMA ContributorsIs ==
    ASSUME NEW st \in Seat, NEW site
    PROVE  Contributors(st, site) = {i \in Places(st) : GrantSite(GrantAt(st, i)) = site}
  BY SeatFacts DEF Contributors, Places

\* The grant that speaks for the seat on a site is the one that its scope finds
\* there.
LEMMA BlockFound ==
    ASSUME NEW st \in Seat, Findable(st), NEW site \in KindooSites, Contributors(st, site) # {}
    PROVE  LET f == Min(Contributors(st, site)) IN
           /\ f \in Places(st) /\ GrantSite(GrantAt(st, f)) = site
           /\ \A j \in Contributors(st, site) : f <= j
           /\ ResolveGrantSlot(st, GrantAt(st, f).scope, site) = f
<1> DEFINE C == Contributors(st, site)
           f == Min(C)
           b == GrantAt(st, f)
           n == Len(st.dups)
<1>0. /\ n \in Nat /\ \A j \in 1..n : GrantAt(st, j) = st.dups[j]
      /\ Home # Unset /\ Home \notin ForeignSites /\ Unset \notin ForeignSites
  BY SeatFacts, ScopesAssumption DEF Home, Unset
<1>1. C = {i \in Places(st) : GrantSite(GrantAt(st, i)) = site} BY ContributorsIs
<1>2. C \subseteq Nat BY <1>0, <1>1 DEF Places
<1>3. f \in C /\ \A j \in C : f <= j
  <2>1. C # {} OBVIOUS
  <2> HIDE DEF C
  <2> QED BY ONLY <1>2, <2>1, LeastMember
<1> HIDE DEF C, f
<1>4. f \in Places(st) /\ GrantSite(b) = site BY <1>1, <1>3
<1>5. Matches(b, b.scope, site)
  <2>1. b.site = Unset \/ b.site = site BY <1>4 DEF GrantSite
  <2> QED BY <2>1 DEF Matches
<1>6. ASSUME NEW j \in Places(st), Matches(GrantAt(st, j), b.scope, site) PROVE j \in C
  <2> DEFINE g == GrantAt(st, j)
  <2>1. g \in Grants(st) /\ b \in Grants(st) /\ g \in Grant /\ b \in Grant BY <1>4, SeatFacts
  <2> HIDE DEF g, b
  <2>2. g.scope = b.scope /\ (g.site = Unset \/ g.site = site) BY <1>6 DEF Matches, g
  <2>3. site # Unset BY <1>0 DEF KindooSites
  <2>4. CASE g.site = site BY <1>1, <2>3, <2>4 DEF GrantSite, g
  <2>5. CASE g.site = Unset
    <3>1. GrantSite(g) = NormSite(SiteOf(b.scope)) BY <2>2, <2>5 DEF GrantSite
    <3>2. CASE b.site = Unset BY <1>1, <1>4, <3>1, <3>2 DEF GrantSite, g
    <3>3. CASE b.site # Unset
      <4>1. b.site = site BY <1>4, <3>3 DEF GrantSite
      <4>2. CASE site \in ForeignSites
        <5>1. SiteOf(b.scope) = site BY <2>1, <4>1, <4>2 DEF Findable
        <5> QED BY <1>1, <2>3, <3>1, <5>1 DEF NormSite, g
      <4>3. CASE site = Home
        <5>1. SiteOf(b.scope) \notin ForeignSites BY <2>1, <2>2, <2>5, <4>1, <4>3 DEF Findable
        <5>2. SiteOf(b.scope) \in Sites BY <2>1, SiteOfType DEF Grant
        <5>3. NormSite(SiteOf(b.scope)) = Home BY <5>1, <5>2 DEF NormSite, Sites
        <5> QED BY <1>1, <3>1, <4>3, <5>3 DEF g
      <4> QED BY <4>2, <4>3 DEF KindooSites
    <3> QED BY <3>2, <3>3
  <2> QED BY <2>2, <2>4, <2>5
<1> DEFINE I == {i \in 1..n : Matches(st.dups[i], b.scope, site)}
           k == SelectInSeq(st.dups, LAMBDA d : Matches(d, b.scope, site))
<1>7. k = IF I # {} THEN Min(I) ELSE 0 BY DEF SelectInSeq
<1>8. I # {} => Min(I) \in I /\ \A i \in I : Min(I) <= i
  <2>1. I \subseteq Nat OBVIOUS
  <2> QED BY ONLY <2>1, LeastMember
<1>9. Matches(st, b.scope, site) <=> Matches(GrantAt(st, 0), b.scope, site)
  BY DEF Matches, GrantAt, Primary
<1>10. ResolveGrantSlot(st, b.scope, site) =
          IF Matches(st, b.scope, site) THEN 0 ELSE IF k > 0 THEN k ELSE Missing
  BY DEF ResolveGrantSlot
<1>11. 0 \in Places(st) /\ \A i \in 1..n : i \in Places(st) BY <1>0 DEF Places
<1> HIDE DEF k, b
<1>12. CASE Matches(st, b.scope, site)
  <2>1. f <= 0 BY <1>3, <1>6, <1>9, <1>11, <1>12
  <2>2. f = 0 BY <1>0, <1>4, <2>1 DEF Places
  <2> QED BY <1>3, <1>4, <1>10, <1>12, <2>2 DEF f, C, b
<1>13. CASE ~Matches(st, b.scope, site)
  <2>1. f # 0 BY <1>5, <1>9, <1>13 DEF b
  <2>2. f \in 1..n BY <1>0, <1>4, <2>1 DEF Places
  <2>3. f \in I BY <1>0, <1>5, <2>2 DEF b
  <2>4. k \in I /\ k <= f BY <1>7, <1>8, <2>3
  <2>5. k \in C BY <1>0, <1>6, <1>11, <2>4
  <2>6. f <= k BY <1>3, <2>5
  <2>7. k = f /\ k > 0
    <3> HIDE DEF I
    <3>1. k \in 1..n BY <2>4 DEF I
    <3> QED BY <1>0, <2>2, <2>4, <2>6, <3>1
  <2> QED BY <1>3, <1>4, <1>10, <1>13, <2>7 DEF f, C, b
<1> QED BY <1>12, <1>13

LEMMA SpeaksFor ==
    ASSUME NEW st \in Seat, NEW site, NEW f \in Places(st), f = Min(Contributors(st, site))
    PROVE  LET block == SeatBlock(st, site) g == GrantAt(st, f) IN
           /\ block.scope = g.scope /\ block.type = g.type /\ block.callings = g.callings
           /\ block.buildings = UNION {GrantAt(st, i).buildings : i \in Contributors(st, site)}
<1> DEFINE g == GrantAt(st, f)
           X == UNION {GrantAt(st, i).buildings : i \in Contributors(st, site)}
<1>1. g \in Grant BY SeatFacts
<1>2. SeatBlock(st, site) = [g EXCEPT !.buildings = X] BY DEF SeatBlock
<1> HIDE DEF g, X
<1> QED BY <1>1, <1>2 DEF Grant, g, X

\* A grant rewritten in place, still of the site, speaks for the seat as before.
LEMMA Rewritten ==
    ASSUME NEW st \in Seat, NEW site, NEW f \in Contributors(st, site), f = Min(Contributors(st, site)),
           NEW g \in Grant, GrantSite(g) = site
    PROVE  LET t == PatchGrant(st, f, g) block == SeatBlock(t, site) IN
           /\ Contributors(t, site) # {}
           /\ block.scope = g.scope /\ block.type = g.type /\ block.callings = g.callings
           /\ Contributors(st, site) = {f} => block.buildings = g.buildings
<1> DEFINE t == PatchGrant(st, f, g)
           C == Contributors(st, site)
<1>1. C = {i \in Places(st) : GrantSite(GrantAt(st, i)) = site} BY ContributorsIs
<1>2. f \in Places(st) BY <1>1
<1>3. /\ t \in Seat /\ Len(t.dups) = Len(st.dups)
      /\ \A j \in Places(st) : GrantAt(t, j) = IF j = f THEN g ELSE GrantAt(st, j)
  BY <1>2, Patched
<1> HIDE DEF t
<1>4. Places(t) = Places(st) BY <1>3 DEF Places
<1>5. Contributors(t, site) = {i \in Places(t) : GrantSite(GrantAt(t, i)) = site} BY <1>3, ContributorsIs
<1>6. Contributors(t, site) = C
  <2>1. ASSUME NEW i \in Places(st) PROVE GrantSite(GrantAt(t, i)) = site <=> GrantSite(GrantAt(st, i)) = site
    BY <1>1, <1>3
  <2> HIDE DEF C
  <2> QED BY <1>1, <1>4, <1>5, <2>1
<1>7. GrantAt(t, f) = g BY <1>2, <1>3
<1>8. LET block == SeatBlock(t, site) IN
      /\ block.scope = g.scope /\ block.type = g.type /\ block.callings = g.callings
      /\ block.buildings = UNION {GrantAt(t, i).buildings : i \in C}
  BY <1>2, <1>3, <1>4, <1>6, <1>7, SpeaksFor
<1>9. ASSUME C = {f} PROVE UNION {GrantAt(t, i).buildings : i \in C} = g.buildings
  <2>1. {GrantAt(t, i).buildings : i \in C} = {g.buildings} BY <1>7, <1>9
  <2> QED BY <2>1
<1> QED BY <1>6, <1>8, <1>9 DEF t

\* What the detector found when it reports a row that can be fixed.
RowSays(st, user, site, row) ==
    LET block == SeatBlock(st, site)
        p == PickSegmentForSite(user, site) IN
    /\ row.site = site
    /\ row.code = "kindoo-only" =>
          Contributors(st, site) = {} /\ row.newScope \in Units /\ SiteOf(row.newScope) = site
    /\ row.code # "kindoo-only" => Contributors(st, site) # {} /\ row.scope = block.scope
    /\ row.code = "callings-mismatch" => row.callings = p.callings /\ block.callings # p.callings
    /\ row.code = "scope-mismatch" =>
          row.newScope = p.scope /\ block.scope # p.scope /\ SiteOf(p.scope) = site
    /\ row.code = "type-mismatch" => row.type # block.type
    /\ row.code = "kindoo-unparseable" =>
          /\ site = Home /\ row.callings = {user.text}
          /\ block.scope # Stake \/ block.callings # {user.text}
    /\ row.code = "buildings-mismatch" =>
          row.buildings = DerivedBuildings(user, site) /\ block.buildings # row.buildings

LEMMA DetectSays ==
    ASSUME NEW st, NEW user \in KindooUser \cup {NoUser}, NEW site \in KindooSites, NEW doorsRead \in BOOLEAN,
           Fixable(Detect(st, user, site, doorsRead)), Detect(st, user, site, doorsRead).code \in Codes
    PROVE  RowSays(st, user, site, Detect(st, user, site, doorsRead))
<1> DEFINE block == SeatBlock(st, site)
           p == PickSegmentForSite(user, site)
           seated == Contributors(st, site) # {}
           row == Detect(st, user, site, doorsRead)
<1>0. ~Fixable(NoRow) /\ ~Fixable(Review(site)) BY DEF Fixable, Review
<1>1. OnSite(user, site)
  <2> SUFFICES ASSUME ~OnSite(user, site) PROVE FALSE OBVIOUS
  <2>1. row = OrphanFix(block, site) \/ row = NoRow BY DEF Detect
  <2>2. OrphanFix(block, site).code = "sba-only" BY DEF OrphanFix, Row
  <2>3. row.code \in Codes /\ Fixable(row) OBVIOUS
  <2> HIDE DEF row
  <2> QED BY <1>0, <2>1, <2>2, <2>3 DEF Codes
<1>2. user \in KindooUser BY <1>1 DEF OnSite
<1>3. p # NoSegment => p.scope \in Units /\ SiteOf(p.scope) = site BY <1>2, PrimaryIs
<1>4. p = NoSegment => site = Home /\ Unparseable(user) BY <1>1 DEF OnSite
<1>5. row = IF user.role = "installer" THEN NoRow
            ELSE IF ~seated THEN KindooOnlyRow(st, user, site, doorsRead)
            ELSE IF user.role = "admin" /\ block.type = "manual" THEN PromoteFix(block, NoSegment, site)
            ELSE IF p = NoSegment THEN NoSegmentRow(block, user, site)
            ELSE MismatchRow(block, user, p, site, doorsRead)
  BY <1>1 DEF Detect
<1>6. Fixable(row) OBVIOUS
<1> HIDE DEF row
<1>7. user.role # "installer" BY <1>0, <1>5, <1>6
<1>8. CASE ~seated
  <2> DEFINE type == CreatedType(user, site, doorsRead)
  <2>1. row = KindooOnlyRow(st, user, site, doorsRead) BY <1>5, <1>7, <1>8
  <2>2. row = KindooOnlyFix(user, site, type, doorsRead) BY <1>0, <1>6, <2>1 DEF KindooOnlyRow
  <2>3. row.code = "kindoo-only" /\ row.site = site /\ row.newScope = IF p = NoSegment THEN Stake ELSE p.scope
    BY <2>2 DEF KindooOnlyFix, Row
  <2>4. Stake \in Units /\ SiteOf(Stake) = Home BY DEF Units, SiteOf
  <2> HIDE DEF p, block
  <2>5. row.newScope \in Units /\ SiteOf(row.newScope) = site BY <1>3, <1>4, <2>3, <2>4
  <2> QED BY <1>8, <2>3, <2>5 DEF RowSays, row
<1>9. CASE seated /\ user.role = "admin" /\ block.type = "manual"
  <2>1. row = PromoteFix(block, NoSegment, site) BY <1>5, <1>7, <1>9
  <2>2. row.code = "type-mismatch" /\ row.site = site /\ row.scope = block.scope /\ row.type = "auto"
    BY <2>1 DEF PromoteFix, Row
  <2> QED BY <1>9, <2>2 DEF RowSays, row
<1>10. CASE seated /\ ~(user.role = "admin" /\ block.type = "manual") /\ p = NoSegment
  <2>1. row = NoSegmentRow(block, user, site) BY <1>5, <1>7, <1>10
  <2>2. row = UnparseableFix(block, user, site) /\ ~(block.scope = Stake /\ block.callings = {user.text})
    BY <1>0, <1>6, <2>1 DEF NoSegmentRow
  <2>3. row.code = "kindoo-unparseable" /\ row.site = site /\ row.scope = block.scope
        /\ row.callings = {user.text}
    BY <2>2 DEF UnparseableFix, Row
  <2> QED BY <1>4, <1>10, <2>2, <2>3 DEF RowSays, row
<1>11. CASE seated /\ ~(user.role = "admin" /\ block.type = "manual") /\ p # NoSegment
  <2> DEFINE derived == DerivedBuildings(user, site)
  <2>1. row = MismatchRow(block, user, p, site, doorsRead) BY <1>5, <1>7, <1>11
  <2>2. \/ row = ScopeFix(block, p, site) /\ p.scope # block.scope
        \/ row = PromoteFix(block, p, site) /\ block.type = "manual"
        \/ row = DemoteFix(block, site) /\ block.type = "auto"
        \/ row = BuildingsFix(block, derived, site) /\ derived # block.buildings
        \/ row = CallingsFix(block, p, site) /\ p.callings # block.callings
    BY <1>0, <1>6, <2>1 DEF MismatchRow
  <2> HIDE DEF block, p, derived
  <2>3. CASE row = ScopeFix(block, p, site) /\ p.scope # block.scope
    <3>1. row.code = "scope-mismatch" /\ row.site = site /\ row.scope = block.scope /\ row.newScope = p.scope
      BY <2>3 DEF ScopeFix, Row
    <3> QED BY <1>3, <1>11, <2>3, <3>1 DEF RowSays, row, block, p
  <2>4. CASE row = PromoteFix(block, p, site) /\ block.type = "manual"
    <3>1. row.code = "type-mismatch" /\ row.site = site /\ row.scope = block.scope /\ row.type = "auto"
      BY <2>4 DEF PromoteFix, Row
    <3> QED BY <1>11, <2>4, <3>1 DEF RowSays, row, block
  <2>5. CASE row = DemoteFix(block, site) /\ block.type = "auto"
    <3>1. row.code = "type-mismatch" /\ row.site = site /\ row.scope = block.scope /\ row.type = "manual"
      BY <2>5 DEF DemoteFix, Row
    <3> QED BY <1>11, <2>5, <3>1 DEF RowSays, row, block
  <2>6. CASE row = BuildingsFix(block, derived, site) /\ derived # block.buildings
    <3>1. row.code = "buildings-mismatch" /\ row.site = site /\ row.scope = block.scope /\ row.buildings = derived
      BY <2>6 DEF BuildingsFix, Row
    <3> QED BY <1>11, <2>6, <3>1 DEF RowSays, row, block, derived
  <2>7. CASE row = CallingsFix(block, p, site) /\ p.callings # block.callings
    <3>1. row.code = "callings-mismatch" /\ row.site = site /\ row.scope = block.scope /\ row.callings = p.callings
      BY <2>7 DEF CallingsFix, Row
    <3> QED BY <1>11, <2>7, <3>1 DEF RowSays, row, block, p
  <2> QED BY <2>2, <2>3, <2>4, <2>5, <2>6, <2>7
<1> QED BY <1>8, <1>9, <1>10, <1>11

\* A new grant is on the site it was read from.
LEMMA NewGrantLands ==
    ASSUME NEW st \in Seat \cup {NoSeat}, NEW acc \in Access, NEW row, Fixable(row), RowOK(row),
           row.code = "kindoo-only", NEW site \in KindooSites, SiteOf(row.newScope) = site,
           ApplyFix(st, acc, row).ok
    PROVE  Contributors(ApplyFix(st, acc, row).seat, site) # {}
<1> DEFINE unit == row.newScope
           t == ApplyFix(st, acc, row).seat
<1>0. /\ \A s, a : Done(s, a).seat = s
      /\ site # Unset /\ site \in Sites /\ Home # Unset
  BY ScopesAssumption DEF Done, Home, Unset, KindooSites, Sites
<1>1. NewGrantOK(row) BY UnitsAre DEF RowOK, NewGrantOK
<1>2. t \in Seat
  <2>1. Fixed(st, acc, row, ApplyFix(st, acc, row)) BY FixWritten DEF Codes
  <2> QED BY <2>1 DEF Fixed
<1> SUFFICES \E j \in Places(t) : GrantSite(GrantAt(t, j)) = site
  BY <1>2, ContributorsIs DEF t
<1>3. CASE st = NoSeat
  <2> DEFINE stamp == IF site = Home THEN Unset ELSE site
             g == NewGrant(row, stamp)
  <2>1. t = SeatOf(g, <<>>) BY <1>0, <1>3 DEF ApplyFix, ApplyKindooOnly, CreateSeat
  <2>2. stamp \in Sites BY <1>0 DEF Sites
  <2>3. g \in Grant /\ g.scope = unit /\ g.site = stamp BY <1>1, <2>2, NewGrantType DEF NewGrant
  <2>4. GrantSite(g) = site BY <1>0, <2>3 DEF GrantSite, NormSite
  <2> HIDE DEF g, t
  <2>5. <<>> \in Seq(Grant) BY EmptySeq
  <2>6. Primary(t) = g BY <2>1, <2>3, <2>5, SeatOfIs
  <2>7. 0 \in Places(t) /\ GrantAt(t, 0) = g BY <1>2, <2>6, SeatFacts DEF Places
  <2> QED BY <2>4, <2>7
<1>4. CASE st # NoSeat
  <2> DEFINE k == SlotAt(st, unit, row.type)
             h == GrantAt(st, k)
             stamp == IF site = Unset THEN h.site ELSE IF site = Home THEN NoStamp(k) ELSE site
             g == [h EXCEPT !.buildings = h.buildings \cup row.buildings, !.site = stamp]
  <2>1. ApplyFix(st, acc, row) = MergeKindooOnly(st, acc, row, site)
    BY <1>4 DEF ApplyFix, ApplyKindooOnly, Refused
  <2>2. CASE k = Missing
    <3> DEFINE e == NewGrant(row, site)
    <3>1. t = WithDups(st, Append(st.dups, e)) BY <1>0, <2>1, <2>2 DEF MergeKindooOnly
    <3>2. e \in Grant /\ e.site = site BY <1>0, <1>1, NewGrantType DEF NewGrant
    <3> HIDE DEF e, t
    <3>3. Len(t.dups) = Len(st.dups) + 1 /\ GrantAt(t, Len(st.dups) + 1) = e BY <1>4, <3>1, <3>2, Appended
    <3>4. Len(st.dups) + 1 \in Places(t) BY <1>4, <3>3, SeatFacts DEF Places
    <3>5. GrantSite(e) = site BY <1>0, <3>2 DEF GrantSite
    <3> QED BY <3>3, <3>4, <3>5
  <2>3. CASE k # Missing
    <3>1. MergeKindooOnly(st, acc, row, site) = Done(PatchGrant(st, k, g), acc)
      BY <1>4, <2>1, <2>3 DEF MergeKindooOnly, Refused
    <3>2. t = PatchGrant(st, k, g) BY <1>0, <2>1, <3>1
    <3>3. k \in Places(st) /\ h.scope = unit BY <1>4, <2>3, SlotAtIs
    <3> HIDE DEF k, t
    <3>4. h \in Grant BY <1>4, <3>3, SeatFacts
    <3> HIDE DEF h
    <3>5. stamp \in Sites /\ (stamp = site \/ (site = Home /\ stamp = Unset))
      BY <1>0 DEF NoStamp, Sites
    <3> HIDE DEF stamp
    <3>6. g \in Grant /\ g.scope = unit /\ g.site = stamp BY <1>1, <3>3, <3>4, <3>5 DEF Grant, NewGrantOK
    <3> HIDE DEF g
    <3>7. GrantSite(g) = site BY <1>0, <3>5, <3>6 DEF GrantSite, NormSite
    <3>8. Len(t.dups) = Len(st.dups) /\ GrantAt(t, k) = g BY <1>4, <3>2, <3>3, <3>6, Patched
    <3>9. k \in Places(t) BY <3>3, <3>8 DEF Places
    <3> QED BY <3>7, <3>8, <3>9
  <2> QED BY <2>2, <2>3
<1> QED BY <1>3, <1>4

\* The fix of a row that is still true heals it.
LEMMA Heals ==
    ASSUME NEW st, SeatTyped(st), Findable(st), NEW acc \in Access, NEW site \in KindooSites,
           NEW user \in KindooUser \cup {NoUser}, NEW before \in BOOLEAN, NEW after \in BOOLEAN,
           NEW row, row = Detect(st, user, site, before), Fixable(row), RowOK(row), row.code \in Codes,
           row.code = "buildings-mismatch" => Cardinality(Contributors(st, site)) = 1,
           ApplyFix(st, acc, row).ok
    PROVE  Detect(ApplyFix(st, acc, row).seat, user, site, after) # row
<1> DEFINE t == ApplyFix(st, acc, row).seat
           p == PickSegmentForSite(user, site)
           C == Contributors(st, site)
           f == Min(C)
           block == SeatBlock(t, site)
<1>1. RowSays(st, user, site, row) BY DetectSays
<1> SUFFICES ASSUME Detect(t, user, site, after) = row PROVE FALSE OBVIOUS
<1>2. RowSays(t, user, site, row) BY DetectSays
<1>3. st \in Seat \cup {NoSeat} BY DEF SeatTyped
<1>4. CASE row.code = "kindoo-only"
  <2>1. SiteOf(row.newScope) = site BY <1>1, <1>4 DEF RowSays
  <2>2. Contributors(t, site) # {} BY <1>3, <1>4, <2>1, NewGrantLands
  <2> QED BY <1>2, <1>4, <2>2 DEF RowSays
<1>5. CASE row.code # "kindoo-only"
  <2>1. C # {} /\ row.scope = SeatBlock(st, site).scope /\ row.site = site BY <1>1, <1>5 DEF RowSays
  <2>2. st # NoSeat /\ st \in Seat BY <1>3, <2>1 DEF Contributors
  <2> DEFINE h == GrantAt(st, f)
  <2>3. /\ f \in Places(st) /\ GrantSite(h) = site
        /\ ResolveGrantSlot(st, h.scope, site) = f
    BY <2>1, <2>2, BlockFound
  <2>4. f \in C BY <2>2, <2>3, ContributorsIs
  <2>5. row.scope = h.scope BY <2>1, <2>2, <2>3, SpeaksFor
  <2>6. ResolveGrantSlot(st, row.scope, row.site) = f BY <2>1, <2>3, <2>5
  <2>7. PICK g \in Grant : t = PatchGrant(st, f, g) /\ Writes(row, h, g) BY <1>5, <2>2, <2>6, FixWrites
  <2> HIDE DEF f, t, h, C, p
  <2>8. GrantSite(g) = site
    <3>1. CASE row.code = "scope-mismatch" BY <1>1, <2>7, <3>1 DEF Writes, RowSays
    <3>2. CASE row.code = "kindoo-unparseable"
      <4>1. site = Home /\ g.scope = Stake /\ GrantSite(g) = SiteOf(g.scope)
        BY <1>1, <2>7, <3>2 DEF Writes, RowSays
      <4> QED BY <4>1 DEF SiteOf
    <3>3. CASE row.code \notin {"scope-mismatch", "kindoo-unparseable"}
      <4>1. g.scope = h.scope /\ g.site = h.site BY <2>7, <3>3 DEF Writes
      <4> QED BY <2>3, <4>1 DEF GrantSite
    <3> QED BY <3>1, <3>2, <3>3
  <2>9. /\ block.scope = g.scope /\ block.type = g.type /\ block.callings = g.callings
        /\ C = {f} => block.buildings = g.buildings
    BY <2>2, <2>4, <2>7, <2>8, Rewritten DEF f, C
  <2>10. row.code = "buildings-mismatch" => C = {f}
    <3> SUFFICES ASSUME Cardinality(C) = 1 PROVE C = {f} BY DEF C
    <3>1. IsFiniteSet(C)
      <4>1. Len(st.dups) \in Nat BY <2>2, SeatFacts
      <4>2. IsFiniteSet(0..Len(st.dups)) BY <4>1, FS_Interval
      <4>3. C \subseteq 0..Len(st.dups) BY <2>2, ContributorsIs DEF C, Places
      <4> QED BY <4>2, <4>3, FS_Subset
    <3>2. \E x : C = {x} BY <3>1, FS_Singleton
    <3> QED BY <2>4, <3>2
  <2> HIDE DEF block
  <2>11. /\ row.code = "callings-mismatch" => block.callings # p.callings /\ row.callings = p.callings
         /\ row.code = "scope-mismatch" => block.scope # p.scope /\ row.newScope = p.scope
         /\ row.code = "type-mismatch" => row.type # block.type
         /\ row.code = "kindoo-unparseable" =>
               row.callings = {user.text} /\ (block.scope # Stake \/ block.callings # {user.text})
         /\ row.code = "buildings-mismatch" => block.buildings # row.buildings
    BY <1>2 DEF RowSays, block, p
  <2> QED BY <1>5, <2>7, <2>9, <2>10, <2>11 DEF Writes, Codes
<1> QED BY <1>4, <1>5

\* The fix of a row that is still true takes the row from the next report of the
\* site (detector.ts, syncApplyFix.ts), whatever the other panels, Kindoo and the
\* requests do before: where the stamps of the seats a run starts from tell which
\* grant a row means, the transaction finds the one the detector surfaced.
THEOREM FixesHealTheirRows ==
    ASSUME \A st \in InitSeats : Findable(st)
    PROVE  Spec => FixHeals
<1> DEFINE Healed(site) ==
          /\ Fix(site)
          /\ Fresh(site)
          /\ rows[site].code = "buildings-mismatch" => Cardinality(Contributors(seat, site)) = 1
          => \A doorsRead \in BOOLEAN : Detect(seat', kindoo[site], site, doorsRead) # rows[site]
<1>1. Init => Findable(seat) BY DEF Init
<1>2. FixesInv /\ Findable(seat) /\ [Next]_vars => Findable(seat)' BY AnyKin, StaysFindable
<1>3. ASSUME FixesInv, Findable(seat), NEW site \in KindooSites PROVE Healed(site)
  <2> SUFFICES ASSUME Fix(site), Fresh(site),
                      rows[site].code = "buildings-mismatch" => Cardinality(Contributors(seat, site)) = 1,
                      NEW doorsRead \in BOOLEAN
               PROVE  Detect(seat', kindoo[site], site, doorsRead) # rows[site]
    OBVIOUS
  <2> DEFINE row == rows[site]
             result == ApplyFix(seat, access, row)
  <2>1. Fixable(row) /\ row.code \in Codes /\ result.ok /\ seat' = result.seat
    BY DEF Fix, Shows, Codes
  <2>2. RowOK(row) /\ SeatTyped(seat) /\ access \in Access BY <1>3 DEF FixesInv, Sendable
  <2>3. kindoo[site] \in KindooUser \cup {NoUser}
    <3>1. kindoo[site] \in KindooUsers[site] BY <1>3 DEF FixesInv
    <3> QED BY <3>1, FixesAssumption
  <2>4. PICK before \in BOOLEAN : row = Detect(seat, kindoo[site], site, before) BY DEF Fresh
  <2> HIDE DEF row, result
  <2>5. row.code = "buildings-mismatch" => Cardinality(Contributors(seat, site)) = 1 BY DEF row
  <2>6. Detect(result.seat, kindoo[site], site, doorsRead) # row
    BY <1>3, <2>1, <2>2, <2>3, <2>4, <2>5, Heals DEF result
  <2> QED BY <2>1, <2>6 DEF row
<1>4. FixesInv /\ Findable(seat) /\ [Next]_vars => [\A site \in KindooSites : Healed(site)]_vars BY <1>3
<1> QED BY <1>1, <1>2, <1>4, FixesStayTyped, PTL DEF Spec, FixHeals
=============================================================================
