------------------------- MODULE StakeSetup_proofs -------------------------
(***************************************************************************)
(* Nobody loses a stake, for any number of tabs, stakes, moves and misses: *)
(* the admin of a new stake holds its manager claim when the setup ends,   *)
(* and a link that a tab honoured stays honoured.                          *)
(***************************************************************************)
EXTENDS StakeSetup, FiniteSetTheorems, WellFoundedInduction, TLAPS

-----------------------------------------------------------------------------
(* The invariant.                                                          *)

Place == Stakes \cup {None}

RefsType == [stripped : Place, used : Place, persisted : Place]
SaidType == [to : Claims, slot : Place, bad : {"url", "session", "local", "none"}, stake : Place]

TabType ==
    [user : BOOLEAN, in : BOOLEAN, read : BOOLEAN, token : Claims, bar : Place, slot : Place,
     consumed : BOOLEAN, session : Place, mark : Place, refs : RefsType, said : SaidType,
     shown : Place, page : Place, due : BOOLEAN]

ClickType == [stake : Place, step : {"idle", "wait", "flip"}]

\* Someone with a role beside the new stakes keeps one as long as the session
\* lasts; someone without has nothing but the new stakes.
HasRole == claims.super \/ ~(claims.manager \subseteq New)

TokenFits(role, b) ==
    IF role THEN b.user => b.token.super \/ b.token.manager # {}
    ELSE ~b.token.super /\ Access(b.token) \subseteq New

\* The stake of a link is in the slot, or, once the link was used, in the
\* tab's session with its provenance mark.
Held(b, s) == b.session = s /\ b.mark = s /\ b.in /\ b.read

LinkKept(role, b, s) ==
    /\ s # None
    /\ b.slot \in {s, None}
    /\ role /\ (b.slot = None \/ b.consumed) => Held(b, s)

\* A choice made by a link, which neither a reload nor a sign-out ended.
Stands(c) == c.by = "link" /\ c.left = {}
Rests(b, s) == b.in /\ b.read /\ ~b.due /\ (b.token.super \/ s \in Access(b.token))

\* A tab at rest shows what its slot holds, if its person may have that, and
\* what a link chose; an effect that used a link persisted it as well.
Fine(role, b, c) ==
    /\ b.bar \in {None, b.slot}
    /\ role => b.refs.used = b.refs.persisted
    /\ b.slot # None /\ Rests(b, b.slot) => b.shown = b.slot /\ b.page = b.slot
    /\ Stands(c) => /\ LinkKept(role, b, c.stake)
                    /\ Rests(b, c.stake) => b.shown = c.stake /\ b.page = c.stake

Session(b) == (b.in => b.user) /\ (b.read => b.in)
Sound(role, b, c) == Session(b) /\ TokenFits(role, b) /\ Fine(role, b, c)

Browser ==
    /\ claims \in Claims /\ claims.boot \subseteq New
    /\ local \in Place /\ moves \in 0..MaxMoves
    /\ tab \in [Tabs -> TabType] /\ choice \in [Tabs -> ChoiceSet]
    /\ \A t \in Tabs : Sound(HasRole, tab[t], choice[t])

\* A manager claim rests on a manager document, which no step deletes; so a
\* click that saw the claim still has it when it flips.
Wizards ==
    /\ complete \subseteq exists /\ exists \subseteq Stakes /\ admins \subseteq exists
    /\ filled \in [Stakes -> SUBSET Steps]
    /\ events \subseteq Events /\ tried \subseteq Tabs /\ misses \in 0..MaxMisses
    /\ click \in [Tabs -> ClickType]
    /\ claims.manager \subseteq admins
    /\ \A t \in Tabs : /\ click[t].stake = None <=> click[t].step = "idle"
                       /\ click[t].stake # None => click[t].stake \in New \cap exists
                       /\ click[t].step = "flip" => click[t].stake \in claims.manager
    /\ AdminNotStranded

IInv == Browser /\ Wizards

-----------------------------------------------------------------------------
(* Resolution.                                                             *)

\* A set of naturals that is not empty has a least member.
LEMMA LeastMember == ASSUME NEW I, I \subseteq Nat, I # {}
  PROVE Min(I) \in I /\ \A i \in I : Min(I) <= i
<1> DEFINE R == OpToRel(<, Nat)
<1>1. \E x \in I : \A y \in I : ~(<<y, x>> \in R)
  BY NatLessThanWellFounded, WFMin
<1>2. ASSUME NEW x \in Nat, NEW y \in Nat, y < x PROVE <<y, x>> \in R
  <2>1. <<y, x>>[1] < <<y, x>>[2] BY <1>2
  <2> QED BY <2>1, Zenon DEF OpToRel
<1> HIDE DEF R
<1>3. PICK x \in I : \A y \in I : ~(<<y, x>> \in R) BY <1>1
<1>4. ASSUME NEW y \in I PROVE x <= y
  <2>1. x \in Nat /\ y \in Nat OBVIOUS
  <2>2. ~(y < x) BY <1>2, <1>3, <2>1
  <2> QED BY <2>1, <2>2
<1> QED BY <1>4 DEF Min

LEMMA NoStake == None \notin Stakes /\ Stakes \subseteq Nat
BY ActiveStakeAssumption DEF None

LEMMA FirstIs ==
    ASSUME NEW S \in SUBSET Stakes
    PROVE  First(S) \in Place /\ (S # {} => First(S) \in S)
<1>1. S # {} => Min(S) \in S BY NoStake, LeastMember
<1> QED BY <1>1 DEF First, Place

LEMMA PrincipalType == ASSUME NEW b \in TabType PROVE Principal(b) \in Claims
BY DEF Principal, TabType, Nobody, Claims

LEMMA DerivedIs ==
    ASSUME NEW p \in Claims
    PROVE  /\ PrincipalDerived(p) \in Place
           /\ Access(p) # {} /\ ~p.super => PrincipalDerived(p) \in Access(p)
<1>1. p.manager \in SUBSET Stakes /\ p.boot \in SUBSET Stakes BY DEF Claims
<1>2. /\ First(p.manager) \in Place /\ (p.manager # {} => First(p.manager) \in p.manager)
      /\ First(p.boot) \in Place /\ (p.boot # {} => First(p.boot) \in p.boot)
  BY <1>1, FirstIs
<1> QED BY <1>2 DEF PrincipalDerived, Access

\* May the link, or the stored choice, win with the roles the tab sees?
LinkOpen(b) == Settling(b) \/ Principal(b).super \/ b.slot \in Access(Principal(b))
StoreOpen(b) ==
    \/ b.session \in Access(Principal(b))
    \/ Principal(b).super /\ b.mark # None /\ b.session = b.mark

ResolutionType ==
    [stake : Place, tier : {"url", "session", "local", "principal", "none"},
     bad : {"url", "session", "local", "none"}]

\* The link wins where it may, then the session; without roles beside one stake
\* nothing else is honoured.
LEMMA ResolutionIs ==
    ASSUME NEW b \in TabType, NEW loc \in Place
    PROVE  /\ Resolution(b, loc) \in ResolutionType
           /\ Resolution(b, loc).tier = "url" =>
                b.slot # None /\ LinkOpen(b) /\ Resolution(b, loc).stake = b.slot
           /\ b.slot # None /\ LinkOpen(b) =>
                Resolution(b, loc).stake = b.slot /\ Resolution(b, loc).bad = "none"
           /\ b.slot = None /\ b.session # None /\ StoreOpen(b) =>
                Resolution(b, loc).stake = b.session /\ Resolution(b, loc).bad = "none"
           /\ \A n : Access(Principal(b)) = {n} /\ ~Principal(b).super /\ b.slot \in {n, None} =>
                Resolution(b, loc).stake = n
<1> DEFINE p == Principal(b)
           candidate == Settling(b)
           stored == candidate /\ p.boot = {}
           linked == p.super /\ b.mark # None /\ b.session = b.mark
           value == [url |-> b.slot, session |-> b.session, local |-> loc]
           open == [url |-> candidate \/ p.super, session |-> stored \/ linked, local |-> stored]
           order == <<"url", "session", "local">>
           given == {i \in 1..3 : value[order[i]] # None}
           honoured == {i \in given : open[order[i]] \/ value[order[i]] \in Access(p)}
           derived == PrincipalDerived(p)
           bad == IF given # {} /\ Min(given) \notin honoured THEN order[Min(given)] ELSE "none"
           r == Resolution(b, loc)
<1>1. r = IF honoured # {}
          THEN [stake |-> value[order[Min(honoured)]], tier |-> order[Min(honoured)], bad |-> bad]
          ELSE [stake |-> derived, tier |-> IF derived = None THEN "none" ELSE "principal", bad |-> bad]
  BY DEF Resolution
<1>2. /\ order[1] = "url" /\ order[2] = "session" /\ order[3] = "local"
      /\ value[order[1]] = b.slot /\ value[order[2]] = b.session /\ value[order[3]] = loc
      /\ open[order[1]] = (candidate \/ p.super) /\ open[order[2]] = (stored \/ linked)
      /\ open[order[3]] = stored
  OBVIOUS
<1>3. given \subseteq 1..3 /\ honoured \subseteq given OBVIOUS
<1>4. /\ given # {} => Min(given) \in given /\ \A i \in given : Min(given) <= i
      /\ honoured # {} => Min(honoured) \in honoured /\ \A i \in honoured : Min(honoured) <= i
  BY <1>3, LeastMember
<1>5. 1 \in given <=> b.slot # None BY <1>2
<1>6. 2 \in given <=> b.session # None BY <1>2
<1>7. 1 \in honoured <=> b.slot # None /\ LinkOpen(b) BY <1>2, <1>5 DEF LinkOpen
<1>8. b.session # None /\ StoreOpen(b) => 2 \in honoured BY <1>2, <1>6 DEF StoreOpen
<1>9. derived \in Place BY PrincipalType, DerivedIs
<1>10. \A i \in 1..3 : value[order[i]] \in Place /\ order[i] \in {"url", "session", "local"}
  BY <1>2 DEF TabType
<1>11. \A i \in honoured : i = 1 \/ value[order[i]] \in Access(p) \/ stored \/ linked
  <2> SUFFICES ASSUME NEW i \in honoured, i # 1 PROVE value[order[i]] \in Access(p) \/ stored \/ linked
    OBVIOUS
  <2>1. i \in 1..3 /\ (open[order[i]] \/ value[order[i]] \in Access(p)) OBVIOUS
  <2> HIDE DEF value, open, order, given, honoured
  <2>2. i = 2 \/ i = 3 BY <2>1
  <2>3. open[order[i]] => stored \/ linked BY <1>2, <2>2
  <2> QED BY <2>1, <2>3
<1>12. p \in Claims BY PrincipalType
<1> HIDE DEF value, open, order, given, honoured, derived, r, p, stored, linked
<1>13. r \in ResolutionType
  <2>1. bad \in {"url", "session", "local", "none"} BY <1>3, <1>4, <1>10
  <2> HIDE DEF bad
  <2>2. CASE honoured # {}
    <3>1. Min(honoured) \in 1..3 BY <1>3, <1>4, <2>2
    <3> QED BY <1>1, <1>10, <2>1, <2>2, <3>1 DEF ResolutionType
  <2>3. CASE honoured = {} BY <1>1, <1>9, <2>1, <2>3 DEF ResolutionType
  <2> QED BY <2>2, <2>3
<1>14. ASSUME r.tier = "url" PROVE b.slot # None /\ LinkOpen(b) /\ r.stake = b.slot
  <2>1. honoured # {} BY <1>1, <1>14
  <2>2. order[Min(honoured)] = "url" /\ Min(honoured) \in 1..3 BY <1>1, <1>3, <1>4, <1>14, <2>1
  <2>3. Min(honoured) = 1 BY <1>2, <2>2
  <2> QED BY <1>1, <1>2, <1>4, <1>7, <2>1, <2>3
<1>15. ASSUME b.slot # None, LinkOpen(b) PROVE r.stake = b.slot /\ r.bad = "none"
  <2>1. 1 \in honoured /\ 1 \in given BY <1>5, <1>7, <1>15
  <2>2. Min(honoured) = 1 /\ Min(given) = 1
    <3>1. Min(honoured) \in 1..3 /\ Min(given) \in 1..3 BY <1>3, <1>4, <2>1
    <3>2. Min(honoured) <= 1 /\ Min(given) <= 1 BY <1>4, <2>1
    <3> QED BY <3>1, <3>2
  <2> QED BY <1>1, <1>2, <2>1, <2>2
<1>16. ASSUME b.slot = None, b.session # None, StoreOpen(b) PROVE r.stake = b.session /\ r.bad = "none"
  <2>1. 2 \in honoured /\ 2 \in given /\ 1 \notin given BY <1>5, <1>6, <1>8, <1>16
  <2>2. Min(honoured) = 2 /\ Min(given) = 2
    <3>1. Min(honoured) \in 1..3 /\ Min(given) \in 1..3 BY <1>3, <1>4, <2>1
    <3>2. Min(honoured) <= 2 /\ Min(given) <= 2 BY <1>4, <2>1
    <3>3. Min(honoured) # 1 /\ Min(given) # 1 BY <1>3, <1>4, <2>1
    <3> QED BY <3>1, <3>2, <3>3
  <2> QED BY <1>1, <1>2, <2>1, <2>2
<1>17. ASSUME NEW n, Access(p) = {n}, ~p.super, b.slot \in {n, None} PROVE r.stake = n
  <2>1. ~stored
    <3>1. candidate => p.manager = {} BY DEF Settling, p
    <3> QED BY <1>17, <3>1 DEF stored, Access
  <2>2. ~linked BY <1>17 DEF linked
  <2>3. CASE honoured # {}
    <3>1. Min(honoured) \in honoured BY <1>4, <2>3
    <3>2. value[order[Min(honoured)]] = n BY <1>2, <1>7, <1>11, <1>17, <2>1, <2>2, <3>1
    <3> QED BY <1>1, <2>3, <3>2
  <2>4. CASE honoured = {}
    <3>1. derived = n BY <1>12, <1>17, DerivedIs DEF derived
    <3> QED BY <1>1, <2>4, <3>1
  <2> QED BY <2>3, <2>4
<1> QED BY <1>13, <1>14, <1>15, <1>16, <1>17 DEF r, p

-----------------------------------------------------------------------------
(* The effects of a render.                                                *)

\* Whose roles are not all of new stakes waits for nothing but its token.
LEMMA RoleSettles ==
    ASSUME NEW b \in TabType, b.in => b.user, TokenFits(TRUE, b), Settling(b)
    PROVE  Principal(b) = Nobody
<1>1. ~b.read => Principal(b) = Nobody BY DEF Principal
<1>2. b.read => FALSE BY DEF Settling, Principal, TokenFits
<1> QED BY <1>1, <1>2

\* A link that may be had wins, in the slot or held.
LEMMA Resolves ==
    ASSUME NEW role \in BOOLEAN, NEW b \in TabType, NEW loc \in Place, NEW s,
           \A x, y \in New : x = y, TokenFits(role, b), b.in, b.read,
           b.token.super \/ s \in Access(b.token), LinkKept(role, b, s)
    PROVE  Resolution(b, loc).stake = s /\ (role => Resolution(b, loc).bad = "none")
<1>1. Principal(b) = b.token BY DEF Principal
<1>2. CASE role
  <2>1. CASE b.slot = s
    <3>1. b.slot # None /\ LinkOpen(b) BY <1>1, <2>1 DEF LinkOpen, LinkKept
    <3> QED BY <2>1, <3>1, ResolutionIs
  <2>2. CASE b.slot = None
    <3>1. b.session # None /\ StoreOpen(b) /\ b.session = s
      BY <1>1, <1>2, <2>2 DEF LinkKept, Held, StoreOpen
    <3> QED BY <2>2, <3>1, ResolutionIs
  <2> QED BY <2>1, <2>2 DEF LinkKept
<1>3. CASE ~role
  <2>1. ~b.token.super /\ Access(b.token) = {s} BY <1>3 DEF TokenFits
  <2>2. Access(Principal(b)) = {s} /\ ~Principal(b).super /\ b.slot \in {s, None}
    BY <1>1, <2>1 DEF LinkKept
  <2> QED BY <1>3, <2>2, ResolutionIs
<1> QED BY <1>2, <1>3

LEMMA EffectType ==
    ASSUME NEW b \in TabType, NEW r \in ResolutionType
    PROVE  LET e == Effect(b, r) IN
           /\ e \in TabType
           /\ e.user = b.user /\ e.in = b.in /\ e.read = b.read /\ e.token = b.token
           /\ e.slot = b.slot /\ e.shown = b.shown /\ e.page = b.page /\ e.due = b.due
           /\ e.bar \in {None, b.bar}
           /\ e.consumed = (b.consumed \/ Uses(b, r))
           /\ e.session = IF Persists(b, r) \/ Overwrites(b, r) THEN r.stake ELSE b.session
           /\ e.mark = IF Persists(b, r) THEN r.stake ELSE b.mark
           /\ e.refs.used = IF Uses(b, r) THEN r.stake ELSE b.refs.used
           /\ e.refs.persisted = IF Persists(b, r) THEN r.stake ELSE b.refs.persisted
<1>1. Nobody \in Claims BY DEF Nobody, Claims
<1>2. Saying(b, r) \in SaidType
  BY <1>1, PrincipalType DEF Saying, NothingSaid, SaidType, TabType, ResolutionType, Place
<1>3. Uses(b, r) \in BOOLEAN /\ None \in Place BY DEF Uses, Acts, Place
<1>4. b.refs \in RefsType /\ r.stake \in Place /\ b.slot \in Place BY DEF TabType, ResolutionType
<1>5. [stripped |-> IF Strips(b) THEN b.slot ELSE b.refs.stripped,
       used |-> IF Uses(b, r) THEN r.stake ELSE b.refs.used,
       persisted |-> IF Persists(b, r) THEN r.stake ELSE b.refs.persisted] \in RefsType
  BY <1>4 DEF RefsType
<1> QED BY <1>2, <1>3, <1>4, <1>5 DEF Effect, TabType

LEMMA LocalType ==
    ASSUME NEW b \in TabType, NEW r \in ResolutionType, local \in Place
    PROVE  LocalAfter(b, r) \in Place
BY DEF LocalAfter, ResolutionType

\* What an effect does with a link.
LEMMA EffectKeeps ==
    ASSUME NEW role \in BOOLEAN, NEW b \in TabType, NEW loc \in Place, NEW r, r = Resolution(b, loc),
           \A x, y \in New : x = y, TokenFits(role, b), b.in => b.user,
           role => b.refs.used = b.refs.persisted
    PROVE  /\ role => (Uses(b, r) <=> Persists(b, r))
           /\ Persists(b, r) => b.slot # None /\ r.stake = b.slot /\ (role => b.in /\ b.read)
           /\ b.slot # None /\ b.in /\ b.read /\ (b.token.super \/ b.slot \in Access(b.token)) =>
                r.stake = b.slot
           /\ \A s : LinkKept(role, b, s) /\ b.in /\ b.read /\ (b.token.super \/ s \in Access(b.token)) =>
                r.stake = s /\ (role => ~Overwrites(b, r))
<1>1. /\ r \in ResolutionType
      /\ r.tier = "url" => b.slot # None /\ LinkOpen(b) /\ r.stake = b.slot
  BY ResolutionIs
<1>2. ASSUME role, Settling(b) PROVE Principal(b).boot = {}
  <2>1. TokenFits(TRUE, b) BY <1>2 DEF TokenFits
  <2>2. Principal(b) = Nobody BY <1>2, <2>1, RoleSettles
  <2> QED BY <2>2 DEF Nobody
<1>3. role => (Uses(b, r) <=> Persists(b, r))
  BY <1>2 DEF Uses, Acts, Persists
<1>4. ASSUME Persists(b, r) PROVE b.slot # None /\ r.stake = b.slot /\ (role => b.in /\ b.read)
  <2>1. ~Settling(b) /\ LinkOpen(b) BY <1>1, <1>4 DEF Persists
  <2>2. Principal(b) # Nobody BY <2>1 DEF LinkOpen, Nobody, Access
  <2> QED BY <1>1, <1>4, <2>2 DEF Persists, Principal
<1>5. ASSUME b.slot # None, b.in, b.read, b.token.super \/ b.slot \in Access(b.token)
      PROVE  r.stake = b.slot
  <2>1. LinkOpen(b) BY <1>5 DEF LinkOpen, Principal
  <2> QED BY <1>5, <2>1, ResolutionIs
<1>6. ASSUME NEW s, LinkKept(role, b, s), b.in, b.read, b.token.super \/ s \in Access(b.token)
      PROVE  r.stake = s /\ (role => ~Overwrites(b, r))
  BY <1>6, Resolves DEF Overwrites
<1> QED BY <1>3, <1>4, <1>5, <1>6

-----------------------------------------------------------------------------
(* One tab's steps.                                                        *)

\* A tab after a render of all that is mounted, or of a component that mounts.
Committed(b, r) == [Effect(b, r) EXCEPT !.shown = r.stake, !.page = r.stake, !.due = Persists(b, r)]
Anew(a) == [a EXCEPT !.refs = Fresh]
Mounted(b, b1, r) ==
    [Effect([b1 EXCEPT !.slot = b.slot], r) EXCEPT
        !.slot = b1.slot, !.page = r.stake, !.due = b1.slot # b.slot \/ Persists(b, r)]

LEMMA CommitFine ==
    ASSUME NEW role \in BOOLEAN, NEW b \in TabType, NEW c, NEW loc \in Place, NEW r, r = Resolution(b, loc),
           \A x, y \in New : x = y, TokenFits(role, b), b.in => b.user, Fine(role, b, c),
           NEW f, f = Committed(b, r),
           NEW d, Persists(b, r) => d = [stake |-> r.stake, by |-> "link", left |-> {}],
           ~Persists(b, r) => d = c \/ d = NoChoice,
           ~Persists(b, r) /\ d = c /\ d # NoChoice /\ b.in /\ b.read =>
             b.token.super \/ c.stake \in Access(b.token)
    PROVE  /\ f \in TabType /\ f.user = b.user /\ f.in = b.in /\ f.read = b.read /\ f.token = b.token
           /\ Fine(role, f, d)
<1> DEFINE May(s) == b.token.super \/ s \in Access(b.token)
<1>1. r \in ResolutionType BY ResolutionIs
<1>2. /\ f \in TabType /\ f.user = b.user /\ f.in = b.in /\ f.read = b.read /\ f.token = b.token /\ f.slot = b.slot
      /\ f.bar \in {None, b.bar}
      /\ f.consumed = (b.consumed \/ Uses(b, r))
      /\ f.session = IF Persists(b, r) \/ Overwrites(b, r) THEN r.stake ELSE b.session
      /\ f.mark = IF Persists(b, r) THEN r.stake ELSE b.mark
      /\ f.refs.used = IF Uses(b, r) THEN r.stake ELSE b.refs.used
      /\ f.refs.persisted = IF Persists(b, r) THEN r.stake ELSE b.refs.persisted
      /\ f.shown = r.stake /\ f.page = r.stake /\ f.due = Persists(b, r)
  <2>1. Effect(b, r) \in TabType BY <1>1, EffectType
  <2>2. r.stake \in Place /\ Persists(b, r) \in BOOLEAN BY <1>1 DEF ResolutionType, Persists
  <2> QED BY <1>1, <2>1, <2>2, EffectType DEF TabType, Committed
<1>3. /\ role => (Uses(b, r) <=> Persists(b, r))
      /\ Persists(b, r) => b.slot # None /\ r.stake = b.slot /\ (role => b.in /\ b.read)
      /\ b.slot # None /\ b.in /\ b.read /\ May(b.slot) => r.stake = b.slot
      /\ \A s : LinkKept(role, b, s) /\ b.in /\ b.read /\ May(s) =>
           r.stake = s /\ (role => ~Overwrites(b, r))
  BY EffectKeeps DEF Fine
<1>4. f.bar \in {None, f.slot} BY <1>2 DEF Fine
<1>5. role => f.refs.used = f.refs.persisted BY <1>2, <1>3 DEF Fine
<1>6. f.slot # None /\ Rests(f, f.slot) => f.shown = f.slot /\ f.page = f.slot
  BY <1>2, <1>3 DEF Rests
<1>7. CASE Persists(b, r)
  <2>1. d.stake = r.stake /\ LinkKept(role, f, d.stake)
    BY <1>2, <1>3, <1>7 DEF LinkKept, Held
  <2>2. ~Rests(f, d.stake) BY <1>2, <1>7 DEF Rests
  <2>3. Fine(role, f, d) BY <1>4, <1>5, <1>6, <2>1, <2>2 DEF Fine
  <2> QED BY <1>2, <2>3
<1>8. CASE ~Persists(b, r) /\ Stands(d)
  <2>1. d = c /\ d # NoChoice BY <1>8 DEF Stands, NoChoice
  <2>2. LinkKept(role, b, c.stake) BY <1>8, <2>1 DEF Fine
  <2>3. LinkKept(role, f, c.stake)
    <3>1. c.stake # None /\ f.slot \in {c.stake, None} BY <1>2, <2>2 DEF LinkKept
    <3>2. ASSUME role, f.slot = None \/ f.consumed PROVE Held(f, c.stake)
      <4>1. Held(b, c.stake) BY <1>2, <1>3, <1>8, <2>2, <3>2 DEF LinkKept
      <4>2. ~Overwrites(b, r) BY <1>3, <1>8, <2>1, <2>2, <3>2, <4>1 DEF Held
      <4> QED BY <1>2, <1>8, <4>1, <4>2 DEF Held
    <3> QED BY <3>1, <3>2 DEF LinkKept
  <2>4. Rests(f, c.stake) => r.stake = c.stake BY <1>2, <1>3, <2>2 DEF Rests
  <2>5. Fine(role, f, d) BY <1>2, <1>4, <1>5, <1>6, <2>1, <2>3, <2>4 DEF Fine
  <2> QED BY <1>2, <2>5
<1>9. CASE ~Stands(d)
  <2>1. Fine(role, f, d) BY <1>4, <1>5, <1>6, <1>9 DEF Fine
  <2> QED BY <1>2, <2>1
<1> QED BY <1>7, <1>8, <1>9

\* A link of the address bar is the one in the slot.
LEMMA RefreshedIs ==
    ASSUME NEW b \in TabType, b.bar \in {None, b.slot}
    PROVE  Refreshed(b) =
             [b EXCEPT !.bar = None, !.slot = IF b.bar = None /\ b.consumed THEN None ELSE b.slot]
<1>1. CASE b.bar = None BY <1>1 DEF Refreshed, TabType
<1>2. CASE b.bar # None BY <1>2 DEF Refreshed, TabType
<1> QED BY <1>1, <1>2

LEMMA MountFine ==
    ASSUME NEW role \in BOOLEAN, NEW a \in TabType, ~a.due, NEW b, b = Anew(a),
           NEW c, NEW loc \in Place, NEW r, r = Resolution(b, loc), NEW b1, b1 = Refreshed(b),
           \A x, y \in New : x = y, TokenFits(role, a), a.in => a.user, Fine(role, a, c),
           NEW f, f = Mounted(b, b1, r),
           NEW d, Persists(b, r) => d = [stake |-> r.stake, by |-> "link", left |-> {}],
           ~Persists(b, r) => d = c \/ d = NoChoice,
           ~Persists(b, r) /\ d = c /\ d # NoChoice /\ b.in /\ b.read =>
             b.token.super \/ c.stake \in Access(b.token)
    PROVE  f \in TabType /\ f.user = a.user /\ f.in = a.in /\ f.read = a.read /\ f.token = a.token
           /\ Fine(role, f, d)
<1> DEFINE May(s) == b.token.super \/ s \in Access(b.token)
           g == [b1 EXCEPT !.slot = b.slot]
           e == Effect(g, r)
<1>1. b \in TabType /\ b.refs = Fresh /\ Fresh.used = Fresh.persisted
  BY DEF Anew, TabType, Fresh, RefsType, Place
<1>2. /\ b.user = a.user /\ b.in = a.in /\ b.read = a.read /\ b.token = a.token /\ b.due = a.due
      /\ b.bar = a.bar /\ b.slot = a.slot /\ b.consumed = a.consumed /\ b.session = a.session
      /\ b.mark = a.mark /\ b.shown = a.shown /\ b.page = a.page
  BY DEF Anew, TabType
<1>3. b1 = [b EXCEPT !.bar = None, !.slot = IF b.bar = None /\ b.consumed THEN None ELSE b.slot]
  BY <1>1, <1>2, RefreshedIs DEF Fine
<1>4. b1.slot \in {None, b.slot} /\ (b1.slot # b.slot => b.consumed) BY <1>1, <1>3 DEF TabType
<1>5. g = [b EXCEPT !.bar = None] BY <1>1, <1>3 DEF TabType
<1>6. g \in TabType BY <1>1, <1>5 DEF TabType, Place
<1>7. r \in ResolutionType BY <1>1, ResolutionIs
<1>8. /\ Uses(g, r) = Uses(b, r) /\ Persists(g, r) = Persists(b, r) /\ Overwrites(g, r) = Overwrites(b, r)
  <2>1. /\ g.slot = b.slot /\ g.refs = b.refs /\ g.said = b.said /\ Principal(g) = Principal(b) /\ g.in = b.in
    BY <1>1, <1>5 DEF TabType, Principal
  <2> HIDE DEF g
  <2> QED BY <2>1 DEF Uses, Acts, Persists, Overwrites, Settling, Saying
<1>9. /\ e \in TabType
      /\ e.user = b.user /\ e.in = b.in /\ e.read = b.read /\ e.token = b.token
      /\ e.shown = b.shown /\ e.bar = None
      /\ e.consumed = (b.consumed \/ Uses(b, r))
      /\ e.session = IF Persists(b, r) \/ Overwrites(b, r) THEN r.stake ELSE b.session
      /\ e.mark = IF Persists(b, r) THEN r.stake ELSE b.mark
      /\ e.refs.used = IF Uses(b, r) THEN r.stake ELSE b.refs.used
      /\ e.refs.persisted = IF Persists(b, r) THEN r.stake ELSE b.refs.persisted
  <2>1. /\ g.user = b.user /\ g.in = b.in /\ g.read = b.read /\ g.token = b.token /\ g.shown = b.shown
        /\ g.bar = None /\ g.consumed = b.consumed /\ g.session = b.session /\ g.mark = b.mark
        /\ g.refs = b.refs
    BY <1>1, <1>5 DEF TabType
  <2> HIDE DEF g
  <2> QED BY <1>6, <1>7, <1>8, <2>1, EffectType
<1> HIDE DEF e
<1>10. /\ f \in TabType
       /\ f.user = b.user /\ f.in = b.in /\ f.read = b.read /\ f.token = b.token
       /\ f.shown = b.shown /\ f.bar = None /\ f.slot = b1.slot /\ f.page = r.stake
       /\ f.due = (b1.slot # b.slot \/ Persists(b, r))
       /\ f.consumed = e.consumed /\ f.session = e.session /\ f.mark = e.mark /\ f.refs = e.refs
  <2>1. f = [e EXCEPT !.slot = b1.slot, !.page = r.stake, !.due = b1.slot # b.slot \/ Persists(b, r)]
    BY DEF e, Mounted
  <2>2. b1.slot \in Place BY <1>1, <1>4 DEF TabType, Place
  <2>3. Persists(b, r) \in BOOLEAN BY DEF Persists
  <2>4. r.stake \in Place BY <1>7 DEF ResolutionType
  <2> HIDE DEF e
  <2> QED BY <1>9, <2>1, <2>2, <2>3, <2>4 DEF TabType
<1>11. /\ role => (Uses(b, r) <=> Persists(b, r))
       /\ Persists(b, r) => b.slot # None /\ r.stake = b.slot /\ (role => b.in /\ b.read)
       /\ b.slot # None /\ b.in /\ b.read /\ May(b.slot) => r.stake = b.slot
       /\ \A s : LinkKept(role, b, s) /\ b.in /\ b.read /\ May(s) =>
            r.stake = s /\ (role => ~Overwrites(b, r))
  <2>1. TokenFits(role, b) BY <1>2 DEF TokenFits
  <2>2. b.in => b.user BY <1>2
  <2>3. role => b.refs.used = b.refs.persisted BY <1>1
  <2>4. b \in TabType BY <1>1
  <2> QED BY ONLY <2>1, <2>2, <2>3, <2>4, EffectKeeps, role \in BOOLEAN, loc \in Place, r = Resolution(b, loc),
                  \A x, y \in New : x = y
<1>12. f.bar \in {None, f.slot} BY <1>10
<1>13. role => f.refs.used = f.refs.persisted BY <1>1, <1>9, <1>10, <1>11
<1>14. ASSUME f.slot # None, Rests(f, f.slot) PROVE f.shown = f.slot /\ f.page = f.slot
  <2>1. ~f.due BY <1>14 DEF Rests
  <2>2. f.slot = b.slot BY <1>10, <2>1
  <2>3. Rests(a, a.slot) BY <1>2, <1>10, <1>14, <2>2 DEF Rests
  <2>4. a.shown = a.slot BY <1>2, <1>14, <2>2, <2>3 DEF Fine
  <2>5. r.stake = b.slot BY <1>2, <1>11, <1>14, <2>2, <2>3 DEF Rests
  <2> QED BY <1>2, <1>10, <2>2, <2>4, <2>5
<1>15. CASE Persists(b, r)
  <2>1. d.stake = r.stake /\ LinkKept(role, f, d.stake)
    BY <1>4, <1>9, <1>10, <1>11, <1>15 DEF LinkKept, Held
  <2>2. ~Rests(f, d.stake) BY <1>10, <1>15 DEF Rests
  <2>3. Fine(role, f, d) BY <1>12, <1>13, <1>14, <2>1, <2>2 DEF Fine
  <2> QED BY <1>2, <1>10, <2>3
<1>16. CASE ~Persists(b, r) /\ Stands(d)
  <2>1. d = c /\ d # NoChoice BY <1>16 DEF Stands, NoChoice
  <2>2. LinkKept(role, b, c.stake) BY <1>2, <1>16, <2>1 DEF Fine, LinkKept, Held
  <2>3. LinkKept(role, f, c.stake)
    <3>1. c.stake # None /\ f.slot \in {c.stake, None} BY <1>4, <1>10, <2>2 DEF LinkKept
    <3>2. ASSUME role, f.slot = None \/ f.consumed PROVE Held(f, c.stake)
      <4>1. b.slot = None \/ b.consumed BY <1>4, <1>9, <1>10, <1>11, <1>16, <3>2
      <4>2. Held(b, c.stake) BY <2>2, <3>2, <4>1 DEF LinkKept
      <4>3. ~Overwrites(b, r) BY <1>11, <1>16, <2>1, <2>2, <3>2, <4>2 DEF Held
      <4> QED BY <1>9, <1>10, <1>16, <4>2, <4>3 DEF Held
    <3> QED BY <3>1, <3>2 DEF LinkKept
  <2>4. ASSUME Rests(f, c.stake) PROVE f.shown = c.stake /\ f.page = c.stake
    <3>1. Rests(a, c.stake) BY <1>2, <1>10, <2>4 DEF Rests
    <3>2. a.shown = c.stake BY <1>16, <2>1, <3>1 DEF Fine
    <3>3. r.stake = c.stake BY <1>2, <1>11, <2>2, <3>1 DEF Rests
    <3> QED BY <1>2, <1>10, <3>2, <3>3
  <2>5. Fine(role, f, d) BY <1>12, <1>13, <1>14, <2>1, <2>3, <2>4 DEF Fine
  <2> QED BY <1>2, <1>10, <2>5
<1>17. CASE ~Stands(d)
  <2>1. Fine(role, f, d) BY <1>12, <1>13, <1>14, <1>17 DEF Fine
  <2> QED BY <1>2, <1>10, <2>1
<1> QED BY <1>15, <1>16, <1>17

-----------------------------------------------------------------------------
(* The other steps of a tab.                                               *)

LEMMA StartTypes ==
    /\ None \in Place /\ Fresh \in RefsType /\ NothingSaid \in SaidType
    /\ Nobody \in Claims /\ NoChoice \in ChoiceSet
<1>1. Nobody \in Claims BY DEF Nobody, Claims
<1> QED BY <1>1 DEF Place, Fresh, RefsType, NothingSaid, SaidType, NoChoice, ChoiceSet

\* What a token or a session brings asks for a render, or changes nothing.
LEMMA Turns ==
    ASSUME NEW role \in BOOLEAN, NEW b \in TabType, NEW c, Fine(role, b, c),
           NEW f \in TabType,
           f.bar = b.bar, f.slot = b.slot, f.consumed = b.consumed, f.session = b.session,
           f.mark = b.mark, f.refs = b.refs, f.shown = b.shown, f.page = b.page,
           b.in /\ b.read => f.in /\ f.read,
           f.due \/ (f.in = b.in /\ f.read = b.read /\ f.token = b.token /\ f.due = b.due)
    PROVE  Fine(role, f, c)
<1>1. \A s : Rests(f, s) => Rests(b, s) BY DEF Rests
<1>2. \A s : LinkKept(role, b, s) => LinkKept(role, f, s) BY DEF LinkKept, Held
<1> QED BY <1>1, <1>2 DEF Fine

\* A choice that no link made, or that was left, needs no more than a render.
LEMMA Turned ==
    ASSUME NEW role \in BOOLEAN, NEW b, NEW c, b.due, ~Stands(c), b.bar \in {None, b.slot},
           role => b.refs.used = b.refs.persisted
    PROVE  Fine(role, b, c)
BY DEF Fine, Rests

\* A tab after a link, or a bare address.
Asking(b, a) == [a EXCEPT !.due = @ \/ a.slot # b.slot]
Linked(b, s) == Asking(b, Refreshed([b EXCEPT !.bar = s]))

LEMMA FollowFine ==
    ASSUME NEW role \in BOOLEAN, NEW b \in TabType, ~b.due, NEW c, Fine(role, b, c), NEW s \in Stakes,
           NEW f, f = Linked(b, s),
           NEW d, d = IF Repeats(b, s) THEN c ELSE [stake |-> s, by |-> "link", left |-> {}]
    PROVE  /\ f \in TabType /\ f.user = b.user /\ f.in = b.in /\ f.read = b.read /\ f.token = b.token
           /\ Fine(role, f, d)
<1>1. s # None /\ s \in Place BY NoStake DEF Place
<1>2. CASE s = b.slot
  <2>1. f = [b EXCEPT !.bar = None] BY <1>1, <1>2 DEF Linked, Asking, Refreshed, TabType
  <2>2. f \in TabType BY <2>1, StartTypes DEF TabType
  <2>3. /\ f.user = b.user /\ f.in = b.in /\ f.read = b.read /\ f.token = b.token /\ f.slot = b.slot
        /\ f.consumed = b.consumed /\ f.session = b.session /\ f.mark = b.mark /\ f.refs = b.refs
        /\ f.shown = b.shown /\ f.page = b.page /\ f.due = b.due /\ f.bar = None
    BY <2>1 DEF TabType
  <2>4. \A x : Rests(f, x) <=> Rests(b, x) BY <2>3 DEF Rests
  <2>5. CASE Repeats(b, s)
    <3>1. d = c BY <2>5
    <3>2. \A x : LinkKept(role, b, x) => LinkKept(role, f, x) BY <2>3 DEF LinkKept, Held
    <3>3. Fine(role, f, d) BY <2>3, <2>4, <3>1, <3>2 DEF Fine
    <3> QED BY <2>2, <2>3, <3>3
  <2>6. CASE ~Repeats(b, s)
    <3>1. d.stake = s /\ ~b.consumed BY <1>2, <2>6 DEF Repeats
    <3>2. LinkKept(role, f, s) BY <1>1, <1>2, <2>3, <3>1 DEF LinkKept
    <3>3. Fine(role, f, d) BY <1>1, <1>2, <2>3, <2>4, <3>1, <3>2 DEF Fine
    <3> QED BY <2>2, <2>3, <3>3
  <2> QED BY <2>5, <2>6
<1>3. CASE s # b.slot
  <2>1. f = [b EXCEPT !.bar = s, !.slot = s, !.consumed = FALSE, !.due = TRUE]
    BY <1>1, <1>3 DEF Linked, Asking, Refreshed, TabType
  <2>2. f \in TabType BY <1>1, <2>1 DEF TabType
  <2>3. /\ f.user = b.user /\ f.in = b.in /\ f.read = b.read /\ f.token = b.token
        /\ f.slot = s /\ f.bar = s /\ f.consumed = FALSE /\ f.refs = b.refs /\ f.due = TRUE
    BY <2>1 DEF TabType
  <2>4. d.stake = s BY <1>3 DEF Repeats
  <2>5. LinkKept(role, f, s) BY <1>1, <2>3 DEF LinkKept
  <2>6. Fine(role, f, d) BY <2>3, <2>4, <2>5 DEF Fine, Rests
  <2> QED BY <2>2, <2>3, <2>6
<1> QED BY <1>2, <1>3

LEMMA NavigateFine ==
    ASSUME NEW role \in BOOLEAN, NEW b \in TabType, ~b.due, NEW c, Fine(role, b, c),
           NEW f, f = Linked(b, None)
    PROVE  /\ f \in TabType /\ f.user = b.user /\ f.in = b.in /\ f.read = b.read /\ f.token = b.token
           /\ Fine(role, f, c)
<1> DEFINE a == Refreshed([b EXCEPT !.bar = None])
<1>1. a = [b EXCEPT !.bar = None, !.slot = IF b.consumed THEN None ELSE @]
  BY DEF Refreshed, TabType
<1>2. a \in TabType BY <1>1, StartTypes DEF TabType
<1>3. f \in TabType /\ f = [a EXCEPT !.due = @ \/ a.slot # b.slot]
  BY <1>2 DEF TabType, Linked, Asking
<1>4. /\ f.user = b.user /\ f.in = b.in /\ f.read = b.read /\ f.token = b.token
      /\ f.consumed = b.consumed /\ f.session = b.session /\ f.mark = b.mark /\ f.refs = b.refs
      /\ f.shown = b.shown /\ f.page = b.page /\ f.bar = None
      /\ f.slot = (IF b.consumed THEN None ELSE b.slot) /\ (~f.due => f.slot = b.slot)
  BY <1>1, <1>2, <1>3 DEF TabType
<1>5. \A x : Rests(f, x) => Rests(b, x) /\ f.slot = b.slot BY <1>4 DEF Rests
<1>6. \A x : LinkKept(role, b, x) => LinkKept(role, f, x) BY <1>4 DEF LinkKept, Held
<1> QED BY <1>3, <1>4, <1>5, <1>6 DEF Fine

-----------------------------------------------------------------------------
(* Every step keeps the tabs as they must be.                              *)

LEMMA RoleIsBoolean == Browser => HasRole \in BOOLEAN
BY DEF Browser, Claims, HasRole

\* A step of one tab, which leaves the claims alone.
LEMMA OneTab ==
    ASSUME Browser, NEW t \in Tabs, NEW f \in TabType, tab' = [tab EXCEPT ![t] = f],
           NEW d \in ChoiceSet, choice' = [choice EXCEPT ![t] = d], Sound(HasRole, f, d),
           claims' = claims, local' \in Place, moves' \in 0..MaxMoves
    PROVE  Browser'
<1>1. HasRole' = HasRole BY DEF HasRole
<1>2. tab' \in [Tabs -> TabType] /\ choice' \in [Tabs -> ChoiceSet] BY DEF Browser
<1>3. ASSUME NEW x \in Tabs PROVE Sound(HasRole, tab'[x], choice'[x])
  <2>1. CASE x = t BY <2>1 DEF Browser
  <2>2. CASE x # t
    <3>1. tab'[x] = tab[x] /\ choice'[x] = choice[x] BY <2>2 DEF Browser
    <3> QED BY <3>1 DEF Browser
  <2> QED BY <2>1, <2>2
<1> QED BY <1>1, <1>2, <1>3 DEF Browser

\* A step that changes no choice and no bound.
LEMMA OneTabAlone ==
    ASSUME Browser, NEW t \in Tabs, NEW f \in TabType, tab' = [tab EXCEPT ![t] = f],
           Sound(HasRole, f, choice[t]), UNCHANGED <<claims, local, moves, choice>>
    PROVE  Browser'
<1>1. choice[t] \in ChoiceSet /\ choice' = [choice EXCEPT ![t] = choice[t]] BY DEF Browser
<1>2. local' \in Place /\ moves' \in 0..MaxMoves BY DEF Browser
<1> QED BY <1>1, <1>2, OneTab

LEMMA NoTab == Browser /\ UNCHANGED asVars => Browser'
<1> SUFFICES ASSUME Browser, UNCHANGED asVars PROVE Browser' OBVIOUS
<1>1. HasRole' = HasRole BY DEF asVars, HasRole
<1> QED BY <1>1 DEF Browser, asVars

\* What becomes of the choice, as the renders' lemmas need it.
LEMMA ChoiceIs ==
    ASSUME Browser, NEW t \in Tabs, NEW b, NEW r \in ResolutionType, NEW d, d = ChoiceAfter(t, b, r)
    PROVE  /\ d \in ChoiceSet
           /\ Persists(b, r) => d = [stake |-> r.stake, by |-> "link", left |-> {}]
           /\ ~Persists(b, r) => d = choice[t] \/ d = NoChoice
           /\ ~Persists(b, r) /\ d = choice[t] /\ d # NoChoice /\ b.in /\ b.read =>
                b.token.super \/ choice[t].stake \in Access(b.token)
<1>1. choice[t] \in ChoiceSet BY DEF Browser
<1>2. r.stake \in Place BY DEF ResolutionType
<1>3. [stake |-> r.stake, by |-> "link", left |-> {}] \in ChoiceSet BY <1>2 DEF ChoiceSet, Place
<1> QED BY <1>1, <1>3, StartTypes DEF ChoiceAfter

LEMMA Loaded_Browser ==
    ASSUME Browser, \A x, y \in New : x = y, NEW t \in Tabs, Commit(t) \/ Mount(t)
    PROVE  Browser'
<1> DEFINE a == tab[t]
<1>1. a \in TabType /\ local \in Place /\ Sound(HasRole, a, choice[t]) /\ HasRole \in BOOLEAN
  BY RoleIsBoolean DEF Browser
<1>2. CASE Commit(t)
  <2> DEFINE r == Resolution(a, local)
             f == Committed(a, r)
             d == ChoiceAfter(t, a, r)
  <2>1. tab' = [tab EXCEPT ![t] = f] /\ Renders(t, a, r) BY <1>2 DEF Commit, Committed
  <2>2. r \in ResolutionType BY <1>1, ResolutionIs
  <2>3. /\ d \in ChoiceSet
        /\ Persists(a, r) => d = [stake |-> r.stake, by |-> "link", left |-> {}]
        /\ ~Persists(a, r) => d = choice[t] \/ d = NoChoice
        /\ ~Persists(a, r) /\ d = choice[t] /\ d # NoChoice /\ a.in /\ a.read =>
             a.token.super \/ choice[t].stake \in Access(a.token)
    BY <2>2, ChoiceIs
  <2>4. /\ f \in TabType /\ f.user = a.user /\ f.in = a.in /\ f.read = a.read /\ f.token = a.token
        /\ Fine(HasRole, f, d)
    <3>1. TokenFits(HasRole, a) /\ (a.in => a.user) /\ Fine(HasRole, a, choice[t])
      BY <1>1 DEF Sound, Session
    <3>2. r = Resolution(a, local) /\ f = Committed(a, r) OBVIOUS
    <3> HIDE DEF a, r, f, d
    <3> QED BY <1>1, <2>3, <3>1, <3>2, CommitFine
  <2>5. Sound(HasRole, f, d) BY <1>1, <2>4 DEF Sound, Session, TokenFits
  <2>6. local' \in Place BY <1>1, <2>1, <2>2, LocalType DEF Renders
  <2>7. choice' = [choice EXCEPT ![t] = d] /\ UNCHANGED <<claims, moves>> BY <2>1 DEF Renders
  <2> HIDE DEF f, d, r, a
  <2> QED BY <2>1, <2>3, <2>4, <2>5, <2>6, <2>7, OneTab DEF Browser
<1>3. CASE Mount(t)
  <2> DEFINE b == Anew(a)
             r == Resolution(b, local)
             b1 == Refreshed(b)
             f == Mounted(b, b1, r)
             d == ChoiceAfter(t, b, r)
  <2>1. tab' = [tab EXCEPT ![t] = f] /\ Renders(t, b, r) /\ ~a.due BY <1>3 DEF Mount, Anew, Mounted
  <2>2. b \in TabType BY <1>1, StartTypes DEF TabType, Anew
  <2>3. r \in ResolutionType BY <1>1, <2>2, ResolutionIs
  <2>4. /\ d \in ChoiceSet
        /\ Persists(b, r) => d = [stake |-> r.stake, by |-> "link", left |-> {}]
        /\ ~Persists(b, r) => d = choice[t] \/ d = NoChoice
        /\ ~Persists(b, r) /\ d = choice[t] /\ d # NoChoice /\ b.in /\ b.read =>
             b.token.super \/ choice[t].stake \in Access(b.token)
    BY <2>3, ChoiceIs
  <2>5. /\ f \in TabType /\ f.user = a.user /\ f.in = a.in /\ f.read = a.read /\ f.token = a.token
        /\ Fine(HasRole, f, d)
    <3>1. TokenFits(HasRole, a) /\ (a.in => a.user) /\ Fine(HasRole, a, choice[t])
      BY <1>1 DEF Sound, Session
    <3>2. b = Anew(a) /\ r = Resolution(b, local) /\ b1 = Refreshed(b) /\ f = Mounted(b, b1, r) OBVIOUS
    <3> HIDE DEF a, b, b1, r, f, d
    <3> QED BY <1>1, <2>1, <2>4, <3>1, <3>2, MountFine
  <2>6. Sound(HasRole, f, d) BY <1>1, <2>5 DEF Sound, Session, TokenFits
  <2>7. local' \in Place BY <1>1, <2>1, <2>2, <2>3, LocalType DEF Renders
  <2>8. choice' = [choice EXCEPT ![t] = d] /\ UNCHANGED <<claims, moves>> BY <2>1 DEF Renders
  <2> HIDE DEF f, d, r, b, b1, a
  <2> QED BY <2>1, <2>4, <2>5, <2>6, <2>7, <2>8, OneTab DEF Browser
<1> QED BY <1>2, <1>3

\* The token the server holds fits the person, signed in or not.
LEMMA ClaimsFit ==
    ASSUME Browser, NEW b, b.token = claims
    PROVE  TokenFits(HasRole, b)
BY DEF TokenFits, HasRole, Browser, Access

LEMMA FreshToken_Browser ==
    ASSUME Browser, NEW t \in Tabs, tab[t].in, Put(t, WithFreshToken(tab[t])),
           UNCHANGED <<claims, local, moves, choice>>
    PROVE  Browser'
<1> DEFINE b == tab[t]
           f == WithFreshToken(b)
<1>1. b \in TabType /\ claims \in Claims /\ Sound(HasRole, b, choice[t]) /\ HasRole \in BOOLEAN
  BY RoleIsBoolean DEF Browser
<1>2. /\ f \in TabType /\ f.token = claims /\ f.read = TRUE
      /\ f.user = b.user /\ f.in = b.in /\ f.bar = b.bar /\ f.slot = b.slot /\ f.consumed = b.consumed
      /\ f.session = b.session /\ f.mark = b.mark /\ f.refs = b.refs
      /\ f.shown = b.shown /\ f.page = b.page
      /\ f.due = (b.due \/ b.token # claims \/ ~b.read)
  BY <1>1 DEF WithFreshToken, TabType
<1> HIDE DEF f
<1>3. Fine(HasRole, f, choice[t])
  <2>1. Fine(HasRole, b, choice[t]) BY <1>1 DEF Sound
  <2>2. f.due \/ (f.in = b.in /\ f.read = b.read /\ f.token = b.token /\ f.due = b.due)
    BY <1>1, <1>2 DEF TabType
  <2> HIDE DEF b
  <2> QED BY <1>1, <1>2, <2>1, <2>2, Turns
<1>4. Sound(HasRole, f, choice[t])
  BY <1>1, <1>2, <1>3, ClaimsFit DEF Sound, Session
<1> QED BY <1>2, <1>4, OneTabAlone DEF Put, f

LEMMA Restored_Browser ==
    ASSUME Browser, NEW t \in Tabs, Restore(t) \/ ReadClaims(t)
    PROVE  Browser'
<1> DEFINE b == tab[t]
<1>1. b \in TabType /\ Sound(HasRole, b, choice[t]) /\ HasRole \in BOOLEAN
  BY RoleIsBoolean DEF Browser
<1>2. PICK f \in TabType :
        /\ tab' = [tab EXCEPT ![t] = f]
        /\ f.user = b.user /\ f.token = b.token /\ f.bar = b.bar /\ f.slot = b.slot
        /\ f.consumed = b.consumed /\ f.session = b.session /\ f.mark = b.mark /\ f.refs = b.refs
        /\ f.shown = b.shown /\ f.page = b.page /\ f.due
        /\ Session(f) /\ (b.in /\ b.read => f.in /\ f.read)
  <2>1. CASE Restore(t)
    <3> DEFINE f == [b EXCEPT !.in = TRUE, !.due = TRUE]
    <3>1. f \in TabType BY <1>1 DEF TabType
    <3>2. tab' = [tab EXCEPT ![t] = f] /\ b.user BY <2>1 DEF Restore, Put
    <3>3. /\ f.user = b.user /\ f.token = b.token /\ f.bar = b.bar /\ f.slot = b.slot
          /\ f.consumed = b.consumed /\ f.session = b.session /\ f.mark = b.mark /\ f.refs = b.refs
          /\ f.shown = b.shown /\ f.page = b.page /\ f.due /\ f.in /\ f.read = b.read
      BY <1>1 DEF TabType
    <3>4. Session(f) BY <3>2, <3>3 DEF Session
    <3> HIDE DEF f
    <3> QED BY <3>1, <3>2, <3>3, <3>4
  <2>2. CASE ReadClaims(t)
    <3> DEFINE f == [b EXCEPT !.read = TRUE, !.due = TRUE]
    <3>1. f \in TabType BY <1>1 DEF TabType
    <3>2. tab' = [tab EXCEPT ![t] = f] /\ b.in BY <2>2 DEF ReadClaims, Put
    <3>3. /\ f.user = b.user /\ f.token = b.token /\ f.bar = b.bar /\ f.slot = b.slot
          /\ f.consumed = b.consumed /\ f.session = b.session /\ f.mark = b.mark /\ f.refs = b.refs
          /\ f.shown = b.shown /\ f.page = b.page /\ f.due /\ f.in = b.in /\ f.read
      BY <1>1 DEF TabType
    <3>4. Session(f) BY <1>1, <3>2, <3>3 DEF Session, Sound
    <3> HIDE DEF f
    <3> QED BY <3>1, <3>2, <3>3, <3>4
  <2> QED BY <2>1, <2>2
<1>3. Fine(HasRole, f, choice[t])
  <2>1. Fine(HasRole, b, choice[t]) BY <1>1 DEF Sound
  <2> HIDE DEF b
  <2> QED BY <1>1, <1>2, <2>1, Turns
<1>4. Sound(HasRole, f, choice[t]) BY <1>1, <1>2, <1>3 DEF Sound, TokenFits
<1>5. UNCHANGED <<claims, local, moves, choice>> BY DEF Restore, ReadClaims
<1> QED BY <1>2, <1>4, <1>5, OneTabAlone

LEMMA Refreshed_Browser == ASSUME Browser, NEW t \in Tabs, TokenRefresh(t) PROVE Browser'
BY FreshToken_Browser DEF TokenRefresh

LEMMA Followed_Browser ==
    ASSUME Browser, NEW t \in Tabs, NEW s \in Stakes, FollowLink(t, s) PROVE Browser'
<1> DEFINE b == tab[t]
           f == Linked(b, s)
           d == IF Repeats(b, s) THEN choice[t] ELSE [stake |-> s, by |-> "link", left |-> {}]
<1>1. b \in TabType /\ Sound(HasRole, b, choice[t]) /\ HasRole \in BOOLEAN /\ choice[t] \in ChoiceSet
  BY RoleIsBoolean DEF Browser
<1>2. tab' = [tab EXCEPT ![t] = f] /\ ~b.due /\ moves' \in 0..MaxMoves /\ UNCHANGED <<claims, local>>
  BY ActiveStakeAssumption DEF FollowLink, Moved, Put, Browser, Linked, Asking
<1>3. choice' = [choice EXCEPT ![t] = d] BY DEF FollowLink, Browser
<1>4. d \in ChoiceSet BY <1>1 DEF ChoiceSet
<1>5. /\ f \in TabType /\ f.user = b.user /\ f.in = b.in /\ f.read = b.read /\ f.token = b.token
      /\ Fine(HasRole, f, d)
  <2>1. Fine(HasRole, b, choice[t]) BY <1>1 DEF Sound
  <2> QED BY <1>1, <1>2, <2>1, FollowFine
<1>6. Sound(HasRole, f, d) BY <1>1, <1>5 DEF Sound, Session, TokenFits
<1> HIDE DEF f, d
<1> QED BY <1>2, <1>3, <1>4, <1>5, <1>6, OneTab DEF Browser

LEMMA Navigated_Browser == ASSUME Browser, NEW t \in Tabs, Navigate(t) PROVE Browser'
<1> DEFINE b == tab[t]
           f == Linked(b, None)
<1>1. b \in TabType /\ Sound(HasRole, b, choice[t]) /\ HasRole \in BOOLEAN
  BY RoleIsBoolean DEF Browser
<1>2. tab' = [tab EXCEPT ![t] = f] /\ ~b.due /\ UNCHANGED <<claims, local, moves, choice>>
  BY DEF Navigate, Moved, Put, Linked, Asking
<1>3. /\ f \in TabType /\ f.user = b.user /\ f.in = b.in /\ f.read = b.read /\ f.token = b.token
      /\ Fine(HasRole, f, choice[t])
  <2>1. Fine(HasRole, b, choice[t]) BY <1>1 DEF Sound
  <2> QED BY <1>1, <1>2, <2>1, NavigateFine
<1>4. Sound(HasRole, f, choice[t]) BY <1>1, <1>3 DEF Sound, Session, TokenFits
<1> HIDE DEF f
<1> QED BY <1>2, <1>3, <1>4, OneTabAlone

LEMMA Chosen_Browser ==
    ASSUME Browser, NEW t \in Tabs, Reload(t) \/ BackToStakes(t) \/ \E s \in Stakes : Switch(t, s)
    PROVE  Browser'
<1> DEFINE b == tab[t]
<1>1. b \in TabType /\ Sound(HasRole, b, choice[t]) /\ HasRole \in BOOLEAN /\ choice[t] \in ChoiceSet
  BY RoleIsBoolean DEF Browser
<1>2. b.bar \in {None, b.slot} /\ (HasRole => b.refs.used = b.refs.persisted) BY <1>1 DEF Sound, Fine
<1>3. PICK f \in TabType, d \in ChoiceSet :
        /\ tab' = [tab EXCEPT ![t] = f] /\ choice' = [choice EXCEPT ![t] = d]
        /\ Session(f) /\ f.user = b.user /\ f.token = b.token /\ f.due
        /\ f.bar \in {None, f.slot} /\ (HasRole => f.refs.used = f.refs.persisted) /\ ~Stands(d)
        /\ local' \in Place
  <2>1. CASE Reload(t)
    <3> DEFINE f == Loaded(b)
               d == [choice[t] EXCEPT !.left = @ \cup {"reload"}]
    <3>1. f \in TabType BY <1>1, StartTypes DEF Loaded, TabType
    <3>2. /\ ~f.in /\ ~f.read /\ f.user = b.user /\ f.token = b.token /\ f.due
          /\ f.bar = b.bar /\ f.slot = b.bar /\ f.refs = Fresh
      BY <1>1 DEF Loaded, TabType
    <3>3. d \in ChoiceSet /\ ~Stands(d) BY <1>1 DEF ChoiceSet, Stands
    <3>4. /\ tab' = [tab EXCEPT ![t] = f] /\ choice' = [choice EXCEPT ![t] = d] /\ local' \in Place
      BY <2>1 DEF Reload, Put, Browser
    <3>5. Session(f) /\ f.refs.used = f.refs.persisted BY <3>2 DEF Session, Fresh
    <3> HIDE DEF f, d
    <3> QED BY <3>1, <3>2, <3>3, <3>4, <3>5
  <2>2. CASE BackToStakes(t)
    <3> DEFINE others == Principal(b).manager \ {b.shown}
               a == Refreshed([Chosen(b, First(others)) EXCEPT !.bar = None])
               f == [a EXCEPT !.due = @ \/ a.slot # b.slot]
               d == [stake |-> First(others), by |-> "back", left |-> {}]
    <3>1. First(others) \in Place
      <4>1. Principal(b) \in Claims BY <1>1, PrincipalType
      <4>2. others \in SUBSET Stakes BY <4>1 DEF Claims
      <4> QED BY <4>2, FirstIs
    <3>2. d \in ChoiceSet /\ ~Stands(d) BY <3>1 DEF ChoiceSet, Place, Stands
    <3>3. /\ tab' = [tab EXCEPT ![t] = f] /\ choice' = [choice EXCEPT ![t] = d] /\ local' \in Place
      BY <2>2, <3>1 DEF BackToStakes, Moved, Put
    <3> DEFINE n == First(others)
    <3> HIDE DEF d, n
    <3>4. a = [b EXCEPT !.session = n, !.due = TRUE, !.bar = None,
                        !.slot = IF b.consumed THEN None ELSE @]
      BY <1>1, StartTypes DEF Refreshed, Chosen, TabType, n
    <3> HIDE DEF a
    <3>5. a \in TabType /\ a.due BY <1>1, <3>1, <3>4, StartTypes DEF TabType, n
    <3>6. f \in TabType /\ f.due BY <3>5 DEF TabType
    <3>7. /\ f.user = b.user /\ f.in = b.in /\ f.read = b.read /\ f.token = b.token
          /\ f.bar = None /\ f.refs = b.refs
      BY <1>1, <3>4, <3>5 DEF TabType
    <3> HIDE DEF f
    <3> QED BY <1>1, <1>2, <3>2, <3>3, <3>6, <3>7 DEF Session, Sound
  <2>3. CASE \E s \in Stakes : Switch(t, s)
    <3>1. PICK s \in Stakes : Switch(t, s) BY <2>3
    <3> DEFINE f == Chosen(b, s)
               d == [stake |-> s, by |-> "switch", left |-> {}]
    <3>2. f \in TabType BY <1>1 DEF Chosen, TabType, Place
    <3>3. /\ f.user = b.user /\ f.in = b.in /\ f.read = b.read /\ f.token = b.token /\ f.due
          /\ f.bar = b.bar /\ f.slot = b.slot /\ f.refs = b.refs
      BY <1>1 DEF Chosen, TabType
    <3>4. d \in ChoiceSet /\ ~Stands(d) BY DEF ChoiceSet, Stands
    <3>5. /\ tab' = [tab EXCEPT ![t] = f] /\ choice' = [choice EXCEPT ![t] = d] /\ local' \in Place
      BY <3>1 DEF Switch, Put, Place
    <3> HIDE DEF f, d
    <3> QED BY <1>1, <1>2, <3>2, <3>3, <3>4, <3>5 DEF Session, Sound
  <2> QED BY <2>1, <2>2, <2>3
<1>4. Fine(HasRole, f, d) BY <1>1, <1>3, Turned
<1>5. Sound(HasRole, f, d) BY <1>1, <1>3, <1>4 DEF Sound, TokenFits
<1>6. moves' \in 0..MaxMoves /\ claims' = claims
  BY ActiveStakeAssumption DEF Reload, BackToStakes, Switch, Browser
<1> QED BY <1>3, <1>5, <1>6, OneTab

LEMMA SignOut_Browser == ASSUME Browser, SignOut PROVE Browser'
<1>1. ASSUME NEW t \in Tabs
      PROVE  /\ tab'[t] \in TabType /\ choice'[t] \in ChoiceSet
             /\ Sound(HasRole, tab'[t], choice'[t])
  <2> DEFINE b == tab[t]
             f == [b EXCEPT !.user = FALSE, !.in = FALSE, !.read = FALSE, !.token = Nobody, !.due = TRUE]
             d == [choice[t] EXCEPT !.left = @ \cup {"signout"}]
  <2>1. b \in TabType /\ Sound(HasRole, b, choice[t]) /\ HasRole \in BOOLEAN /\ choice[t] \in ChoiceSet
    BY RoleIsBoolean DEF Browser
  <2>2. tab'[t] = f /\ choice'[t] = d BY DEF SignOut
  <2>3. f \in TabType BY <2>1, StartTypes DEF TabType
  <2>4. /\ ~f.user /\ ~f.in /\ ~f.read /\ f.token = Nobody /\ f.due
        /\ f.bar = b.bar /\ f.slot = b.slot /\ f.refs = b.refs
    BY <2>1 DEF TabType
  <2>5. d \in ChoiceSet /\ ~Stands(d) BY <2>1 DEF ChoiceSet, Stands
  <2> HIDE DEF f, d
  <2>6. f.bar \in {None, f.slot} /\ (HasRole => f.refs.used = f.refs.persisted)
    BY <2>1, <2>4 DEF Sound, Fine
  <2>7. Fine(HasRole, f, d) BY <2>1, <2>4, <2>5, <2>6, Turned
  <2>8. TokenFits(HasRole, f) BY <2>4 DEF TokenFits, Nobody, Access
  <2> QED BY <2>2, <2>3, <2>4, <2>5, <2>7, <2>8 DEF Sound, Session
<1>2. tab' \in [Tabs -> TabType] /\ choice' \in [Tabs -> ChoiceSet] BY <1>1 DEF SignOut
<1>3. HasRole' = HasRole BY DEF SignOut, HasRole
<1>4. /\ claims' = claims /\ local' = local /\ moves' \in 0..MaxMoves
  <2>1. claims' = claims /\ local' = local /\ moves < MaxMoves /\ moves' = moves + 1 BY DEF SignOut
  <2>2. moves \in 0..MaxMoves BY DEF Browser
  <2> QED BY <2>1, <2>2, ActiveStakeAssumption
<1> QED BY <1>1, <1>2, <1>3, <1>4 DEF Browser

LEMMA SignIn_Browser == ASSUME Browser, SignIn PROVE Browser'
<1>1. ASSUME NEW t \in Tabs
      PROVE  tab'[t] \in TabType /\ Sound(HasRole, tab'[t], choice[t])
  <2> DEFINE b == tab[t]
             f == [b EXCEPT !.user = TRUE, !.in = TRUE, !.token = claims, !.due = TRUE]
  <2>1. /\ b \in TabType /\ Sound(HasRole, b, choice[t]) /\ HasRole \in BOOLEAN
        /\ claims \in Claims /\ ~b.user
    BY RoleIsBoolean DEF Browser, SignIn
  <2>2. tab'[t] = f BY DEF SignIn
  <2>3. f \in TabType BY <2>1 DEF TabType
  <2>4. /\ f.user /\ f.in /\ f.read = b.read /\ f.token = claims /\ f.due
        /\ f.bar = b.bar /\ f.slot = b.slot /\ f.consumed = b.consumed /\ f.session = b.session
        /\ f.mark = b.mark /\ f.refs = b.refs /\ f.shown = b.shown /\ f.page = b.page
    BY <2>1 DEF TabType
  <2> HIDE DEF f
  <2>5. Fine(HasRole, b, choice[t]) /\ ~b.in BY <2>1 DEF Sound, Session
  <2>6. Fine(HasRole, f, choice[t])
    <3> HIDE DEF b
    <3> QED BY <2>1, <2>3, <2>4, <2>5, Turns
  <2>7. TokenFits(HasRole, f) BY <2>4, ClaimsFit
  <2> QED BY <2>2, <2>3, <2>4, <2>6, <2>7 DEF Sound, Session
<1>2. tab' \in [Tabs -> TabType] BY <1>1 DEF SignIn
<1>3. HasRole' = HasRole BY DEF SignIn, HasRole
<1> QED BY <1>1, <1>2, <1>3 DEF SignIn, Browser

\* The triggers move the claims of the new stakes, and no others.
LEMMA Claimed_Browser ==
    ASSUME Browser, NEW s \in New, RunBootstrap(s) \/ RunManagers(s)
    PROVE  Browser'
<1>1. /\ claims' \in Claims /\ claims'.boot \subseteq New
      /\ claims'.super = claims.super /\ claims'.manager \ New = claims.manager \ New
  <2>1. claims \in Claims /\ claims.boot \subseteq New BY DEF Browser
  <2>2. s \in Stakes BY StakeSetupAssumption
  <2>3. CASE RunBootstrap(s)
    <3> DEFINE B == IF InSetup(s) THEN claims.boot \cup {s} ELSE claims.boot \ {s}
    <3>1. claims' = [claims EXCEPT !.manager = [claims EXCEPT !.boot = B].manager,
                                   !.boot = [claims EXCEPT !.boot = B].boot]
      BY <2>1, <2>3 DEF RunBootstrap, Claim, Claims
    <3>2. B \subseteq New /\ B \subseteq Stakes BY <2>1, <2>2 DEF Claims
    <3> HIDE DEF B
    <3> QED BY <2>1, <3>1, <3>2 DEF Claims
  <2>4. CASE RunManagers(s)
    <3> DEFINE M == IF s \in admins THEN claims.manager \cup {s} ELSE claims.manager \ {s}
    <3>1. claims' = [claims EXCEPT !.manager = [claims EXCEPT !.manager = M].manager,
                                   !.boot = [claims EXCEPT !.manager = M].boot]
      BY <2>1, <2>4 DEF RunManagers, Claim, Claims
    <3>2. M \subseteq Stakes /\ M \ New = claims.manager \ New BY <2>1, <2>2 DEF Claims
    <3> HIDE DEF M
    <3> QED BY <2>1, <3>1, <3>2 DEF Claims
  <2> QED BY <2>3, <2>4
<1>2. HasRole' = HasRole BY <1>1 DEF HasRole
<1>3. UNCHANGED <<tab, local, moves, choice>> BY DEF RunBootstrap, RunManagers, Handled
<1> QED BY <1>1, <1>2, <1>3 DEF Browser

-----------------------------------------------------------------------------
(* Every step keeps the setup as it must be.                               *)

\* A wizard shows for a stake in setup only.
LEMMA WizardIs ==
    ASSUME Browser, NEW t \in Tabs, NEW s, Wizard(t, s)
    PROVE  s \in New \cap exists
<1> DEFINE b == tab[t]
           roles == ~Settling(b)
<1>1. b \in TabType /\ Principal(b) \in Claims BY PrincipalType DEF Browser
<1>2. b.in \in BOOLEAN /\ Principal(b).super \in BOOLEAN /\ b.shown = s
  BY <1>1 DEF TabType, Claims, Wizard
<1>3. Gate(t) = "wizard" BY DEF Wizard
<1>4. /\ b.in /\ s # None /\ MayReadStake(b.token, s) /\ InSetup(s) /\ s \in New
  BY <1>2, <1>3 DEF Gate, InSetup, Wizard
<1> QED BY <1>4 DEF InSetup

\* A step that moves neither claims nor clicks.
LEMMA DocsMove ==
    ASSUME Wizards, UNCHANGED <<claims, click>>, complete' = complete,
           exists \subseteq exists', exists' \subseteq Stakes,
           admins \subseteq admins', admins' \subseteq exists',
           filled' \in [Stakes -> SUBSET Steps], events' \subseteq Events, tried' \subseteq Tabs,
           misses' \in 0..MaxMisses
    PROVE  Wizards'
BY DEF Wizards, AdminNotStranded

LEMMA Off_Wizards ==
    ASSUME Wizards, claims' = claims, NEW who, Off(who) PROVE Wizards'
<1>1. /\ click' \in [Tabs -> ClickType]
      /\ \A t \in Tabs : click'[t] = click[t] \/ click'[t] = Idle
  BY DEF Off, Wizards, ClickType, Idle, Place
<1>2. \A t \in Tabs : /\ click'[t].stake = None <=> click'[t].step = "idle"
                      /\ click'[t].stake # None => click'[t].stake \in New \cap exists
                      /\ click'[t].step = "flip" => click'[t].stake \in claims.manager
  BY <1>1 DEF Wizards, Idle
<1> QED BY <1>1, <1>2 DEF Off, docs, Wizards, AdminNotStranded

LEMMA Same_Wizards == Wizards /\ UNCHANGED <<claims, ssVars>> => Wizards'
BY DEF ssVars, Wizards, AdminNotStranded

\* The triggers: the claim follows the document.
LEMMA Triggers_Wizards ==
    ASSUME Browser, Wizards, NEW s \in New,
           CreateStake(s) \/ RunBootstrap(s) \/ RunManagers(s) \/ MissManagers(s)
    PROVE  Wizards'
<1>1. s \in Stakes /\ None \notin Stakes BY StakeSetupAssumption, NoStake
<1>2. CASE CreateStake(s)
  <2>1. exists' \subseteq Stakes /\ events' \subseteq Events
    BY <1>1, <1>2 DEF CreateStake, Wizards, Events
  <2> QED BY <1>2, <2>1, DocsMove DEF CreateStake, asVars, Wizards
<1>3. CASE MissManagers(s)
  <2>1. misses' \in 0..MaxMisses BY <1>3, StakeSetupAssumption DEF MissManagers, Wizards
  <2> QED BY <1>3, <2>1, DocsMove DEF MissManagers, Handled, docs, Wizards
<1>4. CASE RunBootstrap(s) \/ RunManagers(s)
  <2>1. /\ claims'.manager \subseteq admins
        /\ \A x \in admins : x \in claims.manager => x \in claims'.manager
    <3>1. claims \in Claims BY DEF Browser
    <3>2. CASE RunBootstrap(s)
      <4>1. claims'.manager = claims.manager BY <3>1, <3>2 DEF RunBootstrap, Claim, Claims
      <4> QED BY <4>1 DEF Wizards
    <3>3. CASE RunManagers(s)
      <4>1. claims'.manager = IF s \in admins THEN claims.manager \cup {s} ELSE claims.manager \ {s}
        BY <3>1, <3>3 DEF RunManagers, Claim, Claims
      <4> QED BY <4>1 DEF Wizards
    <3> QED BY <1>4, <3>2, <3>3
  <2>2. UNCHANGED <<docs, tried, click, misses>> /\ events' \subseteq events
    BY <1>4 DEF RunBootstrap, RunManagers, Handled
  <2>3. \A t \in Tabs : click'[t].step = "flip" => click'[t].stake \in claims'.manager
    BY <2>1, <2>2 DEF Wizards
  <2>4. AdminNotStranded' BY <2>1, <2>2 DEF Wizards, AdminNotStranded, docs
  <2> QED BY <2>1, <2>2, <2>3, <2>4 DEF Wizards, docs
<1> QED BY <1>2, <1>3, <1>4

LEMMA Auto_Wizards ==
    ASSUME Browser, Wizards, NEW t \in Tabs, AutoAdd(t) \/ AutoAddFails(t)
    PROVE  Wizards'
<1>1. CASE AutoAdd(t)
  <2>1. PICK s \in New : Wizard(t, s) /\ WriteAdmin(s) BY <1>1 DEF AutoAdd
  <2>2. s \in exists /\ s \in Stakes BY <2>1, WizardIs DEF Wizards
  <2>3. /\ admins' = admins \cup {s} /\ events' \subseteq Events
    BY <2>1, <2>2 DEF WriteAdmin, Wizards, Events
  <2>4. UNCHANGED <<claims, click, complete, exists, filled, misses>> /\ tried' \subseteq Tabs
    BY <1>1 DEF AutoAdd, asVars, Wizards
  <2> QED BY <2>2, <2>3, <2>4, DocsMove DEF Wizards
<1>2. CASE AutoAddFails(t)
  <2>1. misses' \in 0..MaxMisses /\ tried' \subseteq Tabs
    BY <1>2, StakeSetupAssumption DEF AutoAddFails, Wizards
  <2> QED BY <1>2, <2>1, DocsMove DEF AutoAddFails, asVars, docs, Wizards
<1> QED BY <1>1, <1>2

LEMMA Fills_Wizards ==
    ASSUME Browser, Wizards, NEW t \in Tabs, NEW part \in Steps, Fills(t, part) \/ Empties(t, part)
    PROVE  Wizards'
<1>1. filled' \in [Stakes -> SUBSET Steps] BY DEF Fills, Empties, Wizards
<1>2. misses' \in 0..MaxMisses BY StakeSetupAssumption DEF Fills, Empties, Wizards
<1>3. UNCHANGED <<claims, click, exists, complete, admins, events, tried>>
  BY DEF Fills, Empties, asVars
<1> QED BY <1>1, <1>2, <1>3, DocsMove DEF Wizards

\* A click that waits is for a stake in setup; one that flips saw the claim,
\* which the trigger cannot take back while the document stands.
LEMMA Clicks_Wizards ==
    ASSUME Browser, Wizards, NEW t \in Tabs,
           ClickComplete(t) \/ PollClaim(t) \/ GiveUp(t) \/ Flip(t)
    PROVE  Wizards'
<1>1. click[t] \in ClickType /\ None \notin Stakes /\ Idle \in ClickType
  BY NoStake DEF Wizards, Idle, ClickType, Place
<1>2. CASE ClickComplete(t)
  <2>1. PICK s \in New : Wizard(t, s) /\ click' = [click EXCEPT ![t] = [stake |-> s, step |-> "wait"]]
    BY <1>2 DEF ClickComplete
  <2>2. s \in New \cap exists /\ s # None /\ [stake |-> s, step |-> "wait"] \in ClickType
    BY <1>1, <2>1, WizardIs, StakeSetupAssumption DEF ClickType, Place
  <2>3. UNCHANGED <<claims, docs, events, tried, misses>> BY <1>2 DEF ClickComplete, asVars
  <2> QED BY <2>1, <2>2, <2>3 DEF Wizards, docs, AdminNotStranded
<1>3. CASE PollClaim(t)
  <2>1. /\ click[t].step = "wait" /\ click[t].stake \in claims.manager
        /\ click' = [click EXCEPT ![t].step = "flip"]
    BY <1>3 DEF PollClaim, CanAdministerStakePostFlip
  <2>2. UNCHANGED <<claims, docs, events, tried, misses>> BY <1>3 DEF PollClaim
  <2>3. click' \in [Tabs -> ClickType] BY <2>1 DEF Wizards, ClickType
  <2>4. ASSUME NEW x \in Tabs
        PROVE  /\ click'[x].stake = click[x].stake
               /\ click'[x].step = IF x = t THEN "flip" ELSE click[x].step
    BY <1>1, <2>1 DEF Wizards, ClickType
  <2> QED BY <2>1, <2>2, <2>3, <2>4 DEF Wizards, docs, AdminNotStranded
<1>4. CASE GiveUp(t)
  <2>1. /\ click[t].step = "wait" /\ click' = [click EXCEPT ![t] = Idle]
        /\ UNCHANGED <<claims, exists, complete, filled, tried, misses>>
        /\ WriteAdmin(click[t].stake) \/ UNCHANGED <<admins, events>>
    BY <1>4 DEF GiveUp, Reissue
  <2>2. click[t].stake \in New \cap exists BY <2>1 DEF Wizards
  <2>3. admins \subseteq admins' /\ admins' \subseteq exists /\ events' \subseteq Events
    BY <2>1, <2>2 DEF WriteAdmin, Wizards, Events
  <2>4. ASSUME NEW x \in Tabs PROVE click'[x] = IF x = t THEN Idle ELSE click[x]
    BY <2>1 DEF Wizards
  <2>5. click' \in [Tabs -> ClickType] BY <1>1, <2>1 DEF Wizards
  <2> QED BY <2>1, <2>3, <2>4, <2>5 DEF Wizards, Idle, AdminNotStranded
<1>5. CASE Flip(t)
  <2>1. /\ click[t].step = "flip" /\ click' = [click EXCEPT ![t] = Idle]
        /\ UNCHANGED <<claims, exists, filled, admins, tried, misses>>
    BY <1>5 DEF Flip, asVars
  <2>2. /\ complete' \subseteq complete \cup {click[t].stake}
        /\ events' \subseteq events \cup {<<"bootstrap", click[t].stake>>}
    BY <1>5 DEF Flip
  <2>3. click[t].stake \in New \cap exists /\ click[t].stake \in claims.manager
    BY <2>1 DEF Wizards
  <2>4. /\ complete' \subseteq exists /\ events' \subseteq Events
        /\ \A s \in New \cap complete' : s \in claims.manager
    BY <2>2, <2>3 DEF Wizards, Events, AdminNotStranded
  <2>5. ASSUME NEW x \in Tabs PROVE click'[x] = IF x = t THEN Idle ELSE click[x]
    BY <2>1 DEF Wizards
  <2>6. click' \in [Tabs -> ClickType] BY <1>1, <2>1 DEF Wizards
  <2> QED BY <2>1, <2>4, <2>5, <2>6 DEF Wizards, Idle, AdminNotStranded
<1> QED BY <1>2, <1>3, <1>4, <1>5

-----------------------------------------------------------------------------
(* The theorem.                                                            *)

LEMMA InitIInv == Init => IInv
<1> SUFFICES ASSUME Init PROVE IInv OBVIOUS
<1>1. claims \in Claims /\ claims.manager = admins /\ claims.boot = {} /\ admins \subseteq Stakes \ New
  BY DEF Init, Claims
<1>2. HasRole \in BOOLEAN BY <1>1 DEF HasRole, Claims
<1>3. ASSUME NEW t \in Tabs
      PROVE  /\ tab[t] \in TabType /\ choice[t] \in ChoiceSet
             /\ Sound(HasRole, tab[t], choice[t])
  <2>1. tab[t] = [Opened EXCEPT !.token = claims] /\ choice[t] = NoChoice BY DEF Init
  <2>2. tab[t] \in TabType BY <1>1, <2>1, StartTypes DEF Opened, TabType
  <2>3. /\ tab[t].user /\ ~tab[t].in /\ ~tab[t].read /\ tab[t].token = claims /\ tab[t].due
        /\ tab[t].bar = None /\ tab[t].refs = Fresh
    BY <2>1 DEF Opened
  <2>4. Fine(HasRole, tab[t], choice[t])
    BY <2>1, <2>3 DEF Fine, Fresh, Rests, Stands, NoChoice
  <2>5. TokenFits(HasRole, tab[t]) BY <1>1, <2>3 DEF TokenFits, HasRole, Access
  <2> QED BY <2>1, <2>2, <2>3, <2>4, <2>5, StartTypes DEF Sound, Session
<1>4. Browser
  <2>1. tab \in [Tabs -> TabType] /\ choice \in [Tabs -> ChoiceSet] BY <1>3 DEF Init
  <2>2. local \in Place /\ moves \in 0..MaxMoves BY ActiveStakeAssumption DEF Init, Place
  <2> QED BY <1>1, <1>3, <2>1, <2>2 DEF Browser
<1>5. Wizards
  <2>1. Idle \in ClickType /\ misses \in 0..MaxMisses
    BY StakeSetupAssumption DEF Init, Idle, ClickType, Place
  <2>2. filled \in [Stakes -> SUBSET Steps] BY DEF Init
  <2>3. click \in [Tabs -> ClickType] /\ \A t \in Tabs : click[t] = Idle BY <2>1 DEF Init
  <2>4. AdminNotStranded BY DEF Init, AdminNotStranded
  <2>5. /\ complete \subseteq exists /\ exists \subseteq Stakes /\ admins \subseteq exists
        /\ events = {} /\ tried = {}
    BY DEF Init
  <2> QED BY <1>1, <2>1, <2>2, <2>3, <2>4, <2>5 DEF Wizards, Idle
<1> QED BY <1>4, <1>5 DEF IInv

LEMMA StepIInv ==
    ASSUME \A x, y \in New : x = y
    PROVE  IInv /\ [Next]_vars => IInv'
<1> SUFFICES ASSUME IInv, [Next]_vars PROVE IInv' OBVIOUS
<1> USE DEF IInv
<1>1. ASSUME NEW s \in New, CreateStake(s) \/ RunBootstrap(s) \/ RunManagers(s) \/ MissManagers(s)
      PROVE  IInv'
  <2>1. Browser'
    <3>1. CASE CreateStake(s) \/ MissManagers(s)
      <4>1. UNCHANGED asVars BY <3>1 DEF CreateStake, MissManagers, Handled, asVars
      <4> QED BY <4>1, NoTab
    <3> QED BY <1>1, <3>1, Claimed_Browser
  <2> QED BY <1>1, <2>1, Triggers_Wizards
<1>2. CASE SignedIn
  <2>1. Browser' /\ claims' = claims BY <1>2, SignIn_Browser DEF SignedIn, SignIn
  <2> QED BY <1>2, <2>1, Off_Wizards DEF SignedIn
<1>3. CASE SignOut /\ Off(Tabs)
  <2>1. Browser' /\ claims' = claims BY <1>3, SignOut_Browser DEF SignOut
  <2> QED BY <1>3, <2>1, Off_Wizards
<1>4. ASSUME NEW t \in Tabs, Reload(t) /\ Off({t}) PROVE IInv'
  <2>1. Browser' /\ claims' = claims BY <1>4, Chosen_Browser DEF Reload
  <2> QED BY <1>4, <2>1, Off_Wizards
<1>5. ASSUME NEW t \in Tabs,
             \/ Loads(t) \/ Refreshes(t) \/ MovesOn(t) \/ Opens(t)
             \/ BackToStakes(t) /\ UNCHANGED ssVars
             \/ \E s \in Stakes : (FollowLink(t, s) \/ Switch(t, s)) /\ UNCHANGED ssVars
      PROVE  IInv'
  <2>1. UNCHANGED ssVars BY <1>5 DEF Loads, Refreshes, MovesOn, Opens
  <2>2. \/ Commit(t) \/ Mount(t) \/ Restore(t) \/ ReadClaims(t) \/ TokenRefresh(t) \/ Navigate(t)
        \/ BackToStakes(t) \/ (\E s \in Stakes : FollowLink(t, s)) \/ (\E s \in Stakes : Switch(t, s))
    BY <1>5 DEF Loads, Refreshes, MovesOn, Opens
  <2>3. claims' = claims
    BY <2>2 DEF Commit, Mount, Renders, Restore, ReadClaims, TokenRefresh, Navigate, BackToStakes,
                FollowLink, Switch
  <2>4. Browser'
    BY <2>2, Loaded_Browser, Restored_Browser, Refreshed_Browser, Navigated_Browser, Chosen_Browser,
       Followed_Browser
  <2> QED BY <2>1, <2>3, <2>4, Same_Wizards
<1>6. ASSUME NEW t \in Tabs, AutoAdd(t) \/ AutoAddFails(t) PROVE IInv'
  <2>1. UNCHANGED asVars BY <1>6 DEF AutoAdd, AutoAddFails
  <2> QED BY <1>6, <2>1, NoTab, Auto_Wizards
<1>7. ASSUME NEW t \in Tabs,
             Step1(t) \/ AddBuilding(t) \/ AddWard(t) \/ DeleteBuilding(t) \/ DeleteWard(t)
      PROVE  IInv'
  <2>1. PICK part \in Steps : Fills(t, part) \/ Empties(t, part)
    BY <1>7 DEF Step1, AddBuilding, AddWard, DeleteBuilding, DeleteWard, Steps
  <2>2. UNCHANGED asVars BY <2>1 DEF Fills, Empties
  <2> QED BY <2>1, <2>2, NoTab, Fills_Wizards
<1>8. ASSUME NEW t \in Tabs, ClickComplete(t) \/ PollClaim(t) \/ GiveUp(t) \/ Flip(t) PROVE IInv'
  <2>1. CASE ClickComplete(t) \/ Flip(t)
    <3>1. UNCHANGED asVars BY <2>1 DEF ClickComplete, Flip
    <3> QED BY <2>1, <3>1, NoTab, Clicks_Wizards
  <2>2. CASE PollClaim(t) \/ GiveUp(t)
    <3>1. Browser' BY <2>2, FreshToken_Browser DEF PollClaim, GiveUp
    <3> QED BY <2>2, <3>1, Clicks_Wizards
  <2> QED BY <1>8, <2>1, <2>2
<1>9. CASE UNCHANGED vars
  <2>1. UNCHANGED asVars /\ UNCHANGED ssVars BY <1>9 DEF vars
  <2>2. claims' = claims BY <2>1 DEF asVars
  <2> QED BY <2>1, <2>2, NoTab, Same_Wizards
<1> QED BY <1>1, <1>2, <1>3, <1>4, <1>5, <1>6, <1>7, <1>8, <1>9 DEF Next

LEMMA IInvImplies == IInv => StakeNotLost
<1> SUFFICES ASSUME IInv PROVE StakeNotLost OBVIOUS
<1>1. ASTypeOK
  <2>1. ASSUME NEW t \in Tabs
        PROVE  /\ tab[t].token \in Claims
               /\ {tab[t].bar, tab[t].slot, tab[t].session, tab[t].mark, tab[t].shown} \subseteq Place
               /\ tab[t].in => tab[t].user
               /\ tab[t].read => tab[t].in
    BY DEF IInv, Browser, TabType, Sound, Session
  <2> QED BY <2>1 DEF IInv, Browser, Place, ASTypeOK
<1>2. TypeOK BY <1>1 DEF IInv, Wizards, TypeOK
<1>3. LinkHonoured
  <2>1. ASSUME NEW t \in Tabs, Settled(t), choice[t].by = "link", choice[t].left \subseteq {},
               MayHave(t, choice[t].stake)
        PROVE  Shows(t, choice[t].stake)
    BY <2>1 DEF IInv, Browser, Sound, Fine, Stands, Rests, Settled, MayHave, Shows
  <2> QED BY <2>1 DEF LinkHonoured, Keeps
<1> QED BY <1>2, <1>3 DEF StakeNotLost, IInv, Wizards

\* Where no more than one stake is in setup, nobody loses a stake: the admin
\* who set it up holds its manager claim by the time the bootstrap escape
\* closes, and whoever follows a link works on its stake from then on, in
\* every component of the tab.
THEOREM StakeStaysFound ==
    ASSUME \A x, y \in New : x = y
    PROVE  Spec => []StakeNotLost
<1>1. Init => IInv BY InitIInv
<1>2. IInv /\ [Next]_vars => IInv' BY StepIInv
<1>3. IInv => StakeNotLost BY IInvImplies
<1> QED BY <1>1, <1>2, <1>3, PTL DEF Spec
=============================================================================
