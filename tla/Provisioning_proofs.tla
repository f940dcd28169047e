------------------------ MODULE Provisioning_proofs ------------------------
(***************************************************************************)
(* What the extension predicts of a seat is what the server makes of it,   *)
(* no call of a run takes a door that the seat still grants, and a member  *)
(* at rest has the doors of the seat, for any member, wards, sites,        *)
(* buildings and requests, however requests, runs, failures and trigger    *)
(* deliveries interleave.                                                  *)
(***************************************************************************)
EXTENDS Provisioning, RequestLifecycle_proofs

-----------------------------------------------------------------------------
(* The grants of a seat in display order.                                  *)

\* Same place, same doors: all a prediction reads of a grant.
Same(g, h) == h.scope = g.scope /\ h.type = g.type /\ h.site = g.site /\ h.buildings = g.buildings

LEMMA AllGrantsIs ==
    ASSUME NEW s \in Seat
    PROVE  LET L == AllGrants(s) IN
           /\ L \in Seq(Grant)
           /\ Len(L) = 1 + Len(s.dups)
           /\ L[1] = Primary(s)
           /\ \A j \in 1..Len(s.dups) : L[j + 1] = s.dups[j]
           /\ Grants(s) = {L[j] : j \in 1..Len(L)}
<1> DEFINE n == Len(s.dups)
           L == AllGrants(s)
<1>1. L = <<Primary(s)>> \o s.dups BY SeatFacts DEF AllGrants
<1>2. /\ <<Primary(s)>> \in Seq(Grant)
      /\ Len(<<Primary(s)>>) = 1
      /\ <<Primary(s)>>[1] = Primary(s)
  BY SeatFacts
<1>3. s.dups \in Seq(Grant) /\ n \in Nat BY SeatFacts
<1>4. /\ L \in Seq(Grant)
      /\ Len(L) = 1 + n
      /\ \A i \in 1..1 + n : L[i] = IF i <= 1 THEN <<Primary(s)>>[i] ELSE s.dups[i - 1]
  BY <1>1, <1>2, <1>3, ConcatProperties
<1> HIDE DEF L
<1>5. L[1] = Primary(s) BY <1>2, <1>3, <1>4
<1>6. ASSUME NEW j \in 1..n PROVE L[j + 1] = s.dups[j]
  <2>1. j + 1 \in 1..1 + n /\ ~(j + 1 <= 1) /\ (j + 1) - 1 = j BY <1>3
  <2> QED BY <1>4, <2>1
<1>7. ASSUME NEW j \in 1..1 + n PROVE j = 1 \/ \E i \in 1..n : j = i + 1
  <2>1. j # 1 => j - 1 \in 1..n /\ j = (j - 1) + 1 BY <1>3
  <2> QED BY <2>1
<1>8. 1 \in 1..1 + n /\ \A i \in 1..n : i + 1 \in 1..1 + n BY <1>3
<1>9. \A j \in 1..1 + n : L[j] \in Grants(s) BY <1>5, <1>6, <1>7, SeatFacts
<1>10. \A g \in Grants(s) : \E j \in 1..1 + n : g = L[j] BY <1>5, <1>6, <1>8, SeatFacts
<1>11. Grants(s) = {L[j] : j \in 1..1 + n} BY ONLY <1>9, <1>10
<1> QED BY <1>4, <1>5, <1>6, <1>11 DEF L

LEMMA NoGrants == AllGrants(NoSeat) = <<>> /\ Grants(NoSeat) = {} /\ Len(<<>>) = 0
BY DEF AllGrants, Grants

\* The first grant of a scope, or none.
LEMMA FirstIs ==
    ASSUME NEW d \in Seq(Grant), NEW scope
    PROVE  LET i == FirstOfScope(d, scope) IN
           /\ i \in 0..Len(d)
           /\ i > 0 => d[i].scope = scope /\ \A j \in 1..Len(d) : d[j].scope = scope => i <= j
           /\ i = 0 => \A j \in 1..Len(d) : d[j].scope # scope
<1> DEFINE I == {i \in 1..Len(d) : d[i].scope = scope}
<1>1. FirstOfScope(d, scope) = IF I # {} THEN Min(I) ELSE 0
  BY DEF FirstOfScope, SelectInSeq
<1>2. Len(d) \in Nat BY LenProperties
<1>3. I \subseteq Nat BY <1>2
<1>4. I # {} => Min(I) \in I /\ \A i \in I : Min(I) <= i BY ONLY <1>3, LeastMember
<1>5. I = {} => \A j \in 1..Len(d) : d[j].scope # scope OBVIOUS
<1> QED BY <1>1, <1>2, <1>4, <1>5

\* What is left of a sequence of grants without the first of a scope.
LEMMA DropFirstIs ==
    ASSUME NEW d \in Seq(Grant), NEW scope
    PROVE  ToSet(DropFirst(d, scope)) = {d[j] : j \in (1..Len(d)) \ {FirstOfScope(d, scope)}}
<1> DEFINE i == FirstOfScope(d, scope)
           n == Len(d)
           e == RemoveAt(d, i)
<1>1. n \in Nat /\ i \in 0..n /\ DOMAIN d = 1..n BY FirstIs, LenProperties
<1>2. CASE i = 0
  <2>1. DropFirst(d, scope) = d BY <1>2 DEF DropFirst
  <2>2. (1..n) \ {i} = 1..n BY <1>1, <1>2
  <2> QED BY <1>1, <2>1, <2>2 DEF ToSet
<1>3. CASE i # 0
  <2>1. DropFirst(d, scope) = e BY <1>3 DEF DropFirst
  <2>2. i \in 1..n BY <1>1, <1>3
  <2>3. /\ e \in Seq(Grant) /\ Len(e) = n - 1
        /\ \A j \in 1..n - 1 : e[j] = IF j < i THEN d[j] ELSE d[j + 1]
    BY <2>2, RemoveAtFacts
  <2>4. DOMAIN e = 1..n - 1 BY <2>3, LenProperties
  <2> HIDE DEF e, i
  <2>5. ToSet(e) = {e[j] : j \in 1..n - 1} BY <2>4 DEF ToSet
  <2>6. ASSUME NEW j \in 1..n - 1 PROVE \E k \in (1..n) \ {i} : e[j] = d[k]
    <3>1. j < i => j \in (1..n) \ {i} BY <1>1
    <3>2. ~(j < i) => j + 1 \in (1..n) \ {i} BY <1>1, <2>2
    <3> QED BY <2>3, <3>1, <3>2
  <2>7. ASSUME NEW k \in (1..n) \ {i} PROVE \E j \in 1..n - 1 : e[j] = d[k]
    <3>1. k < i => k \in 1..n - 1 BY <1>1, <2>2
    <3>2. ~(k < i) => k - 1 \in 1..n - 1 /\ ~(k - 1 < i) /\ (k - 1) + 1 = k BY <1>1, <2>2
    <3> QED BY <2>3, <3>1, <3>2
  <2> DEFINE K == (1..n) \ {i}
  <2> HIDE DEF K
  <2>8. {e[j] : j \in 1..n - 1} \subseteq {d[k] : k \in K} BY <2>6 DEF K
  <2>9. {d[k] : k \in K} \subseteq {e[j] : j \in 1..n - 1}
    <3>1. \A k \in K : \E j \in 1..n - 1 : e[j] = d[k] BY <2>7 DEF K
    <3> QED BY <3>1
  <2>10. ToSet(e) = {d[k] : k \in K} BY <2>5, <2>8, <2>9
  <2> QED BY <2>1, <2>10 DEF i, K
<1> QED BY <1>2, <1>3

-----------------------------------------------------------------------------
(* Where a grant counts.                                                   *)

LEMMA AtSite ==
    ASSUME NEW X, NEW site, NEW b
    PROVE  b \in BuildingsAt(X, site) <=> \E g \in X : GrantSite(g) = site /\ b \in g.buildings
BY DEF BuildingsAt

\* A grant in its place counts on the site of its scope, stamped or not.
LEMMA PlacedGrant ==
    ASSUME NEW g \in Grant, Placed(g), GrantStamped(g)
    PROVE  /\ GrantSite(g) = NormSite(SiteOf(g.scope))
           /\ NormSite(g.site) = NormSite(SiteOf(g.scope))
<1>1. g.scope \in Scopes BY DEF Grant
<1>2. Home # Unset /\ Unset \notin ForeignSites BY ScopesAssumption DEF Home, Unset
<1>3. CASE g.site # Unset BY <1>3 DEF Placed, GrantSite, NormSite
<1>4. CASE g.site = Unset
  <2>1. g.scope \in Wards => SiteOf(g.scope) = Home
    BY <1>2, <1>4, ScopesAssumption, WardsAssumption DEF GrantStamped, SiteOf
  <2>2. g.scope \notin Wards => SiteOf(g.scope) \in {Home, Unset} BY DEF SiteOf
  <2>3. NormSite(SiteOf(g.scope)) = Home BY <1>2, <2>1, <2>2 DEF NormSite
  <2> QED BY <1>4, <2>3 DEF GrantSite, NormSite
<1> QED BY <1>3, <1>4

LEMMA SameCounts ==
    ASSUME NEW g, NEW h, Same(g, h)
    PROVE  /\ GrantSite(h) = GrantSite(g) /\ h.buildings = g.buildings /\ Slot(h) = Slot(g)
           /\ Placed(g) => Placed(h)
BY DEF Same, GrantSite, Slot, Placed

\* Two seats whose grants agree, place by place, hold the same.
LEMMA SameHoldings ==
    ASSUME NEW s \in Seat, NEW t \in Seat, NEW site, Same(Primary(s), Primary(t)),
           Len(t.dups) = Len(s.dups), \A j \in 1..Len(s.dups) : Same(s.dups[j], t.dups[j])
    PROVE  CurrentSeatBuildings(t, site) = CurrentSeatBuildings(s, site)
<1>1. \A g \in Grants(s) : \E h \in Grants(t) : Same(g, h) BY SeatFacts
<1>2. \A h \in Grants(t) : \E g \in Grants(s) : Same(g, h) BY SeatFacts
<1>3. \A b : b \in BuildingsAt(Grants(s), site) <=> b \in BuildingsAt(Grants(t), site)
  BY ONLY <1>1, <1>2, SameCounts, AtSite
<1> QED BY <1>3 DEF CurrentSeatBuildings

\* A seat in which every grant is sound and in its place.
InPlace(s) == s = NoSeat \/ (s \in Seat /\ Sound(s) /\ \A g \in Grants(s) : Placed(g))

LEMMA InPlaceIs ==
    ASSUME NEW s \in Seat, InPlace(s)
    PROVE  \A g \in Grants(s) : /\ g \in Grant /\ Placed(g) /\ GrantStamped(g)
                                /\ GrantSite(g) = NormSite(SiteOf(g.scope))
                                /\ NormSite(g.site) = NormSite(SiteOf(g.scope))
<1>1. s # NoSeat /\ Sound(s) /\ \A g \in Grants(s) : Placed(g) BY SeatFacts DEF InPlace
<1>2. \A g \in Grants(s) : g \in Grant BY SeatFacts
<1>3. \A g \in Grants(s) : GrantStamped(g)
  <2>1. GrantStamped(Primary(s)) BY <1>1, SoundIs DEF GrantStamped, Primary
  <2> QED BY <1>1, <2>1, SoundIs, SeatFacts
<1> QED BY <1>1, <1>2, <1>3, PlacedGrant

-----------------------------------------------------------------------------
(* What the extension predicts, the server writes.                         *)

\* A request as the create rule admits it: adds and edits name a building, a
\* remove names the site its row shows, or none (an older document).
Listed(req) ==
    /\ req \in Input
    /\ req.type # "remove" => req.buildings # {}
    /\ req.type = "remove" => req.site = Unset \/ req.site = RequestSite(req)

LEMMA NewSeatPredicted ==
    ASSUME NEW req, Listed(req), req.type \in AddTypes
    PROVE  AddTarget(NoSeat, req) = CurrentSeatBuildings(NewSeat(req), RequestSite(req))
<1> DEFINE t == NewSeat(req)
<1>1. t \in Seat /\ t.dups = <<>> BY NewSeatSound DEF Listed, NewSeat
<1>2. Grants(t) = {Primary(t)} BY <1>1, SeatFacts, NoGrants
<1>3. req.buildings # {} BY DEF Listed, AddTypes
<1>4. BuildingsForRequest(req) = req.buildings BY <1>3 DEF BuildingsForRequest
<1>5. Primary(t).buildings = req.buildings /\ Primary(t).site = SiteOf(req.scope) /\ Primary(t).scope = req.scope
  BY <1>3 DEF Primary, NewSeat
<1>6. GrantSite(Primary(t)) = RequestSite(req) BY <1>5 DEF GrantSite, NormSite, RequestSite
<1> HIDE DEF t
<1>7. \A b : b \in BuildingsAt(Grants(t), RequestSite(req)) <=> b \in req.buildings
  BY <1>2, <1>5, <1>6, AtSite
<1>8. CurrentSeatBuildings(t, RequestSite(req)) = req.buildings BY <1>7 DEF CurrentSeatBuildings
<1>9. CurrentSeatBuildings(NoSeat, RequestSite(req)) = {}
  BY NoGrants DEF CurrentSeatBuildings, BuildingsAt
<1> QED BY <1>4, <1>8, <1>9 DEF AddTarget, t

\* What an add makes of a seat's grants: one of the scope gains the buildings
\* where it is, or there is one more.
Gains(g, h, req) == h.scope = g.scope /\ h.site = g.site /\ h.buildings = g.buildings \cup req.buildings

Merges(s, t, req, g, h) ==
    /\ g \in Grants(s) /\ g.scope = req.scope /\ Gains(g, h, req)
    /\ h \in Grants(t)
    /\ Grants(s) \subseteq Grants(t) \cup {g}
    /\ Grants(t) \subseteq Grants(s) \cup {h}

LEMMA AddShape ==
    ASSUME NEW req \in Input, NEW s \in Seat, Sound(s)
    PROVE  LET t == PlanAddMerge(s, req) IN
           \/ \E g, h : Merges(s, t, req, g, h)
           \/ Grants(t) = Grants(s) \cup {NewDuplicate(req)}
<1> DEFINE type == AddType(req.type)
           t == PlanAddMerge(s, req)
           n == Len(s.dups)
           i == SlotIndex(s.dups, req.scope, type)
<1>1. s.dups \in Seq(Grant) /\ n \in Nat /\ \A j \in 1..n : s.dups[j] \in Grant BY SeatFacts
<1>2. i \in 0..n /\ (i > 0 => s.dups[i].scope = req.scope /\ s.dups[i].type = type)
  BY <1>1, FirstSlot
<1>3. t \in Seat BY PlanAddMergeSound
<1>4. Grants(s) = {Primary(s)} \cup {s.dups[j] : j \in 1..n} BY SeatFacts
<1>5. CASE s.scope = req.scope /\ s.type = type
  <2>1. t = Merged(s, req) BY <1>5 DEF PlanAddMerge
  <2>2. t.dups = s.dups /\ t.scope = s.scope /\ t.site = s.site /\ t.buildings = s.buildings \cup req.buildings
    BY <2>1, MergedSeat DEF Merged, Seat
  <2> HIDE DEF t
  <2>3. Gains(Primary(s), Primary(t), req) /\ Primary(s).scope = req.scope
    BY <1>5, <2>2 DEF Primary, Gains
  <2>4. Grants(t) = {Primary(t)} \cup {s.dups[j] : j \in 1..n} BY <1>3, <2>2, SeatFacts
  <2>5. Merges(s, t, req, Primary(s), Primary(t)) BY <1>4, <2>3, <2>4 DEF Merges
  <2> QED BY <2>5 DEF t
<1>6. CASE ~(s.scope = req.scope /\ s.type = type) /\ i > 0
  <2> DEFINE g == s.dups[i]
             h == Merged(g, req)
             d == ReplaceAt(s.dups, i, h)
  <2>1. i \in 1..n BY <1>2, <1>6
  <2>2. g \in Grant /\ h \in Grant /\ g.scope = req.scope BY <1>1, <1>2, <2>1, MergedGrant
  <2>3. Gains(g, h, req) BY <2>2 DEF Merged, Grant, Gains
  <2>4. t = IF h = g THEN s ELSE WithDups(s, d) BY <1>6 DEF PlanAddMerge
  <2>5. d \in Seq(Grant) /\ Len(d) = n /\ \A j \in 1..n : d[j] = IF j = i THEN h ELSE s.dups[j]
    BY <1>1, <2>1, <2>2, ExceptSeq DEF ReplaceAt
  <2>6. g \in Grants(s) BY <2>1, <1>4
  <2> HIDE DEF g, h, d, i
  <2>7. CASE h = g
    <3>1. t = s BY <2>4, <2>7
    <3>2. Merges(s, t, req, g, h) BY <3>1, <2>2, <2>3, <2>6, <2>7 DEF Merges
    <3> QED BY <3>2
  <2>8. CASE h # g
    <3>1. t = WithDups(s, d) BY <2>4, <2>8
    <3> HIDE DEF t
    <3>2. t \in Seat /\ t.dups = d /\ Primary(t) = Primary(s) BY <3>1, <2>5, WithDupsType
    <3>3. Grants(t) = {Primary(s)} \cup {d[j] : j \in 1..n} BY <3>2, <2>5, SeatFacts
    <3>4. \A j \in 1..n : s.dups[j] \in {d[k] : k \in 1..n} \cup {g} BY <2>5 DEF g
    <3>5. \A j \in 1..n : d[j] \in {s.dups[k] : k \in 1..n} \cup {h} BY <2>5
    <3>6. h \in {d[k] : k \in 1..n} BY <2>1, <2>5
    <3>7. Merges(s, t, req, g, h) BY <1>4, <3>3, <3>4, <3>5, <3>6, <2>2, <2>3, <2>6 DEF Merges
    <3> QED BY <3>7 DEF t
  <2> QED BY <2>7, <2>8
<1>7. CASE ~(s.scope = req.scope /\ s.type = type) /\ ~(i > 0)
  <2> DEFINE h == NewDuplicate(req)
             d == Append(s.dups, h)
  <2>1. t = WithDups(s, d) BY <1>7 DEF PlanAddMerge
  <2>2. h \in Grant BY NewDuplicateType
  <2>3. /\ d \in Seq(Grant) /\ Len(d) = n + 1
        /\ \A j \in 1..n : d[j] = s.dups[j]
        /\ d[n + 1] = h
    BY <1>1, <2>2, AppendProperties
  <2> HIDE DEF h, d, t
  <2>4. t \in Seat /\ t.dups = d /\ Primary(t) = Primary(s) BY <2>1, <2>3, WithDupsType
  <2>5. Grants(t) = {Primary(s)} \cup {d[j] : j \in 1..n + 1} BY <2>3, <2>4, SeatFacts
  <2>6. \A j \in 1..n + 1 : j \in 1..n \/ j = n + 1 BY <1>1
  <2>7. n + 1 \in 1..n + 1 /\ \A j \in 1..n : j \in 1..n + 1 BY <1>1
  <2>8. Grants(t) \subseteq Grants(s) \cup {h} BY <1>4, <2>3, <2>5, <2>6
  <2>9. Grants(s) \cup {h} \subseteq Grants(t) BY <1>4, <2>3, <2>5, <2>7
  <2> QED BY <2>8, <2>9 DEF h, t
<1> QED BY <1>5, <1>6, <1>7

\* An add: the slot's grant is on the request's site, old or new.
LEMMA AddPredicted ==
    ASSUME NEW req, Listed(req), req.type \in AddTypes, NEW s \in Seat, InPlace(s)
    PROVE  AddTarget(s, req) = CurrentSeatBuildings(PlanAddMerge(s, req), RequestSite(req))
<1> DEFINE t == PlanAddMerge(s, req)
           site == RequestSite(req)
           Agrees == AddTarget(s, req) = CurrentSeatBuildings(t, site)
<1>1. req \in Input /\ BuildingsForRequest(req) = req.buildings
  BY DEF Listed, AddTypes, BuildingsForRequest
<1>2. \A g \in Grants(s) : g.scope = req.scope => GrantSite(g) = site BY InPlaceIs DEF RequestSite
<1>3. ASSUME BuildingsAt(Grants(t), site) = BuildingsAt(Grants(s), site) \cup req.buildings
      PROVE  Agrees
  BY <1>1, <1>3 DEF AddTarget, CurrentSeatBuildings
<1>4. ASSUME NEW g, NEW h, Merges(s, t, req, g, h) PROVE Agrees
  <2>1. GrantSite(g) = site /\ GrantSite(h) = site BY <1>2, <1>4 DEF Merges, Gains, GrantSite
  <2>2. h.buildings = g.buildings \cup req.buildings BY <1>4 DEF Merges, Gains
  <2>3. /\ h \in Grants(t) /\ g \in Grants(s)
        /\ \A k \in Grants(s) : k \in Grants(t) \/ k = g
        /\ \A k \in Grants(t) : k \in Grants(s) \/ k = h
    BY <1>4 DEF Merges
  <2> HIDE DEF t, site
  <2>4. ASSUME NEW b PROVE b \in BuildingsAt(Grants(t), site) <=> b \in BuildingsAt(Grants(s), site) \cup req.buildings
    <3>1. ASSUME b \in BuildingsAt(Grants(t), site)
          PROVE  b \in BuildingsAt(Grants(s), site) \cup req.buildings
      <4>1. PICK k \in Grants(t) : GrantSite(k) = site /\ b \in k.buildings BY <3>1, AtSite
      <4> QED BY <4>1, <2>1, <2>2, <2>3, AtSite
    <3>2. ASSUME b \in BuildingsAt(Grants(s), site)
          PROVE  b \in BuildingsAt(Grants(t), site)
      <4>1. PICK k \in Grants(s) : GrantSite(k) = site /\ b \in k.buildings BY <3>2, AtSite
      <4> QED BY <4>1, <2>1, <2>2, <2>3, AtSite
    <3>3. b \in req.buildings => b \in BuildingsAt(Grants(t), site) BY <2>1, <2>2, <2>3, AtSite
    <3> QED BY <3>1, <3>2, <3>3
  <2>5. BuildingsAt(Grants(t), site) = BuildingsAt(Grants(s), site) \cup req.buildings BY <2>4
  <2> QED BY <2>5, <1>3 DEF t, site
<1>5. ASSUME Grants(t) = Grants(s) \cup {NewDuplicate(req)} PROVE Agrees
  <2> DEFINE h == NewDuplicate(req)
  <2>1. GrantSite(h) = site /\ h.buildings = req.buildings
    BY DEF NewDuplicate, GrantSite, NormSite, RequestSite
  <2>2. Grants(t) = Grants(s) \cup {h} BY <1>5
  <2> HIDE DEF t, site, h
  <2>3. \A b : b \in BuildingsAt(Grants(t), site) <=> b \in BuildingsAt(Grants(s), site) \cup req.buildings
    BY <2>1, <2>2, AtSite
  <2>4. BuildingsAt(Grants(t), site) = BuildingsAt(Grants(s), site) \cup req.buildings BY <2>3
  <2> QED BY <2>4, <1>3 DEF t, site
<1>6. \/ \E g, h : Merges(s, t, req, g, h)
      \/ Grants(t) = Grants(s) \cup {NewDuplicate(req)}
  BY <1>1, AddShape, SeatFacts DEF InPlace
<1> QED BY <1>4, <1>5, <1>6

\* An edit: the same slot is looked for, and its site stays.
LEMMA EditPredicted ==
    ASSUME NEW req, Listed(req), req.type \in EditTypes, NEW s \in Seat,
           HasSlot(s, req.scope, EditType(req.type))
    PROVE  /\ EditTarget(s, req) = CurrentSeatBuildings(PlanEditSeat(s, req), RequestSite(req))
<1> DEFINE type == EditType(req.type)
           t == PlanEditSeat(s, req)
           n == Len(s.dups)
           i == SlotIndex(s.dups, req.scope, type)
           site == RequestSite(req)
<1>1. s.dups \in Seq(Grant) /\ n \in Nat /\ \A j \in 1..n : s.dups[j] \in Grant BY SeatFacts
<1>2. i \in 0..n BY <1>1, FirstSlot
<1>3. req \in Input /\ req.buildings \in SUBSET Buildings BY DEF Listed, Input
<1>4. s # NoSeat BY SeatFacts
<1>5. \A g : Same(g, g) BY DEF Same
<1>6. CASE s.scope = req.scope /\ s.type = type
  <2> DEFINE u == [s EXCEPT !.buildings = req.buildings]
  <2>1. EditTarget(s, req) = CurrentSeatBuildings(u, site) BY <1>4, <1>6 DEF EditTarget
  <2>2. t = Edited(s, req) BY <1>6 DEF PlanEditSeat
  <2>3. t \in Seat /\ t.dups = s.dups BY <1>3, <2>2, EditedSeat
  <2>4. t.scope = s.scope /\ t.type = s.type /\ t.site = s.site /\ t.buildings = req.buildings
    BY <2>2 DEF Edited, Seat
  <2>5. u \in Seat /\ u.dups = s.dups BY <1>3 DEF Seat
  <2>6. u.scope = s.scope /\ u.type = s.type /\ u.site = s.site /\ u.buildings = req.buildings BY DEF Seat
  <2> HIDE DEF t, u
  <2>7. Same(Primary(u), Primary(t)) BY <2>4, <2>6 DEF Same, Primary
  <2>8. CurrentSeatBuildings(t, site) = CurrentSeatBuildings(u, site)
    BY <1>5, <2>3, <2>5, <2>7, SameHoldings
  <2> QED BY <2>1, <2>8 DEF t
<1>7. CASE ~(s.scope = req.scope /\ s.type = type)
  <2> DEFINE u == [s EXCEPT !.dups[i].buildings = req.buildings]
             c == [s.dups[i] EXCEPT !.buildings = req.buildings]
             e == Edited(s.dups[i], req)
             d == ReplaceAt(s.dups, i, e)
             f == [s.dups EXCEPT ![i] = c]
  <2>1. i \in 1..n BY <1>1, <1>2, <1>7 DEF HasSlot
  <2>2. EditTarget(s, req) = CurrentSeatBuildings(u, site) BY <1>4, <1>7, <2>1 DEF EditTarget
  <2>3. t = [s EXCEPT !.dups = d] BY <1>7 DEF PlanEditSeat
  <2>4. u = [s EXCEPT !.dups = f] OBVIOUS
  <2>5. e \in Grant BY <1>1, <1>3, <2>1, EditedGrant
  <2>6. c \in Grant BY <1>1, <1>3, <2>1 DEF Grant
  <2>7. Same(c, e)
    <3>1. s.dups[i] \in Grant BY <1>1, <2>1
    <3> QED BY <3>1 DEF Same, Edited, Grant
  <2>8. d \in Seq(Grant) /\ Len(d) = n /\ \A j \in 1..n : d[j] = IF j = i THEN e ELSE s.dups[j]
    BY <1>1, <2>1, <2>5, ExceptSeq DEF ReplaceAt
  <2>9. f \in Seq(Grant) /\ Len(f) = n /\ \A j \in 1..n : f[j] = IF j = i THEN c ELSE s.dups[j]
    BY <1>1, <2>1, <2>6, ExceptSeq
  <2> HIDE DEF c, e, d, f, i
  <2>10. t \in Seat /\ t.dups = d /\ Primary(t) = Primary(s) BY <2>3, <2>8 DEF Seat, Primary
  <2>11. u \in Seat /\ u.dups = f /\ Primary(u) = Primary(s) BY <2>4, <2>9 DEF Seat, Primary
  <2> HIDE DEF t, u
  <2>12. \A j \in 1..n : Same(f[j], d[j]) BY <1>5, <2>7, <2>8, <2>9
  <2>13. CurrentSeatBuildings(t, site) = CurrentSeatBuildings(u, site)
    BY <1>5, <2>8, <2>9, <2>10, <2>11, <2>12, SameHoldings
  <2> QED BY <2>2, <2>13 DEF t, u
<1> QED BY <1>6, <1>7

-----------------------------------------------------------------------------
(* Removing.                                                               *)

\* t has the grants of s but the k-th, in their order; a promotion moves the
\* first duplicate to the top, where only its organisation may change.
TakesOne(s, t, k) ==
    LET L == AllGrants(s) M == AllGrants(t) IN
    /\ k \in 1..Len(L)
    /\ M \in Seq(Grant)
    /\ Len(M) = Len(L) - 1
    /\ \A j \in 1..Len(M) : Same(L[IF j < k THEN j ELSE j + 1], M[j])

LEMMA DropTakesOne ==
    ASSUME NEW s \in Seat, Sound(s), NEW i \in 1..Len(s.dups)
    PROVE  TakesOne(s, WithDups(s, RemoveAt(s.dups, i)), i + 1)
<1> DEFINE n == Len(s.dups)
           d == RemoveAt(s.dups, i)
           t == WithDups(s, d)
           L == AllGrants(s)
           M == AllGrants(t)
<1>1. s.dups \in Seq(Grant) /\ n \in Nat BY SeatFacts
<1>2. /\ d \in Seq(Grant) /\ Len(d) = n - 1
      /\ \A j \in 1..n - 1 : d[j] = IF j < i THEN s.dups[j] ELSE s.dups[j + 1]
  BY <1>1, RemoveAtFacts
<1>3. t \in Seat /\ t.dups = d /\ Primary(t) = Primary(s) BY <1>2, WithDupsType
<1>4. /\ L \in Seq(Grant) /\ Len(L) = 1 + n /\ L[1] = Primary(s)
      /\ \A j \in 1..n : L[j + 1] = s.dups[j]
  BY AllGrantsIs
<1> HIDE DEF t, d
<1>5. /\ M \in Seq(Grant) /\ Len(M) = n /\ M[1] = Primary(s)
      /\ \A j \in 1..n - 1 : M[j + 1] = d[j]
  <2>1. 1 + (n - 1) = n BY <1>1
  <2> QED BY <1>2, <1>3, <2>1, AllGrantsIs
<1> HIDE DEF L, M
<1>6. ASSUME NEW j \in 1..n PROVE M[j] = L[IF j < i + 1 THEN j ELSE j + 1]
  <2>1. CASE j = 1 BY <1>1, <1>4, <1>5, <2>1
  <2>2. CASE j # 1 /\ j < i + 1
    <3>1. j - 1 \in 1..n - 1 /\ j - 1 \in 1..n /\ j - 1 < i /\ (j - 1) + 1 = j BY <1>1, <2>2
    <3> QED BY <1>2, <1>4, <1>5, <2>2, <3>1
  <2>3. CASE j # 1 /\ ~(j < i + 1)
    <3>1. j - 1 \in 1..n - 1 /\ ~(j - 1 < i) /\ (j - 1) + 1 = j /\ j \in 1..n BY <1>1, <2>3
    <3> QED BY <1>2, <1>4, <1>5, <2>3, <3>1
  <2> QED BY <2>1, <2>2, <2>3
<1>7. i + 1 \in 1..1 + n /\ n = (1 + n) - 1 BY <1>1
<1>8. TakesOne(s, t, i + 1) BY <1>4, <1>5, <1>6, <1>7 DEF TakesOne, Same, L, M
<1> QED BY <1>8 DEF t, d

LEMMA PromoteTakesOne ==
    ASSUME NEW s \in Seat, Sound(s), s.dups # <<>>
    PROVE  TakesOne(s, ApplyRemove(s, Plan("promote", 1)), 1)
<1> DEFINE n == Len(s.dups)
           d == RemoveAt(s.dups, 1)
           t == ApplyRemove(s, Plan("promote", 1))
           first == s.dups[1]
           L == AllGrants(s)
           M == AllGrants(t)
<1>1. s.dups \in Seq(Grant) /\ n \in Nat /\ \A j \in 1..n : s.dups[j] \in Grant BY SeatFacts
<1>2. n >= 1 /\ 1 \in 1..n BY <1>1, EmptySeq
<1>3. d \in Seq(Grant) /\ Len(d) = n - 1 /\ \A j \in 1..n - 1 : d[j] = s.dups[j + 1]
  <2>1. /\ d \in Seq(Grant) /\ Len(d) = n - 1
        /\ \A j \in 1..n - 1 : d[j] = IF j < 1 THEN s.dups[j] ELSE s.dups[j + 1]
    BY <1>1, <1>2, RemoveAtFacts
  <2>2. \A j \in 1..n - 1 : ~(j < 1) BY <1>1
  <2> QED BY <2>1, <2>2
<1>4. t = [WithDups(s, d) EXCEPT !.scope = first.scope, !.type = first.type, !.site = first.site,
                                 !.buildings = first.buildings, !.callings = first.callings]
  BY DEF ApplyRemove, Plan
<1>5. first \in Grant BY <1>1, <1>2
<1>6. t \in Seat BY PromoteSound
<1> HIDE DEF d, t, first
<1>7. /\ t.dups = d
      /\ t.scope = first.scope /\ t.type = first.type /\ t.site = first.site
      /\ t.buildings = first.buildings
  BY <1>3, <1>4, <1>5, WithDupsType DEF Seat, Grant
<1>8. Same(first, Primary(t)) BY <1>7 DEF Same, Primary
<1>9. /\ L \in Seq(Grant) /\ Len(L) = 1 + n
      /\ \A j \in 1..n : L[j + 1] = s.dups[j]
  BY AllGrantsIs
<1>10. /\ M \in Seq(Grant) /\ Len(M) = n /\ M[1] = Primary(t)
       /\ \A j \in 1..n - 1 : M[j + 1] = d[j]
  <2>1. 1 + (n - 1) = n BY <1>1
  <2> QED BY <1>3, <1>6, <1>7, <2>1, AllGrantsIs
<1> HIDE DEF L, M
<1>11. ASSUME NEW j \in 1..n PROVE Same(L[IF j < 1 THEN j ELSE j + 1], M[j])
  <2>1. ~(j < 1) /\ L[j + 1] = s.dups[j] BY <1>1, <1>9
  <2>2. CASE j = 1 BY <1>8, <1>10, <2>1, <2>2 DEF first
  <2>3. CASE j # 1
    <3>1. j - 1 \in 1..n - 1 /\ (j - 1) + 1 = j BY <1>1, <2>3
    <3>2. M[j] = s.dups[j] BY <1>3, <1>10, <3>1
    <3> QED BY <2>1, <3>2 DEF Same
  <2> QED BY <2>2, <2>3
<1>12. 1 \in 1..1 + n /\ n = (1 + n) - 1 BY <1>1
<1>13. TakesOne(s, t, 1) BY <1>9, <1>10, <1>11, <1>12 DEF TakesOne, L, M
<1> QED BY <1>13 DEF t


\* PlanRemove takes the first grant it finds, but for a manual duplicate beside
\* an automatic primary.
LEMMA PlanRemoveFirst ==
    ASSUME NEW s \in Seat, NEW scope, NEW site,
           ~(Addressed(s, scope, site) /\ PlanRemove(s, scope, site).kind = "drop_duplicate")
    PROVE  LET plan == PlanRemove(s, scope, site) IN
           \/ /\ plan = Plan("no_match", 0) /\ ~Addressed(s, scope, site)
              /\ \A j \in 1..Len(s.dups) : ~Addressed(s.dups[j], scope, site)
           \/ plan = Plan("delete", 0) /\ s.dups = <<>> /\ Addressed(s, scope, site)
           \/ plan = Plan("promote", 1) /\ s.dups # <<>> /\ Addressed(s, scope, site)
           \/ \E i \in 1..Len(s.dups) :
                 /\ plan = Plan("drop_duplicate", i)
                 /\ ~Addressed(s, scope, site) /\ Addressed(s.dups[i], scope, site)
                 /\ \A j \in 1..Len(s.dups) : Addressed(s.dups[j], scope, site) => i <= j
<1> DEFINE A == {i \in 1..Len(s.dups) : Addressed(s.dups[i], scope, site)}
           manual == SelectInSeq(s.dups, LAMBDA d : Addressed(d, scope, site) /\ d.type # "auto")
           any == SelectInSeq(s.dups, LAMBDA d : Addressed(d, scope, site))
<1>1. any = IF A # {} THEN Min(A) ELSE 0 BY DEF SelectInSeq
<1>2. A \subseteq Nat BY SeatFacts
<1>3. A # {} => Min(A) \in A /\ \A j \in A : Min(A) <= j BY ONLY <1>2, LeastMember
<1>4. PlanRemove(s, scope, site) =
        LET primary == Addressed(s, scope, site) IN
        IF primary /\ s.type = "auto" /\ manual > 0 THEN Plan("drop_duplicate", manual)
        ELSE IF primary /\ s.dups = <<>> THEN Plan("delete", 0)
        ELSE IF primary THEN Plan("promote", 1)
        ELSE IF any > 0 THEN Plan("drop_duplicate", any)
        ELSE Plan("no_match", 0)
  BY DEF PlanRemove
<1> HIDE DEF manual, any
<1>5. any > 0 => any \in 1..Len(s.dups) /\ Addressed(s.dups[any], scope, site)
                 /\ \A j \in 1..Len(s.dups) : Addressed(s.dups[j], scope, site) => any <= j
  BY <1>1, <1>3
<1>6. ~(any > 0) => \A j \in 1..Len(s.dups) : ~Addressed(s.dups[j], scope, site)
  <2>1. \A j \in A : j > 0 BY SeatFacts
  <2> QED BY <1>1, <1>3, <2>1
<1>7. \A i : Plan("drop_duplicate", i).kind = "drop_duplicate" BY DEF Plan
<1> HIDE DEF A
<1>8. CASE Addressed(s, scope, site) BY <1>4, <1>7, <1>8
<1>9. CASE ~Addressed(s, scope, site) BY <1>4, <1>5, <1>6, <1>9
<1> QED BY <1>8, <1>9

LEMMA DeleteTakesOne ==
    ASSUME NEW s \in Seat, s.dups = <<>>
    PROVE  ApplyRemove(s, Plan("delete", 0)) = NoSeat /\ TakesOne(s, NoSeat, 1)
<1>1. ApplyRemove(s, Plan("delete", 0)) = NoSeat BY DEF ApplyRemove, Plan
<1>2. Len(AllGrants(s)) = 1
  <2>1. Len(s.dups) = 0 BY NoGrants
  <2>2. Len(AllGrants(s)) = 1 + Len(s.dups) BY AllGrantsIs
  <2> QED BY <2>1, <2>2
<1>3. AllGrants(NoSeat) \in Seq(Grant) /\ Len(AllGrants(NoSeat)) = 0 BY NoGrants, EmptySeq
<1>4. \A j \in 1..0 : FALSE OBVIOUS
<1> QED BY <1>1, <1>2, <1>3, <1>4 DEF TakesOne

\* What the trigger does to the grants of a seat.
LEMMA TriggerTakes ==
    ASSUME NEW s \in Seat, Sound(s), NEW scope, NEW site
    PROVE  LET t == ApplyRemove(s, PlanRemove(s, scope, site)) IN
           t = s \/ \E k : TakesOne(s, t, k)
<1> DEFINE plan == PlanRemove(s, scope, site)
           t == ApplyRemove(s, plan)
<1>1. CASE plan = Plan("no_match", 0) BY <1>1 DEF ApplyRemove, Plan
<1>2. CASE plan = Plan("delete", 0) /\ s.dups = <<>> BY <1>2, DeleteTakesOne
<1>3. CASE plan = Plan("promote", 1) /\ s.dups # <<>> BY <1>3, PromoteTakesOne
<1>4. ASSUME NEW i \in 1..Len(s.dups), plan = Plan("drop_duplicate", i) PROVE TakesOne(s, t, i + 1)
  <2>1. i # 0 BY SeatFacts
  <2>2. t = WithDups(s, RemoveAt(s.dups, i)) BY <1>4, <2>1 DEF ApplyRemove, Plan
  <2> QED BY <2>2, DropTakesOne
<1> HIDE DEF plan
<1>5. \/ plan = Plan("no_match", 0)
      \/ plan = Plan("delete", 0) /\ s.dups = <<>>
      \/ plan = Plan("promote", 1) /\ s.dups # <<>>
      \/ \E i \in 1..Len(s.dups) : plan = Plan("drop_duplicate", i)
  BY PlanRemoveCases DEF plan
<1> QED BY <1>1, <1>2, <1>3, <1>4, <1>5 DEF plan

\* In a seat in its places, it is the first grant of the scope.
LEMMA RemoveTakesFirst ==
    ASSUME NEW req, Listed(req), req.type = "remove", NEW s \in Seat, InPlace(s), ~Beside(s, req)
    PROVE  LET t == ApplyRemove(s, PlanRemove(s, req.scope, req.site))
               f == FirstOfScope(AllGrants(s), req.scope) IN
           (f = 0 /\ t = s) \/ (f # 0 /\ TakesOne(s, t, f))
<1> DEFINE scope == req.scope
           site == req.site
           plan == PlanRemove(s, scope, site)
           t == ApplyRemove(s, plan)
           L == AllGrants(s)
           n == Len(s.dups)
           f == FirstOfScope(L, scope)
<1>1. \A g \in Grants(s) : Addressed(g, scope, site) <=> g.scope = scope
  BY InPlaceIs DEF Listed, RequestSite, Addressed
<1>2. Addressed(s, scope, site) <=> s.scope = scope BY <1>1, SeatFacts DEF Addressed, Primary
<1>3. \A j \in 1..n : Addressed(s.dups[j], scope, site) <=> s.dups[j].scope = scope BY <1>1, SeatFacts
<1>4. s # NoSeat /\ n \in Nat BY SeatFacts
<1>5. ~(Addressed(s, scope, site) /\ plan.kind = "drop_duplicate") BY <1>2, <1>4 DEF Beside
<1>6. /\ L \in Seq(Grant) /\ Len(L) = 1 + n /\ L[1] = Primary(s)
      /\ \A j \in 1..n : L[j + 1] = s.dups[j]
  BY AllGrantsIs
<1>7. L[1].scope = s.scope BY <1>6 DEF Primary
<1> HIDE DEF L
<1>8. /\ f \in 0..1 + n
      /\ f > 0 => L[f].scope = scope /\ \A j \in 1..1 + n : L[j].scope = scope => f <= j
      /\ f = 0 => \A j \in 1..1 + n : L[j].scope # scope
  BY <1>6, FirstIs
<1> HIDE DEF f
<1>9. Sound(s) BY <1>4 DEF InPlace
<1>10. \A j \in 1..1 + n : j = 1 \/ (j - 1 \in 1..n /\ L[j] = s.dups[j - 1])
  <2> SUFFICES ASSUME NEW j \in 1..1 + n, j # 1 PROVE j - 1 \in 1..n /\ L[j] = s.dups[j - 1]
    OBVIOUS
  <2>1. j - 1 \in 1..n /\ (j - 1) + 1 = j BY <1>4
  <2> QED BY <1>6, <2>1
<1>11. s.scope = scope => f = 1
  <2>1. 1 \in 1..1 + n BY <1>4
  <2> QED BY <1>4, <1>7, <1>8, <2>1
<1>12. CASE /\ plan = Plan("no_match", 0) /\ ~Addressed(s, scope, site)
            /\ \A j \in 1..n : ~Addressed(s.dups[j], scope, site)
  <2>1. t = s BY <1>12 DEF ApplyRemove, Plan
  <2>2. \A j \in 1..1 + n : L[j].scope # scope BY <1>2, <1>3, <1>7, <1>10, <1>12
  <2>3. f = 0 BY <1>4, <1>8, <2>2
  <2> QED BY <2>1, <2>3 DEF f, L
<1>13. CASE plan = Plan("delete", 0) /\ s.dups = <<>> /\ Addressed(s, scope, site)
  <2>1. TakesOne(s, t, 1) BY <1>13, DeleteTakesOne
  <2>2. f = 1 BY <1>2, <1>11, <1>13
  <2> QED BY <2>1, <2>2 DEF f, L
<1>14. CASE plan = Plan("promote", 1) /\ s.dups # <<>> /\ Addressed(s, scope, site)
  <2>1. TakesOne(s, t, 1) BY <1>9, <1>14, PromoteTakesOne
  <2>2. f = 1 BY <1>2, <1>11, <1>14
  <2> QED BY <2>1, <2>2 DEF f, L
<1>15. ASSUME NEW i \in 1..n, plan = Plan("drop_duplicate", i),
              ~Addressed(s, scope, site), Addressed(s.dups[i], scope, site),
              \A j \in 1..n : Addressed(s.dups[j], scope, site) => i <= j
       PROVE  f # 0 /\ TakesOne(s, t, f)
  <2>1. i # 0 BY <1>4
  <2>2. t = WithDups(s, RemoveAt(s.dups, i)) BY <1>15, <2>1 DEF ApplyRemove, Plan
  <2>3. TakesOne(s, t, i + 1) BY <1>9, <2>2, DropTakesOne
  <2>4. i + 1 \in 1..1 + n /\ L[i + 1].scope = scope BY <1>3, <1>4, <1>6, <1>15
  <2>5. f # 0 /\ f <= i + 1 BY <1>4, <1>8, <2>4
  <2>6. f # 1 BY <1>2, <1>4, <1>7, <1>8, <1>15, <2>5
  <2>7. f - 1 \in 1..n /\ L[f] = s.dups[f - 1] BY <1>4, <1>8, <1>10, <2>5, <2>6
  <2>8. i <= f - 1 BY <1>3, <1>4, <1>8, <1>15, <2>5, <2>7
  <2>9. f = i + 1 BY <1>4, <1>8, <2>5, <2>8
  <2> QED BY <2>3, <2>5, <2>9
<1>16. \/ /\ plan = Plan("no_match", 0) /\ ~Addressed(s, scope, site)
          /\ \A j \in 1..n : ~Addressed(s.dups[j], scope, site)
       \/ plan = Plan("delete", 0) /\ s.dups = <<>> /\ Addressed(s, scope, site)
       \/ plan = Plan("promote", 1) /\ s.dups # <<>> /\ Addressed(s, scope, site)
       \/ \E i \in 1..n : /\ plan = Plan("drop_duplicate", i)
                          /\ ~Addressed(s, scope, site) /\ Addressed(s.dups[i], scope, site)
                          /\ \A j \in 1..n : Addressed(s.dups[j], scope, site) => i <= j
  BY <1>5, PlanRemoveFirst
<1> HIDE DEF plan
<1> QED BY <1>12, <1>13, <1>14, <1>15, <1>16 DEF f, L, plan


LEMMA GrantsListed ==
    ASSUME NEW t \in Seat \cup {NoSeat}
    PROVE  Grants(t) = {AllGrants(t)[j] : j \in 1..Len(AllGrants(t))}
<1>1. CASE t \in Seat BY <1>1, AllGrantsIs
<1>2. CASE t = NoSeat
  <2>1. 1..Len(AllGrants(t)) = {} BY <1>2, NoGrants
  <2> QED BY <1>2, <2>1, NoGrants
<1> QED BY <1>1, <1>2

\* What a seat holds on a site once one grant is gone.
LEMMA HoldsWithout ==
    ASSUME NEW s \in Seat, NEW t \in Seat \cup {NoSeat}, NEW k, TakesOne(s, t, k), NEW site, NEW b
    PROVE  b \in CurrentSeatBuildings(t, site) <=>
           \E j \in (1..Len(AllGrants(s))) \ {k} :
              GrantSite(AllGrants(s)[j]) = site /\ b \in AllGrants(s)[j].buildings
<1> DEFINE L == AllGrants(s)
           M == AllGrants(t)
           Up(j) == IF j < k THEN j ELSE j + 1
<1>1. /\ k \in 1..Len(L) /\ Len(L) \in Nat /\ Len(M) = Len(L) - 1
      /\ \A j \in 1..Len(M) : Same(L[Up(j)], M[j])
  BY AllGrantsIs, LenProperties DEF TakesOne
<1>2. Grants(t) = {M[j] : j \in 1..Len(M)} BY GrantsListed
<1> HIDE DEF L, M
<1>3. \A j \in 1..Len(M) : Up(j) \in (1..Len(L)) \ {k} BY <1>1
<1>4. \A i \in (1..Len(L)) \ {k} : \E j \in 1..Len(M) : i = Up(j)
  <2> SUFFICES ASSUME NEW i \in (1..Len(L)) \ {k} PROVE \E j \in 1..Len(M) : i = Up(j)
    OBVIOUS
  <2>1. CASE i < k
    <3>1. i \in 1..Len(M) /\ i = Up(i) BY <1>1, <2>1
    <3> QED BY <3>1
  <2>2. CASE ~(i < k)
    <3>1. i - 1 \in 1..Len(M) /\ i = Up(i - 1) BY <1>1, <2>2
    <3> QED BY <3>1
  <2> QED BY <2>1, <2>2
<1> HIDE DEF Up
<1>5. b \in CurrentSeatBuildings(t, site) <=>
      \E j \in 1..Len(M) : GrantSite(M[j]) = site /\ b \in M[j].buildings
  BY <1>2, AtSite DEF CurrentSeatBuildings
<1>6. \A j \in 1..Len(M) : GrantSite(M[j]) = GrantSite(L[Up(j)]) /\ M[j].buildings = L[Up(j)].buildings
  BY <1>1, SameCounts
<1>7. b \in CurrentSeatBuildings(t, site) <=>
      \E i \in (1..Len(L)) \ {k} : GrantSite(L[i]) = site /\ b \in L[i].buildings
  BY <1>3, <1>4, <1>5, <1>6
<1> QED BY <1>7 DEF L

LEMMA NothingToRemove == ASSUME NEW req PROVE ComputePostRemovalBuildings(NoSeat, req) = {}
<1> DEFINE f == FirstOfScope(<<>>, req.scope)
<1>1. <<>> \in Seq(Grant) BY EmptySeq
<1>2. f \in 0..Len(<<>>) BY <1>1, FirstIs
<1>3. f = 0 BY <1>2, NoGrants
<1>4. DropFirst(<<>>, req.scope) = <<>> BY <1>3 DEF DropFirst
<1>5. ToSet(<<>>) = {} BY NoGrants DEF ToSet
<1> QED BY <1>4, <1>5, NoGrants DEF ComputePostRemovalBuildings, BuildingsAt

\* What the extension expects to be left after a remove.
LEMMA LeftIs ==
    ASSUME NEW s \in Seat \cup {NoSeat}, NEW req, NEW b
    PROVE  b \in ComputePostRemovalBuildings(s, req) <=>
           \E j \in (1..Len(AllGrants(s))) \ {FirstOfScope(AllGrants(s), req.scope)} :
              GrantSite(AllGrants(s)[j]) = RequestSite(req) /\ b \in AllGrants(s)[j].buildings
<1>1. CASE s \in Seat
  <2>1. AllGrants(s) \in Seq(Grant) BY <1>1, AllGrantsIs
  <2> QED BY <2>1, DropFirstIs, AtSite DEF ComputePostRemovalBuildings
<1>2. CASE s = NoSeat
  <2>1. 1..Len(AllGrants(s)) = {} BY <1>2, NoGrants
  <2> QED BY <1>2, <2>1, NothingToRemove
<1> QED BY <1>1, <1>2

LEMMA RemovePredicted ==
    ASSUME NEW req, Listed(req), req.type = "remove", NEW s \in Seat, InPlace(s), ~Beside(s, req)
    PROVE  ComputePostRemovalBuildings(s, req) =
           CurrentSeatBuildings(ApplyRemove(s, PlanRemove(s, req.scope, req.site)), RequestSite(req))
<1> DEFINE t == ApplyRemove(s, PlanRemove(s, req.scope, req.site))
           L == AllGrants(s)
           f == FirstOfScope(L, req.scope)
           site == RequestSite(req)
<1>1. t \in Seat \cup {NoSeat} BY ApplyRemoveSound, SeatFacts DEF InPlace
<1>2. (f = 0 /\ t = s) \/ (f # 0 /\ TakesOne(s, t, f)) BY RemoveTakesFirst
<1>3. \A b : b \in ComputePostRemovalBuildings(s, req) <=>
             \E j \in (1..Len(L)) \ {f} : GrantSite(L[j]) = site /\ b \in L[j].buildings
  BY LeftIs
<1>4. Grants(s) = {L[j] : j \in 1..Len(L)} /\ Len(L) \in Nat BY AllGrantsIs, LenProperties
<1> HIDE DEF t, f, site, L
<1>5. CASE f = 0 /\ t = s
  <2>1. (1..Len(L)) \ {f} = 1..Len(L) BY <1>4, <1>5
  <2>2. \A b : b \in CurrentSeatBuildings(t, site) <=>
               \E j \in 1..Len(L) : GrantSite(L[j]) = site /\ b \in L[j].buildings
    BY <1>4, <1>5, AtSite DEF CurrentSeatBuildings
  <2>3. \A b : b \in CurrentSeatBuildings(t, site) <=> b \in ComputePostRemovalBuildings(s, req)
    BY <1>3, <2>1, <2>2
  <2> QED BY <2>3 DEF t, site
<1>6. CASE TakesOne(s, t, f)
  <2>1. ASSUME NEW b
        PROVE  b \in CurrentSeatBuildings(t, site) <=> b \in ComputePostRemovalBuildings(s, req)
    <3>1. b \in CurrentSeatBuildings(t, site) <=>
          \E j \in (1..Len(L)) \ {f} : GrantSite(L[j]) = site /\ b \in L[j].buildings
      BY <1>1, <1>6, HoldsWithout DEF L
    <3> QED BY <1>3, <3>1
  <2> QED BY <2>1 DEF t, site
<1> QED BY <1>2, <1>5, <1>6

\* A remove of any seat, or of none.
LEMMA RemovalPredicted ==
    ASSUME NEW req, Listed(req), req.type = "remove", NEW s \in Seat \cup {NoSeat}, InPlace(s),
           ~Beside(s, req)
    PROVE  Target(s, req) =
           CurrentSeatBuildings(IF s = NoSeat THEN NoSeat ELSE ApplyRemove(s, PlanRemove(s, req.scope, req.site)),
                                RequestSite(req))
<1>1. Target(s, req) = ComputePostRemovalBuildings(s, req)
  BY DEF Target, AddTypes, EditTypes
<1>2. CASE s = NoSeat
  <2>1. CurrentSeatBuildings(NoSeat, RequestSite(req)) = {}
    BY NoGrants DEF CurrentSeatBuildings, BuildingsAt
  <2> QED BY <1>1, <1>2, <2>1, NothingToRemove
<1>3. CASE s # NoSeat BY <1>1, <1>3, RemovePredicted
<1> QED BY <1>2, <1>3

-----------------------------------------------------------------------------
(* The invariant: seats in their places, requests as the rules admit them. *)

Orderly ==
    /\ \A m \in Members : InPlace(seats[m])
    /\ \A r \in ReqIds : Exists(r) => Listed(Body(r))

\* Wherever a request meets a seat, the two programs agree.
LEMMA OrderlyPredicts == ASSUME SeatsSound, Orderly PROVE PredictionsHold
<1> SUFFICES ASSUME NEW r \in ReqIds, Completable(r), ~Beside(seats[Body(r).member], Body(r))
             PROVE  Predicted(r)
  BY DEF PredictionsHold
<1> DEFINE req == Body(r)
           s == seats[req.member]
           site == RequestSite(req)
<1>1. TypeOK /\ Exists(r) BY DEF SeatsSound, Completable, HasStatus
<1>2. Listed(req) /\ req.member \in Members /\ req \in Input BY <1>1, BodyType DEF Orderly
<1>3. InPlace(s) /\ s \in Seat \cup {NoSeat} BY <1>1, <1>2 DEF Orderly, TypeOK
<1>4. req.type \in AddTypes \/ req.type \in EditTypes \/ req.type = "remove" BY <1>2 DEF Input, Types
<1>5. /\ req.type \in AddTypes => req.type \notin EditTypes /\ req.type # "remove"
      /\ req.type \in EditTypes => req.type # "remove"
  BY DEF AddTypes, EditTypes
<1>6. ~Beside(s, req) OBVIOUS
<1>7. req.type \in EditTypes => s # NoSeat /\ HasSlot(s, req.scope, EditType(req.type)) BY DEF Completable
<1>8. Predicted(r) <=> Target(s, req) = CurrentSeatBuildings(SeatAfter(r), site) BY DEF Predicted
<1>9. SeatAfter(r) = CASE req.type \in AddTypes  -> IF s = NoSeat THEN NewSeat(req) ELSE PlanAddMerge(s, req)
                       [] req.type \in EditTypes -> IF Completable(r) THEN PlanEditSeat(s, req) ELSE s
                       [] req.type = "remove"    -> IF s = NoSeat THEN NoSeat
                                                    ELSE ApplyRemove(s, PlanRemove(s, req.scope, req.site))
  BY DEF SeatAfter
<1> HIDE DEF req, s, site
<1>10. CASE req.type \in AddTypes
  <2>1. Target(s, req) = AddTarget(s, req) BY <1>5, <1>10 DEF Target
  <2>2. SeatAfter(r) = IF s = NoSeat THEN NewSeat(req) ELSE PlanAddMerge(s, req) BY <1>5, <1>9, <1>10
  <2> QED BY <1>2, <1>3, <1>8, <1>10, <2>1, <2>2, NewSeatPredicted, AddPredicted DEF site
<1>11. CASE req.type \in EditTypes
  <2>1. Target(s, req) = EditTarget(s, req) BY <1>5, <1>11 DEF Target
  <2>2. SeatAfter(r) = PlanEditSeat(s, req) BY <1>5, <1>9, <1>11
  <2> QED BY <1>2, <1>3, <1>7, <1>8, <1>11, <2>1, <2>2, EditPredicted DEF site
<1>12. CASE req.type = "remove"
  <2>1. SeatAfter(r) = IF s = NoSeat THEN NoSeat ELSE ApplyRemove(s, PlanRemove(s, req.scope, req.site))
    BY <1>5, <1>9, <1>12
  <2> QED BY <1>2, <1>3, <1>6, <1>8, <1>12, <2>1, RemovalPredicted DEF site
<1> QED BY <1>4, <1>10, <1>11, <1>12

-----------------------------------------------------------------------------
(* Grants stay in their places.                                            *)

LEMMA NewSeatPlaced ==
    ASSUME NEW req \in Input
    PROVE  \A g \in Grants(NewSeat(req)) : Placed(g)
<1> DEFINE t == NewSeat(req)
<1>1. t \in Seat /\ t.dups = <<>> BY NewSeatSound DEF NewSeat
<1>2. Grants(t) = {Primary(t)} BY <1>1, SeatFacts, NoGrants
<1>3. Placed(Primary(t)) BY DEF Placed, Primary, NewSeat, NormSite
<1> QED BY <1>2, <1>3

LEMMA AddPlaced ==
    ASSUME NEW req \in Input, NEW s \in Seat, Sound(s), \A g \in Grants(s) : Placed(g)
    PROVE  \A g \in Grants(PlanAddMerge(s, req)) : Placed(g)
<1> DEFINE t == PlanAddMerge(s, req)
<1>1. ASSUME NEW g, NEW h, Merges(s, t, req, g, h) PROVE \A k \in Grants(t) : Placed(k)
  <2>1. Placed(h) BY <1>1 DEF Merges, Gains, Placed
  <2> QED BY <1>1, <2>1 DEF Merges
<1>2. Placed(NewDuplicate(req)) BY DEF Placed, NewDuplicate, NormSite
<1>3. \/ \E g, h : Merges(s, t, req, g, h)
      \/ Grants(t) = Grants(s) \cup {NewDuplicate(req)}
  BY AddShape
<1> QED BY <1>1, <1>2, <1>3

LEMMA EditPlaced ==
    ASSUME NEW req \in Input, req.type \in EditTypes, NEW s \in Seat, Sound(s),
           HasSlot(s, req.scope, EditType(req.type)), \A g \in Grants(s) : Placed(g)
    PROVE  \A g \in Grants(PlanEditSeat(s, req)) : Placed(g)
<1> DEFINE t == PlanEditSeat(s, req)
           Place(g) == <<Slot(g), g.site>>
<1>1. {Place(g) : g \in Grants(t)} = {Place(g) : g \in Grants(s)}
  BY PlanEditSeatSound DEF EditsOneSlot
<1>2. ASSUME NEW g, NEW h, Place(g) = Place(h), Placed(h) PROVE Placed(g)
  BY <1>2 DEF Slot, Placed
<1> HIDE DEF Place, t
<1>3. \A g \in Grants(t) : \E h \in Grants(s) : Place(g) = Place(h) BY <1>1
<1> QED BY <1>2, <1>3 DEF t

\* Every grant that is left was there.
LEMMA WhatIsLeft ==
    ASSUME NEW s \in Seat, NEW t \in Seat \cup {NoSeat}, NEW k, TakesOne(s, t, k)
    PROVE  \A h \in Grants(t) : \E g \in Grants(s) : Same(g, h)
<1> DEFINE L == AllGrants(s)
           M == AllGrants(t)
<1>1. /\ k \in 1..Len(L) /\ Len(L) \in Nat /\ Len(M) = Len(L) - 1
      /\ \A j \in 1..Len(M) : Same(L[IF j < k THEN j ELSE j + 1], M[j])
  BY AllGrantsIs, LenProperties DEF TakesOne
<1>2. Grants(t) = {M[j] : j \in 1..Len(M)} /\ Grants(s) = {L[j] : j \in 1..Len(L)}
  BY GrantsListed
<1> HIDE DEF L, M
<1>3. \A j \in 1..Len(M) : (IF j < k THEN j ELSE j + 1) \in 1..Len(L) BY <1>1
<1> QED BY <1>1, <1>2, <1>3

LEMMA TriggerLeaves ==
    ASSUME NEW s \in Seat, Sound(s), NEW scope, NEW site
    PROVE  \A h \in Grants(ApplyRemove(s, PlanRemove(s, scope, site))) : \E g \in Grants(s) : Same(g, h)
<1> DEFINE t == ApplyRemove(s, PlanRemove(s, scope, site))
<1>1. t \in Seat \cup {NoSeat} BY ApplyRemoveSound
<1>2. t = s \/ \E k : TakesOne(s, t, k) BY TriggerTakes
<1>3. \A g \in Grants(s) : Same(g, g) BY DEF Same
<1> QED BY <1>1, <1>2, <1>3, WhatIsLeft

-----------------------------------------------------------------------------
(* The steps of the composed system.                                       *)

\* The desk's run is of a request there is.
Running == desk # Idle => desk.req \in ReqIds /\ Exists(desk.req)

\* What a step does to the documents: nothing, or what one handler does.
LEMMA DocumentCases ==
    ASSUME Running, PNext
    PROVE  \/ UNCHANGED vars
           \/ \E r \in ReqIds : CompleteRequest(r)
           \/ \E r \in ReqIds, input \in Inputs : Submit(r, input)
           \/ \E r \in ReqIds : Cancel(r) \/ Reject(r)
           \/ \E r \in ReqIds : SeatTrigger(r)
<1>1. ASSUME NEW r \in ReqIds, StartRun(r) PROVE UNCHANGED vars BY <1>1 DEF StartRun
<1>2. ASSUME LookupUser \/ RunStops \/ MarkRefused PROVE UNCHANGED vars
  BY <1>2 DEF LookupUser, RunStops, MarkRefused
<1>3. ASSUME NEW a \in BOOLEAN, KindooCall(a) PROVE UNCHANGED vars BY <1>3 DEF KindooCall
<1>4. ASSUME NEW a \in BOOLEAN, MarkComplete(a) PROVE \E r \in ReqIds : CompleteRequest(r)
  <2>1. CompleteRequest(desk.req) /\ desk # Idle BY <1>4 DEF MarkComplete, Idle
  <2> QED BY <2>1 DEF Running
<1>5. ASSUME Clients
      PROVE  \/ \E r \in ReqIds, input \in Inputs : Submit(r, input)
             \/ \E r \in ReqIds : Cancel(r) \/ Reject(r)
             \/ \E r \in ReqIds : SeatTrigger(r)
  BY <1>5 DEF Clients
<1> QED BY <1>1, <1>2, <1>3, <1>4, <1>5 DEF PNext, Desk

LEMMA DocumentStep == ASSUME Running, [PNext]_pvars PROVE [Next]_vars
<1>1. CASE UNCHANGED pvars BY <1>1 DEF pvars
<1>2. ASSUME NEW r \in ReqIds, CompleteRequest(r) PROVE RequestNext(r)
  <2>1. {"manager"} \in Notes BY DEF Notes
  <2> QED BY <1>2, <2>1 DEF CompleteRequest, RequestNext
<1>3. ASSUME NEW r \in ReqIds, NEW input \in Inputs, Submit(r, input) PROVE RequestNext(r)
  BY <1>3 DEF RequestNext
<1>4. ASSUME NEW r \in ReqIds, Cancel(r) \/ Reject(r) \/ SeatTrigger(r) PROVE RequestNext(r)
  BY <1>4 DEF RequestNext
<1>5. CASE PNext
  <2>1. UNCHANGED vars \/ \E r \in ReqIds : RequestNext(r)
    BY <1>2, <1>3, <1>4, <1>5, DocumentCases
  <2> QED BY <2>1 DEF Next
<1> QED BY <1>1, <1>5

\* A seat stays in its places.
LEMMA PlacesStay ==
    ASSUME SeatsSound, Orderly, Running, PNext, SeatsSound', NEW m \in Members
    PROVE  InPlace(seats'[m])
<1>1. TypeOK BY DEF SeatsSound
<1>2. Seated(seats'[m])
  <2>1. \A u \in Members : (seats'[u] # NoSeat => SlotsDistinct(seats'[u])
                             /\ seats'[u].dupScopes = ScopesOf(seats'[u].dups))
                            /\ Stamped(seats'[u]) /\ seats'[u] \in Seat \cup {NoSeat}
    BY DEF SeatsSound, TypeOK, UniqueSlots, MirrorsAgree, ForeignGrantsStamped
  <2> QED BY <2>1 DEF Seated, Sound
<1>3. \A u \in Members : InPlace(seats[u]) /\ Seated(seats[u]) BY SeatsSoundIs DEF Orderly
<1>4. ASSUME \A g \in Grants(seats'[m]) : Placed(g) PROVE InPlace(seats'[m])
  BY <1>2, <1>4 DEF InPlace, Seated
<1>5. ASSUME seats'[m] = seats[m] PROVE InPlace(seats'[m]) BY <1>3, <1>5
<1>6. ASSUME NEW u \in Members, NEW t, seats' = [seats EXCEPT ![u] = t], \A g \in Grants(t) : Placed(g)
      PROVE  InPlace(seats'[m])
  <2>1. seats'[m] = IF m = u THEN t ELSE seats[m] BY <1>1, <1>6 DEF TypeOK
  <2> QED BY <1>4, <1>5, <1>6, <2>1
<1>7. ASSUME NEW r \in ReqIds, HasStatus(r, "pending") \/ HasStatus(r, "complete")
      PROVE  Body(r) \in Input /\ Body(r).member \in Members
  BY <1>1, <1>7, BodyType DEF HasStatus
<1>8. ASSUME NEW s, InPlace(s), s # NoSeat PROVE s \in Seat /\ Sound(s) /\ \A g \in Grants(s) : Placed(g)
  BY <1>8 DEF InPlace
<1>9. ASSUME NEW r \in ReqIds, CompleteAdd(r, {"manager"}) PROVE InPlace(seats'[m])
  <2> DEFINE b == Body(r)
             s == seats[b.member]
             t == IF s = NoSeat THEN NewSeat(b) ELSE PlanAddMerge(s, b)
  <2>1. HasStatus(r, "pending") /\ seats' = [seats EXCEPT ![b.member] = t] BY <1>9 DEF CompleteAdd
  <2>2. b \in Input /\ b.member \in Members BY <1>7, <2>1
  <2>3. \A g \in Grants(t) : Placed(g) BY <1>3, <1>8, <2>2, NewSeatPlaced, AddPlaced
  <2> HIDE DEF t
  <2> QED BY <1>6, <2>1, <2>2, <2>3
<1>10. ASSUME NEW r \in ReqIds, CompleteEdit(r, {"manager"}) PROVE InPlace(seats'[m])
  <2> DEFINE b == Body(r)
             s == seats[b.member]
             t == PlanEditSeat(s, b)
  <2>1. /\ HasStatus(r, "pending") /\ seats' = [seats EXCEPT ![b.member] = t]
        /\ b.type \in EditTypes /\ s # NoSeat /\ HasSlot(s, b.scope, EditType(b.type))
    BY <1>10 DEF CompleteEdit
  <2>2. b \in Input /\ b.member \in Members BY <1>7, <2>1
  <2>3. \A g \in Grants(t) : Placed(g) BY <1>3, <1>8, <2>1, <2>2, EditPlaced
  <2> HIDE DEF t
  <2> QED BY <1>6, <2>1, <2>2, <2>3
<1>11. ASSUME NEW r \in ReqIds, CompleteRemove(r, {"manager"}) PROVE InPlace(seats'[m])
  BY <1>5, <1>11 DEF CompleteRemove
<1>12. ASSUME NEW r \in ReqIds, SeatTrigger(r) PROVE InPlace(seats'[m])
  <2> DEFINE b == Body(r)
             s == seats[b.member]
             t == ApplyRemove(s, PlanRemove(s, b.scope, b.site))
  <2>1. HasStatus(r, "complete") BY <1>12 DEF SeatTrigger
  <2>2. b \in Input /\ b.member \in Members BY <1>7, <2>1
  <2>3. seats' = seats \/ (s # NoSeat /\ seats' = [seats EXCEPT ![b.member] = t])
    BY <1>12 DEF SeatTrigger
  <2>4. ASSUME s # NoSeat PROVE \A g \in Grants(t) : Placed(g)
    <3>1. s \in Seat /\ Sound(s) /\ \A g \in Grants(s) : Placed(g) BY <1>3, <1>8, <2>2, <2>4
    <3> QED BY <3>1, TriggerLeaves, SameCounts
  <2> HIDE DEF t
  <2> QED BY <1>5, <1>6, <2>2, <2>3, <2>4
<1>13. \/ seats' = seats
       \/ \E r \in ReqIds : CompleteRequest(r)
       \/ \E r \in ReqIds : SeatTrigger(r)
  BY DocumentCases DEF vars, Submit, Cancel, Reject
<1> QED BY <1>5, <1>9, <1>10, <1>11, <1>12, <1>13 DEF CompleteRequest

\* A request as a row offers it.
LEMMA SubmitListed ==
    ASSUME SeatsSound, Orderly, NEW r \in ReqIds, NEW input \in Inputs, Submit(r, input)
    PROVE  Listed(input)
<1>1. input \in Input /\ input.member \in Members BY InputsAssumption DEF Input
<1>2. input.type # "remove" => input.buildings # {} BY BuildingsAssumption
<1>3. ASSUME input.type = "remove", input.site # Unset PROVE input.site = RequestSite(input)
  <2> DEFINE s == seats[input.member]
  <2>1. OfferedBy(s, input) BY DEF Submit
  <2>2. PICK g \in Grants(s) : Addressed(g, input.scope, input.site)
    <3>1. input.type \notin EditTypes BY <1>3 DEF EditTypes
    <3> QED BY <1>3, <2>1, <3>1 DEF OfferedBy
  <2>3. s \in Seat BY <1>1, <2>2, SeatsSoundIs, NoGrants DEF Seated
  <2>4. InPlace(s) BY <1>1 DEF Orderly
  <2>5. NormSite(g.site) = NormSite(SiteOf(g.scope)) BY <2>3, <2>4, InPlaceIs
  <2> QED BY <1>3, <2>2, <2>5 DEF Addressed, RequestSite
<1> QED BY <1>1, <1>2, <1>3 DEF Listed

LEMMA RequestsStayListed ==
    ASSUME SeatsSound, Orderly, Running, PNext, NEW r \in ReqIds, Exists(r)'
    PROVE  Listed(Body(r)')
<1>1. TypeOK BY DEF SeatsSound
<1>2. ASSUME Exists(r) PROVE Listed(Body(r)')
  <2>1. [Next]_vars BY DocumentStep
  <2>2. CASE Next
    <3>1. requests'[r].body = requests[r].body BY <1>2, <2>2, RequestStays
    <3> QED BY <1>2, <3>1 DEF Orderly, Body
  <2>3. CASE UNCHANGED vars
    <3>1. requests'[r].body = requests[r].body BY <2>3 DEF vars
    <3> QED BY <1>2, <3>1 DEF Orderly, Body
  <2> QED BY <2>1, <2>2, <2>3
<1>3. ASSUME NEW q \in ReqIds, NEW input \in Inputs, Submit(q, input), ~Exists(r) PROVE Listed(Body(r)')
  <2>1. requests' = [requests EXCEPT ![q] =
           [body |-> input, status |-> "pending", outcome |-> "none", note |-> {}]]
    BY <1>3 DEF Submit
  <2>2. q = r BY <1>1, <1>3, <2>1 DEF Exists, TypeOK
  <2>3. Body(r)' = input BY <1>1, <2>1, <2>2 DEF Body, TypeOK
  <2> QED BY <1>3, <2>3, SubmitListed
<1>4. ASSUME NEW q \in ReqIds, HasStatus(q, "pending") \/ HasStatus(q, "complete"),
             \/ requests' = requests
             \/ \E f : requests' = [requests EXCEPT ![q] = f]
      PROVE  Exists(r)
  BY <1>1, <1>4 DEF Exists, HasStatus, TypeOK
<1>5. ASSUME NEW q \in ReqIds, CompleteRequest(q) \/ Cancel(q) \/ Reject(q) \/ SeatTrigger(q) PROVE Exists(r)
  <2>1. HasStatus(q, "pending") \/ HasStatus(q, "complete")
    BY <1>5 DEF CompleteRequest, CompleteAdd, CompleteEdit, CompleteRemove, Cancel, Reject, SeatTrigger
  <2>2. requests[q] # NoRequest BY <2>1 DEF HasStatus, Exists
  <2>3. q # r => requests'[r] = requests[r]
    BY <1>1, <1>5 DEF CompleteRequest, CompleteAdd, CompleteEdit, CompleteRemove, Completed, Cancel, Reject,
                      SeatTrigger, Shifted, TypeOK
  <2> QED BY <2>2, <2>3 DEF Exists
<1>6. UNCHANGED vars => Exists(r) BY DEF vars, Exists
<1> QED BY <1>2, <1>3, <1>5, <1>6, DocumentCases

LEMMA RunningStep == ASSUME SeatsSound, Running, PNext PROVE Running'
<1>1. ASSUME NEW r \in ReqIds, Exists(r) PROVE Exists(r)'
  <2>1. [Next]_vars BY DocumentStep
  <2>2. CASE Next BY <1>1, <2>2, RequestStays DEF Exists
  <2>3. CASE UNCHANGED vars BY <1>1, <2>3 DEF vars, Exists
  <2> QED BY <2>1, <2>2, <2>3
<1>2. ASSUME NEW r \in ReqIds, StartRun(r) PROVE desk'.req = r /\ Exists(r)
  BY <1>2 DEF StartRun, HasStatus
<1>3. ASSUME NEW a \in BOOLEAN, KindooCall(a) PROVE desk' = Idle \/ (desk # Idle /\ desk'.req = desk.req)
  BY <1>3 DEF KindooCall, Idle
<1>4. ASSUME NEW a \in BOOLEAN, MarkComplete(a) PROVE desk' = Idle \/ desk' = desk
  BY <1>4 DEF MarkComplete
<1>5. ASSUME LookupUser PROVE desk' = Idle \/ (desk # Idle /\ desk'.req = desk.req)
  BY <1>5 DEF LookupUser, Idle
<1>6. ASSUME RunStops \/ MarkRefused PROVE desk' = Idle BY <1>6 DEF RunStops, MarkRefused
<1>7. ASSUME Clients PROVE desk' = desk BY <1>7 DEF Clients
<1>8. \/ desk' = Idle \/ desk' = desk
      \/ desk # Idle /\ desk'.req = desk.req
      \/ \E r \in ReqIds : desk'.req = r /\ Exists(r)
  BY <1>2, <1>3, <1>4, <1>5, <1>6, <1>7 DEF PNext, Desk
<1>9. \A r \in ReqIds : Exists(r) => requests'[r] # NoRequest BY <1>1 DEF Exists
<1> HIDE DEF Idle
<1>10. desk' # Idle => desk'.req \in ReqIds /\ requests'[desk'.req] # NoRequest
  BY <1>8, <1>9 DEF Running
<1> QED BY <1>10 DEF Running, Exists, Idle

\* Requests and seats fit together.
Fits == SeatsSound /\ Orderly /\ Running

LEMMA FitsInit == ASSUME PInit PROVE Fits
<1>1. SeatsSound BY SoundInit DEF PInit
<1>2. \A m \in Members : InPlace(seats[m])
  BY <1>1, SeatsSoundIs, PlacesAssumption DEF PInit, Init, InPlace, Seated
<1>3. \A r \in ReqIds : ~Exists(r) BY DEF PInit, Init, Exists
<1> QED BY <1>1, <1>2, <1>3 DEF Fits, Orderly, Running, PInit

LEMMA FitsStep == ASSUME Fits, [PNext]_pvars PROVE Fits'
<1>1. SeatsSound' BY DocumentStep, SoundStep DEF Fits
<1>2. CASE PNext
  <2>1. \A m \in Members : InPlace(seats'[m]) BY <1>1, <1>2, PlacesStay DEF Fits
  <2>2. \A r \in ReqIds : Exists(r)' => Listed(Body(r)') BY <1>2, RequestsStayListed DEF Fits
  <2>3. Orderly' BY <2>1, <2>2 DEF Orderly
  <2> QED BY <1>1, <1>2, <2>3, RunningStep DEF Fits
<1>3. CASE UNCHANGED pvars
  BY <1>1, <1>3 DEF Fits, Orderly, Running, Exists, Body, pvars, vars
<1> QED BY <1>2, <1>3

\* The extension's prediction of a member's buildings on the site of a request
\* is what the callable and the trigger make of them, wherever the request meets
\* the seat: provision.ts mirrors the planners of markRequestComplete.ts and
\* removeSeatOnRequestComplete.ts but for a remove that meets a manual duplicate
\* beside an automatic primary (Beside).
THEOREM PredictionsStayTrue == PSpec => []PredictionsHold
<1>1. PInit => Fits BY FitsInit
<1>2. Fits /\ [PNext]_pvars => Fits' BY FitsStep
<1>3. Fits => PredictionsHold BY OrderlyPredicts DEF Fits
<1> QED BY <1>1, <1>2, <1>3, PTL DEF PSpec

-----------------------------------------------------------------------------
(* What a request wants only shrinks while it waits: in a run, the seat    *)
(* changes by triggers alone.                                              *)

\* A slot is held by a grant.
LEMMA SlotHeld ==
    ASSUME NEW s \in Seat, NEW scope, NEW type
    PROVE  HasSlot(s, scope, type) <=> \E g \in Grants(s) : Slot(g) = <<scope, type>>
<1> DEFINE n == Len(s.dups)
           i == SlotIndex(s.dups, scope, type)
<1>1. s.dups \in Seq(Grant) /\ n \in Nat BY SeatFacts
<1>2. /\ i \in 0..n
      /\ i > 0 => s.dups[i].scope = scope /\ s.dups[i].type = type
      /\ i = 0 => \A j \in 1..n : ~(s.dups[j].scope = scope /\ s.dups[j].type = type)
  BY <1>1, FirstSlot
<1>3. HasSlot(s, scope, type) <=> (s.scope = scope /\ s.type = type) \/ i > 0 BY DEF HasSlot
<1>4. \A g : Slot(g) = <<scope, type>> <=> g.scope = scope /\ g.type = type BY DEF Slot
<1>5. Primary(s).scope = s.scope /\ Primary(s).type = s.type BY DEF Primary
<1>6. Grants(s) = {Primary(s)} \cup {s.dups[j] : j \in 1..n} BY SeatFacts
<1> HIDE DEF i, n
<1>7. CASE i > 0
  <2>1. i \in 1..n BY <1>1, <1>2, <1>7
  <2> QED BY <1>2, <1>3, <1>4, <1>6, <1>7, <2>1
<1>8. CASE i = 0 BY <1>2, <1>3, <1>4, <1>5, <1>6, <1>8
<1> QED BY <1>1, <1>2, <1>7, <1>8

\* A seat on which one slot was rewritten, seen by its grants.
LEMMA RewrittenPrimary ==
    ASSUME NEW s \in Seat, Sound(s), NEW u \in Seat, u.dups = s.dups
    PROVE  Grants(u) = {Primary(u)} \cup {g \in Grants(s) : Slot(g) # Slot(Primary(s))}
<1>1. \A j \in 1..Len(s.dups) : Slot(s.dups[j]) # Slot(Primary(s)) BY SoundIs, SeatFacts DEF Apart
<1> QED BY <1>1, SeatFacts

LEMMA RewrittenDuplicate ==
    ASSUME NEW s \in Seat, Sound(s), NEW u \in Seat, NEW i \in 1..Len(s.dups), NEW c,
           Primary(u) = Primary(s), Len(u.dups) = Len(s.dups),
           \A j \in 1..Len(s.dups) : u.dups[j] = IF j = i THEN c ELSE s.dups[j]
    PROVE  Grants(u) = {c} \cup {g \in Grants(s) : Slot(g) # Slot(s.dups[i])}
<1> DEFINE n == Len(s.dups)
           slot == Slot(s.dups[i])
<1>1. /\ n \in Nat
      /\ Grants(s) = {Primary(s)} \cup {s.dups[j] : j \in 1..n}
      /\ Grants(u) = {Primary(s)} \cup {u.dups[j] : j \in 1..n}
  BY SeatFacts
<1>2. /\ \A j \in 1..n : Slot(s.dups[j]) # Slot(Primary(s))
      /\ \A j, k \in 1..n : j # k => Slot(s.dups[j]) # Slot(s.dups[k])
  BY SoundIs, SeatFacts DEF Apart
<1>3. \A j \in 1..n : j # i => Slot(s.dups[j]) # slot BY <1>2
<1>4. Slot(Primary(s)) # slot BY <1>2
<1>5. ASSUME NEW g \in Grants(u) PROVE g = c \/ (g \in Grants(s) /\ Slot(g) # slot)
  <2>1. CASE g = Primary(s) BY <1>1, <1>4, <2>1
  <2>2. ASSUME NEW j \in 1..n, g = u.dups[j] PROVE g = c \/ (g \in Grants(s) /\ Slot(g) # slot)
    BY <1>1, <1>3, <2>2
  <2> QED BY <1>1, <2>1, <2>2
<1>6. ASSUME NEW g \in Grants(s), Slot(g) # slot PROVE g \in Grants(u)
  <2>1. CASE g = Primary(s) BY <1>1, <2>1
  <2>2. ASSUME NEW j \in 1..n, g = s.dups[j] PROVE g \in Grants(u)
    <3>1. j # i BY <1>6, <2>2
    <3>2. u.dups[j] = g BY <2>2, <3>1
    <3> QED BY <1>1, <3>2
  <2> QED BY <1>1, <2>1, <2>2
<1>7. c \in Grants(u)
  <2>1. u.dups[i] = c OBVIOUS
  <2> QED BY <1>1, <2>1
<1> HIDE DEF slot
<1>8. Grants(u) = {c} \cup {g \in Grants(s) : Slot(g) # slot} BY ONLY <1>5, <1>6, <1>7
<1> QED BY <1>8 DEF slot

\* An edit wants its buildings, and what the other grants of the site hold - all
\* of them when its slot is gone.
LEMMA EditTargetOfSeat ==
    ASSUME NEW req, Listed(req), req.type \in EditTypes, NEW s \in Seat, InPlace(s), NEW b
    PROVE  b \in EditTarget(s, req) <=>
           \/ b \in req.buildings
           \/ \E g \in Grants(s) : /\ Slot(g) # <<req.scope, EditType(req.type)>>
                                   /\ GrantSite(g) = RequestSite(req) /\ b \in g.buildings
<1> DEFINE type == EditType(req.type)
           slot == <<req.scope, type>>
           n == Len(s.dups)
           i == SlotIndex(s.dups, req.scope, type)
           site == RequestSite(req)
           Split(u, c) == /\ Grants(u) = {c} \cup {g \in Grants(s) : Slot(g) # slot}
                          /\ GrantSite(c) = site /\ c.buildings = req.buildings
           Others == \E g \in Grants(s) : Slot(g) # slot /\ GrantSite(g) = site /\ b \in g.buildings
<1>1. s.dups \in Seq(Grant) /\ n \in Nat /\ \A j \in 1..n : s.dups[j] \in Grant BY SeatFacts
<1>2. i \in 0..n /\ (i > 0 => s.dups[i].scope = req.scope /\ s.dups[i].type = type)
  BY <1>1, FirstSlot
<1>3. s # NoSeat /\ Sound(s) BY SeatFacts DEF InPlace
<1>4. req.buildings \in SUBSET Buildings BY DEF Listed, Input
<1>5. \A g \in Grants(s) : g.scope = req.scope => GrantSite(g) = site BY InPlaceIs DEF RequestSite
<1>6. ASSUME NEW u, NEW c, Split(u, c)
      PROVE  b \in CurrentSeatBuildings(u, site) <=> b \in req.buildings \/ Others
  <2>1. b \in CurrentSeatBuildings(u, site) <=> \E g \in Grants(u) : GrantSite(g) = site /\ b \in g.buildings
    BY AtSite DEF CurrentSeatBuildings
  <2> QED BY <1>6, <2>1
<1>7. CASE s.scope = req.scope /\ s.type = type
  <2> DEFINE u == [s EXCEPT !.buildings = req.buildings]
  <2>1. EditTarget(s, req) = CurrentSeatBuildings(u, site) BY <1>3, <1>7 DEF EditTarget
  <2>2. u \in Seat /\ u.dups = s.dups BY <1>4 DEF Seat
  <2>3. /\ GrantSite(Primary(u)) = GrantSite(Primary(s))
        /\ Primary(u).buildings = req.buildings
        /\ Slot(Primary(s)) = slot /\ Primary(s).scope = req.scope
    BY <1>7 DEF Primary, GrantSite, Slot, Seat
  <2> HIDE DEF u
  <2>4. Grants(u) = {Primary(u)} \cup {g \in Grants(s) : Slot(g) # slot}
    BY <1>3, <2>2, <2>3, RewrittenPrimary
  <2>5. GrantSite(Primary(u)) = site BY <1>5, <2>3, SeatFacts
  <2>6. Split(u, Primary(u)) BY <2>3, <2>4, <2>5
  <2> QED BY <1>6, <2>1, <2>6
<1>8. CASE ~(s.scope = req.scope /\ s.type = type) /\ i > 0
  <2> DEFINE u == [s EXCEPT !.dups[i].buildings = req.buildings]
             c == [s.dups[i] EXCEPT !.buildings = req.buildings]
             f == [s.dups EXCEPT ![i] = c]
  <2>1. i \in 1..n BY <1>1, <1>2, <1>8
  <2>2. EditTarget(s, req) = CurrentSeatBuildings(u, site) BY <1>3, <1>8, <2>1 DEF EditTarget
  <2>3. u = [s EXCEPT !.dups = f] OBVIOUS
  <2>4. s.dups[i] \in Grant /\ c \in Grant BY <1>1, <1>4, <2>1 DEF Grant
  <2>5. c.buildings = req.buildings /\ GrantSite(c) = GrantSite(s.dups[i]) BY <2>4 DEF Grant, GrantSite
  <2>6. f \in Seq(Grant) /\ Len(f) = n /\ \A j \in 1..n : f[j] = IF j = i THEN c ELSE s.dups[j]
    BY <1>1, <2>1, <2>4, ExceptSeq
  <2>7. Slot(s.dups[i]) = slot /\ i > 0 /\ i # 0 BY <1>2, <2>1 DEF Slot
  <2>8. GrantSite(s.dups[i]) = site
    <3>1. s.dups[i] \in Grants(s) BY <2>1, SeatFacts
    <3> QED BY <1>2, <1>5, <2>7, <3>1
  <2> HIDE DEF c, f, i
  <2>9. u \in Seat /\ u.dups = f /\ Primary(u) = Primary(s) BY <2>3, <2>6 DEF Seat, Primary
  <2> HIDE DEF u
  <2>10. Grants(u) = {c} \cup {g \in Grants(s) : Slot(g) # slot}
    <3>1. i \in 1..Len(s.dups) BY <2>1
    <3>2. /\ Len(u.dups) = Len(s.dups)
          /\ \A j \in 1..Len(s.dups) : u.dups[j] = IF j = i THEN c ELSE s.dups[j]
      BY <2>6, <2>9
    <3>3. Grants(u) = {c} \cup {g \in Grants(s) : Slot(g) # Slot(s.dups[i])}
      BY <1>3, <2>9, <3>1, <3>2, RewrittenDuplicate
    <3> QED BY <2>7, <3>3
  <2>11. Split(u, c) BY <2>5, <2>8, <2>10
  <2> QED BY <1>6, <2>2, <2>11 DEF u
<1>9. CASE ~(s.scope = req.scope /\ s.type = type) /\ ~(i > 0)
  <2>1. EditTarget(s, req) = CurrentSeatBuildings(s, site) \cup req.buildings
    BY <1>3, <1>9 DEF EditTarget
  <2>2. ~HasSlot(s, req.scope, type) BY <1>9 DEF HasSlot
  <2>3. \A g \in Grants(s) : Slot(g) # slot BY <2>2, SlotHeld
  <2>4. b \in CurrentSeatBuildings(s, site) <=> Others
    BY <2>3, AtSite DEF CurrentSeatBuildings
  <2> QED BY <2>1, <2>4
<1> QED BY <1>7, <1>8, <1>9

LEMMA EditTargetIs ==
    ASSUME NEW req, Listed(req), req.type \in EditTypes, NEW s \in Seat \cup {NoSeat}, InPlace(s), NEW b
    PROVE  b \in EditTarget(s, req) <=>
           \/ b \in req.buildings
           \/ \E g \in Grants(s) : /\ Slot(g) # <<req.scope, EditType(req.type)>>
                                   /\ GrantSite(g) = RequestSite(req) /\ b \in g.buildings
<1>1. CASE s = NoSeat
  <2>1. CurrentSeatBuildings(s, RequestSite(req)) = {} /\ Grants(s) = {}
    BY <1>1, NoGrants DEF CurrentSeatBuildings, BuildingsAt
  <2> QED BY <1>1, <2>1 DEF EditTarget
<1>2. CASE s \in Seat BY <1>2, EditTargetOfSeat
<1> QED BY <1>1, <1>2

LEMMA RemoveShrinks ==
    ASSUME NEW req, NEW s \in Seat, NEW t \in Seat, NEW k, TakesOne(s, t, k)
    PROVE  ComputePostRemovalBuildings(t, req) \subseteq ComputePostRemovalBuildings(s, req)
<1> DEFINE L == AllGrants(s)
           M == AllGrants(t)
           scope == req.scope
           f == FirstOfScope(L, scope)
           e == FirstOfScope(M, scope)
           Up(j) == IF j < k THEN j ELSE j + 1
<1> SUFFICES ASSUME NEW b \in ComputePostRemovalBuildings(t, req)
             PROVE  b \in ComputePostRemovalBuildings(s, req)
  OBVIOUS
<1>1. /\ k \in 1..Len(L) /\ Len(L) \in Nat /\ Len(M) = Len(L) - 1
      /\ L \in Seq(Grant) /\ M \in Seq(Grant)
      /\ \A j \in 1..Len(M) : Same(L[Up(j)], M[j])
  BY AllGrantsIs, LenProperties DEF TakesOne
<1>2. PICK j \in (1..Len(M)) \ {e} : GrantSite(M[j]) = RequestSite(req) /\ b \in M[j].buildings
  BY LeftIs
<1>3. /\ f \in 0..Len(L)
      /\ f > 0 => L[f].scope = scope /\ \A i \in 1..Len(L) : L[i].scope = scope => f <= i
  BY <1>1, FirstIs
<1>4. /\ e \in 0..Len(M)
      /\ e > 0 => M[e].scope = scope /\ \A i \in 1..Len(M) : M[i].scope = scope => e <= i
      /\ e = 0 => \A i \in 1..Len(M) : M[i].scope # scope
  BY <1>1, FirstIs
<1>5. ASSUME \E i \in (1..Len(L)) \ {f} : GrantSite(L[i]) = RequestSite(req) /\ b \in L[i].buildings
      PROVE  b \in ComputePostRemovalBuildings(s, req)
  BY <1>5, LeftIs
<1> HIDE DEF L, M, f, e
<1>6. Up(j) \in 1..Len(L) BY <1>1, <1>2
<1>7. ASSUME Up(j) = f PROVE FALSE
  <2>1. M[j].scope = scope /\ j \in 1..Len(M) /\ j # e
    <3>1. f > 0 BY <1>3, <1>6, <1>7
    <3>2. Same(L[f], M[j]) BY <1>1, <1>2, <1>7
    <3> QED BY <1>2, <1>3, <3>1, <3>2 DEF Same
  <2>2. e > 0 /\ e \in 1..Len(M) /\ M[e].scope = scope /\ e <= j
    BY <1>1, <1>4, <2>1
  <2>3. Up(e) \in 1..Len(L) /\ L[Up(e)].scope = scope BY <1>1, <2>2 DEF Same
  <2>4. f <= Up(e) BY <1>3, <1>6, <1>7, <2>3
  <2>5. e < j /\ e \in Nat /\ j \in Nat /\ k \in Nat BY <1>1, <2>1, <2>2
  <2>6. Up(e) < Up(j) BY <2>5
  <2> QED BY <1>1, <1>3, <1>7, <2>4, <2>5, <2>6
<1>8. Same(L[Up(j)], M[j]) BY <1>1, <1>2
<1>9. GrantSite(L[Up(j)]) = RequestSite(req) /\ b \in L[Up(j)].buildings BY <1>2, <1>8, SameCounts
<1> QED BY <1>5, <1>6, <1>7, <1>9

\* Once a trigger took a grant, a request wants no building it did not want.
LEMMA TargetShrinks ==
    ASSUME NEW req, Listed(req), NEW s \in Seat, InPlace(s), NEW t \in Seat \cup {NoSeat}, InPlace(t),
           NEW k, TakesOne(s, t, k)
    PROVE  Target(t, req) \subseteq Target(s, req)
<1>1. req.type \in AddTypes \/ req.type \in EditTypes \/ req.type = "remove" BY DEF Listed, Input, Types
<1>2. /\ req.type \in AddTypes => req.type \notin EditTypes /\ req.type # "remove"
      /\ req.type \in EditTypes => req.type # "remove" /\ req.type \notin AddTypes
      /\ req.type = "remove" => req.type \notin AddTypes /\ req.type \notin EditTypes
  BY DEF AddTypes, EditTypes
<1>3. \A h \in Grants(t) : \E g \in Grants(s) : Same(g, h) BY WhatIsLeft
<1>4. CASE req.type \in AddTypes
  <2>1. Target(t, req) = AddTarget(t, req) /\ Target(s, req) = AddTarget(s, req)
    BY <1>2, <1>4 DEF Target
  <2>2. \A b : b \in BuildingsAt(Grants(t), RequestSite(req)) => b \in BuildingsAt(Grants(s), RequestSite(req))
    BY ONLY <1>3, SameCounts, AtSite
  <2> QED BY <1>2, <1>4, <2>1, <2>2 DEF AddTarget, CurrentSeatBuildings
<1>5. CASE req.type \in EditTypes
  <2> DEFINE type == EditType(req.type)
             slot == <<req.scope, type>>
             site == RequestSite(req)
  <2>1. Target(t, req) = EditTarget(t, req) /\ Target(s, req) = EditTarget(s, req)
    BY <1>2, <1>5 DEF Target
  <2>2. ASSUME NEW b \in EditTarget(t, req) PROVE b \in EditTarget(s, req)
    <3>1. CASE b \in req.buildings BY <1>5, <3>1, EditTargetIs
    <3>2. ASSUME NEW h \in Grants(t), Slot(h) # slot, GrantSite(h) = site, b \in h.buildings
          PROVE  b \in EditTarget(s, req)
      <4>1. PICK g \in Grants(s) : Same(g, h) BY <1>3, <3>2
      <4>2. Slot(g) # slot /\ GrantSite(g) = site /\ b \in g.buildings BY <3>2, <4>1, SameCounts
      <4> QED BY <1>5, <4>2, EditTargetIs
    <3>3. b \in req.buildings \/ \E h \in Grants(t) : Slot(h) # slot /\ GrantSite(h) = site /\ b \in h.buildings
      BY <1>5, <2>2, EditTargetIs
    <3> QED BY <3>1, <3>2, <3>3
  <2> QED BY <2>1, <2>2
<1>6. CASE req.type = "remove"
  <2>1. /\ Target(t, req) = ComputePostRemovalBuildings(t, req)
        /\ Target(s, req) = ComputePostRemovalBuildings(s, req)
    BY <1>2, <1>6 DEF Target
  <2> QED BY <1>2, <1>6, <2>1, NothingToRemove, RemoveShrinks
<1> QED BY <1>1, <1>4, <1>5, <1>6

LEMMA GrantsHoldBuildings ==
    ASSUME NEW s \in Seat \cup {NoSeat}, NEW site
    PROVE  CurrentSeatBuildings(s, site) \subseteq Buildings
<1>1. \A g \in Grants(s) : g.buildings \subseteq Buildings BY SeatFacts, NoGrants DEF Grant
<1> QED BY <1>1, AtSite DEF CurrentSeatBuildings

LEMMA TargetType ==
    ASSUME NEW req, Listed(req), NEW s \in Seat \cup {NoSeat}
    PROVE  Target(s, req) \subseteq Buildings
<1>1. req.type \in AddTypes \/ req.type \in EditTypes \/ req.type = "remove" BY DEF Listed, Input, Types
<1>2. /\ req.type \in AddTypes => req.type \notin EditTypes /\ req.type # "remove"
      /\ req.type \in EditTypes => req.type # "remove" /\ req.type \notin AddTypes
      /\ req.type = "remove" => req.type \notin AddTypes /\ req.type \notin EditTypes
  BY DEF AddTypes, EditTypes
<1>3. req.buildings \subseteq Buildings BY DEF Listed, Input
<1>4. CASE req.type \in AddTypes
  <2>1. BuildingsForRequest(req) \subseteq Buildings BY <1>3, WardsAssumption DEF BuildingsForRequest
  <2> QED BY <1>2, <1>4, <2>1, GrantsHoldBuildings DEF Target, AddTarget
<1>5. CASE req.type \in EditTypes
  <2> DEFINE i == SlotIndex(s.dups, req.scope, EditType(req.type))
             u == [s EXCEPT !.buildings = req.buildings]
             c == [s.dups[i] EXCEPT !.buildings = req.buildings]
             f == [s.dups EXCEPT ![i] = c]
             v == [s EXCEPT !.dups[i].buildings = req.buildings]
  <2>1. Target(s, req) = EditTarget(s, req) BY <1>2, <1>5 DEF Target
  <2>2. CASE s = NoSeat BY <1>3, <2>1, <2>2, GrantsHoldBuildings DEF EditTarget
  <2>3. CASE s # NoSeat
    <3>1. s \in Seat /\ u \in Seat BY <1>3, <2>3 DEF Seat
    <3>2. s.dups \in Seq(Grant) /\ i \in 0..Len(s.dups) BY <3>1, SeatFacts, FirstSlot
    <3>3. ASSUME i > 0 PROVE v \in Seat
      <4>1. i \in 1..Len(s.dups) BY <3>1, <3>2, <3>3, SeatFacts
      <4>2. s.dups[i] \in Grant BY <3>1, <4>1, SeatFacts
      <4>3. c \in Grant BY <1>3, <4>2 DEF Grant
      <4>4. f \in Seq(Grant) BY <3>2, <4>1, <4>3, ExceptSeq
      <4>5. v = [s EXCEPT !.dups = f] OBVIOUS
      <4> HIDE DEF f, v
      <4> QED BY <3>1, <4>4, <4>5 DEF Seat
    <3> DEFINE site == RequestSite(req)
    <3>4. /\ CurrentSeatBuildings(u, site) \subseteq Buildings
          /\ CurrentSeatBuildings(s, site) \subseteq Buildings
          /\ i > 0 => CurrentSeatBuildings(v, site) \subseteq Buildings
      BY <3>1, <3>3, GrantsHoldBuildings
    <3>5. \/ EditTarget(s, req) = CurrentSeatBuildings(u, site)
          \/ i > 0 /\ EditTarget(s, req) = CurrentSeatBuildings(v, site)
          \/ EditTarget(s, req) = CurrentSeatBuildings(s, site) \cup req.buildings
      BY <2>3 DEF EditTarget
    <3> QED BY <1>3, <2>1, <3>4, <3>5
  <2> QED BY <2>2, <2>3
<1>6. CASE req.type = "remove"
  <2>1. Target(s, req) = ComputePostRemovalBuildings(s, req) BY <1>2, <1>6 DEF Target
  <2>2. CASE s = NoSeat BY <2>1, <2>2, NothingToRemove
  <2>3. CASE s \in Seat
    <3>1. \A j \in 1..Len(AllGrants(s)) : AllGrants(s)[j] \in Grant BY <2>3, AllGrantsIs, ElementOfSeq
    <3>2. \A j \in 1..Len(AllGrants(s)) : AllGrants(s)[j].buildings \subseteq Buildings BY <3>1 DEF Grant
    <3> QED BY <2>1, <2>3, <3>2, LeftIs
  <2> QED BY <2>2, <2>3
<1> QED BY <1>1, <1>4, <1>5, <1>6

\* The description names scopes.
LEMMA DescriptionType ==
    ASSUME NEW req \in Input, NEW s \in Seat \cup {NoSeat}
    PROVE  SynthesizeDescription(s, req) \in Seq(Scopes)
<1> DEFINE now == AllGrants(s)
           Named == {[scope |-> scope] : scope \in Scopes}
           add == Append(now, [scope |-> req.scope])
           drop == DropFirst(now, req.scope)
           Names(slots) == [i \in 1..Len(slots) |-> slots[i].scope]
<1>1. req.scope \in Scopes BY DEF Input
<1>2. now \in Seq(Grant)
  <2>1. s \in Seat => now \in Seq(Grant) BY AllGrantsIs
  <2>2. s = NoSeat => now \in Seq(Grant) BY NoGrants, EmptySeq
  <2> QED BY <2>1, <2>2
<1>3. \A g \in Grant : g.scope \in Scopes BY DEF Grant
<1>4. drop \in Seq(Grant)
  <2>1. FirstOfScope(now, req.scope) \in 0..Len(now) BY <1>2, FirstIs
  <2>2. Len(now) \in Nat BY <1>2, LenProperties
  <2>3. FirstOfScope(now, req.scope) # 0 => FirstOfScope(now, req.scope) \in 1..Len(now) BY <2>1, <2>2
  <2> HIDE DEF now
  <2> QED BY <1>2, <2>3, RemoveAtFacts DEF DropFirst
<1>5. add \in Seq(Grant \cup Named)
  <2>1. now \in Seq(Grant \cup Named) BY <1>2, SeqMonotonic
  <2> HIDE DEF now
  <2> QED BY <1>1, <2>1, AppendProperties
<1>6. ASSUME NEW d \in Seq(Grant \cup Named) PROVE Names(d) \in Seq(Scopes)
  <2>1. Len(d) \in Nat /\ \A i \in 1..Len(d) : d[i].scope \in Scopes
    BY <1>3, LenProperties, ElementOfSeq
  <2> QED BY <2>1, IsASeq
<1>7. now \in Seq(Grant \cup Named) /\ drop \in Seq(Grant \cup Named) BY <1>2, <1>4, SeqMonotonic
<1>8. <<req.scope>> \in Seq(Scopes) BY <1>1
<1>9. SynthesizeDescription(s, req) \in {<<req.scope>>, Names(add), Names(drop), Names(now)}
  BY DEF SynthesizeDescription
<1>10. Names(add) \in Seq(Scopes) /\ Names(drop) \in Seq(Scopes) /\ Names(now) \in Seq(Scopes)
  BY <1>5, <1>6, <1>7
<1> HIDE DEF Names
<1> QED BY <1>8, <1>9, <1>10

-----------------------------------------------------------------------------
(* The calls of a run.                                                     *)

Call ==
    [kind : {"invite", "edit"}, temp : BOOLEAN, names : Seq(Scopes)]
    \cup [kind : {"save", "revoke"}, rules : SUBSET Rules]
    \cup [kind : {"wipe"}]

\* A call that takes none of the wanted buildings away.
Spares(call, wanted) ==
    /\ call.kind = "revoke" => call.rules \cap wanted = {}
    /\ call.kind = "wipe" => wanted = {}

\* The calls a member who is there may meet, and the buildings they may give.
Gentle(wanted) ==
    {call \in Call : /\ call.kind # "invite" /\ Spares(call, wanted)
                     /\ call.kind = "save" => call.rules \subseteq wanted}

\* Does a run still make a call of this kind with the rule?
Offers(todo, kind, rule) == \E i \in 1..Len(todo) : todo[i].kind = kind /\ rule \in todo[i].rules

LEMMA OffersJoin ==
    ASSUME NEW d \in Seq(Call), NEW e \in Seq(Call), NEW kind, NEW rule
    PROVE  /\ Offers(d, kind, rule) => Offers(d \o e, kind, rule)
           /\ Offers(e, kind, rule) => Offers(d \o e, kind, rule)
<1>1. /\ Len(d) \in Nat /\ Len(e) \in Nat /\ Len(d \o e) = Len(d) + Len(e)
      /\ \A i \in 1..Len(d) + Len(e) : (d \o e)[i] = IF i <= Len(d) THEN d[i] ELSE e[i - Len(d)]
  BY LenProperties, ConcatProperties
<1> DEFINE c == d \o e
<1> HIDE DEF c
<1>2. ASSUME NEW i \in 1..Len(d) PROVE i \in 1..Len(c) /\ c[i] = d[i] BY <1>1 DEF c
<1>3. ASSUME NEW i \in 1..Len(e) PROVE \E j \in 1..Len(c) : c[j] = e[i]
  <2>1. Len(d) + i \in 1..Len(d) + Len(e) /\ ~(Len(d) + i <= Len(d)) /\ (Len(d) + i) - Len(d) = i
    BY <1>1
  <2> QED BY <1>1, <2>1 DEF c
<1> QED BY <1>2, <1>3 DEF Offers, c

LEMMA SaveCalls ==
    ASSUME NEW wanted, NEW rules \in SUBSET Rules, rules \subseteq wanted
    PROVE  /\ Calls("save", rules) \in Seq(Gentle(wanted))
           /\ \A rule \in rules : Offers(Calls("save", rules), "save", rule)
<1> DEFINE call == [kind |-> "save", rules |-> rules]
<1>1. call \in Call BY DEF Call
<1>2. call \in Gentle(wanted) BY <1>1 DEF Gentle, Spares
<1>3. call.kind = "save" /\ call.rules = rules OBVIOUS
<1>4. Calls("save", rules) = IF rules = {} THEN <<>> ELSE <<call>> BY DEF Calls
<1> HIDE DEF call
<1>5. <<call>> \in Seq(Gentle(wanted)) /\ Len(<<call>>) = 1 /\ <<call>>[1] = call BY <1>2
<1>6. <<>> \in Seq(Gentle(wanted)) BY EmptySeq
<1>7. \A rule \in rules : Offers(<<call>>, "save", rule) BY <1>3, <1>5 DEF Offers
<1> QED BY <1>4, <1>5, <1>6, <1>7

LEMMA EditCalled ==
    ASSUME NEW user, NEW temp \in BOOLEAN, NEW names \in Seq(Scopes), NEW wanted
    PROVE  EditCall(user, temp, names) \in Seq(Gentle(wanted))
<1> DEFINE call == [kind |-> "edit", temp |-> temp, names |-> names]
<1>1. call \in Call BY DEF Call
<1>2. call \in Gentle(wanted) BY <1>1 DEF Gentle, Spares
<1> HIDE DEF call
<1>3. <<call>> \in Seq(Gentle(wanted)) BY <1>2
<1>4. <<>> \in Seq(Gentle(wanted)) BY EmptySeq
<1> QED BY <1>3, <1>4 DEF EditCall, call

\* A finite set's members, in some order.
LEMMA SetListed ==
    ASSUME NEW S, IsFiniteSet(S)
    PROVE  /\ SetToSeq(S) \in Seq(S)
           /\ \A x \in S : \E i \in 1..Len(SetToSeq(S)) : SetToSeq(S)[i] = x
<1> DEFINE n == Cardinality(S)
           d == SetToSeq(S)
<1>1. n \in Nat /\ ExistsBijection(1..n, S) BY FS_CardinalityType
<1>2. \E f \in [1..n -> S] : IsInjective(f)
  BY <1>1 DEF ExistsBijection, Bijection, Injection, IsInjective
<1>3. d \in [1..n -> S] /\ IsInjective(d) BY <1>2 DEF SetToSeq
<1>4. d \in Injection(1..n, S) BY <1>3 DEF Injection, IsInjective
<1>5. Cardinality(1..n) = n BY <1>1, FS_Interval
<1>6. d \in Surjection(1..n, S) BY <1>4, <1>5, FS_Injection
<1> HIDE DEF n, d
<1>7. Len(d) = n BY <1>1, <1>3
<1>8. \A x \in S : \E i \in 1..n : d[i] = x BY <1>6 DEF Surjection
<1> QED BY <1>1, <1>3, <1>7, <1>8 DEF d

LEMMA RevokeCalls ==
    ASSUME NEW rules \in SUBSET Rules, NEW wanted, rules \cap wanted = {}
    PROVE  /\ Revokes(rules) \in Seq(Gentle(wanted))
           /\ \A rule \in rules : Offers(Revokes(rules), "revoke", rule)
<1> DEFINE call(rule) == [kind |-> "revoke", rules |-> {rule}]
           S == {call(rule) : rule \in rules}
           f == [rule \in rules |-> call(rule)]
<1>1. IsFiniteSet(rules) BY ProvisioningAssumption, FS_Subset
<1>2. f \in Surjection(rules, S) BY DEF Surjection
<1>3. IsFiniteSet(S) BY <1>1, <1>2, FS_Surjection
<1>4. Revokes(rules) = SetToSeq(S) BY DEF Revokes
<1>5. ASSUME NEW rule \in rules PROVE call(rule) \in Gentle(wanted)
  <2>1. {rule} \subseteq Rules OBVIOUS
  <2>2. call(rule) \in Call BY <2>1 DEF Call
  <2>3. {rule} \cap wanted = {} OBVIOUS
  <2> QED BY <2>2, <2>3 DEF Gentle, Spares
<1>6. S \subseteq Gentle(wanted) BY <1>5
<1>7. \A rule \in rules : call(rule) \in S OBVIOUS
<1> HIDE DEF S
<1>8. /\ SetToSeq(S) \in Seq(S)
      /\ \A x \in S : \E i \in 1..Len(SetToSeq(S)) : SetToSeq(S)[i] = x
  BY <1>3, SetListed
<1>9. ASSUME NEW rule \in rules PROVE Offers(Revokes(rules), "revoke", rule)
  <2>1. PICK i \in 1..Len(SetToSeq(S)) : SetToSeq(S)[i] = call(rule) BY <1>7, <1>8
  <2>2. call(rule).kind = "revoke" /\ rule \in call(rule).rules OBVIOUS
  <2> QED BY <1>4, <2>1, <2>2 DEF Offers
<1> QED BY <1>4, <1>6, <1>8, <1>9, SeqMonotonic

\* Does the user hold a building in their own right, or is it still to be
\* granted - to a user there is none of, after its invitation?
Due(todo, user, b) ==
    \/ b \in Held(user)
    \/ Offers(todo, "save", b) /\ (user = NoUser => todo[1].kind = "invite")

\* An add's calls: an invitation only of a member who is not there, nothing
\* that takes a building of the target, and every building of it but those that
\* other doors of a user who is there open.
LEMMA AddCallsAre ==
    ASSUME NEW req, NEW user \in User \cup {NoUser}, NEW target \in SUBSET Buildings,
           NEW names \in Seq(Scopes), NEW doors, user = NoUser => doors = {}
    PROVE  LET todo == AddCalls(req, user, target, names, doors) IN
           /\ user # NoUser => todo \in Seq(Gentle(target))
           /\ user = NoUser => \E invite, rest :
                 /\ invite \in Call /\ invite.kind = "invite" /\ rest \in Seq(Gentle(target))
                 /\ todo = <<invite>> \o rest
           /\ \A b \in target : b \in doors \/ Due(todo, user, b)
<1>1. target \in SUBSET Rules /\ target \ (user.rules \cup doors) \in SUBSET Rules BY DEF Rules
<1>2. Gentle(target) \subseteq Call BY DEF Gentle
<1>3. CASE user = NoUser
  <2> DEFINE invite == [kind |-> "invite", temp |-> req.type = "add_temp", names |-> names]
             save == Calls("save", target)
             todo == <<invite>> \o save
  <2>1. invite \in Call /\ invite.kind = "invite" BY DEF Call
  <2>2. save \in Seq(Gentle(target)) /\ \A b \in target : Offers(save, "save", b) BY <1>1, SaveCalls
  <2>3. AddCalls(req, user, target, names, doors) = todo BY <1>3 DEF AddCalls
  <2> HIDE DEF invite, save
  <2>4. <<invite>> \in Seq(Call) /\ Len(<<invite>>) = 1 /\ <<invite>>[1] = invite BY <2>1
  <2>5. save \in Seq(Call) BY <1>2, <2>2, SeqMonotonic
  <2>6. \A b \in target : Offers(todo, "save", b) BY <2>2, <2>4, <2>5, OffersJoin
  <2>7. todo[1] = invite
    <3>1. Len(save) \in Nat /\ 1 \in 1..1 + Len(save) BY <2>5, LenProperties
    <3> QED BY <2>4, <2>5, <3>1, ConcatProperties
  <2> HIDE DEF todo
  <2>8. \A b \in target : Due(todo, user, b) BY <2>1, <2>6, <2>7 DEF Due
  <2> QED BY <1>3, <2>1, <2>2, <2>3, <2>8 DEF todo
<1>4. CASE user # NoUser
  <2> DEFINE temp == req.type = "add_temp" /\ user.temp
             edit == EditCall(user, temp, names)
             rids == RidsToAdd(user, target, doors)
             save == Calls("save", rids)
             todo == edit \o save
  <2>1. temp \in BOOLEAN OBVIOUS
  <2> HIDE DEF temp
  <2>2. edit \in Seq(Gentle(target)) BY <2>1, EditCalled
  <2>3. rids \in SUBSET Rules /\ rids \subseteq target BY <1>1 DEF RidsToAdd
  <2>4. \A b \in target : b \in doors \/ b \in Held(user) \/ b \in rids BY <1>4 DEF RidsToAdd, Held
  <2>5. AddCalls(req, user, target, names, doors) = todo BY <1>4 DEF AddCalls, temp
  <2> HIDE DEF rids
  <2>6. save \in Seq(Gentle(target)) /\ \A b \in rids : Offers(save, "save", b) BY <2>3, SaveCalls
  <2> HIDE DEF edit, save
  <2>7. todo \in Seq(Gentle(target)) BY <2>2, <2>6, ConcatProperties
  <2>8. edit \in Seq(Call) /\ save \in Seq(Call) BY <1>2, <2>2, <2>6, SeqMonotonic
  <2>9. \A b \in rids : Offers(todo, "save", b) BY <2>6, <2>8, OffersJoin
  <2> HIDE DEF todo
  <2>10. \A b \in target : b \in doors \/ Due(todo, user, b) BY <1>4, <2>4, <2>9 DEF Due
  <2> QED BY <1>4, <2>5, <2>7, <2>10
<1> QED BY <1>3, <1>4

\* An edit's calls: as an add's, and they revoke every rule outside the target.
LEMMA EditCallsAre ==
    ASSUME NEW req, NEW user \in User, NEW target \in SUBSET Buildings,
           NEW names \in Seq(Scopes), NEW doors
    PROVE  LET todo == EditCalls(req, user, target, names, doors) IN
           /\ todo \in Seq(Gentle(target))
           /\ \A b \in target : b \in doors \/ Due(todo, user, b)
           /\ \A b \in user.rules : b \in target \/ Offers(todo, "revoke", b)
<1> DEFINE temp == req.type = "edit_temp"
           rids == RidsToAdd(user, target, doors)
           gone == user.rules \ target
           save == Calls("save", rids)
           revoke == Revokes(gone)
           edit == EditCall(user, temp, names)
           todo == save \o revoke \o edit
<1>1. target \in SUBSET Rules /\ user.rules \in SUBSET Rules /\ user # NoUser BY DEF Rules, User, NoUser
<1>2. rids \in SUBSET Rules /\ rids \subseteq target BY <1>1 DEF RidsToAdd
<1>3. \A b \in target : b \in doors \/ b \in Held(user) \/ b \in rids BY <1>1 DEF RidsToAdd, Held
<1>4. gone \in SUBSET Rules /\ gone \cap target = {} BY <1>1
<1>5. EditCalls(req, user, target, names, doors) = todo BY DEF EditCalls
<1> HIDE DEF rids
<1>6. save \in Seq(Gentle(target)) /\ \A b \in rids : Offers(save, "save", b) BY <1>2, SaveCalls
<1>7. \A b \in user.rules : b \in target \/ b \in gone OBVIOUS
<1> HIDE DEF gone
<1>8. revoke \in Seq(Gentle(target)) /\ \A b \in gone : Offers(revoke, "revoke", b) BY <1>4, RevokeCalls
<1>9. edit \in Seq(Gentle(target)) BY EditCalled
<1> HIDE DEF save, revoke, edit
<1>10. save \o revoke \in Seq(Gentle(target)) BY <1>6, <1>8, ConcatProperties
<1>11. todo \in Seq(Gentle(target)) BY <1>9, <1>10, ConcatProperties
<1>12. Gentle(target) \subseteq Call BY DEF Gentle
<1>13. save \in Seq(Call) /\ revoke \in Seq(Call) /\ save \o revoke \in Seq(Call) /\ edit \in Seq(Call)
  BY <1>6, <1>8, <1>9, <1>10, <1>12, SeqMonotonic
<1>14. \A b \in rids : Offers(todo, "save", b) BY <1>6, <1>13, OffersJoin
<1>15. \A b \in gone : Offers(todo, "revoke", b) BY <1>8, <1>13, OffersJoin
<1> HIDE DEF todo
<1>16. \A b \in target : b \in doors \/ Due(todo, user, b) BY <1>1, <1>3, <1>14 DEF Due
<1> QED BY <1>5, <1>7, <1>11, <1>15, <1>16

\* The rules a remove may revoke: of buildings of its site that have one.
Located(site) == {b \in Buildings \ Unruled : BuildingSite[b] = site}

\* A remove's calls: nothing that takes a building of the target, every building
\* of it, and they revoke the rules of the site's other buildings.
LEMMA RemoveCallsAre ==
    ASSUME NEW req, NEW user \in User \cup {NoUser}, NEW target \in SUBSET Buildings,
           NEW names \in Seq(Scopes)
    PROVE  LET todo == RemoveCalls(req, user, target, names) IN
           /\ todo \in Seq(Gentle(target))
           /\ user # NoUser => \A b \in user.rules \cap Located(RequestSite(req)) :
                                  b \in target \/ Offers(todo, "revoke", b)
           /\ user # NoUser => \A b \in target : Due(todo, user, b)
<1>1. CASE user = NoUser
  <2>1. RemoveCalls(req, user, target, names) = <<>> BY <1>1 DEF RemoveCalls
  <2> QED BY <1>1, <2>1, EmptySeq
<1>2. CASE user # NoUser
  <2> DEFINE here == Located(RequestSite(req))
             gone == (user.rules \ target) \cap here
             revoke == Revokes(gone)
             save == Calls("save", target \ user.rules)
             wipe == [kind |-> "wipe"]
             last == IF target = {} THEN <<wipe>> ELSE EditCall(user, user.temp, names)
             todo == revoke \o save \o last
  <2>1. user \in User BY <1>2
  <2>2. /\ target \ user.rules \in SUBSET Rules /\ gone \in SUBSET Rules
        /\ gone \cap target = {} /\ user.temp \in BOOLEAN
        /\ target \ user.rules \subseteq target
    BY <2>1 DEF Rules, User
  <2>3. \A b \in user.rules \cap here : b \in target \/ b \in gone OBVIOUS
  <2>4. RemoveCalls(req, user, target, names) = todo BY <1>2 DEF RemoveCalls, Located
  <2> HIDE DEF gone, here
  <2>5. revoke \in Seq(Gentle(target)) /\ \A b \in gone : Offers(revoke, "revoke", b) BY <2>2, RevokeCalls
  <2>6. save \in Seq(Gentle(target)) /\ \A b \in target \ user.rules : Offers(save, "save", b)
    BY <2>2, SaveCalls
  <2>7. last \in Seq(Gentle(target))
    <3>1. CASE target = {}
      <4>1. wipe \in Call BY DEF Call
      <4>2. wipe \in Gentle(target) BY <3>1, <4>1 DEF Gentle, Spares
      <4> HIDE DEF wipe
      <4>3. <<wipe>> \in Seq(Gentle(target)) BY <4>2
      <4> QED BY <3>1, <4>3
    <3>2. CASE target # {} BY <2>2, <3>2, EditCalled
    <3> QED BY <3>1, <3>2
  <2> HIDE DEF revoke, save, last
  <2>8. revoke \o save \in Seq(Gentle(target)) BY <2>5, <2>6, ConcatProperties
  <2>9. todo \in Seq(Gentle(target)) BY <2>7, <2>8, ConcatProperties
  <2>10. Gentle(target) \subseteq Call BY DEF Gentle
  <2>11. revoke \in Seq(Call) /\ save \in Seq(Call) /\ revoke \o save \in Seq(Call) /\ last \in Seq(Call)
    BY <2>5, <2>6, <2>7, <2>8, <2>10, SeqMonotonic
  <2>12. \A b \in gone : Offers(todo, "revoke", b) BY <2>5, <2>11, OffersJoin
  <2>13. \A b \in target \ user.rules : Offers(todo, "save", b) BY <2>6, <2>11, OffersJoin
  <2> HIDE DEF todo
  <2>14. \A b \in target : Due(todo, user, b) BY <1>2, <2>13 DEF Due, Held
  <2> QED BY <2>3, <2>4, <2>9, <2>12, <2>14 DEF here
<1> QED BY <1>1, <1>2

-----------------------------------------------------------------------------
(* The invariant of a run: what it has yet to do spares every building the *)
(* request still wants.                                                    *)

\* The history.
Past ==
    [tried : SUBSET ReqIds, lagged : BOOLEAN, again : BOOLEAN, faults : 0..MaxFaults,
     lent : SUBSET (Members \X RealSites \X Buildings)]

Recorded ==
    /\ past \in Past
    /\ \A r \in past.tried : Exists(r)

Run ==
    {Idle}
    \cup [phase : {"lookup"}, req : ReqIds, target : SUBSET Buildings, names : Seq(Scopes)]
    \cup [phase : {"writing"}, req : ReqIds, todo : Seq(Call)]

Wanted(r) == Target(seats[Body(r).member], Body(r))

AtDesk == kindoo[Body(desk.req).member][RequestSite(Body(desk.req))]

LookupSpares ==
    desk.phase = "lookup" => Wanted(desk.req) \subseteq desk.target

WritingSpares ==
    desk.phase = "writing" => \A i \in 1..Len(desk.todo) :
        /\ desk.todo[i].kind = "invite" => i = 1 /\ AtDesk = NoUser
        /\ Spares(desk.todo[i], Wanted(desk.req))

RunSound ==
    /\ kindoo \in [Members -> [RealSites -> User \cup {NoUser}]]
    /\ desk \in Run
    /\ LookupSpares
    /\ WritingSpares
    /\ beside \in BOOLEAN /\ (BesideNow => beside)

LEMMA RunIs ==
    ASSUME desk \in Run
    PROVE  /\ desk.phase = "lookup" => desk \in [phase : {"lookup"}, req : ReqIds, target : SUBSET Buildings,
                                               names : Seq(Scopes)]
           /\ desk.phase = "writing" => desk \in [phase : {"writing"}, req : ReqIds, todo : Seq(Call)]
           /\ desk = Idle => desk.phase \notin {"lookup", "writing"}
           /\ Idle \in Run
BY DEF Run, Idle

LEMMA IdleSpares ==
    ASSUME desk' = Idle
    PROVE  (desk \in Run)' /\ LookupSpares' /\ WritingSpares'
<1>1. desk'.phase # "lookup" /\ desk'.phase # "writing" BY DEF Idle
<1> QED BY <1>1 DEF LookupSpares, WritingSpares, Run

LEMMA RequestSiteType ==
    ASSUME NEW req \in Input
    PROVE  RequestSite(req) \in RealSites
<1>1. req.scope \in Scopes BY DEF Input
<1> QED BY <1>1, WardsAssumption DEF RequestSite, NormSite, SiteOf, RealSites

\* What is true of the desk's request.
LEMMA AtDeskType ==
    ASSUME Fits, RunSound, desk # Idle
    PROVE  LET req == Body(desk.req) IN
           /\ desk.req \in ReqIds /\ Exists(desk.req)
           /\ Listed(req) /\ req \in Input /\ req.member \in Members
           /\ RequestSite(req) \in RealSites
           /\ seats[req.member] \in Seat \cup {NoSeat}
           /\ AtDesk \in User \cup {NoUser}
<1>1. desk.req \in ReqIds /\ Exists(desk.req) /\ TypeOK BY DEF Fits, Running, SeatsSound
<1>2. Listed(Body(desk.req)) /\ Body(desk.req) \in Input /\ Body(desk.req).member \in Members
  BY <1>1, BodyType DEF Fits, Orderly
<1>3. RequestSite(Body(desk.req)) \in RealSites BY <1>2, RequestSiteType
<1>4. seats[Body(desk.req).member] \in Seat \cup {NoSeat} BY <1>1, <1>2 DEF TypeOK
<1> QED BY <1>1, <1>2, <1>3, <1>4 DEF RunSound, AtDesk

\* While other clients act, the run's request wants ever less.
LEMMA WantedShrinks ==
    ASSUME Fits, Fits', Clients, NEW r \in ReqIds, Exists(r)
    PROVE  Body(r)' = Body(r) /\ Wanted(r)' \subseteq Wanted(r)
<1> DEFINE req == Body(r)
           s == seats[req.member]
<1>1. SeatsSound /\ TypeOK BY DEF Fits, SeatsSound
<1>2. Next BY DEF Clients, Next, RequestNext
<1>3. Body(r)' = req BY <1>1, <1>2, RequestStays DEF Body
<1>4. Listed(req) /\ req.member \in Members BY <1>1, BodyType DEF Fits, Orderly
<1>5. Wanted(r)' = Target(seats'[req.member], req) /\ Wanted(r) = Target(s, req) BY <1>3 DEF Wanted
<1>6. InPlace(s) /\ InPlace(seats'[req.member]) /\ seats'[req.member] \in Seat \cup {NoSeat}
  BY <1>4 DEF Fits, Orderly, SeatsSound, TypeOK
<1>7. CASE seats'[req.member] = s BY <1>3, <1>5, <1>7
<1>8. ASSUME NEW k, s \in Seat, TakesOne(s, seats'[req.member], k) PROVE Wanted(r)' \subseteq Wanted(r)
  BY <1>4, <1>5, <1>6, <1>8, TargetShrinks
<1>9. seats'[req.member] = s \/ (s \in Seat /\ \E k : TakesOne(s, seats'[req.member], k))
  <2>1. seats' = seats \/ \E q \in ReqIds : SeatTrigger(q) BY DEF Clients, Submit, Cancel, Reject
  <2>2. ASSUME NEW q \in ReqIds, SeatTrigger(q), seats'[req.member] # s
        PROVE  s \in Seat /\ \E k : TakesOne(s, seats'[req.member], k)
    <3> DEFINE m == Body(q).member
               t == ApplyRemove(seats[m], PlanRemove(seats[m], Body(q).scope, Body(q).site))
    <3>1. seats' = seats \/ (seats[m] # NoSeat /\ seats' = [seats EXCEPT ![m] = t])
      BY <2>2 DEF SeatTrigger
    <3>2. m = req.member /\ seats[m] # NoSeat /\ seats'[m] = t BY <1>1, <1>4, <2>2, <3>1 DEF TypeOK
    <3>3. seats[m] \in Seat /\ Sound(seats[m]) BY <1>6, <3>2 DEF InPlace
    <3>4. t = seats[m] \/ \E k : TakesOne(seats[m], t, k) BY <3>3, TriggerTakes
    <3> QED BY <2>2, <3>2, <3>3, <3>4
  <2> QED BY <2>1, <2>2
<1> QED BY <1>3, <1>7, <1>8, <1>9

LEMMA ClientsSpare ==
    ASSUME Fits, Fits', RunSound, Clients
    PROVE  (desk \in Run)' /\ LookupSpares' /\ WritingSpares'
<1>1. desk' = desk /\ kindoo' = kindoo BY DEF Clients
<1>2. CASE desk = Idle BY <1>1, <1>2, IdleSpares
<1>3. CASE desk # Idle
  <2>1. desk.req \in ReqIds /\ Exists(desk.req) BY <1>3, AtDeskType
  <2> PICK r \in ReqIds : r = desk.req BY <2>1
  <2>2. Body(r)' = Body(r) /\ Wanted(r)' \subseteq Wanted(r) BY <2>1, WantedShrinks
  <2>3. AtDesk' = AtDesk BY <1>1, <2>2 DEF AtDesk
  <2>4. LookupSpares' BY <1>1, <2>2 DEF RunSound, LookupSpares
  <2>5. \A call : Spares(call, Wanted(r)) /\ Wanted(r)' \subseteq Wanted(r) => Spares(call, Wanted(r)')
    BY DEF Spares
  <2>6. WritingSpares'
    <3> SUFFICES ASSUME desk.phase = "writing", NEW i \in 1..Len(desk.todo)
                 PROVE  /\ desk.todo[i].kind = "invite" => i = 1 /\ AtDesk = NoUser
                        /\ Spares(desk.todo[i], Wanted(r)')
      BY <1>1, <2>3 DEF WritingSpares
    <3> QED BY <2>2, <2>5 DEF RunSound, WritingSpares
  <2> QED BY <1>1, <2>4, <2>6 DEF RunSound
<1> QED BY <1>2, <1>3

LEMMA StartSpares ==
    ASSUME Fits, RunSound, NEW r \in ReqIds, StartRun(r)
    PROVE  (desk \in Run)' /\ LookupSpares' /\ WritingSpares'
<1> DEFINE req == Body(r)
           s == seats[req.member]
<1>1. /\ desk' = [phase |-> "lookup", req |-> r, target |-> Target(s, req),
                  names |-> SynthesizeDescription(s, req)]
      /\ Exists(r) /\ UNCHANGED vars
  BY DEF StartRun, HasStatus
<1>2. Listed(req) /\ req \in Input /\ s \in Seat \cup {NoSeat}
  BY <1>1, BodyType DEF Fits, Orderly, SeatsSound, TypeOK
<1>3. Target(s, req) \subseteq Buildings /\ SynthesizeDescription(s, req) \in Seq(Scopes)
  BY <1>2, TargetType, DescriptionType
<1>4. Wanted(r)' = Target(s, req) BY <1>1 DEF Wanted, Body, vars
<1> HIDE DEF req, s
<1>5. desk' \in Run BY <1>1, <1>3 DEF Run
<1>6. desk'.phase = "lookup" /\ desk'.req = r /\ desk'.target = Target(s, req) BY <1>1
<1> QED BY <1>4, <1>5, <1>6 DEF LookupSpares, WritingSpares

\* What the lookup decides: the calls of the run, or that there is none.
Decided(todo, req, user, target, names, doors) ==
    \/ req.type \in AddTypes /\ todo = AddCalls(req, user, target, names, doors)
    \/ req.type \in EditTypes /\ user # NoUser /\ todo = EditCalls(req, user, target, names, doors)
    \/ req.type = "remove" /\ todo = RemoveCalls(req, user, target, names)

LEMMA LookupCases ==
    ASSUME Fits, RunSound, Recorded, LookupUser
    PROVE  /\ desk # Idle /\ desk.phase = "lookup" /\ desk.req \in ReqIds
           /\ desk.target \in SUBSET Buildings /\ desk.names \in Seq(Scopes)
           /\ UNCHANGED <<vars, kindoo>>
           /\ \/ desk' = Idle
              \/ \E todo, doors :
                    /\ desk' = [phase |-> "writing", req |-> desk.req, todo |-> todo]
                    /\ AtDesk = NoUser => doors = {}
                    /\ past'.lent = past.lent \cup Lends(Body(desk.req), AtDesk, desk.target, doors)
                    /\ Decided(todo, Body(desk.req), AtDesk, desk.target, desk.names, doors)
<1>1. desk.phase = "lookup" /\ UNCHANGED <<vars, kindoo>> BY DEF LookupUser
<1>2. /\ desk.target \in SUBSET Buildings /\ desk.names \in Seq(Scopes)
      /\ desk.req \in ReqIds /\ desk # Idle
  BY <1>1, RunIs DEF RunSound
<1> DEFINE req == Body(desk.req)
           user == AtDesk
           doors(known) == DeriveDirectGrantRids(user, known /\ req.type # "remove")
<1>3. req.type \in AddTypes \/ req.type \in EditTypes \/ req.type = "remove"
  BY <1>2, AtDeskType DEF Input, Types
<1>4. PICK known \in BOOLEAN :
        /\ past' = [past EXCEPT !.faults = IF known THEN @ ELSE @ + 1,
                               !.lent = @ \cup Lends(req, user, desk.target, doors(known))]
        /\ desk' = IF req.type \in EditTypes /\ user = NoUser THEN Idle
                   ELSE [phase |-> "writing", req |-> desk.req, todo |->
                         CASE req.type \in AddTypes ->
                                AddCalls(req, user, desk.target, desk.names, doors(known))
                           [] req.type \in EditTypes ->
                                EditCalls(req, user, desk.target, desk.names, doors(known))
                           [] req.type = "remove" -> RemoveCalls(req, user, desk.target, desk.names)]
  BY DEF LookupUser, AtDesk
<1>5. /\ req.type \in AddTypes => req.type \notin EditTypes /\ req.type # "remove"
      /\ req.type \in EditTypes => req.type # "remove" /\ req.type \notin AddTypes
      /\ req.type = "remove" => req.type \notin AddTypes /\ req.type \notin EditTypes
  BY DEF AddTypes, EditTypes
<1>6. user = NoUser => doors(known) = {} BY DEF DeriveDirectGrantRids
<1> HIDE DEF doors
<1>8. past'.lent = past.lent \cup Lends(req, user, desk.target, doors(known)) BY <1>4 DEF Recorded, Past
<1>7. \/ desk' = Idle
      \/ \E todo : /\ desk' = [phase |-> "writing", req |-> desk.req, todo |-> todo]
                   /\ Decided(todo, req, user, desk.target, desk.names, doors(known))
  BY <1>3, <1>4, <1>5 DEF Decided
<1> QED BY <1>1, <1>2, <1>6, <1>7, <1>8

LEMMA LookupStep ==
    ASSUME Fits, RunSound, Recorded, LookupUser
    PROVE  (desk \in Run)' /\ LookupSpares' /\ WritingSpares'
<1>1. /\ desk # Idle /\ desk.phase = "lookup" /\ desk.req \in ReqIds
      /\ desk.target \in SUBSET Buildings /\ desk.names \in Seq(Scopes)
      /\ UNCHANGED <<vars, kindoo>>
  BY LookupCases
<1> PICK r \in ReqIds : r = desk.req BY <1>1
<1> DEFINE req == Body(r)
           user == AtDesk
           target == desk.target
           names == desk.names
<1>2. user \in User \cup {NoUser} BY <1>1, AtDeskType
<1>3. Wanted(r)' = Wanted(r) BY <1>1 DEF Body, Wanted, vars
<1>4. Wanted(r)' \subseteq target BY <1>1, <1>3 DEF RunSound, LookupSpares
<1>5. AtDesk' = user \/ desk'.req # r BY <1>1 DEF AtDesk, Body, vars
<1> HIDE DEF user, names, target, req
<1>6. ASSUME NEW todo, desk' = [phase |-> "writing", req |-> r, todo |-> todo],
             \/ todo \in Seq(Gentle(target))
             \/ user = NoUser /\ \E invite, rest :
                   /\ invite \in Call /\ invite.kind = "invite" /\ rest \in Seq(Gentle(target))
                   /\ todo = <<invite>> \o rest
      PROVE  (desk \in Run)' /\ LookupSpares' /\ WritingSpares'
  <2>1. desk'.phase = "writing" /\ desk'.req = r /\ desk'.todo = todo BY <1>6
  <2>2. AtDesk' = user BY <1>5, <2>1
  <2>3. \A call \in Gentle(target) : call \in Call /\ call.kind # "invite" /\ Spares(call, Wanted(r)')
    BY <1>4 DEF Gentle, Spares
  <2>4. /\ todo \in Seq(Call)
        /\ \A i \in 1..Len(todo) : /\ todo[i].kind = "invite" => i = 1 /\ user = NoUser
                                   /\ Spares(todo[i], Wanted(r)')
    <3>1. CASE todo \in Seq(Gentle(target))
      <4>1. Gentle(target) \subseteq Call BY DEF Gentle
      <4>2. todo \in Seq(Call) BY <3>1, <4>1, SeqMonotonic
      <4>3. \A i \in 1..Len(todo) : todo[i] \in Gentle(target) BY <3>1, ElementOfSeq
      <4> QED BY <2>3, <4>2, <4>3
    <3>2. ASSUME user = NoUser, NEW invite \in Call, invite.kind = "invite", NEW rest \in Seq(Gentle(target)),
                 todo = <<invite>> \o rest
          PROVE  /\ todo \in Seq(Call)
                 /\ \A i \in 1..Len(todo) : /\ todo[i].kind = "invite" => i = 1 /\ user = NoUser
                                            /\ Spares(todo[i], Wanted(r)')
      <4>1. Gentle(target) \subseteq Call BY DEF Gentle
      <4>2. rest \in Seq(Call) BY <4>1, SeqMonotonic
      <4>3. <<invite>> \in Seq(Call) /\ Len(<<invite>>) = 1 /\ <<invite>>[1] = invite OBVIOUS
      <4>4. /\ todo \in Seq(Call) /\ Len(todo) = 1 + Len(rest)
            /\ \A i \in 1..1 + Len(rest) : todo[i] = IF i <= 1 THEN <<invite>>[i] ELSE rest[i - 1]
        BY <3>2, <4>2, <4>3, ConcatProperties
      <4>5. Len(rest) \in Nat /\ \A i \in 1..Len(rest) : rest[i] \in Gentle(target)
        BY LenProperties, ElementOfSeq
      <4>6. \A call : call.kind = "invite" => Spares(call, Wanted(r)') BY DEF Spares
      <4>7. ASSUME NEW i \in 1..Len(todo)
            PROVE  /\ todo[i].kind = "invite" => i = 1 /\ user = NoUser
                   /\ Spares(todo[i], Wanted(r)')
        <5>1. CASE i = 1
          <6>1. todo[i] = invite BY <4>3, <4>4, <4>5, <5>1
          <6> QED BY <3>2, <4>6, <5>1, <6>1
        <5>2. CASE i # 1
          <6>1. i - 1 \in 1..Len(rest) /\ ~(i <= 1) /\ i \in 1..1 + Len(rest) BY <4>4, <4>5, <5>2
          <6>2. todo[i] = rest[i - 1] BY <4>4, <6>1
          <6>3. todo[i] \in Gentle(target) BY <4>5, <6>1, <6>2
          <6> QED BY <2>3, <6>3
        <5> QED BY <5>1, <5>2
      <4> QED BY <4>4, <4>7
    <3> QED BY <1>6, <3>1, <3>2
  <2>5. desk' \in Run BY <1>6, <2>4 DEF Run
  <2> QED BY <2>1, <2>2, <2>4, <2>5 DEF LookupSpares, WritingSpares
<1>7. ASSUME NEW todo, NEW doors, desk' = [phase |-> "writing", req |-> r, todo |-> todo],
             user = NoUser => doors = {}, Decided(todo, req, user, target, names, doors)
      PROVE  (desk \in Run)' /\ LookupSpares' /\ WritingSpares'
  <2>1. target \in SUBSET Buildings /\ names \in Seq(Scopes) BY <1>1 DEF target, names
  <2>2. CASE todo = AddCalls(req, user, target, names, doors)
    BY <1>2, <1>6, <1>7, <2>1, <2>2, AddCallsAre
  <2>3. CASE user # NoUser /\ todo = EditCalls(req, user, target, names, doors)
    <3>1. todo \in Seq(Gentle(target)) BY <1>2, <1>7, <2>1, <2>3, EditCallsAre
    <3> QED BY <1>6, <1>7, <3>1
  <2>4. CASE todo = RemoveCalls(req, user, target, names)
    <3>1. todo \in Seq(Gentle(target)) BY <1>2, <2>1, <2>4, RemoveCallsAre
    <3> QED BY <1>6, <1>7, <3>1
  <2> QED BY <1>7, <2>2, <2>3, <2>4 DEF Decided
<1>8. \/ desk' = Idle
      \/ \E todo, doors : /\ desk' = [phase |-> "writing", req |-> r, todo |-> todo]
                          /\ user = NoUser => doors = {}
                          /\ Decided(todo, req, user, target, names, doors)
  BY LookupCases DEF user, req, target, names
<1> QED BY <1>7, <1>8, IdleSpares

\* A call that lands.
LEMMA EffectType ==
    ASSUME NEW user \in User \cup {NoUser}, NEW call \in Call
    PROVE  Effect(user, call) \in User \cup {NoUser}
<1>1. CASE call.kind = "invite"
  <2>1. call.temp \in BOOLEAN /\ call.names \in Seq(Scopes) BY <1>1 DEF Call
  <2>2. Effect(user, call) = InviteUser(call) BY <1>1 DEF Effect
  <2> QED BY <2>1, <2>2 DEF InviteUser, User
<1>2. CASE call.kind = "save"
  <2>1. call.rules \in SUBSET Rules BY <1>2 DEF Call
  <2>2. Effect(user, call) = [user EXCEPT !.rules = @ \cup call.rules]
    BY <1>2 DEF Effect, SaveAccessRule
  <2>3. CASE user \in User BY <2>1, <2>2, <2>3 DEF User
  <2>4. CASE user = NoUser BY <2>2, <2>4 DEF NoUser
  <2> QED BY <2>3, <2>4
<1>3. CASE call.kind = "revoke"
  <2>1. Effect(user, call) = [user EXCEPT !.rules = @ \ call.rules]
    BY <1>3 DEF Effect, RevokeUserFromAccessSchedule
  <2>2. CASE user \in User BY <2>1, <2>2 DEF User
  <2>3. CASE user = NoUser BY <2>1, <2>3 DEF NoUser
  <2> QED BY <2>2, <2>3
<1>4. CASE call.kind = "edit"
  <2>1. call.temp \in BOOLEAN /\ call.names \in Seq(Scopes) BY <1>4 DEF Call
  <2>2. Effect(user, call) = [user EXCEPT !.temp = call.temp, !.names = call.names]
    BY <1>4 DEF Effect, EditUser
  <2>3. CASE user \in User BY <2>1, <2>2, <2>3 DEF User
  <2>4. CASE user = NoUser BY <2>2, <2>4 DEF NoUser
  <2> QED BY <2>3, <2>4
<1>5. CASE call.kind = "wipe" BY <1>5 DEF Effect, RevokeUser
<1> QED BY <1>1, <1>2, <1>3, <1>4, <1>5 DEF Call

\* What a call may take: nothing it spares.
LEMMA EffectSpares ==
    ASSUME NEW user \in User \cup {NoUser}, NEW call \in Call, NEW wanted, Spares(call, wanted),
           call.kind = "invite" => user = NoUser
    PROVE  Held(user) \cap wanted \subseteq Held(Effect(user, call))
<1>1. CASE user = NoUser BY <1>1 DEF Held
<1>2. CASE user \in User
  <2>1. user # NoUser /\ Held(user) = (user.rules \cap Buildings) \cup DeriveEffectiveRuleIds(user.direct)
    BY <1>2 DEF User, NoUser, Held
  <2>2. CASE call.kind = "save"
    <3>1. Effect(user, call) = [user EXCEPT !.rules = @ \cup call.rules] BY <2>2 DEF Effect, SaveAccessRule
    <3> QED BY <1>2, <2>1, <3>1 DEF Held, User, NoUser
  <2>3. CASE call.kind = "revoke"
    <3>1. Effect(user, call) = [user EXCEPT !.rules = @ \ call.rules]
      BY <2>3 DEF Effect, RevokeUserFromAccessSchedule
    <3>2. call.rules \cap wanted = {} BY <2>3 DEF Spares
    <3> QED BY <1>2, <2>1, <3>1, <3>2 DEF Held, User, NoUser
  <2>4. CASE call.kind = "edit"
    <3>1. Effect(user, call) = [user EXCEPT !.temp = call.temp, !.names = call.names]
      BY <2>4 DEF Effect, EditUser
    <3> QED BY <1>2, <2>1, <3>1 DEF Held, User, NoUser
  <2>5. CASE call.kind = "wipe" BY <2>5 DEF Spares
  <2> QED BY <2>1, <2>2, <2>3, <2>4, <2>5 DEF Call
<1> QED BY <1>1, <1>2

\* One call of a run, and the user it leaves.
LEMMA CallLands ==
    ASSUME Fits, RunSound, NEW answered \in BOOLEAN, KindooCall(answered)
    PROVE  LET req == Body(desk.req) IN
           /\ Head(desk.todo) \in Call
           /\ Head(desk.todo).kind = "invite" => AtDesk = NoUser
           /\ Spares(Head(desk.todo), Wanted(desk.req))
           /\ req.member \in Members /\ RequestSite(req) \in RealSites
           /\ AtDesk \in User \cup {NoUser}
           /\ \A m \in Members, s \in RealSites :
                 kindoo'[m][s] = IF m = req.member /\ s = RequestSite(req)
                                 THEN Effect(AtDesk, Head(desk.todo)) ELSE kindoo[m][s]
           /\ kindoo' \in [Members -> [RealSites -> User \cup {NoUser}]]
<1> DEFINE req == Body(desk.req)
           site == RequestSite(req)
           call == Head(desk.todo)
<1>1. desk.phase = "writing" /\ desk.todo # <<>> /\ UNCHANGED vars BY DEF KindooCall
<1>2. desk.todo \in Seq(Call) /\ desk # Idle BY <1>1, RunIs DEF RunSound
<1>3. req.member \in Members /\ site \in RealSites /\ AtDesk \in User \cup {NoUser} BY <1>2, AtDeskType
<1>4. call \in Call /\ 1 \in 1..Len(desk.todo) /\ call = desk.todo[1]
  <2>1. Len(desk.todo) \in Nat \ {0} BY <1>1, <1>2, EmptySeq
  <2> QED BY <1>1, <1>2, <2>1, HeadTailProperties
<1>5. /\ call.kind = "invite" => AtDesk = NoUser
      /\ Spares(call, Wanted(desk.req))
  BY <1>1, <1>4 DEF RunSound, WritingSpares
<1>6. AtDesk = kindoo[req.member][site] BY DEF AtDesk
<1>7. kindoo' = [kindoo EXCEPT ![req.member][site] = Effect(AtDesk, call)]
  BY <1>6 DEF KindooCall
<1>8. kindoo \in [Members -> [RealSites -> User \cup {NoUser}]] BY DEF RunSound
<1>9. Effect(AtDesk, call) \in User \cup {NoUser} BY <1>3, <1>4, EffectType
<1> HIDE DEF req, site, call
<1>10. \A m \in Members, s \in RealSites :
         kindoo'[m][s] = IF m = req.member /\ s = site THEN Effect(AtDesk, call) ELSE kindoo[m][s]
  BY <1>3, <1>7, <1>8
<1>11. kindoo' \in [Members -> [RealSites -> User \cup {NoUser}]]
  BY <1>3, <1>7, <1>8, <1>9
<1> QED BY <1>3, <1>4, <1>5, <1>10, <1>11 DEF req, site, call

LEMMA CallSpares ==
    ASSUME Fits, RunSound, NEW answered \in BOOLEAN, KindooCall(answered)
    PROVE  (desk \in Run)' /\ LookupSpares' /\ WritingSpares'
<1>1. desk.phase = "writing" /\ desk.todo # <<>> /\ UNCHANGED vars BY DEF KindooCall
<1>2. desk \in [phase : {"writing"}, req : ReqIds, todo : Seq(Call)] BY <1>1, RunIs DEF RunSound
<1> PICK r \in ReqIds : r = desk.req BY <1>2
<1>3. CASE ~answered
  <2>1. desk' = Idle BY <1>3 DEF KindooCall
  <2> QED BY <2>1, IdleSpares
<1>4. CASE answered
  <2> DEFINE todo == Tail(desk.todo)
  <2>1. desk' = [desk EXCEPT !.todo = Tail(@)] BY <1>4 DEF KindooCall
  <2>2. /\ todo \in Seq(Call) /\ Len(todo) = Len(desk.todo) - 1
        /\ \A i \in 1..Len(todo) : todo[i] = desk.todo[i + 1]
    BY <1>1, <1>2, HeadTailProperties
  <2>3. Len(desk.todo) \in Nat /\ Len(todo) \in Nat BY <1>2, <2>2, LenProperties
  <2> HIDE DEF todo
  <2>4. desk' = [phase |-> "writing", req |-> r, todo |-> todo] BY <1>2, <2>1 DEF todo
  <2>5. desk' \in Run BY <2>2, <2>4 DEF Run
  <2>6. Wanted(r)' = Wanted(r) BY <1>1 DEF Body, Wanted, vars
  <2>7. ASSUME NEW i \in 1..Len(todo)
        PROVE  /\ todo[i].kind # "invite"
               /\ Spares(todo[i], Wanted(r)')
    <3>1. i + 1 \in 1..Len(desk.todo) /\ i + 1 # 1 BY <2>2, <2>3
    <3>2. /\ desk.todo[i + 1].kind = "invite" => i + 1 = 1
          /\ Spares(desk.todo[i + 1], Wanted(r))
      BY <1>1, <3>1 DEF RunSound, WritingSpares
    <3> QED BY <2>2, <2>6, <3>1, <3>2
  <2>8. desk'.phase = "writing" /\ desk'.req = r /\ desk'.todo = todo BY <2>4
  <2> QED BY <2>5, <2>7, <2>8 DEF LookupSpares, WritingSpares
<1> QED BY <1>3, <1>4

\* The completion comes after the last call.
LEMMA MarkSpares ==
    ASSUME RunSound, NEW answered \in BOOLEAN, MarkComplete(answered)
    PROVE  (desk \in Run)' /\ LookupSpares' /\ WritingSpares'
<1>1. CASE desk' = Idle BY <1>1, IdleSpares
<1>2. CASE desk' = desk
  <2>1. desk.phase = "writing" /\ desk.todo = <<>> BY DEF MarkComplete
  <2>2. Len(<<>>) = 0 BY NoGrants
  <2>3. \A i \in 1..Len(desk'.todo) : FALSE BY <1>2, <2>1, <2>2
  <2>4. desk'.phase # "lookup" BY <1>2, <2>1
  <2> QED BY <1>2, <2>3, <2>4 DEF RunSound, LookupSpares, WritingSpares
<1> QED BY <1>1, <1>2 DEF MarkComplete

LEMMA RunInit == ASSUME PInit PROVE RunSound
<1>1. desk = Idle /\ beside = FALSE BY DEF PInit
<1>2. ~BesideNow BY <1>1 DEF BesideNow, Awaited, HasStatus, Exists, PInit, Init
<1>3. desk.phase = "idle" BY <1>1 DEF Idle
<1>4. desk \in Run BY <1>1 DEF Run
<1>5. kindoo \in [Members -> [RealSites -> User \cup {NoUser}]]
  BY ProvisioningAssumption DEF PInit
<1> QED BY <1>1, <1>2, <1>3, <1>4, <1>5 DEF RunSound, LookupSpares, WritingSpares

LEMMA RunStep == ASSUME Fits, Fits', RunSound, Recorded, [PNext]_pvars PROVE RunSound'
<1>1. CASE UNCHANGED pvars
  BY <1>1 DEF RunSound, LookupSpares, WritingSpares, AtDesk, Wanted, Completable, HasStatus, Exists, Body,
              BesideNow, Awaited, pvars, vars
<1>2. CASE PNext
  <2>1. beside' \in BOOLEAN /\ (BesideNow' => beside') BY <1>2 DEF PNext, RunSound
  <2>2. (desk \in Run)' /\ LookupSpares' /\ WritingSpares'
    <3>1. ASSUME RunStops \/ MarkRefused PROVE desk' = Idle BY <3>1 DEF RunStops, MarkRefused
    <3> QED BY <1>2, <3>1, StartSpares, LookupStep, CallSpares, MarkSpares, ClientsSpare, IdleSpares
            DEF PNext, Desk
  <2>3. kindoo' \in [Members -> [RealSites -> User \cup {NoUser}]]
    <3>1. kindoo' = kindoo \/ \E answered \in BOOLEAN : KindooCall(answered)
      BY <1>2 DEF PNext, Desk, Clients, StartRun, LookupUser, MarkComplete, RunStops, MarkRefused
    <3> QED BY <3>1, CallLands DEF RunSound
  <2> QED BY <2>1, <2>2, <2>3 DEF RunSound
<1> QED BY <1>1, <1>2

-----------------------------------------------------------------------------
(* What a completion leaves of the other sites.                            *)

\* A grant that may have gained the request's buildings.
Grows(g, h, req) ==
    /\ h.scope = g.scope
    /\ g.scope # req.scope => Same(g, h)
    /\ h.buildings \subseteq g.buildings \cup req.buildings

\* A completion keeps the grants in their order; those of the request's scope may
\* change their buildings, and a new one comes last.
Reaches(s, t, req) ==
    LET L == AllGrants(s) M == AllGrants(t) IN
    /\ L \in Seq(Grant) /\ M \in Seq(Grant) /\ Len(L) <= Len(M)
    /\ \A j \in 1..Len(L) : Grows(L[j], M[j], req)
    /\ \A j \in 1..Len(M) : j > Len(L) => M[j].scope = req.scope /\ M[j].buildings \subseteq req.buildings

LEMMA SameGrows == ASSUME NEW g, NEW h, NEW req, Same(g, h) PROVE Grows(g, h, req)
BY DEF Same, Grows

LEMMA SeatReaches ==
    ASSUME NEW req, NEW s \in Seat, NEW t \in Seat, Grows(Primary(s), Primary(t), req),
           Len(s.dups) <= Len(t.dups),
           \A j \in 1..Len(s.dups) : Grows(s.dups[j], t.dups[j], req),
           \A j \in 1..Len(t.dups) : j > Len(s.dups) =>
               t.dups[j].scope = req.scope /\ t.dups[j].buildings \subseteq req.buildings
    PROVE  Reaches(s, t, req)
<1> DEFINE L == AllGrants(s)
           M == AllGrants(t)
           n == Len(s.dups)
           k == Len(t.dups)
<1>1. /\ L \in Seq(Grant) /\ Len(L) = 1 + n /\ L[1] = Primary(s)
      /\ \A j \in 1..n : L[j + 1] = s.dups[j]
      /\ M \in Seq(Grant) /\ Len(M) = 1 + k /\ M[1] = Primary(t)
      /\ \A j \in 1..k : M[j + 1] = t.dups[j]
  BY AllGrantsIs
<1>2. n \in Nat /\ k \in Nat /\ n <= k BY SeatFacts
<1> HIDE DEF L, M
<1>3. ASSUME NEW j \in 1..1 + n PROVE Grows(L[j], M[j], req)
  <2>1. CASE j = 1 BY <1>1, <2>1
  <2>2. CASE j # 1
    <3>1. j - 1 \in 1..n /\ j - 1 \in 1..k /\ (j - 1) + 1 = j BY <1>2, <2>2
    <3>2. L[j] = s.dups[j - 1] /\ M[j] = t.dups[j - 1] BY <1>1, <3>1
    <3> QED BY <3>1, <3>2
  <2> QED BY <2>1, <2>2
<1>4. ASSUME NEW j \in 1..1 + k, j > 1 + n
      PROVE  M[j].scope = req.scope /\ M[j].buildings \subseteq req.buildings
  <2>1. j - 1 \in 1..k /\ j - 1 > n /\ (j - 1) + 1 = j BY <1>2, <1>4
  <2>2. M[j] = t.dups[j - 1] BY <1>1, <2>1
  <2> QED BY <2>1, <2>2
<1> QED BY <1>1, <1>2, <1>3, <1>4 DEF Reaches, L, M

LEMMA NewSeatReaches ==
    ASSUME NEW req, Listed(req), req.type \in AddTypes
    PROVE  Reaches(NoSeat, NewSeat(req), req)
<1> DEFINE t == NewSeat(req)
           M == AllGrants(t)
<1>1. t \in Seat /\ t.dups = <<>> BY NewSeatSound DEF Listed, NewSeat
<1>2. req.buildings # {} BY DEF Listed, AddTypes
<1>3. Primary(t).scope = req.scope /\ Primary(t).buildings = req.buildings BY <1>2 DEF Primary, NewSeat
<1> HIDE DEF t
<1>4. M \in Seq(Grant) /\ Len(M) = 1 + Len(t.dups) /\ M[1] = Primary(t) BY <1>1, AllGrantsIs
<1>5. Len(M) = 1 BY <1>1, <1>4, NoGrants
<1>6. AllGrants(NoSeat) \in Seq(Grant) /\ Len(AllGrants(NoSeat)) = 0 BY NoGrants, EmptySeq
<1> HIDE DEF M
<1>7. /\ \A j \in 1..0 : FALSE
      /\ \A j \in 1..Len(M) : M[j] = Primary(t)
  BY <1>4, <1>5
<1> QED BY <1>3, <1>4, <1>5, <1>6, <1>7 DEF Reaches, M, t

LEMMA AddReaches ==
    ASSUME NEW req \in Input, NEW s \in Seat, Sound(s)
    PROVE  Reaches(s, PlanAddMerge(s, req), req)
<1> DEFINE type == AddType(req.type)
           t == PlanAddMerge(s, req)
           n == Len(s.dups)
           i == SlotIndex(s.dups, req.scope, type)
<1>1. s.dups \in Seq(Grant) /\ n \in Nat /\ \A j \in 1..n : s.dups[j] \in Grant BY SeatFacts
<1>2. i \in 0..n /\ (i > 0 => s.dups[i].scope = req.scope /\ s.dups[i].type = type)
  BY <1>1, FirstSlot
<1>3. t \in Seat BY PlanAddMergeSound
<1>4. \A g : Grows(g, g, req) BY DEF Grows, Same
<1>5. \A j \in 1..n : ~(j > n) BY <1>1
<1>6. CASE s.scope = req.scope /\ s.type = type
  <2>1. t = Merged(s, req) BY <1>6 DEF PlanAddMerge
  <2>2. t.dups = s.dups /\ t.scope = s.scope /\ t.buildings = s.buildings \cup req.buildings
    BY <2>1, MergedSeat DEF Merged, Seat
  <2> HIDE DEF t
  <2>3. Grows(Primary(s), Primary(t), req) BY <1>6, <2>2 DEF Primary, Grows
  <2>4. /\ Len(s.dups) <= Len(t.dups)
        /\ \A j \in 1..Len(s.dups) : Grows(s.dups[j], t.dups[j], req)
        /\ \A j \in 1..Len(t.dups) : ~(j > Len(s.dups))
    BY <1>1, <1>4, <1>5, <2>2
  <2>5. t \in Seat BY <1>3 DEF t
  <2>6. Reaches(s, t, req) BY <2>3, <2>4, <2>5, SeatReaches
  <2> QED BY <2>6 DEF t
<1>7. CASE ~(s.scope = req.scope /\ s.type = type) /\ i > 0
  <2> DEFINE g == s.dups[i]
             h == Merged(g, req)
             d == ReplaceAt(s.dups, i, h)
  <2>1. i \in 1..n BY <1>2, <1>7
  <2>2. g \in Grant /\ h \in Grant /\ g.scope = req.scope BY <1>1, <1>2, <2>1, MergedGrant
  <2>3. Grows(g, h, req) BY <2>2 DEF Merged, Grant, Grows
  <2>4. t = IF h = g THEN s ELSE WithDups(s, d) BY <1>7 DEF PlanAddMerge
  <2>5. d \in Seq(Grant) /\ Len(d) = n /\ \A j \in 1..n : d[j] = IF j = i THEN h ELSE s.dups[j]
    BY <1>1, <2>1, <2>2, ExceptSeq DEF ReplaceAt
  <2>6. \A j \in 1..n : Grows(s.dups[j], d[j], req) BY <1>4, <2>3, <2>5
  <2> HIDE DEF g, h, d, i, t
  <2>7. CASE h = g
    <3>1. t = s BY <2>4, <2>7
    <3>2. /\ Len(s.dups) <= Len(s.dups)
          /\ \A j \in 1..Len(s.dups) : Grows(s.dups[j], s.dups[j], req)
          /\ \A j \in 1..Len(s.dups) : ~(j > Len(s.dups))
          /\ Grows(Primary(s), Primary(s), req)
      BY <1>1, <1>4, <1>5
    <3>3. Reaches(s, s, req) BY <3>2, SeatReaches
    <3> QED BY <3>1, <3>3 DEF t
  <2>8. CASE h # g
    <3>1. t.dups = d /\ Primary(t) = Primary(s) BY <2>4, <2>5, <2>8, WithDupsType
    <3>2. /\ Len(s.dups) <= Len(t.dups)
          /\ \A j \in 1..Len(s.dups) : Grows(s.dups[j], t.dups[j], req)
          /\ \A j \in 1..Len(t.dups) : ~(j > Len(s.dups))
          /\ Grows(Primary(s), Primary(t), req)
      BY <1>1, <1>4, <1>5, <2>5, <2>6, <3>1
    <3>3. t \in Seat BY <1>3 DEF t
    <3>4. Reaches(s, t, req) BY <3>2, <3>3, SeatReaches
    <3> QED BY <3>4 DEF t
  <2> QED BY <2>7, <2>8
<1>8. CASE ~(s.scope = req.scope /\ s.type = type) /\ ~(i > 0)
  <2> DEFINE h == NewDuplicate(req)
             d == Append(s.dups, h)
  <2>1. t = WithDups(s, d) BY <1>8 DEF PlanAddMerge
  <2>2. h \in Grant BY NewDuplicateType
  <2>3. h.scope = req.scope /\ h.buildings = req.buildings BY DEF NewDuplicate
  <2>4. /\ d \in Seq(Grant) /\ Len(d) = n + 1
        /\ \A j \in 1..n : d[j] = s.dups[j]
        /\ d[n + 1] = h
    BY <1>1, <2>2, AppendProperties
  <2> HIDE DEF h, d, t
  <2>5. t.dups = d /\ Primary(t) = Primary(s) BY <2>1, <2>4, WithDupsType
  <2>6. \A j \in 1..n + 1 : j > n => j = n + 1 BY <1>1
  <2>7. \A j \in 1..n : Grows(s.dups[j], d[j], req) BY <1>4, <2>4
  <2>8. n <= n + 1 BY <1>1
  <2> QED BY <1>3, <1>4, <2>3, <2>4, <2>5, <2>6, <2>7, <2>8, SeatReaches DEF t
<1> QED BY <1>6, <1>7, <1>8

LEMMA EditReaches ==
    ASSUME NEW req \in Input, NEW s \in Seat, HasSlot(s, req.scope, EditType(req.type))
    PROVE  Reaches(s, PlanEditSeat(s, req), req)
<1> DEFINE type == EditType(req.type)
           t == PlanEditSeat(s, req)
           n == Len(s.dups)
           i == SlotIndex(s.dups, req.scope, type)
<1>1. s.dups \in Seq(Grant) /\ n \in Nat /\ \A j \in 1..n : s.dups[j] \in Grant BY SeatFacts
<1>2. i \in 0..n /\ (i > 0 => s.dups[i].scope = req.scope /\ s.dups[i].type = type)
  BY <1>1, FirstSlot
<1>3. \A g : Grows(g, g, req) BY DEF Grows, Same
<1>4. \A j \in 1..n : ~(j > n) BY <1>1
<1>5. req.buildings \in SUBSET Buildings BY DEF Input
<1>6. CASE s.scope = req.scope /\ s.type = type
  <2>1. t = Edited(s, req) BY <1>6 DEF PlanEditSeat
  <2>2. t \in Seat /\ t.dups = s.dups BY <1>5, <2>1, EditedSeat
  <2>3. t.scope = s.scope /\ t.buildings = req.buildings BY <2>1 DEF Edited, Seat
  <2> HIDE DEF t
  <2>4. Grows(Primary(s), Primary(t), req) BY <1>6, <2>3 DEF Primary, Grows
  <2> QED BY <1>1, <1>3, <1>4, <2>2, <2>4, SeatReaches DEF t
<1>7. CASE ~(s.scope = req.scope /\ s.type = type)
  <2> DEFINE g == s.dups[i]
             e == Edited(g, req)
             d == ReplaceAt(s.dups, i, e)
  <2>1. i \in 1..n BY <1>1, <1>2, <1>7 DEF HasSlot
  <2>2. t = [s EXCEPT !.dups = d] BY <1>7 DEF PlanEditSeat
  <2>3. g \in Grant /\ e \in Grant /\ g.scope = req.scope BY <1>1, <1>2, <1>5, <2>1, EditedGrant
  <2>4. Grows(g, e, req) BY <2>3 DEF Edited, Grant, Grows
  <2>5. d \in Seq(Grant) /\ Len(d) = n /\ \A j \in 1..n : d[j] = IF j = i THEN e ELSE s.dups[j]
    BY <1>1, <2>1, <2>3, ExceptSeq DEF ReplaceAt
  <2>6. \A j \in 1..n : Grows(s.dups[j], d[j], req) BY <1>3, <2>4, <2>5
  <2> HIDE DEF g, e, d, i
  <2>7. t \in Seat /\ t.dups = d /\ Primary(t) = Primary(s) BY <2>2, <2>5 DEF Seat, Primary
  <2> HIDE DEF t
  <2> QED BY <1>1, <1>3, <1>4, <2>5, <2>6, <2>7, SeatReaches DEF t
<1> QED BY <1>6, <1>7

\* On another site than the request's, the same grants count.
LEMMA ElsewhereSame ==
    ASSUME NEW req, NEW s \in Seat \cup {NoSeat}, InPlace(s), NEW t \in Seat \cup {NoSeat}, InPlace(t),
           Reaches(s, t, req), NEW site, site # RequestSite(req)
    PROVE  LET L == AllGrants(s) M == AllGrants(t) IN
           /\ \A j \in 1..Len(M) : GrantSite(M[j]) = site => j \in 1..Len(L) /\ Same(L[j], M[j])
           /\ \A j \in 1..Len(L) : GrantSite(L[j]) = site => j \in 1..Len(M) /\ Same(L[j], M[j])
<1> DEFINE L == AllGrants(s)
           M == AllGrants(t)
<1>1. /\ L \in Seq(Grant) /\ M \in Seq(Grant) /\ Len(L) <= Len(M)
      /\ \A j \in 1..Len(L) : Grows(L[j], M[j], req)
      /\ \A j \in 1..Len(M) : j > Len(L) => M[j].scope = req.scope
  BY DEF Reaches
<1>2. Len(L) \in Nat /\ Len(M) \in Nat BY <1>1, LenProperties
<1>3. ASSUME NEW u \in Seat \cup {NoSeat}, InPlace(u), NEW g \in Grants(u), GrantSite(g) = site
      PROVE  g.scope # req.scope
  <2>1. u \in Seat BY <1>3, NoGrants
  <2> QED BY <1>3, <2>1, InPlaceIs DEF RequestSite
<1>4. Grants(s) = {L[j] : j \in 1..Len(L)} /\ Grants(t) = {M[j] : j \in 1..Len(M)} BY GrantsListed
<1> HIDE DEF L, M
<1>5. ASSUME NEW j \in 1..Len(M), GrantSite(M[j]) = site PROVE j \in 1..Len(L) /\ Same(L[j], M[j])
  <2>1. M[j].scope # req.scope BY <1>3, <1>4, <1>5
  <2>2. j \in 1..Len(L) BY <1>1, <1>2, <2>1
  <2> QED BY <1>1, <2>1, <2>2 DEF Grows
<1>6. ASSUME NEW j \in 1..Len(L), GrantSite(L[j]) = site PROVE j \in 1..Len(M) /\ Same(L[j], M[j])
  <2>1. L[j].scope # req.scope BY <1>3, <1>4, <1>6
  <2>2. j \in 1..Len(M) BY <1>1, <1>2
  <2> QED BY <1>1, <2>1, <2>2 DEF Grows
<1> QED BY <1>5, <1>6 DEF L, M

LEMMA ElsewhereGrants ==
    ASSUME NEW req, NEW s \in Seat \cup {NoSeat}, InPlace(s), NEW t \in Seat \cup {NoSeat}, InPlace(t),
           Reaches(s, t, req), NEW site, site # RequestSite(req)
    PROVE  /\ \A h \in Grants(t) : GrantSite(h) = site => \E g \in Grants(s) : Same(g, h)
           /\ \A g \in Grants(s) : GrantSite(g) = site => \E h \in Grants(t) : Same(g, h)
           /\ CurrentSeatBuildings(t, site) = CurrentSeatBuildings(s, site)
<1> DEFINE L == AllGrants(s)
           M == AllGrants(t)
<1>1. Grants(s) = {L[j] : j \in 1..Len(L)} /\ Grants(t) = {M[j] : j \in 1..Len(M)} BY GrantsListed
<1>2. /\ \A j \in 1..Len(M) : GrantSite(M[j]) = site => j \in 1..Len(L) /\ Same(L[j], M[j])
      /\ \A j \in 1..Len(L) : GrantSite(L[j]) = site => j \in 1..Len(M) /\ Same(L[j], M[j])
  BY ElsewhereSame
<1> HIDE DEF L, M
<1>3. \A h \in Grants(t) : GrantSite(h) = site => \E g \in Grants(s) : Same(g, h) BY <1>1, <1>2
<1>4. \A g \in Grants(s) : GrantSite(g) = site => \E h \in Grants(t) : Same(g, h) BY <1>1, <1>2
<1>5. \A b : b \in BuildingsAt(Grants(t), site) <=> b \in BuildingsAt(Grants(s), site)
  BY ONLY <1>3, <1>4, SameCounts, AtSite
<1> QED BY <1>3, <1>4, <1>5 DEF CurrentSeatBuildings

\* A request of another site wants what it wanted.
LEMMA ElsewhereWanted ==
    ASSUME NEW req, NEW s \in Seat \cup {NoSeat}, InPlace(s), NEW t \in Seat \cup {NoSeat}, InPlace(t),
           Reaches(s, t, req), NEW q, Listed(q), RequestSite(q) # RequestSite(req)
    PROVE  Target(t, q) = Target(s, q)
<1> DEFINE site == RequestSite(q)
<1>1. q.type \in AddTypes \/ q.type \in EditTypes \/ q.type = "remove" BY DEF Listed, Input, Types
<1>2. /\ q.type \in AddTypes => q.type \notin EditTypes /\ q.type # "remove"
      /\ q.type \in EditTypes => q.type # "remove" /\ q.type \notin AddTypes
      /\ q.type = "remove" => q.type \notin AddTypes /\ q.type \notin EditTypes
  BY DEF AddTypes, EditTypes
<1>3. /\ \A h \in Grants(t) : GrantSite(h) = site => \E g \in Grants(s) : Same(g, h)
      /\ \A g \in Grants(s) : GrantSite(g) = site => \E h \in Grants(t) : Same(g, h)
      /\ CurrentSeatBuildings(t, site) = CurrentSeatBuildings(s, site)
  BY ElsewhereGrants
<1>4. CASE q.type \in AddTypes BY <1>2, <1>3, <1>4 DEF Target, AddTarget
<1>5. CASE q.type \in EditTypes
  <2> DEFINE slot == <<q.scope, EditType(q.type)>>
             Other(u, b) == \E g \in Grants(u) : Slot(g) # slot /\ GrantSite(g) = site /\ b \in g.buildings
  <2>1. ASSUME NEW b PROVE Other(t, b) <=> Other(s, b)
    <3>1. ASSUME NEW h \in Grants(t), Slot(h) # slot, GrantSite(h) = site, b \in h.buildings PROVE Other(s, b)
      <4>1. PICK g \in Grants(s) : Same(g, h) BY <1>3, <3>1
      <4> QED BY <3>1, <4>1, SameCounts
    <3>2. ASSUME NEW g \in Grants(s), Slot(g) # slot, GrantSite(g) = site, b \in g.buildings PROVE Other(t, b)
      <4>1. PICK h \in Grants(t) : Same(g, h) BY <1>3, <3>2
      <4> QED BY <3>2, <4>1, SameCounts
    <3> QED BY <3>1, <3>2
  <2>2. \A b : /\ b \in EditTarget(t, q) <=> b \in q.buildings \/ Other(t, b)
               /\ b \in EditTarget(s, q) <=> b \in q.buildings \/ Other(s, b)
    BY <1>5, EditTargetIs
  <2> HIDE DEF Other
  <2>3. EditTarget(t, q) = EditTarget(s, q) BY <2>1, <2>2
  <2> QED BY <1>2, <1>5, <2>3 DEF Target
<1>6. CASE q.type = "remove"
  <2> DEFINE L == AllGrants(s)
             M == AllGrants(t)
             f == FirstOfScope(L, q.scope)
             e == FirstOfScope(M, q.scope)
             Left(d, i, b) == \E j \in (1..Len(d)) \ {i} : GrantSite(d[j]) = site /\ b \in d[j].buildings
  <2>1. /\ L \in Seq(Grant) /\ M \in Seq(Grant)
        /\ \A j \in 1..Len(L) : Grows(L[j], M[j], req)
    BY DEF Reaches
  <2>2. /\ \A j \in 1..Len(M) : GrantSite(M[j]) = site => j \in 1..Len(L) /\ Same(L[j], M[j])
        /\ \A j \in 1..Len(L) : GrantSite(L[j]) = site => j \in 1..Len(M) /\ Same(L[j], M[j])
    BY ElsewhereSame
  <2>3. /\ f \in 0..Len(L)
        /\ f > 0 => L[f].scope = q.scope /\ \A j \in 1..Len(L) : L[j].scope = q.scope => f <= j
        /\ e \in 0..Len(M)
        /\ e > 0 => M[e].scope = q.scope /\ \A j \in 1..Len(M) : M[j].scope = q.scope => e <= j
        /\ f = 0 => \A j \in 1..Len(L) : L[j].scope # q.scope
        /\ e = 0 => \A j \in 1..Len(M) : M[j].scope # q.scope
    BY <2>1, FirstIs
  <2>4. Len(L) \in Nat /\ Len(M) \in Nat /\ Len(L) <= Len(M) BY <2>1, LenProperties DEF Reaches
  <2>5. \A b : /\ b \in ComputePostRemovalBuildings(t, q) <=> Left(M, e, b)
               /\ b \in ComputePostRemovalBuildings(s, q) <=> Left(L, f, b)
    BY LeftIs
  <2> HIDE DEF L, M, f, e
  <2>6. ASSUME NEW j \in 1..Len(L), Same(L[j], M[j]) PROVE j = e <=> j = f
    <3>1. \A k \in 1..Len(L) : k \in 1..Len(M) /\ M[k].scope = L[k].scope BY <2>1, <2>4 DEF Grows
    <3>2. ASSUME j = f PROVE j = e
      <4>1. f > 0 /\ M[j].scope = q.scope /\ j \in 1..Len(M) BY <2>3, <2>4, <3>1, <3>2
      <4>2. e > 0 /\ e <= j BY <2>3, <2>4, <4>1
      <4>3. e \in 1..Len(L) /\ L[e].scope = q.scope BY <2>3, <2>4, <3>1, <4>2
      <4>4. f <= e BY <2>3, <4>1, <4>3
      <4> QED BY <2>3, <2>4, <3>2, <4>2, <4>4
    <3>3. ASSUME j = e PROVE j = f
      <4>1. e > 0 /\ L[j].scope = q.scope BY <2>3, <2>4, <3>1, <3>3
      <4>2. f > 0 /\ f <= j BY <2>3, <2>4, <4>1
      <4>3. f \in 1..Len(L) /\ f \in 1..Len(M) /\ M[f].scope = q.scope BY <2>3, <2>4, <3>1, <4>2
      <4>4. e <= f BY <2>3, <4>1, <4>3
      <4> QED BY <2>3, <2>4, <3>3, <4>2, <4>4
    <3> QED BY <3>2, <3>3
  <2>7. ASSUME NEW b PROVE Left(M, e, b) <=> Left(L, f, b)
    <3>1. ASSUME NEW j \in (1..Len(M)) \ {e}, GrantSite(M[j]) = site, b \in M[j].buildings PROVE Left(L, f, b)
      <4>1. j \in 1..Len(L) /\ Same(L[j], M[j]) BY <2>2, <3>1
      <4>2. j # f BY <2>6, <4>1
      <4> QED BY <3>1, <4>1, <4>2, SameCounts
    <3>2. ASSUME NEW j \in (1..Len(L)) \ {f}, GrantSite(L[j]) = site, b \in L[j].buildings PROVE Left(M, e, b)
      <4>1. j \in 1..Len(M) /\ Same(L[j], M[j]) BY <2>2, <3>2
      <4>2. j # e BY <2>6, <4>1
      <4> QED BY <3>2, <4>1, <4>2, SameCounts
    <3> QED BY <3>1, <3>2
  <2> HIDE DEF Left
  <2>8. ComputePostRemovalBuildings(t, q) = ComputePostRemovalBuildings(s, q) BY <2>5, <2>7
  <2> QED BY <1>2, <1>6, <2>8 DEF Target
<1> QED BY <1>1, <1>4, <1>5, <1>6

-----------------------------------------------------------------------------
(* The steps, as they bear on the rosters.                                 *)

\* What a request is, whatever its note says.
Stands(r) ==
    /\ Body(r)' = Body(r)
    /\ Exists(r)' <=> Exists(r)
    /\ \A status \in Statuses : HasStatus(r, status)' <=> HasStatus(r, status)

LEMMA UntouchedStands ==
    ASSUME NEW r \in ReqIds, requests'[r] = requests[r]
    PROVE  Stands(r)
BY DEF Stands, Body, Exists, HasStatus

LEMMA CompletionDoes ==
    ASSUME Fits, NEW r \in ReqIds, CompleteRequest(r)
    PROVE  LET req == Body(r) IN
           /\ HasStatus(r, "pending") /\ Completable(r) /\ HasStatus(r, "complete")'
           /\ Body(r)' = req /\ Exists(r)'
           /\ Listed(req) /\ req.member \in Members /\ RequestSite(req) \in RealSites
           /\ \A q \in ReqIds \ {r} : requests'[q] = requests[q]
           /\ deliveries' = deliveries
           /\ \A m \in Members \ {req.member} : seats'[m] = seats[m]
           /\ req.type = "remove" => seats' = seats
           /\ req.type # "remove" =>
                 /\ seats'[req.member] = SeatAfter(r)
                 /\ Reaches(seats[req.member], seats'[req.member], req)
<1> DEFINE req == Body(r)
           s == seats[req.member]
<1>1. TypeOK BY DEF Fits, SeatsSound
<1>2. HasStatus(r, "pending") /\ deliveries' = deliveries
  BY DEF CompleteRequest, CompleteAdd, CompleteEdit, CompleteRemove
<1>3. requests[r] \in Request BY <1>1, <1>2 DEF TypeOK, HasStatus, Exists
<1>4. /\ Listed(req) /\ req \in Input /\ req.member \in Members
      /\ s \in Seat \cup {NoSeat} /\ InPlace(s)
  BY <1>1, <1>2, BodyType DEF HasStatus, Fits, Orderly, TypeOK
<1>5. RequestSite(req) \in RealSites BY <1>4, RequestSiteType
<1>6. \E outcome, note : requests' = Completed(r, outcome, note)
  BY DEF CompleteRequest, CompleteAdd, CompleteEdit, CompleteRemove
<1>7. /\ requests'[r].body = requests[r].body /\ requests'[r].status = "complete"
      /\ DOMAIN requests'[r] = DOMAIN requests[r]
      /\ \A q \in ReqIds \ {r} : requests'[q] = requests[q]
  BY <1>1, <1>3, <1>6 DEF Completed, TypeOK, Request
<1>8. requests'[r] # NoRequest BY <1>3, <1>7 DEF Request, NoRequest
<1>9. HasStatus(r, "complete")' /\ Body(r)' = req /\ Exists(r)' BY <1>7, <1>8 DEF HasStatus, Exists, Body
<1>10. req.type = "remove" => seats' = seats
  BY DEF CompleteRequest, CompleteAdd, CompleteEdit, CompleteRemove, AddTypes, EditTypes
<1> DEFINE t == IF req.type \in EditTypes THEN PlanEditSeat(s, req)
                ELSE IF s = NoSeat THEN NewSeat(req) ELSE PlanAddMerge(s, req)
<1>11. /\ req.type \in AddTypes => req.type \notin EditTypes
       /\ req.type \in EditTypes => req.type \notin AddTypes
  BY DEF AddTypes, EditTypes
<1>12. ASSUME req.type # "remove"
       PROVE  /\ seats' = [seats EXCEPT ![req.member] = t]
              /\ req.type \in EditTypes => s # NoSeat /\ HasSlot(s, req.scope, EditType(req.type))
              /\ req.type \in AddTypes \/ req.type \in EditTypes
  <2>1. ~CompleteRemove(r, {"manager"}) BY <1>12 DEF CompleteRemove
  <2>2. CASE CompleteAdd(r, {"manager"}) BY <1>11, <2>2 DEF CompleteAdd
  <2>3. CASE CompleteEdit(r, {"manager"}) BY <1>11, <2>3 DEF CompleteEdit
  <2> QED BY <2>1, <2>2, <2>3 DEF CompleteRequest
<1>13. Completable(r)
  <2>1. req.type \in EditTypes => req.type # "remove" BY DEF EditTypes
  <2> QED BY <1>2, <1>12, <2>1 DEF Completable
<1>14. \A m \in Members \ {req.member} : seats'[m] = seats[m] BY <1>1, <1>10, <1>12 DEF TypeOK
<1>15. ASSUME req.type # "remove"
       PROVE  /\ seats'[req.member] = SeatAfter(r)
              /\ Reaches(s, seats'[req.member], req)
  <2>1. seats'[req.member] = t BY <1>1, <1>4, <1>12, <1>15 DEF TypeOK
  <2>2. SeatAfter(r) = t BY <1>11, <1>12, <1>13, <1>15 DEF SeatAfter
  <2>3. s # NoSeat => s \in Seat /\ Sound(s) BY <1>4 DEF InPlace
  <2>4. ASSUME req.type \in EditTypes PROVE Reaches(s, t, req)
    <3>1. s \in Seat /\ HasSlot(s, req.scope, EditType(req.type)) /\ req \in Input
      BY <1>4, <1>12, <1>15, <2>3, <2>4
    <3>2. t = PlanEditSeat(s, req) BY <2>4
    <3> HIDE DEF s, req, t
    <3>3. Reaches(s, PlanEditSeat(s, req), req) BY <3>1, EditReaches
    <3> QED BY <3>2, <3>3
  <2>5. ASSUME req.type \in AddTypes, s = NoSeat PROVE Reaches(s, t, req)
    <3>1. t = NewSeat(req) /\ s = NoSeat /\ Listed(req) /\ req.type \in AddTypes BY <1>4, <1>11, <2>5
    <3> HIDE DEF s, req, t
    <3>2. Reaches(NoSeat, NewSeat(req), req) BY <3>1, NewSeatReaches
    <3> QED BY <3>1, <3>2
  <2>6. ASSUME req.type \in AddTypes, s # NoSeat PROVE Reaches(s, t, req)
    <3>1. s \in Seat /\ Sound(s) /\ req \in Input BY <1>4, <2>3, <2>6
    <3>2. t = PlanAddMerge(s, req) BY <1>11, <2>6
    <3> HIDE DEF s, req, t
    <3>3. Reaches(s, PlanAddMerge(s, req), req) BY <3>1, AddReaches
    <3> QED BY <3>2, <3>3
  <2> HIDE DEF s, t
  <2> QED BY <1>12, <1>15, <2>1, <2>2, <2>4, <2>5, <2>6
<1> QED BY <1>2, <1>4, <1>5, <1>7, <1>9, <1>10, <1>13, <1>14, <1>15

LEMMA TriggerDoes ==
    ASSUME Fits, NEW q \in ReqIds, SeatTrigger(q)
    PROVE  LET req == Body(q) s == seats[req.member] IN
           /\ HasStatus(q, "complete") /\ req.type = "remove"
           /\ Listed(req) /\ req.member \in Members /\ RequestSite(req) \in RealSites
           /\ deliveries' = [deliveries EXCEPT ![q] = @ + 1] /\ deliveries[q] < MaxDeliveries
           /\ \A r \in ReqIds : Stands(r)
           /\ \A m \in Members \ {req.member} : seats'[m] = seats[m]
           /\ seats'[req.member] = IF s = NoSeat THEN NoSeat
                                   ELSE ApplyRemove(s, PlanRemove(s, req.scope, req.site))
<1> DEFINE req == Body(q)
           s == seats[req.member]
           plan == PlanRemove(s, req.scope, req.site)
           t == ApplyRemove(s, plan)
<1>1. TypeOK BY DEF Fits, SeatsSound
<1>2. /\ HasStatus(q, "complete") /\ req.type = "remove"
      /\ deliveries' = [deliveries EXCEPT ![q] = @ + 1] /\ deliveries[q] < MaxDeliveries
  BY DEF SeatTrigger
<1>3. requests[q] \in Request BY <1>1, <1>2 DEF TypeOK, HasStatus, Exists
<1>4. Listed(req) /\ req \in Input /\ req.member \in Members
  BY <1>1, <1>2, BodyType DEF HasStatus, Fits, Orderly
<1>5. RequestSite(req) \in RealSites BY <1>4, RequestSiteType
<1>6. \/ requests' = requests /\ seats' = seats /\ s = NoSeat
      \/ Shifted(q) /\ seats' = seats /\ s # NoSeat /\ plan.kind = "no_match"
      \/ requests' = requests /\ seats' = [seats EXCEPT ![req.member] = t] /\ s # NoSeat
  BY DEF SeatTrigger
<1>7. ASSUME NEW r \in ReqIds PROVE Stands(r)
  <2>1. CASE requests' = requests BY <2>1, UntouchedStands
  <2>2. CASE Shifted(q)
    <3>1. CASE r # q
      <4>1. requests'[r] = requests[r] BY <1>1, <2>2, <3>1 DEF Shifted, TypeOK
      <4> QED BY <4>1, UntouchedStands
    <3>2. CASE r = q
      <4>1. /\ requests'[q].body = requests[q].body /\ requests'[q].status = requests[q].status
            /\ DOMAIN requests'[q] = DOMAIN requests[q]
        BY <1>1, <1>3, <2>2 DEF Shifted, TypeOK, Request
      <4>2. requests'[q] # NoRequest /\ requests[q] # NoRequest BY <1>3, <4>1 DEF Request, NoRequest
      <4> QED BY <3>2, <4>1, <4>2 DEF Stands, Body, Exists, HasStatus
    <3> QED BY <3>1, <3>2
  <2> QED BY <1>6, <2>1, <2>2
<1>8. \A m \in Members \ {req.member} : seats'[m] = seats[m] BY <1>1, <1>6 DEF TypeOK
<1>9. seats'[req.member] = IF s = NoSeat THEN NoSeat ELSE t
  <2>1. plan.kind = "no_match" => t = s BY DEF ApplyRemove
  <2> HIDE DEF plan, t
  <2>2. seats' = [seats EXCEPT ![req.member] = t] => seats'[req.member] = t BY <1>1, <1>4 DEF TypeOK
  <2> QED BY <1>6, <2>1, <2>2
<1> QED BY <1>2, <1>4, <1>5, <1>7, <1>8, <1>9

\* What the other clients do: a request comes, or a pending one goes, or a
\* trigger runs.
LEMMA ClientsDo ==
    ASSUME Fits, Clients
    PROVE  /\ UNCHANGED <<kindoo, desk, past>>
           /\ \/ \E q \in ReqIds : SeatTrigger(q)
              \/ /\ UNCHANGED <<seats, deliveries>>
                 /\ \E q \in ReqIds :
                       /\ \A r \in ReqIds \ {q} : requests'[r] = requests[r]
                       /\ \/ ~Exists(q) /\ Body(q)' \in Inputs
                          \/ HasStatus(q, "pending") /\ Body(q)' = Body(q)
                             /\ ~HasStatus(q, "pending")'
                       /\ ~HasStatus(q, "complete")' /\ Exists(q)'
<1>1. TypeOK BY DEF Fits, SeatsSound
<1>2. UNCHANGED <<kindoo, desk, past>> BY DEF Clients
<1>3. ASSUME NEW q \in ReqIds, NEW input \in Inputs, Submit(q, input)
      PROVE  /\ UNCHANGED <<seats, deliveries>>
             /\ \A r \in ReqIds \ {q} : requests'[r] = requests[r]
             /\ ~Exists(q) /\ ~HasStatus(q, "complete")' /\ Exists(q)' /\ Body(q)' \in Inputs
  <2> DEFINE doc == [body |-> input, status |-> "pending", outcome |-> "none", note |-> {}]
  <2>1. requests' = [requests EXCEPT ![q] = doc] /\ ~Exists(q) /\ UNCHANGED <<seats, deliveries>>
    BY <1>3 DEF Submit
  <2>2. doc # NoRequest /\ doc.status # "complete" /\ doc.body = input
    <3>1. "body" \in DOMAIN doc /\ "body" \notin DOMAIN NoRequest BY DEF NoRequest
    <3> QED BY <3>1
  <2> HIDE DEF doc
  <2>3. requests'[q] = doc /\ \A r \in ReqIds \ {q} : requests'[r] = requests[r] BY <1>1, <2>1 DEF TypeOK
  <2> QED BY <2>1, <2>2, <2>3 DEF HasStatus, Exists, Body
<1>4. ASSUME NEW q \in ReqIds, Cancel(q) \/ Reject(q)
      PROVE  /\ UNCHANGED <<seats, deliveries>>
             /\ \A r \in ReqIds \ {q} : requests'[r] = requests[r]
             /\ HasStatus(q, "pending") /\ Body(q)' = Body(q)
             /\ ~HasStatus(q, "pending")' /\ ~HasStatus(q, "complete")' /\ Exists(q)'
  <2>1. HasStatus(q, "pending") /\ UNCHANGED <<seats, deliveries>> BY <1>4 DEF Cancel, Reject
  <2>2. requests[q] \in Request BY <1>1, <2>1 DEF TypeOK, HasStatus, Exists
  <2>3. \E status \in {"cancelled", "rejected"} : requests' = [requests EXCEPT ![q].status = status]
    BY <1>4 DEF Cancel, Reject
  <2>4. /\ requests'[q].body = requests[q].body /\ requests'[q].status \in {"cancelled", "rejected"}
        /\ DOMAIN requests'[q] = DOMAIN requests[q]
        /\ \A r \in ReqIds \ {q} : requests'[r] = requests[r]
    BY <1>1, <2>2, <2>3 DEF TypeOK, Request
  <2>5. requests'[q] # NoRequest BY <2>2, <2>4 DEF Request, NoRequest
  <2> QED BY <2>1, <2>4, <2>5 DEF HasStatus, Exists, Body
<1>5. CASE \E q \in ReqIds : SeatTrigger(q) BY <1>2, <1>5
<1>6. CASE \E q \in ReqIds, input \in Inputs : Submit(q, input)
  <2>1. PICK q \in ReqIds, input \in Inputs : Submit(q, input) BY <1>6
  <2> QED BY <1>2, <1>3, <2>1
<1>7. CASE \E q \in ReqIds : Cancel(q) \/ Reject(q)
  <2>1. PICK q \in ReqIds : Cancel(q) \/ Reject(q) BY <1>7
  <2> QED BY <1>2, <1>4, <2>1
<1> QED BY <1>5, <1>6, <1>7 DEF Clients

\* The steps of the desk that change no document and no roster.
Quiet == UNCHANGED <<vars, kindoo>> /\ past'.tried = past.tried /\ past.lent \subseteq past'.lent

\* Everything a step may be.
LEMMA StepCases ==
    ASSUME PNext
    PROVE  \/ \E r \in ReqIds : StartRun(r)
           \/ LookupUser
           \/ RunStops \/ MarkRefused
           \/ \E answered \in BOOLEAN : KindooCall(answered)
           \/ \E answered \in BOOLEAN : MarkComplete(answered)
           \/ Clients
BY DEF PNext, Desk

\* What each step adds to the history.
LEMMA PastIs ==
    ASSUME Recorded
    PROVE  /\ \A r : StartRun(r) =>
                 /\ past'.lagged = (past.lagged \/ Undelivered(Body(r).member))
                 /\ past'.tried = past.tried /\ past'.lent = past.lent /\ past'.again = past.again
           /\ LookupUser =>
                 /\ past.lent \subseteq past'.lent
                 /\ past'.tried = past.tried /\ past'.lagged = past.lagged /\ past'.again = past.again
           /\ \A a \in BOOLEAN : KindooCall(a) =>
                 /\ past'.tried = past.tried \cup {desk.req}
                 /\ past'.again = (past.again \/ HasStatus(desk.req, "complete"))
                 /\ past'.lagged = past.lagged /\ past'.lent = past.lent
           /\ RunStops \/ MarkRefused \/ Clients \/ (\E a \in BOOLEAN : MarkComplete(a)) =>
                 /\ past'.tried = past.tried /\ past'.lagged = past.lagged
                 /\ past'.lent = past.lent /\ past'.again = past.again
<1>1. past \in Past BY DEF Recorded
<1>2. ASSUME NEW r, StartRun(r)
      PROVE  /\ past'.lagged = (past.lagged \/ Undelivered(Body(r).member))
             /\ past'.tried = past.tried /\ past'.lent = past.lent /\ past'.again = past.again
  <2>1. \E f : past' = [past EXCEPT !.lagged = @ \/ Undelivered(Body(r).member), !.faults = f]
    BY <1>2 DEF StartRun
  <2> QED BY <1>1, <2>1 DEF Past
<1>3. ASSUME LookupUser
      PROVE  /\ past.lent \subseteq past'.lent
             /\ past'.tried = past.tried /\ past'.lagged = past.lagged /\ past'.again = past.again
  <2>1. \E f, l : past' = [past EXCEPT !.faults = f, !.lent = @ \cup l] BY <1>3 DEF LookupUser
  <2> QED BY <1>1, <2>1 DEF Past
<1>4. ASSUME NEW a \in BOOLEAN, KindooCall(a)
      PROVE  /\ past'.tried = past.tried \cup {desk.req}
             /\ past'.again = (past.again \/ HasStatus(desk.req, "complete"))
             /\ past'.lagged = past.lagged /\ past'.lent = past.lent
  <2>1. \E f : past' = [past EXCEPT !.tried = @ \cup {desk.req}, !.again = @ \/ HasStatus(desk.req, "complete"),
                                  !.faults = f]
    BY <1>4 DEF KindooCall
  <2> QED BY <1>1, <2>1 DEF Past
<1>5. ASSUME RunStops \/ MarkRefused \/ Clients \/ (\E a \in BOOLEAN : MarkComplete(a))
      PROVE  /\ past'.tried = past.tried /\ past'.lagged = past.lagged
             /\ past'.lent = past.lent /\ past'.again = past.again
  <2>1. past' = past \/ past' = [past EXCEPT !.faults = @ + 1]
    BY <1>5 DEF RunStops, MarkRefused, Clients, MarkComplete
  <2> QED BY <1>1, <2>1 DEF Past
<1> QED BY <1>2, <1>3, <1>4, <1>5

LEMMA QuietIs ==
    ASSUME Recorded, \/ \E r \in ReqIds : StartRun(r)
                     \/ LookupUser \/ RunStops \/ MarkRefused
    PROVE  Quiet
<1>1. UNCHANGED <<vars, kindoo>> BY DEF StartRun, LookupUser, RunStops, MarkRefused
<1> QED BY <1>1, PastIs DEF Quiet

-----------------------------------------------------------------------------
(* The invariant of the rosters: whatever a grant names and the member cannot *)
(* open has a request that will take it or bring it.                          *)

NoEvents == \A r \in ReqIds : ~HasStatus(r, "complete") => deliveries[r] = 0

\* Is the building one that a run left to another schedule of the desk's member?
LentAtDesk(b) == <<Body(desk.req).member, RequestSite(Body(desk.req)), b>> \in past.lent

\* What a run wants the member has, or is still to be granted, or was left to
\* another schedule; a remove wants it of a member who is there, for whom it has calls.
Covers ==
    /\ desk.phase = "writing" /\ HasStatus(desk.req, "pending")
    /\ Body(desk.req).type = "remove" => desk.todo # <<>>
    => \A b \in Wanted(desk.req) : Due(desk.todo, AtDesk, b) \/ LentAtDesk(b)

\* No request that Kindoo was touched for was cancelled or rejected, or complete already.
Clean ==
    /\ ~past.again
    /\ \A r \in past.tried : HasStatus(r, "pending") \/ HasStatus(r, "complete")

\* The request that answers for a building of the member on the site: a remove
\* whose trigger is to come or a run that broke off, which does not want it.
Excuse(r, m, s, b) ==
    /\ Awaited(r) \/ (r \in past.tried /\ HasStatus(r, "pending"))
    /\ Body(r).member = m
    /\ RequestSite(Body(r)) = s
    /\ b \notin Wanted(r)

\* What the seat names and the member neither has nor was left to have otherwise.
Lacks(m, s) == {b \in CurrentSeatBuildings(seats[m], s) \ Held(kindoo[m][s]) : <<m, s, b>> \notin past.lent}

Entitled ==
    Clean /\ ~beside => \A m \in Members, s \in RealSites :
        \A b \in Lacks(m, s) : \E r \in ReqIds : Excuse(r, m, s, b)

\* What becomes of a request in a step.
LEMMA StatusStays ==
    ASSUME Fits, PNext, NEW r \in ReqIds
    PROVE  /\ Exists(r) => Exists(r)' /\ Body(r)' = Body(r)
           /\ HasStatus(r, "complete") => HasStatus(r, "complete")'
           /\ HasStatus(r, "complete")' /\ ~HasStatus(r, "complete") =>
                 HasStatus(r, "pending") /\ r = desk.req /\ \E a \in BOOLEAN : MarkComplete(a)
           /\ HasStatus(r, "pending")' /\ Exists(r) => HasStatus(r, "pending")
           /\ Exists(r) /\ (HasStatus(r, "pending") \/ HasStatus(r, "complete"))' =>
                 HasStatus(r, "pending") \/ HasStatus(r, "complete")
           /\ deliveries'[r] = deliveries[r] \/ (HasStatus(r, "complete") /\ \E q \in ReqIds : SeatTrigger(q))
<1>1. TypeOK BY DEF Fits, SeatsSound
<1>2. CASE UNCHANGED vars BY <1>2 DEF vars, Exists, Body, HasStatus
<1>3. ASSUME NEW a \in BOOLEAN, MarkComplete(a)
      PROVE  /\ deliveries' = deliveries
             /\ \/ requests'[r] = requests[r]
                \/ /\ r = desk.req /\ HasStatus(r, "pending") /\ HasStatus(r, "complete")'
                   /\ Exists(r)' /\ Body(r)' = Body(r)
  <2>1. CompleteRequest(desk.req) /\ desk # Idle BY <1>3 DEF MarkComplete, Idle
  <2>2. desk.req \in ReqIds BY <2>1 DEF Fits, Running
  <2> QED BY <2>1, <2>2, CompletionDoes
<1>4. CASE \E a \in BOOLEAN : MarkComplete(a) BY <1>3, <1>4 DEF Exists, Body, HasStatus
<1>5. ASSUME NEW q \in ReqIds, SeatTrigger(q)
      PROVE  Stands(r) /\ (deliveries'[r] = deliveries[r] \/ (r = q /\ HasStatus(q, "complete")))
  BY <1>1, <1>5, TriggerDoes DEF TypeOK
<1>6. CASE \E q \in ReqIds : SeatTrigger(q) BY <1>5, <1>6 DEF Stands, Statuses
<1>7. ASSUME NEW q \in ReqIds, \A x \in ReqIds \ {q} : requests'[x] = requests[x],
             ~Exists(q) \/ (HasStatus(q, "pending") /\ Body(q)' = Body(q) /\ ~HasStatus(q, "pending")'),
             ~HasStatus(q, "complete")', Exists(q)', UNCHANGED deliveries
      PROVE  /\ Exists(r) => Exists(r)' /\ Body(r)' = Body(r)
             /\ HasStatus(r, "complete") => HasStatus(r, "complete")'
             /\ ~(HasStatus(r, "complete")' /\ ~HasStatus(r, "complete"))
             /\ HasStatus(r, "pending")' /\ Exists(r) => HasStatus(r, "pending")
             /\ Exists(r) /\ (HasStatus(r, "pending") \/ HasStatus(r, "complete"))' =>
                   HasStatus(r, "pending") \/ HasStatus(r, "complete")
             /\ deliveries'[r] = deliveries[r]
  <2>1. CASE r # q BY <1>7, <2>1 DEF Exists, Body, HasStatus
  <2>2. CASE r = q BY <1>7, <2>2 DEF HasStatus
  <2> QED BY <2>1, <2>2
<1>8. CASE Clients BY <1>6, <1>7, <1>8, ClientsDo
<1>9. UNCHANGED vars \/ (\E a \in BOOLEAN : MarkComplete(a)) \/ Clients
  BY StepCases DEF StartRun, LookupUser, RunStops, MarkRefused, KindooCall
<1> QED BY <1>2, <1>4, <1>8, <1>9

LEMMA PastInit == ASSUME PInit PROVE Recorded /\ NoEvents /\ Covers
<1>1. \A r \in ReqIds : deliveries[r] = 0 BY DEF PInit, Init
<1>2. desk = Idle /\ past = InitPast BY DEF PInit
<1>3. 0 \in 0..MaxFaults BY ProvisioningAssumption
<1>4. past \in Past /\ past.tried = {} BY <1>2, <1>3 DEF InitPast, Past
<1>5. desk.phase # "writing" BY <1>2 DEF Idle
<1> QED BY <1>1, <1>4, <1>5 DEF Recorded, NoEvents, Covers

\* The history is of its type, and only grows.
LEMMA PastStep ==
    ASSUME Fits, RunSound, Recorded, PNext
    PROVE  /\ Recorded'
           /\ past.tried \subseteq past'.tried /\ past.lent \subseteq past'.lent
           /\ past.again => past'.again
<1>1. past.faults < MaxFaults => past.faults + 1 \in 0..MaxFaults
  BY ProvisioningAssumption DEF Recorded, Past
<1>2. \A r \in ReqIds : Exists(r) => Exists(r)' BY StatusStays
<1>3. past \in Past BY DEF Recorded
<1>4. past' \in Past
  <2>1. ASSUME NEW r \in ReqIds, StartRun(r) PROVE past' \in Past
    <3> DEFINE l == past.lagged \/ Undelivered(Body(r).member)
               f == IF HasStatus(r, "pending") THEN past.faults ELSE past.faults + 1
    <3>1. past' = [past EXCEPT !.lagged = l, !.faults = f] /\ (HasStatus(r, "pending") \/ past.faults < MaxFaults)
      BY <2>1 DEF StartRun, Fault
    <3>2. l \in BOOLEAN /\ f \in 0..MaxFaults BY <1>1, <1>3, <3>1 DEF Past
    <3> HIDE DEF l, f
    <3> QED BY <1>3, <3>1, <3>2 DEF Past
  <2>2. ASSUME LookupUser PROVE past' \in Past
    <3>1. desk.phase = "lookup" BY <2>2 DEF LookupUser
    <3>2. desk # Idle /\ desk.target \in SUBSET Buildings BY <3>1, RunIs DEF RunSound
    <3> DEFINE req == Body(desk.req)
               lends(known) == Lends(req, AtDesk, desk.target, DeriveDirectGrantRids(AtDesk, known /\ req.type # "remove"))
               f(known) == IF known THEN past.faults ELSE past.faults + 1
    <3>3. req.member \in Members /\ RequestSite(req) \in RealSites BY <3>2, AtDeskType
    <3>4. \A known : lends(known) \in SUBSET (Members \X RealSites \X Buildings)
      BY <3>2, <3>3 DEF Lends
    <3>5. PICK known \in BOOLEAN : /\ ~known => past.faults < MaxFaults
                                   /\ past' = [past EXCEPT !.faults = f(known), !.lent = @ \cup lends(known)]
      BY <2>2 DEF LookupUser, AtDesk
    <3>6. f(known) \in 0..MaxFaults BY <1>1, <1>3, <3>5 DEF Past
    <3> HIDE DEF lends, f
    <3> QED BY <1>3, <3>4, <3>5, <3>6 DEF Past
  <2>3. ASSUME NEW a \in BOOLEAN, KindooCall(a) PROVE past' \in Past
    <3> DEFINE f == IF a THEN past.faults ELSE past.faults + 1
               again == past.again \/ HasStatus(desk.req, "complete")
               tried == past.tried \cup {desk.req}
    <3>1. desk # Idle /\ (a \/ past.faults < MaxFaults) BY <2>3 DEF KindooCall, Idle, Fault
    <3>2. desk.req \in ReqIds BY <3>1 DEF Fits, Running
    <3>3. past' = [past EXCEPT !.tried = tried, !.again = again, !.faults = f] BY <2>3 DEF KindooCall
    <3>4. f \in 0..MaxFaults /\ again \in BOOLEAN /\ tried \in SUBSET ReqIds
      BY <1>1, <1>3, <3>1, <3>2 DEF Past
    <3> HIDE DEF f, again, tried
    <3> QED BY <1>3, <3>3, <3>4 DEF Past
  <2>4. ASSUME RunStops \/ MarkRefused \/ Clients \/ (\E a \in BOOLEAN : MarkComplete(a)) PROVE past' \in Past
    <3>1. past' = past \/ (past' = [past EXCEPT !.faults = @ + 1] /\ past.faults < MaxFaults)
      BY <2>4 DEF RunStops, MarkRefused, Clients, MarkComplete, Fault
    <3> QED BY <1>1, <1>3, <3>1 DEF Past
  <2> QED BY <2>1, <2>2, <2>3, <2>4, StepCases
<1>5. /\ past.tried \subseteq past'.tried /\ past.lent \subseteq past'.lent /\ (past.again => past'.again)
      /\ past'.tried = past.tried \/ (desk # Idle /\ past'.tried = past.tried \cup {desk.req})
  <2>1. \A a : KindooCall(a) => desk # Idle BY DEF KindooCall, Idle
  <2> QED BY <2>1, PastIs, StepCases
<1>6. \A r \in past'.tried : r \in ReqIds /\ Exists(r)
  BY <1>3, <1>5 DEF Recorded, Past, Fits, Running
<1> QED BY <1>2, <1>4, <1>5, <1>6 DEF Recorded, Exists

LEMMA NoEventsStep == ASSUME Fits, PNext, NoEvents PROVE NoEvents'
<1> SUFFICES ASSUME NEW r \in ReqIds, ~HasStatus(r, "complete")' PROVE deliveries'[r] = 0
  BY DEF NoEvents
<1> QED BY StatusStays DEF NoEvents

\* A call that lands opens its building, or leaves it to be granted.
LEMMA DueLands ==
    ASSUME NEW todo \in Seq(Call), todo # <<>>, NEW user \in User \cup {NoUser}, NEW wanted, NEW b \in wanted,
           b \in Buildings, Due(todo, user, b), Spares(Head(todo), wanted),
           Head(todo).kind = "invite" => user = NoUser
    PROVE  Due(Tail(todo), Effect(user, Head(todo)), b)
<1> DEFINE call == Head(todo)
           rest == Tail(todo)
<1>1. Len(todo) \in Nat \ {0} BY EmptySeq
<1>2. /\ call = todo[1] /\ Len(rest) = Len(todo) - 1
      /\ \A i \in 1..Len(rest) : rest[i] = todo[i + 1]
      /\ call \in Call
  BY <1>1, HeadTailProperties
<1> HIDE DEF call, rest
<1>3. CASE b \in Held(user)
  <2>1. Held(user) \cap wanted \subseteq Held(Effect(user, call)) BY <1>2, EffectSpares DEF call
  <2> QED BY <1>3, <2>1 DEF Due, call, rest
<1>4. CASE b \notin Held(user)
  <2>1. Offers(todo, "save", b) /\ (user = NoUser => call.kind = "invite") BY <1>2, <1>4 DEF Due
  <2>2. PICK i \in 1..Len(todo) : todo[i].kind = "save" /\ b \in todo[i].rules BY <2>1 DEF Offers
  <2>3. CASE i = 1
    <3>1. call.kind = "save" /\ b \in call.rules BY <1>2, <2>2, <2>3
    <3>2. user \in User /\ user # NoUser BY <2>1, <3>1
    <3>3. Effect(user, call) = [user EXCEPT !.rules = @ \cup call.rules] BY <3>1 DEF Effect, SaveAccessRule
    <3>4. b \in Held(Effect(user, call)) BY <3>1, <3>2, <3>3 DEF Held, User, NoUser
    <3> QED BY <3>4 DEF Due, call, rest
  <2>4. CASE i # 1
    <3>1. i - 1 \in 1..Len(rest) /\ (i - 1) + 1 = i BY <1>1, <1>2, <2>4
    <3>2. Offers(rest, "save", b) BY <1>2, <2>2, <3>1 DEF Offers
    <3>3. Effect(user, call) # NoUser
      <4>1. CASE call.kind = "invite"
        <5>1. Effect(user, call) = InviteUser(call) BY <4>1 DEF Effect
        <5> QED BY <5>1 DEF InviteUser, NoUser
      <4>2. CASE call.kind # "invite"
        <5>1. user \in User BY <2>1, <4>2
        <5>2. call.kind # "wipe" BY <1>2 DEF Spares, call
        <5>3. call.kind \in {"save", "revoke", "edit"} BY <1>2, <4>2, <5>2 DEF Call
        <5>4. Effect(user, call).direct = user.direct /\ "direct" \in DOMAIN Effect(user, call)
          <6>1. DOMAIN user = {"temp", "rules", "direct", "names"} BY <5>1 DEF User
          <6>2. CASE call.kind = "save"
            <7>1. Effect(user, call) = [user EXCEPT !.rules = @ \cup call.rules] BY <6>2 DEF Effect, SaveAccessRule
            <7> QED BY <6>1, <7>1
          <6>3. CASE call.kind = "revoke"
            <7>1. Effect(user, call) = [user EXCEPT !.rules = @ \ call.rules]
              BY <6>3 DEF Effect, RevokeUserFromAccessSchedule
            <7> QED BY <6>1, <7>1
          <6>4. CASE call.kind = "edit"
            <7>1. Effect(user, call) = [user EXCEPT !.temp = call.temp, !.names = call.names]
              BY <6>4 DEF Effect, EditUser
            <7> QED BY <6>1, <7>1
          <6> QED BY <5>3, <6>2, <6>3, <6>4
        <5>5. "direct" \notin DOMAIN NoUser BY DEF NoUser
        <5> QED BY <5>4, <5>5
      <4> QED BY <4>1, <4>2
    <3> QED BY <3>2, <3>3 DEF Due, call, rest
  <2> QED BY <2>3, <2>4
<1> QED BY <1>3, <1>4

\* The lookup leaves the user as it is, and every building of the target due or
\* left to another schedule.
LEMMA LookupCovers ==
    ASSUME Fits, RunSound, Recorded, LookupUser
    PROVE  Covers'
<1>1. /\ desk # Idle /\ desk.phase = "lookup" /\ desk.req \in ReqIds
      /\ desk.target \in SUBSET Buildings /\ desk.names \in Seq(Scopes)
      /\ UNCHANGED <<vars, kindoo>>
  BY LookupCases
<1> PICK r \in ReqIds : r = desk.req BY <1>1
<1> DEFINE req == Body(r)
           user == AtDesk
           target == desk.target
           names == desk.names
<1>2. user \in User \cup {NoUser} BY <1>1, AtDeskType
<1>3. Wanted(r)' = Wanted(r) /\ Body(r)' = req BY <1>1 DEF Body, Wanted, vars
<1>4. Wanted(r) \subseteq target BY <1>1 DEF RunSound, LookupSpares
<1>5. AtDesk' = user \/ desk'.req # r BY <1>1 DEF AtDesk, Body, vars
<1>6. target \in SUBSET Buildings /\ names \in Seq(Scopes) BY <1>1
<1>7. \/ desk' = Idle
      \/ \E todo, doors : /\ desk' = [phase |-> "writing", req |-> r, todo |-> todo]
                          /\ user = NoUser => doors = {}
                          /\ past'.lent = past.lent \cup Lends(req, user, target, doors)
                          /\ Decided(todo, req, user, target, names, doors)
  BY LookupCases
<1> HIDE DEF user, names, target, req
<1>8. ASSUME NEW todo, NEW doors, desk' = [phase |-> "writing", req |-> r, todo |-> todo],
             user = NoUser => doors = {}, past'.lent = past.lent \cup Lends(req, user, target, doors),
             Decided(todo, req, user, target, names, doors)
      PROVE  Covers'
  <2>1. desk'.req = r /\ desk'.todo = todo BY <1>8
  <2>2. AtDesk' = user BY <1>5, <2>1
  <2>3. ASSUME NEW b \in target, b \in doors
        PROVE  Due(todo, user, b) \/ <<req.member, RequestSite(req), b>> \in past'.lent
    BY <1>8, <2>3 DEF Due, Lends
  <2>4. ASSUME req.type = "remove" => todo # <<>>, NEW b \in target PROVE b \in doors \/ Due(todo, user, b)
    <3>1. CASE todo = AddCalls(req, user, target, names, doors)
      BY <1>2, <1>6, <1>8, <2>4, <3>1, AddCallsAre
    <3>2. CASE user # NoUser /\ todo = EditCalls(req, user, target, names, doors)
      BY <1>2, <1>6, <1>8, <2>4, <3>2, EditCallsAre
    <3>3. CASE req.type = "remove" /\ todo = RemoveCalls(req, user, target, names)
      <4>1. user # NoUser BY <2>4, <3>3 DEF RemoveCalls
      <4> QED BY <1>2, <1>6, <2>4, <3>3, <4>1, RemoveCallsAre
    <3> QED BY <1>8, <3>1, <3>2, <3>3 DEF Decided
  <2> QED BY <1>3, <1>4, <2>1, <2>2, <2>3, <2>4 DEF Covers, LentAtDesk
<1>9. CASE desk' = Idle BY <1>9 DEF Covers, Idle
<1> QED BY <1>7, <1>8, <1>9

LEMMA CoversStep == ASSUME Fits, Fits', RunSound, Recorded, Covers, PNext PROVE Covers'
<1>1. CASE desk'.phase # "writing" BY <1>1 DEF Covers
<1>2. CASE desk' = Idle BY <1>1, <1>2 DEF Idle
<1>3. ASSUME NEW r \in ReqIds, StartRun(r) PROVE Covers'
  <2>1. desk'.phase # "writing" BY <1>3 DEF StartRun
  <2> QED BY <1>1, <2>1
<1>4. ASSUME NEW a \in BOOLEAN, KindooCall(a), a PROVE Covers'
  <2>1. desk.phase = "writing" /\ desk.todo # <<>> /\ desk # Idle /\ UNCHANGED vars /\ desk' = [desk EXCEPT !.todo = Tail(@)]
    BY <1>4 DEF KindooCall, Idle
  <2>2. desk \in [phase : {"writing"}, req : ReqIds, todo : Seq(Call)] BY <2>1, RunIs DEF RunSound
  <2> PICK r \in ReqIds : r = desk.req BY <2>2
  <2>3. desk'.req = r /\ desk'.todo = Tail(desk.todo) BY <2>1, <2>2
  <2>4. /\ Wanted(r)' = Wanted(r) /\ Body(r)' = Body(r)
        /\ HasStatus(r, "pending")' <=> HasStatus(r, "pending")
    BY <2>1 DEF Wanted, Body, HasStatus, Exists, vars
  <2>9. past'.lent = past.lent BY <1>4, PastIs
  <2>10. \A b : LentAtDesk(b)' <=> LentAtDesk(b) BY <2>3, <2>4, <2>9 DEF LentAtDesk
  <2> SUFFICES ASSUME HasStatus(r, "pending"), NEW b \in Wanted(r), ~LentAtDesk(b)
               PROVE  Due(Tail(desk.todo), AtDesk', b)
    BY <2>3, <2>4, <2>10 DEF Covers
  <2>5. Due(desk.todo, AtDesk, b) BY <2>1 DEF Covers
  <2>6. LET req == Body(r) IN
        /\ Head(desk.todo).kind = "invite" => AtDesk = NoUser
        /\ Spares(Head(desk.todo), Wanted(r))
        /\ req.member \in Members /\ RequestSite(req) \in RealSites
        /\ AtDesk \in User \cup {NoUser}
        /\ kindoo'[req.member][RequestSite(req)] = Effect(AtDesk, Head(desk.todo))
    BY <1>4, CallLands
  <2>7. AtDesk' = Effect(AtDesk, Head(desk.todo)) BY <2>3, <2>4, <2>6 DEF AtDesk
  <2>8. b \in Buildings
    <3>1. Listed(Body(r)) /\ seats[Body(r).member] \in Seat \cup {NoSeat} BY <2>1, AtDeskType
    <3> QED BY <3>1, TargetType DEF Wanted
  <2> QED BY <2>1, <2>2, <2>5, <2>6, <2>7, <2>8, DueLands
<1>5. ASSUME NEW a \in BOOLEAN, KindooCall(a), ~a PROVE desk' = Idle BY <1>5 DEF KindooCall
<1>6. ASSUME NEW a \in BOOLEAN, MarkComplete(a) PROVE Covers'
  <2>1. desk' = Idle \/ desk' = desk BY <1>6 DEF MarkComplete
  <2>2. CompleteRequest(desk.req) /\ desk # Idle BY <1>6 DEF MarkComplete, Idle
  <2>3. desk.req \in ReqIds BY <2>2 DEF Fits, Running
  <2>4. HasStatus(desk.req, "complete")' \/ desk' # desk BY <2>2, <2>3, CompletionDoes
  <2>5. CASE desk' = desk
    <3>1. ~HasStatus(desk.req, "pending")' BY <2>4, <2>5 DEF HasStatus
    <3> QED BY <2>5, <3>1 DEF Covers
  <2> QED BY <1>2, <2>1, <2>5
<1>7. ASSUME RunStops \/ MarkRefused PROVE desk' = Idle BY <1>7 DEF RunStops, MarkRefused
<1>8. ASSUME Clients PROVE Covers'
  <2>1. desk' = desk /\ kindoo' = kindoo BY <1>8 DEF Clients
  <2> SUFFICES ASSUME desk.phase = "writing" PROVE Covers'
    BY <1>1, <2>1
  <2>2. desk # Idle BY DEF Idle
  <2>3. desk.req \in ReqIds /\ Exists(desk.req) BY <2>2 DEF Fits, Running
  <2> PICK r \in ReqIds : r = desk.req BY <2>3
  <2>4. Body(r)' = Body(r) /\ Wanted(r)' \subseteq Wanted(r) BY <1>8, <2>3, WantedShrinks
  <2>5. HasStatus(r, "pending")' => HasStatus(r, "pending") BY <2>3, StatusStays
  <2>6. AtDesk' = AtDesk BY <2>1, <2>4 DEF AtDesk
  <2>7. \A b : LentAtDesk(b)' <=> LentAtDesk(b) BY <1>8, <2>1, <2>4 DEF LentAtDesk, Clients
  <2> QED BY <2>1, <2>4, <2>5, <2>6, <2>7 DEF Covers
<1> QED BY <1>2, <1>3, <1>4, <1>5, <1>6, <1>7, <1>8, LookupCovers, StepCases

LEMMA EntitledInit == ASSUME PInit PROVE Entitled
<1> SUFFICES ASSUME NEW m \in Members, NEW s \in RealSites, NEW b \in Lacks(m, s) PROVE FALSE
  BY DEF Entitled
<1>1. /\ b \in CurrentSeatBuildings(seats[m], s) /\ b \notin Held(kindoo[m][s])
      /\ <<m, s, b>> \notin past.lent
  BY DEF Lacks
<1>2. b \in Buildings
  <2>1. seats[m] \in Seat \cup {NoSeat} BY FitsInit DEF Fits, SeatsSound, TypeOK
  <2> QED BY <1>1, <2>1, GrantsHoldBuildings
<1>3. past = InitPast BY DEF PInit
<1>4. <<m, s, b>> \in Members \X RealSites \X Buildings /\ <<m, s, b>>[1] = m /\ <<m, s, b>>[2] = s
      /\ <<m, s, b>>[3] = b
  BY <1>2
<1> QED BY <1>1, <1>3, <1>4 DEF InitPast

\* A run or a trigger that must not be met has not been met before, either.
LEMMA StillClean ==
    ASSUME Fits, RunSound, Recorded, PNext, Clean', ~beside'
    PROVE  Clean /\ ~beside /\ ~BesideNow
<1>1. past.tried \subseteq past'.tried BY PastStep
<1>2. ASSUME NEW r \in past.tried PROVE HasStatus(r, "pending") \/ HasStatus(r, "complete")
  <2>1. r \in ReqIds /\ Exists(r) /\ r \in past'.tried BY <1>1 DEF Recorded, Past
  <2>2. (HasStatus(r, "pending") \/ HasStatus(r, "complete"))' BY <2>1 DEF Clean
  <2> QED BY <2>1, <2>2, StatusStays
<1>3. ~beside BY DEF PNext
<1>4. ~past.again BY PastStep DEF Clean
<1> QED BY <1>2, <1>3, <1>4 DEF Clean, RunSound

\* A request that does not change keeps its excuse, if it wants no more than it did.
LEMMA ExcuseStays ==
    ASSUME NEW r \in ReqIds, NEW m, NEW s, NEW b, Excuse(r, m, s, b), Body(r)' = Body(r),
           Wanted(r)' \subseteq Wanted(r), past.tried \subseteq past'.tried,
           \/ HasStatus(r, "pending") /\ HasStatus(r, "pending")'
           \/ HasStatus(r, "complete") /\ HasStatus(r, "complete")' /\ deliveries'[r] = deliveries[r]
    PROVE  Excuse(r, m, s, b)'
<1>1. (Awaited(r) \/ (r \in past.tried /\ HasStatus(r, "pending")))'
  BY DEF Excuse, Awaited, HasStatus
<1> QED BY <1>1 DEF Excuse

LEMMA CallEntitled ==
    ASSUME Fits, RunSound, Recorded, Entitled, Clean, Clean', ~beside, NEW answered \in BOOLEAN,
           KindooCall(answered), NEW m \in Members, NEW s \in RealSites, NEW b \in Lacks(m, s)'
    PROVE  \E r \in ReqIds : Excuse(r, m, s, b)'
<1>1. desk # Idle /\ desk.todo # <<>> /\ UNCHANGED vars BY DEF KindooCall, Idle
<1>2. /\ past'.tried = past.tried \cup {desk.req} /\ past'.lent = past.lent
      /\ past'.again = (past.again \/ HasStatus(desk.req, "complete"))
  BY PastIs
<1>3. \A r \in ReqIds : /\ Body(r)' = Body(r) /\ Wanted(r)' = Wanted(r) /\ deliveries'[r] = deliveries[r]
                        /\ \A status : HasStatus(r, status)' <=> HasStatus(r, status)
  BY <1>1 DEF Body, Wanted, HasStatus, Exists, vars
<1>4. CASE b \in Lacks(m, s)
  <2>1. PICK r \in ReqIds : Excuse(r, m, s, b) BY <1>4 DEF Entitled
  <2>2. HasStatus(r, "pending") \/ HasStatus(r, "complete") BY <2>1 DEF Excuse, Awaited
  <2>3. Excuse(r, m, s, b)' BY <1>2, <1>3, <2>1, <2>2, ExcuseStays
  <2> QED BY <2>3
<1>5. CASE b \notin Lacks(m, s)
  <2> DEFINE call == Head(desk.todo)
  <2>1. desk.req \in ReqIds BY <1>1 DEF Fits, Running
  <2> PICK r \in ReqIds : r = desk.req BY <2>1
  <2>2. b \in Held(kindoo[m][s]) /\ b \notin Held(kindoo'[m][s])
    BY <1>1, <1>2, <1>5 DEF Lacks, vars
  <2>3. /\ call \in Call /\ Spares(call, Wanted(r)) /\ (call.kind = "invite" => AtDesk = NoUser)
        /\ AtDesk \in User \cup {NoUser}
        /\ kindoo'[m][s] = IF m = Body(r).member /\ s = RequestSite(Body(r))
                           THEN Effect(AtDesk, call) ELSE kindoo[m][s]
    BY CallLands
  <2>4. m = Body(r).member /\ s = RequestSite(Body(r)) /\ kindoo[m][s] = AtDesk
    BY <2>2, <2>3 DEF AtDesk
  <2>5. b \notin Wanted(r)
    <3>1. Held(AtDesk) \cap Wanted(r) \subseteq Held(Effect(AtDesk, call)) BY <2>3, EffectSpares
    <3> QED BY <2>2, <2>3, <2>4, <3>1
  <2>6. ~HasStatus(r, "complete") BY <1>2 DEF Clean
  <2>7. (r \in past.tried /\ HasStatus(r, "pending"))' BY <1>2, <1>3, <2>1, <2>6 DEF Clean
  <2>8. Excuse(r, m, s, b)' BY <1>3, <2>4, <2>5, <2>7 DEF Excuse
  <2> QED BY <2>8
<1> QED BY <1>4, <1>5

LEMMA MarkEntitled ==
    ASSUME Fits, Fits', RunSound, Recorded, NoEvents, Covers, Entitled, Clean, ~beside, NEW answered \in BOOLEAN,
           MarkComplete(answered), NEW m \in Members, NEW s \in RealSites, NEW b \in Lacks(m, s)'
    PROVE  \E r \in ReqIds : Excuse(r, m, s, b)'
<1>1. /\ desk.phase = "writing" /\ desk.todo = <<>> /\ desk # Idle /\ kindoo' = kindoo
      /\ CompleteRequest(desk.req)
  BY DEF MarkComplete, Idle
<1>2. past'.tried = past.tried /\ past'.lent = past.lent BY PastIs
<1>3. desk.req \in ReqIds BY <1>1 DEF Fits, Running
<1> PICK q \in ReqIds : q = desk.req BY <1>3
<1> DEFINE req == Body(q)
           site == RequestSite(req)
           old == seats[req.member]
           new == seats'[req.member]
<1>4. /\ HasStatus(q, "pending") /\ Completable(q) /\ HasStatus(q, "complete")' /\ Body(q)' = req
      /\ Listed(req) /\ req.member \in Members /\ site \in RealSites
      /\ \A r \in ReqIds \ {q} : requests'[r] = requests[r]
      /\ deliveries' = deliveries
      /\ \A p \in Members \ {req.member} : seats'[p] = seats[p]
      /\ req.type = "remove" => seats' = seats
      /\ req.type # "remove" => new = SeatAfter(q) /\ Reaches(old, new, req)
  BY <1>1, CompletionDoes
<1>5. /\ InPlace(old) /\ old \in Seat \cup {NoSeat} /\ InPlace(new) /\ new \in Seat \cup {NoSeat}
      /\ \A r \in ReqIds : Exists(r) => Listed(Body(r))
  BY <1>4 DEF Fits, Orderly, SeatsSound, TypeOK
<1>6. ASSUME NEW r \in ReqIds, Excuse(r, m, s, b), r # q, Wanted(r)' \subseteq Wanted(r)
      PROVE  Excuse(r, m, s, b)'
  <2>1. requests'[r] = requests[r] /\ deliveries'[r] = deliveries[r] BY <1>4, <1>6
  <2>2. Body(r)' = Body(r) /\ \A status : HasStatus(r, status)' <=> HasStatus(r, status)
    BY <2>1 DEF Body, HasStatus, Exists
  <2>3. HasStatus(r, "pending") \/ HasStatus(r, "complete") BY <1>6 DEF Excuse, Awaited
  <2> QED BY <1>2, <1>6, <2>1, <2>2, <2>3, ExcuseStays
<1>7. ASSUME NEW r \in ReqIds, r # q, seats'[Body(r).member] = seats[Body(r).member]
      PROVE  Wanted(r)' = Wanted(r)
  <2>1. Body(r)' = Body(r) BY <1>4, <1>7 DEF Body
  <2> QED BY <1>7, <2>1 DEF Wanted
<1>8. ASSUME b \in Lacks(m, s) PROVE \E r \in ReqIds : Excuse(r, m, s, b)
  BY <1>8 DEF Entitled
<1>9. CASE req.type = "remove"
  <2>1. seats' = seats /\ b \in Lacks(m, s) BY <1>1, <1>2, <1>4, <1>9 DEF Lacks
  <2>2. PICK r \in ReqIds : Excuse(r, m, s, b) BY <1>8, <2>1
  <2>3. CASE r # q
    <3>1. Wanted(r)' = Wanted(r) BY <1>7, <2>1, <2>3
    <3>2. Excuse(r, m, s, b)' BY <1>6, <2>2, <2>3, <3>1
    <3> QED BY <3>2
  <2>4. CASE r = q
    <3>1. ~HasStatus(q, "complete") BY <1>4 DEF HasStatus
    <3>2. deliveries'[q] = 0 BY <1>4, <3>1 DEF NoEvents
    <3>3. Awaited(q)' BY <1>4, <1>9, <3>2 DEF Awaited
    <3>4. Wanted(q)' = Wanted(q) BY <1>4, <2>1 DEF Wanted
    <3>5. Excuse(q, m, s, b)' BY <1>4, <2>2, <2>4, <3>3, <3>4 DEF Excuse
    <3> QED BY <3>5
  <2> QED BY <2>3, <2>4
<1>10. CASE req.type # "remove"
  <2>1. CASE m # req.member
    <3>1. b \in Lacks(m, s) BY <1>1, <1>2, <1>4, <2>1 DEF Lacks
    <3>2. PICK r \in ReqIds : Excuse(r, m, s, b) BY <1>8, <3>1
    <3>3. Body(r).member = m /\ r # q BY <2>1, <3>2 DEF Excuse
    <3>4. Wanted(r)' = Wanted(r) BY <1>4, <1>7, <2>1, <3>3
    <3>5. Excuse(r, m, s, b)' BY <1>6, <3>2, <3>3, <3>4
    <3> QED BY <3>5
  <2>2. CASE m = req.member /\ s # site
    <3>1. CurrentSeatBuildings(new, s) = CurrentSeatBuildings(old, s)
      BY <1>4, <1>5, <1>10, <2>2, ElsewhereGrants
    <3>2. b \in Lacks(m, s) BY <1>1, <1>2, <2>2, <3>1 DEF Lacks
    <3>3. PICK r \in ReqIds : Excuse(r, m, s, b) BY <1>8, <3>2
    <3>4. Body(r).member = m /\ RequestSite(Body(r)) = s /\ r # q /\ Exists(r)
      BY <2>2, <3>3 DEF Excuse, Awaited, HasStatus
    <3>5. Body(r)' = Body(r) BY <1>4, <3>4 DEF Body
    <3>6. Target(new, Body(r)) = Target(old, Body(r))
      BY <1>4, <1>5, <1>10, <2>2, <3>4, ElsewhereWanted
    <3>7. Wanted(r)' = Wanted(r) BY <2>2, <3>4, <3>5, <3>6 DEF Wanted
    <3>8. Excuse(r, m, s, b)' BY <1>6, <3>3, <3>4, <3>7
    <3> QED BY <3>8
  <2>3. CASE m = req.member /\ s = site
    <3>1. ~Beside(old, req) BY <1>10 DEF Beside
    <3>2. PredictionsHold BY OrderlyPredicts DEF Fits
    <3>3. Wanted(q) = CurrentSeatBuildings(new, site)
      BY <1>4, <1>10, <3>1, <3>2 DEF PredictionsHold, Predicted, Wanted
    <3>4. b \in Wanted(q) /\ b \notin Held(AtDesk) /\ ~LentAtDesk(b)
      BY <1>1, <1>2, <2>3, <3>3 DEF Lacks, AtDesk, LentAtDesk
    <3>5. Due(<<>>, AtDesk, b) BY <1>1, <1>4, <1>10, <3>4 DEF Covers
    <3>6. ~Offers(<<>>, "save", b) BY NoGrants DEF Offers
    <3> QED BY <3>4, <3>5, <3>6 DEF Due
  <2> QED BY <2>1, <2>2, <2>3
<1> QED BY <1>9, <1>10

LEMMA TriggerEntitled ==
    ASSUME Fits, Fits', RunSound, Entitled, Clean, ~beside, ~BesideNow, Clients, NEW q \in ReqIds,
           SeatTrigger(q), NEW m \in Members, NEW s \in RealSites, NEW b \in Lacks(m, s)'
    PROVE  \E r \in ReqIds : Excuse(r, m, s, b)'
<1> DEFINE req == Body(q)
           site == RequestSite(req)
           old == seats[req.member]
           new == seats'[req.member]
<1>1. kindoo' = kindoo /\ past' = past BY DEF Clients
<1>2. /\ HasStatus(q, "complete") /\ req.type = "remove" /\ Listed(req) /\ req.member \in Members
      /\ deliveries' = [deliveries EXCEPT ![q] = @ + 1]
      /\ \A r \in ReqIds : Stands(r)
      /\ \A p \in Members \ {req.member} : seats'[p] = seats[p]
      /\ new = IF old = NoSeat THEN NoSeat ELSE ApplyRemove(old, PlanRemove(old, req.scope, req.site))
  BY TriggerDoes
<1>3. TypeOK /\ InPlace(old) /\ old \in Seat \cup {NoSeat} BY <1>2 DEF Fits, Orderly, SeatsSound, TypeOK
<1>4. ASSUME NEW r \in ReqIds, Excuse(r, m, s, b), r # q \/ ~Awaited(q) PROVE Excuse(r, m, s, b)'
  <2>1. Exists(r) /\ (HasStatus(r, "pending") \/ HasStatus(r, "complete"))
    BY <1>4 DEF Excuse, Awaited, HasStatus
  <2>2. Body(r)' = Body(r) /\ Wanted(r)' \subseteq Wanted(r) BY <2>1, WantedShrinks
  <2>3. \A status \in Statuses : HasStatus(r, status)' <=> HasStatus(r, status) BY <1>2 DEF Stands
  <2>4. r # q => deliveries'[r] = deliveries[r] BY <1>2, <1>3 DEF TypeOK
  <2>5. r = q => HasStatus(q, "pending")
    BY <1>4 DEF Excuse
  <2> QED BY <1>1, <1>4, <2>1, <2>2, <2>3, <2>4, <2>5, ExcuseStays DEF Statuses
<1>5. CurrentSeatBuildings(seats'[m], s) \subseteq CurrentSeatBuildings(seats[m], s)
  <2>1. CASE m # req.member BY <1>2, <2>1
  <2>2. CASE m = req.member /\ old = NoSeat BY <1>2, <2>2
  <2>3. CASE m = req.member /\ old # NoSeat
    <3>1. old \in Seat /\ Sound(old) BY <1>3, <2>3 DEF InPlace
    <3>2. \A h \in Grants(new) : \E g \in Grants(old) : Same(g, h) BY <1>2, <2>3, <3>1, TriggerLeaves
    <3> HIDE DEF old, new
    <3>3. \A x : x \in BuildingsAt(Grants(new), s) => x \in BuildingsAt(Grants(old), s)
      BY ONLY <3>2, SameCounts, AtSite
    <3> QED BY <2>3, <3>3 DEF CurrentSeatBuildings, old, new
  <2> QED BY <2>1, <2>2, <2>3
<1>6. b \in Lacks(m, s) BY <1>1, <1>5 DEF Lacks
<1>7. PICK r \in ReqIds : Excuse(r, m, s, b) BY <1>6 DEF Entitled
<1>8. CASE r # q \/ ~Awaited(q)
  <2>1. Excuse(r, m, s, b)' BY <1>4, <1>7, <1>8
  <2> QED BY <2>1
<1>9. CASE r = q /\ Awaited(q)
  <2>1. m = req.member /\ s = site /\ b \notin Wanted(q) BY <1>7, <1>9 DEF Excuse
  <2>2. ~Beside(old, req) BY <1>9 DEF BesideNow
  <2>3. Target(old, req) = CurrentSeatBuildings(new, site) BY <1>2, <1>3, <2>2, RemovalPredicted
  <2> QED BY <2>1, <2>3 DEF Wanted, Lacks
<1> QED BY <1>8, <1>9

LEMMA ClientsEntitled ==
    ASSUME Fits, Fits', RunSound, Recorded, Entitled, Clean, Clean', ~beside, ~BesideNow, Clients,
           NEW m \in Members, NEW s \in RealSites, NEW b \in Lacks(m, s)'
    PROVE  \E r \in ReqIds : Excuse(r, m, s, b)'
<1>1. kindoo' = kindoo /\ past' = past BY ClientsDo
<1>2. ASSUME NEW q \in ReqIds, UNCHANGED <<seats, deliveries>>,
             \A r \in ReqIds \ {q} : requests'[r] = requests[r],
             ~Exists(q) \/ (HasStatus(q, "pending") /\ ~HasStatus(q, "pending")'),
             ~HasStatus(q, "complete")'
      PROVE  \E r \in ReqIds : Excuse(r, m, s, b)'
  <2>1. b \in Lacks(m, s) BY <1>1, <1>2 DEF Lacks
  <2>2. PICK r \in ReqIds : Excuse(r, m, s, b) BY <2>1 DEF Entitled
  <2>3. HasStatus(r, "pending") \/ HasStatus(r, "complete") BY <2>2 DEF Excuse, Awaited
  <2>4. CASE r # q
    <3>1. requests'[r] = requests[r] BY <1>2, <2>4
    <3>2. /\ Body(r)' = Body(r) /\ deliveries'[r] = deliveries[r]
          /\ \A status : HasStatus(r, status)' <=> HasStatus(r, status)
      BY <1>2, <3>1 DEF Body, HasStatus, Exists
    <3>3. Wanted(r)' = Wanted(r) BY <1>2, <3>2 DEF Wanted
    <3>4. Excuse(r, m, s, b)' BY <1>1, <2>2, <2>3, <3>2, <3>3, ExcuseStays
    <3> QED BY <3>4
  <2>5. CASE r = q
    <3>1. HasStatus(q, "pending") /\ ~HasStatus(q, "complete") /\ ~HasStatus(q, "pending")'
      BY <1>2, <2>3, <2>5 DEF HasStatus
    <3>2. q \in past.tried BY <2>2, <2>5, <3>1 DEF Excuse, Awaited
    <3> QED BY <1>1, <1>2, <3>1, <3>2 DEF Clean
  <2> QED BY <2>4, <2>5
<1> QED BY <1>2, ClientsDo, TriggerEntitled

LEMMA EntitledStep ==
    ASSUME Fits, Fits', RunSound, Recorded, NoEvents, Covers, Entitled, PNext
    PROVE  Entitled'
<1> SUFFICES ASSUME Clean', ~beside', NEW m \in Members, NEW s \in RealSites, NEW b \in Lacks(m, s)'
             PROVE  \E r \in ReqIds : Excuse(r, m, s, b)'
  BY DEF Entitled
<1>1. Clean /\ ~beside /\ ~BesideNow BY StillClean
<1>2. ASSUME Quiet PROVE \E r \in ReqIds : Excuse(r, m, s, b)'
  <2>1. b \in Lacks(m, s) BY <1>2 DEF Lacks, Quiet, vars
  <2>2. PICK r \in ReqIds : Excuse(r, m, s, b) BY <1>1, <2>1 DEF Entitled
  <2>3. Excuse(r, m, s, b)'
    BY <1>2, <2>2 DEF Excuse, Awaited, HasStatus, Exists, Body, Wanted, Quiet, vars
  <2> QED BY <2>3
<1> QED BY <1>1, <1>2, QuietIs, CallEntitled, MarkEntitled, ClientsEntitled, StepCases

\* The variables keep their types, as PTypeOK says.
LEMMA Typed == ASSUME Fits, RunSound, Recorded PROVE PTypeOK
<1>1. TypeOK BY DEF Fits, SeatsSound
<1>2. desk.phase \in {"idle", "lookup", "writing"} BY DEF RunSound, Run, Idle
<1> QED BY <1>1, <1>2 DEF PTypeOK, RunSound, Recorded, Past

LEMMA EntitledIs == ASSUME Entitled PROVE EntitledOpens
<1> SUFFICES ASSUME ~beside, NEW m \in Members, NEW s \in RealSites, Settled(m),
                    NEW b \in CurrentSeatBuildings(seats[m], s), b \notin Opens(kindoo[m][s]),
                    <<m, s, b>> \notin past.lent
             PROVE  FALSE
  BY DEF EntitledOpens
<1>1. Clean BY DEF Settled, Clean
<1>2. b \in Lacks(m, s) BY DEF Lacks, Opens, Held
<1>3. PICK r \in ReqIds : Excuse(r, m, s, b) BY <1>1, <1>2 DEF Entitled
<1>4. Body(r).member = m /\ ~Awaited(r) BY <1>3 DEF Settled, Undelivered, Excuse
<1>5. r \in past.tried /\ HasStatus(r, "pending") BY <1>3, <1>4 DEF Excuse
<1> QED BY <1>5 DEF Settled, HasStatus

\* All that the rosters' invariant needs of the rest.
Steady == Fits /\ RunSound /\ Recorded /\ NoEvents /\ Covers /\ Entitled

LEMMA SteadyInit == ASSUME PInit PROVE Steady
BY FitsInit, RunInit, PastInit, EntitledInit DEF Steady

LEMMA SteadyStep == ASSUME Steady, [PNext]_pvars PROVE Steady'
<1>1. Fits' /\ RunSound' BY FitsStep, RunStep DEF Steady
<1>2. CASE UNCHANGED pvars
  <2>1. UNCHANGED <<requests, seats, deliveries, kindoo, desk, past, beside>> BY <1>2 DEF pvars, vars
  <2>2. Recorded' /\ NoEvents' BY <2>1 DEF Steady, Recorded, NoEvents, HasStatus, Exists
  <2>3. Covers' BY <2>1 DEF Steady, Covers, LentAtDesk, Body, HasStatus, Exists, Wanted, AtDesk
  <2>4. Entitled'
    BY <2>1 DEF Steady, Entitled, Clean, Lacks, Excuse, Awaited, Body, HasStatus, Exists, Wanted
  <2> QED BY <1>1, <2>2, <2>3, <2>4 DEF Steady
<1>3. CASE PNext
  BY <1>1, <1>3, PastStep, NoEventsStep, CoversStep, EntitledStep DEF Steady
<1> QED BY <1>2, <1>3

\* In whatever order requests are provisioned and triggers delivered, and
\* wherever runs broke off and were repeated, a member can open every building
\* that a grant of the seat names, each on its site, once nothing is under way
\* for them and no run was for a request complete already: what provision.ts
\* leaves at Kindoo covers what markRequestComplete.ts and
\* removeSeatOnRequestComplete.ts leave in the seat.  Excepted are the buildings
\* a run did not grant because another schedule's doors opened them, which a
\* revoke of that schedule, by the same run or a later one, may shut.
THEOREM MembersKeepTheirDoors == PSpec => [](PTypeOK /\ EntitledOpens)
<1>1. PInit => Steady BY SteadyInit
<1>2. Steady /\ [PNext]_pvars => Steady' BY SteadyStep
<1>3. Steady => PTypeOK /\ EntitledOpens BY Typed, EntitledIs DEF Steady
<1> QED BY <1>1, <1>2, <1>3, PTL DEF PSpec

\* A call that shuts a building the run wants: it is granted by a later call, or
\* was left to another schedule.
LEMMA ShutIsGranted ==
    ASSUME Steady, NEW answered \in BOOLEAN, KindooCall(answered), HasStatus(desk.req, "pending"),
           NEW b \in Wanted(desk.req), b \in Buildings, b \in Opens(AtDesk),
           b \notin Opens(Effect(AtDesk, Head(desk.todo)))
    PROVE  LentAtDesk(b) \/ StillGrants(b)
<1> DEFINE call == Head(desk.todo)
           rest == Tail(desk.todo)
<1>1. desk.phase = "writing" /\ desk.todo # <<>> BY DEF KindooCall
<1>2. desk.todo \in Seq(Call) BY <1>1, RunIs DEF Steady, RunSound
<1>3. /\ AtDesk \in User \cup {NoUser} /\ Spares(call, Wanted(desk.req))
      /\ call.kind = "invite" => AtDesk = NoUser
  BY CallLands DEF Steady
<1>4. Due(desk.todo, AtDesk, b) \/ LentAtDesk(b) BY <1>1 DEF Steady, Covers
<1>5. b \notin Held(Effect(AtDesk, call)) BY DEF Opens, Held
<1> SUFFICES ASSUME ~LentAtDesk(b) PROVE StillGrants(b)
  OBVIOUS
<1>6. Due(rest, Effect(AtDesk, call), b) BY <1>1, <1>2, <1>3, <1>4, DueLands
<1>7. PICK i \in 1..Len(rest) : rest[i].kind = "save" /\ b \in rest[i].rules
  BY <1>5, <1>6 DEF Due, Offers
<1>8. Len(desk.todo) \in Nat \ {0} BY <1>1, <1>2, EmptySeq
<1>9. Len(rest) = Len(desk.todo) - 1 /\ \A j \in 1..Len(rest) : rest[j] = desk.todo[j + 1]
  BY <1>2, <1>8, HeadTailProperties
<1> HIDE DEF rest
<1>10. i + 1 \in 2..Len(desk.todo) /\ rest[i] = desk.todo[i + 1] BY <1>8, <1>9
<1> QED BY <1>7, <1>10 DEF StillGrants

\* At no call of a run does the member lose a building that a grant of the seat
\* still names once the run's request is complete: what a run means to take away
\* it decided before its first call (provision.ts, provisionEdit and
\* provisionRemove), while triggers of earlier removes, cancellations and
\* submissions go on changing seat and request under it.  Excepted are a building
\* the run grants by a later call, as a remove does, which revokes first, and one
\* that a run left to another schedule.
THEOREM NothingWantedIsRevoked == PSpec => OnlyRevokesWhatGoes
<1> DEFINE Shuts == \A m \in Members, s \in RealSites :
                      \A b \in Opens(kindoo[m][s]) \ Opens(kindoo'[m][s]) :
                          \/ beside \/ ~Completable(desk.req)
                          \/ b \notin CurrentSeatBuildings(SeatAfter(desk.req), s)
                          \/ <<m, s, b>> \in past.lent
                          \/ StillGrants(b)
<1>1. ASSUME Steady, PNext PROVE Shuts
  <2>1. ASSUME NEW answered \in BOOLEAN, KindooCall(answered), ~beside, Completable(desk.req),
               NEW m \in Members, NEW s \in RealSites, NEW b \in Opens(kindoo[m][s]) \ Opens(kindoo'[m][s]),
               b \in CurrentSeatBuildings(SeatAfter(desk.req), s)
        PROVE  <<m, s, b>> \in past.lent \/ StillGrants(b)
    <3> DEFINE r == desk.req
               req == Body(r)
               site == RequestSite(req)
               call == Head(desk.todo)
    <3>1. desk # Idle BY <2>1 DEF KindooCall, Idle
    <3>2. r \in ReqIds /\ Listed(req) /\ seats[req.member] \in Seat \cup {NoSeat}
      BY <3>1, <1>1, AtDeskType DEF Steady
    <3>3. kindoo'[m][s] = IF m = req.member /\ s = site THEN Effect(AtDesk, call) ELSE kindoo[m][s]
      BY <1>1, <2>1, CallLands DEF Steady
    <3>4. m = req.member /\ s = site /\ kindoo[m][s] = AtDesk BY <2>1, <3>3 DEF AtDesk
    <3>5. ~Beside(seats[req.member], req)
      <4>1. ~BesideNow BY <1>1, <2>1 DEF Steady, RunSound
      <4> QED BY <3>1, <3>2, <4>1 DEF BesideNow
    <3>6. Predicted(r)
      <4>1. PredictionsHold BY <1>1, OrderlyPredicts DEF Steady, Fits
      <4> QED BY <2>1, <3>2, <3>5, <4>1 DEF PredictionsHold
    <3>7. b \in Wanted(r) BY <2>1, <3>4, <3>6 DEF Predicted, Wanted
    <3>8. b \in Buildings BY <3>2, <3>7, TargetType DEF Wanted
    <3>9. HasStatus(r, "pending") BY <2>1 DEF Completable
    <3>10. b \in Opens(AtDesk) /\ b \notin Opens(Effect(AtDesk, call)) BY <2>1, <3>3, <3>4
    <3>11. LentAtDesk(b) \/ StillGrants(b) BY <1>1, <2>1, <3>7, <3>8, <3>9, <3>10, ShutIsGranted
    <3> QED BY <3>4, <3>11 DEF LentAtDesk
  <2>2. kindoo' = kindoo \/ \E answered \in BOOLEAN : KindooCall(answered)
    BY <1>1 DEF PNext, Desk, Clients, StartRun, LookupUser, MarkComplete, RunStops, MarkRefused
  <2> QED BY <2>1, <2>2
<1>2. PInit => Steady BY SteadyInit
<1>3. Steady /\ [PNext]_pvars => Steady' BY SteadyStep
<1>4. Steady /\ [PNext]_pvars => [Shuts]_pvars BY <1>1
<1> QED BY <1>2, <1>3, <1>4, PTL DEF PSpec, OnlyRevokesWhatGoes

-----------------------------------------------------------------------------
(* Nothing left over: where rules come from.                               *)

\* A request wants what the seat holds on its site and what it asks for.
LEMMA TargetFrom ==
    ASSUME NEW req, Listed(req), NEW s \in Seat \cup {NoSeat}, InPlace(s), NEW b \in Target(s, req)
    PROVE  /\ b \in CurrentSeatBuildings(s, RequestSite(req)) \/ (req.type # "remove" /\ b \in req.buildings)
           /\ req.type = "remove" => b \in CurrentSeatBuildings(s, RequestSite(req))
<1> DEFINE site == RequestSite(req)
           L == AllGrants(s)
<1>1. req.type \in AddTypes \/ req.type \in EditTypes \/ req.type = "remove" BY DEF Listed, Input, Types
<1>2. /\ req.type \in AddTypes => req.type \notin EditTypes /\ req.type # "remove"
      /\ req.type \in EditTypes => req.type # "remove" /\ req.type \notin AddTypes
      /\ req.type = "remove" => req.type \notin AddTypes /\ req.type \notin EditTypes
  BY DEF AddTypes, EditTypes
<1>3. CASE req.type \in AddTypes
  <2>1. BuildingsForRequest(req) = req.buildings BY <1>2, <1>3 DEF Listed, BuildingsForRequest
  <2> QED BY <1>2, <1>3, <2>1 DEF Target, AddTarget
<1>4. CASE req.type \in EditTypes
  <2>1. b \in EditTarget(s, req) BY <1>2, <1>4 DEF Target
  <2>2. \/ b \in req.buildings
        \/ \E g \in Grants(s) : GrantSite(g) = site /\ b \in g.buildings
    BY <1>4, <2>1, EditTargetIs
  <2> QED BY <1>2, <1>4, <2>2, AtSite DEF CurrentSeatBuildings
<1>5. CASE req.type = "remove"
  <2>1. b \in ComputePostRemovalBuildings(s, req) BY <1>2, <1>5 DEF Target
  <2>2. \E j \in 1..Len(L) : GrantSite(L[j]) = site /\ b \in L[j].buildings BY <2>1, LeftIs
  <2>3. Grants(s) = {L[j] : j \in 1..Len(L)} BY GrantsListed
  <2> HIDE DEF L, site
  <2>4. \E g \in Grants(s) : GrantSite(g) = site /\ b \in g.buildings BY <2>2, <2>3
  <2> QED BY <2>4, AtSite DEF CurrentSeatBuildings, site
<1> QED BY <1>1, <1>3, <1>4, <1>5

\* An add wants all that the seat holds on its site.
LEMMA AddKeeps ==
    ASSUME NEW req, req.type \in AddTypes, NEW s
    PROVE  CurrentSeatBuildings(s, RequestSite(req)) \subseteq Target(s, req)
<1>1. req.type \notin EditTypes /\ req.type # "remove" BY DEF AddTypes, EditTypes
<1> QED BY <1>1 DEF Target, AddTarget

\* What an add or an edit asks for, it wants.
LEMMA AskedIsWanted ==
    ASSUME NEW req, Listed(req), req.type # "remove", NEW s \in Seat \cup {NoSeat}, InPlace(s)
    PROVE  req.buildings \subseteq Target(s, req)
<1>1. req.type \in AddTypes \/ req.type \in EditTypes BY DEF Listed, Input, Types
<1>2. /\ req.type \in AddTypes => req.type \notin EditTypes
      /\ req.type \in EditTypes => req.type \notin AddTypes
  BY DEF AddTypes, EditTypes
<1>3. CASE req.type \in AddTypes
  <2>1. BuildingsForRequest(req) = req.buildings BY DEF Listed, BuildingsForRequest
  <2> QED BY <1>2, <1>3, <2>1 DEF Target, AddTarget
<1>4. CASE req.type \in EditTypes
  <2>1. Target(s, req) = EditTarget(s, req) BY <1>2, <1>4 DEF Target
  <2> QED BY <1>4, <2>1, EditTargetIs
<1> QED BY <1>1, <1>3, <1>4

\* A trigger leaves what the seat holds on other sites than its remove's.
LEMMA RemoveElsewhere ==
    ASSUME NEW req, Listed(req), req.type = "remove", NEW s \in Seat, InPlace(s), ~Beside(s, req),
           NEW site, site # RequestSite(req)
    PROVE  CurrentSeatBuildings(ApplyRemove(s, PlanRemove(s, req.scope, req.site)), site)
           = CurrentSeatBuildings(s, site)
<1> DEFINE t == ApplyRemove(s, PlanRemove(s, req.scope, req.site))
           L == AllGrants(s)
           f == FirstOfScope(L, req.scope)
<1>1. t \in Seat \cup {NoSeat} BY ApplyRemoveSound, SeatFacts DEF InPlace
<1>2. (f = 0 /\ t = s) \/ (f # 0 /\ TakesOne(s, t, f)) BY RemoveTakesFirst
<1>3. Grants(s) = {L[j] : j \in 1..Len(L)} /\ L \in Seq(Grant) BY AllGrantsIs
<1>4. f \in 0..Len(L) /\ (f > 0 => L[f].scope = req.scope) BY <1>3, FirstIs
<1>5. Len(L) \in Nat BY <1>3, LenProperties
<1> HIDE DEF t, f, L
<1>6. CASE TakesOne(s, t, f) /\ f # 0
  <2>1. f \in 1..Len(L) /\ L[f].scope = req.scope BY <1>4, <1>5, <1>6
  <2>2. GrantSite(L[f]) # site BY <1>3, <2>1, InPlaceIs DEF RequestSite
  <2>3. ASSUME NEW b
        PROVE  b \in CurrentSeatBuildings(t, site) <=> b \in CurrentSeatBuildings(s, site)
    <3>1. b \in CurrentSeatBuildings(t, site) <=>
          \E j \in (1..Len(L)) \ {f} : GrantSite(L[j]) = site /\ b \in L[j].buildings
      BY <1>1, <1>6, HoldsWithout DEF L
    <3>2. b \in CurrentSeatBuildings(s, site) <=>
          \E j \in 1..Len(L) : GrantSite(L[j]) = site /\ b \in L[j].buildings
      BY <1>3, AtSite DEF CurrentSeatBuildings
    <3> QED BY <2>2, <3>1, <3>2
  <2> QED BY <2>3 DEF t
<1> QED BY <1>2, <1>6 DEF t

\* The forms offer a request the buildings of its scope's site, the seats a run
\* starts from are made that way, and no user holds the rule of a building that
\* has none.
SitesAgree ==
    /\ \A input \in Inputs : \A b \in input.buildings : BuildingSite[b] = RequestSite(input)
    /\ \A s \in InitSeats, m \in Members : \A g \in Grants(s[m]) : \A b \in g.buildings :
          BuildingSite[b] = GrantSite(g)
    /\ \A k \in InitKindoo, m \in Members, s \in RealSites :
          k[m][s] # NoUser => k[m][s].rules \cap Unruled = {}

\* Every save of a run is of these buildings.
Saves(todo, buildings) ==
    \A i \in 1..Len(todo) : todo[i].kind = "save" => todo[i].rules \subseteq buildings

\* Grants, requests, rosters and runs keep to their sites.
Sited ==
    /\ \A m \in Members : \A g \in Grants(seats[m]) : \A b \in g.buildings : BuildingSite[b] = GrantSite(g)
    /\ \A r \in ReqIds : Exists(r) => \A b \in Body(r).buildings : BuildingSite[b] = RequestSite(Body(r))
    /\ \A m \in Members, s \in RealSites :
          kindoo[m][s] # NoUser => kindoo[m][s].rules \cap Buildings \subseteq Located(s)
    /\ desk.phase = "lookup" => desk.target \subseteq Located(RequestSite(Body(desk.req)))
    /\ desk.phase = "writing" => Saves(desk.todo, Located(RequestSite(Body(desk.req))))

\* The lookup saves nothing outside the target.
LEMMA LookupSaves ==
    ASSUME Fits, RunSound, Recorded, LookupUser, desk' # Idle
    PROVE  desk'.phase = "writing" /\ desk'.req = desk.req /\ Saves(desk'.todo, desk.target)
<1> DEFINE user == AtDesk
           target == desk.target
           names == desk.names
           req == Body(desk.req)
<1>1. /\ desk # Idle /\ target \in SUBSET Buildings /\ names \in Seq(Scopes) BY LookupCases
<1>2. user \in User \cup {NoUser} BY <1>1, AtDeskType
<1>3. PICK todo, doors : /\ desk' = [phase |-> "writing", req |-> desk.req, todo |-> todo]
                         /\ user = NoUser => doors = {}
                         /\ Decided(todo, req, user, target, names, doors)
  BY LookupCases
<1> HIDE DEF user, target, names, req
<1>4. ASSUME NEW rest \in Seq(Gentle(target)) PROVE Saves(rest, target)
  <2>1. \A i \in 1..Len(rest) : rest[i] \in Gentle(target) BY ElementOfSeq
  <2> QED BY <2>1 DEF Saves, Gentle
<1>5. ASSUME NEW invite \in Call, invite.kind = "invite", NEW rest \in Seq(Gentle(target)),
             todo = <<invite>> \o rest
      PROVE  Saves(todo, target)
  <2>1. Gentle(target) \subseteq Call BY DEF Gentle
  <2>2. rest \in Seq(Call) BY <2>1, SeqMonotonic
  <2>3. <<invite>> \in Seq(Call) /\ Len(<<invite>>) = 1 /\ <<invite>>[1] = invite OBVIOUS
  <2>4. /\ Len(todo) = 1 + Len(rest)
        /\ \A i \in 1..1 + Len(rest) : todo[i] = IF i <= 1 THEN <<invite>>[i] ELSE rest[i - 1]
    BY <1>5, <2>2, <2>3, ConcatProperties
  <2>5. Len(rest) \in Nat BY LenProperties
  <2> SUFFICES ASSUME NEW i \in 1..Len(todo), todo[i].kind = "save" PROVE todo[i].rules \subseteq target
    BY DEF Saves
  <2>6. i # 1 BY <1>5, <2>3, <2>4, <2>5
  <2>7. i - 1 \in 1..Len(rest) /\ ~(i <= 1) /\ i \in 1..1 + Len(rest) BY <2>4, <2>5, <2>6
  <2>8. todo[i] = rest[i - 1] BY <2>4, <2>7
  <2> QED BY <1>4, <2>7, <2>8 DEF Saves
<1>6. Saves(todo, target)
  <2>1. CASE todo = AddCalls(req, user, target, names, doors)
    BY <1>1, <1>2, <1>3, <1>4, <1>5, <2>1, AddCallsAre
  <2>2. CASE user # NoUser /\ todo = EditCalls(req, user, target, names, doors)
    <3>1. todo \in Seq(Gentle(target)) BY <1>1, <1>2, <1>3, <2>2, EditCallsAre
    <3> QED BY <1>4, <3>1
  <2>3. CASE todo = RemoveCalls(req, user, target, names)
    <3>1. todo \in Seq(Gentle(target)) BY <1>1, <1>2, <2>3, RemoveCallsAre
    <3> QED BY <1>4, <3>1
  <2> QED BY <1>3, <2>1, <2>2, <2>3 DEF Decided
<1> QED BY <1>3, <1>6 DEF target

LEMMA TailSaves ==
    ASSUME NEW todo \in Seq(Call), todo # <<>>, NEW buildings, Saves(todo, buildings)
    PROVE  /\ Saves(Tail(todo), buildings)
           /\ Head(todo).kind = "save" => Head(todo).rules \subseteq buildings
<1>1. Len(todo) \in Nat \ {0} BY EmptySeq
<1>2. /\ Head(todo) = todo[1] /\ Len(Tail(todo)) = Len(todo) - 1
      /\ \A i \in 1..Len(Tail(todo)) : Tail(todo)[i] = todo[i + 1]
  BY <1>1, HeadTailProperties
<1> DEFINE rest == Tail(todo)
<1> HIDE DEF rest
<1>3. \A i \in 1..Len(rest) : i + 1 \in 1..Len(todo) /\ rest[i] = todo[i + 1] BY <1>1, <1>2 DEF rest
<1>4. Saves(rest, buildings) BY <1>3 DEF Saves
<1> QED BY <1>1, <1>2, <1>4 DEF Saves, rest

\* What a call adds to a user who is there.
LEMMA EffectGives ==
    ASSUME NEW user \in User \cup {NoUser}, NEW call \in Call, Effect(user, call) # NoUser,
           NEW b \in Effect(user, call).rules
    PROVE  /\ user # NoUser
           /\ call.kind # "invite"
           /\ b \in user.rules \/ (call.kind = "save" /\ b \in call.rules)
           /\ call.kind = "revoke" => b \notin call.rules
<1>1. call.kind # "invite"
  <2> SUFFICES ASSUME call.kind = "invite" PROVE FALSE
    OBVIOUS
  <2>1. Effect(user, call) = InviteUser(call) BY DEF Effect
  <2> QED BY <2>1 DEF InviteUser
<1>2. CASE call.kind = "save"
  <2>1. Effect(user, call) = [user EXCEPT !.rules = @ \cup call.rules] BY <1>2 DEF Effect, SaveAccessRule
  <2>2. user = NoUser => Effect(user, call) = NoUser BY <2>1 DEF NoUser
  <2>3. user \in User BY <2>2
  <2> QED BY <1>1, <1>2, <2>1, <2>2, <2>3 DEF User
<1>3. CASE call.kind = "revoke"
  <2>1. Effect(user, call) = [user EXCEPT !.rules = @ \ call.rules]
    BY <1>3 DEF Effect, RevokeUserFromAccessSchedule
  <2>2. user = NoUser => Effect(user, call) = NoUser BY <2>1 DEF NoUser
  <2>3. user \in User BY <2>2
  <2> QED BY <1>1, <1>3, <2>1, <2>2, <2>3 DEF User
<1>4. CASE call.kind = "edit"
  <2>1. Effect(user, call) = [user EXCEPT !.temp = call.temp, !.names = call.names]
    BY <1>4 DEF Effect, EditUser
  <2>2. user = NoUser => Effect(user, call) = NoUser BY <2>1 DEF NoUser
  <2>3. user \in User BY <2>2
  <2> QED BY <1>1, <1>4, <2>1, <2>2, <2>3 DEF User
<1>5. call.kind # "wipe" BY DEF Effect, RevokeUser
<1> QED BY <1>1, <1>2, <1>3, <1>4, <1>5 DEF Call

LEMMA SitedInit == ASSUME SitesAgree, PInit PROVE Sited
<1>1. \A m \in Members : \A g \in Grants(seats[m]) : \A b \in g.buildings : BuildingSite[b] = GrantSite(g)
  BY DEF SitesAgree, PInit, Init
<1>2. \A r \in ReqIds : ~Exists(r) BY DEF PInit, Init, Exists
<1>3. ASSUME NEW m \in Members, NEW s \in RealSites, kindoo[m][s] # NoUser,
             NEW b \in kindoo[m][s].rules \cap Buildings
      PROVE  b \in Located(s)
  <2>1. b \notin Unruled BY <1>3 DEF SitesAgree, PInit
  <2>2. b \in CurrentSeatBuildings(seats[m], s) BY <1>3 DEF PInit, InStep
  <2>3. PICK g \in Grants(seats[m]) : GrantSite(g) = s /\ b \in g.buildings
    BY <2>2, AtSite DEF CurrentSeatBuildings
  <2> QED BY <1>1, <1>3, <2>1, <2>3 DEF Located
<1>4. desk.phase \notin {"lookup", "writing"} BY DEF PInit, Idle
<1> QED BY <1>1, <1>2, <1>3, <1>4 DEF Sited

\* A request there is was there, or has just come.
LEMMA BodyFrom ==
    ASSUME Fits, PNext, NEW r \in ReqIds, Exists(r)'
    PROVE  (Exists(r) /\ Body(r)' = Body(r)) \/ Body(r)' \in Inputs
<1>1. CASE Exists(r) BY <1>1, StatusStays
<1>2. CASE ~Exists(r)
  <2>1. UNCHANGED vars \/ (\E a \in BOOLEAN : MarkComplete(a)) \/ Clients
    BY StepCases DEF StartRun, LookupUser, RunStops, MarkRefused, KindooCall
  <2>2. ~UNCHANGED vars BY <1>2 DEF vars, Exists
  <2>3. ASSUME NEW a \in BOOLEAN, MarkComplete(a) PROVE FALSE
    <3>1. CompleteRequest(desk.req) /\ desk # Idle BY <2>3 DEF MarkComplete, Idle
    <3>2. desk.req \in ReqIds BY <3>1 DEF Fits, Running
    <3>3. HasStatus(desk.req, "pending") /\ \A q \in ReqIds \ {desk.req} : requests'[q] = requests[q]
      BY <3>1, <3>2, CompletionDoes
    <3> QED BY <1>2, <3>3 DEF HasStatus, Exists
  <2>4. ASSUME NEW q \in ReqIds, SeatTrigger(q) PROVE FALSE
    <3>1. Stands(r) BY <2>4, TriggerDoes
    <3> QED BY <1>2, <3>1 DEF Stands
  <2>5. ASSUME NEW q \in ReqIds, \A x \in ReqIds \ {q} : requests'[x] = requests[x],
               (~Exists(q) /\ Body(q)' \in Inputs) \/ HasStatus(q, "pending")
        PROVE  Body(r)' \in Inputs
    <3>1. r = q BY <1>2, <2>5 DEF Exists
    <3> QED BY <1>2, <2>5, <3>1 DEF HasStatus
  <2> QED BY <2>1, <2>2, <2>3, <2>4, <2>5, ClientsDo
<1> QED BY <1>1, <1>2

\* The grants of a seat after a completion keep to their sites.
LEMMA ReachesSited ==
    ASSUME NEW req, \A b \in req.buildings : BuildingSite[b] = RequestSite(req),
           NEW s \in Seat \cup {NoSeat}, InPlace(s), NEW t \in Seat \cup {NoSeat}, InPlace(t), Reaches(s, t, req),
           \A g \in Grants(s) : \A b \in g.buildings : BuildingSite[b] = GrantSite(g)
    PROVE  \A g \in Grants(t) : \A b \in g.buildings : BuildingSite[b] = GrantSite(g)
<1> DEFINE L == AllGrants(s)
           M == AllGrants(t)
<1>1. /\ L \in Seq(Grant) /\ M \in Seq(Grant) /\ Len(L) <= Len(M)
      /\ \A j \in 1..Len(L) : Grows(L[j], M[j], req)
      /\ \A j \in 1..Len(M) : j > Len(L) => M[j].scope = req.scope /\ M[j].buildings \subseteq req.buildings
  BY DEF Reaches
<1>2. Len(L) \in Nat /\ Len(M) \in Nat BY <1>1, LenProperties
<1>3. Grants(s) = {L[j] : j \in 1..Len(L)} /\ Grants(t) = {M[j] : j \in 1..Len(M)} BY GrantsListed
<1>4. ASSUME NEW u \in Seat \cup {NoSeat}, InPlace(u), NEW g \in Grants(u), g.scope = req.scope
      PROVE  GrantSite(g) = RequestSite(req)
  <2>1. u \in Seat BY <1>4, NoGrants
  <2> QED BY <1>4, <2>1, InPlaceIs DEF RequestSite
<1> HIDE DEF L, M
<1> SUFFICES ASSUME NEW j \in 1..Len(M), NEW b \in M[j].buildings PROVE BuildingSite[b] = GrantSite(M[j])
  BY <1>3
<1>5. M[j] \in Grants(t) BY <1>3
<1>6. CASE j > Len(L)
  <2>1. M[j].scope = req.scope /\ b \in req.buildings BY <1>1, <1>6
  <2> QED BY <1>4, <1>5, <2>1
<1>7. CASE ~(j > Len(L))
  <2>1. j \in 1..Len(L) BY <1>2, <1>7
  <2>2. Grows(L[j], M[j], req) /\ L[j] \in Grants(s) BY <1>1, <1>3, <2>1
  <2>3. CASE L[j].scope # req.scope
    <3>1. Same(L[j], M[j]) BY <2>2, <2>3 DEF Grows
    <3> QED BY <2>2, <3>1, SameCounts
  <2>4. CASE L[j].scope = req.scope
    <3>1. M[j].scope = req.scope /\ (b \in L[j].buildings \/ b \in req.buildings) BY <2>2, <2>4 DEF Grows
    <3>2. GrantSite(L[j]) = RequestSite(req) /\ GrantSite(M[j]) = RequestSite(req)
      BY <1>4, <1>5, <2>2, <2>4, <3>1
    <3> QED BY <2>2, <3>1, <3>2
  <2> QED BY <2>3, <2>4
<1> QED BY <1>6, <1>7

LEMMA SeatsStaySited ==
    ASSUME Fits, Fits', Sited, PNext, NEW m \in Members
    PROVE  \A g \in Grants(seats'[m]) : \A b \in g.buildings : BuildingSite[b] = GrantSite(g)
<1>1. \A g \in Grants(seats[m]) : \A b \in g.buildings : BuildingSite[b] = GrantSite(g) BY DEF Sited
<1>2. CASE seats'[m] = seats[m] BY <1>1, <1>2
<1>3. ASSUME NEW a \in BOOLEAN, MarkComplete(a), seats'[m] # seats[m]
      PROVE  \A g \in Grants(seats'[m]) : \A b \in g.buildings : BuildingSite[b] = GrantSite(g)
  <2>1. CompleteRequest(desk.req) /\ desk # Idle BY <1>3 DEF MarkComplete, Idle
  <2>2. desk.req \in ReqIds /\ Exists(desk.req) BY <2>1 DEF Fits, Running
  <2> DEFINE req == Body(desk.req)
  <2>3. m = req.member /\ req.type # "remove" /\ Reaches(seats[m], seats'[m], req)
    BY <1>3, <2>1, <2>2, CompletionDoes
  <2>4. \A b \in req.buildings : BuildingSite[b] = RequestSite(req) BY <2>2 DEF Sited
  <2>5. /\ InPlace(seats[m]) /\ seats[m] \in Seat \cup {NoSeat}
        /\ InPlace(seats'[m]) /\ seats'[m] \in Seat \cup {NoSeat}
    BY DEF Fits, Orderly, SeatsSound, TypeOK
  <2> HIDE DEF req
  <2> QED BY <1>1, <2>3, <2>4, <2>5, ReachesSited
<1>4. ASSUME NEW q \in ReqIds, SeatTrigger(q), seats'[m] # seats[m]
      PROVE  \A g \in Grants(seats'[m]) : \A b \in g.buildings : BuildingSite[b] = GrantSite(g)
  <2> DEFINE req == Body(q)
  <2>1. m = req.member /\ seats[m] # NoSeat
        /\ seats'[m] = ApplyRemove(seats[m], PlanRemove(seats[m], req.scope, req.site))
    BY <1>4, TriggerDoes
  <2>2. InPlace(seats[m]) BY DEF Fits, Orderly
  <2>3. seats[m] \in Seat /\ Sound(seats[m]) BY <2>1, <2>2 DEF InPlace
  <2>4. \A h \in Grants(seats'[m]) : \E g \in Grants(seats[m]) : Same(g, h) BY <2>1, <2>3, TriggerLeaves
  <2>5. ASSUME NEW h \in Grants(seats'[m]), NEW b \in h.buildings PROVE BuildingSite[b] = GrantSite(h)
    <3>1. PICK g \in Grants(seats[m]) : Same(g, h) BY <2>4
    <3> QED BY <1>1, <2>5, <3>1, SameCounts
  <2> QED BY <2>5
<1>5. ASSUME Clients, seats'[m] # seats[m] PROVE \E q \in ReqIds : SeatTrigger(q)
  BY <1>5, ClientsDo
<1>6. UNCHANGED vars \/ (\E a \in BOOLEAN : MarkComplete(a)) \/ Clients
  BY StepCases DEF StartRun, LookupUser, RunStops, MarkRefused, KindooCall
<1> QED BY <1>2, <1>3, <1>4, <1>5, <1>6 DEF vars

LEMMA RostersStaySited ==
    ASSUME Fits, RunSound, Sited, PNext, NEW m \in Members, NEW s \in RealSites,
           kindoo'[m][s] # NoUser, NEW b \in kindoo'[m][s].rules \cap Buildings
    PROVE  b \in Located(s)
<1>1. CASE kindoo' = kindoo BY <1>1 DEF Sited
<1>2. ASSUME NEW a \in BOOLEAN, KindooCall(a) PROVE b \in Located(s)
  <2> DEFINE call == Head(desk.todo)
             req == Body(desk.req)
  <2>1. /\ call \in Call /\ AtDesk \in User \cup {NoUser}
        /\ kindoo'[m][s] = IF m = req.member /\ s = RequestSite(req) THEN Effect(AtDesk, call) ELSE kindoo[m][s]
    BY <1>2, CallLands
  <2>2. CASE kindoo'[m][s] = kindoo[m][s] BY <2>2 DEF Sited
  <2>3. CASE m = req.member /\ s = RequestSite(req)
    <3>1. AtDesk # NoUser /\ (b \in AtDesk.rules \/ (call.kind = "save" /\ b \in call.rules))
      BY <2>1, <2>3, EffectGives
    <3>2. kindoo[m][s] = AtDesk BY <2>3 DEF AtDesk
    <3>3. desk.phase = "writing" /\ desk.todo # <<>> BY <1>2 DEF KindooCall
    <3>4. desk.todo \in Seq(Call) BY <3>3, RunIs DEF RunSound
    <3>5. Saves(desk.todo, Located(s)) BY <2>3, <3>3 DEF Sited
    <3>6. call.kind = "save" => call.rules \subseteq Located(s) BY <3>3, <3>4, <3>5, TailSaves
    <3>7. AtDesk.rules \cap Buildings \subseteq Located(s) BY <3>1, <3>2 DEF Sited
    <3> QED BY <3>1, <3>6, <3>7
  <2> QED BY <2>1, <2>2, <2>3
<1>3. kindoo' = kindoo \/ \E a \in BOOLEAN : KindooCall(a)
  BY DEF PNext, Desk, Clients, StartRun, LookupUser, MarkComplete, RunStops, MarkRefused
<1> QED BY <1>1, <1>2, <1>3

LEMMA RunsStaySited ==
    ASSUME Fits, RunSound, Recorded, Sited, PNext
    PROVE  /\ desk'.phase = "lookup" => desk'.target \subseteq Located(RequestSite(Body(desk.req)'))
           /\ desk'.phase = "writing" => Saves(desk'.todo, Located(RequestSite(Body(desk.req)')))
<1> DEFINE Goal == /\ desk'.phase = "lookup" => desk'.target \subseteq Located(RequestSite(requests'[desk'.req].body))
                   /\ desk'.phase = "writing" =>
                         Saves(desk'.todo, Located(RequestSite(requests'[desk'.req].body)))
<1>1. ASSUME desk' = Idle PROVE Goal BY <1>1 DEF Idle
<1>2. ASSUME desk # Idle PROVE requests'[desk.req].body = Body(desk.req)
  <2>1. desk.req \in ReqIds /\ Exists(desk.req) BY <1>2 DEF Fits, Running
  <2> PICK r \in ReqIds : r = desk.req BY <2>1
  <2>2. Body(r)' = Body(r) BY <2>1, StatusStays
  <2> QED BY <2>2 DEF Body
<1>3. ASSUME NEW r \in ReqIds, StartRun(r) PROVE Goal
  <2> DEFINE req == Body(r)
             s == seats[req.member]
             target == Target(s, req)
  <2>1. /\ desk'.phase = "lookup" /\ desk'.req = r /\ desk'.target = target
        /\ target \cap Unruled = {} /\ Exists(r) /\ requests'[r].body = req
    BY <1>3 DEF StartRun, RidsForBuildings, HasStatus, vars, Body
  <2>2. /\ Listed(req) /\ req.member \in Members /\ s \in Seat \cup {NoSeat} /\ InPlace(s)
    BY <2>1, BodyType DEF Fits, Orderly, SeatsSound, TypeOK
  <2>3. target \subseteq Buildings BY <2>2, TargetType
  <2>4. ASSUME NEW b \in target PROVE BuildingSite[b] = RequestSite(req)
    <3>1. CASE b \in req.buildings BY <2>1, <3>1 DEF Sited
    <3>2. CASE b \in CurrentSeatBuildings(s, RequestSite(req))
      <4>1. PICK g \in Grants(s) : GrantSite(g) = RequestSite(req) /\ b \in g.buildings
        BY <3>2, AtSite DEF CurrentSeatBuildings
      <4> QED BY <2>2, <4>1 DEF Sited
    <3> QED BY <2>2, <2>4, <3>1, <3>2, TargetFrom
  <2> HIDE DEF target, req
  <2>5. target \subseteq Located(RequestSite(req)) BY <2>1, <2>3, <2>4 DEF Located
  <2> QED BY <2>1, <2>5
<1>4. ASSUME LookupUser, desk' # Idle PROVE Goal
  <2>1. desk'.phase = "writing" /\ desk'.req = desk.req /\ Saves(desk'.todo, desk.target) BY <1>4, LookupSaves
  <2>2. desk # Idle /\ desk.phase = "lookup" BY <1>4, LookupCases
  <2>3. desk.target \subseteq Located(RequestSite(Body(desk.req))) BY <2>2 DEF Sited
  <2>4. Saves(desk'.todo, Located(RequestSite(Body(desk.req)))) BY <2>1, <2>3 DEF Saves
  <2> QED BY <1>2, <2>1, <2>2, <2>4
<1>5. ASSUME NEW a \in BOOLEAN, KindooCall(a), desk' # Idle PROVE Goal
  <2>1. /\ desk.phase = "writing" /\ desk.todo # <<>> /\ desk # Idle /\ desk' = [desk EXCEPT !.todo = Tail(@)]
    BY <1>5 DEF KindooCall, Idle
  <2>2. desk \in [phase : {"writing"}, req : ReqIds, todo : Seq(Call)] BY <2>1, RunIs DEF RunSound
  <2>3. desk'.phase = "writing" /\ desk'.req = desk.req /\ desk'.todo = Tail(desk.todo) BY <2>1, <2>2
  <2>4. Saves(desk.todo, Located(RequestSite(Body(desk.req)))) BY <2>1 DEF Sited
  <2>5. Saves(Tail(desk.todo), Located(RequestSite(Body(desk.req)))) BY <2>1, <2>2, <2>4, TailSaves
  <2> QED BY <1>2, <2>1, <2>3, <2>5
<1>6. ASSUME desk' = desk PROVE Goal
  <2>1. CASE desk = Idle BY <1>1, <1>6, <2>1
  <2>2. CASE desk # Idle BY <1>2, <1>6, <2>2 DEF Sited
  <2> QED BY <2>1, <2>2
<1>7. Goal
  BY <1>1, <1>3, <1>4, <1>5, <1>6, StepCases DEF RunStops, MarkRefused, MarkComplete, Clients
<1> QED BY <1>7 DEF Body

LEMMA SitedStep == ASSUME SitesAgree, Fits, Fits', RunSound, Recorded, Sited, PNext PROVE Sited'
<1>1. \A m \in Members : \A g \in Grants(seats'[m]) : \A b \in g.buildings : BuildingSite[b] = GrantSite(g)
  BY SeatsStaySited
<1>2. ASSUME NEW r \in ReqIds, Exists(r)' PROVE \A b \in Body(r)'.buildings : BuildingSite[b] = RequestSite(Body(r)')
  <2>1. CASE Exists(r) /\ Body(r)' = Body(r) BY <2>1 DEF Sited
  <2>2. CASE Body(r)' \in Inputs BY <2>2 DEF SitesAgree
  <2> QED BY <1>2, <2>1, <2>2, BodyFrom
<1>3. \A m \in Members, s \in RealSites :
         kindoo'[m][s] # NoUser => kindoo'[m][s].rules \cap Buildings \subseteq Located(s)
  BY RostersStaySited
<1> QED BY <1>1, <1>2, <1>3, RunsStaySited DEF Sited

-----------------------------------------------------------------------------
(* Nothing left over: one remove at a time, and runs that read no seat     *)
(* before its trigger.                                                     *)

\* Of a member that no run read too early one remove at most waits for its
\* trigger, and none while a run of the member's has its request to complete.
Serial ==
    ~past.lagged =>
        /\ \A r \in ReqIds, q \in ReqIds :
              Awaited(r) /\ Awaited(q) /\ Body(r).member = Body(q).member => r = q
        /\ desk # Idle /\ ~HasStatus(desk.req, "complete") => ~Undelivered(Body(desk.req).member)

\* So the seat stays as the run read it.
Exact ==
    ~past.lagged /\ ~HasStatus(desk.req, "complete") =>
        /\ desk.phase = "lookup" => desk.target = Wanted(desk.req)
        /\ desk.phase = "writing" => Saves(desk.todo, Wanted(desk.req))

\* An edit or a remove revokes every rule that is not wanted.
Narrow ==
    /\ desk.phase = "writing" /\ ~past.lagged /\ AtDesk # NoUser
    /\ Body(desk.req).type \notin AddTypes /\ ~HasStatus(desk.req, "complete")
    => \A b \in AtDesk.rules \cap Buildings : b \in Wanted(desk.req) \/ Offers(desk.todo, "revoke", b)

\* A run began to grant the building, and its request is still to complete.
Begun(m, s, b) ==
    \E r \in ReqIds :
        /\ r \in past.tried /\ HasStatus(r, "pending")
        /\ Body(r).type # "remove" /\ Body(r).member = m /\ RequestSite(Body(r)) = s
        /\ b \in Body(r).buildings

\* The seat grants the building, and no trigger to come takes it.
Kept(m, s, b) ==
    /\ b \in CurrentSeatBuildings(seats[m], s)
    /\ \A r \in ReqIds : Awaited(r) /\ Body(r).member = m => RequestSite(Body(r)) # s \/ b \in Wanted(r)

Holds(m, s, b) == kindoo[m][s] # NoUser /\ b \in kindoo[m][s].rules \cap Buildings

Leftover ==
    Clean /\ ~beside /\ ~past.lagged => \A m \in Members, s \in RealSites, b \in Buildings :
        Holds(m, s, b) => Begun(m, s, b) \/ Kept(m, s, b)

\* What a step does to the removes that wait for their triggers.
LEMMA AwaitedFrom ==
    ASSUME Fits, PNext, NEW r \in ReqIds, Awaited(r)'
    PROVE  /\ Exists(r) /\ Body(r)' = Body(r)
           /\ Awaited(r) \/ (r = desk.req /\ HasStatus(r, "pending") /\ \E a \in BOOLEAN : MarkComplete(a))
<1>1. HasStatus(r, "complete")' /\ Body(r)'.type = "remove" /\ deliveries'[r] = 0 BY DEF Awaited
<1>2. HasStatus(r, "complete") => Exists(r) BY DEF HasStatus
<1>3. CASE HasStatus(r, "complete")
  <2>1. Body(r)' = Body(r) BY <1>2, <1>3, StatusStays
  <2>2. deliveries[r] = 0
    <3>1. TypeOK BY DEF Fits, SeatsSound
    <3>2. CASE deliveries'[r] = deliveries[r] BY <1>1, <3>2
    <3>3. ASSUME NEW q \in ReqIds, SeatTrigger(q) PROVE deliveries[r] = 0
      <4>1. deliveries' = [deliveries EXCEPT ![q] = @ + 1] BY <3>3, TriggerDoes
      <4>2. deliveries \in [ReqIds -> Nat] BY <3>1 DEF TypeOK
      <4> QED BY <1>1, <4>1, <4>2
    <3> QED BY <3>2, <3>3, StatusStays
  <2> QED BY <1>1, <1>2, <1>3, <2>1, <2>2 DEF Awaited
<1>4. CASE ~HasStatus(r, "complete")
  <2>1. HasStatus(r, "pending") /\ r = desk.req /\ \E a \in BOOLEAN : MarkComplete(a)
    BY <1>1, <1>4, StatusStays
  <2>2. Exists(r) BY <2>1 DEF HasStatus
  <2> QED BY <2>1, <2>2, StatusStays
<1> QED BY <1>3, <1>4

LEMMA LaggedStays == ASSUME Recorded, PNext, ~past'.lagged PROVE ~past.lagged
BY PastIs, StepCases

\* Whose run the desk has after a step.
LEMMA DeskFrom ==
    ASSUME PNext, desk' # Idle
    PROVE  \/ desk # Idle /\ desk'.req = desk.req
           \/ \E r \in ReqIds : StartRun(r) /\ desk'.req = r
<1>1. ASSUME NEW r \in ReqIds, StartRun(r) PROVE desk'.req = r BY <1>1 DEF StartRun
<1>2. ASSUME NEW a \in BOOLEAN, KindooCall(a) PROVE desk # Idle /\ desk'.req = desk.req
  BY <1>2 DEF KindooCall, Idle
<1>3. ASSUME NEW a \in BOOLEAN, MarkComplete(a) PROVE desk # Idle /\ desk'.req = desk.req
  BY <1>3 DEF MarkComplete, Idle
<1>4. ASSUME LookupUser PROVE desk # Idle /\ desk'.req = desk.req BY <1>4 DEF LookupUser, Idle
<1>5. ASSUME RunStops \/ MarkRefused PROVE FALSE BY <1>5 DEF RunStops, MarkRefused
<1>6. ASSUME Clients PROVE desk # Idle /\ desk'.req = desk.req BY <1>6 DEF Clients
<1> QED BY <1>1, <1>2, <1>3, <1>4, <1>5, <1>6, StepCases

LEMMA SerialStep == ASSUME Fits, Fits', Recorded, Serial, PNext PROVE Serial'
<1> SUFFICES ASSUME ~past'.lagged PROVE Serial'
  BY DEF Serial
<1>1. ~past.lagged BY LaggedStays
<1>2. ASSUME NEW r \in ReqIds, NEW q \in ReqIds, Awaited(r)', Awaited(q)', Body(r)'.member = Body(q)'.member, r # q
      PROVE  FALSE
  <2>1. Body(r)' = Body(r) /\ Body(q)' = Body(q) BY <1>2, AwaitedFrom
  <2>2. ASSUME NEW x \in ReqIds, NEW y \in ReqIds, Awaited(x), y = desk.req, HasStatus(y, "pending"),
               \E a \in BOOLEAN : MarkComplete(a), Body(x).member = Body(y).member
        PROVE  FALSE
    <3>1. desk # Idle /\ ~HasStatus(desk.req, "complete") BY <2>2 DEF MarkComplete, Idle, HasStatus
    <3>2. ~Undelivered(Body(desk.req).member) BY <1>1, <3>1 DEF Serial
    <3> QED BY <2>2, <3>2 DEF Undelivered
  <2>3. CASE Awaited(r) /\ Awaited(q) BY <1>1, <1>2, <2>1, <2>3 DEF Serial
  <2>4. CASE ~Awaited(r)
    <3>1. r = desk.req /\ HasStatus(r, "pending") /\ \E a \in BOOLEAN : MarkComplete(a) BY <1>2, <2>4, AwaitedFrom
    <3>2. Awaited(q) BY <1>2, <3>1, AwaitedFrom
    <3> QED BY <1>2, <2>1, <2>2, <3>1, <3>2
  <2>5. CASE ~Awaited(q)
    <3>1. q = desk.req /\ HasStatus(q, "pending") /\ \E a \in BOOLEAN : MarkComplete(a) BY <1>2, <2>5, AwaitedFrom
    <3>2. Awaited(r) BY <1>2, <3>1, AwaitedFrom
    <3> QED BY <1>2, <2>1, <2>2, <3>1, <3>2
  <2> QED BY <2>3, <2>4, <2>5
<1>3. ASSUME NEW q \in ReqIds, q = desk'.req, desk' # Idle, ~HasStatus(q, "complete")',
             NEW x \in ReqIds, Awaited(x)', Body(x)'.member = Body(q)'.member
      PROVE  FALSE
  <2>1. Body(x)' = Body(x) /\ Exists(x) BY <1>3, AwaitedFrom
  <2>2. CASE \E r \in ReqIds : StartRun(r) /\ q = r
    <3>1. past'.lagged = (past.lagged \/ Undelivered(Body(q).member)) BY <2>2, PastIs
    <3>4. UNCHANGED vars BY <2>2 DEF StartRun
    <3>2. ~Undelivered(Body(q).member) BY <3>1
    <3>3. Awaited(x) /\ Body(x).member = Body(q).member
      BY <1>3, <3>4 DEF Awaited, HasStatus, Exists, Body, vars
    <3> QED BY <3>2, <3>3 DEF Undelivered
  <2>3. CASE desk # Idle /\ q = desk.req
    <3>1. Exists(q) BY <2>3 DEF Fits, Running
    <3>2. Body(q)' = Body(q) /\ ~HasStatus(q, "complete") BY <1>3, <3>1, StatusStays
    <3>3. ~Undelivered(Body(q).member) BY <1>1, <2>3, <3>2 DEF Serial
    <3>4. ~Awaited(x) BY <1>3, <2>1, <3>2, <3>3 DEF Undelivered
    <3>5. x = q BY <1>3, <2>3, <3>4, AwaitedFrom
    <3> QED BY <1>3, <3>5 DEF Awaited
  <2> QED BY <1>3, <2>2, <2>3, DeskFrom
<1>4. ASSUME desk' # Idle, ~HasStatus(desk.req, "complete")' PROVE ~Undelivered(Body(desk.req).member)'
  <2>1. desk'.req \in ReqIds BY <1>4 DEF Fits, Running
  <2> PICK q \in ReqIds : q = desk'.req BY <2>1
  <2>2. ~HasStatus(q, "complete")' BY <1>4 DEF HasStatus, Exists
  <2>3. \A x \in ReqIds : ~(Awaited(x)' /\ Body(x)'.member = Body(q)'.member) BY <1>3, <1>4, <2>2
  <2>4. Body(desk.req)' = Body(q)' BY DEF Body
  <2> QED BY <2>3, <2>4 DEF Undelivered
<1> QED BY <1>2, <1>4 DEF Serial

\* No trigger touches the seat of the desk's member while the run's request is
\* to complete.
LEMMA DeskSeatStays ==
    ASSUME MaxDeliveries = 1, Fits, Serial, ~past.lagged, Clients, desk # Idle, ~HasStatus(desk.req, "complete")
    PROVE  /\ desk' = desk /\ kindoo' = kindoo /\ past' = past /\ desk.req \in ReqIds /\ Exists(desk.req)
           /\ requests'[desk.req].body = Body(desk.req)
           /\ seats'[Body(desk.req).member] = seats[Body(desk.req).member]
<1>1. desk' = desk /\ kindoo' = kindoo /\ past' = past BY ClientsDo
<1>2. desk.req \in ReqIds /\ Exists(desk.req) /\ TypeOK BY DEF Fits, Running, SeatsSound
<1> PICK r \in ReqIds : r = desk.req BY <1>2
<1>3. Body(r).member \in Members BY <1>2, BodyType
<1>4. ASSUME NEW q \in ReqIds, SeatTrigger(q) PROVE Body(q).member # Body(r).member /\ Stands(r)
  <2>1. /\ HasStatus(q, "complete") /\ Body(q).type = "remove" /\ deliveries[q] < MaxDeliveries
        /\ Stands(r)
    BY <1>4, TriggerDoes
  <2>2. deliveries[q] \in 0..MaxDeliveries BY <1>2 DEF TypeOK
  <2>3. Awaited(q) BY <2>1, <2>2 DEF Awaited
  <2>4. ~Undelivered(Body(r).member) BY DEF Serial
  <2> QED BY <2>1, <2>3, <2>4 DEF Undelivered
<1>5. seats'[Body(r).member] = seats[Body(r).member]
  <2>1. ASSUME NEW q \in ReqIds, SeatTrigger(q) PROVE seats'[Body(r).member] = seats[Body(r).member]
    BY <1>3, <1>4, <2>1, TriggerDoes
  <2> QED BY <2>1, ClientsDo
<1>6. Body(r)' = Body(r)
  <2>1. ASSUME NEW q \in ReqIds, SeatTrigger(q) PROVE Body(r)' = Body(r) BY <1>4, <2>1 DEF Stands
  <2>2. ASSUME NEW q \in ReqIds, \A x \in ReqIds \ {q} : requests'[x] = requests[x],
               ~Exists(q) \/ Body(q)' = Body(q)
        PROVE  Body(r)' = Body(r)
    BY <1>2, <2>2 DEF Body
  <2> QED BY <2>1, <2>2, ClientsDo
<1> QED BY <1>1, <1>2, <1>5, <1>6 DEF Body

\* While the desk works at Kindoo no document changes.
LEMMA DeskOnly ==
    ASSUME LookupUser \/ \E a \in BOOLEAN : KindooCall(a), NEW r
    PROVE  /\ UNCHANGED vars /\ desk # Idle
           /\ requests'[r].body = Body(r) /\ Wanted(r)' = Wanted(r) /\ Body(r)' = Body(r)
           /\ \A status : HasStatus(r, status)' <=> HasStatus(r, status)
<1>1. LookupUser => UNCHANGED vars /\ desk.phase = "lookup" BY DEF LookupUser
<1>2. (\E a \in BOOLEAN : KindooCall(a)) => UNCHANGED vars /\ desk.phase = "writing" BY DEF KindooCall
<1>3. UNCHANGED vars /\ desk # Idle BY <1>1, <1>2 DEF Idle
<1> QED BY <1>3 DEF Wanted, Body, HasStatus, Exists, vars

\* A run that may end by a completion ends with it.
LEMMA MarkedIs ==
    ASSUME Fits, NEW a \in BOOLEAN, MarkComplete(a), desk' # Idle
    PROVE  desk' = desk /\ HasStatus(desk.req, "complete")'
<1>1. CompleteRequest(desk.req) /\ desk # Idle /\ desk' = desk BY DEF MarkComplete, Idle
<1>2. desk.req \in ReqIds BY <1>1 DEF Fits, Running
<1> PICK r \in ReqIds : r = desk.req BY <1>2
<1>3. HasStatus(r, "complete")' BY <1>1, CompletionDoes
<1>4. requests'[desk.req] # NoRequest /\ requests'[desk.req].status = "complete"
  BY <1>3 DEF HasStatus, Exists
<1> QED BY <1>1, <1>4 DEF HasStatus, Exists

LEMMA ExactStep == ASSUME MaxDeliveries = 1, Fits, RunSound, Recorded, Serial, Exact, PNext PROVE Exact'
<1> SUFFICES ASSUME ~past'.lagged, ~HasStatus(desk.req, "complete")' PROVE Exact'
  BY DEF Exact
<1>1. ~past.lagged BY LaggedStays
<1>2. ASSUME desk' = Idle PROVE Exact' BY <1>2 DEF Exact, Idle
<1>3. ASSUME NEW r \in ReqIds, StartRun(r) PROVE Exact'
  <2>1. desk'.phase = "lookup" /\ desk'.req = r /\ desk'.target = Wanted(r) /\ UNCHANGED vars
    BY <1>3 DEF StartRun, Wanted
  <2>2. Wanted(r)' = Wanted(r) BY <2>1 DEF Wanted, Body, vars
  <2> QED BY <2>1, <2>2 DEF Exact
<1>4. ASSUME LookupUser, desk' # Idle PROVE Exact'
  <2>1. desk'.phase = "writing" /\ desk'.req = desk.req /\ Saves(desk'.todo, desk.target) BY <1>4, LookupSaves
  <2> PICK r : r = desk.req OBVIOUS
  <2>2. Wanted(r)' = Wanted(r) /\ (HasStatus(r, "complete")' <=> HasStatus(r, "complete"))
    BY <1>4, DeskOnly
  <2>3. ~HasStatus(r, "complete") BY <2>1, <2>2 DEF HasStatus, Exists
  <2>4. desk.target = Wanted(r) BY <1>1, <1>4, <2>3, LookupCases DEF Exact
  <2> QED BY <2>1, <2>2, <2>4 DEF Exact
<1>5. ASSUME NEW a \in BOOLEAN, KindooCall(a), desk' # Idle PROVE Exact'
  <2>1. desk.phase = "writing" /\ desk.todo # <<>> /\ desk' = [desk EXCEPT !.todo = Tail(@)]
    BY <1>5 DEF KindooCall
  <2>2. desk \in [phase : {"writing"}, req : ReqIds, todo : Seq(Call)] BY <2>1, RunIs DEF RunSound
  <2>3. desk'.phase = "writing" /\ desk'.req = desk.req /\ desk'.todo = Tail(desk.todo) BY <2>1, <2>2
  <2> PICK r : r = desk.req OBVIOUS
  <2>4. Wanted(r)' = Wanted(r) /\ (HasStatus(r, "complete")' <=> HasStatus(r, "complete"))
    BY <1>5, DeskOnly
  <2>5. ~HasStatus(r, "complete") BY <2>3, <2>4 DEF HasStatus, Exists
  <2>6. Saves(desk.todo, Wanted(r)) BY <1>1, <2>1, <2>5 DEF Exact
  <2>7. Saves(Tail(desk.todo), Wanted(r)) BY <2>1, <2>2, <2>6, TailSaves
  <2> QED BY <2>3, <2>4, <2>7 DEF Exact
<1>6. ASSUME NEW a \in BOOLEAN, MarkComplete(a), desk' # Idle PROVE FALSE
  BY <1>6, MarkedIs DEF HasStatus, Exists
<1>7. ASSUME Clients, desk' # Idle PROVE Exact'
  <2>1. desk' = desk /\ desk # Idle BY <1>7 DEF Clients
  <2>2. desk.req \in ReqIds BY <2>1 DEF Fits, Running
  <2> PICK r \in ReqIds : r = desk.req BY <2>2
  <2>3. HasStatus(r, "complete")' <=> HasStatus(desk.req, "complete")' BY <2>1 DEF HasStatus, Exists
  <2>4. ~HasStatus(r, "complete") BY <2>3, StatusStays
  <2>5. requests'[r].body = Body(r) /\ seats'[Body(r).member] = seats[Body(r).member]
    BY <1>1, <1>7, <2>1, <2>4, DeskSeatStays
  <2>6. Wanted(r)' = Wanted(r) BY <2>5 DEF Wanted, Body
  <2> QED BY <1>1, <2>1, <2>4, <2>6 DEF Exact
<1>8. ASSUME RunStops \/ MarkRefused PROVE desk' = Idle BY <1>8 DEF RunStops, MarkRefused
<1> QED BY <1>2, <1>3, <1>4, <1>5, <1>6, <1>7, <1>8, StepCases

LEMMA LookupNarrows ==
    ASSUME Fits, RunSound, Recorded, Sited, Exact, LookupUser, desk' # Idle, ~past.lagged,
           NEW r, r = desk.req, ~HasStatus(r, "complete"),
           AtDesk # NoUser, Body(r).type \notin AddTypes
    PROVE  \A b \in AtDesk.rules \cap Buildings : b \in Wanted(r) \/ Offers(desk'.todo, "revoke", b)
<1> DEFINE user == AtDesk
           target == desk.target
           names == desk.names
           req == Body(r)
<1>1. /\ desk # Idle /\ target \in SUBSET Buildings /\ names \in Seq(Scopes) /\ desk.phase = "lookup"
  BY LookupCases
<1>2. user \in User /\ req.member \in Members /\ RequestSite(req) \in RealSites BY <1>1, AtDeskType
<1>3. PICK todo, doors : /\ desk' = [phase |-> "writing", req |-> r, todo |-> todo]
                         /\ Decided(todo, req, user, target, names, doors)
  BY LookupCases
<1>4. target = Wanted(r) BY <1>1 DEF Exact
<1>5. user.rules \cap Buildings \subseteq Located(RequestSite(req)) BY <1>2 DEF Sited, AtDesk
<1>6. user # NoUser /\ req.type \notin AddTypes OBVIOUS
<1> HIDE DEF user, target, names, req
<1>7. ASSUME NEW b \in user.rules, b \in Buildings PROVE b \in target \/ Offers(todo, "revoke", b)
  <2>1. CASE todo = EditCalls(req, user, target, names, doors)
    BY <1>1, <1>2, <1>3, <1>7, <2>1, EditCallsAre
  <2>2. CASE todo = RemoveCalls(req, user, target, names)
    BY <1>1, <1>2, <1>5, <1>6, <1>7, <2>2, RemoveCallsAre
  <2> QED BY <1>3, <1>6, <2>1, <2>2 DEF Decided
<1> QED BY <1>3, <1>4, <1>7 DEF user, target

LEMMA CallNarrows ==
    ASSUME Fits, RunSound, Exact, Narrow, NEW a \in BOOLEAN, KindooCall(a), desk' # Idle, ~past.lagged,
           NEW r, r = desk.req, ~HasStatus(r, "complete"), Body(r).type \notin AddTypes,
           AtDesk' # NoUser, NEW b \in AtDesk'.rules \cap Buildings
    PROVE  b \in Wanted(r) \/ Offers(desk'.todo, "revoke", b)
<1> DEFINE call == Head(desk.todo)
           rest == Tail(desk.todo)
           req == Body(r)
<1>1. desk.phase = "writing" /\ desk.todo # <<>> /\ desk' = [desk EXCEPT !.todo = rest] /\ UNCHANGED vars
  BY DEF KindooCall
<1>2. desk \in [phase : {"writing"}, req : ReqIds, todo : Seq(Call)] BY <1>1, RunIs DEF RunSound
<1>3. desk'.req = r /\ desk'.todo = rest BY <1>1, <1>2
<1>4. /\ call \in Call /\ AtDesk \in User \cup {NoUser}
      /\ kindoo'[req.member][RequestSite(req)] = Effect(AtDesk, call)
  BY CallLands
<1>5. AtDesk' = Effect(AtDesk, call) BY <1>1, <1>3, <1>4 DEF AtDesk, Body, vars
<1>6. /\ AtDesk # NoUser
      /\ b \in AtDesk.rules \/ (call.kind = "save" /\ b \in call.rules)
      /\ call.kind = "revoke" => b \notin call.rules
  BY <1>4, <1>5, EffectGives
<1>7. call.kind = "save" => call.rules \subseteq Wanted(r)
  <2>1. Saves(desk.todo, Wanted(r)) BY <1>1 DEF Exact
  <2> QED BY <1>1, <1>2, <2>1, TailSaves
<1>8. CASE b \in AtDesk.rules /\ b \notin Wanted(r)
  <2>1. Offers(desk.todo, "revoke", b) BY <1>1, <1>6, <1>8 DEF Narrow
  <2>2. Len(desk.todo) \in Nat \ {0} BY <1>1, <1>2, EmptySeq
  <2>3. /\ call = desk.todo[1] /\ Len(rest) = Len(desk.todo) - 1
        /\ \A i \in 1..Len(rest) : rest[i] = desk.todo[i + 1]
    BY <1>2, <2>2, HeadTailProperties
  <2>4. PICK i \in 1..Len(desk.todo) : desk.todo[i].kind = "revoke" /\ b \in desk.todo[i].rules
    BY <2>1 DEF Offers
  <2>5. i # 1 BY <1>6, <2>3, <2>4
  <2> HIDE DEF rest
  <2>6. i - 1 \in 1..Len(rest) /\ (i - 1) + 1 = i BY <2>2, <2>3, <2>5
  <2>7. Offers(rest, "revoke", b) BY <2>3, <2>4, <2>6 DEF Offers
  <2> QED BY <1>3, <2>7
<1> QED BY <1>6, <1>7, <1>8

LEMMA NarrowStep ==
    ASSUME MaxDeliveries = 1, Fits, RunSound, Recorded, Sited, Serial, Exact, Narrow, PNext
    PROVE  Narrow'
<1> SUFFICES ASSUME desk'.phase = "writing", ~past'.lagged, AtDesk' # NoUser,
                    Body(desk.req)'.type \notin AddTypes, ~HasStatus(desk.req, "complete")',
                    NEW b \in AtDesk'.rules \cap Buildings
             PROVE  b \in Wanted(desk.req)' \/ Offers(desk'.todo, "revoke", b)
  BY DEF Narrow
<1>1. ~past.lagged /\ desk' # Idle
  <2>1. desk' # Idle BY DEF Idle
  <2> QED BY <2>1, LaggedStays
<1>2. ASSUME NEW r \in ReqIds, StartRun(r) PROVE FALSE
  <2>1. desk'.phase = "lookup" BY <1>2 DEF StartRun
  <2> QED BY <2>1
<1>3. ASSUME LookupUser PROVE b \in Wanted(desk.req)' \/ Offers(desk'.todo, "revoke", b)
  <2>1. desk'.req = desk.req /\ kindoo' = kindoo BY <1>1, <1>3, LookupSaves, LookupCases
  <2> PICK r : r = desk.req OBVIOUS
  <2>2. /\ Wanted(r)' = Wanted(r) /\ Body(r)' = Body(r)
        /\ HasStatus(r, "complete")' <=> HasStatus(r, "complete")
    BY <1>3, DeskOnly
  <2>3. AtDesk' = AtDesk BY <2>1, <2>2 DEF AtDesk, Body
  <2>4. ~HasStatus(r, "complete") /\ Body(r).type \notin AddTypes
    BY <2>1, <2>2 DEF HasStatus, Exists, Body
  <2>5. b \in Wanted(r) \/ Offers(desk'.todo, "revoke", b) BY <1>1, <1>3, <2>3, <2>4, LookupNarrows
  <2> QED BY <2>1, <2>2, <2>5 DEF Wanted, Body
<1>4. ASSUME NEW a \in BOOLEAN, KindooCall(a) PROVE b \in Wanted(desk.req)' \/ Offers(desk'.todo, "revoke", b)
  <2>1. desk'.req = desk.req
    <3>1. desk.phase = "writing" /\ desk' = [desk EXCEPT !.todo = Tail(@)] BY <1>1, <1>4 DEF KindooCall
    <3>2. desk \in [phase : {"writing"}, req : ReqIds, todo : Seq(Call)] BY <3>1, RunIs DEF RunSound
    <3> QED BY <3>1, <3>2
  <2> PICK r : r = desk.req OBVIOUS
  <2>2. /\ Wanted(r)' = Wanted(r) /\ Body(r)' = Body(r)
        /\ HasStatus(r, "complete")' <=> HasStatus(r, "complete")
    BY <1>4, DeskOnly
  <2>3. ~HasStatus(r, "complete") /\ Body(r).type \notin AddTypes
    BY <2>1, <2>2 DEF HasStatus, Exists, Body
  <2>4. b \in Wanted(r) \/ Offers(desk'.todo, "revoke", b) BY <1>1, <1>4, <2>3, CallNarrows
  <2> QED BY <2>1, <2>2, <2>4 DEF Wanted, Body
<1>5. ASSUME NEW a \in BOOLEAN, MarkComplete(a) PROVE FALSE
  BY <1>1, <1>5, MarkedIs
<1>6. ASSUME RunStops \/ MarkRefused PROVE FALSE BY <1>1, <1>6 DEF RunStops, MarkRefused
<1>7. ASSUME Clients PROVE b \in Wanted(desk.req)' \/ Offers(desk'.todo, "revoke", b)
  <2>1. desk' = desk /\ desk # Idle BY <1>1, <1>7 DEF Clients
  <2>2. desk.req \in ReqIds BY <2>1 DEF Fits, Running
  <2> PICK r \in ReqIds : r = desk.req BY <2>2
  <2>3. HasStatus(r, "complete")' <=> HasStatus(desk.req, "complete")' BY <2>1 DEF HasStatus, Exists
  <2>4. ~HasStatus(r, "complete") BY <2>3, StatusStays
  <2>5. requests'[r].body = Body(r) /\ seats'[Body(r).member] = seats[Body(r).member] /\ kindoo' = kindoo
    BY <1>1, <1>7, <2>1, <2>4, DeskSeatStays
  <2>6. Wanted(r)' = Wanted(r) /\ Body(r)' = Body(r) BY <2>5 DEF Wanted, Body
  <2>7. AtDesk' = AtDesk BY <2>1, <2>5, <2>6 DEF AtDesk, Body
  <2>8. Body(r).type \notin AddTypes BY <2>1, <2>6 DEF Body
  <2>9. b \in Wanted(r) \/ Offers(desk.todo, "revoke", b) BY <1>1, <2>1, <2>4, <2>7, <2>8 DEF Narrow
  <2> QED BY <2>1, <2>6, <2>9 DEF Wanted, Body
<1> QED BY <1>2, <1>3, <1>4, <1>5, <1>6, <1>7, StepCases

LEMMA LeftoverInit == ASSUME PInit PROVE Serial /\ Exact /\ Narrow /\ Leftover
<1>1. \A r \in ReqIds : ~Awaited(r) BY DEF PInit, Init, Awaited, HasStatus, Exists
<1>2. desk = Idle /\ desk.phase \notin {"lookup", "writing"} BY DEF PInit, Idle
<1>3. ASSUME NEW m \in Members, NEW s \in RealSites, NEW b \in Buildings, Holds(m, s, b) PROVE Kept(m, s, b)
  <2>1. b \in CurrentSeatBuildings(seats[m], s) BY <1>3 DEF Holds, PInit, InStep
  <2> QED BY <1>1, <2>1 DEF Kept
<1> QED BY <1>1, <1>2, <1>3 DEF Serial, Exact, Narrow, Leftover

\* A request that did not change and waits as it did keeps what it began.
LEMMA BegunStays ==
    ASSUME NEW m, NEW s, NEW b, NEW r \in ReqIds, r \in past.tried, HasStatus(r, "pending"),
           Body(r).type # "remove", Body(r).member = m, RequestSite(Body(r)) = s, b \in Body(r).buildings,
           past.tried \subseteq past'.tried, HasStatus(r, "pending")', Body(r)' = Body(r)
    PROVE  Begun(m, s, b)'
<1>1. r \in past'.tried OBVIOUS
<1> QED BY <1>1 DEF Begun

LEMMA CallLeftover ==
    ASSUME Fits, RunSound, Recorded, Serial, Exact, Leftover, Clean, Clean', ~beside, ~past.lagged,
           NEW answered \in BOOLEAN, KindooCall(answered),
           NEW m \in Members, NEW s \in RealSites, NEW b \in Buildings, Holds(m, s, b)'
    PROVE  (Begun(m, s, b) \/ Kept(m, s, b))'
<1>1. desk.phase = "writing" /\ desk.todo # <<>> /\ desk # Idle /\ UNCHANGED vars BY DEF KindooCall, Idle
<1>2. /\ past'.tried = past.tried \cup {desk.req}
      /\ past'.again = (past.again \/ HasStatus(desk.req, "complete"))
  BY PastIs
<1>3. /\ Kept(m, s, b)' <=> Kept(m, s, b)
      /\ \A r : Body(r)' = Body(r) /\ \A status : HasStatus(r, status)' <=> HasStatus(r, status)
  BY <1>1 DEF Kept, Awaited, Body, Wanted, HasStatus, Exists, vars
<1>4. Begun(m, s, b) => Begun(m, s, b)' BY <1>2, <1>3 DEF Begun
<1>5. CASE Holds(m, s, b) BY <1>3, <1>4, <1>5 DEF Leftover
<1>6. CASE ~Holds(m, s, b)
  <2>1. desk.req \in ReqIds BY <1>1 DEF Fits, Running
  <2> PICK r \in ReqIds : r = desk.req BY <2>1
  <2> DEFINE call == Head(desk.todo)
             req == Body(r)
  <2>2. /\ call \in Call /\ AtDesk \in User \cup {NoUser}
        /\ kindoo'[m][s] = IF m = req.member /\ s = RequestSite(req) THEN Effect(AtDesk, call) ELSE kindoo[m][s]
    BY CallLands
  <2>3. m = req.member /\ s = RequestSite(req) /\ kindoo[m][s] = AtDesk BY <1>6, <2>2 DEF Holds, AtDesk
  <2>4. call.kind = "save" /\ b \in call.rules BY <1>6, <2>2, <2>3, EffectGives DEF Holds
  <2>5. ~HasStatus(r, "complete") BY <1>2 DEF Clean
  <2>6. b \in Wanted(r)
    <3>1. desk.todo \in Seq(Call) BY <1>1, RunIs DEF RunSound
    <3>2. Saves(desk.todo, Wanted(r)) BY <1>1, <2>5 DEF Exact
    <3> QED BY <1>1, <2>4, <3>1, <3>2, TailSaves
  <2>7. Listed(req) /\ seats[req.member] \in Seat \cup {NoSeat} /\ InPlace(seats[req.member])
    BY <1>1, AtDeskType DEF Fits, Orderly
  <2>8. b \in CurrentSeatBuildings(seats[m], s) \/ (req.type # "remove" /\ b \in req.buildings)
    BY <2>3, <2>6, <2>7, TargetFrom DEF Wanted
  <2>9. CASE req.type # "remove" /\ b \in req.buildings
    <3>1. r \in past'.tried /\ HasStatus(r, "pending")' BY <1>2, <1>3, <2>5 DEF Clean
    <3> QED BY <1>3, <2>3, <2>9, <3>1 DEF Begun
  <2>10. CASE b \in CurrentSeatBuildings(seats[m], s)
    <3>1. ~Undelivered(m) BY <1>1, <2>3, <2>5 DEF Serial
    <3>2. Kept(m, s, b) BY <2>10, <3>1 DEF Kept, Undelivered
    <3> QED BY <1>3, <3>2
  <2> QED BY <2>8, <2>9, <2>10
<1> QED BY <1>5, <1>6

LEMMA MarkLeftover ==
    ASSUME Fits, Fits', RunSound, Recorded, Sited, Serial, Narrow, Leftover, Clean, ~beside, ~past.lagged,
           PNext, NEW answered \in BOOLEAN, MarkComplete(answered),
           NEW m \in Members, NEW s \in RealSites, NEW b \in Buildings, Holds(m, s, b)'
    PROVE  (Begun(m, s, b) \/ Kept(m, s, b))'
<1>1. /\ desk.phase = "writing" /\ desk.todo = <<>> /\ desk # Idle /\ kindoo' = kindoo
      /\ CompleteRequest(desk.req)
  BY DEF MarkComplete, Idle
<1>2. past'.tried = past.tried BY PastIs
<1>3. desk.req \in ReqIds BY <1>1 DEF Fits, Running
<1> PICK q \in ReqIds : q = desk.req BY <1>3
<1> DEFINE req == Body(q)
           site == RequestSite(req)
           old == seats[req.member]
           new == seats'[req.member]
<1>4. /\ HasStatus(q, "pending") /\ Completable(q) /\ HasStatus(q, "complete")' /\ Body(q)' = req
      /\ Listed(req) /\ req.member \in Members /\ site \in RealSites
      /\ \A r \in ReqIds \ {q} : requests'[r] = requests[r]
      /\ \A p \in Members \ {req.member} : seats'[p] = seats[p]
      /\ req.type = "remove" => seats' = seats
      /\ req.type # "remove" => new = SeatAfter(q) /\ Reaches(old, new, req)
  BY <1>1, CompletionDoes
<1>5. /\ InPlace(old) /\ old \in Seat \cup {NoSeat} /\ InPlace(new) /\ new \in Seat \cup {NoSeat}
  BY <1>4 DEF Fits, Orderly, SeatsSound, TypeOK
<1>6. Holds(m, s, b) BY <1>1 DEF Holds
<1>7. Begun(m, s, b) \/ Kept(m, s, b) BY <1>6 DEF Leftover
<1>8. ~HasStatus(q, "complete") BY <1>4 DEF HasStatus
<1>9. ~Undelivered(req.member) BY <1>1, <1>8 DEF Serial
<1>10. ASSUME NEW r \in ReqIds, r # q, r \in past.tried, HasStatus(r, "pending"),
              Body(r).type # "remove", Body(r).member = m, RequestSite(Body(r)) = s, b \in Body(r).buildings
       PROVE  Begun(m, s, b)'
  <2>1. requests'[r] = requests[r] BY <1>4, <1>10
  <2>2. HasStatus(r, "pending")' /\ Body(r)' = Body(r) BY <1>10, <2>1 DEF HasStatus, Exists, Body
  <2> QED BY <1>2, <1>10, <2>2, BegunStays
<1>11. ASSUME Begun(m, s, b),
              ~(req.type # "remove" /\ m = req.member /\ s = site /\ b \in req.buildings)
       PROVE  Begun(m, s, b)'
  BY <1>10, <1>11 DEF Begun
<1>12. ASSUME NEW r \in ReqIds, Awaited(r)'
       PROVE  Body(r)' = Body(r) /\ (Awaited(r) \/ r = q)
  BY <1>12, AwaitedFrom
\* Narrow: what is left of the rules is wanted.
<1>13. ASSUME m = req.member, s = site, req.type \notin AddTypes PROVE b \in Wanted(q)
  <2>1. AtDesk # NoUser /\ b \in AtDesk.rules \cap Buildings BY <1>6, <1>13 DEF Holds, AtDesk
  <2>2. b \in Wanted(q) \/ Offers(<<>>, "revoke", b) BY <1>1, <1>8, <1>13, <2>1 DEF Narrow
  <2>3. ~Offers(<<>>, "revoke", b) BY NoGrants DEF Offers
  <2> QED BY <2>2, <2>3
<1>14. CASE m # req.member
  <2>1. seats'[m] = seats[m] BY <1>4, <1>14
  <2>2. CASE Begun(m, s, b) BY <1>11, <1>14, <2>2
  <2>3. CASE Kept(m, s, b)
    <3>1. b \in CurrentSeatBuildings(seats'[m], s) BY <2>1, <2>3 DEF Kept
    <3>2. ASSUME NEW r \in ReqIds, Awaited(r)', Body(r)'.member = m
          PROVE  RequestSite(Body(r)') # s \/ b \in Wanted(r)'
      <4>1. Body(r)' = Body(r) /\ Awaited(r) /\ Body(r).member = m BY <1>12, <1>14, <3>2
      <4>2. Wanted(r)' = Wanted(r) BY <2>1, <4>1 DEF Wanted
      <4> QED BY <2>3, <4>1, <4>2 DEF Kept
    <3> QED BY <3>1, <3>2 DEF Kept
  <2> QED BY <1>7, <2>2, <2>3
<1>15. CASE m = req.member /\ req.type = "remove"
  <2>1. seats' = seats BY <1>4, <1>15
  <2>2. CASE Begun(m, s, b) BY <1>11, <1>15, <2>2
  <2>3. CASE Kept(m, s, b)
    <3>1. b \in CurrentSeatBuildings(seats'[m], s) BY <2>1, <2>3 DEF Kept
    <3>2. ASSUME NEW r \in ReqIds, Awaited(r)', Body(r)'.member = m
          PROVE  RequestSite(Body(r)') # s \/ b \in Wanted(r)'
      <4>1. r = q BY <1>9, <1>12, <1>15, <3>2 DEF Undelivered
      <4>2. Wanted(q)' = Wanted(q) BY <1>4, <2>1 DEF Wanted
      <4>3. req.type \notin AddTypes BY <1>15 DEF AddTypes
      <4>4. s = site => b \in Wanted(q) BY <1>13, <1>15, <4>3
      <4> QED BY <1>4, <4>1, <4>2, <4>4
    <3> QED BY <3>1, <3>2 DEF Kept
  <2> QED BY <1>7, <2>2, <2>3
<1>16. CASE m = req.member /\ req.type # "remove"
  <2>1. ASSUME NEW r \in ReqIds, Awaited(r)', Body(r)'.member = m PROVE FALSE
    <3>1. Body(r)'.type = "remove" BY <2>1 DEF Awaited
    <3>2. r # q BY <1>4, <1>16, <3>1
    <3> QED BY <1>9, <1>12, <1>16, <2>1, <3>2 DEF Undelivered
  <2>2. b \in CurrentSeatBuildings(seats'[m], s) => Kept(m, s, b)' BY <2>1 DEF Kept
  <2>3. CASE s # site
    <3>1. CurrentSeatBuildings(new, s) = CurrentSeatBuildings(old, s)
      BY <1>4, <1>5, <1>16, <2>3, ElsewhereGrants
    <3>2. Begun(m, s, b) => Begun(m, s, b)' BY <1>11, <2>3
    <3>3. Kept(m, s, b) => b \in CurrentSeatBuildings(seats'[m], s) BY <1>16, <3>1 DEF Kept
    <3> QED BY <1>7, <2>2, <3>2, <3>3
  <2>4. CASE s = site
    <3>1. ~Beside(old, req) BY <1>16 DEF Beside
    <3>2. PredictionsHold BY OrderlyPredicts DEF Fits
    <3>3. Wanted(q) = CurrentSeatBuildings(new, site)
      BY <1>4, <1>16, <3>1, <3>2 DEF PredictionsHold, Predicted, Wanted
    <3>4. req.buildings \subseteq Wanted(q) BY <1>4, <1>5, <1>16, AskedIsWanted DEF Wanted
    <3>5. Begun(m, s, b) => b \in Wanted(q) \/ Begun(m, s, b)' BY <1>11, <3>4
    <3>6. Kept(m, s, b) => b \in Wanted(q)
      <4>1. CASE req.type \in AddTypes
        <5>1. CurrentSeatBuildings(old, site) \subseteq Wanted(q) BY <4>1, AddKeeps DEF Wanted
        <5> QED BY <1>16, <2>4, <5>1 DEF Kept
      <4>2. CASE req.type \notin AddTypes BY <1>13, <1>16, <2>4, <4>2
      <4> QED BY <4>1, <4>2
    <3> QED BY <1>7, <1>16, <2>2, <2>4, <3>3, <3>5, <3>6
  <2> QED BY <2>3, <2>4
<1> QED BY <1>14, <1>15, <1>16

LEMMA TriggerLeftover ==
    ASSUME MaxDeliveries = 1, Fits, Fits', RunSound, Serial, Leftover, Clean, ~beside, ~BesideNow, ~past.lagged,
           PNext, Clients, NEW q \in ReqIds, SeatTrigger(q),
           NEW m \in Members, NEW s \in RealSites, NEW b \in Buildings, Holds(m, s, b)'
    PROVE  (Begun(m, s, b) \/ Kept(m, s, b))'
<1> DEFINE req == Body(q)
           site == RequestSite(req)
           old == seats[req.member]
           new == seats'[req.member]
<1>1. kindoo' = kindoo /\ past' = past BY DEF Clients
<1>2. /\ HasStatus(q, "complete") /\ req.type = "remove" /\ Listed(req) /\ req.member \in Members
      /\ deliveries' = [deliveries EXCEPT ![q] = @ + 1] /\ deliveries[q] < MaxDeliveries
      /\ \A r \in ReqIds : Stands(r)
      /\ \A p \in Members \ {req.member} : seats'[p] = seats[p]
      /\ new = IF old = NoSeat THEN NoSeat ELSE ApplyRemove(old, PlanRemove(old, req.scope, req.site))
  BY TriggerDoes
<1>3. TypeOK /\ InPlace(old) /\ old \in Seat \cup {NoSeat} BY <1>2 DEF Fits, Orderly, SeatsSound, TypeOK
<1>4. deliveries[q] = 0 /\ deliveries'[q] # 0
  <2>1. deliveries[q] \in 0..MaxDeliveries BY <1>3 DEF TypeOK
  <2> QED BY <1>2, <1>3, <2>1 DEF TypeOK
<1>5. Awaited(q) /\ ~Awaited(q)' BY <1>2, <1>4 DEF Awaited
<1>6. Begun(m, s, b) \/ Kept(m, s, b) BY <1>1 DEF Holds, Leftover
<1>7. Begun(m, s, b) => Begun(m, s, b)' BY <1>1, <1>2 DEF Begun, Stands, Statuses
<1>8. ASSUME NEW r \in ReqIds, Awaited(r)' PROVE Awaited(r) /\ Body(r)' = Body(r) /\ r # q
  <2>1. HasStatus(r, "complete") BY <1>2, <1>8 DEF Awaited, Stands, Statuses
  <2>2. ~HasStatus(r, "pending") BY <2>1 DEF HasStatus
  <2> QED BY <1>5, <1>8, <2>2, AwaitedFrom
<1>9. ASSUME Kept(m, s, b), m # req.member PROVE Kept(m, s, b)'
  <2>1. seats'[m] = seats[m] BY <1>2, <1>9
  <2>2. \A r \in ReqIds : Awaited(r)' /\ Body(r)'.member = m => Wanted(r)' = Wanted(r)
    BY <1>8, <2>1 DEF Wanted
  <2> QED BY <1>8, <1>9, <2>1, <2>2 DEF Kept
<1>10. ASSUME Kept(m, s, b), m = req.member PROVE Kept(m, s, b)'
  <2>1. \A r \in ReqIds : ~(Awaited(r)' /\ Body(r)'.member = m) BY <1>5, <1>8, <1>10 DEF Serial
  <2>2. b \in CurrentSeatBuildings(new, s)
    <3>1. ~Beside(old, req) BY <1>5 DEF BesideNow
    <3>2. CASE s = site
      <4>1. b \in Wanted(q) BY <1>5, <1>10, <3>2 DEF Kept
      <4>2. Target(old, req) = CurrentSeatBuildings(new, site) BY <1>2, <1>3, <3>1, RemovalPredicted
      <4> QED BY <3>2, <4>1, <4>2 DEF Wanted
    <3>3. CASE s # site
      <4>1. b \in CurrentSeatBuildings(old, s) BY <1>10 DEF Kept
      <4>2. CASE old = NoSeat BY <1>2, <4>1, <4>2
      <4>3. CASE old # NoSeat
        <5>1. CurrentSeatBuildings(new, s) = CurrentSeatBuildings(old, s)
          BY <1>2, <1>3, <3>1, <3>3, <4>3, RemoveElsewhere
        <5> QED BY <4>1, <5>1
      <4> QED BY <4>2, <4>3
    <3> QED BY <3>2, <3>3
  <2> QED BY <1>10, <2>1, <2>2 DEF Kept
<1> QED BY <1>6, <1>7, <1>9, <1>10

LEMMA ClientsLeftover ==
    ASSUME MaxDeliveries = 1, Fits, Fits', RunSound, Recorded, Serial, Leftover, Clean, Clean', ~beside, ~BesideNow,
           ~past.lagged, PNext, Clients,
           NEW m \in Members, NEW s \in RealSites, NEW b \in Buildings, Holds(m, s, b)'
    PROVE  (Begun(m, s, b) \/ Kept(m, s, b))'
<1>1. kindoo' = kindoo /\ past' = past BY ClientsDo
<1>2. ASSUME NEW q \in ReqIds, UNCHANGED <<seats, deliveries>>,
             \A r \in ReqIds \ {q} : requests'[r] = requests[r],
             ~Exists(q) \/ (HasStatus(q, "pending") /\ ~HasStatus(q, "pending")'),
             ~HasStatus(q, "complete")'
      PROVE  (Begun(m, s, b) \/ Kept(m, s, b))'
  <2>1. Begun(m, s, b) \/ Kept(m, s, b) BY <1>1 DEF Holds, Leftover
  <2>2. \A r \in ReqIds \ {q} : Body(r)' = Body(r) /\ \A status : HasStatus(r, status)' <=> HasStatus(r, status)
    BY <1>2 DEF Body, HasStatus, Exists
  <2>3. ASSUME NEW r \in ReqIds, r \in past.tried, HasStatus(r, "pending") PROVE r # q
    BY <1>1, <1>2, <2>3 DEF Clean, HasStatus
  <2>4. CASE Begun(m, s, b)
    <3>1. PICK r \in ReqIds : /\ r \in past.tried /\ HasStatus(r, "pending")
                              /\ Body(r).type # "remove" /\ Body(r).member = m /\ RequestSite(Body(r)) = s
                              /\ b \in Body(r).buildings
      BY <2>4 DEF Begun
    <3>2. r # q BY <2>3, <3>1
    <3>3. HasStatus(r, "pending")' /\ Body(r)' = Body(r) BY <2>2, <3>1, <3>2
    <3>4. Begun(m, s, b)' BY <1>1, <3>1, <3>3, BegunStays
    <3> QED BY <3>4
  <2>5. CASE Kept(m, s, b)
    <3>1. ASSUME NEW r \in ReqIds, Awaited(r)', Body(r)'.member = m
          PROVE  RequestSite(Body(r)') # s \/ b \in Wanted(r)'
      <4>1. r # q BY <1>2, <3>1 DEF Awaited
      <4>2. Body(r)' = Body(r) /\ Awaited(r) BY <1>2, <2>2, <3>1, <4>1 DEF Awaited
      <4>3. Wanted(r)' = Wanted(r) BY <1>2, <4>2 DEF Wanted
      <4> QED BY <2>5, <3>1, <4>2, <4>3 DEF Kept
    <3>2. b \in CurrentSeatBuildings(seats'[m], s) BY <1>2, <2>5 DEF Kept
    <3> QED BY <3>1, <3>2 DEF Kept
  <2> QED BY <2>1, <2>4, <2>5
<1> QED BY <1>2, ClientsDo, TriggerLeftover

LEMMA LeftoverStep ==
    ASSUME MaxDeliveries = 1, Fits, Fits', RunSound, Recorded, Sited, Serial, Exact, Narrow, Leftover,
           PNext
    PROVE  Leftover'
<1> SUFFICES ASSUME Clean', ~beside', ~past'.lagged,
                    NEW m \in Members, NEW s \in RealSites, NEW b \in Buildings, Holds(m, s, b)'
             PROVE  (Begun(m, s, b) \/ Kept(m, s, b))'
  BY DEF Leftover
<1>1. Clean /\ ~beside /\ ~BesideNow /\ ~past.lagged BY StillClean, LaggedStays
<1>2. ASSUME Quiet PROVE (Begun(m, s, b) \/ Kept(m, s, b))'
  <2>1. Begun(m, s, b) \/ Kept(m, s, b) BY <1>1, <1>2 DEF Leftover, Holds, Quiet
  <2>2. Begun(m, s, b) => Begun(m, s, b)'
    BY <1>2 DEF Begun, HasStatus, Exists, Body, Quiet, vars
  <2>3. Kept(m, s, b) => Kept(m, s, b)'
    BY <1>2 DEF Kept, Awaited, HasStatus, Exists, Body, Wanted, Quiet, vars
  <2> QED BY <2>1, <2>2, <2>3
<1> QED BY <1>1, <1>2, QuietIs, CallLeftover, MarkLeftover, ClientsLeftover, StepCases

LEMMA LeftoverIs == ASSUME Recorded, Leftover, RunSound PROVE NothingLeftOver
<1> SUFFICES ASSUME ~beside, ~past.lagged, NEW m \in Members, NEW s \in RealSites, Settled(m),
                    kindoo[m][s] # NoUser, NEW b \in kindoo[m][s].rules \cap Buildings
             PROVE  b \in CurrentSeatBuildings(seats[m], s)
  BY DEF NothingLeftOver
<1>1. Clean BY DEF Settled, Clean
<1>2. Begun(m, s, b) \/ Kept(m, s, b) BY <1>1 DEF Leftover, Holds
<1>3. ~Begun(m, s, b) BY DEF Begun, Settled, HasStatus
<1> QED BY <1>2, <1>3 DEF Kept

\* The whole invariant of the rosters.
Matched == Steady /\ Sited /\ Serial /\ Exact /\ Narrow /\ Leftover

LEMMA MatchedStep == ASSUME MaxDeliveries = 1, SitesAgree, Matched, [PNext]_pvars PROVE Matched'
<1>1. Steady' BY SteadyStep DEF Matched
<1>2. CASE UNCHANGED pvars
  <2>1. UNCHANGED <<requests, seats, deliveries, kindoo, desk, past, beside>> BY <1>2 DEF pvars, vars
  <2>2. Sited' BY <2>1 DEF Matched, Sited, Exists, Body
  <2>3. Serial' BY <2>1 DEF Matched, Serial, Awaited, Undelivered, HasStatus, Exists, Body
  <2>4. Exact' /\ Narrow' BY <2>1 DEF Matched, Exact, Narrow, HasStatus, Exists, Body, Wanted, AtDesk
  <2>5. Leftover'
    BY <2>1 DEF Matched, Leftover, Clean, Holds, Begun, Kept, Awaited, HasStatus, Exists, Body, Wanted
  <2> QED BY <1>1, <2>2, <2>3, <2>4, <2>5 DEF Matched
<1>3. CASE PNext
  BY <1>1, <1>3, SitedStep, SerialStep, ExactStep, NarrowStep, LeftoverStep DEF Matched, Steady
<1> QED BY <1>2, <1>3

\* In whatever order requests are provisioned and triggers delivered, and
\* wherever runs broke off and were repeated: once nothing is under way for a
\* member, and no run was for a request complete already, the member can open
\* every building the seat's grants name, each on its site, but those a run left
\* to another schedule, and holds no rule of another - where each completion is
\* delivered once and every building is on the site of what names it
\* (provision.ts, markRequestComplete.ts and removeSeatOnRequestComplete.ts).
THEOREM DoorsStayMatched ==
    ASSUME MaxDeliveries = 1, SitesAgree
    PROVE  PSpec => []DoorsMatchSeat
<1>1. PInit => Matched BY SteadyInit, SitedInit, LeftoverInit DEF Matched
<1>2. Matched /\ [PNext]_pvars => Matched' BY MatchedStep
<1>3. Matched => DoorsMatchSeat
  BY Typed, EntitledIs, LeftoverIs DEF Matched, Steady, DoorsMatchSeat
<1> QED BY <1>1, <1>2, <1>3, PTL DEF PSpec
=============================================================================
