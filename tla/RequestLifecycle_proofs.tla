---------------------- MODULE RequestLifecycle_proofs ----------------------
(***************************************************************************)
(* What every reader of a seat relies on holds however requests, managers  *)
(* and trigger deliveries interleave, for any number of members, requests, *)
(* wards and sites; and what a step may take from a seat.                  *)
(***************************************************************************)
EXTENDS RequestLifecycle, FiniteSetTheorems, SequenceTheorems, WellFoundedInduction, TLAPS

-----------------------------------------------------------------------------
(* Sequences of grants.                                                    *)

\* A set of naturals that is not empty has a least member.
LEMMA LeastMember == ASSUME NEW I, I \subseteq Nat, I # {}
  PROVE Min(I) \in I /\ \A i \in I : Min(I) <= i
<1> DEFINE R == OpToRel(<, Nat)
<1>1. \E x \in I : \A y \in I : ~(<<y, x>> \in R)
  BY NatLessThanWellFounded, WFMin
<1>2. ASSUME NEW x \in Nat, NEW y \in Nat, y < x PROVE <<y, x>> \in R
  <2>1. <<y, x>>[1] < <<y, x>>[2] BY <1>2
  <2> QED BY <2>1, Zenon DEF OpToRel
<1> HIDE DEF R
<1>3. PICK x \in I : \A y \in I : ~(<<y, x>> \in R) BY <1>1
<1>4. ASSUME NEW y \in I PROVE x <= y
  <2>1. x \in Nat /\ y \in Nat OBVIOUS
  <2>2. ~(y < x) BY <1>2, <1>3, <2>1
  <2> QED BY <2>1, <2>2
<1> QED BY <1>4 DEF Min

\* SlotIndex is the position of a grant of the slot, or 0 when there is none.
LEMMA FirstSlot ==
    ASSUME NEW d \in Seq(Grant), NEW scope, NEW type
    PROVE  LET i == SlotIndex(d, scope, type) IN
           /\ i \in 0..Len(d)
           /\ i > 0 => d[i].scope = scope /\ d[i].type = type
           /\ i = 0 => \A j \in 1..Len(d) : ~(d[j].scope = scope /\ d[j].type = type)
<1> DEFINE I == {i \in 1..Len(d) : d[i].scope = scope /\ d[i].type = type}
<1>1. SlotIndex(d, scope, type) = IF I # {} THEN Min(I) ELSE 0
  BY DEF SlotIndex, SelectInSeq
<1>2. Len(d) \in Nat BY LenProperties
<1>3. I # {} => Min(I) \in I BY LeastMember, <1>2
<1> QED BY <1>1, <1>2, <1>3

\* Removing one position moves the later entries up by one.
LEMMA RemoveAtFacts ==
    ASSUME NEW S, NEW d \in Seq(S), NEW i \in 1..Len(d)
    PROVE  /\ RemoveAt(d, i) \in Seq(S)
           /\ Len(RemoveAt(d, i)) = Len(d) - 1
           /\ \A j \in 1..Len(d) - 1 : RemoveAt(d, i)[j] = IF j < i THEN d[j] ELSE d[j + 1]
<1> DEFINE a == SubSeq(d, 1, i - 1)
           b == SubSeq(d, i + 1, Len(d))
<1>1. Len(d) \in Nat BY LenProperties
<1>2. \A j \in 1..Len(d) : d[j] \in S BY ElementOfSeq
<1>3. a \in Seq(S) /\ Len(a) = i - 1 /\ \A j \in 1..i - 1 : a[j] = d[j]
  <2>1. a \in Seq(S) /\ Len(a) = (IF 1 <= i - 1 THEN i - 1 - 1 + 1 ELSE 0)
        /\ \A j \in 1..(i - 1) - 1 + 1 : a[j] = d[1 + j - 1]
    BY <1>1, <1>2, SubSeqProperties
  <2>2. Len(a) = i - 1 BY <2>1
  <2>3. \A j \in 1..i - 1 : j \in 1..(i - 1) - 1 + 1 /\ 1 + j - 1 = j BY <1>1
  <2> QED BY <2>1, <2>2, <2>3
<1>4. b \in Seq(S) /\ Len(b) = Len(d) - i /\ \A j \in 1..Len(d) - i : b[j] = d[j + i]
  <2>1. b \in Seq(S) /\ Len(b) = (IF i + 1 <= Len(d) THEN Len(d) - (i + 1) + 1 ELSE 0)
        /\ \A j \in 1..Len(d) - (i + 1) + 1 : b[j] = d[i + 1 + j - 1]
    BY <1>1, <1>2, SubSeqProperties
  <2>2. Len(b) = Len(d) - i BY <2>1, <1>1
  <2>3. \A j \in 1..Len(d) - i : j \in 1..Len(d) - (i + 1) + 1 /\ i + 1 + j - 1 = j + i BY <1>1
  <2> QED BY <2>1, <2>2, <2>3
<1>5. RemoveAt(d, i) = a \o b BY DEF RemoveAt
<1> HIDE DEF a, b
<1>6. /\ a \o b \in Seq(S)
      /\ Len(a \o b) = Len(d) - 1
      /\ \A j \in 1..Len(d) - 1 : (a \o b)[j] = IF j <= i - 1 THEN a[j] ELSE b[j - (i - 1)]
  <2>1. /\ a \o b \in Seq(S)
        /\ Len(a \o b) = Len(a) + Len(b)
        /\ \A j \in 1..Len(a) + Len(b) : (a \o b)[j] = IF j <= Len(a) THEN a[j] ELSE b[j - Len(a)]
    BY <1>3, <1>4, ConcatProperties
  <2>2. Len(a) + Len(b) = Len(d) - 1 BY <1>1, <1>3, <1>4
  <2> QED BY <2>1, <2>2, <1>3
<1>7. ASSUME NEW j \in 1..Len(d) - 1 PROVE (a \o b)[j] = IF j < i THEN d[j] ELSE d[j + 1]
  <2>1. CASE j < i
    <3>1. j \in 1..i - 1 /\ j <= i - 1 BY <1>1, <2>1
    <3> QED BY <1>6, <1>3, <2>1, <3>1
  <2>2. CASE ~(j < i)
    <3>1. j - (i - 1) \in 1..Len(d) - i /\ j - (i - 1) + i = j + 1 /\ ~(j <= i - 1) BY <1>1, <2>2
    <3> QED BY <1>6, <1>4, <2>2, <3>1
  <2> QED BY <2>1, <2>2
<1> QED BY <1>5, <1>6, <1>7

LEMMA ScopesOfType == ASSUME NEW d \in Seq(Grant) PROVE ScopesOf(d) \in Seq(Scopes)
<1>1. Len(d) \in Nat /\ d \in [1..Len(d) -> Grant] BY LenProperties
<1>2. ScopesOf(d) \in [1..Len(d) -> Scopes] BY <1>1 DEF ScopesOf, Grant
<1> QED BY <1>1, <1>2, SeqDef

LEMMA WithDupsType ==
    ASSUME NEW s \in Seat, NEW d \in Seq(Grant)
    PROVE  /\ WithDups(s, d) \in Seat
           /\ WithDups(s, d).dups = d
           /\ WithDups(s, d).dupScopes = ScopesOf(d)
           /\ Primary(WithDups(s, d)) = Primary(s)
  BY ScopesOfType DEF WithDups, Seat, Primary

-----------------------------------------------------------------------------
(* A sound seat: no two grants of a slot, a true mirror, stamped wards.    *)

Sound(seat) == SlotsDistinct(seat) /\ seat.dupScopes = ScopesOf(seat.dups) /\ Stamped(seat)

GrantStamped(g) == g.scope \in Wards /\ WardSite[g.scope] # Home => g.site = WardSite[g.scope]

\* SlotsDistinct without the concatenation it is written with.
Apart(seat) ==
    /\ \A i \in 1..Len(seat.dups) : Slot(seat.dups[i]) # Slot(seat)
    /\ \A i, j \in 1..Len(seat.dups) : i # j => Slot(seat.dups[i]) # Slot(seat.dups[j])

LEMMA SeatFacts ==
    ASSUME NEW s \in Seat
    PROVE  /\ s # NoSeat
           /\ s.dups \in Seq(Grant)
           /\ Len(s.dups) \in Nat
           /\ \A i \in 1..Len(s.dups) : s.dups[i] \in Grant
           /\ Primary(s) \in Grant
           /\ Slot(Primary(s)) = Slot(s)
           /\ Grants(s) = {Primary(s)} \cup {s.dups[i] : i \in 1..Len(s.dups)}
<1>1. s # NoSeat BY DEF Seat, NoSeat
<1>2. s.dups \in Seq(Grant) BY DEF Seat
<1>3. /\ Len(s.dups) \in Nat
      /\ DOMAIN s.dups = 1..Len(s.dups)
      /\ \A i \in 1..Len(s.dups) : s.dups[i] \in Grant
  BY <1>2, LenProperties, ElementOfSeq
<1>4. Primary(s) \in Grant BY DEF Primary, Seat, Grant
<1>5. Slot(Primary(s)) = Slot(s) BY DEF Primary, Slot
<1>6. Grants(s) = {Primary(s)} \cup {s.dups[i] : i \in 1..Len(s.dups)}
  BY <1>1, <1>3 DEF Grants, ToSet
<1> QED BY <1>1, <1>2, <1>3, <1>4, <1>5, <1>6

LEMMA DistinctIsApart == ASSUME NEW s \in Seat PROVE SlotsDistinct(s) <=> Apart(s)
<1> DEFINE n == Len(s.dups)
           all == <<Primary(s)>> \o s.dups
<1>1. /\ <<Primary(s)>> \in Seq(Grant)
      /\ Len(<<Primary(s)>>) = 1
      /\ <<Primary(s)>>[1] = Primary(s)
  BY SeatFacts
<1>2. s.dups \in Seq(Grant) /\ n \in Nat BY SeatFacts
<1>3. /\ Len(all) = 1 + n
      /\ \A i \in 1..1 + n : all[i] = IF i <= 1 THEN <<Primary(s)>>[i] ELSE s.dups[i - 1]
  BY <1>1, <1>2, ConcatProperties
<1>4. Slot(all[1]) = Slot(s) BY <1>1, <1>2, <1>3, SeatFacts
<1>5. ASSUME NEW i \in 1..n PROVE all[i + 1] = s.dups[i]
  <2>1. i + 1 \in 1..1 + n /\ ~(i + 1 <= 1) /\ (i + 1) - 1 = i BY <1>2
  <2> QED BY <1>3, <2>1
<1>6. SlotsDistinct(s) <=> \A i, j \in 1..1 + n : i # j => Slot(all[i]) # Slot(all[j])
  BY <1>3 DEF SlotsDistinct
<1> HIDE DEF all
<1>7. ASSUME SlotsDistinct(s) PROVE Apart(s)
  <2>1. ASSUME NEW i \in 1..n PROVE Slot(s.dups[i]) # Slot(s)
    <3>1. i + 1 \in 1..1 + n /\ 1 \in 1..1 + n /\ i + 1 # 1 BY <1>2
    <3> QED BY <1>4, <1>5, <1>6, <1>7, <3>1
  <2>2. ASSUME NEW i \in 1..n, NEW j \in 1..n, i # j PROVE Slot(s.dups[i]) # Slot(s.dups[j])
    <3>1. i + 1 \in 1..1 + n /\ j + 1 \in 1..1 + n /\ i + 1 # j + 1 BY <1>2, <2>2
    <3> QED BY <1>5, <1>6, <1>7, <3>1
  <2> QED BY <2>1, <2>2 DEF Apart
<1>8. ASSUME Apart(s) PROVE SlotsDistinct(s)
  <2> SUFFICES ASSUME NEW i \in 1..1 + n, NEW j \in 1..1 + n, i # j
               PROVE  Slot(all[i]) # Slot(all[j])
    BY <1>6
  <2>1. \A k \in 1..1 + n : k # 1 => k - 1 \in 1..n /\ all[k] = s.dups[k - 1]
    <3> SUFFICES ASSUME NEW k \in 1..1 + n, k # 1 PROVE k - 1 \in 1..n /\ all[k] = s.dups[k - 1]
      OBVIOUS
    <3>1. k - 1 \in 1..n /\ (k - 1) + 1 = k BY <1>2
    <3> QED BY <1>5, <3>1
  <2>2. CASE i = 1 BY <1>4, <1>8, <2>1, <2>2 DEF Apart
  <2>3. CASE j = 1 BY <1>4, <1>8, <2>1, <2>3 DEF Apart
  <2>4. CASE i # 1 /\ j # 1
    <3>1. i - 1 # j - 1 BY <1>2
    <3> QED BY <1>8, <2>1, <2>4, <3>1 DEF Apart
  <2> QED BY <2>2, <2>3, <2>4
<1> QED BY <1>7, <1>8

LEMMA StampedIs ==
    ASSUME NEW s \in Seat
    PROVE  Stamped(s) <=> GrantStamped(s) /\ \A i \in 1..Len(s.dups) : GrantStamped(s.dups[i])
<1>1. GrantStamped(s) <=> GrantStamped(Primary(s)) BY DEF GrantStamped, Primary
<1>2. Stamped(s) <=> \A g \in Grants(s) : GrantStamped(g) BY DEF Stamped, GrantStamped
<1> QED BY <1>1, <1>2, SeatFacts

\* What soundness says of a seat, field by field.
LEMMA SoundIs ==
    ASSUME NEW s \in Seat
    PROVE  Sound(s) <=>
           /\ Apart(s)
           /\ s.dupScopes = ScopesOf(s.dups)
           /\ GrantStamped(s)
           /\ \A i \in 1..Len(s.dups) : GrantStamped(s.dups[i])
  BY DistinctIsApart, StampedIs DEF Sound

\* A seat whose grants keep their slots and sites stays sound.
LEMMA SameSlots ==
    ASSUME NEW s \in Seat, Sound(s), NEW t \in Seat,
           t.scope = s.scope, t.type = s.type, t.site = s.site,
           Len(t.dups) = Len(s.dups),
           \A i \in 1..Len(s.dups) : /\ t.dups[i].scope = s.dups[i].scope
                                     /\ t.dups[i].type = s.dups[i].type
                                     /\ t.dups[i].site = s.dups[i].site,
           t.dupScopes = s.dupScopes \/ t.dupScopes = ScopesOf(t.dups)
    PROVE  Sound(t)
<1>1. ScopesOf(t.dups) = ScopesOf(s.dups) BY DEF ScopesOf
<1>2. Apart(t) BY SoundIs DEF Apart, Slot
<1>3. GrantStamped(t) BY SoundIs DEF GrantStamped
<1>4. \A i \in 1..Len(t.dups) : GrantStamped(t.dups[i]) BY SoundIs DEF GrantStamped
<1> QED BY <1>1, <1>2, <1>3, <1>4, SoundIs

-----------------------------------------------------------------------------
(* The planners: what they return is a seat, sound if theirs was.          *)

LEMMA SiteOfType ==
    ASSUME NEW scope \in Scopes
    PROVE  SiteOf(scope) \in Sites /\ (scope \in Wards => SiteOf(scope) = WardSite[scope])
  BY ScopesAssumption, WardsAssumption DEF SiteOf, Sites, Home, Unset

\* h is g with nothing taken away.
Keeps(g, h) ==
    /\ Slot(h) = Slot(g) /\ h.site = g.site
    /\ g.buildings \subseteq h.buildings
    /\ g.org # NoOrg => h.org # NoOrg

LEMMA MergedOrgType ==
    ASSUME NEW req \in Input, NEW org \in Orgs \cup {NoOrg}
    PROVE  MergedOrg(req, org) \in Orgs \cup {NoOrg} /\ (org # NoOrg => MergedOrg(req, org) # NoOrg)
  BY DEF MergedOrg, Input

LEMMA MergedGrant ==
    ASSUME NEW g \in Grant, NEW req \in Input
    PROVE  /\ Merged(g, req) \in Grant
           /\ Keeps(g, Merged(g, req))
           /\ req.buildings \subseteq Merged(g, req).buildings
<1>1. g.org \in Orgs \cup {NoOrg} BY DEF Grant
<1>2. Merged(g, req) = [g EXCEPT !.buildings = g.buildings \cup req.buildings, !.org = MergedOrg(req, g.org)]
  BY DEF Merged
<1> QED BY <1>1, <1>2, MergedOrgType DEF Grant, Keeps, Slot, Input

LEMMA MergedSeat ==
    ASSUME NEW s \in Seat, NEW req \in Input
    PROVE  /\ Merged(s, req) \in Seat
           /\ Keeps(Primary(s), Primary(Merged(s, req)))
           /\ req.buildings \subseteq Primary(Merged(s, req)).buildings
           /\ Merged(s, req).dups = s.dups
           /\ Merged(s, req).dupScopes = s.dupScopes
           /\ \A f \in {"scope", "type", "site"} : Merged(s, req)[f] = s[f]
<1>1. s.org \in Orgs \cup {NoOrg} BY DEF Seat
<1>2. Merged(s, req) = [s EXCEPT !.buildings = s.buildings \cup req.buildings, !.org = MergedOrg(req, s.org)]
  BY DEF Merged
<1> QED BY <1>1, <1>2, MergedOrgType DEF Seat, Keeps, Slot, Input, Primary

LEMMA AddTypeType == ASSUME NEW req \in Input PROVE AddType(req.type) \in SeatTypes
  BY DEF AddType, SeatTypes

LEMMA NewDuplicateType ==
    ASSUME NEW req \in Input
    PROVE  /\ NewDuplicate(req) \in Grant
           /\ Slot(NewDuplicate(req)) = <<req.scope, AddType(req.type)>>
           /\ NewDuplicate(req).buildings = req.buildings
           /\ GrantStamped(NewDuplicate(req))
<1>1. req.scope \in Scopes /\ req.buildings \in SUBSET Buildings /\ req.reason \in SUBSET Callings
  BY DEF Input
<1> QED BY <1>1, SiteOfType, AddTypeType, MergedOrgType DEF NewDuplicate, Grant, Slot, GrantStamped

\* Does `t` hold the slot `b` adds, and everything `s` held?
OnlyAdds(s, t, b) ==
    /\ \E g \in Grants(t) : Slot(g) = <<b.scope, AddType(b.type)>> /\ b.buildings \subseteq g.buildings
    /\ \A g \in Grants(s) : \E h \in Grants(t) : Keeps(g, h)

\* An add to a member without a seat.
LEMMA NewSeatSound ==
    ASSUME NEW req \in Input
    PROVE  NewSeat(req) \in Seat /\ Sound(NewSeat(req)) /\ OnlyAdds(NoSeat, NewSeat(req), req)
<1> DEFINE t == NewSeat(req)
<1>1. req.scope \in Scopes /\ req.buildings \in SUBSET Buildings /\ req.reason \in SUBSET Callings
  BY DEF Input
<1>2. /\ <<>> \in Seq(Grant)
      /\ <<>> \in Seq(Scopes)
      /\ Len(<<>>) = 0
  BY EmptySeq
<1>3. (IF req.buildings = {} /\ req.scope \in Wards THEN {WardBuilding[req.scope]} ELSE req.buildings)
      \in SUBSET Buildings
  BY <1>1, WardsAssumption
<1>4. t \in Seat
  BY <1>1, <1>2, <1>3, SiteOfType, AddTypeType, MergedOrgType DEF NewSeat, Seat
<1>5. /\ t.dups = <<>> /\ t.dupScopes = <<>>
      /\ t.scope = req.scope /\ t.site = SiteOf(req.scope)
      /\ Slot(t) = <<req.scope, AddType(req.type)>>
      /\ req.buildings \subseteq t.buildings
  BY DEF NewSeat, Slot
<1>6. ScopesOf(<<>>) = <<>> BY <1>2 DEF ScopesOf
<1>7. Sound(t) BY <1>1, <1>2, <1>4, <1>5, <1>6, SoundIs, SiteOfType DEF Apart, GrantStamped
<1>8. Primary(t) \in Grants(t) /\ Slot(Primary(t)) = Slot(t) BY <1>4, SeatFacts
<1>9. Primary(t).buildings = t.buildings BY DEF Primary
<1>10. Grants(NoSeat) = {} BY DEF Grants
<1>11. OnlyAdds(NoSeat, t, req) BY <1>5, <1>8, <1>9, <1>10 DEF OnlyAdds
<1> QED BY <1>4, <1>7, <1>11

\* Grant by grant, nothing taken away.
LEMMA KeepsAll ==
    ASSUME NEW s \in Seat, NEW t \in Seat, Len(s.dups) <= Len(t.dups),
           Keeps(Primary(s), Primary(t)),
           \A j \in 1..Len(s.dups) : Keeps(s.dups[j], t.dups[j])
    PROVE  \A g \in Grants(s) : \E h \in Grants(t) : Keeps(g, h)
<1> SUFFICES ASSUME NEW g \in Grants(s) PROVE \E h \in Grants(t) : Keeps(g, h)
  OBVIOUS
<1>1. CASE g = Primary(s) BY <1>1, SeatFacts
<1>2. CASE \E j \in 1..Len(s.dups) : g = s.dups[j]
  <2>1. PICK j \in 1..Len(s.dups) : g = s.dups[j] BY <1>2
  <2>2. j \in 1..Len(t.dups) BY SeatFacts
  <2>3. t.dups[j] \in Grants(t) BY <2>2, SeatFacts
  <2> QED BY <2>1, <2>3
<1> QED BY <1>1, <1>2, SeatFacts

\* An add to a member who has one.
LEMMA PlanAddMergeSound ==
    ASSUME NEW s \in Seat, Sound(s), NEW req \in Input
    PROVE  LET t == PlanAddMerge(s, req) IN t \in Seat /\ Sound(t) /\ OnlyAdds(s, t, req)
<1> DEFINE type == AddType(req.type)
           slot == <<req.scope, type>>
           t == PlanAddMerge(s, req)
           n == Len(s.dups)
           i == SlotIndex(s.dups, req.scope, type)
<1>1. s.dups \in Seq(Grant) /\ n \in Nat /\ \A j \in 1..n : s.dups[j] \in Grant BY SeatFacts
<1>2. /\ i \in 0..n
      /\ i > 0 => s.dups[i].scope = req.scope /\ s.dups[i].type = type
      /\ i = 0 => \A j \in 1..n : ~(s.dups[j].scope = req.scope /\ s.dups[j].type = type)
  BY <1>1, FirstSlot
<1>3. Apart(s) /\ s.dupScopes = ScopesOf(s.dups) /\ GrantStamped(s)
      /\ \A j \in 1..n : GrantStamped(s.dups[j])
  BY SoundIs
<1>4. \A g : Keeps(g, g) BY DEF Keeps
<1>5. CASE s.scope = req.scope /\ s.type = type
  <2>1. t = Merged(s, req) BY <1>5 DEF PlanAddMerge
  <2>2. t \in Seat /\ Sound(t) BY <2>1, MergedSeat, SameSlots
  <2>3. Primary(t) \in Grants(t) /\ Slot(Primary(t)) = slot
    BY <2>1, <2>2, <1>5, SeatFacts, MergedSeat DEF Slot
  <2>4. \A g \in Grants(s) : \E h \in Grants(t) : Keeps(g, h)
    <3>1. t.dups = s.dups /\ Keeps(Primary(s), Primary(t)) BY <2>1, MergedSeat
    <3>2. t \in Seat BY <2>2
    <3> HIDE DEF t
    <3>3. Len(s.dups) <= Len(t.dups) BY <3>1, <1>1
    <3>4. \A j \in 1..Len(s.dups) : Keeps(s.dups[j], t.dups[j]) BY <3>1, <1>4
    <3> QED BY <3>1, <3>2, <3>3, <3>4, KeepsAll
  <2> QED BY <2>1, <2>2, <2>3, <2>4, MergedSeat DEF OnlyAdds
<1>6. CASE ~(s.scope = req.scope /\ s.type = type) /\ i > 0
  <2> DEFINE merged == Merged(s.dups[i], req)
             d == ReplaceAt(s.dups, i, merged)
  <2>1. i \in 1..n BY <1>2, <1>6
  <2>2. merged \in Grant /\ Keeps(s.dups[i], merged) /\ req.buildings \subseteq merged.buildings
    BY <1>1, <2>1, MergedGrant
  <2>3. d \in Seq(Grant) /\ Len(d) = n /\ \A j \in 1..n : d[j] = IF j = i THEN merged ELSE s.dups[j]
    BY <1>1, <2>1, <2>2, ExceptSeq DEF ReplaceAt
  <2>4. t = IF merged = s.dups[i] THEN s ELSE WithDups(s, d) BY <1>6 DEF PlanAddMerge
  <2> HIDE DEF merged, d, i, t
  <2>5. \A j \in 1..n : Keeps(s.dups[j], d[j]) BY <1>4, <2>2, <2>3
  <2>6. /\ t \in Seat /\ Sound(t)
        /\ Primary(t) = Primary(s) /\ Len(t.dups) = n
        /\ \A j \in 1..n : Keeps(s.dups[j], t.dups[j])
        /\ t.dups[i] = merged
    <3>1. CASE merged = s.dups[i] BY <3>1, <2>4, <1>4
    <3>2. CASE merged # s.dups[i]
      <4>1. /\ t \in Seat /\ t.dups = d /\ t.dupScopes = ScopesOf(d) /\ Primary(t) = Primary(s)
        BY <3>2, <2>3, <2>4, WithDupsType
      <4>2. t.scope = s.scope /\ t.type = s.type /\ t.site = s.site BY <4>1 DEF Primary
      <4>3. \A j \in 1..n : d[j].scope = s.dups[j].scope /\ d[j].type = s.dups[j].type
                            /\ d[j].site = s.dups[j].site
        BY <2>5 DEF Keeps, Slot
      <4>4. Sound(t) BY <4>1, <4>2, <4>3, <2>3, SameSlots
      <4> QED BY <4>1, <4>4, <2>1, <2>3, <2>5
    <3> QED BY <3>1, <3>2
  <2>7. t.dups[i] \in Grants(t) /\ Slot(t.dups[i]) = slot
    BY <2>1, <2>2, <2>6, <1>2, SeatFacts DEF Keeps, Slot
  <2>8. \A g \in Grants(s) : \E h \in Grants(t) : Keeps(g, h)
    BY <1>1, <2>6, <1>4, KeepsAll
  <2>9. OnlyAdds(s, t, req) BY <2>2, <2>6, <2>7, <2>8 DEF OnlyAdds
  <2> QED BY <2>6, <2>9 DEF t
<1>7. CASE ~(s.scope = req.scope /\ s.type = type) /\ ~(i > 0)
  <2> DEFINE new == NewDuplicate(req)
             d == Append(s.dups, new)
  <2>1. t = WithDups(s, d) BY <1>7 DEF PlanAddMerge
  <2>2. new \in Grant /\ Slot(new) = slot /\ new.buildings = req.buildings /\ GrantStamped(new)
    BY NewDuplicateType
  <2>3. /\ d \in Seq(Grant) /\ Len(d) = n + 1
        /\ \A j \in 1..n : d[j] = s.dups[j]
        /\ d[n + 1] = new
    BY <1>1, <2>2, AppendProperties
  <2>4. i = 0 BY <1>2, <1>7
  <2>5. \A j \in 1..n : Slot(s.dups[j]) # slot BY <1>2, <2>4 DEF Slot
  <2>6. Slot(s) # slot BY <1>7 DEF Slot
  <2> HIDE DEF new, d, i, t, slot
  <2>7. t \in Seat /\ t.dups = d /\ t.dupScopes = ScopesOf(d) /\ Primary(t) = Primary(s)
    BY <2>1, <2>3, WithDupsType
  <2>8. Slot(t) = Slot(s) /\ (GrantStamped(t) <=> GrantStamped(s))
    BY <2>7 DEF Primary, Slot, GrantStamped
  <2>9. \A j \in 1..n + 1 : j \in 1..n \/ j = n + 1 BY <1>1
  <2>10. Apart(t)
    <3>1. \A j \in 1..n + 1 : Slot(d[j]) # Slot(t)
      BY <1>3, <2>2, <2>3, <2>6, <2>8, <2>9 DEF Apart
    <3>2. \A j, k \in 1..n + 1 : j # k => Slot(d[j]) # Slot(d[k])
      BY <1>3, <2>2, <2>3, <2>5, <2>9 DEF Apart
    <3> QED BY <3>1, <3>2, <2>3, <2>7 DEF Apart
  <2>11. \A j \in 1..n + 1 : GrantStamped(d[j]) BY <1>3, <2>2, <2>3, <2>9
  <2>12. Sound(t) BY <1>3, <2>3, <2>7, <2>8, <2>10, <2>11, SoundIs
  <2>13. n + 1 \in 1..n + 1 /\ \A j \in 1..n : j \in 1..n + 1 BY <1>1
  <2>14. new \in Grants(t) BY <2>3, <2>7, <2>13, SeatFacts
  <2>15. Grants(s) \subseteq Grants(t) BY <2>3, <2>7, <2>13, SeatFacts
  <2>16. OnlyAdds(s, t, req) BY <1>4, <2>2, <2>14, <2>15 DEF OnlyAdds, slot
  <2> QED BY <2>7, <2>12, <2>16 DEF t
<1> QED BY <1>5, <1>6, <1>7

LEMMA EditedGrant ==
    ASSUME NEW g \in Grant, NEW req \in Input
    PROVE  /\ Edited(g, req) \in Grant
           /\ Slot(Edited(g, req)) = Slot(g)
           /\ Edited(g, req).site = g.site
  BY DEF Edited, Grant, Input, Slot

LEMMA EditedSeat ==
    ASSUME NEW s \in Seat, NEW req \in Input
    PROVE  /\ Edited(s, req) \in Seat
           /\ Slot(Edited(s, req)) = Slot(s)
           /\ Edited(s, req).site = s.site
           /\ Edited(s, req).dups = s.dups
           /\ Edited(s, req).dupScopes = s.dupScopes
  BY DEF Edited, Seat, Input, Slot

LEMMA EditTypeType == ASSUME NEW type \in EditTypes PROVE EditType(type) \in SeatTypes
  BY DEF EditType, EditTypes, SeatTypes

\* Does `t` differ from `s` in what the slot `b` names grants, and nowhere else?
EditsOneSlot(s, t, b) ==
    LET kept == {g \in Grants(s) : Slot(g) # <<b.scope, EditType(b.type)>>} IN
    /\ kept \subseteq Grants(t)
    /\ {<<Slot(g), g.site>> : g \in Grants(t)} = {<<Slot(g), g.site>> : g \in Grants(s)}

\* Seats whose grants agree position by position in slot and site, agree in them.
LEMMA SamePlaces ==
    ASSUME NEW s \in Seat, NEW t \in Seat, Len(t.dups) = Len(s.dups),
           Slot(t) = Slot(s), t.site = s.site,
           \A j \in 1..Len(s.dups) : Slot(t.dups[j]) = Slot(s.dups[j]) /\ t.dups[j].site = s.dups[j].site
    PROVE  {<<Slot(g), g.site>> : g \in Grants(t)} = {<<Slot(g), g.site>> : g \in Grants(s)}
<1> DEFINE Place(g) == <<Slot(g), g.site>>
<1>1. \A r : Primary(r).site = r.site BY DEF Primary
<1>2. ASSUME NEW r \in Seat
      PROVE  {Place(g) : g \in Grants(r)}
             = {<<Slot(r), r.site>>} \cup {<<Slot(r.dups[j]), r.dups[j].site>> : j \in 1..Len(r.dups)}
  BY <1>1, SeatFacts
<1>3. {<<Slot(t.dups[j]), t.dups[j].site>> : j \in 1..Len(t.dups)}
      = {<<Slot(s.dups[j]), s.dups[j].site>> : j \in 1..Len(s.dups)}
  OBVIOUS
<1> QED BY <1>2, <1>3

LEMMA PlanEditSeatSound ==
    ASSUME NEW s \in Seat, Sound(s), NEW req \in Input, req.type \in EditTypes,
           HasSlot(s, req.scope, EditType(req.type))
    PROVE  LET t == PlanEditSeat(s, req) IN t \in Seat /\ Sound(t) /\ EditsOneSlot(s, t, req)
<1> DEFINE type == EditType(req.type)
           slot == <<req.scope, type>>
           t == PlanEditSeat(s, req)
           n == Len(s.dups)
           i == SlotIndex(s.dups, req.scope, type)
<1>1. s.dups \in Seq(Grant) /\ n \in Nat /\ \A j \in 1..n : s.dups[j] \in Grant BY SeatFacts
<1>2. i \in 0..n /\ (i > 0 => s.dups[i].scope = req.scope /\ s.dups[i].type = type)
  BY <1>1, FirstSlot
<1>3. CASE s.scope = req.scope /\ s.type = type
  <2>1. t = Edited(s, req) BY <1>3 DEF PlanEditSeat
  <2>2. /\ t \in Seat /\ Slot(t) = Slot(s) /\ t.site = s.site /\ t.dups = s.dups
        /\ t.dupScopes = s.dupScopes
    BY <2>1, EditedSeat
  <2> HIDE DEF t
  <2>3. Sound(t) BY <2>2, SameSlots DEF Slot
  <2>4. Slot(s) = slot BY <1>3 DEF Slot
  <2>5. {g \in Grants(s) : Slot(g) # slot} \subseteq Grants(t) BY <2>2, <2>4, SeatFacts
  <2>6. {<<Slot(g), g.site>> : g \in Grants(t)} = {<<Slot(g), g.site>> : g \in Grants(s)}
    BY <2>2, SamePlaces
  <2>7. EditsOneSlot(s, t, req) BY <2>5, <2>6 DEF EditsOneSlot
  <2> QED BY <2>2, <2>3, <2>7 DEF t
<1>4. CASE ~(s.scope = req.scope /\ s.type = type)
  <2> DEFINE e == Edited(s.dups[i], req)
             d == ReplaceAt(s.dups, i, e)
  <2>1. i \in 1..n BY <1>1, <1>2, <1>4 DEF HasSlot
  <2>2. e \in Grant /\ Slot(e) = Slot(s.dups[i]) /\ e.site = s.dups[i].site BY <1>1, <2>1, EditedGrant
  <2>3. d \in Seq(Grant) /\ Len(d) = n /\ \A j \in 1..n : d[j] = IF j = i THEN e ELSE s.dups[j]
    BY <1>1, <2>1, <2>2, ExceptSeq DEF ReplaceAt
  <2>4. t = [s EXCEPT !.dups = d] BY <1>4 DEF PlanEditSeat
  <2>5. Slot(s.dups[i]) = slot BY <1>2, <2>1 DEF Slot
  <2> HIDE DEF e, d, i, t, slot
  <2>6. /\ t \in Seat /\ t.dups = d /\ t.dupScopes = s.dupScopes
        /\ t.scope = s.scope /\ t.type = s.type /\ t.site = s.site /\ Primary(t) = Primary(s)
    BY <2>3, <2>4 DEF Seat, Primary
  <2>7. \A j \in 1..n : Slot(d[j]) = Slot(s.dups[j]) /\ d[j].site = s.dups[j].site BY <2>2, <2>3
  <2>8. Sound(t)
    <3>1. \A j \in 1..n : d[j].scope = s.dups[j].scope /\ d[j].type = s.dups[j].type BY <2>7 DEF Slot
    <3> QED BY <2>3, <2>6, <2>7, <3>1, SameSlots
  <2>9. {g \in Grants(s) : Slot(g) # slot} \subseteq Grants(t)
    <3> SUFFICES ASSUME NEW g \in Grants(s), Slot(g) # slot PROVE g \in Grants(t)
      OBVIOUS
    <3>1. CASE g = Primary(s) BY <3>1, <2>6, SeatFacts
    <3>2. CASE \E j \in 1..n : g = s.dups[j]
      <4>1. PICK j \in 1..n : g = s.dups[j] BY <3>2
      <4>2. t.dups[j] = g BY <2>3, <2>5, <2>6, <4>1
      <4> QED BY <2>3, <2>6, <4>2, SeatFacts
    <3> QED BY <3>1, <3>2, SeatFacts
  <2>10. {<<Slot(g), g.site>> : g \in Grants(t)} = {<<Slot(g), g.site>> : g \in Grants(s)}
    <3>1. Slot(t) = Slot(s) BY <2>6 DEF Slot
    <3> QED BY <2>3, <2>6, <2>7, <3>1, SamePlaces
  <2>11. EditsOneSlot(s, t, req) BY <2>9, <2>10 DEF EditsOneSlot, slot
  <2> QED BY <2>6, <2>8, <2>11 DEF t
<1> QED BY <1>3, <1>4

\* The grants of `s` whose slot `t` does not hold.
Missing(s, t) == {g \in Grants(s) : \A h \in Grants(t) : Slot(h) # Slot(g)}

\* What PlanRemove may answer, and that the entry it drops is addressed.
LEMMA PlanRemoveCases ==
    ASSUME NEW s \in Seat, NEW scope, NEW site
    PROVE  LET plan == PlanRemove(s, scope, site) IN
           \/ plan = Plan("no_match", 0)
           \/ plan = Plan("delete", 0) /\ s.dups = <<>> /\ Addressed(s, scope, site)
           \/ plan = Plan("promote", 1) /\ s.dups # <<>> /\ Addressed(s, scope, site)
           \/ \E i \in 1..Len(s.dups) :
                 plan = Plan("drop_duplicate", i) /\ Addressed(s.dups[i], scope, site)
<1> DEFINE M == {i \in 1..Len(s.dups) : Addressed(s.dups[i], scope, site) /\ s.dups[i].type # "auto"}
           A == {i \in 1..Len(s.dups) : Addressed(s.dups[i], scope, site)}
           manual == SelectInSeq(s.dups, LAMBDA d : Addressed(d, scope, site) /\ d.type # "auto")
           any == SelectInSeq(s.dups, LAMBDA d : Addressed(d, scope, site))
<1>1. manual = IF M # {} THEN Min(M) ELSE 0 BY DEF SelectInSeq
<1>2. any = IF A # {} THEN Min(A) ELSE 0 BY DEF SelectInSeq
<1>3. M \subseteq Nat /\ A \subseteq Nat BY SeatFacts
<1>4. M # {} => Min(M) \in M BY ONLY <1>3, LeastMember
<1>5. A # {} => Min(A) \in A BY ONLY <1>3, LeastMember
<1>6. PlanRemove(s, scope, site) =
        LET primary == Addressed(s, scope, site) IN
        IF primary /\ s.type = "auto" /\ manual > 0 THEN Plan("drop_duplicate", manual)
        ELSE IF primary /\ s.dups = <<>> THEN Plan("delete", 0)
        ELSE IF primary THEN Plan("promote", 1)
        ELSE IF any > 0 THEN Plan("drop_duplicate", any)
        ELSE Plan("no_match", 0)
  BY DEF PlanRemove
<1> HIDE DEF manual, any
<1>7. manual > 0 => manual \in 1..Len(s.dups) /\ Addressed(s.dups[manual], scope, site)
  BY <1>1, <1>4
<1>8. any > 0 => any \in 1..Len(s.dups) /\ Addressed(s.dups[any], scope, site)
  BY <1>2, <1>5
<1> HIDE DEF M, A
<1> QED BY <1>6, <1>7, <1>8

\* A duplicate removed, and nothing else of the seat touched.
LEMMA DropSound ==
    ASSUME NEW s \in Seat, Sound(s), NEW i \in 1..Len(s.dups)
    PROVE  LET t == WithDups(s, RemoveAt(s.dups, i)) IN
           t \in Seat /\ Sound(t) /\ Missing(s, t) = {s.dups[i]}
<1> DEFINE n == Len(s.dups)
           d == RemoveAt(s.dups, i)
           t == WithDups(s, d)
<1>1. s.dups \in Seq(Grant) /\ n \in Nat /\ \A j \in 1..n : s.dups[j] \in Grant BY SeatFacts
<1>2. /\ d \in Seq(Grant) /\ Len(d) = n - 1
      /\ \A j \in 1..n - 1 : d[j] = IF j < i THEN s.dups[j] ELSE s.dups[j + 1]
  BY <1>1, RemoveAtFacts
<1>3. t \in Seat /\ t.dups = d /\ t.dupScopes = ScopesOf(d) /\ Primary(t) = Primary(s)
  BY <1>2, WithDupsType
<1>4. Slot(t) = Slot(s) /\ (GrantStamped(t) <=> GrantStamped(s))
  BY <1>3 DEF Primary, Slot, GrantStamped
<1>5. Apart(s) /\ GrantStamped(s) /\ \A j \in 1..n : GrantStamped(s.dups[j]) BY SoundIs
<1> HIDE DEF d, t
<1> DEFINE from(j) == IF j < i THEN j ELSE j + 1
<1>6. \A j \in 1..n - 1 : from(j) \in 1..n /\ from(j) # i /\ d[j] = s.dups[from(j)]
  BY <1>1, <1>2
<1>7. \A j, k \in 1..n - 1 : j # k => from(j) # from(k) BY <1>1
<1>8. ASSUME NEW k \in 1..n, k # i PROVE \E j \in 1..n - 1 : from(j) = k
  <2>1. CASE k < i
    <3>1. k \in 1..n - 1 BY <1>1, <2>1
    <3> QED BY <2>1, <3>1
  <2>2. CASE k > i
    <3>1. k - 1 \in 1..n - 1 /\ ~(k - 1 < i) /\ k - 1 + 1 = k BY <1>1, <2>2
    <3> QED BY <3>1
  <2> QED BY <2>1, <2>2, <1>1, <1>8
<1> HIDE DEF from
<1>9. Apart(t)
  <2>1. \A j \in 1..n - 1 : Slot(d[j]) # Slot(t) BY <1>4, <1>5, <1>6 DEF Apart
  <2>2. \A j, k \in 1..n - 1 : j # k => Slot(d[j]) # Slot(d[k]) BY <1>5, <1>6, <1>7 DEF Apart
  <2> QED BY <1>2, <1>3, <2>1, <2>2 DEF Apart
<1>10. \A j \in 1..n - 1 : GrantStamped(d[j]) BY <1>5, <1>6
<1>11. Sound(t) BY <1>2, <1>3, <1>4, <1>5, <1>9, <1>10, SoundIs
<1>12. Grants(t) = {Primary(s)} \cup {d[j] : j \in 1..n - 1} BY <1>2, <1>3, SeatFacts
<1>13. Grants(s) = {Primary(s)} \cup {s.dups[j] : j \in 1..n} /\ Slot(Primary(s)) = Slot(s) BY SeatFacts
<1>14. \A h \in Grants(t) : Slot(h) # Slot(s.dups[i])
  <2>1. Slot(Primary(s)) # Slot(s.dups[i]) BY <1>5, <1>13 DEF Apart
  <2>2. \A j \in 1..n - 1 : Slot(d[j]) # Slot(s.dups[i]) BY <1>5, <1>6 DEF Apart
  <2> QED BY <1>12, <2>1, <2>2
<1>15. ASSUME NEW g \in Grants(s), g # s.dups[i] PROVE g \in Grants(t)
  <2>1. CASE g = Primary(s) BY <1>12, <2>1
  <2>2. CASE \E j \in 1..n : g = s.dups[j]
    <3>1. PICK k \in 1..n : g = s.dups[k] BY <2>2
    <3>2. PICK j \in 1..n - 1 : from(j) = k BY <1>8, <1>15, <3>1
    <3>3. g = d[j] BY <1>6, <3>1, <3>2
    <3> QED BY <1>12, <3>3
  <2> QED BY <1>13, <2>1, <2>2
<1>16. Missing(s, t) = {s.dups[i]} BY <1>13, <1>14, <1>15 DEF Missing
<1> QED BY <1>3, <1>11, <1>16 DEF t, d

\* A promotion: the first duplicate takes the primary's place.
LEMMA PromoteSound ==
    ASSUME NEW s \in Seat, Sound(s), s.dups # <<>>
    PROVE  LET t == ApplyRemove(s, Plan("promote", 1)) IN
           t \in Seat /\ Sound(t) /\ Missing(s, t) = {Primary(s)}
<1> DEFINE n == Len(s.dups)
           d == RemoveAt(s.dups, 1)
           t == ApplyRemove(s, Plan("promote", 1))
           first == s.dups[1]
<1>1. s.dups \in Seq(Grant) /\ n \in Nat /\ \A j \in 1..n : s.dups[j] \in Grant BY SeatFacts
<1>2. n >= 1 /\ 1 \in 1..n BY <1>1, EmptySeq
<1>3. d \in Seq(Grant) /\ Len(d) = n - 1 /\ \A j \in 1..n - 1 : d[j] = s.dups[j + 1]
  <2>1. /\ d \in Seq(Grant) /\ Len(d) = n - 1
        /\ \A j \in 1..n - 1 : d[j] = IF j < 1 THEN s.dups[j] ELSE s.dups[j + 1]
    BY <1>1, <1>2, RemoveAtFacts
  <2>2. \A j \in 1..n - 1 : ~(j < 1) BY <1>1
  <2> QED BY <2>1, <2>2
<1>4. t = [WithDups(s, d) EXCEPT !.scope = first.scope, !.type = first.type, !.site = first.site,
                                 !.buildings = first.buildings, !.callings = first.callings]
  BY DEF ApplyRemove, Plan
<1>5. first \in Grant BY <1>1, <1>2
<1> HIDE DEF d, t, first
<1>6. /\ t \in Seat /\ t.dups = d /\ t.dupScopes = ScopesOf(d)
      /\ t.scope = first.scope /\ t.type = first.type /\ t.site = first.site
  BY <1>3, <1>4, <1>5, WithDupsType DEF Seat, Grant
<1>7. Slot(t) = Slot(first) /\ (GrantStamped(t) <=> GrantStamped(first))
  BY <1>6 DEF Slot, GrantStamped
<1>8. Apart(s) /\ GrantStamped(s) /\ \A j \in 1..n : GrantStamped(s.dups[j]) BY SoundIs
<1>9. \A j \in 1..n - 1 : j + 1 \in 1..n /\ j + 1 # 1 BY <1>1
<1>10. Apart(t)
  <2>1. \A j \in 1..n - 1 : Slot(d[j]) # Slot(t) BY <1>2, <1>3, <1>7, <1>8, <1>9 DEF Apart, first
  <2>2. \A j, k \in 1..n - 1 : j # k => j + 1 # k + 1 BY <1>1
  <2>3. \A j, k \in 1..n - 1 : j # k => Slot(d[j]) # Slot(d[k]) BY <1>3, <1>8, <1>9, <2>2 DEF Apart
  <2> QED BY <1>3, <1>6, <2>1, <2>3 DEF Apart
<1>11. Sound(t) BY <1>2, <1>3, <1>6, <1>7, <1>8, <1>9, <1>10, SoundIs DEF first
<1>12. /\ Grants(t) = {Primary(t)} \cup {d[j] : j \in 1..n - 1}
       /\ Slot(Primary(t)) = Slot(first)
  BY <1>3, <1>6, <1>7, SeatFacts
<1>13. Grants(s) = {Primary(s)} \cup {s.dups[j] : j \in 1..n} /\ Slot(Primary(s)) = Slot(s) BY SeatFacts
<1>14. \A h \in Grants(t) : Slot(h) # Slot(Primary(s))
  BY <1>2, <1>3, <1>8, <1>9, <1>12, <1>13 DEF Apart, first
<1>15. ASSUME NEW k \in 1..n PROVE \E h \in Grants(t) : Slot(h) = Slot(s.dups[k])
  <2>1. CASE k = 1 BY <1>12, <2>1 DEF first
  <2>2. CASE k # 1
    <3>1. k - 1 \in 1..n - 1 /\ (k - 1) + 1 = k BY <1>1, <2>2
    <3>2. d[k - 1] = s.dups[k] BY <1>3, <3>1
    <3> QED BY <1>12, <3>1, <3>2
  <2> QED BY <2>1, <2>2
<1>16. Missing(s, t) = {Primary(s)} BY <1>13, <1>14, <1>15 DEF Missing
<1> QED BY <1>6, <1>11, <1>16 DEF t

\* What the trigger writes: nothing, or a sound seat without one addressed grant.
LEMMA ApplyRemoveSound ==
    ASSUME NEW s \in Seat, Sound(s), NEW scope, NEW site
    PROVE  LET plan == PlanRemove(s, scope, site)
               t    == ApplyRemove(s, plan) IN
           /\ t # NoSeat => t \in Seat /\ Sound(t)
           /\ plan.kind # "no_match" =>
                 \E g \in Grants(s) : Missing(s, t) = {g} /\ Addressed(g, scope, site)
<1> DEFINE plan == PlanRemove(s, scope, site)
           t == ApplyRemove(s, plan)
<1>1. Primary(s) \in Grants(s) BY SeatFacts
<1>2. Addressed(Primary(s), scope, site) <=> Addressed(s, scope, site) BY DEF Addressed, Primary
<1>3. CASE plan = Plan("no_match", 0)
  <2>1. t = s /\ plan.kind = "no_match" BY <1>3 DEF ApplyRemove, Plan
  <2> QED BY <2>1
<1>4. CASE plan = Plan("delete", 0) /\ s.dups = <<>> /\ Addressed(s, scope, site)
  <2>1. t = NoSeat BY <1>4 DEF ApplyRemove, Plan
  <2>2. Grants(s) = {Primary(s)} BY <1>4, SeatFacts, EmptySeq
  <2>3. Missing(s, t) = {Primary(s)} BY <2>1, <2>2 DEF Missing, Grants
  <2> QED BY <1>1, <1>2, <1>4, <2>1, <2>3
<1>5. CASE plan = Plan("promote", 1) /\ s.dups # <<>> /\ Addressed(s, scope, site)
  BY <1>1, <1>2, <1>5, PromoteSound
<1>6. CASE \E i \in 1..Len(s.dups) :
              plan = Plan("drop_duplicate", i) /\ Addressed(s.dups[i], scope, site)
  <2>1. PICK i \in 1..Len(s.dups) :
                plan = Plan("drop_duplicate", i) /\ Addressed(s.dups[i], scope, site)
    BY <1>6
  <2>2. i # 0 BY SeatFacts
  <2>3. t = WithDups(s, RemoveAt(s.dups, i)) BY <2>1, <2>2 DEF ApplyRemove, Plan
  <2>4. s.dups[i] \in Grants(s) BY SeatFacts
  <2> QED BY <2>1, <2>3, <2>4, DropSound
<1> QED BY <1>3, <1>4, <1>5, <1>6, PlanRemoveCases

-----------------------------------------------------------------------------
(* The over-cap snapshot lists natural counts and caps.                    *)

CapTyped(c) == c.pool \in {Stake} \cup Wards /\ c.count \in Nat /\ c.cap \in Nat

LEMMA OverCapsType ==
    ASSUME NEW f, DOMAIN f = Members
    PROVE  \A c \in ComputeOverCaps(f) : CapTyped(c)
<1>1. IsFiniteSet(Members) BY LifecycleAssumption
<1>2. \A X \in SUBSET Members : Cardinality(X) \in Nat BY <1>1, FS_Subset, FS_CardinalityType
<1>3. \A scope : SeatedAt(f, scope) \in SUBSET Members BY DEF SeatedAt
<1>4. WardSeated(f) \in SUBSET Members BY DEF WardSeated
<1>5. HomeWardUsers(f) \in SUBSET Members /\ StakeUsers(f) \in SUBSET Members
  BY <1>3, <1>4 DEF HomeWardUsers, StakeUsers
<1> DEFINE home == Cardinality(HomeWardUsers(f))
           users == Cardinality(StakeUsers(f))
           portion == IF StakeSeatCap > home THEN StakeSeatCap - home ELSE 0
<1>6. home \in Nat /\ users \in Nat BY <1>2, <1>5
<1>7. portion \in Nat BY <1>6, WardsAssumption
<1>8. ASSUME NEW w \in Wards PROVE CapTyped(OverCap(w, Cardinality(SeatedAt(f, w)), SeatCap[w]))
  BY <1>2, <1>3, WardsAssumption DEF CapTyped, OverCap
<1>9. CapTyped(OverCap(Stake, users, portion)) BY <1>6, <1>7 DEF CapTyped, OverCap
<1>10. ComputeOverCaps(f) =
         {OverCap(w, Cardinality(SeatedAt(f, w)), SeatCap[w]) :
            w \in {v \in Wards : SeatCap[v] > 0 /\ Cardinality(SeatedAt(f, v)) > SeatCap[v]}}
         \cup (IF StakeSeatCap > 0 /\ users > portion THEN {OverCap(Stake, users, portion)} ELSE {})
  BY DEF ComputeOverCaps
<1> HIDE DEF home, users, portion
<1> QED BY <1>8, <1>9, <1>10

-----------------------------------------------------------------------------
(* The invariant.                                                          *)

\* SeatsSound, seat by seat.
Seated(s) == s \in Seat \cup {NoSeat} /\ (s # NoSeat => s \in Seat /\ Sound(s))

LEMMA SeatsSoundIs == SeatsSound <=> TypeOK /\ \A m \in Members : Seated(seats[m])
<1>1. \A g \in Grants(NoSeat) : FALSE BY DEF Grants
<1>2. Stamped(NoSeat) BY <1>1 DEF Stamped
<1> QED BY <1>2 DEF SeatsSound, UniqueSlots, MirrorsAgree, ForeignGrantsStamped, Seated, Sound, TypeOK

LEMMA SoundNext == ASSUME TypeOK', \A m \in Members : Seated(seats'[m]) PROVE SeatsSound'
<1>1. \A g \in Grants(NoSeat) : FALSE BY DEF Grants
<1>2. Stamped(NoSeat) BY <1>1 DEF Stamped
<1> QED BY <1>2 DEF SeatsSound, UniqueSlots, MirrorsAgree, ForeignGrantsStamped, Seated, Sound

LEMMA SoundInit == ASSUME Init PROVE SeatsSound
<1>1. seats \in [Members -> Seat \cup {NoSeat}] BY LifecycleAssumption DEF Init
<1>2. \A m \in Members : Seated(seats[m])
  BY <1>1, InitSeatsAssumption DEF Init, Seated, Sound
<1>3. \A c \in overCaps : CapTyped(c) BY <1>1, OverCapsType DEF Init
<1>4. deliveries \in [ReqIds -> 0..MaxDeliveries] BY LifecycleAssumption DEF Init
<1>5. TypeOK BY <1>1, <1>3, <1>4, InputsAssumption DEF TypeOK, Init, CapTyped
<1> QED BY <1>2, <1>5, SeatsSoundIs

\* One member's seat replaced by a sound one.
LEMMA SeatWritten ==
    ASSUME SeatsSound, NEW m \in Members, NEW t, Seated(t), seats' = [seats EXCEPT ![m] = t]
    PROVE  seats' \in [Members -> Seat \cup {NoSeat}] /\ \A u \in Members : Seated(seats'[u])
  BY SeatsSoundIs DEF TypeOK, Seated

\* A request document as the handlers leave it.
LEMMA RequestWritten ==
    ASSUME TypeOK, NEW r \in ReqIds, Exists(r), NEW outcome \in Outcomes, NEW note \in SUBSET NoteTags
    PROVE  Completed(r, outcome, note) \in [ReqIds -> Request \cup {NoRequest}]
<1>1. requests[r] \in Request BY DEF TypeOK, Exists
<1>2. [requests[r] EXCEPT !.status = "complete", !.outcome = outcome, !.note = note] \in Request
  BY <1>1 DEF Request, Statuses
<1>3. Completed(r, outcome, note) =
        [requests EXCEPT ![r] =
           [requests[r] EXCEPT !.status = "complete", !.outcome = outcome, !.note = note]]
  BY <1>1 DEF Completed, TypeOK, Request
<1> QED BY <1>2, <1>3 DEF TypeOK

LEMMA BodyType ==
    ASSUME TypeOK, NEW r \in ReqIds, Exists(r)
    PROVE  Body(r) \in Input /\ Body(r).member \in Members
  BY DEF TypeOK, Exists, Body, Request, Input

\* What a client's step, or a manager's edit of an organisation, leaves.
LEMMA ClientStep ==
    ASSUME SeatsSound, NEW r \in ReqIds,
           (\E input \in Inputs : Submit(r, input)) \/ Cancel(r) \/ Reject(r)
    PROVE  SeatsSound'
<1>1. TypeOK BY DEF SeatsSound
<1>2. UNCHANGED <<seats, access, overCaps, deliveries>> BY DEF Submit, Cancel, Reject
<1>3. requests' \in [ReqIds -> Request \cup {NoRequest}]
  <2>1. ASSUME NEW input \in Inputs, Submit(r, input) PROVE requests' \in [ReqIds -> Request \cup {NoRequest}]
    <3>1. [body |-> input, status |-> "pending", outcome |-> "none", note |-> {}] \in Request
      BY InputsAssumption DEF Request, Statuses, Outcomes
    <3> QED BY <1>1, <2>1, <3>1 DEF Submit, TypeOK
  <2>2. ASSUME NEW status \in Statuses, HasStatus(r, "pending"),
               requests' = [requests EXCEPT ![r].status = status]
        PROVE  requests' \in [ReqIds -> Request \cup {NoRequest}]
    <3>1. requests[r] \in Request BY <1>1, <2>2 DEF TypeOK, HasStatus, Exists
    <3>2. [requests[r] EXCEPT !.status = status] \in Request BY <3>1 DEF Request
    <3> QED BY <1>1, <2>2, <3>2 DEF TypeOK
  <2> QED BY <2>1, <2>2 DEF Cancel, Reject, Statuses
<1> QED BY <1>1, <1>2, <1>3 DEF SeatsSound, TypeOK, UniqueSlots, MirrorsAgree, ForeignGrantsStamped

LEMMA OrganizationStep ==
    ASSUME SeatsSound, NEW m \in Members, NEW org \in Orgs \cup {NoOrg}, SetOrganization(m, org)
    PROVE  SeatsSound'
<1>1. seats[m] \in Seat /\ Sound(seats[m]) /\ TypeOK
  BY SeatsSoundIs DEF SetOrganization, Seated
<1> DEFINE t == [seats[m] EXCEPT !.org = org]
<1>2. t \in Seat BY <1>1 DEF Seat
<1>3. /\ t.scope = seats[m].scope /\ t.type = seats[m].type /\ t.site = seats[m].site
      /\ t.dups = seats[m].dups /\ t.dupScopes = seats[m].dupScopes
  BY <1>1 DEF Seat
<1>4. seats' = [seats EXCEPT ![m] = t] BY DEF SetOrganization
<1> HIDE DEF t
<1>5. Sound(t) BY <1>1, <1>2, <1>3, SameSlots
<1>6. Seated(t) BY <1>2, <1>5 DEF Seated
<1>7. seats' \in [Members -> Seat \cup {NoSeat}] /\ \A u \in Members : Seated(seats'[u])
  BY <1>4, <1>6, SeatWritten
<1>8. TypeOK' BY <1>1, <1>7 DEF SetOrganization, TypeOK
<1> QED BY <1>7, <1>8, SoundNext

\* A manager's completion: an add, an edit, a remove.
LEMMA AddStep ==
    ASSUME SeatsSound, NEW r \in ReqIds, NEW note \in Notes, CompleteAdd(r, note)
    PROVE  SeatsSound'
<1> DEFINE b == Body(r)
           m == b.member
           t == IF seats[m] = NoSeat THEN NewSeat(b) ELSE PlanAddMerge(seats[m], b)
<1>1. TypeOK /\ Exists(r) /\ note \in SUBSET NoteTags
  BY DEF SeatsSound, CompleteAdd, HasStatus, Notes, NoteTags
<1>2. b \in Input /\ m \in Members BY <1>1, BodyType
<1>3. Seated(seats[m]) BY <1>2, SeatsSoundIs
<1>4. t \in Seat /\ Sound(t) BY <1>2, <1>3, NewSeatSound, PlanAddMergeSound DEF Seated
<1>5. seats' = [seats EXCEPT ![m] = t] BY DEF CompleteAdd
<1> HIDE DEF t
<1>6. Seated(t) BY <1>4 DEF Seated
<1>7. seats' \in [Members -> Seat \cup {NoSeat}] /\ \A u \in Members : Seated(seats'[u])
  BY <1>2, <1>5, <1>6, SeatWritten
<1>8. \A c \in overCaps' : CapTyped(c) BY <1>7, OverCapsType DEF CompleteAdd
<1>9. requests' \in [ReqIds -> Request \cup {NoRequest}]
  BY <1>1, RequestWritten DEF CompleteAdd, Outcomes
<1>10. TypeOK' BY <1>1, <1>7, <1>8, <1>9 DEF CompleteAdd, TypeOK, CapTyped
<1> QED BY <1>7, <1>10, SoundNext

LEMMA EditStep ==
    ASSUME SeatsSound, NEW r \in ReqIds, NEW note \in Notes, CompleteEdit(r, note)
    PROVE  SeatsSound'
<1> DEFINE b == Body(r)
           m == b.member
           t == PlanEditSeat(seats[m], b)
<1>1. TypeOK /\ Exists(r) /\ note \in SUBSET NoteTags
  BY DEF SeatsSound, CompleteEdit, HasStatus, Notes, NoteTags
<1>2. b \in Input /\ m \in Members BY <1>1, BodyType
<1>3. Seated(seats[m]) BY <1>2, SeatsSoundIs
<1>4. t \in Seat /\ Sound(t) BY <1>2, <1>3, PlanEditSeatSound DEF Seated, CompleteEdit
<1>5. seats' = [seats EXCEPT ![m] = t] BY DEF CompleteEdit
<1> HIDE DEF t
<1>6. Seated(t) BY <1>4 DEF Seated
<1>7. seats' \in [Members -> Seat \cup {NoSeat}] /\ \A u \in Members : Seated(seats'[u])
  BY <1>2, <1>5, <1>6, SeatWritten
<1>8. requests' \in [ReqIds -> Request \cup {NoRequest}]
  BY <1>1, RequestWritten DEF CompleteEdit, Outcomes
<1>9. TypeOK' BY <1>1, <1>7, <1>8 DEF CompleteEdit, TypeOK
<1> QED BY <1>7, <1>9, SoundNext

LEMMA RemoveStep ==
    ASSUME SeatsSound, NEW r \in ReqIds, NEW note \in Notes, CompleteRemove(r, note)
    PROVE  SeatsSound'
<1>1. TypeOK /\ Exists(r) /\ note \in SUBSET NoteTags /\ note \cup {"r1"} \in SUBSET NoteTags
  BY DEF SeatsSound, CompleteRemove, HasStatus, Notes, NoteTags
<1>2. requests' \in [ReqIds -> Request \cup {NoRequest}]
  BY <1>1, RequestWritten DEF CompleteRemove, Outcomes
<1>3. TypeOK' BY <1>1, <1>2 DEF CompleteRemove, TypeOK
<1>4. \A m \in Members : Seated(seats'[m]) BY SeatsSoundIs DEF CompleteRemove
<1> QED BY <1>3, <1>4, SoundNext

\* A delivery of the trigger.
LEMMA TriggerStep ==
    ASSUME SeatsSound, NEW r \in ReqIds, SeatTrigger(r)
    PROVE  SeatsSound'
<1> DEFINE b == Body(r)
           m == b.member
           plan == PlanRemove(seats[m], b.scope, b.site)
           t == ApplyRemove(seats[m], plan)
<1>1. TypeOK /\ Exists(r) BY DEF SeatsSound, SeatTrigger, HasStatus
<1>2. b \in Input /\ m \in Members BY <1>1, BodyType
<1>3. Seated(seats[m]) BY <1>2, SeatsSoundIs
<1>4. deliveries' \in [ReqIds -> 0..MaxDeliveries]
  BY <1>1, LifecycleAssumption DEF SeatTrigger, TypeOK
<1>5. CASE seats[m] = NoSeat
  <2>1. UNCHANGED <<requests, seats, access, overCaps>> BY <1>5 DEF SeatTrigger
  <2>2. TypeOK' BY <1>1, <1>4, <2>1 DEF TypeOK
  <2> QED BY <2>1, <2>2, SeatsSoundIs, SoundNext
<1>6. CASE seats[m] # NoSeat /\ plan.kind = "no_match"
  <2>1. Shifted(r) /\ UNCHANGED <<seats, access, overCaps>> BY <1>6 DEF SeatTrigger
  <2>2. requests' \in [ReqIds -> Request \cup {NoRequest}]
    <3>1. requests[r] \in Request BY <1>1 DEF TypeOK, Exists
    <3> DEFINE q == [requests[r] EXCEPT !.outcome = "noop_grant_shifted",
                                       !.note = IF requests[r].note = {} THEN {"shifted"} ELSE requests[r].note]
    <3>2. q \in Request BY <3>1 DEF Request, Outcomes, NoteTags
    <3>3. requests' = [requests EXCEPT ![r] = q] BY <1>1, <2>1, <3>1 DEF Shifted, TypeOK, Request
    <3> QED BY <1>1, <3>2, <3>3 DEF TypeOK
  <2>3. TypeOK' BY <1>1, <1>4, <2>1, <2>2 DEF TypeOK
  <2> QED BY <2>1, <2>3, SeatsSoundIs, SoundNext
<1>7. CASE seats[m] # NoSeat /\ plan.kind # "no_match"
  <2>1. /\ seats' = [seats EXCEPT ![m] = t]
        /\ access' = IF plan.kind = "drop_duplicate" THEN Reaped(m, b.scope, t) ELSE access
        /\ overCaps' = ComputeOverCaps([seats EXCEPT ![m] = ProjectedSeat(@, plan)])
        /\ UNCHANGED requests
    BY <1>7 DEF SeatTrigger
  <2>2. Seated(t) BY <1>3, <1>7, ApplyRemoveSound DEF Seated
  <2> HIDE DEF t, plan
  <2>3. seats' \in [Members -> Seat \cup {NoSeat}] /\ \A u \in Members : Seated(seats'[u])
    BY <1>2, <2>1, <2>2, SeatWritten
  <2>4. \A c \in overCaps' : CapTyped(c)
    <3>1. DOMAIN [seats EXCEPT ![m] = ProjectedSeat(@, plan)] = Members BY <1>1 DEF TypeOK
    <3> QED BY <2>1, <3>1, OverCapsType
  <2>5. access' \in [Members -> [importer : SUBSET Scopes, manual : SUBSET Scopes]]
    <3>1. Reaped(m, b.scope, t) \in [Members -> [importer : SUBSET Scopes, manual : SUBSET Scopes]]
      BY <1>1, <1>2 DEF Reaped, TypeOK
    <3> QED BY <1>1, <2>1, <3>1 DEF TypeOK
  <2>6. TypeOK' BY <1>1, <1>4, <2>1, <2>3, <2>4, <2>5 DEF TypeOK, CapTyped
  <2> QED BY <2>3, <2>6, SoundNext
<1> QED BY <1>5, <1>6, <1>7

LEMMA SoundStep == ASSUME SeatsSound, [Next]_vars PROVE SeatsSound'
<1>1. ASSUME Next PROVE SeatsSound'
  <2>1. ASSUME NEW r \in ReqIds, RequestNext(r) PROVE SeatsSound'
    BY <1>1, <2>1, ClientStep, AddStep, EditStep, RemoveStep, TriggerStep DEF RequestNext
  <2> QED BY <1>1, <2>1, OrganizationStep DEF Next
<1>2. ASSUME UNCHANGED vars PROVE SeatsSound'
  BY <1>2 DEF vars, SeatsSound, TypeOK, UniqueSlots, MirrorsAgree, ForeignGrantsStamped
<1> QED BY <1>1, <1>2

\* What every reader of a seat relies on holds in every state: the documents
\* are well-typed, no seat holds two grants of one slot (an edit or an add finds
\* its slot by the first match), duplicate_scopes mirrors duplicate_grants[], and
\* a grant on a ward of a foreign site carries that site (markRequestComplete.ts,
\* removeSeatOnRequestComplete.ts).
THEOREM SeatsStaySound == Spec => []SeatsSound
<1>1. Init => SeatsSound BY SoundInit
<1>2. SeatsSound /\ [Next]_vars => SeatsSound' BY SoundStep
<1> QED BY <1>1, <1>2, PTL DEF Spec

-----------------------------------------------------------------------------
(* What a step may never do.                                               *)

\* Only a completing handler makes a pending request complete, and only its own.
LEMMA WhoCompletes ==
    ASSUME TypeOK, Next, NEW q \in ReqIds, HasStatus(q, "pending"), requests'[q].status = "complete"
    PROVE  \E note \in Notes : CompleteAdd(q, note) \/ CompleteEdit(q, note) \/ CompleteRemove(q, note)
<1>1. requests[q] \in Request /\ requests[q].status = "pending" BY DEF TypeOK, HasStatus, Exists
<1>2. ASSUME NEW m \in Members, NEW org \in Orgs \cup {NoOrg}, SetOrganization(m, org) PROVE FALSE
  BY <1>1, <1>2 DEF SetOrganization
<1>3. PICK r \in ReqIds : RequestNext(r) BY <1>2 DEF Next
<1>4. ASSUME NEW input \in Inputs, Submit(r, input) PROVE FALSE
  BY <1>1, <1>4 DEF Submit, TypeOK, Exists, HasStatus
<1>5. ASSUME Cancel(r) \/ Reject(r) PROVE FALSE
  BY <1>1, <1>5 DEF Cancel, Reject, TypeOK, Request
<1>6. ASSUME SeatTrigger(r) PROVE FALSE
  BY <1>1, <1>6 DEF SeatTrigger, Shifted, TypeOK, Request
<1>7. PICK note \in Notes : CompleteAdd(r, note) \/ CompleteEdit(r, note) \/ CompleteRemove(r, note)
  BY <1>3, <1>4, <1>5, <1>6 DEF RequestNext
<1>8. r = q
  BY <1>1, <1>7 DEF CompleteAdd, CompleteEdit, CompleteRemove, Completed, TypeOK
<1> QED BY <1>7, <1>8

\* Completing an add leaves its slot granted and takes nothing; completing an
\* edit changes only its slot (markRequestComplete.ts, planAddMerge and
\* planEditSeat): no completion spoils a grant it was not asked about.
THEOREM CompletionsStayInTheirSlot == Spec => CompletionsTouchTheirSlot
<1> DEFINE Touches == \A r \in ReqIds :
                        /\ Completes(r, AddTypes)  => AddOnlyAdds(Body(r))
                        /\ Completes(r, EditTypes) => EditChangesOneSlot(Body(r))
<1>1. ASSUME SeatsSound, Next, NEW q \in ReqIds, Completes(q, AddTypes) PROVE AddOnlyAdds(Body(q))
  <2> DEFINE b == Body(q)
             m == b.member
             t == IF seats[m] = NoSeat THEN NewSeat(b) ELSE PlanAddMerge(seats[m], b)
  <2>1. TypeOK /\ HasStatus(q, "pending") /\ requests'[q].status = "complete" /\ b.type \in AddTypes
    BY <1>1 DEF SeatsSound, Completes
  <2>2. PICK note \in Notes : CompleteAdd(q, note) BY <1>1, <2>1, WhoCompletes
    DEF CompleteEdit, CompleteRemove, AddTypes, EditTypes
  <2>3. b \in Input /\ m \in Members BY <2>1, BodyType DEF HasStatus
  <2>4. Seated(seats[m]) BY <1>1, <2>3, SeatsSoundIs
  <2>5. OnlyAdds(seats[m], t, b) BY <2>3, <2>4, NewSeatSound, PlanAddMergeSound DEF Seated
  <2>6. seats'[m] = t BY <2>1, <2>2, <2>3 DEF CompleteAdd, TypeOK
  <2> HIDE DEF t
  <2> QED BY <2>5, <2>6 DEF AddOnlyAdds, OnlyAdds, Keeps
<1>2. ASSUME SeatsSound, Next, NEW q \in ReqIds, Completes(q, EditTypes) PROVE EditChangesOneSlot(Body(q))
  <2> DEFINE b == Body(q)
             m == b.member
             t == PlanEditSeat(seats[m], b)
  <2>1. TypeOK /\ HasStatus(q, "pending") /\ requests'[q].status = "complete" /\ b.type \in EditTypes
    BY <1>2 DEF SeatsSound, Completes
  <2>2. PICK note \in Notes : CompleteEdit(q, note) BY <1>2, <2>1, WhoCompletes
    DEF CompleteAdd, CompleteRemove, AddTypes, EditTypes
  <2>3. b \in Input /\ m \in Members BY <2>1, BodyType DEF HasStatus
  <2>4. Seated(seats[m]) BY <1>2, <2>3, SeatsSoundIs
  <2>5. EditsOneSlot(seats[m], t, b)
    BY <2>1, <2>2, <2>3, <2>4, PlanEditSeatSound DEF Seated, CompleteEdit
  <2>6. seats'[m] = t BY <2>1, <2>2, <2>3 DEF CompleteEdit, TypeOK
  <2> HIDE DEF t
  <2> QED BY <2>5, <2>6 DEF EditChangesOneSlot, EditsOneSlot
<1>3. SeatsSound /\ [Next]_vars => [Touches]_vars BY <1>1, <1>2
<1> QED BY <1>3, SeatsStaySound, PTL DEF Spec, CompletionsTouchTheirSlot

LEMMA NothingMissing == ASSUME NEW s PROVE Missing(s, s) = {}
  BY DEF Missing

\* What each kind of step takes from a member's seat.
LEMMA LostInStep ==
    ASSUME SeatsSound, Next, NEW m \in Members
    PROVE  \/ Missing(seats[m], seats'[m]) = {}
           \/ \E r \in ReqIds, g \in Grants(seats[m]) :
                 /\ Missing(seats[m], seats'[m]) = {g}
                 /\ deliveries'[r] > deliveries[r]
                 /\ Body(r).member = m
                 /\ Addressed(g, Body(r).scope, Body(r).site)
<1> DEFINE Taken == \E r \in ReqIds, g \in Grants(seats[m]) :
                       /\ Missing(seats[m], seats'[m]) = {g}
                       /\ deliveries'[r] > deliveries[r]
                       /\ Body(r).member = m
                       /\ Addressed(g, Body(r).scope, Body(r).site)
<1>1. TypeOK /\ \A u \in Members : Seated(seats[u]) BY SeatsSoundIs
<1>2. seats'[m] = seats[m] => Missing(seats[m], seats'[m]) = {} BY NothingMissing
<1>3. CASE UNCHANGED seats BY <1>2, <1>3
<1>4. ASSUME NEW r \in ReqIds, NEW note \in Notes, CompleteAdd(r, note) PROVE Missing(seats[m], seats'[m]) = {}
  <2> DEFINE b == Body(r)
             t == IF seats[b.member] = NoSeat THEN NewSeat(b) ELSE PlanAddMerge(seats[b.member], b)
  <2>1. b \in Input /\ b.member \in Members BY <1>1, <1>4, BodyType DEF CompleteAdd, HasStatus
  <2>2. OnlyAdds(seats[b.member], t, b)
    BY <1>1, <2>1, NewSeatSound, PlanAddMergeSound DEF Seated
  <2>3. seats' = [seats EXCEPT ![b.member] = t] BY <1>4 DEF CompleteAdd
  <2> HIDE DEF t
  <2>4. CASE m = b.member
    <3>1. seats'[m] = t BY <1>1, <2>1, <2>3, <2>4 DEF TypeOK
    <3> QED BY <2>2, <2>4, <3>1 DEF OnlyAdds, Keeps, Missing
  <2>5. CASE m # b.member BY <1>1, <1>2, <2>1, <2>3, <2>5 DEF TypeOK
  <2> QED BY <2>4, <2>5
<1>5. ASSUME NEW r \in ReqIds, NEW note \in Notes, CompleteEdit(r, note) PROVE Missing(seats[m], seats'[m]) = {}
  <2> DEFINE b == Body(r)
             t == PlanEditSeat(seats[b.member], b)
  <2>1. b \in Input /\ b.member \in Members BY <1>1, <1>5, BodyType DEF CompleteEdit, HasStatus
  <2>2. EditsOneSlot(seats[b.member], t, b)
    BY <1>1, <1>5, <2>1, PlanEditSeatSound DEF Seated, CompleteEdit
  <2>3. seats' = [seats EXCEPT ![b.member] = t] BY <1>5 DEF CompleteEdit
  <2> HIDE DEF t
  <2>4. CASE m = b.member
    <3>1. seats'[m] = t BY <1>1, <2>1, <2>3, <2>4 DEF TypeOK
    <3>2. \A g \in Grants(seats[m]) : \E h \in Grants(t) : <<Slot(h), h.site>> = <<Slot(g), g.site>>
      BY <2>2, <2>4 DEF EditsOneSlot
    <3> QED BY <3>1, <3>2 DEF Missing
  <2>5. CASE m # b.member BY <1>1, <1>2, <2>1, <2>3, <2>5 DEF TypeOK
  <2> QED BY <2>4, <2>5
<1>6. ASSUME NEW u \in Members, NEW org \in Orgs \cup {NoOrg}, SetOrganization(u, org)
      PROVE  Missing(seats[m], seats'[m]) = {}
  <2>1. CASE m = u
    <3>1. seats[m] \in Seat BY <1>1, <1>6, <2>1 DEF SetOrganization, Seated
    <3>2. seats'[m] = [seats[m] EXCEPT !.org = org] BY <1>1, <1>6, <2>1 DEF SetOrganization, TypeOK
    <3>3. /\ seats'[m] \in Seat /\ seats'[m].dups = seats[m].dups
          /\ Slot(seats'[m]) = Slot(seats[m])
      BY <3>1, <3>2 DEF Seat, Slot
    <3> QED BY <3>1, <3>3, SeatFacts DEF Missing
  <2>2. CASE m # u BY <1>1, <1>2, <1>6, <2>2 DEF SetOrganization, TypeOK
  <2> QED BY <2>1, <2>2
<1>7. ASSUME NEW r \in ReqIds, SeatTrigger(r) PROVE Missing(seats[m], seats'[m]) = {} \/ Taken
  <2> DEFINE b == Body(r)
             plan == PlanRemove(seats[b.member], b.scope, b.site)
             t == ApplyRemove(seats[b.member], plan)
  <2>1. b \in Input /\ b.member \in Members BY <1>1, <1>7, BodyType DEF SeatTrigger, HasStatus
  <2>2. deliveries'[r] > deliveries[r] BY <1>1, <1>7 DEF SeatTrigger, TypeOK
  <2>3. CASE UNCHANGED seats BY <1>2, <2>3
  <2>4. CASE seats[b.member] # NoSeat /\ plan.kind # "no_match"
    <3>1. seats' = [seats EXCEPT ![b.member] = t] BY <1>7, <2>4 DEF SeatTrigger
    <3>2. PICK g \in Grants(seats[b.member]) :
                  Missing(seats[b.member], t) = {g} /\ Addressed(g, b.scope, b.site)
      BY <1>1, <2>1, <2>4, ApplyRemoveSound DEF Seated
    <3> HIDE DEF t, plan
    <3>3. CASE m = b.member
      <4>1. seats'[m] = t BY <1>1, <2>1, <3>1, <3>3 DEF TypeOK
      <4> QED BY <2>2, <3>2, <3>3, <4>1
    <3>4. CASE m # b.member BY <1>1, <1>2, <2>1, <3>1, <3>4 DEF TypeOK
    <3> QED BY <3>3, <3>4
  <2> QED BY <1>7, <2>3, <2>4 DEF SeatTrigger
<1> QED BY <1>3, <1>4, <1>5, <1>6, <1>7 DEF Next, RequestNext, Submit, Cancel, Reject, CompleteRemove

\* However completions and deliveries interleave, a grant disappears only in a
\* delivery of a removal that names its scope and site, one grant a delivery
\* (removeSeatOnRequestComplete.ts, planRemove).
THEOREM OnlyAddressedGrantsDisappear == Spec => OnlyAddressedGrantsGo
<1> DEFINE Goes == \A m \in Members : Lost(m) # {} =>
                      /\ Cardinality(Lost(m)) = 1
                      /\ \E r \in ReqIds :
                            /\ deliveries'[r] > deliveries[r]
                            /\ Body(r).member = m
                            /\ \A g \in Lost(m) : Addressed(g, Body(r).scope, Body(r).site)
<1>1. ASSUME SeatsSound, Next PROVE Goes
  <2>1. \A m : Lost(m) = Missing(seats[m], seats'[m]) BY DEF Lost, Missing
  <2> QED BY <1>1, <2>1, LostInStep, FS_Singleton
<1>2. SeatsSound /\ [Next]_vars => [Goes]_vars BY <1>1
<1> QED BY <1>2, SeatsStaySound, PTL DEF Spec, OnlyAddressedGrantsGo

\* Calling-derived access to a scope goes only when no grant of the member's seat
\* holds that scope any more (removeSeatOnRequestComplete.ts).
THEOREM AccessGoesWithLastGrant == Spec => AccessReapedWithLastGrant
<1> DEFINE Reaps == \A m \in Members : \A scope \in access[m].importer \ access'[m].importer :
                      \A g \in Grants(seats'[m]) : g.scope # scope
<1>1. ASSUME SeatsSound, Next PROVE Reaps
  <2>1. TypeOK BY <1>1 DEF SeatsSound
  <2>2. UNCHANGED access \/ \E r \in ReqIds : SeatTrigger(r)
    BY <1>1 DEF Next, RequestNext, Submit, Cancel, Reject, CompleteAdd, CompleteEdit, CompleteRemove, SetOrganization
  <2>3. CASE UNCHANGED access BY <2>3
  <2>4. ASSUME NEW r \in ReqIds, SeatTrigger(r), ~UNCHANGED access PROVE Reaps
    <3> DEFINE b == Body(r)
               plan == PlanRemove(seats[b.member], b.scope, b.site)
               t == ApplyRemove(seats[b.member], plan)
    <3>1. b.member \in Members BY <2>1, <2>4, BodyType DEF SeatTrigger, HasStatus
    <3>2. /\ seats' = [seats EXCEPT ![b.member] = t]
          /\ access' = Reaped(b.member, b.scope, t)
      BY <2>4 DEF SeatTrigger
    <3> HIDE DEF t
    <3>3. seats'[b.member] = t BY <2>1, <3>1, <3>2 DEF TypeOK
    <3>4. \A g \in Grants(t) : g.scope # b.scope BY <2>4, <3>2 DEF Reaped
    <3>5. access' = [access EXCEPT ![b.member].importer = @ \ {b.scope}]
      BY <3>2, <3>4 DEF Reaped
    <3>6. ASSUME NEW m \in Members, NEW scope \in access[m].importer \ access'[m].importer
          PROVE  m = b.member /\ scope = b.scope
      BY <2>1, <3>1, <3>5 DEF TypeOK
    <3> QED BY <3>3, <3>4, <3>6
  <2> QED BY <2>2, <2>3, <2>4
<1>2. SeatsSound /\ [Next]_vars => [Reaps]_vars BY <1>1
<1> QED BY <1>2, SeatsStaySound, PTL DEF Spec, AccessReapedWithLastGrant

\* What no step takes back of a request.
LEMMA RequestStays ==
    ASSUME SeatsSound, Next, NEW q \in ReqIds, Exists(q)
    PROVE  /\ requests'[q].body = requests[q].body
           /\ requests[q].status # "pending" => requests'[q].status = requests[q].status
           /\ HasStatus(q, "complete") => requests[q].note \subseteq requests'[q].note
           /\ requests'[q] # NoRequest
<1> DEFINE Stays ==
             /\ requests'[q].body = requests[q].body
             /\ requests[q].status # "pending" => requests'[q].status = requests[q].status
             /\ HasStatus(q, "complete") => requests[q].note \subseteq requests'[q].note
             /\ requests'[q] # NoRequest
<1>1. TypeOK /\ requests[q] \in Request BY DEF SeatsSound, TypeOK, Exists
<1>2. requests'[q] = requests[q] => Stays BY DEF HasStatus, Exists
<1>3. ASSUME NEW m \in Members, NEW org \in Orgs \cup {NoOrg}, SetOrganization(m, org) PROVE Stays
  BY <1>2, <1>3 DEF SetOrganization
<1>4. ASSUME NEW r \in ReqIds, NEW input \in Inputs, Submit(r, input) PROVE Stays
  BY <1>1, <1>2, <1>4 DEF Submit, TypeOK
<1>5. ASSUME NEW r \in ReqIds, Cancel(r) \/ Reject(r) PROVE Stays
  BY <1>1, <1>5 DEF Cancel, Reject, HasStatus, TypeOK, Request, NoRequest
<1>6. ASSUME NEW r \in ReqIds, NEW note \in Notes,
             CompleteAdd(r, note) \/ CompleteEdit(r, note) \/ CompleteRemove(r, note)
      PROVE  Stays
  <2>1. HasStatus(r, "pending") /\ \E outcome, written : requests' = Completed(r, outcome, written)
    BY <1>6 DEF CompleteAdd, CompleteEdit, CompleteRemove
  <2>2. requests[r] \in Request BY <1>1, <2>1 DEF HasStatus, TypeOK, Exists
  <2>3. PICK outcome, written :
          requests' = [requests EXCEPT ![r] = [requests[r] EXCEPT
                         !.status = "complete", !.outcome = outcome, !.note = written]]
    <3>1. PICK outcome, written : requests' = Completed(r, outcome, written) BY <2>1
    <3>2. requests' = [requests EXCEPT ![r] = [requests[r] EXCEPT
                         !.status = "complete", !.outcome = outcome, !.note = written]]
      BY <1>1, <2>2, <3>1 DEF Completed, TypeOK, Request
    <3> QED BY <3>2
  <2>4. CASE q # r BY <1>1, <1>2, <2>3, <2>4 DEF TypeOK
  <2>5. CASE q = r
    <3>1. requests'[q].body = requests[q].body /\ requests[q].status = "pending"
      BY <1>1, <2>1, <2>3, <2>5 DEF HasStatus, TypeOK, Request
    <3>2. requests'[q] # NoRequest BY <1>1, <2>2, <2>3, <2>5 DEF TypeOK, Request, NoRequest
    <3> QED BY <3>1, <3>2 DEF HasStatus
  <2> QED BY <2>4, <2>5
<1>7. ASSUME NEW r \in ReqIds, SeatTrigger(r) PROVE Stays
  <2>1. requests' = requests \/ Shifted(r) BY <1>7 DEF SeatTrigger
  <2> QED BY <1>1, <2>1 DEF Shifted, HasStatus, TypeOK, Request, NoRequest, Exists
<1> QED BY <1>3, <1>4, <1>5, <1>6, <1>7 DEF Next, RequestNext

\* Two managers, or a manager and the requester, never both win, and what the
\* note of a completed request says is never taken back (markRequestComplete.ts,
\* removeSeatOnRequestComplete.ts).
THEOREM SettledRequestsStay == Spec => SettledStays
<1> DEFINE Lasts == \A r \in ReqIds : Exists(r) =>
             /\ requests'[r].body = requests[r].body
             /\ requests[r].status # "pending" => requests'[r].status = requests[r].status
             /\ HasStatus(r, "complete") => requests[r].note \subseteq requests'[r].note
<1>1. SeatsSound /\ [Next]_vars => [Lasts]_vars BY RequestStays
<1> QED BY <1>1, SeatsStaySound, PTL DEF Spec, SettledStays

-----------------------------------------------------------------------------
(* The over-cap snapshot of a stake whose buildings are all on its own     *)
(* site, and whose managers write no scope outside the catalogue.          *)

LEMMA AllHome ==
    ASSUME ForeignSites = {}, OtherScopes = {}, NEW s \in Seat
    PROVE  SiteClass(s) = "home"
<1>1. s.site \in {Home, Unset} /\ s.scope \in {Stake} \cup Wards BY DEF Seat, Sites, Scopes
<1>2. SiteOf(s.scope) = Home BY <1>1, WardsAssumption DEF SiteOf
<1> QED BY <1>1, <1>2 DEF SiteClass

\* There, the snapshot depends on who has a seat in which scope only.
LEMMA CapsFollowScopes ==
    ASSUME ForeignSites = {}, OtherScopes = {},
           NEW f \in [Members -> Seat \cup {NoSeat}], NEW g \in [Members -> Seat \cup {NoSeat}],
           \A m \in Members : /\ f[m] = NoSeat <=> g[m] = NoSeat
                              /\ f[m] # NoSeat => f[m].scope = g[m].scope
    PROVE  ComputeOverCaps(f) = ComputeOverCaps(g)
<1>1. \A scope : SeatedAt(f, scope) = SeatedAt(g, scope) BY DEF SeatedAt
<1>2. WardSeated(f) = WardSeated(g) BY DEF WardSeated
<1>3. \A h \in [Members -> Seat \cup {NoSeat}] : \A m \in WardSeated(h) : SiteClass(h[m]) = "home"
  BY AllHome DEF WardSeated
<1>4. \A h \in [Members -> Seat \cup {NoSeat}] :
        StakeUsers(h) = SeatedAt(h, Stake) /\ HomeWardUsers(h) = WardSeated(h)
  BY <1>3 DEF StakeUsers, HomeWardUsers
<1>5. StakeUsers(f) = StakeUsers(g) /\ HomeWardUsers(f) = HomeWardUsers(g) BY <1>1, <1>2, <1>4
<1> QED BY <1>1, <1>5 DEF ComputeOverCaps

\* The projection the trigger counts agrees there with the seat it writes.
LEMMA ProjectionAgrees ==
    ASSUME NEW s \in Seat, Sound(s), NEW scope, NEW site
    PROVE  LET plan == PlanRemove(s, scope, site)
               t    == ApplyRemove(s, plan)
               p    == ProjectedSeat(s, plan) IN
           /\ p \in Seat \cup {NoSeat}
           /\ p = NoSeat <=> t = NoSeat
           /\ p # NoSeat => p.scope = t.scope
<1> DEFINE plan == PlanRemove(s, scope, site)
           t == ApplyRemove(s, plan)
           p == ProjectedSeat(s, plan)
<1>1. CASE plan = Plan("no_match", 0)
  <2>1. t = s /\ p = s BY <1>1 DEF ApplyRemove, ProjectedSeat, Plan
  <2> QED BY <2>1
<1>2. CASE plan = Plan("delete", 0)
  <2>1. t = NoSeat /\ p = NoSeat BY <1>2 DEF ApplyRemove, ProjectedSeat, Plan
  <2> QED BY <2>1
<1>3. CASE plan = Plan("promote", 1) /\ s.dups # <<>>
  <2> DEFINE d == RemoveAt(s.dups, 1)
             first == s.dups[1]
  <2>1. 1 \in 1..Len(s.dups) BY <1>3, SeatFacts, EmptySeq
  <2>2. first \in Grant BY <2>1, SeatFacts
  <2>3. p = [s EXCEPT !.scope = first.scope] BY <1>3 DEF ProjectedSeat, Plan
  <2>4. p \in Seat /\ p.scope = first.scope BY <2>2, <2>3 DEF Seat, Grant
  <2>5. t = [WithDups(s, d) EXCEPT !.scope = first.scope, !.type = first.type, !.site = first.site,
                                   !.buildings = first.buildings, !.callings = first.callings]
    BY <1>3 DEF ApplyRemove, Plan
  <2>6. WithDups(s, d) \in Seat BY <2>1, RemoveAtFacts, SeatFacts, WithDupsType
  <2>7. t \in Seat /\ t.scope = first.scope BY <2>2, <2>5, <2>6 DEF Seat, Grant
  <2> QED BY <2>4, <2>7, SeatFacts
<1>4. CASE \E i \in 1..Len(s.dups) : plan = Plan("drop_duplicate", i)
  <2>1. PICK i \in 1..Len(s.dups) : plan = Plan("drop_duplicate", i) BY <1>4
  <2>2. i # 0 BY SeatFacts
  <2>3. t = WithDups(s, RemoveAt(s.dups, i)) /\ p = s
    BY <2>1, <2>2 DEF ApplyRemove, ProjectedSeat, Plan
  <2>4. t \in Seat /\ Primary(t) = Primary(s) BY <2>3, RemoveAtFacts, SeatFacts, WithDupsType
  <2>5. t.scope = s.scope BY <2>4 DEF Primary
  <2> QED BY <2>3, <2>4, <2>5, SeatFacts
<1> QED BY <1>1, <1>2, <1>3, <1>4, PlanRemoveCases

LEMMA CapsInStep ==
    ASSUME ForeignSites = {}, OtherScopes = {}, SeatsSound, OverCapsReflectSeats, Next
    PROVE  OverCapsReflectSeats'
<1>1. TypeOK /\ \A u \in Members : Seated(seats[u]) BY SeatsSoundIs
<1>2. seats' \in [Members -> Seat \cup {NoSeat}] BY SoundStep DEF SeatsSound, TypeOK
<1>3. CASE UNCHANGED <<seats, overCaps>> BY <1>3 DEF OverCapsReflectSeats
<1>4. ASSUME NEW r \in ReqIds, NEW note \in Notes, CompleteAdd(r, note) PROVE OverCapsReflectSeats'
  BY <1>4 DEF CompleteAdd, OverCapsReflectSeats
\* A seat rewritten in its own scope: nothing the snapshot counts has changed.
<1>5. ASSUME NEW m \in Members, NEW t, seats' = [seats EXCEPT ![m] = t],
             seats[m] # NoSeat, t \in Seat, t.scope = seats[m].scope, UNCHANGED overCaps
      PROVE  OverCapsReflectSeats'
  <2>1. \A u \in Members : /\ seats[u] = NoSeat <=> seats'[u] = NoSeat
                           /\ seats[u] # NoSeat => seats[u].scope = seats'[u].scope
    BY <1>1, <1>5, SeatFacts DEF TypeOK
  <2> QED BY <1>1, <1>2, <1>5, <2>1, CapsFollowScopes DEF TypeOK, OverCapsReflectSeats
<1>6. ASSUME NEW r \in ReqIds, NEW note \in Notes, CompleteEdit(r, note) PROVE OverCapsReflectSeats'
  <2> DEFINE b == Body(r)
             t == PlanEditSeat(seats[b.member], b)
  <2>1. b \in Input /\ b.member \in Members BY <1>1, <1>6, BodyType DEF CompleteEdit, HasStatus
  <2>2. seats[b.member] \in Seat BY <1>1, <1>6, <2>1 DEF CompleteEdit, Seated
  <2>3. t \in Seat BY <1>1, <1>6, <2>1, PlanEditSeatSound DEF CompleteEdit, Seated
  <2>4. t.scope = seats[b.member].scope BY <2>2 DEF PlanEditSeat, Edited, Seat
  <2>5. seats' = [seats EXCEPT ![b.member] = t] /\ seats[b.member] # NoSeat /\ UNCHANGED overCaps
    BY <1>6 DEF CompleteEdit
  <2> HIDE DEF t
  <2> QED BY <1>5, <2>1, <2>3, <2>4, <2>5
<1>7. ASSUME NEW u \in Members, NEW org \in Orgs \cup {NoOrg}, SetOrganization(u, org)
      PROVE  OverCapsReflectSeats'
  <2> DEFINE t == [seats[u] EXCEPT !.org = org]
  <2>1. seats[u] \in Seat BY <1>1, <1>7 DEF SetOrganization, Seated
  <2>2. t \in Seat /\ t.scope = seats[u].scope BY <2>1 DEF Seat
  <2>3. seats' = [seats EXCEPT ![u] = t] /\ seats[u] # NoSeat /\ UNCHANGED overCaps
    BY <1>7 DEF SetOrganization
  <2> HIDE DEF t
  <2> QED BY <1>5, <2>2, <2>3
<1>8. ASSUME NEW r \in ReqIds, SeatTrigger(r), ~UNCHANGED <<seats, overCaps>> PROVE OverCapsReflectSeats'
  <2> DEFINE b == Body(r)
             m == b.member
             plan == PlanRemove(seats[m], b.scope, b.site)
             t == ApplyRemove(seats[m], plan)
             p == ProjectedSeat(seats[m], plan)
             counted == [seats EXCEPT ![m] = p]
  <2>1. m \in Members BY <1>1, <1>8, BodyType DEF SeatTrigger, HasStatus
  <2>2. /\ seats[m] # NoSeat
        /\ seats' = [seats EXCEPT ![m] = t]
        /\ overCaps' = ComputeOverCaps(counted)
    BY <1>8 DEF SeatTrigger
  <2>3. /\ p \in Seat \cup {NoSeat}
        /\ p = NoSeat <=> t = NoSeat
        /\ p # NoSeat => p.scope = t.scope
    BY <1>1, <2>1, <2>2, ProjectionAgrees DEF Seated
  <2> HIDE DEF t, p, plan
  <2>4. counted \in [Members -> Seat \cup {NoSeat}] BY <1>1, <2>3 DEF TypeOK
  <2>5. \A u \in Members : /\ counted[u] = NoSeat <=> seats'[u] = NoSeat
                           /\ counted[u] # NoSeat => counted[u].scope = seats'[u].scope
    BY <1>1, <2>1, <2>2, <2>3 DEF TypeOK
  <2> HIDE DEF counted
  <2> QED BY <1>2, <2>2, <2>4, <2>5, CapsFollowScopes DEF OverCapsReflectSeats
<1> QED BY <1>3, <1>4, <1>6, <1>7, <1>8 DEF Next, RequestNext, Submit, Cancel, Reject, CompleteRemove

\* In a stake with no foreign site, whose managers write no scope outside the
\* catalogue, the stored over-cap snapshot is at all times the one of the stored
\* seats (removeSeatOnRequestComplete.ts, step 5).  With either, the projection of
\* a promoted seat keeps the site of the grant that went, and they may differ.
THEOREM OverCapsTrueAtHome ==
    ASSUME ForeignSites = {}, OtherScopes = {}
    PROVE  Spec => []OverCapsReflectSeats
<1>1. Init => OverCapsReflectSeats BY DEF Init, OverCapsReflectSeats
<1>2. SeatsSound /\ OverCapsReflectSeats /\ [Next]_vars => OverCapsReflectSeats'
  BY CapsInStep DEF vars, OverCapsReflectSeats
<1> QED BY <1>1, <1>2, SeatsStaySound, PTL DEF Spec

=============================================================================
