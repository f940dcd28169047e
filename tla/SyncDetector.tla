---------------------------- MODULE SyncDetector ----------------------------
(***************************************************************************)
(* The extension's drift detector: what one Kindoo site says of a member   *)
(* is compared with what the member's seat says of that site, and the      *)
(* first disagreement becomes the member's row of the report.  The row     *)
(* keeps a copy of what it was computed from; the fix it offers sends that *)
(* copy, however old, to the syncApplyFix callable.                        *)
(*                                                                         *)
(* A Description is its set of segments, a segment the scope its name      *)
(* resolves to and the callings in its parentheses.                        *)
(***************************************************************************)
EXTENDS SeatGrants

CONSTANTS
    AppAccess,      \* the callings of a scope that open the app
    WardRank,       \* the order of ward codes
    Doors,          \* Kindoo doors
    RuleDoors,      \* the doors of each building's Kindoo rule
    BuildingSite    \* the site of each building

Unresolved == "unresolved"   \* a segment naming no unit of this stake
Ignored    == "ignored"      \* a segment naming a ward on the ignore list

ASSUME DetectorAssumption ==
    /\ AppAccess \in [Scopes -> SUBSET Callings]
    /\ WardRank \in [Wards -> Nat]
    /\ RuleDoors \in [Buildings -> SUBSET Doors]
    /\ BuildingSite \in [Buildings -> ForeignSites \cup {Home}]
    /\ \A w \in Wards : BuildingSite[WardBuilding[w]] = WardSite[w]

KindooSites == ForeignSites \cup {Home}

Segment == [scope : {Stake, Unresolved, Ignored} \cup Wards, callings : SUBSET Callings]

\* A Kindoo user of one site; `text` is the whole Description as one calling.
KindooUser == [role : {"guest", "admin", "installer"}, temp : BOOLEAN,
               segments : SUBSET Segment, text : Callings,
               doors : SUBSET Doors, churchDoors : SUBSET Doors, rules : SUBSET Buildings]

NoUser    == [absent |-> TRUE]
NoSegment == [absent |-> TRUE]
NoRow     == [absent |-> TRUE]

-----------------------------------------------------------------------------
(* Descriptions and doors.                                                 *)

\* A user all of whose segments name ignored wards is read as no user at all.
FullyIgnored(user) ==
    user.segments # {} /\ \A s \in user.segments : s.scope = Ignored

Segments(user) == {s \in user.segments : s.scope # Ignored}
Blank(user)    == Segments(user) = {}
Resolved(user) == {s \in Segments(user) : s.scope # Unresolved}
Unparseable(user) == Resolved(user) = {}

EarnsAccess(scope, callings) == callings \cap AppAccess[scope]

\* The segment that speaks for a user: one that opens the app before one that
\* does not, the stake before a ward, and wards in their order.
PickPrimarySegment(segments) ==
    LET opening == {s \in segments : EarnsAccess(s.scope, s.callings) # {}}
        pool    == IF opening # {} THEN opening ELSE segments IN
    IF pool = {} THEN NoSegment
    ELSE IF \E s \in pool : s.scope = Stake THEN CHOOSE s \in pool : s.scope = Stake
    ELSE CHOOSE s \in pool : \A t \in pool : WardRank[s.scope] <= WardRank[t.scope]

\* (mutation) the primary segment is picked over all sites.
PickSegmentAnywhere(user, site) == PickPrimarySegment(Resolved(user))

PickSegmentForSite(user, site) == PickPrimarySegment({s \in Resolved(user) : SiteOf(s.scope) = site})

\* Who is on a site: those with a segment of it, and at home also those whose
\* Description resolves to nothing.
OnSite(user, site) ==
    /\ user # NoUser
    /\ ~FullyIgnored(user)
    /\ \/ PickSegmentForSite(user, site) # NoSegment
       \/ site = Home /\ Unparseable(user)

\* The buildings of the site whose rule has a door among `doors`.
BuildingsBehind(doors, site) ==
    {b \in Buildings : BuildingSite[b] = site /\ RuleDoors[b] \cap doors # {}}

DerivedBuildings(user, site)     == BuildingsBehind(user.doors, site)
DirectGrantBuildings(user, site) == BuildingsBehind(user.churchDoors, site)

\* Does the church's own grant back the member?  Not when it could not be read.
ChurchBacked(user, site, doorsRead) == doorsRead /\ DirectGrantBuildings(user, site) # {}

-----------------------------------------------------------------------------
(* The seat as one site sees it.                                           *)

\* The site a grant counts for: its stamp, else its ward's; unknown is home.
GrantSite(grant) ==
    IF grant.site # Unset THEN grant.site ELSE NormSite(SiteOf(grant.scope))

\* Grants by position: 0 is the primary, i the i-th duplicate.
GrantAt(st, i) == IF i = 0 THEN Primary(st) ELSE st.dups[i]

\* The positions of the grants that count for the site.
Contributors(seat, site) ==
    IF seat = NoSeat THEN {} ELSE {i \in 0..Len(seat.dups) : GrantSite(GrantAt(seat, i)) = site}

\* The first grant of the site speaks for the seat; its buildings are those of
\* every grant of the site.
SeatBlock(seat, site) ==
    LET all == Contributors(seat, site) IN
    [GrantAt(seat, Min(all)) EXCEPT !.buildings = UNION {GrantAt(seat, i).buildings : i \in all}]

-----------------------------------------------------------------------------
(* Rows, with the payload the fix of each sends.                           *)

\* What every fix names: the grant the row was surfaced from (Unset for a row
\* without one) and its site.
Row(code, site, scope) ==
    [code |-> code, site |-> site, scope |-> scope, newScope |-> Unset, type |-> "manual",
     callings |-> {}, buildings |-> {}]

CallingsOf(segment) == IF segment = NoSegment THEN {} ELSE segment.callings

\* A new grant where the site's own segment puts it.  The doors say which
\* buildings, the rules only when the doors could not be read.
KindooOnlyFix(user, site, type, doorsRead) ==
    LET primary == PickSegmentForSite(user, site) IN
    [Row("kindoo-only", site, Unset) EXCEPT
        !.newScope  = IF primary = NoSegment THEN Stake ELSE primary.scope,
        !.type      = type,
        !.callings  = CallingsOf(primary),
        !.buildings = IF doorsRead THEN DerivedBuildings(user, site) ELSE user.rules]

\* The move takes Kindoo's callings along: access is written from them.
ScopeFix(block, primary, site) ==
    [Row("scope-mismatch", site, block.scope) EXCEPT
        !.newScope = primary.scope, !.callings = primary.callings]

PromoteFix(block, primary, site) ==
    [Row("type-mismatch", site, block.scope) EXCEPT
        !.type = "auto", !.callings = CallingsOf(primary)]

DemoteFix(block, site) == Row("type-mismatch", site, block.scope)

\* Refused when the doors could not be read: no set is sent in their place.
BuildingsFix(block, derived, site) ==
    [Row("buildings-mismatch", site, block.scope) EXCEPT !.buildings = derived]

CallingsFix(block, primary, site) ==
    [Row("callings-mismatch", site, block.scope) EXCEPT !.callings = primary.callings]

OrphanFix(block, site) == Row("sba-only", site, block.scope)

UnparseableFix(block, user, site) ==
    [Row("kindoo-unparseable", site, block.scope) EXCEPT !.callings = {user.text}]

\* A row that offers no fix.
Review(site) == [code |-> "review", site |-> site]

-----------------------------------------------------------------------------
(* Which row.                                                              *)

CreatedType(user, site, doorsRead) ==
    IF user.temp THEN "temp"
    ELSE IF user.role = "admin" \/ ChurchBacked(user, site, doorsRead) THEN "auto"
    ELSE "manual"

\* Kindoo has a user and the seat, if any, has no grant of the site.
KindooOnlyRow(seat, user, site, doorsRead) ==
    LET primary == PickSegmentForSite(user, site)
        type    == CreatedType(user, site, doorsRead) IN
    IF (Blank(user) /\ type = "manual") \/ (seat # NoSeat /\ primary = NoSegment)
    THEN Review(site)
    ELSE KindooOnlyFix(user, site, type, doorsRead)

\* Both have the member: a Description that resolves to nothing on the site.
NoSegmentRow(block, user, site) ==
    IF Blank(user) \/ ~Unparseable(user) THEN Review(site)
    ELSE IF block.scope = Stake /\ block.callings = {user.text} THEN NoRow
    ELSE UnparseableFix(block, user, site)

\* Both have the member and a segment of the site: the first difference wins.
MismatchRow(block, user, primary, site, doorsRead) ==
    LET guest    == user.role = "guest" /\ block.type # "temp" /\ doorsRead
        backed   == ChurchBacked(user, site, doorsRead)
        compared == IF doorsRead THEN DerivedBuildings(user, site) ELSE user.rules IN
    IF primary.scope # block.scope
    THEN ScopeFix(block, primary, site)
    ELSE IF guest /\ block.type = "manual" /\ backed
    THEN PromoteFix(block, primary, site)
    ELSE IF guest /\ block.type = "auto" /\ ~backed
    THEN DemoteFix(block, site)
    ELSE IF (doorsRead \/ block.type # "auto") /\ compared # block.buildings
    THEN IF doorsRead /\ compared # {}
         THEN BuildingsFix(block, compared, site)
         ELSE Review(site)
    ELSE IF block.type = "auto" /\ primary.callings # {} /\ primary.callings # block.callings
    THEN CallingsFix(block, primary, site)
    ELSE NoRow

\* The member's row of one site's report; `doorsRead` tells whether reading the
\* user's doors from Kindoo succeeded.
Detect(seat, user, site, doorsRead) ==
    LET seated  == Contributors(seat, site) # {}
        present == OnSite(user, site)
        block   == SeatBlock(seat, site)
        primary == PickSegmentForSite(user, site) IN
    IF ~present
    THEN IF seated THEN OrphanFix(block, site) ELSE NoRow
    ELSE IF user.role = "installer" THEN NoRow
    ELSE IF ~seated THEN KindooOnlyRow(seat, user, site, doorsRead)
    ELSE IF user.role = "admin" /\ block.type = "manual"
    THEN PromoteFix(block, NoSegment, site)
    ELSE IF primary = NoSegment THEN NoSegmentRow(block, user, site)
    ELSE MismatchRow(block, user, primary, site, doorsRead)

Fixable(row) == row # NoRow /\ row.code # "review"
=============================================================================
