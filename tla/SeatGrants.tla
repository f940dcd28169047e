----------------------------- MODULE SeatGrants -----------------------------
(***************************************************************************)
(* The pure planners behind every change of a member's seat: how an add    *)
(* merges into a seat (planAddMerge), how an edit rewrites one slot        *)
(* (planEditSeat), which grant a completed remove takes away (planRemove), *)
(* and how the over-cap snapshot of a stake is computed (computeOverCaps). *)
(*                                                                         *)
(* A seat holds one primary grant in its top-level fields and any number   *)
(* of further grants in duplicate_grants[] (dups).  Absent Firestore       *)
(* fields are Unset, a null Kindoo site is Home, a null organisation is    *)
(* NoOrg.  What justifies a grant - the callings of an auto one, the reason  *)
(* of another - is its set `callings`; dates are left out.                 *)
(***************************************************************************)
EXTENDS Integers, FiniteSets, Sequences, SequencesExt

CONSTANTS
    Wards,          \* ward codes in the stake's catalogue
    OtherScopes,    \* scopes a manager may write that name no ward
    ForeignSites,   \* the stake's foreign Kindoo sites
    Buildings,      \* building names
    Orgs,           \* organisations of the stake
    Callings,       \* texts of callings and reasons
    WardSite,       \* the site of each ward's building (resolveWardSite)
    WardBuilding,   \* the name of each ward's building
    SeatCap,        \* the ward docs' seat_cap
    StakeSeatCap    \* the stake doc's stake_seat_cap

Stake == "stake"
Home  == "home"
Unset == "unset"
NoOrg == "no_org"

ASSUME ScopesAssumption ==
    /\ Stake \notin Wards \cup OtherScopes
    /\ Wards \cap OtherScopes = {}
    /\ {Home, Unset} \cap ForeignSites = {}
    /\ NoOrg \notin Orgs

ASSUME WardsAssumption ==
    /\ IsFiniteSet(Wards)
    /\ WardSite \in [Wards -> ForeignSites \cup {Home}]
    /\ WardBuilding \in [Wards -> Buildings]
    /\ SeatCap \in [Wards -> Nat]
    /\ StakeSeatCap \in Nat

Scopes    == {Stake} \cup Wards \cup OtherScopes
SeatTypes == {"auto", "manual", "temp"}
Sites     == {Home, Unset} \cup ForeignSites

Grant == [scope : Scopes, type : SeatTypes, site : Sites,
          buildings : SUBSET Buildings, org : Orgs \cup {NoOrg}, callings : SUBSET Callings]

Seat == [scope : Scopes, type : SeatTypes, site : Sites,
         buildings : SUBSET Buildings, org : Orgs \cup {NoOrg}, callings : SUBSET Callings,
         dups : Seq(Grant), dupScopes : Seq(Scopes)]

NoSeat == [absent |-> TRUE]

\* A duplicate_grants[] array determines its primitive mirror.
ScopesOf(dups) == [i \in 1..Len(dups) |-> dups[i].scope]

Primary(seat) == [scope |-> seat.scope, type |-> seat.type, site |-> seat.site,
                  buildings |-> seat.buildings, org |-> seat.org, callings |-> seat.callings]

\* The grants of a seat in display order: the primary, then the duplicates.
Grants(seat) == IF seat = NoSeat THEN {} ELSE {Primary(seat)} \cup ToSet(seat.dups)

\* `?? null`: an absent site field reads as home.
NormSite(site) == IF site = Unset THEN Home ELSE site

\* The site an add stamps: stake is home, a ward its building's site, and an
\* unknown ward leaves the field absent.
SiteOf(scope) ==
    IF scope = Stake THEN Home ELSE IF scope \in Wards THEN WardSite[scope] ELSE Unset

WithDups(seat, dups) == [seat EXCEPT !.dups = dups, !.dupScopes = ScopesOf(dups)]

-----------------------------------------------------------------------------
(* Adding.                                                                 *)

AddType(type) == IF type = "add_manual" THEN "manual" ELSE "temp"

\* The organisation an add carries: only at stake scope, and a null never
\* clears one that is there.
MergedOrg(req, org) == IF req.scope = Stake /\ req.org # NoOrg THEN req.org ELSE org

Merged(grant, req) ==
    [grant EXCEPT !.buildings = @ \cup req.buildings, !.org = MergedOrg(req, @)]

SlotIndex(dups, scope, type) ==
    SelectInSeq(dups, LAMBDA d : d.scope = scope /\ d.type = type)

NewDuplicate(req) ==
    [scope |-> req.scope, type |-> AddType(req.type), site |-> SiteOf(req.scope),
     buildings |-> req.buildings, org |-> MergedOrg(req, NoOrg), callings |-> req.reason]

\* (mutation) the duplicates are not searched: the entry is always appended.
PlanAddMergeBlindAppend(seat, req) ==
    IF seat.scope = req.scope /\ seat.type = AddType(req.type)
    THEN Merged(seat, req)
    ELSE WithDups(seat, Append(seat.dups, NewDuplicate(req)))

\* The seat after an add: the primary slot, else the first duplicate with the
\* request's (scope, type), takes the buildings; otherwise a grant is appended.
\* (A match that adds nothing is not written; the result is the same.)
PlanAddMerge(seat, req) ==
    LET i == SlotIndex(seat.dups, req.scope, AddType(req.type)) IN
    IF seat.scope = req.scope /\ seat.type = AddType(req.type)
    THEN Merged(seat, req)
    ELSE IF i > 0
    THEN LET merged == Merged(seat.dups[i], req) IN
         IF merged = seat.dups[i] THEN seat
         ELSE WithDups(seat, ReplaceAt(seat.dups, i, merged))
    ELSE WithDups(seat, Append(seat.dups, NewDuplicate(req)))

\* The seat created for a member who has none.
NewSeat(req) ==
    [scope |-> req.scope, type |-> AddType(req.type), site |-> SiteOf(req.scope),
     buildings |-> IF req.buildings = {} /\ req.scope \in Wards
                   THEN {WardBuilding[req.scope]} ELSE req.buildings,
     org |-> MergedOrg(req, NoOrg), callings |-> req.reason, dups |-> <<>>, dupScopes |-> <<>>]

-----------------------------------------------------------------------------
(* Editing.                                                                *)

EditType(type) ==
    CASE type = "edit_auto" -> "auto" [] type = "edit_manual" -> "manual" [] type = "edit_temp" -> "temp"

\* An edit replaces the buildings, the reason of a grant no calling backs, and
\* at stake scope the organisation: the edit form is authoritative, so a null
\* clears it.
Edited(grant, req) ==
    [grant EXCEPT !.buildings = req.buildings,
                  !.callings = IF req.type = "edit_auto" THEN @ ELSE req.reason,
                  !.org = IF req.scope = Stake /\ req.type # "edit_auto" THEN req.org ELSE @]

HasSlot(seat, scope, type) ==
    \/ seat.scope = scope /\ seat.type = type
    \/ SlotIndex(seat.dups, scope, type) > 0

\* (mutation) every grant of the scope is edited, whatever its type.
PlanEditSeatByScope(seat, req) ==
    [seat EXCEPT !.buildings = IF seat.scope = req.scope THEN req.buildings ELSE @,
                 !.dups = [i \in 1..Len(seat.dups) |->
                             IF seat.dups[i].scope = req.scope THEN Edited(seat.dups[i], req)
                             ELSE seat.dups[i]]]

\* The seat after an edit of the slot its request names; HasSlot is required.
PlanEditSeat(seat, req) ==
    LET type == EditType(req.type)
        i    == SlotIndex(seat.dups, req.scope, type) IN
    IF seat.scope = req.scope /\ seat.type = type
    THEN Edited(seat, req)
    ELSE [seat EXCEPT !.dups = ReplaceAt(@, i, Edited(@[i], req))]

-----------------------------------------------------------------------------
(* Removing.                                                               *)

\* Does a grant carry the (scope, site) a remove request names?  A request
\* without a site (a legacy document) matches by scope alone.
Addressed(grant, scope, site) ==
    grant.scope = scope /\ (site = Unset \/ NormSite(grant.site) = site)

Plan(kind, index) == [kind |-> kind, index |-> index]

\* (mutation) a request that matches no grant falls through to the primary.
PlanRemoveFallsThrough(seat, scope, site) ==
    LET any == SelectInSeq(seat.dups, LAMBDA d : Addressed(d, scope, site)) IN
    IF any > 0 /\ ~Addressed(seat, scope, site) THEN Plan("drop_duplicate", any)
    ELSE IF seat.dups = <<>> THEN Plan("delete", 0) ELSE Plan("promote", 1)

PlanRemove(seat, scope, site) ==
    LET primary == Addressed(seat, scope, site)
        manual  == SelectInSeq(seat.dups, LAMBDA d : Addressed(d, scope, site) /\ d.type # "auto")
        any     == SelectInSeq(seat.dups, LAMBDA d : Addressed(d, scope, site)) IN
    IF primary /\ seat.type = "auto" /\ manual > 0 THEN Plan("drop_duplicate", manual)
    ELSE IF primary /\ seat.dups = <<>> THEN Plan("delete", 0)
    ELSE IF primary THEN Plan("promote", 1)
    ELSE IF any > 0 THEN Plan("drop_duplicate", any)
    ELSE Plan("no_match", 0)

\* The seat write of each plan.  A promotion copies scope, type, callings,
\* buildings and site from the first duplicate; the organisation field is left as it is.
ApplyRemove(seat, plan) ==
    LET next == IF plan.index = 0 THEN seat.dups ELSE RemoveAt(seat.dups, plan.index) IN
    CASE plan.kind = "delete"   -> NoSeat
      [] plan.kind = "promote"  -> [WithDups(seat, next) EXCEPT
             !.scope = seat.dups[1].scope, !.type = seat.dups[1].type,
             !.site = seat.dups[1].site, !.buildings = seat.dups[1].buildings,
             !.callings = seat.dups[1].callings]
      [] plan.kind = "drop_duplicate" -> WithDups(seat, next)
      [] plan.kind = "no_match" -> seat

\* What the trigger hands to ComputeOverCaps in place of the seat it wrote.
ProjectedSeat(seat, plan) ==
    CASE plan.kind = "delete"  -> NoSeat
      [] plan.kind = "promote" -> [seat EXCEPT !.scope = seat.dups[1].scope]
      [] OTHER                 -> seat

-----------------------------------------------------------------------------
(* Over-caps.  `seats` is a function from members to seats or NoSeat.      *)

\* home, foreign or unknown, as seatSiteClassification decides it.
SiteClass(seat) ==
    LET site == IF seat.site # Unset THEN seat.site ELSE SiteOf(seat.scope) IN
    IF site = Home THEN "home" ELSE IF site = Unset THEN "unknown" ELSE "foreign"

HasStakeDuplicate(seat) == \E i \in 1..Len(seat.dups) : seat.dups[i].scope = Stake

SeatedAt(seats, scope) == {m \in DOMAIN seats : seats[m] # NoSeat /\ seats[m].scope = scope}

WardSeated(seats) == {m \in DOMAIN seats : seats[m] # NoSeat /\ seats[m].scope # Stake}

\* The members who use a home licence through a stake grant.
StakeUsers(seats) ==
    SeatedAt(seats, Stake)
    \cup {m \in WardSeated(seats) : SiteClass(seats[m]) = "foreign" /\ HasStakeDuplicate(seats[m])}

\* The members who use one through a home ward.
HomeWardUsers(seats) == {m \in WardSeated(seats) : SiteClass(seats[m]) = "home"}

OverCap(pool, count, cap) == [pool |-> pool, count |-> count, cap |-> cap]

\* The wards and the stake whose seats exceed their cap; the stake's share is
\* what the home wards' members leave of stake_seat_cap.
ComputeOverCaps(seats) ==
    LET homeWard == Cardinality(HomeWardUsers(seats))
        stake    == Cardinality(StakeUsers(seats))
        portion  == IF StakeSeatCap > homeWard THEN StakeSeatCap - homeWard ELSE 0 IN
    {OverCap(w, Cardinality(SeatedAt(seats, w)), SeatCap[w]) :
        w \in {v \in Wards : SeatCap[v] > 0 /\ Cardinality(SeatedAt(seats, v)) > SeatCap[v]}}
    \cup (IF StakeSeatCap > 0 /\ stake > portion THEN {OverCap(Stake, stake, portion)} ELSE {})
=============================================================================
