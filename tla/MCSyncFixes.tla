----------------------------- MODULE MCSyncFixes -----------------------------
(* Instances of SyncFixes for TLC: ward w1 at home, ward w2 on a foreign     *)
(* site, two home buildings and one foreign, a calling that opens the app in *)
(* a ward (c1) and one that opens it in the stake (c2).                      *)
EXTENDS SyncFixes, TLC

CONSTANTS w1, w2, s2, b1, b2, b3, c1, c2, d1, d2, d3

MCWardSite     == w1 :> Home @@ w2 :> s2
MCWardBuilding == w1 :> b1 @@ w2 :> b2
MCBuildingSite == b1 :> Home @@ b2 :> s2 @@ b3 :> Home
MCRuleDoors    == b1 :> {d1} @@ b2 :> {d2} @@ b3 :> {d3}
MCAppAccess    == Stake :> {c2} @@ w1 :> {c1} @@ w2 :> {c1}
MCWardRank     == w1 :> 1 @@ w2 :> 2
MCSeatCap      == w1 :> 0 @@ w2 :> 0

Seg(scope, callings) == [scope |-> scope, callings |-> callings]

User(role, temp, segments, text, doors, churchDoors, rules) ==
    [role |-> role, temp |-> temp, segments |-> segments, text |-> text,
     doors |-> doors, churchDoors |-> churchDoors, rules |-> rules]

Guest(segments, doors, churchDoors) == User("guest", FALSE, segments, c2, doors, churchDoors, {})

HomeGuest    == Guest({Seg(w1, {c1}), Seg(w2, {c1})}, {d1}, {d1})
ForeignGuest == Guest({Seg(w1, {c1}), Seg(w2, {c1})}, {d2}, {d2})

HomeUsers ==
    { NoUser, HomeGuest,
      Guest({Seg(w1, {c1, c2})}, {d1, d3}, {d3}),
      Guest({Seg(w1, {c2})}, {d1}, {}),
      Guest({Seg(Stake, {c2})}, {d3}, {d3}),
      Guest({Seg(Unresolved, {})}, {d1}, {d1}),
      Guest({}, {d1}, {}),
      Guest({Seg(Ignored, {c1})}, {d1}, {d1}),
      User("guest", TRUE, {Seg(w1, {c1})}, c1, {d1}, {}, {b1}),
      User("admin", FALSE, {Seg(w1, {c1})}, c1, {d1}, {}, {b1}),
      User("installer", FALSE, {Seg(w1, {c1})}, c1, {}, {}, {}) }
ForeignUsers == { NoUser, ForeignGuest, Guest({Seg(w2, {c2})}, {d2}, {}) }

MCUsers     == Home :> HomeUsers @@ s2 :> ForeignUsers
MCInitUsers == Home :> {NoUser, HomeGuest} @@ s2 :> {NoUser, ForeignGuest}

G(scope, type, site, buildings, callings) ==
    [scope |-> scope, type |-> type, site |-> site, buildings |-> buildings, org |-> NoOrg,
     callings |-> callings]

MCInitSeats ==
    { NoSeat,
      SeatOf(G(w1, "auto", Unset, {b1}, {c1}), <<>>),
      SeatOf(G(w1, "manual", Unset, {b1, b3}, {c2}), <<>>),
      SeatOf(G(Stake, "auto", Unset, {b3}, {c2}), <<G(w2, "auto", s2, {b2}, {c1})>>),
      SeatOf(G(w2, "manual", Home, {b2}, {c2}), <<>>) }

Req(type, scope, site) ==
    [type |-> type, scope |-> scope, site |-> site, buildings |-> {b1}, org |-> NoOrg, reason |-> {c2}]
MCRequests == { Req("add_manual", w1, Unset), Req("add_manual", w2, Unset), Req("remove", w1, Home) }
=============================================================================
