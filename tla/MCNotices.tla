------------------------------ MODULE MCNotices ------------------------------
(* Notices on one home site: three members and w1's cap of one seat.        *)
EXTENDS Notices, TLC

CONSTANTS m1, m2, m3, w1, b1, o1

MCWardSite == w1 :> Home
MCWardBuilding == w1 :> b1
MCSeatCap == w1 :> 1

In(type, m, scope, site) ==
    [type |-> type, member |-> m, scope |-> scope, site |-> site, buildings |-> {b1}, org |-> NoOrg,
     reason |-> {}]

MCInputs ==
    { In("add_manual", m2, w1, Unset), In("add_manual", m3, w1, Unset), In("remove", m2, w1, Home),
      In("remove", m2, Stake, Home), In("edit_manual", m2, Stake, Unset) }

PlainSeat(scope, dups) ==
    [scope |-> scope, type |-> "manual", site |-> Home, buildings |-> {b1}, org |-> NoOrg,
     callings |-> {}, dups |-> dups, dupScopes |-> ScopesOf(dups)]
PlainGrant(scope) ==
    [scope |-> scope, type |-> "manual", site |-> Home, buildings |-> {b1}, org |-> NoOrg, callings |-> {}]

\* m1 sits in w1; m2 nowhere, or in the stake with a duplicate in w1.
MCInitSeats ==
    { m1 :> PlainSeat(w1, <<>>) @@ m2 :> seat @@ m3 :> NoSeat :
        seat \in {NoSeat, PlainSeat(Stake, <<PlainGrant(w1)>>)} }
MCInitAccess == [m \in Members |-> IF m = m2 THEN [importer |-> {w1}, manual |-> {}] ELSE NoAccess]
ReqSymmetry == Permutations(ReqIds)
=============================================================================
