------------------------- MODULE MCRequestLifecycle -------------------------
(* Instances of RequestLifecycle for TLC: two wards, w1 on the home site and *)
(* w2 on the foreign site (or both at home), and request bodies that meet.  *)
EXTENDS RequestForms, TLC

CONSTANTS m1, m2, w1, w2, x, s2, b1, b2, o1

TwoSites == w1 :> Home @@ w2 :> s2
MCWardBuilding == w1 :> b1 @@ w2 :> b2
MCSeatCap == w1 :> 1 @@ w2 :> 0
MCBuildingSite == b1 :> Home @@ b2 :> s2
\* A manager, and a stake or ward user with full or with limited access.
User(manager, stake, wards, limited) ==
    [manager |-> manager, stake |-> stake, wards |-> wards, limited |-> limited]
MCPrincipals == {User(TRUE, FALSE, {}, FALSE)} \cup
    {User(FALSE, stake, wards, limited) : stake \in BOOLEAN, wards \in {{w1}, {w2}}, limited \in BOOLEAN}
In(type, m, scope, site, buildings, org) ==
    [type |-> type, member |-> m, scope |-> scope, site |-> site, buildings |-> buildings, org |-> org,
     reason |-> {}]

Adds(m) ==
    { In("add_manual", m, w1, Unset, {b1}, NoOrg),
      In("add_temp",   m, w1, Unset, {b2}, NoOrg),
      In("add_manual", m, w2, Unset, {}, NoOrg) }
StakeAdds(m) ==
    { In("add_manual", m, Stake, Unset, {b1}, o1), In("add_manual", m, Stake, Unset, {b2}, NoOrg) }
Removes(m) ==
    { In("remove", m, w1, Home, {}, NoOrg), In("remove", m, w2, SiteOf(w2), {}, NoOrg),
      In("remove", m, Stake, Home, {}, NoOrg) }
LegacyRemoves(m) == { In("remove", m, w1, Unset, {}, NoOrg) }
Edits(m) ==
    { In("edit_manual", m, w1, Unset, {b2}, NoOrg), In("edit_auto", m, w1, Unset, {b2}, NoOrg),
      In("edit_manual", m, Stake, Unset, {b2}, NoOrg) }

\* A scope no ward of the catalogue has.
UnknownAdds(m) == { In("add_manual", m, x, Unset, {b1}, NoOrg), In("remove", m, x, Home, {}, NoOrg) }

\* One member, every kind of request.
OneMemberInputs == UnknownAdds(m1) \cup Adds(m1) \cup StakeAdds(m1) \cup Removes(m1) \cup LegacyRemoves(m1) \cup Edits(m1)
AutoSeat(scope, dups) ==
    [scope |-> scope, type |-> "auto", site |-> SiteOf(scope), buildings |-> {b1}, org |-> NoOrg,
     callings |-> {}, dups |-> dups, dupScopes |-> ScopesOf(dups)]
AutoGrant(scope) ==
    [scope |-> scope, type |-> "auto", site |-> SiteOf(scope), buildings |-> {b2}, org |-> NoOrg,
     callings |-> {}]

\* No seat, an importer's auto seat, and one with a second calling elsewhere.
MCInitSeats ==
    {[m \in Members |-> NoSeat]}
    \cup {[m \in Members |-> IF m = m1 THEN AutoSeat(w1, dups) ELSE NoSeat] :
            dups \in {<<>>, <<AutoGrant(w2)>>}}
ReqSymmetry == Permutations(ReqIds)
MCInitAccess == [m \in Members |->
    IF m = m1 THEN [importer |-> {w1, w2}, manual |-> {}] ELSE NoAccess]
=============================================================================
