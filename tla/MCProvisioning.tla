--------------------------- MODULE MCProvisioning ---------------------------
(* Instances of Provisioning for TLC: one member, a home ward and a ward of a  *)
(* foreign site, and three buildings, two of them on the home site.           *)
EXTENDS Provisioning, TLC

CONSTANTS m1, w1, w2, s2, b1, b2, b3, x1, d1, d2, d3, d4

MCWardSite     == w1 :> Home @@ w2 :> s2
MCWardBuilding == w1 :> b1 @@ w2 :> b3
MCSeatCap      == w1 :> 0 @@ w2 :> 0
\* The ward's and the stake's building share a door; the stray opens the ward's
\* other door, as a rule that the ward's building was mapped to before.
MCDoorsOf      == b1 :> {d1, d2} @@ b2 :> {d2, d3} @@ b3 :> {d4} @@ x1 :> {d1}
MCBuildingSite == b1 :> Home @@ b2 :> Home @@ b3 :> s2

In(type, scope, site, buildings) ==
    [type |-> type, member |-> m1, scope |-> scope, site |-> site, buildings |-> buildings,
     org |-> NoOrg, reason |-> {}]

MCInputs ==
    { In("add_manual", w1, Unset, {b1}), In("add_temp", Stake, Unset, {b2}),
      In("add_manual", w2, Unset, {b3}),
      In("remove", w1, Home, {}), In("remove", w2, s2, {}), In("remove", Stake, Home, {}),
      In("edit_manual", w1, Unset, {b2}), In("edit_manual", Stake, Unset, {b1}),
      In("edit_temp", Stake, Unset, {b1}), In("edit_auto", w1, Unset, {b1, b2}) }

AutoSeat == [scope |-> w1, type |-> "auto", site |-> Home, buildings |-> {b1}, org |-> NoOrg,
             callings |-> {}, dups |-> <<>>, dupScopes |-> <<>>]
\* A calling in the ward beside a grant of the stake.
MixedSeat == [scope |-> Stake, type |-> "manual", site |-> Home, buildings |-> {b2}, org |-> NoOrg,
              callings |-> {}, dups |-> <<[Primary(AutoSeat) EXCEPT !.site = Unset]>>, dupScopes |-> <<w1>>]
MCInitSeats  == {[m \in Members |-> seat] : seat \in {NoSeat, AutoSeat, MixedSeat}}
MCInitAccess == [m \in Members |-> NoAccess]

\* A door of the ward's building by the church, the other by the stray.
ByStray  == [temp |-> TRUE, rules |-> Strays, direct |-> {d2}, names |-> <<w1>>]
\* The ward's building by the church alone, the stake's by schedule.
ByChurch == [temp |-> FALSE, rules |-> {b2}, direct |-> {d1, d2}, names |-> <<Stake, w1>>]
MCInitKindoo == {[m \in Members |-> [s \in RealSites |-> IF s = Home THEN user ELSE NoUser]] :
                   user \in {NoUser, ByStray, ByChurch}}
ReqSymmetry == Permutations(ReqIds)
=============================================================================
