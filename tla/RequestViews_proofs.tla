------------------------ MODULE RequestViews_proofs ------------------------
(***************************************************************************)
(* What people read of requests and seats, for any wards, sites, members,  *)
(* requests, outstanding events, second deliveries and failures.  In the   *)
(* app (RequestForms): what a dialog offers, the create rule admits, and a *)
(* row means what it shows.  In a stake's history (Notices): the audit     *)
(* rows of a document lead from each of its values to the next and name    *)
(* the writer, the managers hear once of every tip over a cap, and of a    *)
(* request one outcome at most.                                            *)
(***************************************************************************)
EXTENDS RequestForms, Notices, RequestLifecycle_proofs

-----------------------------------------------------------------------------
(* What the dialogs offer, the create rule admits.                         *)

\* A scope on the form's menu is one the rule grants the user.
LEMMA AllowedIsAdmitted ==
    ASSUME NEW p \in Principal, NEW scope \in AllowedScopes(p)
    PROVE  IsScopeAllowed(p, scope)
<1>1. Stake \notin Wards /\ p.wards \subseteq Wards BY ScopesAssumption DEF Principal
<1> QED BY <1>1 DEF AllowedScopes, IsScopeAllowed

\* The buildings a form sends are some of the stake's, and a limited user's
\* ward request names the ward's own.
LEMMA ChoicesFit ==
    ASSUME NEW p \in Principal, NEW scope \in Scopes, NEW b \in BuildingChoices(p, scope)
    PROVE  /\ b # {} /\ b \subseteq Buildings
           /\ p.limited /\ scope # Stake => scope \in Wards /\ b = {WardBuilding[scope]}
<1>1. CASE p.limited /\ scope # Stake
  <2>1. CASE scope \in Wards
    <3>1. WardBuilding[scope] \in Buildings BY <2>1, WardsAssumption
    <3>2. b = {WardBuilding[scope]} BY <1>1, <2>1 DEF BuildingChoices
    <3> QED BY <2>1, <3>1, <3>2
  <2>2. CASE scope \notin Wards BY <1>1, <2>2 DEF BuildingChoices
  <2> QED BY <2>1, <2>2
<1>2. CASE ~(p.limited /\ scope # Stake)
  <2>1. b \in (SUBSET VisibleBuildings(scope)) \ {{}} BY <1>2 DEF BuildingChoices
  <2> QED BY <1>2, <2>1 DEF VisibleBuildings
<1> QED BY <1>1, <1>2

LEMMA ScopesAdmitted ==
    ASSUME NEW p \in Principal, NEW scope \in Scopes, IsScopeAllowed(p, scope)
    PROVE  p.manager \/ (scope = Stake /\ p.stake) \/ scope \in p.wards
BY DEF IsScopeAllowed

LEMMA NewFormsAdmitted ==
    ASSUME NEW p \in Principal, NEW m, NEW seat, NEW f \in NewForms(p, m, seat)
    PROVE  CreateAdmitted(p, f, seat)
<1>1. PICK scope \in AllowedScopes(p) :
        \E type \in IF p.limited THEN {"add_temp"} ELSE AddTypes, b \in BuildingChoices(p, scope),
           org \in OrgChoices(scope), reason \in Reasons, long \in BOOLEAN, comment \in BOOLEAN :
           f = Form(type, m, scope, Unset, b, org, reason, long, comment)
  BY DEF NewForms
<1>2. PICK type \in IF p.limited THEN {"add_temp"} ELSE AddTypes, b \in BuildingChoices(p, scope),
           org \in OrgChoices(scope), reason \in Reasons, long \in BOOLEAN, comment \in BOOLEAN :
           f = Form(type, m, scope, Unset, b, org, reason, long, comment)
  BY <1>1, Zenon
<1>3. f.input.type = type /\ f.input.scope = scope /\ f.input.buildings = b /\ f.long = long
  BY <1>2 DEF Form
<1>4. NewFormValid(p, f) BY DEF NewForms
<1>5. scope \in Scopes BY DEF AllowedScopes, Scopes, Principal
<1>6. type \in AddTypes /\ (p.limited => type = "add_temp") BY DEF AddTypes
<1>7. b # {} /\ (p.limited /\ scope # Stake => scope \in Wards /\ b = {WardBuilding[scope]})
  BY <1>5, ChoicesFit
<1>8. p.manager \/ (scope = Stake /\ p.stake) \/ scope \in p.wards
  BY <1>5, AllowedIsAdmitted, ScopesAdmitted
<1>9. p.limited => LimitedClauses(f, seat)
  BY <1>3, <1>4, <1>6, <1>7 DEF LimitedClauses, NewFormValid, LimitedWardBuildingOk
<1> QED BY <1>3, <1>6, <1>7, <1>8, <1>9 DEF CreateAdmitted, AddTypes, EditTypes

LEMMA GrantStakeFormsAdmitted ==
    ASSUME NEW p \in Principal, NEW m, NEW seat, NEW f \in GrantStakeForms(p, m, seat)
    PROVE  CreateAdmitted(p, f, seat)
<1> DEFINE offered == p.manager /\ seat # NoSeat /\ IsForeignSiteOnly(seat)
           choices == (SUBSET VisibleBuildings(Stake)) \ {{}}
           bodies == {Form("add_manual", m, Stake, Unset, b, NoOrg, reason, FALSE, comment) :
                        b \in choices, reason \in Reasons, comment \in BOOLEAN}
<1>1. GrantStakeForms(p, m, seat) = IF offered THEN bodies ELSE {} BY DEF GrantStakeForms
<1> HIDE DEF offered, bodies
<1>2. offered /\ f \in bodies BY <1>1
<1>3. p.manager /\ ~p.limited BY <1>2 DEF offered, Principal
<1>4. PICK b \in choices, reason \in Reasons, comment \in BOOLEAN :
        f = Form("add_manual", m, Stake, Unset, b, NoOrg, reason, FALSE, comment)
  BY <1>2 DEF bodies, Form
<1>5. f.input.type = "add_manual" /\ f.input.buildings = b BY <1>4 DEF Form
<1> QED BY <1>3, <1>4, <1>5 DEF CreateAdmitted, EditTypes

\* An edit form, taken apart.
LEMMA EditFormParts ==
    ASSUME NEW p, NEW m, NEW seat, NEW f \in EditForms(p, m, seat)
    PROVE  /\ seat # NoSeat /\ CanEditSeat(p, seat) /\ EditFormValid(p, f)
           /\ f.input.type = EditTypeFor(seat.type) /\ f.input.scope = seat.scope
           /\ f.input.buildings \in EditBuildings(p, seat)
<1>1. seat # NoSeat /\ CanEditSeat(p, seat) BY DEF EditForms
<1>2. EditFormValid(p, f)
      /\ \E b \in EditBuildings(p, seat), org \in OrgChoices(seat.scope), reason \in Reasons,
            long \in BOOLEAN, comment \in BOOLEAN :
            f = Form(EditTypeFor(seat.type), m, seat.scope, Unset, b, org,
                     IF seat.type = "auto" THEN {} ELSE reason, long, comment)
  BY <1>1 DEF EditForms
<1>3. PICK b \in EditBuildings(p, seat), org \in OrgChoices(seat.scope), reason \in Reasons,
            long \in BOOLEAN, comment \in BOOLEAN :
            f = Form(EditTypeFor(seat.type), m, seat.scope, Unset, b, org,
                     IF seat.type = "auto" THEN {} ELSE reason, long, comment)
  BY <1>2, Zenon
<1>4. f.input.type = EditTypeFor(seat.type) /\ f.input.scope = seat.scope /\ f.input.buildings = b
  BY <1>3 DEF Form
<1> QED BY <1>1, <1>2, <1>4

LEMMA EditFormsAdmitted ==
    ASSUME NEW p \in Principal, NEW m, NEW seat \in Seat, NEW f \in EditForms(p, m, seat)
    PROVE  CreateAdmitted(p, f, seat)
<1>1. /\ seat # NoSeat /\ CanEditSeat(p, seat) /\ EditFormValid(p, f)
      /\ f.input.type = EditTypeFor(seat.type) /\ f.input.scope = seat.scope
      /\ f.input.buildings \in EditBuildings(p, seat)
  BY EditFormParts
<1>2. seat.scope \in Scopes /\ seat.type \in SeatTypes BY DEF Seat
<1>3. /\ seat.type = "auto" => EditTypeFor(seat.type) = "edit_auto"
      /\ seat.type = "temp" => EditTypeFor(seat.type) = "edit_temp"
      /\ seat.type = "manual" => EditTypeFor(seat.type) = "edit_manual"
  BY DEF EditTypeFor
<1>4. f.input.buildings # {} /\ f.comment BY <1>1 DEF EditFormValid
<1>5. f.input.type = "edit_auto" => f.input.scope # Stake BY <1>1, <1>2, <1>3 DEF CanEditSeat, SeatTypes
<1>6. p.manager \/ (f.input.scope = Stake /\ p.stake) \/ f.input.scope \in p.wards
  BY <1>1, <1>2, ScopesAdmitted DEF CanEditSeat
<1>7. p.limited => LimitedClauses(f, seat)
  <2>1. SUFFICES ASSUME p.limited PROVE LimitedClauses(f, seat) OBVIOUS
  <2>2. seat.type = "temp" /\ f.input.type = "edit_temp" BY <1>1, <1>3, <2>1 DEF CanEditSeat
  <2>3. f.input.buildings \in BuildingChoices(p, seat.scope) BY <1>1, <2>2 DEF EditBuildings
  <2>4. seat.scope # Stake => seat.scope \in Wards /\ f.input.buildings = {WardBuilding[seat.scope]}
    BY <1>2, <2>1, <2>3, ChoicesFit
  <2>5. ~f.long BY <1>1, <2>1 DEF EditFormValid
  <2> QED BY <1>1, <2>2, <2>4, <2>5 DEF LimitedClauses, TargetIsTemp, LimitedWardBuildingOk
<1> QED BY <1>4, <1>5, <1>6, <1>7 DEF CreateAdmitted

LEMMA RemoveFormsAdmitted ==
    ASSUME NEW p \in Principal, NEW m, NEW seat \in Seat, NEW f \in RemoveForms(p, m, seat)
    PROVE  CreateAdmitted(p, f, seat)
<1>1. PICK g \in RemovableRows(p, seat), reason \in Reasons : f = RemoveForm(m, g, reason)
  BY DEF RemoveForms
<1>2. f.input.type = "remove" /\ f.input.scope = g.scope BY <1>1 DEF RemoveForm, Form
<1>3. IsScopeAllowed(p, g.scope) /\ (p.limited => seat.type = "temp")
  <2>1. g \in RosterRemovals(p, seat) \/ g \in AllSeatsRemovals(p, seat) BY <1>1 DEF RemovableRows
  <2>2. CASE g \in RosterRemovals(p, seat) BY <2>2 DEF RosterRemovals, CanRemoveSeat
  <2>3. CASE g \in AllSeatsRemovals(p, seat) BY <2>3 DEF AllSeatsRemovals, Principal
  <2> QED BY <2>1, <2>2, <2>3
<1>4. p.manager \/ (g.scope = Stake /\ p.stake) \/ g.scope \in p.wards BY <1>3 DEF IsScopeAllowed
<1>5. p.limited => LimitedClauses(f, seat)
  BY <1>2, <1>3, SeatFacts DEF LimitedClauses, TargetIsTemp
<1> QED BY <1>2, <1>4, <1>5 DEF CreateAdmitted, EditTypes

\* Every body a dialog offers, the create rule admits, for every user and every
\* seat: no button leads to a denied write (scopeOptions.ts, schemas.ts against
\* firestore.rules).
THEOREM DialogsAreAdmitted == Spec => []FormsAdmitted
<1>1. ASSUME TypeOK PROVE FormsAdmitted
  <2> SUFFICES ASSUME NEW m \in Members, NEW p \in Principals, NEW f \in Forms(p, m, seats[m])
               PROVE  CreateAdmitted(p, f, seats[m])
    BY DEF FormsAdmitted
  <2>1. p \in Principal BY FormsAssumption
  <2>2. seats[m] \in Seat \cup {NoSeat} BY <1>1 DEF TypeOK
  <2>3. \/ f \in NewForms(p, m, seats[m])
        \/ f \in GrantStakeForms(p, m, seats[m])
        \/ f \in EditForms(p, m, seats[m])
        \/ f \in RemoveForms(p, m, seats[m])
    BY DEF Forms
  <2>4. CASE seats[m] = NoSeat
    <3>1. f \notin EditForms(p, m, seats[m]) BY <2>4, EditFormParts
    <3>2. RemovableRows(p, NoSeat) = {} BY Zenon DEF RemovableRows
    <3>3. RemoveForms(p, m, NoSeat) = {} BY <3>2 DEF RemoveForms
    <3> QED BY <2>1, <2>3, <2>4, <3>1, <3>3, NewFormsAdmitted, GrantStakeFormsAdmitted
  <2>5. CASE seats[m] \in Seat
    BY <2>1, <2>3, <2>5, NewFormsAdmitted, GrantStakeFormsAdmitted, EditFormsAdmitted, RemoveFormsAdmitted
  <2> QED BY <2>2, <2>4, <2>5
<1>2. SeatsSound => FormsAdmitted BY <1>1 DEF SeatsSound
<1> QED BY <1>2, SeatsStaySound, PTL

-----------------------------------------------------------------------------
(* What a row's Remove takes.                                              *)

LEMMA FirstOnFacts ==
    ASSUME NEW d \in Seq(Grant), NEW scope, NEW site
    PROVE  /\ FirstOn(d, scope, site) \in 0..Len(d)
           /\ FirstOn(d, scope, site) > 0 => Addressed(d[FirstOn(d, scope, site)], scope, site)
           /\ \A j \in 1..Len(d) : Addressed(d[j], scope, site) =>
                 FirstOn(d, scope, site) > 0 /\ FirstOn(d, scope, site) <= j
<1> DEFINE I == {i \in 1..Len(d) : Addressed(d[i], scope, site)}
<1>1. FirstOn(d, scope, site) = IF I # {} THEN Min(I) ELSE 0 BY DEF FirstOn, SelectInSeq
<1>2. Len(d) \in Nat BY LenProperties
<1>3. I \subseteq Nat /\ \A j \in 1..Len(d) : Addressed(d[j], scope, site) => j \in I BY <1>2
<1>4. \A j \in I : j \in 1..Len(d) /\ Addressed(d[j], scope, site) OBVIOUS
<1> HIDE DEF I
<1>5. I # {} => Min(I) \in I /\ \A i \in I : Min(I) <= i BY <1>3, LeastMember
<1>6. CASE I = {} BY <1>1, <1>2, <1>3, <1>6
<1>7. CASE I # {}
  <2>1. FirstOn(d, scope, site) \in I /\ \A j \in I : FirstOn(d, scope, site) <= j BY <1>1, <1>5, <1>7
  <2>2. FirstOn(d, scope, site) \in 1..Len(d) /\ Addressed(d[FirstOn(d, scope, site)], scope, site) BY <1>4, <2>1
  <2>3. \A j \in 1..Len(d) : Addressed(d[j], scope, site) => FirstOn(d, scope, site) <= j BY <1>3, <2>1
  <2>4. FirstOn(d, scope, site) > 0 /\ FirstOn(d, scope, site) \in 0..Len(d) BY <1>2, <2>2
  <2> QED BY <2>2, <2>3, <2>4
<1> QED BY <1>6, <1>7

LEMMA FirstAtFacts ==
    ASSUME NEW d \in Seq(Grant), NEW scope
    PROVE  /\ FirstAt(d, scope) \in 0..Len(d)
           /\ FirstAt(d, scope) > 0 => d[FirstAt(d, scope)].scope = scope
           /\ \A j \in 1..Len(d) : d[j].scope = scope =>
                 FirstAt(d, scope) > 0 /\ FirstAt(d, scope) <= j
<1> DEFINE I == {i \in 1..Len(d) : d[i].scope = scope}
<1>1. FirstAt(d, scope) = IF I # {} THEN Min(I) ELSE 0 BY DEF FirstAt, SelectInSeq
<1>2. Len(d) \in Nat BY LenProperties
<1>3. I \subseteq Nat /\ \A j \in 1..Len(d) : d[j].scope = scope => j \in I BY <1>2
<1>4. \A j \in I : j \in 1..Len(d) /\ d[j].scope = scope OBVIOUS
<1> HIDE DEF I
<1>5. I # {} => Min(I) \in I /\ \A i \in I : Min(I) <= i BY <1>3, LeastMember
<1>6. CASE I = {} BY <1>1, <1>2, <1>3, <1>6
<1>7. CASE I # {}
  <2>1. FirstAt(d, scope) \in I /\ \A j \in I : FirstAt(d, scope) <= j BY <1>1, <1>5, <1>7
  <2>2. FirstAt(d, scope) \in 1..Len(d) /\ d[FirstAt(d, scope)].scope = scope BY <1>4, <2>1
  <2>3. \A j \in 1..Len(d) : d[j].scope = scope => FirstAt(d, scope) <= j BY <1>3, <2>1
  <2>4. FirstAt(d, scope) > 0 /\ FirstAt(d, scope) \in 0..Len(d) BY <1>2, <2>2
  <2> QED BY <2>2, <2>3, <2>4
<1> QED BY <1>6, <1>7

\* What is left after one position went.
LEMMA RemoveAtKeeps ==
    ASSUME NEW d \in Seq(Grant), NEW i \in 1..Len(d)
    PROVE  {RemoveAt(d, i)[k] : k \in 1..Len(RemoveAt(d, i))} = {d[k] : k \in 1..Len(d) \ {i}}
<1> DEFINE n == Len(d)
           e == RemoveAt(d, i)
<1>1. /\ n \in Nat /\ Len(e) = n - 1
      /\ \A j \in 1..n - 1 : e[j] = IF j < i THEN d[j] ELSE d[j + 1]
  BY RemoveAtFacts, LenProperties
<1> HIDE DEF e
<1>2. ASSUME NEW j \in 1..n - 1 PROVE \E k \in 1..n \ {i} : e[j] = d[k]
  <2>1. CASE j < i
    <3>1. j \in 1..n \ {i} BY <1>1, <2>1
    <3> QED BY <1>1, <2>1, <3>1
  <2>2. CASE ~(j < i)
    <3>1. j + 1 \in 1..n \ {i} BY <1>1, <2>2
    <3> QED BY <1>1, <2>2, <3>1
  <2> QED BY <2>1, <2>2
<1>3. ASSUME NEW k \in 1..n \ {i} PROVE \E j \in 1..n - 1 : e[j] = d[k]
  <2>1. CASE k < i
    <3>1. k \in 1..n - 1 BY <1>1, <2>1
    <3> QED BY <1>1, <2>1, <3>1
  <2>2. CASE ~(k < i)
    <3>1. k - 1 \in 1..n - 1 /\ ~(k - 1 < i) /\ (k - 1) + 1 = k BY <1>1, <2>2
    <3> QED BY <1>1, <3>1
  <2> QED BY <2>1, <2>2
<1>4. ASSUME NEW x PROVE (\E j \in 1..n - 1 : x = e[j]) <=> \E k \in 1..n \ {i} : x = d[k]
  BY <1>2, <1>3
<1>5. {e[j] : j \in 1..n - 1} = {d[k] : k \in 1..n \ {i}} BY <1>4
<1> QED BY <1>1, <1>5 DEF e

LEMMA SlotsOfIs ==
    ASSUME NEW s \in Seat
    PROVE  SlotsOf(s) = {SlotOf(Primary(s))} \cup {SlotOf(s.dups[k]) : k \in 1..Len(s.dups)}
BY SeatFacts DEF SlotsOf

\* A drop takes the slot of its grant and no other.
LEMMA DropTakes ==
    ASSUME NEW s \in Seat, Apart(s), NEW i \in 1..Len(s.dups)
    PROVE  SlotsOf(WithDups(s, RemoveAt(s.dups, i))) = SlotsOf(s) \ {SlotOf(s.dups[i])}
<1> DEFINE d == RemoveAt(s.dups, i)
           t == WithDups(s, d)
<1>1. s.dups \in Seq(Grant) BY SeatFacts
<1>2. d \in Seq(Grant) BY <1>1, RemoveAtFacts
<1>3. t \in Seat /\ t.dups = d /\ Primary(t) = Primary(s) BY <1>2, WithDupsType
<1>4. {d[k] : k \in 1..Len(d)} = {s.dups[k] : k \in 1..Len(s.dups) \ {i}} BY <1>1, RemoveAtKeeps
<1> HIDE DEF d, t
<1>5. SlotsOf(t) = {SlotOf(Primary(s))} \cup {SlotOf(d[k]) : k \in 1..Len(d)} BY <1>3, SlotsOfIs
<1>6. {SlotOf(d[k]) : k \in 1..Len(d)} = {SlotOf(s.dups[k]) : k \in 1..Len(s.dups) \ {i}} BY <1>4
<1>7. SlotOf(Primary(s)) # SlotOf(s.dups[i]) BY DEF Apart, SlotOf, Slot, Primary
<1>8. \A k \in 1..Len(s.dups) \ {i} : SlotOf(s.dups[k]) # SlotOf(s.dups[i]) BY DEF Apart, SlotOf, Slot
<1>9. SlotsOf(s) = {SlotOf(Primary(s))} \cup {SlotOf(s.dups[k]) : k \in 1..Len(s.dups)} BY SlotsOfIs
<1> HIDE DEF SlotOf
<1>10. SlotsOf(t) = SlotsOf(s) \ {SlotOf(s.dups[i])} BY <1>5, <1>6, <1>7, <1>8, <1>9
<1> QED BY <1>10 DEF t, d

\* A promotion takes the slot of the primary and no other.
LEMMA PromoteTakes ==
    ASSUME NEW s \in Seat, Apart(s), s.dups # <<>>
    PROVE  SlotsOf(ApplyRemove(s, Plan("promote", 1))) = SlotsOf(s) \ {SlotOf(Primary(s))}
<1> DEFINE d == RemoveAt(s.dups, 1)
           t == ApplyRemove(s, Plan("promote", 1))
<1>1. s.dups \in Seq(Grant) /\ 1 \in 1..Len(s.dups) BY SeatFacts, EmptySeq, LenProperties
<1>2. d \in Seq(Grant) BY <1>1, RemoveAtFacts
<1>3. t \in Seat /\ t.dups = d /\ SlotOf(Primary(t)) = SlotOf(s.dups[1])
  <2> DEFINE first == s.dups[1]
  <2>1. first \in Grant BY <1>1, SeatFacts
  <2>2. t = [WithDups(s, d) EXCEPT !.scope = first.scope, !.type = first.type, !.site = first.site,
                                   !.buildings = first.buildings, !.callings = first.callings]
    BY DEF ApplyRemove, Plan
  <2> HIDE DEF d, t, first
  <2>3. /\ t \in Seat /\ t.dups = d
        /\ t.scope = first.scope /\ t.type = first.type /\ t.site = first.site
    BY <1>2, <2>1, <2>2, WithDupsType DEF Seat, Grant
  <2>4. SlotOf(Primary(t)) = SlotOf(first) BY <2>3 DEF SlotOf, Primary
  <2> QED BY <2>3, <2>4 DEF first
<1>4. {d[k] : k \in 1..Len(d)} = {s.dups[k] : k \in 1..Len(s.dups) \ {1}} BY <1>1, RemoveAtKeeps
<1> HIDE DEF d, t
<1>5. SlotsOf(t) = {SlotOf(s.dups[1])} \cup {SlotOf(d[k]) : k \in 1..Len(d)} BY <1>3, SlotsOfIs
<1>6. {SlotOf(d[k]) : k \in 1..Len(d)} = {SlotOf(s.dups[k]) : k \in 1..Len(s.dups) \ {1}} BY <1>4
<1>7. \A k \in 1..Len(s.dups) : SlotOf(s.dups[k]) # SlotOf(Primary(s)) BY DEF Apart, SlotOf, Slot, Primary
<1>8. SlotsOf(s) = {SlotOf(Primary(s))} \cup {SlotOf(s.dups[k]) : k \in 1..Len(s.dups)} BY SlotsOfIs
<1>9. SlotsOf(t) = SlotsOf(s) \ {SlotOf(Primary(s))} BY <1>1, <1>5, <1>6, <1>7, <1>8
<1> QED BY <1>9 DEF t

\* A row: the primary, or the first duplicate of its scope on its site.
IsRow(s, g) ==
    \/ g = Primary(s)
    \/ LET i == FirstOn(s.dups, g.scope, NormSite(g.site)) IN
       s.scope # g.scope /\ i > 0 /\ g = s.dups[i]

LEMMA RosterRows ==
    ASSUME NEW s \in Seat, NEW scope, NEW g \in PickGrantForScope(s, scope)
    PROVE  IsRow(s, g)
<1> DEFINE At(site) == FirstOn(s.dups, scope, site)
<1>1. \A site : At(site) \in 0..Len(s.dups) /\ (At(site) > 0 => Addressed(s.dups[At(site)], scope, site))
  BY SeatFacts, FirstOnFacts
<1>2. ASSUME s.scope # scope, NEW site \in ForeignSites \cup {Home}, At(site) > 0, g = s.dups[At(site)]
      PROVE  IsRow(s, g)
  <2>1. site # Unset BY ScopesAssumption DEF Home, Unset
  <2>2. g.scope = scope /\ NormSite(g.site) = site BY <1>1, <1>2, <2>1 DEF Addressed
  <2> QED BY <1>2, <2>2 DEF IsRow
<1>3. CASE s.scope = scope BY <1>3 DEF PickGrantForScope, IsRow
<1>4. CASE s.scope # scope
  <2>1. \/ At(Home) > 0 /\ g = s.dups[At(Home)]
        \/ \E site \in ForeignSites : At(site) > 0 /\ g = s.dups[At(site)]
    BY <1>4 DEF PickGrantForScope
  <2> QED BY <1>2, <1>4, <2>1
<1> QED BY <1>3, <1>4

LEMMA AllSeatsRow ==
    ASSUME NEW s \in Seat, NEW scope, HasGrantAt(s, scope)
    PROVE  IsRow(s, FirstGrantOf(s, scope))
<1>1. CASE s.scope = scope BY <1>1 DEF FirstGrantOf, IsRow
<1>2. CASE s.scope # scope
  <2> DEFINE k == FirstAt(s.dups, scope)
             g == s.dups[k]
             i == FirstOn(s.dups, scope, NormSite(g.site))
  <2>1. s.dups \in Seq(Grant) /\ Len(s.dups) \in Nat BY SeatFacts
  <2>2. PICK j \in 1..Len(s.dups) : s.dups[j].scope = scope
    <3>1. Primary(s).scope # scope BY <1>2 DEF Primary
    <3> QED BY <3>1, SeatFacts DEF HasGrantAt
  <2>3. k \in 1..Len(s.dups) /\ g.scope = scope
        /\ \A n \in 1..Len(s.dups) : s.dups[n].scope = scope => k <= n
    <3>1. k \in 0..Len(s.dups) /\ k > 0 /\ g.scope = scope
          /\ \A n \in 1..Len(s.dups) : s.dups[n].scope = scope => k <= n
      BY <2>1, <2>2, FirstAtFacts
    <3> HIDE DEF k
    <3> QED BY <2>1, <3>1
  <2>4. Addressed(g, scope, NormSite(g.site)) BY <2>3 DEF Addressed
  <2> HIDE DEF k, g
  <2>5. i \in 1..Len(s.dups) /\ i <= k /\ s.dups[i].scope = scope
    <3>1. i \in 0..Len(s.dups) /\ i > 0 /\ i <= k /\ Addressed(s.dups[i], scope, NormSite(g.site))
      BY <2>1, <2>3, <2>4, FirstOnFacts DEF g
    <3> HIDE DEF i
    <3> QED BY <2>1, <3>1 DEF Addressed
  <2> HIDE DEF i
  <2>6. k <= i BY <2>3, <2>5
  <2>7. i = k BY <2>1, <2>3, <2>5, <2>6
  <2>8. FirstGrantOf(s, scope) = g BY <1>2 DEF FirstGrantOf, g, k
  <2>9. i > 0 BY <2>1, <2>5
  <2> QED BY <1>2, <2>3, <2>7, <2>8, <2>9 DEF IsRow, i, g
<1> QED BY <1>1, <1>2

LEMMA RemovableIsRow ==
    ASSUME NEW p, NEW s \in Seat, NEW g \in RemovableRows(p, s)
    PROVE  IsRow(s, g) /\ g.type # "auto"
<1>1. g \in RosterRemovals(p, s) \/ g \in AllSeatsRemovals(p, s) BY DEF RemovableRows
<1>2. CASE g \in RosterRemovals(p, s)
  <2>1. g.type # "auto" /\ \E scopes : g \in RowsOf(s, scopes)
    BY <1>2 DEF RosterRemovals, BishopricRoster, WardRosters, StakeRoster
  <2>2. \E scope : g \in PickGrantForScope(s, scope) BY <2>1 DEF RowsOf
  <2> QED BY <2>1, <2>2, RosterRows
<1>3. CASE g \in AllSeatsRemovals(p, s)
  <2>1. g.type # "auto" /\ \E scope \in Scopes : HasGrantAt(s, scope) /\ g = FirstGrantOf(s, scope)
    BY <1>3 DEF AllSeatsRemovals
  <2> QED BY <2>1, AllSeatsRow
<1> QED BY <1>1, <1>2, <1>3

\* Remove takes the grant of its row: the deleted, promoted-over or dropped one.
LEMMA RowTaken ==
    ASSUME NEW s \in Seat, Apart(s), NEW g, IsRow(s, g), g.type # "auto"
    PROVE  SlotsOf(Withdrawn(s, g)) = SlotsOf(s) \ {SlotOf(g)}
<1> DEFINE site == NormSite(g.site)
           any == FirstOn(s.dups, g.scope, site)
           plan == PlanRemove(s, g.scope, site)
<1>1. Withdrawn(s, g) = ApplyRemove(s, plan) BY DEF Withdrawn
<1>2. CASE g = Primary(s)
  <2>1. Addressed(s, g.scope, site) /\ s.type # "auto" BY <1>2 DEF Primary, Addressed
  <2>2. CASE s.dups = <<>>
    <3>1. plan = Plan("delete", 0) BY <2>1, <2>2 DEF PlanRemove
    <3>2. Withdrawn(s, g) = NoSeat BY <1>1, <3>1 DEF ApplyRemove, Plan
    <3>3. SlotsOf(NoSeat) = {} BY DEF SlotsOf, Grants
    <3>4. SlotsOf(s) = {SlotOf(Primary(s))}
      <4>1. Len(s.dups) = 0 BY <2>2, EmptySeq
      <4>2. 1..0 = {} OBVIOUS
      <4> QED BY <4>1, <4>2, SlotsOfIs
    <3> QED BY <1>2, <3>2, <3>3, <3>4
  <2>3. CASE s.dups # <<>>
    <3>1. plan = Plan("promote", 1) BY <2>1, <2>3 DEF PlanRemove
    <3> QED BY <1>1, <1>2, <2>3, <3>1, PromoteTakes
  <2> QED BY <2>2, <2>3
<1>3. CASE s.scope # g.scope /\ any > 0 /\ g = s.dups[any]
  <2>1. ~Addressed(s, g.scope, site) BY <1>3 DEF Addressed
  <2>2. plan = Plan("drop_duplicate", any) BY <1>3, <2>1 DEF PlanRemove, FirstOn
  <2>3. any \in 1..Len(s.dups)
    <3>1. any \in 0..Len(s.dups) /\ Len(s.dups) \in Nat BY SeatFacts, FirstOnFacts
    <3> HIDE DEF any
    <3> QED BY <1>3, <3>1
  <2> HIDE DEF any
  <2>4. ApplyRemove(s, plan) = WithDups(s, RemoveAt(s.dups, any))
    <3>1. any # 0 BY <1>3
    <3> QED BY <2>2, <3>1 DEF ApplyRemove, Plan
  <2> QED BY <1>1, <1>3, <2>3, <2>4, DropTakes
<1> QED BY <1>2, <1>3 DEF IsRow

-----------------------------------------------------------------------------
(* What an add makes, and what an edit of an auto seat leaves.             *)

LEMMA NewFormParts ==
    ASSUME NEW p \in Principal, NEW m \in Members, NEW seat, NEW f \in NewForms(p, m, seat)
    PROVE  /\ f.input \in Input /\ f.input.type \in AddTypes
           /\ ~HasGrantAt(seat, f.input.scope)
<1>1. PICK scope \in {s \in AllowedScopes(p) : ~HasGrantAt(seat, s)} :
        \E type \in IF p.limited THEN {"add_temp"} ELSE AddTypes, b \in BuildingChoices(p, scope),
           org \in OrgChoices(scope), reason \in Reasons, long \in BOOLEAN, comment \in BOOLEAN :
           f = Form(type, m, scope, Unset, b, org, reason, long, comment)
  BY DEF NewForms
<1>2. PICK type \in IF p.limited THEN {"add_temp"} ELSE AddTypes, b \in BuildingChoices(p, scope),
           org \in OrgChoices(scope), reason \in Reasons, long \in BOOLEAN, comment \in BOOLEAN :
           f = Form(type, m, scope, Unset, b, org, reason, long, comment)
  BY <1>1, Zenon
<1>3. scope \in Scopes /\ ~HasGrantAt(seat, scope) BY <1>1 DEF AllowedScopes, Scopes, Principal
<1>4. type \in AddTypes /\ type \in Types BY DEF AddTypes, Types
<1>5. b \in SUBSET Buildings BY <1>3, ChoicesFit
<1>6. org \in Orgs \cup {NoOrg} BY DEF OrgChoices
<1>7. reason \in SUBSET Callings BY DEF Reasons
<1>8. Unset \in Sites BY DEF Sites
<1>9. f.input = [type |-> type, member |-> m, scope |-> scope, site |-> Unset,
                 buildings |-> b, org |-> org, reason |-> reason]
  BY <1>2 DEF Form
<1>10. f.input \in Input BY <1>3, <1>4, <1>5, <1>6, <1>7, <1>8, <1>9 DEF Input
<1> QED BY <1>3, <1>4, <1>9, <1>10

LEMMA GrantsAreFinite == ASSUME NEW s \in Seat PROVE IsFiniteSet(Grants(s))
<1> DEFINE n == Len(s.dups)
           D == {s.dups[k] : k \in 1..n}
           f == [k \in 1..n |-> s.dups[k]]
<1>1. n \in Nat /\ Grants(s) = {Primary(s)} \cup D BY SeatFacts
<1>2. f \in Surjection(1..n, D) BY DEF Surjection
<1>3. IsFiniteSet(1..n) BY <1>1, FS_Interval
<1>4. IsFiniteSet(D) BY <1>2, <1>3, FS_Surjection
<1>5. IsFiniteSet(D \cup {Primary(s)}) BY <1>4, FS_AddElement
<1> QED BY <1>1, <1>5

\* An add of a scope the member has no grant at makes a grant.
LEMMA AddMakesGrant ==
    ASSUME NEW s \in Seat \cup {NoSeat}, NEW req \in Input, req.type \in AddTypes, ~HasGrantAt(s, req.scope)
    PROVE  Cardinality(Grants(Granted(s, req))) = Cardinality(Grants(s)) + 1
<1> DEFINE new == NewDuplicate(req)
           type == AddType(req.type)
<1>1. req.type \notin EditTypes BY DEF AddTypes, EditTypes
<1>2. CASE s = NoSeat
  <2>1. Granted(s, req) = NewSeat(req) BY <1>1, <1>2 DEF Granted
  <2>2. NewSeat(req) \in Seat /\ NewSeat(req).dups = <<>> BY NewSeatSound DEF NewSeat
  <2>3. 1..Len(NewSeat(req).dups) = {}
    <3>1. Len(NewSeat(req).dups) = 0 BY <2>2, EmptySeq
    <3> QED BY <3>1
  <2>4. Grants(NewSeat(req)) = {Primary(NewSeat(req))} BY <2>2, <2>3, SeatFacts
  <2>5. Grants(s) = {} BY <1>2 DEF Grants
  <2> QED BY <2>1, <2>4, <2>5, FS_EmptySet, FS_Singleton
<1>3. CASE s \in Seat
  <2> DEFINE n == Len(s.dups)
             d == Append(s.dups, new)
             t == WithDups(s, d)
  <2>1. s.dups \in Seq(Grant) /\ n \in Nat BY <1>3, SeatFacts
  <2>2. \A g \in Grants(s) : g.scope # req.scope BY DEF HasGrantAt
  <2>3. s.scope # req.scope /\ \A j \in 1..n : s.dups[j].scope # req.scope
    <3>1. Primary(s) \in Grants(s) /\ \A j \in 1..n : s.dups[j] \in Grants(s) BY <1>3, SeatFacts
    <3> QED BY <2>2, <3>1 DEF Primary
  <2>4. SlotIndex(s.dups, req.scope, type) = 0
    <3> DEFINE i == SlotIndex(s.dups, req.scope, type)
    <3>1. i \in 0..n /\ (i > 0 => s.dups[i].scope = req.scope) BY <2>1, FirstSlot
    <3> HIDE DEF i
    <3>2. i = 0 BY <2>1, <2>3, <3>1
    <3> QED BY <3>2 DEF i
  <2>5. s # NoSeat BY <1>3, SeatFacts
  <2>6. Granted(s, req) = t BY <1>1, <2>3, <2>4, <2>5 DEF Granted, PlanAddMerge
  <2>7. new \in Grant /\ new.scope = req.scope BY NewDuplicateType DEF NewDuplicate
  <2> HIDE DEF new
  <2>8. /\ d \in Seq(Grant) /\ Len(d) = n + 1
        /\ \A j \in 1..n : d[j] = s.dups[j]
        /\ d[n + 1] = new
    BY <2>1, <2>7, AppendProperties
  <2>9. t \in Seat /\ t.dups = d /\ Primary(t) = Primary(s) BY <1>3, <2>8, WithDupsType
  <2> HIDE DEF d, t
  <2>10. Grants(t) = {Primary(s)} \cup {d[j] : j \in 1..n + 1} BY <2>8, <2>9, SeatFacts
  <2>11. {d[j] : j \in 1..n + 1} = {s.dups[j] : j \in 1..n} \cup {new}
    <3>1. \A j : j \in 1..n + 1 <=> j \in 1..n \/ j = n + 1 BY <2>1
    <3> QED BY <2>8, <3>1
  <2>12. Grants(t) = Grants(s) \cup {new} BY <1>3, <2>10, <2>11, SeatFacts
  <2>13. new \notin Grants(s) BY <2>2, <2>7
  <2>14. IsFiniteSet(Grants(s)) BY <1>3, GrantsAreFinite
  <2> QED BY <2>6, <2>12, <2>13, <2>14, FS_AddElement
<1> QED BY <1>2, <1>3

\* An edit of an auto seat.
LEMMA AutoEditLeaves ==
    ASSUME NEW p, NEW m, NEW s \in Seat, NEW f \in EditForms(p, m, s), f.input.type = "edit_auto"
    PROVE  LET after == Granted(s, f.input) IN
           /\ AutoOwned(s) \subseteq after.buildings
           /\ after.buildings \cap DupOnly(s) = {}
           /\ after.dups = s.dups
<1> DEFINE after == Granted(s, f.input)
<1>1. /\ f.input.type = EditTypeFor(s.type) /\ f.input.scope = s.scope
      /\ f.input.buildings \in EditBuildings(p, s)
  BY EditFormParts
<1>2. s.type = "auto" BY <1>1 DEF EditTypeFor, Seat, SeatTypes
<1>3. after = Edited(s, f.input)
  <2>1. after = PlanEditSeat(s, f.input) BY DEF Granted, EditTypes
  <2>2. EditType(f.input.type) = "auto" BY DEF EditType
  <2> QED BY <1>1, <1>2, <2>1, <2>2 DEF PlanEditSeat
<1>4. after.buildings = f.input.buildings /\ after.dups = s.dups BY <1>3 DEF Edited, Seat
<1>5. PICK b \in BuildingChoices(p, s.scope) : f.input.buildings = AutoOwned(s) \cup (b \ DupOnly(s))
  BY <1>1, <1>2 DEF EditBuildings
<1>6. AutoOwned(s) \cap DupOnly(s) = {} BY DEF DupOnly
<1> QED BY <1>4, <1>5, <1>6

\* On every seat the histories of requests can produce, what a row shows is what
\* completing its request does: Remove takes the row's grant and no other, an add
\* makes one, and an edit of an auto seat keeps its visible buildings and takes
\* over none of a duplicate's (EditSeatDialog.tsx, AllSeatsPage.tsx).
THEOREM RowsStayTrue == Spec => []RowsMeanWhatTheyShow
<1>1. ASSUME SeatsSound PROVE RowsMeanWhatTheyShow
  <2>1. \A m \in Members : seats[m] \in Seat \cup {NoSeat} /\ (seats[m] # NoSeat => SlotsDistinct(seats[m]))
    BY <1>1 DEF SeatsSound, TypeOK, UniqueSlots
  <2>2. ASSUME NEW m \in Members, NEW p \in Principals, NEW g \in RemovableRows(p, seats[m])
        PROVE  SlotsOf(Withdrawn(seats[m], g)) = SlotsOf(seats[m]) \ {SlotOf(g)}
    <3>1. seats[m] # NoSeat
      <4>1. RemovableRows(p, NoSeat) = {} BY Zenon DEF RemovableRows
      <4> QED BY <2>2, <4>1
    <3>2. seats[m] \in Seat /\ Apart(seats[m]) BY <2>1, <3>1, DistinctIsApart
    <3> QED BY <2>2, <3>2, RemovableIsRow, RowTaken
  <2>3. ASSUME NEW m \in Members, NEW p \in Principals, NEW f \in NewForms(p, m, seats[m])
        PROVE  Cardinality(Grants(Granted(seats[m], f.input))) = Cardinality(Grants(seats[m])) + 1
    BY <2>1, <2>3, NewFormParts, AddMakesGrant, FormsAssumption
  <2>4. ASSUME NEW m \in Members, NEW p \in Principals, NEW f \in EditForms(p, m, seats[m]),
               f.input.type = "edit_auto"
        PROVE  LET after == Granted(seats[m], f.input) IN
               /\ AutoOwned(seats[m]) \subseteq after.buildings
               /\ after.buildings \cap DupOnly(seats[m]) = {}
               /\ after.dups = seats[m].dups
    <3>1. seats[m] \in Seat BY <2>1, <2>4, EditFormParts
    <3> QED BY <2>4, <3>1, AutoEditLeaves
  <2> QED BY <2>2, <2>3, <2>4 DEF RowsMeanWhatTheyShow
<1> QED BY <1>1, SeatsStaySound, PTL

-----------------------------------------------------------------------------
(* Notices adds readers to RequestLifecycle and takes no step from it.      *)

Writers ==
    \/ \E r \in ReqIds : ByClerk(r) \/ ByManager(r) \/ ByRemoveTrigger(r)
    \/ \E m \in Members, org \in Orgs \cup {NoOrg}, inBand \in BOOLEAN : EditsOrganization(m, org, inBand)
    \/ SwitchesMail

\* The audit trigger and the two mail triggers.
Reads ==
    \/ \E e \in auditing : (\E again \in BOOLEAN : EmitAuditRow(e, again)) \/ RefuseRow(e)
    \/ \E e \in mailing :
          \/ \E again \in BOOLEAN : SendOne(e, again)
          \/ \E result \in {"failed", "lost"} : MailFails(e, result)

LEMMA WritersOrReads == NoticesNext <=> Writers \/ Reads
  BY DEF NoticesNext, Writers, Reads

LEMMA WritersStep ==
    ASSUME Writers
    PROVE  /\ Next \/ UNCHANGED vars
           /\ \E by, stamped, inBand : Commit(by, stamped, inBand)
<1>1. ASSUME NEW r \in ReqIds, ByClerk(r) \/ ByManager(r) \/ ByRemoveTrigger(r)
      PROVE  Next /\ \E by, stamped, inBand : Commit(by, stamped, inBand)
  BY <1>1 DEF ByClerk, ByManager, ByRemoveTrigger, Next, RequestNext, Notes
<1>2. ASSUME NEW m \in Members, NEW org \in Orgs \cup {NoOrg}, NEW inBand \in BOOLEAN,
             EditsOrganization(m, org, inBand)
      PROVE  Next /\ \E by, stamped, band : Commit(by, stamped, band)
  BY <1>2 DEF EditsOrganization, Next
<1>3. CASE SwitchesMail BY <1>3 DEF SwitchesMail
<1>. QED BY <1>1, <1>2, <1>3 DEF Writers

LEMMA ReadsStep ==
    ASSUME Reads
    PROVE  UNCHANGED <<vars, clock, lastActor, mailOn>>
  BY DEF Reads, EmitAuditRow, RefuseRow, SendOne, MailFails, Handled

\* Whatever is proved of the requests and seats of a stake holds with its audit
\* trail and its mails: reading the events changes none of what they are about.
THEOREM NoticesRefine == NoticesSpec => Spec
<1>1. NoticesInit => Init BY DEF NoticesInit
<1>2. [NoticesNext]_allVars => [Next]_vars
  BY WritersOrReads, WritersStep, ReadsStep DEF allVars
<1>. QED BY <1>1, <1>2, PTL DEF NoticesSpec, Spec

-----------------------------------------------------------------------------
(* The log: the rows and the events still to become rows.                  *)

Logged ==
    /\ clock \in Nat
    /\ \A x \in rows \cup auditing \cup dropped : x.doc \in Docs /\ x.at \in 1..clock
    /\ \A row \in rows : row.id = <<row.at, row.doc.coll, row.doc.id>>
    /\ \A v, w \in Writes : v.at = w.at /\ v.doc = w.doc => v = w
    /\ \A e \in mailing : Write(e) \in Writes /\ MailKind(e) # "none"

\* The write of a document that the commit of this step makes.
NewWrite(d) == [at |-> clock', doc |-> d, before |-> Image(d), after |-> Image(d)']

LEMMA DocsApart ==
    ASSUME NEW d \in Docs, NEW e \in Docs, d.coll = e.coll, d.id = e.id
    PROVE  d = e
  BY DEF Docs, Doc, StakeDoc

LEMMA WritesType ==
    ASSUME Logged, NEW w \in Writes
    PROVE  w.doc \in Docs /\ w.at \in 1..clock /\ w = [at |-> w.at, doc |-> w.doc, before |-> w.before, after |-> w.after]
<1>1. PICK x \in rows \cup auditing \cup dropped : w = Write(x) BY DEF Writes
<1>. QED BY <1>1 DEF Logged, Write

\* A commit logs one write of every document it changes, and no other.
LEMMA CommitLogs ==
    ASSUME Logged, NEW by, NEW stamped, NEW inBand, Commit(by, stamped, inBand)
    PROVE  /\ clock' = clock + 1
           /\ Writes' = Writes \cup {NewWrite(d) : d \in {e \in Docs : Image(e)' # Image(e)}}
<1> DEFINE changed == {d \in Docs : Image(d)' # Image(d)}
           raised  == {Event(d, by, inBand) : d \in changed}
<1>1. rows' = rows /\ dropped' = dropped /\ auditing' = auditing \cup raised /\ clock' = clock + 1 BY DEF Commit
<1>2. \A d \in changed : Write(Event(d, by, inBand)) = NewWrite(d) BY DEF Write, Event, NewWrite
<1>3. Writes' = {Write(x) : x \in rows' \cup auditing' \cup dropped'} BY DEF Writes, Write
<1>4. Writes' = Writes \cup {Write(x) : x \in raised} BY <1>1, <1>3 DEF Writes
<1>5. {Write(x) : x \in raised} = {NewWrite(d) : d \in changed} BY <1>2
<1>. QED BY <1>1, <1>4, <1>5

\* The handlers write rows or drop them, and lose or repeat no write.
LEMMA ReadsLog ==
    ASSUME Logged, Reads
    PROVE  Writes' = Writes
<1>1. ASSUME NEW e \in auditing, NEW again \in BOOLEAN, EmitAuditRow(e, again) PROVE Writes' = Writes
  <2>1. /\ rows' = {row \in rows : row.id # AuditId(e)} \cup {Row(e)}
        /\ auditing' = auditing \/ auditing' = auditing \ {e}
        /\ dropped' = dropped
    BY <1>1 DEF EmitAuditRow, Acknowledged
  <2>2. Write(Row(e)) = Write(e) BY DEF Write, Row
  <2>3. ASSUME NEW row \in rows, row.id = AuditId(e) PROVE Write(row) = Write(e)
    <3>1. row.at = e.at /\ row.doc.coll = e.doc.coll /\ row.doc.id = e.doc.id BY <2>3 DEF AuditId, Logged
    <3>2. row.doc = e.doc BY <3>1, DocsApart DEF Logged
    <3>3. Write(row) \in Writes /\ Write(e) \in Writes BY DEF Writes
    <3>. QED BY <3>1, <3>2, <3>3 DEF Logged, Write
  <2>4. \A x \in rows \cup auditing \cup dropped : \E y \in rows' \cup auditing' \cup dropped' : Write(x) = Write(y)
    BY <2>1, <2>2, <2>3
  <2>5. \A y \in rows' \cup auditing' \cup dropped' : \E x \in rows \cup auditing \cup dropped : Write(x) = Write(y)
    BY <2>1, <2>2
  <2>6. /\ Writes = {Write(x) : x \in rows \cup auditing \cup dropped}
        /\ Writes' = {Write(x) : x \in rows' \cup auditing' \cup dropped'}
    BY DEF Writes, Write
  <2>. QED BY <2>4, <2>5, <2>6
<1>2. ASSUME NEW e \in auditing, RefuseRow(e) PROVE Writes' = Writes
  <2>1. rows' = rows /\ dropped' = dropped \cup {Write(e)} /\ auditing' = auditing \ {e} BY <1>2 DEF RefuseRow
  <2>2. Write(Write(e)) = Write(e) BY DEF Write
  <2>. QED BY <2>1, <2>2 DEF Writes, Write
<1>3. ASSUME NEW e \in mailing, Handled(e, TRUE) \/ Handled(e, FALSE) PROVE Writes' = Writes
  BY <1>3 DEF Handled, Writes, Write
<1>4. ASSUME NEW e \in mailing, NEW again \in BOOLEAN, SendOne(e, again) PROVE Writes' = Writes
  BY <1>3, <1>4 DEF SendOne
<1>5. ASSUME NEW e \in mailing, NEW result, MailFails(e, result) PROVE Writes' = Writes
  BY <1>3, <1>5 DEF MailFails
<1>. QED BY <1>1, <1>2, <1>4, <1>5 DEF Reads

LEMMA LoggedNext ==
    ASSUME Logged, [NoticesNext]_allVars
    PROVE  Logged' /\ \A v \in Writes : v \in Writes'
<1>1. ASSUME Writers PROVE Logged' /\ \A v \in Writes : v \in Writes'
  <2>1. PICK by, stamped, inBand : Commit(by, stamped, inBand) BY <1>1, WritersStep
  <2> DEFINE changed == {d \in Docs : Image(d)' # Image(d)}
             raised  == {Event(d, by, inBand) : d \in changed}
  <2>2. /\ rows' = rows /\ dropped' = dropped /\ auditing' = auditing \cup raised /\ clock' = clock + 1
        /\ mailing' = mailing \cup {e \in raised : MailKind(e) # "none"}
    BY <2>1 DEF Commit
  <2>3. Writes' = Writes \cup {NewWrite(d) : d \in changed} BY <2>1, CommitLogs
  <2>4. clock' \in Nat /\ \A i \in 1..clock : i \in 1..clock' BY <2>2 DEF Logged
  <2>5. \A e \in raised : e.doc \in Docs /\ e.at \in 1..clock' BY <2>2 DEF Event, Logged
  <2>6. \A x \in rows' \cup auditing' \cup dropped' : x.doc \in Docs /\ x.at \in 1..clock' BY <2>2, <2>4, <2>5 DEF Logged
  <2>7. \A d \in changed : NewWrite(d).at = clock' /\ NewWrite(d).doc = d BY DEF NewWrite
  <2>8. \A v \in Writes : v.at # clock' BY <2>2, WritesType DEF Logged
  <2>9. \A v, w \in Writes' : v.at = w.at /\ v.doc = w.doc => v = w BY <2>3, <2>7, <2>8 DEF Logged
  <2>10. \A e \in raised : Write(e) \in Writes' BY <2>2 DEF Writes, Write
  <2>11. \A e \in mailing' : Write(e) \in Writes' /\ MailKind(e) # "none" BY <2>2, <2>3, <2>10 DEF Logged
  <2>12. \A row \in rows' : row.id = <<row.at, row.doc.coll, row.doc.id>> BY <2>2 DEF Logged
  <2>13. Logged' BY <2>4, <2>6, <2>9, <2>11, <2>12 DEF Logged, MailKind, Write
  <2>. QED BY <2>3, <2>13
<1>2. ASSUME Reads PROVE Logged' /\ \A v \in Writes : v \in Writes'
  <2>1. Writes' = Writes /\ UNCHANGED clock BY <1>2, ReadsLog, ReadsStep
  <2>2. mailing' \subseteq mailing /\ auditing' \subseteq auditing
    BY <1>2 DEF Reads, EmitAuditRow, RefuseRow, SendOne, MailFails, Handled, Acknowledged
  <2>3. /\ \A row \in rows' : row \in rows \/ \E e \in auditing : row = Row(e)
        /\ \A w \in dropped' : w \in dropped \/ \E e \in auditing : w = Write(e)
    BY <1>2 DEF Reads, EmitAuditRow, RefuseRow, SendOne, MailFails, Handled
  <2>4. ASSUME NEW e \in auditing, NEW row, row = Row(e)
        PROVE  /\ row.doc \in Docs /\ row.at \in 1..clock
               /\ row.id = <<row.at, row.doc.coll, row.doc.id>>
    <3>1. row.doc = e.doc /\ row.at = e.at /\ row.id = AuditId(e) BY <2>4 DEF Row
    <3>. QED BY <3>1 DEF AuditId, Logged
  <2>5. \A row \in rows' : /\ row.doc \in Docs /\ row.at \in 1..clock
                           /\ row.id = <<row.at, row.doc.coll, row.doc.id>>
    BY <2>3, <2>4 DEF Logged
  <2>11. \A w \in dropped' : w.doc \in Docs /\ w.at \in 1..clock BY <2>3 DEF Logged, Write
  <2>6. \A v, w \in Writes' : v.at = w.at /\ v.doc = w.doc => v = w BY <2>1 DEF Logged
  <2>7. \A e \in mailing' : Write(e) \in Writes' /\ MailKind(e) # "none" BY <2>1, <2>2 DEF Logged
  <2>8. \A x \in rows' \cup auditing' \cup dropped' : x.doc \in Docs /\ x.at \in 1..clock'
    BY <2>1, <2>2, <2>5, <2>11 DEF Logged
  <2>9. clock' \in Nat /\ \A row \in rows' : row.id = <<row.at, row.doc.coll, row.doc.id>> BY <2>1, <2>5 DEF Logged
  <2>10. Logged' BY <2>6, <2>7, <2>8, <2>9 DEF Logged, MailKind, Write
  <2>. QED BY <2>1, <2>10
<1>3. ASSUME UNCHANGED allVars PROVE Logged' /\ \A v \in Writes : v \in Writes'
  <2>1. Writes' = Writes BY <1>3 DEF allVars, noticeVars, Writes, Write
  <2>2. UNCHANGED <<clock, rows, auditing, mailing, dropped>> BY <1>3 DEF allVars, noticeVars
  <2>. QED BY <2>1, <2>2 DEF Logged, MailKind, Write
<1>. QED BY <1>1, <1>2, <1>3, WritersOrReads

-----------------------------------------------------------------------------
(* The trail: the writes of a document follow each other.                  *)

Newest(d, w) == \A o \in WritesOf(d) : o.at <= w.at
Follows(d, v, w) == v.at > w.at /\ \A o \in WritesOf(d) : o.at > w.at => o.at >= v.at

\* One write is the newest and left what the document is now; each other one has
\* a next; and between two writes there is what the later one found.
Linked(d) ==
    /\ WritesOf(d) # {} => \E w \in WritesOf(d) : Newest(d, w)
    /\ \A w \in WritesOf(d) : Newest(d, w) => w.after = Image(d)
    /\ \A w \in WritesOf(d) : Newest(d, w) \/ \E v \in WritesOf(d) : Follows(d, v, w)
    /\ \A v, w \in WritesOf(d) : v.at < w.at =>
          v.after = w.before \/ \E u \in WritesOf(d) : v.at < u.at /\ u.at < w.at /\ u.after = w.before
    /\ WritesOf(d) = {} => lastActor[d] = Nobody

LEMMA ImageKept ==
    ASSUME UNCHANGED <<requests, seats, access, overCaps, mailOn>>, NEW d \in Docs
    PROVE  Image(d)' = Image(d)
  BY DEF Image

LEMMA LinkedNext ==
    ASSUME Logged, [NoticesNext]_allVars, NEW d \in Docs, Linked(d)
    PROVE  Linked(d)'
<1>1. ASSUME Writes' = Writes, UNCHANGED <<requests, seats, access, overCaps, mailOn, lastActor>> PROVE Linked(d)'
  <2>1. Image(d)' = Image(d) BY <1>1, ImageKept
  <2>2. WritesOf(d)' = WritesOf(d) BY <1>1 DEF WritesOf
  <2>3. \A w : Newest(d, w)' <=> \A o \in WritesOf(d)' : o.at <= w.at BY DEF Newest
  <2>. QED BY <1>1, <2>1, <2>2 DEF Linked, Newest, Follows
<1>2. CASE Reads
  <2>1. UNCHANGED <<requests, seats, access, overCaps, mailOn, lastActor>> BY <1>2, ReadsStep DEF vars
  <2>. QED BY <1>1, <1>2, <2>1, ReadsLog
<1>3. CASE UNCHANGED allVars
  <2>1. UNCHANGED <<requests, seats, access, overCaps, mailOn, lastActor>> BY <1>3 DEF allVars, noticeVars, vars
  <2>2. Writes' = Writes BY <1>3 DEF allVars, noticeVars, Writes, Write
  <2>. QED BY <1>1, <2>1, <2>2
<1>4. ASSUME Writers PROVE Linked(d)'
  <2>1. PICK by, stamped, inBand : Commit(by, stamped, inBand) BY <1>4, WritersStep
  <2>2. /\ clock' = clock + 1
        /\ Writes' = Writes \cup {NewWrite(c) : c \in {e \in Docs : Image(e)' # Image(e)}}
    BY <2>1, CommitLogs
  <2>3. \A c \in Docs : NewWrite(c).doc = c /\ NewWrite(c).at = clock'
                        /\ NewWrite(c).before = Image(c) /\ NewWrite(c).after = Image(c)'
    BY DEF NewWrite
  <2>4. CASE Image(d)' = Image(d)
    <3>1. WritesOf(d)' = WritesOf(d) BY <2>2, <2>3, <2>4 DEF WritesOf
    <3>2. lastActor'[d] = lastActor[d] BY <2>1, <2>4 DEF Commit
    <3>. QED BY <2>4, <3>1, <3>2 DEF Linked, Newest, Follows
  <2>5. CASE Image(d)' # Image(d)
    <3>1. PICK n : n = NewWrite(d) OBVIOUS
    <3>2. WritesOf(d)' = WritesOf(d) \cup {n} BY <2>2, <2>3, <2>5, <3>1 DEF WritesOf
    <3>3. n.at = clock + 1 /\ n.before = Image(d) /\ n.after = Image(d)' BY <2>2, <2>3, <3>1
    <3>4. clock \in Nat /\ \A w \in WritesOf(d) : w.at \in 1..clock BY WritesType DEF Logged, WritesOf
    <3>5. \A w \in WritesOf(d)' : w.at <= n.at BY <3>2, <3>3, <3>4
    <3>6. \A w \in WritesOf(d)' : (\A o \in WritesOf(d)' : o.at <= w.at) => w = n BY <3>2, <3>3, <3>4
    <3>7. ASSUME NEW w \in WritesOf(d) PROVE \E v \in WritesOf(d)' : v.at > w.at /\ \A o \in WritesOf(d)' : o.at > w.at => o.at >= v.at
      <4>1. CASE Newest(d, w) BY <3>2, <3>3, <3>4, <4>1 DEF Newest
      <4>2. CASE ~Newest(d, w)
        <5>1. PICK v \in WritesOf(d) : Follows(d, v, w) BY <4>2 DEF Linked
        <5>. QED BY <3>2, <3>3, <3>4, <5>1 DEF Follows
      <4>. QED BY <4>1, <4>2
    <3>8. ASSUME NEW v \in WritesOf(d)
          PROVE  v.after = n.before \/ \E u \in WritesOf(d)' : v.at < u.at /\ u.at < n.at /\ u.after = n.before
      <4>1. PICK w \in WritesOf(d) : Newest(d, w) BY DEF Linked
      <4>2. w.after = n.before /\ v.at <= w.at /\ w.at < n.at BY <3>3, <3>4, <4>1 DEF Linked, Newest
      <4>3. v.at = w.at => v = w BY DEF WritesOf, Logged
      <4>. QED BY <3>2, <3>4, <4>2, <4>3
    <3>9. \A v, w \in WritesOf(d) : v.at < w.at =>
            v.after = w.before \/ \E u \in WritesOf(d)' : v.at < u.at /\ u.at < w.at /\ u.after = w.before
      BY <3>2 DEF Linked
    <3>10. \A v, w \in WritesOf(d)' : v.at < w.at =>
            v.after = w.before \/ \E u \in WritesOf(d)' : v.at < u.at /\ u.at < w.at /\ u.after = w.before
      BY <3>2, <3>3, <3>4, <3>8, <3>9
    <3>. QED BY <3>2, <3>3, <3>5, <3>6, <3>7, <3>10 DEF Linked, Newest, Follows
  <2>. QED BY <2>4, <2>5
<1>. QED BY <1>2, <1>3, <1>4, WritersOrReads

LEMMA LogInvariant == NoticesSpec => [](Logged /\ \A d \in Docs : Linked(d))
<1>1. NoticesInit => Logged /\ \A d \in Docs : Linked(d)
  BY DEF NoticesInit, Logged, Linked, Writes, WritesOf
<1>2. Logged /\ (\A d \in Docs : Linked(d)) /\ [NoticesNext]_allVars => (Logged /\ \A d \in Docs : Linked(d))'
  <2>1. ASSUME Logged, \A d \in Docs : Linked(d), [NoticesNext]_allVars PROVE Logged' /\ \A d \in Docs : Linked(d)'
    BY <2>1, LoggedNext, LinkedNext
  <2>. QED BY <2>1
<1>. QED BY <1>1, <1>2, PTL DEF NoticesSpec

\* Acknowledged, the log of a document is its trail and the rows it misses.
LEMMA TrailLinked ==
    ASSUME Logged, \A d \in Docs : Linked(d)
    PROVE  TrailComplete
<1>1. SUFFICES ASSUME NEW d \in Docs, \A e \in auditing : e.doc # d,
                      NEW trail, trail = AuditRowsOf(d)
               PROVE  /\ trail = {} => lastActor[d] = Nobody \/ DroppedOf(d) # {}
                      /\ \A row \in trail :
                            LET next == {later \in trail : later.at > row.at
                                           /\ \A other \in trail : other.at > row.at => other.at >= later.at} IN
                            IF next = {}
                            THEN row.after = Image(d) \/ \E w \in DroppedOf(d) : row.at < w.at
                            ELSE \A later \in next :
                                    row.after = later.before
                                    \/ \E w \in DroppedOf(d) : row.at < w.at /\ w.at < later.at
                      /\ \A row, other \in trail : row.at = other.at => row.id = other.id
  BY DEF TrailComplete
<1>2. \A x : Write(x).at = x.at /\ Write(x).doc = x.doc /\ Write(x).before = x.before /\ Write(x).after = x.after
  BY DEF Write
<1>3. \A row \in trail : Write(row) \in WritesOf(d) BY <1>1, <1>2 DEF AuditRowsOf, WritesOf, Writes
<1>4. \A w \in WritesOf(d) : \E x \in trail \cup DroppedOf(d) : w = Write(x)
  BY <1>1, <1>2 DEF AuditRowsOf, DroppedOf, WritesOf, Writes
<1>5. \A w \in WritesOf(d) : w.at \in Nat BY WritesType DEF WritesOf, Logged
<1>6. trail = {} => lastActor[d] = Nobody \/ DroppedOf(d) # {} BY <1>4 DEF Linked
<1>7. ASSUME NEW row \in trail, \A later \in trail : ~(later.at > row.at /\ \A other \in trail : other.at > row.at => other.at >= later.at)
      PROVE  row.after = Image(d) \/ \E w \in DroppedOf(d) : row.at < w.at
  <2>1. Newest(d, Write(row)) \/ \E v \in WritesOf(d) : Follows(d, v, Write(row)) BY <1>3 DEF Linked
  <2>2. ASSUME NEW v \in WritesOf(d), Follows(d, v, Write(row)) PROVE \E w \in DroppedOf(d) : row.at < w.at
    <3>1. PICK x \in trail \cup DroppedOf(d) : v = Write(x) BY <1>4
    <3>2. v.at > row.at /\ \A other \in trail : other.at > row.at => other.at >= v.at
      BY <1>2, <1>3, <2>2 DEF Follows
    <3>3. x.at = v.at BY <1>2, <3>1
    <3>4. x \notin trail BY <1>7, <3>2, <3>3
    <3>5. row.at \in Nat /\ v.at \in Nat BY <1>2, <1>3, <1>5
    <3>. QED BY <3>1, <3>2, <3>3, <3>4, <3>5
  <2>. QED BY <1>2, <1>3, <2>1, <2>2 DEF Linked
<1>8. ASSUME NEW row \in trail, NEW later \in trail, later.at > row.at,
             \A other \in trail : other.at > row.at => other.at >= later.at
      PROVE  row.after = later.before \/ \E w \in DroppedOf(d) : row.at < w.at /\ w.at < later.at
  <2>1. ASSUME NEW u \in WritesOf(d), row.at < u.at, u.at < later.at
        PROVE  \E w \in DroppedOf(d) : row.at < w.at /\ w.at < later.at
    <3>1. PICK x \in trail \cup DroppedOf(d) : u = Write(x) BY <1>4
    <3>. QED BY <1>2, <1>3, <1>5, <1>8, <2>1, <3>1
  <2>2. Write(row).at < Write(later).at BY <1>2, <1>3, <1>5, <1>8
  <2>. QED BY <1>2, <1>3, <2>1, <2>2 DEF Linked
<1>9. \A row, other \in trail : row.at = other.at => row.id = other.id BY <1>1 DEF AuditRowsOf, Logged
<1>. QED BY <1>6, <1>7, <1>8, <1>9

-----------------------------------------------------------------------------
(* What a commit does to a request, and whose name is on it.               *)

LEMMA RecordsApart ==
    /\ NoRequest = NoSeat
    /\ \A x \in Request : x # NoRequest
    /\ \A x \in Seat : x # NoSeat
    /\ \A a, b : [importer |-> a, manual |-> b] # NoSeat /\ [pools |-> a, mailOn |-> b] # NoSeat
  BY DEF NoRequest, NoSeat, Request, Seat

Went(r, from, to) == HasStatus(r, from) /\ HasStatus(r, to)'
Appeared(r) == ~Exists(r) /\ HasStatus(r, "pending")'

LEMMA ClerkMoves ==
    ASSUME TypeOK, TypeOK', NEW r \in ReqIds, ByClerk(r), NEW q \in ReqIds, requests'[q] # requests[q]
    PROVE  Appeared(q) \/ Went(q, "pending", "cancelled")
<1>1. ASSUME NEW input \in Inputs, Submit(r, input) PROVE Appeared(q)
  <2>1. q = r /\ ~Exists(r) /\ requests'[r].status = "pending" BY <1>1 DEF Submit, TypeOK
  <2>2. requests'[q] # NoRequest BY <2>1 DEF Exists
  <2>. QED BY <2>1, <2>2 DEF Appeared, HasStatus, Exists
<1>2. ASSUME Cancel(r) PROVE Went(q, "pending", "cancelled")
  <2>1. HasStatus(r, "pending") /\ q = r BY <1>2 DEF Cancel, TypeOK
  <2>2. requests[r] \in Request BY <2>1 DEF TypeOK, HasStatus, Exists
  <2>3. requests'[r] = [requests[r] EXCEPT !.status = "cancelled"] BY <1>2 DEF Cancel, TypeOK
  <2>4. requests'[r].status = "cancelled" /\ requests'[r] \in Request BY <2>2, <2>3 DEF Request, Statuses
  <2>. QED BY <2>1, <2>4, RecordsApart DEF Went, HasStatus, Exists
<1>. QED BY <1>1, <1>2 DEF ByClerk

LEMMA ManagerMoves ==
    ASSUME TypeOK, TypeOK', NEW r \in ReqIds, ByManager(r), NEW q \in ReqIds, requests'[q] # requests[q]
    PROVE  Went(q, "pending", "complete") \/ Went(q, "pending", "rejected")
<1>1. ASSUME HasStatus(r, "pending"), NEW s \in Statuses, q = r, requests'[r].status = s
      PROVE  Went(q, "pending", s)
  <2>1. requests'[r] # NoRequest
    <3>1. requests[r] \in Request /\ requests[r] # NoRequest BY <1>1 DEF TypeOK, HasStatus, Exists
    <3>2. requests' \in [ReqIds -> Request \cup {NoRequest}] BY DEF TypeOK
    <3>3. DOMAIN requests'[r] = DOMAIN requests[r]
      BY <3>1 DEF ByManager, Reject, CompleteAdd, CompleteEdit, CompleteRemove, Completed, TypeOK, Request
    <3>4. "status" \in DOMAIN requests[r] /\ "status" \notin DOMAIN NoRequest BY <3>1 DEF Request, NoRequest
    <3>. QED BY <3>3, <3>4
  <2>. QED BY <1>1, <2>1 DEF Went, HasStatus, Exists
<1>2. CASE Reject(r)
  <2>1. HasStatus(r, "pending") /\ q = r BY <1>2 DEF Reject, TypeOK
  <2>2. requests'[r].status = "rejected" BY <1>2, <2>1 DEF Reject, TypeOK, Request, HasStatus, Exists
  <2>. QED BY <1>1, <2>1, <2>2 DEF Statuses
<1>3. CASE CompleteAdd(r, {}) \/ CompleteEdit(r, {}) \/ CompleteRemove(r, {})
  <2>1. HasStatus(r, "pending") /\ \E outcome, note : requests' = Completed(r, outcome, note)
    BY <1>3 DEF CompleteAdd, CompleteEdit, CompleteRemove
  <2>2. q = r BY <2>1 DEF Completed, TypeOK
  <2>3. requests'[r].status = "complete" BY <2>1 DEF Completed, TypeOK, Request, HasStatus, Exists
  <2>. QED BY <1>1, <2>1, <2>2, <2>3 DEF Statuses
<1>. QED BY <1>2, <1>3 DEF ByManager

LEMMA TriggerMoves ==
    ASSUME TypeOK, TypeOK', NEW r \in ReqIds, ByRemoveTrigger(r), NEW q \in ReqIds, requests'[q] # requests[q]
    PROVE  q = r /\ Went(q, "complete", "complete")
<1>1. HasStatus(r, "complete") /\ (requests' = requests \/ Shifted(r)) BY DEF ByRemoveTrigger, SeatTrigger
<1>2. requests[r] \in Request BY <1>1 DEF TypeOK, HasStatus, Exists
<1>3. q = r BY <1>1 DEF Shifted, TypeOK
<1>4. requests'[r].status = "complete" BY <1>1, <1>2 DEF Shifted, TypeOK, Request, HasStatus
<1>5. requests'[r] # NoRequest
  <2>1. DOMAIN requests'[r] = DOMAIN requests[r] BY <1>1, <1>2 DEF Shifted, TypeOK, Request
  <2>2. "status" \in DOMAIN requests[r] /\ "status" \notin DOMAIN NoRequest BY <1>2 DEF Request, NoRequest
  <2>. QED BY <2>1, <2>2
<1>. QED BY <1>1, <1>3, <1>4, <1>5 DEF Went, HasStatus, Exists

\* What RowsNameTheWriter says of a row, said of its event.
NamesWriter(e) ==
    /\ ResolveAction(e) \notin {"delete_seat", "cancel_request"}
    /\ e.doc.coll = "requests" => Absent(e.before) \/ e.before.status = "pending"
    => ResolveActor(e) = e.by

\* A request that is pending was last written by the clerk who submitted it.
Named ==
    /\ \A e \in auditing : NamesWriter(e)
    /\ \A r \in ReqIds : HasStatus(r, "pending") => lastActor[Doc("requests", r)] = Clerk
    /\ RowsNameTheWriter

LEMMA EventNames ==
    ASSUME NEW d \in Docs, Image(d)' # Image(d), NEW by, NEW stamped, NEW inBand \in BOOLEAN,
           Commit(by, stamped, inBand),
           \/ /\ d \in stamped /\ inBand /\ d.coll # "requests"
              /\ d.coll = "seats" \/ ~Absent(Image(d)')
           \/ /\ d \in stamped /\ d.coll = "requests" /\ ~Absent(Image(d)')
              /\ Absent(Image(d)) \/ lastActor[d] # by
           \/ /\ d \notin stamped /\ ~inBand /\ by = OutOfBand
              /\ ~Absent(Image(d)) /\ ~Absent(Image(d)')
           \/ /\ d.coll = "requests" /\ ~Absent(Image(d))
              /\ Image(d).status # "pending" \/ Image(d)'.status = "cancelled"
    PROVE  NamesWriter(Event(d, by, inBand))
<1>1. PICK e : e = Event(d, by, inBand) OBVIOUS
<1>2. /\ e.doc = d /\ e.before = Image(d) /\ e.after = Image(d)' /\ e.by = by
      /\ e.restamped = Restamped(d, inBand) /\ e.actorBefore = lastActor[d] /\ e.actorAfter = lastActor'[d]
  BY <1>1 DEF Event
<1>3. lastActor'[d] = IF d \in stamped THEN by ELSE lastActor[d] BY DEF Commit
<1>4. CASE /\ d \in stamped /\ inBand /\ d.coll # "requests"
           /\ d.coll = "seats" \/ ~Absent(Image(d)')
  <2>1. e.actorAfter = by /\ ~IsOutOfBandUpdate(e) BY <1>2, <1>3, <1>4 DEF IsOutOfBandUpdate, Restamped
  <2>2. CASE ~Absent(e.after)
    <3>1. ResolveActor(e) = by BY <2>1, <2>2 DEF ResolveActor
    <3>. QED BY <1>1, <1>2, <3>1 DEF NamesWriter
  <2>3. CASE Absent(e.after)
    <3>1. d.coll = "seats" /\ ~Absent(e.before) BY <1>2, <1>4, <2>3, RecordsApart DEF Absent
    <3>2. ResolveAction(e) = "delete_seat" BY <1>2, <2>3, <3>1 DEF ResolveAction
    <3>. QED BY <1>1, <3>2 DEF NamesWriter
  <2>. QED BY <2>2, <2>3
<1>5. CASE /\ d \in stamped /\ d.coll = "requests" /\ ~Absent(Image(d)')
           /\ Absent(Image(d)) \/ lastActor[d] # by
  <2>1. Absent(e.before) \/ ~IsOutOfBandUpdate(e) BY <1>2, <1>3, <1>5 DEF IsOutOfBandUpdate
  <2>2. ResolveActor(e) = by BY <1>2, <1>3, <1>5, <2>1 DEF ResolveActor
  <2>. QED BY <1>1, <1>2, <2>2 DEF NamesWriter
<1>6. CASE /\ d \notin stamped /\ ~inBand /\ by = OutOfBand
           /\ ~Absent(Image(d)) /\ ~Absent(Image(d)')
  <2>1. IsOutOfBandUpdate(e) BY <1>2, <1>3, <1>6 DEF IsOutOfBandUpdate, Restamped
  <2>2. ResolveActor(e) = by BY <1>2, <1>6, <2>1 DEF ResolveActor
  <2>. QED BY <1>1, <1>2, <2>2 DEF NamesWriter
<1>7. CASE d.coll = "requests" /\ ~Absent(Image(d)) /\ Image(d).status # "pending"
  BY <1>1, <1>2, <1>7 DEF NamesWriter
<1>8. CASE d.coll = "requests" /\ ~Absent(Image(d)) /\ Image(d)'.status = "cancelled"
  <2>1. ResolveAction(e) = "cancel_request" BY <1>2, <1>8 DEF ResolveAction, ResolveRequestAction
  <2>. QED BY <1>1, <2>1 DEF NamesWriter
<1>. QED BY <1>4, <1>5, <1>6, <1>7, <1>8

\* The document of a request, of a member or of the stake.
LEMMA DocFacts ==
    /\ \A r \in ReqIds : Doc("requests", r) \in Docs /\ Doc("requests", r).coll = "requests" /\ Doc("requests", r).id = r
    /\ \A d \in Docs : \/ d.coll = "requests" /\ d.id \in ReqIds /\ d = Doc("requests", d.id)
                       \/ d.coll \in {"seats", "access"} /\ d.id \in Members
                       \/ d.coll = "stake" /\ d = StakeDoc
  BY DEF Docs, Doc, StakeDoc

LEMMA ImageFacts ==
    ASSUME TypeOK, NEW d \in Docs
    PROVE  /\ d.coll = "requests" => Image(d) = requests[d.id]
           /\ d.coll = "seats" => Image(d) = seats[d.id]
           /\ d.coll = "stake" => Image(d) = [pools |-> overCaps, mailOn |-> mailOn]
           /\ d.coll \in {"access", "stake"} => ~Absent(Image(d))
<1>1. ASSUME d.coll = "access" PROVE ~Absent(Image(d))
  <2>1. access[d.id] \in [importer : SUBSET Scopes, manual : SUBSET Scopes] BY <1>1, DocFacts DEF TypeOK
  <2>2. \E a, b : access[d.id] = [importer |-> a, manual |-> b] BY <2>1
  <2>. QED BY <1>1, <2>2, RecordsApart DEF Image, Absent
<1>2. ASSUME d.coll = "stake" PROVE ~Absent(Image(d)) BY <1>2, RecordsApart DEF Image, Absent
<1>. QED BY <1>1, <1>2 DEF Image

LEMMA ImageNext ==
    ASSUME TypeOK', NEW d \in Docs, d.coll \in {"access", "stake"}
    PROVE  ~Absent(Image(d)')
<1>1. ASSUME d.coll = "access" PROVE ~Absent(Image(d)')
  <2>1. access'[d.id] \in [importer : SUBSET Scopes, manual : SUBSET Scopes] BY <1>1, DocFacts DEF TypeOK
  <2>2. \E a, b : access'[d.id] = [importer |-> a, manual |-> b] BY <2>1
  <2>. QED BY <1>1, <2>2, RecordsApart DEF Image, Absent
<1>2. ASSUME d.coll = "stake" PROVE ~Absent(Image(d)') BY <1>2, RecordsApart DEF Image, Absent
<1>. QED BY <1>1, <1>2

LEMMA CommitNames ==
    ASSUME Named, NEW by, NEW stamped, NEW inBand, Commit(by, stamped, inBand),
           \A d \in Docs : Image(d)' # Image(d) => NamesWriter(Event(d, by, inBand)),
           \A r \in ReqIds : requests'[r] # requests[r] /\ HasStatus(r, "pending")' =>
              by = Clerk /\ Doc("requests", r) \in stamped
    PROVE  Named'
<1> DEFINE raised == {Event(d, by, inBand) : d \in {c \in Docs : Image(c)' # Image(c)}}
<1>1. auditing' = auditing \cup raised /\ rows' = rows BY DEF Commit
<1>2. \A e \in auditing' : NamesWriter(e) BY <1>1 DEF Named
<1>3. ASSUME NEW r \in ReqIds, HasStatus(r, "pending")' PROVE lastActor'[Doc("requests", r)] = Clerk
  <2> DEFINE d == Doc("requests", r)
  <2>1. d \in Docs /\ Image(d) = requests[r] /\ Image(d)' = requests'[r] BY DocFacts DEF Image
  <2> HIDE DEF d
  <2>2. lastActor'[d] = IF Image(d)' # Image(d) /\ d \in stamped THEN by ELSE lastActor[d] BY <2>1 DEF Commit
  <2>3. CASE requests'[r] # requests[r] BY <1>3, <2>1, <2>2, <2>3 DEF d
  <2>4. CASE requests'[r] = requests[r]
    <3>1. HasStatus(r, "pending") BY <1>3, <2>4 DEF HasStatus, Exists
    <3>. QED BY <2>1, <2>2, <2>4, <3>1 DEF Named, d
  <2>. QED BY <2>3, <2>4 DEF d
<1>4. RowsNameTheWriter' BY <1>1 DEF Named, RowsNameTheWriter, Absent
<1>. QED BY <1>2, <1>3, <1>4 DEF Named

LEMMA NamedByClerk ==
    ASSUME TypeOK, TypeOK', Named, NEW r \in ReqIds, ByClerk(r)
    PROVE  Named'
<1>1. Commit(Clerk, Docs, TRUE) /\ UNCHANGED <<seats, access, overCaps, mailOn>>
  BY DEF ByClerk, Submit, Cancel
<1>2. ASSUME NEW d \in Docs, Image(d)' # Image(d) PROVE NamesWriter(Event(d, Clerk, TRUE))
  <2>1. d.coll = "requests" /\ d.id \in ReqIds
    <3>1. d.coll # "requests" => Image(d)' = Image(d) BY <1>1, DocFacts DEF Image
    <3>. QED BY <1>2, <3>1, DocFacts
  <2>2. Image(d) = requests[d.id] /\ Image(d)' = requests'[d.id] BY <2>1 DEF Image
  <2>3. CASE Appeared(d.id)
    <3>1. Absent(Image(d)) /\ ~Absent(Image(d)') BY <2>2, <2>3, RecordsApart DEF Appeared, HasStatus, Exists, Absent
    <3>. QED BY <1>1, <1>2, <2>1, <3>1, EventNames
  <2>4. CASE Went(d.id, "pending", "cancelled")
    <3>1. ~Absent(Image(d)) /\ Image(d)'.status = "cancelled" BY <2>2, <2>4, RecordsApart DEF Went, HasStatus, Exists, Absent
    <3>. QED BY <1>1, <1>2, <2>1, <3>1, EventNames
  <2>. QED BY <1>2, <2>1, <2>2, <2>3, <2>4, ClerkMoves
<1>3. \A q \in ReqIds : Doc("requests", q) \in Docs BY DocFacts
<1>. QED BY <1>1, <1>2, <1>3, CommitNames

LEMMA NamedByManager ==
    ASSUME TypeOK, TypeOK', Named, NEW r \in ReqIds, ByManager(r)
    PROVE  Named'
<1>1. Commit(Manager, Docs, TRUE) /\ UNCHANGED access
  BY DEF ByManager, Reject, CompleteAdd, CompleteEdit, CompleteRemove
<1>2. ASSUME NEW d \in Docs, Image(d)' # Image(d) PROVE NamesWriter(Event(d, Manager, TRUE))
  <2>1. CASE d.coll = "requests"
    <3>1. d.id \in ReqIds /\ d = Doc("requests", d.id) BY <2>1, DocFacts
    <3>2. Image(d) = requests[d.id] /\ Image(d)' = requests'[d.id] BY <2>1 DEF Image
    <3>3. HasStatus(d.id, "pending") /\ (HasStatus(d.id, "complete")' \/ HasStatus(d.id, "rejected")')
      BY <1>2, <3>1, <3>2, ManagerMoves DEF Went
    <3>4. lastActor[d] # Manager BY <3>1, <3>3 DEF Named, Clerk, Manager
    <3>5. ~Absent(Image(d)') BY <3>2, <3>3, RecordsApart DEF HasStatus, Exists, Absent
    <3>. QED BY <1>1, <1>2, <2>1, <3>4, <3>5, EventNames
  <2>2. CASE d.coll # "requests"
    <3>1. d.coll = "seats" \/ ~Absent(Image(d)') BY <2>2, DocFacts, ImageNext
    <3>. QED BY <1>1, <1>2, <2>2, <3>1, EventNames
  <2>. QED BY <2>1, <2>2
<1>3. ASSUME NEW q \in ReqIds, requests'[q] # requests[q], HasStatus(q, "pending")' PROVE FALSE
  BY <1>3, ManagerMoves DEF Went, HasStatus
<1>. QED BY <1>1, <1>2, <1>3, CommitNames

LEMMA NamedByTrigger ==
    ASSUME TypeOK, TypeOK', Named, NEW r \in ReqIds, ByRemoveTrigger(r)
    PROVE  Named'
<1> DEFINE stamped == Docs \ {Doc("requests", r)}
<1>1. Commit(RemoveTrigger, stamped, TRUE) BY DEF ByRemoveTrigger
<1>2. ASSUME NEW d \in Docs, Image(d)' # Image(d) PROVE NamesWriter(Event(d, RemoveTrigger, TRUE))
  <2>1. CASE d.coll = "requests"
    <3>1. d.id \in ReqIds /\ Image(d) = requests[d.id] /\ Image(d)' = requests'[d.id] BY <2>1, DocFacts DEF Image
    <3>2. HasStatus(d.id, "complete") BY <1>2, <3>1, TriggerMoves DEF Went
    <3>3. ~Absent(Image(d)) /\ Image(d).status # "pending" BY <3>1, <3>2, RecordsApart DEF HasStatus, Exists, Absent
    <3> HIDE DEF stamped
    <3>. QED BY <1>1, <1>2, <2>1, <3>3, EventNames
  <2>2. CASE d.coll # "requests"
    <3>1. d.coll = "seats" \/ ~Absent(Image(d)') BY <2>2, DocFacts, ImageNext
    <3>2. d \in stamped BY <2>2 DEF Doc
    <3> HIDE DEF stamped
    <3>. QED BY <1>1, <1>2, <2>2, <3>1, <3>2, EventNames
  <2>. QED BY <2>1, <2>2
<1>3. ASSUME NEW q \in ReqIds, requests'[q] # requests[q], HasStatus(q, "pending")' PROVE FALSE
  BY <1>3, TriggerMoves DEF Went, HasStatus
<1> HIDE DEF stamped
<1>. QED BY <1>1, <1>2, <1>3, CommitNames

LEMMA NamedByEdit ==
    ASSUME TypeOK, TypeOK', Named, NEW m \in Members, NEW org \in Orgs \cup {NoOrg}, NEW inBand \in BOOLEAN,
           EditsOrganization(m, org, inBand)
    PROVE  Named'
<1> DEFINE by == IF inBand THEN Manager ELSE OutOfBand
           stamped == IF inBand THEN Docs ELSE {}
<1>1. Commit(by, stamped, inBand) /\ UNCHANGED <<requests, access, overCaps, mailOn>>
  BY DEF EditsOrganization, SetOrganization
<1>2. ASSUME NEW d \in Docs, Image(d)' # Image(d) PROVE NamesWriter(Event(d, by, inBand))
  <2>1. d.coll = "seats" /\ d.id \in Members /\ Image(d) = seats[d.id] /\ Image(d)' = seats'[d.id]
    <3>1. d.coll # "seats" => Image(d)' = Image(d) BY <1>1, DocFacts DEF Image
    <3>. QED BY <1>2, <3>1, DocFacts DEF Image
  <2>2. d.id = m /\ seats[m] # NoSeat
    BY <1>2, <2>1 DEF EditsOrganization, SetOrganization, TypeOK
  <2>3. seats'[m] # NoSeat
    <3>1. seats[m] \in Seat BY <2>2 DEF TypeOK
    <3>2. seats'[m] = [seats[m] EXCEPT !.org = org] BY DEF EditsOrganization, SetOrganization, TypeOK
    <3>3. seats'[m] \in Seat BY <3>1, <3>2 DEF Seat
    <3>. QED BY <3>3, RecordsApart
  <2>4. ~Absent(Image(d)) /\ ~Absent(Image(d)') BY <2>1, <2>2, <2>3, RecordsApart DEF Absent
  <2>5. CASE inBand
    <3>1. d \in stamped BY <2>5
    <3> HIDE DEF stamped, by
    <3>. QED BY <1>1, <1>2, <2>1, <2>5, <3>1, EventNames
  <2>6. CASE ~inBand
    <3>1. d \notin stamped /\ by = OutOfBand BY <2>6
    <3> HIDE DEF stamped, by
    <3>. QED BY <1>1, <1>2, <2>4, <2>6, <3>1, EventNames
  <2>. QED BY <2>5, <2>6
<1> HIDE DEF stamped, by
<1>. QED BY <1>1, <1>2, CommitNames

LEMMA NamedBySwitch ==
    ASSUME TypeOK', Named, SwitchesMail
    PROVE  Named'
<1>1. Commit(Manager, Docs, TRUE) /\ UNCHANGED <<requests, seats, access, overCaps>> BY DEF SwitchesMail, vars
<1>2. ASSUME NEW d \in Docs, Image(d)' # Image(d) PROVE NamesWriter(Event(d, Manager, TRUE))
  <2>1. d.coll = "stake"
    <3>1. d.coll # "stake" => Image(d)' = Image(d) BY <1>1, DocFacts DEF Image
    <3>. QED BY <1>2, <3>1
  <2>2. ~Absent(Image(d)') BY <2>1, ImageNext
  <2>. QED BY <1>1, <1>2, <2>1, <2>2, EventNames
<1>. QED BY <1>1, <1>2, CommitNames

LEMMA NamedNext ==
    ASSUME TypeOK, TypeOK', Named, [NoticesNext]_allVars
    PROVE  Named'
<1>1. ASSUME Writers PROVE Named'
  BY <1>1, NamedByClerk, NamedByManager, NamedByTrigger, NamedByEdit, NamedBySwitch DEF Writers
<1>2. ASSUME UNCHANGED requests, UNCHANGED lastActor, auditing' \subseteq auditing,
             \A row \in rows' : row \in rows \/ \E e \in auditing : row = Row(e)
      PROVE  Named'
  <2>1. ASSUME NEW e \in auditing, NEW row, row = Row(e),
               /\ row.action \notin {"delete_seat", "cancel_request"}
               /\ row.doc.coll = "requests" => Absent(row.before) \/ row.before.status = "pending"
        PROVE  row.actor = row.by
    <3>1. row.action = ResolveAction(e) /\ row.doc = e.doc /\ row.before = e.before /\ row.actor = ResolveActor(e) /\ row.by = e.by
      BY <2>1 DEF Row
    <3>. QED BY <2>1, <3>1 DEF Named, NamesWriter
  <2>2. \A row \in rows' :
          /\ row.action \notin {"delete_seat", "cancel_request"}
          /\ row.doc.coll = "requests" => Absent(row.before) \/ row.before.status = "pending"
          => row.actor = row.by
    BY <1>2, <2>1 DEF Named, RowsNameTheWriter
  <2>3. RowsNameTheWriter' BY <2>2 DEF RowsNameTheWriter, Absent
  <2>. QED BY <1>2, <2>3 DEF Named, HasStatus, Exists
<1>3. ASSUME Reads PROVE Named'
  <2>1. UNCHANGED requests /\ UNCHANGED lastActor BY <1>3, ReadsStep DEF vars
  <2>2. auditing' \subseteq auditing
    BY <1>3 DEF Reads, EmitAuditRow, RefuseRow, SendOne, MailFails, Handled, Acknowledged
  <2>3. \A row \in rows' : row \in rows \/ \E e \in auditing : row = Row(e)
    BY <1>3 DEF Reads, EmitAuditRow, RefuseRow, SendOne, MailFails, Handled
  <2>. QED BY <1>2, <2>1, <2>2, <2>3
<1>4. ASSUME UNCHANGED allVars PROVE Named'
  BY <1>2, <1>4 DEF allVars, vars, noticeVars
<1>. QED BY <1>1, <1>3, <1>4, WritersOrReads

\* The types of the requests and seats, here too.
LEMMA NoticesTypes == NoticesSpec => []TypeOK
<1>1. SeatsSound => TypeOK BY DEF SeatsSound
<1>. QED BY <1>1, NoticesRefine, SeatsStaySound, PTL

\* Once its events are acknowledged, a document's audit rows lead from each of its
\* values to the next up to the one it has, but where the database refused a row
\* and it was dropped; and every row names who made the write: in whatever order
\* events are delivered and however often (auditTrigger.ts).
THEOREM TrailStaysTrue == NoticesSpec => []TrailTrue
<1>1. NoticesInit => Named BY DEF NoticesInit, Init, Named, RowsNameTheWriter, HasStatus, Exists
<1>2. TypeOK /\ TypeOK' /\ Named /\ [NoticesNext]_allVars => Named' BY NamedNext
<1>3. (Logged /\ \A d \in Docs : Linked(d)) /\ Named => TrailTrue BY TrailLinked DEF TrailTrue, Named
<1>. QED BY <1>1, <1>2, <1>3, LogInvariant, NoticesTypes, PTL DEF NoticesSpec
-----------------------------------------------------------------------------
(* The mails: what the mail triggers are handed and what they send.        *)

\* A commit hands over the events worth a mail and sends none.
LEMMA CommitMails ==
    ASSUME NEW by, NEW stamped, NEW inBand, Commit(by, stamped, inBand)
    PROVE  /\ mails' = mails /\ repeated' = repeated /\ mailing \subseteq mailing'
           /\ \A d \in Docs : Image(d)' # Image(d) /\ MailKind(Event(d, by, inBand)) # "none" =>
                 Event(d, by, inBand) \in mailing'
           /\ \A e \in mailing' : e \in mailing \/ \E d \in Docs :
                 Image(d)' # Image(d) /\ e = Event(d, by, inBand) /\ MailKind(e) # "none"
  BY DEF Commit

\* A handler makes a mail of its event, or leaves both alone.
LEMMA ReadsMail ==
    ASSUME Reads
    PROVE  \/ UNCHANGED <<mails, mailing, repeated>>
           \/ \E e \in mailing : \E n :
                 /\ mails' = mails \cup {n} /\ n.at = e.at /\ n.about = e.doc /\ n.kind = MailKind(e)
                 /\ \/ mailing' = mailing /\ repeated' = repeated \cup {[at |-> e.at, doc |-> e.doc]}
                    \/ mailing' = mailing \ {e} /\ repeated' = repeated
<1>1. ASSUME NEW e \in mailing, NEW again \in BOOLEAN, Handled(e, again), NEW result, Recorded(e, result)
      PROVE  \E n : /\ mails' = mails \cup {n} /\ n.at = e.at /\ n.about = e.doc /\ n.kind = MailKind(e)
                    /\ \/ mailing' = mailing /\ repeated' = repeated \cup {[at |-> e.at, doc |-> e.doc]}
                       \/ mailing' = mailing \ {e} /\ repeated' = repeated
  <2> DEFINE n == [at |-> e.at, about |-> e.doc, kind |-> MailKind(e), to |-> Audience(MailKind(e)), result |-> result,
                   copy |-> Cardinality(MailsOf(e))]
  <2>1. n.at = e.at /\ n.about = e.doc /\ n.kind = MailKind(e) OBVIOUS
  <2>2. mails' = mails \cup {n} BY <1>1 DEF Recorded
  <2>3. \/ mailing' = mailing /\ repeated' = repeated \cup {[at |-> e.at, doc |-> e.doc]}
        \/ mailing' = mailing \ {e} /\ repeated' = repeated
    BY <1>1 DEF Handled, Acknowledged
  <2> HIDE DEF n
  <2>. QED BY <2>1, <2>2, <2>3
<1>2. ASSUME NEW e \in mailing, NEW again \in BOOLEAN, SendOne(e, again)
      PROVE  Handled(e, again) /\ \E result : Recorded(e, result)
  BY <1>2 DEF SendOne
<1>3. ASSUME NEW e \in mailing, NEW result, MailFails(e, result)
      PROVE  Handled(e, FALSE) /\ Recorded(e, result)
  BY <1>3 DEF MailFails
<1>4. ASSUME NEW e \in auditing, RefuseRow(e) \/ \E again \in BOOLEAN : EmitAuditRow(e, again)
      PROVE  UNCHANGED <<mails, mailing, repeated>>
  BY <1>4 DEF RefuseRow, EmitAuditRow
<1>. QED BY <1>1, <1>2, <1>3, <1>4 DEF Reads

\* What a stake write is worth, and what a request write is.
LEMMA KindOf ==
    ASSUME NEW e, e.doc \in Docs
    PROVE  /\ MailKind(e) = "overCap" => e.doc = StakeDoc /\ e.before.pools = {} /\ e.after.pools # {}
           /\ e.doc = StakeDoc /\ MailKind(e) # "none" => MailKind(e) = "overCap"
           /\ e.doc = StakeDoc /\ e.before.pools = {} /\ e.after.pools # {} => MailKind(e) = "overCap"
           /\ e.doc.coll = "requests" => MailKind(e) = Classify(e)
<1>1. StakeDoc.coll = "stake" BY DEF StakeDoc, Doc
<1>2. Classify(e) # "overCap" BY DEF Classify
<1>. QED BY <1>1, <1>2 DEF MailKind, IsEmptyToNonEmptyTransition

\* An event with a mail that may still be handled was delivered again, and two
\* mails of one event are of one that was.
Copies ==
    /\ \A e, x \in mailing : e.at = x.at /\ e.doc = x.doc => e = x
    /\ \A n \in mails : \E w \in Writes : w.at = n.at /\ w.doc = n.about
    /\ \A e \in mailing, n \in mails :
          n.at = e.at /\ n.about = e.doc => [at |-> e.at, doc |-> e.doc] \in repeated
    /\ \A n, o \in mails : n # o /\ n.at = o.at /\ n.about = o.about => Again(n, o)

LEMMA CopiesNext ==
    ASSUME Logged, Logged', Copies, [NoticesNext]_allVars
    PROVE  Copies'
<1>1. ASSUME Writers PROVE Copies'
  <2>1. PICK by, stamped, inBand : Commit(by, stamped, inBand) BY <1>1, WritersStep
  <2>2. mails' = mails /\ repeated' = repeated BY <2>1, CommitMails
  <2>3. \A e \in mailing' : e \in mailing \/ (e.at = clock' /\ e = Event(e.doc, by, inBand))
    BY <2>1, CommitMails DEF Event
  <2>4. Writes \subseteq Writes' /\ clock' = clock + 1 BY <2>1, CommitLogs
  <2>5. clock \in Nat /\ \A w \in Writes : w.at \in 1..clock BY WritesType DEF Logged
  <2>6. \A n \in mails : n.at # clock' BY <2>4, <2>5 DEF Copies
  <2>7. \A e \in mailing : e.at # clock'
    <3>1. \A e \in mailing : Write(e) \in Writes /\ Write(e).at = e.at BY DEF Logged, Write
    <3>. QED BY <2>4, <2>5, <3>1
  <2>8. ASSUME NEW e \in mailing', NEW x \in mailing', e.at = x.at, e.doc = x.doc PROVE e = x
    <3>1. CASE e \in mailing /\ x \in mailing BY <2>8, <3>1 DEF Copies
    <3>2. CASE ~(e \in mailing /\ x \in mailing)
      <4>1. e = Event(e.doc, by, inBand) /\ x = Event(x.doc, by, inBand) BY <2>3, <2>7, <2>8, <3>2
      <4>. QED BY <2>8, <4>1
    <3>. QED BY <3>1, <3>2
  <2>. QED BY <2>2, <2>3, <2>4, <2>6, <2>8 DEF Copies, Again
<1>2. ASSUME Writes' = Writes, UNCHANGED <<mails, mailing, repeated>> PROVE Copies'
  BY <1>2 DEF Copies, Again
<1>3. ASSUME Reads PROVE Copies'
  <2>1. Writes' = Writes BY <1>3, ReadsLog
  <2>2. ASSUME NEW e \in mailing, NEW n,
               mails' = mails \cup {n}, n.at = e.at, n.about = e.doc, n.kind = MailKind(e),
               \/ mailing' = mailing /\ repeated' = repeated \cup {[at |-> e.at, doc |-> e.doc]}
               \/ mailing' = mailing \ {e} /\ repeated' = repeated
        PROVE  Copies'
    <3>1. Write(e) \in Writes /\ Write(e).at = e.at /\ Write(e).doc = e.doc BY DEF Logged, Write
    <3>2. \A m \in mails' : \E w \in Writes' : w.at = m.at /\ w.doc = m.about BY <2>1, <2>2, <3>1 DEF Copies
    <3>3. ASSUME NEW x \in mailing', NEW m \in mails', m.at = x.at, m.about = x.doc
          PROVE  [at |-> x.at, doc |-> x.doc] \in repeated'
      <4>1. CASE m \in mails BY <2>2, <3>3, <4>1 DEF Copies
      <4>2. CASE m = n
        <5>1. x.at = e.at /\ x.doc = e.doc BY <2>2, <3>3, <4>2
        <5>2. CASE mailing' = mailing BY <2>2, <5>1, <5>2
        <5>3. CASE mailing' = mailing \ {e}
          <6>1. x \in mailing /\ x # e BY <5>3
          <6>. QED BY <5>1, <6>1, <2>2, <5>3 DEF Copies
        <5>. QED BY <2>2, <5>2, <5>3
      <4>. QED BY <2>2, <4>1, <4>2
    <3>4. ASSUME NEW m \in mails', NEW o \in mails', m # o, m.at = o.at, m.about = o.about PROVE Again(m, o)'
      <4>1. [at |-> m.at, doc |-> m.about] \in repeated' BY <2>2, <3>4 DEF Copies, Again
      <4>. QED BY <3>4, <4>1 DEF Again
    <3>5. \A x, y \in mailing' : x.at = y.at /\ x.doc = y.doc => x = y BY <2>2 DEF Copies
    <3>. QED BY <3>2, <3>3, <3>4, <3>5 DEF Copies, Again
  <2>. QED BY <1>2, <1>3, <2>1, <2>2, ReadsMail
<1>4. ASSUME UNCHANGED allVars PROVE Copies'
  <2>1. Writes' = Writes BY <1>4 DEF allVars, noticeVars, Writes, Write
  <2>. QED BY <1>2, <1>4, <2>1 DEF allVars, noticeVars
<1>. QED BY <1>1, <1>3, <1>4, WritersOrReads

LEMMA CopiesInvariant == NoticesSpec => []Copies
<1>1. NoticesInit => Copies BY DEF NoticesInit, Copies
<1>2. Logged /\ Logged' /\ Copies /\ [NoticesNext]_allVars => Copies' BY CopiesNext
<1>. QED BY <1>1, <1>2, LogInvariant, PTL DEF NoticesSpec

-----------------------------------------------------------------------------
(* One notice per tip of the pools over their caps.                        *)

Tip(w) == w.before.pools = {} /\ w.after.pools # {}
Noticed(w) ==
    \/ \E e \in mailing : e.doc = StakeDoc /\ e.at = w.at
    \/ \E n \in mails : n.kind = "overCap" /\ n.at = w.at

\* A notice is of a tip, every tip gets its notice, and a pool that is over its
\* cap has tipped since the pools were last all within theirs.
Tipped ==
    /\ \A n \in mails : n.kind = "overCap" =>
          n.about = StakeDoc /\ \E w \in WritesOf(StakeDoc) : Tip(w) /\ w.at = n.at
    /\ \A w \in WritesOf(StakeDoc) : Tip(w) => Noticed(w)
    /\ overCaps # {} => \A w \in WritesOf(StakeDoc) : w.before.pools = {} =>
          \E v \in WritesOf(StakeDoc) : v.at >= w.at /\ Tip(v)

LEMMA TippedNext ==
    ASSUME Logged, Tipped, [NoticesNext]_allVars
    PROVE  Tipped'
<1>1. StakeDoc \in Docs BY DEF Docs
<1>2. StakeDoc.coll = "stake" BY DEF StakeDoc, Doc
<1>3. Image(StakeDoc) = [pools |-> overCaps, mailOn |-> mailOn] /\ Image(StakeDoc)' = [pools |-> overCaps', mailOn |-> mailOn']
  BY <1>2 DEF Image
<1>4. ASSUME Writers PROVE Tipped'
  <2>1. PICK by, stamped, inBand : Commit(by, stamped, inBand) BY <1>4, WritersStep
  <2>2. mails' = mails /\ mailing \subseteq mailing' BY <2>1, CommitMails
  <2>3. clock' = clock + 1 /\ Writes' = Writes \cup {NewWrite(c) : c \in {e \in Docs : Image(e)' # Image(e)}}
    BY <2>1, CommitLogs
  <2>4. \A c \in Docs : NewWrite(c).doc = c /\ NewWrite(c).at = clock'
                        /\ NewWrite(c).before = Image(c) /\ NewWrite(c).after = Image(c)'
    BY DEF NewWrite
  <2>5. WritesOf(StakeDoc) \subseteq WritesOf(StakeDoc)' BY <2>3 DEF WritesOf
  <2>6. clock \in Nat /\ \A w \in WritesOf(StakeDoc) : w.at \in 1..clock BY WritesType DEF Logged, WritesOf
  <2>7. \A n \in mails' : n.kind = "overCap" =>
          n.about = StakeDoc /\ \E w \in WritesOf(StakeDoc)' : Tip(w) /\ w.at = n.at
    BY <2>2, <2>5 DEF Tipped
  <2>8. \A w \in WritesOf(StakeDoc) : Tip(w) => Noticed(w)' BY <2>2 DEF Tipped, Noticed
  <2>9. CASE Image(StakeDoc)' = Image(StakeDoc)
    <3>1. WritesOf(StakeDoc)' = WritesOf(StakeDoc) BY <2>3, <2>4, <2>9 DEF WritesOf
    <3>2. overCaps' = overCaps BY <1>3, <2>9
    <3>. QED BY <2>7, <2>8, <3>1, <3>2 DEF Tipped
  <2>10. CASE Image(StakeDoc)' # Image(StakeDoc)
    <3>1. PICK n : n = NewWrite(StakeDoc) OBVIOUS
    <3>2. WritesOf(StakeDoc)' = WritesOf(StakeDoc) \cup {n} BY <1>1, <2>3, <2>4, <2>10, <3>1 DEF WritesOf
    <3>3. n.at = clock + 1 /\ n.before.pools = overCaps /\ n.after.pools = overCaps'
      BY <1>1, <1>3, <2>3, <2>4, <3>1
    <3>4. Tip(n) => Noticed(n)'
      <4>1. PICK e : e = Event(StakeDoc, by, inBand) OBVIOUS
      <4>2. e.at = n.at /\ e.doc = StakeDoc /\ e.before.pools = overCaps /\ e.after.pools = overCaps'
        BY <1>3, <2>3, <3>3, <4>1 DEF Event
      <4>3. ASSUME Tip(n) PROVE e \in mailing'
        <5>1. MailKind(e) = "overCap" BY <1>1, <3>3, <4>2, <4>3, KindOf DEF Tip
        <5>. QED BY <1>1, <2>1, <2>10, <4>1, <5>1, CommitMails
      <4>. QED BY <4>2, <4>3 DEF Noticed
    <3>5. \A w \in WritesOf(StakeDoc)' : Tip(w) => Noticed(w)' BY <2>8, <3>2, <3>4
    <3>6. ASSUME overCaps' # {}, NEW w \in WritesOf(StakeDoc)', w.before.pools = {}
          PROVE  \E v \in WritesOf(StakeDoc)' : v.at >= w.at /\ Tip(v)
      <4>1. CASE overCaps = {} BY <2>6, <3>2, <3>3, <3>6, <4>1 DEF Tip
      <4>2. CASE overCaps # {}
        <5>1. w \in WritesOf(StakeDoc) BY <3>2, <3>3, <3>6, <4>2
        <5>. QED BY <2>5, <3>6, <4>2, <5>1 DEF Tipped
      <4>. QED BY <4>1, <4>2
    <3>. QED BY <2>7, <3>5, <3>6 DEF Tipped
  <2>. QED BY <2>9, <2>10
<1>5. ASSUME Writes' = Writes, UNCHANGED <<overCaps, mails, mailing>> PROVE Tipped'
  <2>1. WritesOf(StakeDoc)' = WritesOf(StakeDoc) BY <1>5 DEF WritesOf
  <2>. QED BY <1>5, <2>1 DEF Tipped, Noticed
<1>6. ASSUME Reads PROVE Tipped'
  <2>1. Writes' = Writes /\ UNCHANGED overCaps BY <1>6, ReadsLog, ReadsStep DEF vars
  <2>2. WritesOf(StakeDoc)' = WritesOf(StakeDoc) BY <2>1 DEF WritesOf
  <2>3. CASE UNCHANGED <<mails, mailing>> BY <1>5, <2>1, <2>3
  <2>4. ASSUME NEW e \in mailing, NEW n,
               mails' = mails \cup {n}, n.at = e.at, n.about = e.doc, n.kind = MailKind(e),
               mailing' = mailing \/ mailing' = mailing \ {e}
        PROVE  Tipped'
    <3>1. Write(e) \in Writes /\ MailKind(e) # "none" BY DEF Logged
    <3>2. Write(e).at = e.at /\ Write(e).doc = e.doc /\ Write(e).before = e.before /\ Write(e).after = e.after
      BY DEF Write
    <3>3. e.doc \in Docs BY <3>1, <3>2, WritesType
    <3>4. n.kind = "overCap" => n.about = StakeDoc /\ Tip(Write(e)) /\ Write(e) \in WritesOf(StakeDoc)
      BY <2>4, <3>1, <3>2, <3>3, KindOf DEF Tip, WritesOf
    <3>5. \A o \in mails' : o.kind = "overCap" =>
            o.about = StakeDoc /\ \E w \in WritesOf(StakeDoc)' : Tip(w) /\ w.at = o.at
      BY <2>2, <2>4, <3>2, <3>4 DEF Tipped
    <3>6. e.doc = StakeDoc => n.kind = "overCap" BY <2>4, <3>1, <3>3, KindOf
    <3>7. \A w \in WritesOf(StakeDoc) : Noticed(w) => Noticed(w)' BY <2>4, <3>6 DEF Noticed
    <3>. QED BY <2>1, <2>2, <3>5, <3>7 DEF Tipped
  <2>. QED BY <1>6, <2>3, <2>4, ReadsMail
<1>7. ASSUME UNCHANGED allVars PROVE Tipped'
  <2>1. Writes' = Writes BY <1>7 DEF allVars, noticeVars, Writes, Write
  <2>. QED BY <1>5, <1>7, <2>1 DEF allVars, noticeVars, vars
<1>. QED BY <1>4, <1>6, <1>7, WritersOrReads

\* Two over-cap notices are of one event, delivered again, or the pools were all
\* within their caps between them; and when one is over and nothing is
\* outstanding, a notice went out, was held back or failed since they last were
\* (notifyOnOverCap.ts).
THEOREM OneNoticePerTip == NoticesSpec => []OncePerTip
<1>1. NoticesInit => Tipped
  <2>. HAVE NoticesInit
  <2>1. mails = {} /\ WritesOf(StakeDoc) = {} BY DEF NoticesInit, WritesOf, Writes
  <2>. QED BY <2>1 DEF Tipped
<1>2. Logged /\ Tipped /\ [NoticesNext]_allVars => Tipped' BY TippedNext
<1>3. (Logged /\ \A d \in Docs : Linked(d)) /\ Tipped /\ Copies => OncePerTip
  <2>1. SUFFICES ASSUME Logged, \A d \in Docs : Linked(d), Tipped, Copies PROVE OncePerTip OBVIOUS
  <2>2. Linked(StakeDoc) BY <2>1 DEF Docs
  <2>3. ASSUME NEW n \in mails, NEW later \in mails, n.kind = "overCap", later.kind = "overCap", n.at < later.at
        PROVE  \E w \in WritesOf(StakeDoc) : w.after.pools = {} /\ n.at < w.at /\ w.at < later.at
    <3>1. PICK v \in WritesOf(StakeDoc) : Tip(v) /\ v.at = n.at BY <2>1, <2>3 DEF Tipped
    <3>2. PICK w \in WritesOf(StakeDoc) : Tip(w) /\ w.at = later.at BY <2>1, <2>3 DEF Tipped
    <3>3. v.after # w.before BY <3>1, <3>2 DEF Tip
    <3>4. PICK u \in WritesOf(StakeDoc) : v.at < u.at /\ u.at < w.at /\ u.after = w.before
      BY <2>2, <2>3, <3>1, <3>2, <3>3 DEF Linked
    <3>. QED BY <3>1, <3>2, <3>4 DEF Tip
  <2>4. ASSUME overCaps # {}, \A e \in mailing : e.doc # StakeDoc, NEW w \in WritesOf(StakeDoc), w.before.pools = {}
        PROVE  \E n \in mails : n.kind = "overCap" /\ n.at >= w.at
    <3>1. PICK v \in WritesOf(StakeDoc) : v.at >= w.at /\ Tip(v) BY <2>1, <2>4 DEF Tipped
    <3>2. Noticed(v) BY <2>1, <3>1 DEF Tipped
    <3>. QED BY <2>4, <3>1, <3>2 DEF Noticed
  <2>5. ASSUME NEW n \in mails, NEW later \in mails, n.kind = "overCap", later.kind = "overCap",
               n # later, n.at = later.at
        PROVE  Again(n, later)
    <3>1. n.about = StakeDoc /\ later.about = StakeDoc BY <2>1, <2>5 DEF Tipped
    <3>. QED BY <2>1, <2>5, <3>1 DEF Copies
  <2>6. ASSUME NEW n \in mails, n.kind = "overCap" PROVE n.at \in Nat
    <3>1. PICK w \in WritesOf(StakeDoc) : w.at = n.at BY <2>1, <2>6 DEF Tipped
    <3>. QED BY <2>1, <3>1, WritesType DEF WritesOf, Logged
  <2>7. ASSUME NEW n \in mails, NEW later \in mails, n.kind = "overCap", later.kind = "overCap",
               n # later, n.at <= later.at
        PROVE  \/ Again(n, later)
               \/ \E w \in WritesOf(StakeDoc) : w.after.pools = {} /\ n.at < w.at /\ w.at < later.at
    BY <2>3, <2>5, <2>6, <2>7
  <2>. QED BY <2>4, <2>7 DEF OncePerTip
<1>. QED BY <1>1, <1>2, <1>3, LogInvariant, CopiesInvariant, PTL DEF NoticesSpec
-----------------------------------------------------------------------------
(* One outcome per request.                                                *)

\* What the mail triggers have to say of a request or have said.
News(r) ==
    {[at |-> e.at, kind |-> MailKind(e)] : e \in {x \in mailing : x.doc = Doc("requests", r)}}
    \cup {[at |-> n.at, kind |-> n.kind] : n \in {x \in mails : x.about = Doc("requests", r)}}
Verdicts(r) == {n \in News(r) : n.kind # "newRequest"}

\* A decided request has one verdict on its way or sent, which is the decision;
\* one that is pending has none.
Announced ==
    \A r \in ReqIds :
        /\ \A n \in Verdicts(r) : n.kind \in {"completed", "rejected", "cancelled"} /\ HasStatus(r, Outcome(n.kind))
        /\ \A n, o \in Verdicts(r) : n.at = o.at
        /\ Exists(r) /\ requests[r].status # "pending" => Verdicts(r) # {}

LEMMA RequestMoves ==
    ASSUME TypeOK, TypeOK', Writers, NEW q \in ReqIds, requests'[q] # requests[q]
    PROVE  \/ Appeared(q)
           \/ \E s \in {"complete", "rejected", "cancelled"} : Went(q, "pending", s)
           \/ Went(q, "complete", "complete")
<1>1. ASSUME UNCHANGED requests PROVE FALSE BY <1>1
<1>2. \A m, org : SetOrganization(m, org) => UNCHANGED requests BY DEF SetOrganization
<1>3. ASSUME NEW r \in ReqIds, ByClerk(r) PROVE Appeared(q) \/ Went(q, "pending", "cancelled") BY <1>3, ClerkMoves
<1>4. ASSUME NEW r \in ReqIds, ByManager(r) PROVE Went(q, "pending", "complete") \/ Went(q, "pending", "rejected")
  BY <1>4, ManagerMoves
<1>5. ASSUME NEW r \in ReqIds, ByRemoveTrigger(r) PROVE Went(q, "complete", "complete") BY <1>5, TriggerMoves
<1>6. ASSUME SwitchesMail PROVE FALSE BY <1>1, <1>6 DEF SwitchesMail, vars
<1>7. ASSUME NEW m, NEW org, NEW inBand, EditsOrganization(m, org, inBand) PROVE FALSE
  BY <1>1, <1>2, <1>7 DEF EditsOrganization
<1>. QED BY <1>3, <1>4, <1>5, <1>6, <1>7 DEF Writers

\* A commit brings a request the news of its own write.
LEMMA CommitNews ==
    ASSUME NEW by, NEW stamped, NEW inBand, Commit(by, stamped, inBand), NEW r \in ReqIds
    PROVE  \E e : /\ e.before = requests[r] /\ e.after = requests'[r]
                  /\ News(r)' = IF requests'[r] # requests[r] /\ Classify(e) # "none"
                                THEN News(r) \cup {[at |-> e.at, kind |-> Classify(e)]} ELSE News(r)
<1> DEFINE d == Doc("requests", r)
           e == Event(d, by, inBand)
<1>1. d \in Docs /\ d.coll = "requests" /\ Image(d) = requests[r] /\ Image(d)' = requests'[r] BY DocFacts DEF Image
<1>2. e.doc = d /\ e.before = requests[r] /\ e.after = requests'[r] BY <1>1 DEF Event
<1>3. MailKind(e) = Classify(e) BY <1>1, <1>2, KindOf
<1>4. \A c \in Docs : Event(c, by, inBand).doc = c BY DEF Event
<1>5. News(r)' = {[at |-> x.at, kind |-> MailKind(x)] : x \in {y \in mailing' : y.doc = d}}
                 \cup {[at |-> n.at, kind |-> n.kind] : n \in {x \in mails' : x.about = d}}
  BY DEF News, MailKind, Classify, Absent, IsEmptyToNonEmptyTransition, StakeDoc, Doc, NoRequest, NoSeat
<1> HIDE DEF d, e
<1>6. CASE requests'[r] # requests[r] /\ Classify(e) # "none"
  <2>1. e \in mailing' BY <1>1, <1>3, <1>6, CommitMails DEF e
  <2>2. {y \in mailing' : y.doc = d} = {y \in mailing : y.doc = d} \cup {e} BY <1>2, <1>4, <2>1, CommitMails DEF e
  <2>3. mails' = mails BY CommitMails
  <2>4. News(r)' = News(r) \cup {[at |-> e.at, kind |-> MailKind(e)]} BY <1>5, <2>2, <2>3 DEF News, d
  <2>. QED BY <1>2, <1>3, <1>6, <2>4
<1>7. CASE ~(requests'[r] # requests[r] /\ Classify(e) # "none")
  <2>1. {y \in mailing' : y.doc = d} = {y \in mailing : y.doc = d} BY <1>1, <1>3, <1>4, <1>7, CommitMails DEF e
  <2>2. mails' = mails BY CommitMails
  <2>3. News(r)' = News(r) BY <1>5, <2>1, <2>2 DEF News, d
  <2>. QED BY <1>2, <1>7, <2>3
<1>. QED BY <1>6, <1>7

\* A handler turns what there is to say into what was said.
LEMMA ReadsNews ==
    ASSUME Reads, NEW r \in ReqIds
    PROVE  News(r)' = News(r)
<1> DEFINE d == Doc("requests", r)
<1>1. News(r)' = {[at |-> x.at, kind |-> MailKind(x)] : x \in {y \in mailing' : y.doc = d}}
                 \cup {[at |-> n.at, kind |-> n.kind] : n \in {x \in mails' : x.about = d}}
  BY DEF News, MailKind, Classify, Absent, IsEmptyToNonEmptyTransition, StakeDoc, Doc, NoRequest, NoSeat
<1>2. News(r) = {[at |-> x.at, kind |-> MailKind(x)] : x \in {y \in mailing : y.doc = d}}
                \cup {[at |-> n.at, kind |-> n.kind] : n \in {x \in mails : x.about = d}}
  BY DEF News
<1> HIDE DEF d
<1>3. CASE UNCHANGED <<mails, mailing>> BY <1>1, <1>2, <1>3
<1>4. ASSUME NEW e \in mailing, NEW n, mails' = mails \cup {n}, n.at = e.at, n.about = e.doc, n.kind = MailKind(e),
             mailing' = mailing \/ mailing' = mailing \ {e}
      PROVE  News(r)' = News(r)
  <2>1. [at |-> e.at, kind |-> MailKind(e)] = [at |-> n.at, kind |-> n.kind] BY <1>4
  <2>2. CASE e.doc = d
    <3>1. {x \in mails' : x.about = d} = {x \in mails : x.about = d} \cup {n} BY <1>4, <2>2
    <3>2. /\ {y \in mailing : y.doc = d} = {y \in mailing' : y.doc = d} \cup {e} BY <1>4, <2>2
    <3>. QED BY <1>1, <1>2, <2>1, <3>1, <3>2
  <2>3. CASE e.doc # d
    <3>1. {x \in mails' : x.about = d} = {x \in mails : x.about = d} BY <1>4, <2>3
    <3>2. {y \in mailing' : y.doc = d} = {y \in mailing : y.doc = d} BY <1>4, <2>3
    <3>. QED BY <1>1, <1>2, <3>1, <3>2
  <2>. QED BY <2>2, <2>3
<1>. QED BY <1>3, <1>4, ReadsMail

LEMMA AnnouncedNext ==
    ASSUME TypeOK, TypeOK', Announced, [NoticesNext]_allVars
    PROVE  Announced'
<1>1. ASSUME NEW r \in ReqIds, News(r)' = News(r), requests'[r] = requests[r] \/ Went(r, "complete", "complete")
      PROVE  /\ \A n \in Verdicts(r)' : n.kind \in {"completed", "rejected", "cancelled"} /\ HasStatus(r, Outcome(n.kind))'
             /\ \A n, o \in Verdicts(r)' : n.at = o.at
             /\ Exists(r)' /\ requests'[r].status # "pending" => Verdicts(r)' # {}
  <2>1. Verdicts(r)' = Verdicts(r) BY <1>1 DEF Verdicts
  <2>2. Exists(r)' <=> Exists(r) BY <1>1 DEF Went, HasStatus, Exists
  <2>3. Exists(r) => requests'[r].status = requests[r].status BY <1>1 DEF Went, HasStatus, Exists
  <2>. QED BY <2>1, <2>2, <2>3 DEF Announced, HasStatus, Outcome
<1>2. ASSUME Writers PROVE Announced'
  <2>1. PICK by, stamped, inBand : Commit(by, stamped, inBand) BY <1>2, WritersStep
  <2>2. ASSUME NEW r \in ReqIds
        PROVE  /\ \A n \in Verdicts(r)' : n.kind \in {"completed", "rejected", "cancelled"} /\ HasStatus(r, Outcome(n.kind))'
               /\ \A n, o \in Verdicts(r)' : n.at = o.at
               /\ Exists(r)' /\ requests'[r].status # "pending" => Verdicts(r)' # {}
    <3>1. PICK e : /\ e.before = requests[r] /\ e.after = requests'[r]
                   /\ News(r)' = IF requests'[r] # requests[r] /\ Classify(e) # "none"
                                 THEN News(r) \cup {[at |-> e.at, kind |-> Classify(e)]} ELSE News(r)
      BY <2>1, CommitNews
    <3>2. CASE requests'[r] = requests[r] BY <1>1, <3>1, <3>2
    <3>3. CASE Went(r, "complete", "complete")
      <4>1. ~Absent(e.before) /\ e.before.status # "pending"
        BY <3>1, <3>3, RecordsApart DEF Went, HasStatus, Exists, Absent
      <4>2. Classify(e) = "none" BY <4>1 DEF Classify
      <4>. QED BY <1>1, <3>1, <3>3, <4>2
    <3>4. CASE requests'[r] # requests[r] /\ Appeared(r)
      <4>1. Absent(e.before) BY <3>1, <3>4 DEF Appeared, Exists, Absent
      <4>2. Classify(e) = "newRequest" BY <3>1, <3>4, <4>1 DEF Classify, Appeared, HasStatus
      <4>3. Verdicts(r) = {} BY <3>4 DEF Announced, Appeared, HasStatus
      <4>4. Verdicts(r)' = {} BY <3>1, <3>4, <4>2, <4>3 DEF Verdicts
      <4>5. requests'[r].status = "pending" BY <3>4 DEF Appeared, HasStatus
      <4>. QED BY <4>4, <4>5
    <3>5. ASSUME requests'[r] # requests[r], NEW s \in {"complete", "rejected", "cancelled"}, Went(r, "pending", s)
          PROVE  /\ \A n \in Verdicts(r)' : n.kind \in {"completed", "rejected", "cancelled"} /\ HasStatus(r, Outcome(n.kind))'
                 /\ \A n, o \in Verdicts(r)' : n.at = o.at
                 /\ Exists(r)' /\ requests'[r].status # "pending" => Verdicts(r)' # {}
      <4>1. ~Absent(e.before) /\ e.before.status = "pending" /\ e.after.status = s
        BY <3>1, <3>5, RecordsApart DEF Went, HasStatus, Exists, Absent
      <4>2. Classify(e) \in {"completed", "rejected", "cancelled"} /\ Outcome(Classify(e)) = s
        BY <4>1 DEF Classify, Outcome
      <4>3. Verdicts(r) = {} BY <3>5 DEF Announced, Went, HasStatus, Outcome
      <4>4. PICK k : k = Classify(e) OBVIOUS
      <4>5. Verdicts(r)' = {[at |-> e.at, kind |-> k]}
        <5>1. News(r)' = News(r) \cup {[at |-> e.at, kind |-> k]} /\ k # "newRequest" BY <3>1, <3>5, <4>2, <4>4
        <5>. QED BY <4>3, <5>1 DEF Verdicts
      <4>6. HasStatus(r, s)' BY <3>5 DEF Went
      <4>7. k \in {"completed", "rejected", "cancelled"} /\ HasStatus(r, Outcome(k))'
        BY <4>2, <4>4, <4>6 DEF HasStatus, Outcome
      <4>8. \A n \in Verdicts(r)' : n = [at |-> e.at, kind |-> k] BY <4>5
      <4>. QED BY <4>5, <4>7, <4>8 DEF HasStatus, Outcome
    <3>. QED BY <1>2, <3>2, <3>3, <3>4, <3>5, RequestMoves
  <2>. QED BY <2>2 DEF Announced
<1>3. ASSUME Reads PROVE Announced'
  <2>1. UNCHANGED requests BY <1>3, ReadsStep DEF vars
  <2>. QED BY <1>1, <1>3, <2>1, ReadsNews DEF Announced
<1>4. ASSUME UNCHANGED allVars PROVE Announced'
  <2>1. UNCHANGED <<requests, mails, mailing>> BY <1>4 DEF allVars, vars, noticeVars
  <2>2. \A r \in ReqIds : News(r)' = News(r) BY <2>1 DEF News, MailKind
  <2>. QED BY <1>1, <2>1, <2>2 DEF Announced
<1>. QED BY <1>2, <1>3, <1>4, WritersOrReads

\* Of every request one outcome at most is announced, the one it has, and once
\* unless its event is delivered again, whatever the seat trigger writes to the
\* request afterwards; and one is announced, held back or lost by when its events
\* are handled (notifyOnRequestWrite.ts).
THEOREM OutcomesAreAnnounced == NoticesSpec => []OutcomeAnnounced
<1>1. NoticesInit => Announced
  BY DEF NoticesInit, Init, Announced, Verdicts, News, Exists
<1>2. TypeOK /\ TypeOK' /\ Announced /\ [NoticesNext]_allVars => Announced' BY AnnouncedNext
<1>3. Announced /\ Copies => OutcomeAnnounced
  <2>1. SUFFICES ASSUME Announced, Copies, NEW r \in ReqIds, NEW outcomes,
                        outcomes = {mail \in mails : mail.about = Doc("requests", r) /\ mail.kind # "newRequest"}
                 PROVE  /\ \A mail \in outcomes : HasStatus(r, Outcome(mail.kind))
                        /\ \A mail, other \in outcomes : mail # other => Again(mail, other)
                        /\ Exists(r) /\ requests[r].status # "pending"
                           /\ (\A e \in mailing : e.doc # Doc("requests", r)) => outcomes # {}
    BY DEF OutcomeAnnounced
  <2>2. ASSUME NEW n \in outcomes PROVE [at |-> n.at, kind |-> n.kind] \in Verdicts(r)
    BY <2>1, <2>2 DEF Verdicts, News
  <2>3. \A mail \in outcomes : HasStatus(r, Outcome(mail.kind)) BY <2>1, <2>2 DEF Announced
  <2>4. ASSUME NEW mail \in outcomes, NEW other \in outcomes PROVE mail.at = other.at
    <3>1. [at |-> mail.at, kind |-> mail.kind].at = [at |-> other.at, kind |-> other.kind].at BY <2>1, <2>2 DEF Announced
    <3>. QED BY <3>1
  <2>5. ASSUME Exists(r), requests[r].status # "pending", \A e \in mailing : e.doc # Doc("requests", r)
        PROVE  outcomes # {}
    <3>1. PICK n \in News(r) : n.kind # "newRequest" BY <2>1, <2>5 DEF Announced, Verdicts
    <3>. QED BY <2>1, <2>5, <3>1 DEF News
  <2>6. ASSUME NEW mail \in outcomes, NEW other \in outcomes, mail # other PROVE Again(mail, other)
    BY <2>1, <2>4, <2>6 DEF Copies
  <2>. QED BY <2>3, <2>5, <2>6
<1>. QED BY <1>1, <1>2, <1>3, NoticesTypes, CopiesInvariant, PTL DEF NoticesSpec
=============================================================================
