----------------------------- MODULE RequestForms -----------------------------
(***************************************************************************)
(* What the web app's dialogs let each kind of user submit, from the seat  *)
(* as it is shown, and what the create rule admits: two tables written     *)
(* twice, in TypeScript and in the rules language.  The dialogs are the    *)
(* new-request form, the edit dialog, the removal dialog of the rosters    *)
(* and of All Seats, and "Give Access To Stake Buildings".                 *)
(*                                                                         *)
(* A body is an Input of RequestLifecycle with two facts the rule reads:   *)
(* does its temp window exceed 90 days, and does it carry a comment.       *)
(* Expired temp grants only lose affordances and are left out.             *)
(***************************************************************************)
EXTENDS RequestLifecycle

CONSTANTS
    BuildingSite,   \* the Kindoo site of each building
    Principals      \* the users: their claims in the stake

\* Managers are never minted limited.
Principal == {p \in [manager : BOOLEAN, stake : BOOLEAN, wards : SUBSET Wards, limited : BOOLEAN] :
                p.manager => ~p.limited}

ASSUME FormsAssumption ==
    /\ BuildingSite \in [Buildings -> ForeignSites \cup {Home}]
    /\ \A w \in Wards : WardSite[w] = BuildingSite[WardBuilding[w]]
    /\ Principals \subseteq Principal

Form(type, m, scope, site, buildings, org, reason, long, comment) ==
    [input |-> [type |-> type, member |-> m, scope |-> scope, site |-> site,
                buildings |-> buildings, org |-> org, reason |-> reason],
     long |-> long, comment |-> comment]

-----------------------------------------------------------------------------
(* What the dialogs offer.                                                 *)

AllowedScopes(p) ==
    (IF p.manager \/ p.stake THEN {Stake} ELSE {}) \cup p.wards \cup (IF p.manager THEN Wards ELSE {})

IsScopeAllowed(p, scope) == p.manager \/ IF scope = Stake THEN p.stake ELSE scope \in p.wards

SiteIdForScope(scope) == IF scope \in Wards THEN WardSite[scope] ELSE Home
VisibleBuildings(scope) == {b \in Buildings : BuildingSite[b] = SiteIdForScope(scope)}

\* The buildings a form can send: any choice of the visible ones, or for a
\* limited user's ward request exactly the ward's own.
BuildingChoices(p, scope) ==
    IF p.limited /\ scope # Stake
    THEN IF scope \in Wards THEN {{WardBuilding[scope]}} ELSE {}
    ELSE (SUBSET VisibleBuildings(scope)) \ {{}}

CrossWard(scope, buildings) == scope \in Wards /\ ~(buildings \subseteq {WardBuilding[scope]})

\* The organisation selector is there at stake scope only.
OrgChoices(scope) == IF scope = Stake THEN Orgs \cup {NoOrg} ELSE {NoOrg}
Reasons == {{c} : c \in Callings} \cup (IF Callings = {} THEN {{}} ELSE {})

HasGrantAt(seat, scope) == \E g \in Grants(seat) : g.scope = scope

\* The form's schema: a comment for buildings outside the ward, 90 days for a
\* limited user.
NewFormValid(p, form) ==
    /\ form.long => ~p.limited /\ form.input.type = "add_temp"
    /\ CrossWard(form.input.scope, form.input.buildings) => form.comment

\* The new-request form: no submit over a grant the member has at that scope.
NewForms(p, m, seat) ==
    {f \in UNION {
        {Form(type, m, scope, Unset, b, org, reason, long, comment) :
            type \in IF p.limited THEN {"add_temp"} ELSE AddTypes,
            b \in BuildingChoices(p, scope), org \in OrgChoices(scope), reason \in Reasons,
            long \in BOOLEAN, comment \in BOOLEAN} :
        scope \in {s \in AllowedScopes(p) : ~HasGrantAt(seat, s)}} :
     NewFormValid(p, f)}

IsForeignSiteOnly(seat) ==
    \A g \in Grants(seat) : g.scope # Stake /\ (IF g.site \in ForeignSites THEN g.site
                                                ELSE SiteIdForScope(g.scope)) # Home

\* "Give Access To Stake Buildings", on All Seats.
GrantStakeForms(p, m, seat) ==
    IF p.manager /\ seat # NoSeat /\ IsForeignSiteOnly(seat)
    THEN {Form("add_manual", m, Stake, Unset, b, NoOrg, reason, FALSE, comment) :
             b \in (SUBSET VisibleBuildings(Stake)) \ {{}}, reason \in Reasons, comment \in BOOLEAN}
    ELSE {}

CanEditSeat(p, seat) ==
    /\ ~(seat.type = "auto" /\ seat.scope = Stake)
    /\ p.limited => seat.type = "temp"
    /\ IsScopeAllowed(p, seat.scope)

\* The auto primary's buildings, and those of the other grants shown in its row.
AutoOwned(seat) == seat.buildings \cap VisibleBuildings(seat.scope)
DupOnly(seat) ==
    (UNION {g.buildings : g \in {d \in ToSet(seat.dups) : d.scope = seat.scope /\ d.type # "auto"}})
    \ AutoOwned(seat)

\* (mutation) the locked buildings of the whole row are sent.
EditBuildingsOfRow(p, seat) ==
    IF seat.type = "auto"
    THEN {AutoOwned(seat) \cup DupOnly(seat) \cup b : b \in BuildingChoices(p, seat.scope)}
    ELSE BuildingChoices(p, seat.scope)

\* What the edit dialog sends: an auto seat keeps its visible buildings and
\* never absorbs those of a duplicate; the others send what is checked.
EditBuildings(p, seat) ==
    IF seat.type = "auto"
    THEN {AutoOwned(seat) \cup (b \ DupOnly(seat)) : b \in BuildingChoices(p, seat.scope)}
    ELSE BuildingChoices(p, seat.scope)

EditTypeFor(type) ==
    CASE type = "auto" -> "edit_auto" [] type = "temp" -> "edit_temp" [] OTHER -> "edit_manual"

\* The dialog's schema: a building, a comment, 90 days for a limited user.
EditFormValid(p, form) ==
    /\ form.input.buildings # {} /\ form.comment
    /\ form.long => ~p.limited /\ form.input.type = "edit_temp"

\* The edit dialog opens on the row of the primary grant only.
EditForms(p, m, seat) ==
    IF seat = NoSeat \/ ~CanEditSeat(p, seat) THEN {}
    ELSE {f \in {Form(EditTypeFor(seat.type), m, seat.scope, Unset, b, org,
                     IF seat.type = "auto" THEN {} ELSE reason, long, comment) :
                  b \in EditBuildings(p, seat), org \in OrgChoices(seat.scope), reason \in Reasons,
                  long \in BOOLEAN, comment \in BOOLEAN} :
          EditFormValid(p, f)}

\* (mutation) only the grant of the row has to be a temp one.
CanRemoveSeatByRow(p, seat, grant) ==
    (p.limited => grant.type = "temp") /\ IsScopeAllowed(p, grant.scope)

CanRemoveSeat(p, seat, grant) ==
    (p.limited => seat.type = "temp" /\ grant.type = "temp") /\ IsScopeAllowed(p, grant.scope)

\* The place of the first duplicate of a scope on a site, or of the scope.
FirstOn(dups, scope, site) == SelectInSeq(dups, LAMBDA d : Addressed(d, scope, site))
FirstAt(dups, scope) == SelectInSeq(dups, LAMBDA d : d.scope = scope)

\* The one grant a roster shows for its scope: the primary, else the first on
\* the home site, else the first on a foreign site - which of those sites is a
\* matter of their names (the least), so each is here.
PickGrantForScope(seat, scope) ==
    IF seat.scope = scope THEN {Primary(seat)}
    ELSE IF FirstOn(seat.dups, scope, Home) > 0 THEN {seat.dups[FirstOn(seat.dups, scope, Home)]}
    ELSE {seat.dups[FirstOn(seat.dups, scope, site)] :
            site \in {t \in ForeignSites : FirstOn(seat.dups, scope, t) > 0}}

\* All Seats folds the grants of one scope into the row of the first.
FirstGrantOf(seat, scope) ==
    IF seat.scope = scope THEN Primary(seat) ELSE seat.dups[FirstAt(seat.dups, scope)]

(* The rows of the four rosters that carry a Remove button.                *)

RowsOf(seat, scopes) == UNION {PickGrantForScope(seat, s) : s \in scopes}

BishopricRoster(p, seat) == RowsOf(seat, p.wards)
WardRosters(seat) == RowsOf(seat, Wards)
StakeRoster(seat) == RowsOf(seat, {Stake})

\* All Seats is the managers', and asks for the row's scope alone.
AllSeatsRemovals(p, seat) ==
    IF p.manager
    THEN {g \in {FirstGrantOf(seat, s) : s \in {t \in Scopes : HasGrantAt(seat, t)}} :
             IsScopeAllowed(p, g.scope) /\ g.type # "auto"}
    ELSE {}

RosterRemovals(p, seat) ==
    {g \in BishopricRoster(p, seat) \cup WardRosters(seat) \cup StakeRoster(seat) :
        CanRemoveSeat(p, seat, g) /\ g.type # "auto"}

RemovableRows(p, seat) ==
    IF seat = NoSeat THEN {} ELSE RosterRemovals(p, seat) \cup AllSeatsRemovals(p, seat)

RemoveForm(m, g, reason) == Form("remove", m, g.scope, NormSite(g.site), {}, NoOrg, reason, FALSE, FALSE)

RemoveForms(p, m, seat) == {RemoveForm(m, g, reason) : g \in RemovableRows(p, seat), reason \in Reasons}

Forms(p, m, seat) ==
    NewForms(p, m, seat) \cup GrantStakeForms(p, m, seat) \cup EditForms(p, m, seat) \cup RemoveForms(p, m, seat)

-----------------------------------------------------------------------------
(* What the create rule admits (firestore.rules, requests).                *)

TargetIsTemp(seat) == seat # NoSeat /\ seat.type = "temp"
LimitedWardBuildingOk(input) == input.scope \in Wards /\ input.buildings = {WardBuilding[input.scope]}

LimitedClauses(form, seat) ==
    LET input == form.input IN
    /\ input.type \in {"add_temp", "edit_temp", "remove"}
    /\ input.type # "add_temp" => TargetIsTemp(seat)
    /\ input.type # "remove" => ~form.long /\ (input.scope = Stake \/ LimitedWardBuildingOk(input))

CreateAdmitted(p, form, seat) ==
    LET input == form.input IN
    /\ input.type # "remove" => input.buildings # {}
    /\ input.type = "edit_auto" => input.scope # Stake
    /\ input.type \in EditTypes => form.comment
    /\ p.manager \/ (input.scope = Stake /\ p.stake) \/ input.scope \in p.wards
    /\ p.limited => LimitedClauses(form, seat)

-----------------------------------------------------------------------------
(* Properties.                                                             *)

\* What dialogs offer depends on the seats alone.  Requests that are pending,
\* were withdrawn, or carry a manager's note have not changed those: the same
\* seats come without them, so it is enough to look where there are none.
Settled == \A r \in ReqIds : Exists(r) => HasStatus(r, "complete") /\ "manager" \notin requests[r].note

\* Every body a dialog offers for the seats as they are, the create rule admits:
\* no button leads to a denied write (scopeOptions.ts, "everything this
\* predicate admits, the rules also admit").
FormsAdmitted ==
    Settled => \A m \in Members, p \in Principals : \A f \in Forms(p, m, seats[m]) : CreateAdmitted(p, f, seats[m])

\* The seat a manager's completion would leave, had nothing else happened.
Granted(seat, input) ==
    IF input.type \in EditTypes THEN PlanEditSeat(seat, input)
    ELSE IF seat = NoSeat THEN NewSeat(input) ELSE PlanAddMerge(seat, input)
Withdrawn(seat, g) == ApplyRemove(seat, PlanRemove(seat, g.scope, NormSite(g.site)))

SlotOf(g) == <<g.scope, g.type, NormSite(g.site)>>
SlotsOf(seat) == {SlotOf(g) : g \in Grants(seat)}

\* What a row shows is what completing its request does, on every seat the
\* histories of requests can produce: Remove takes the row's grant and no
\* other, an add makes a grant that was not there, and an edit of an auto seat
\* keeps its visible buildings and takes over none of a duplicate's
\* (EditSeatDialog.tsx, autoOwnedBuildingsFor; AllSeatsPage.tsx, canRemove).
RowsMeanWhatTheyShow ==
    Settled => \A m \in Members, p \in Principals :
        LET seat == seats[m] IN
        /\ \A g \in RemovableRows(p, seat) : SlotsOf(Withdrawn(seat, g)) = SlotsOf(seat) \ {SlotOf(g)}
        /\ \A f \in NewForms(p, m, seat) :
              Cardinality(Grants(Granted(seat, f.input))) = Cardinality(Grants(seat)) + 1
        /\ \A f \in EditForms(p, m, seat) : f.input.type = "edit_auto" =>
              LET after == Granted(seat, f.input) IN
              /\ AutoOwned(seat) \subseteq after.buildings
              /\ after.buildings \cap DupOnly(seat) = {}
              /\ after.dups = seat.dups
=============================================================================
