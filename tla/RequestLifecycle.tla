-------------------------- MODULE RequestLifecycle --------------------------
(***************************************************************************)
(* Access requests of one stake from submission to their effect on seats.  *)
(* A request is created pending; its requester may cancel it and a manager *)
(* reject or complete it.  Completing an add or an edit writes the seat in *)
(* the same transaction; completing a remove only flips the request, and   *)
(* the seat is changed later by a Firestore trigger on that write, which   *)
(* is delivered at least once, in no order with other requests' steps.     *)
(***************************************************************************)
EXTENDS SeatGrants

CONSTANTS
    Members,        \* canonical emails
    ReqIds,         \* request document ids
    Inputs,         \* the request bodies clients may submit
    InitSeats,      \* the seat collections the run starts from
    InitAccess,     \* the access collection the run starts from
    MaxDeliveries   \* bound: deliveries of one completion event

ASSUME LifecycleAssumption ==
    /\ IsFiniteSet(Members)
    /\ MaxDeliveries \in Nat \ {0}
    /\ InitSeats \subseteq [Members -> Seat \cup {NoSeat}]

VARIABLES
    requests,   \* stakes/{sid}/requests/{rid}
    seats,      \* stakes/{sid}/seats/{member}
    access,     \* stakes/{sid}/access/{member}: scopes with callings or manual grants
    overCaps,   \* stakes/{sid}.last_over_caps_json
    deliveries  \* how often the event of a request's completion was delivered

vars == <<requests, seats, access, overCaps, deliveries>>

AddTypes  == {"add_manual", "add_temp"}
EditTypes == {"edit_auto", "edit_manual", "edit_temp"}
Types     == AddTypes \cup EditTypes \cup {"remove"}
Statuses  == {"pending", "complete", "rejected", "cancelled"}

\* What a client submits; `site` is read on removes only.
Input == [type : Types, member : Members, scope : Scopes, site : Sites,
          buildings : SUBSET Buildings, org : Orgs \cup {NoOrg}, reason : SUBSET Callings]

\* Who wrote to the completion note: the manager, the R-1 tag of the callable,
\* the trigger's "removal skipped" message.
NoteTags == {"manager", "r1", "shifted"}
Outcomes == {"none", "noop_already_removed", "noop_grant_shifted"}

Request == [body : Input, status : Statuses, outcome : Outcomes, note : SUBSET NoteTags]
NoRequest == [absent |-> TRUE]

NoAccess == [importer |-> {}, manual |-> {}]

ASSUME InputsAssumption ==
    /\ Inputs \subseteq Input
    /\ InitAccess \in [Members -> [importer : SUBSET Scopes, manual : SUBSET Scopes]]

Exists(r)    == requests[r] # NoRequest
Body(r)      == requests[r].body
HasStatus(r, status) == Exists(r) /\ requests[r].status = status

TypeOK ==
    /\ requests \in [ReqIds -> Request \cup {NoRequest}]
    /\ seats \in [Members -> Seat \cup {NoSeat}]
    /\ access \in [Members -> [importer : SUBSET Scopes, manual : SUBSET Scopes]]
    /\ \A c \in overCaps : c.pool \in {Stake} \cup Wards /\ c.count \in Nat /\ c.cap \in Nat
    /\ deliveries \in [ReqIds -> 0..MaxDeliveries]

Init ==
    /\ requests = [r \in ReqIds |-> NoRequest]
    /\ seats \in InitSeats
    /\ access = InitAccess
    /\ overCaps = ComputeOverCaps(seats)
    /\ deliveries = [r \in ReqIds |-> 0]

-----------------------------------------------------------------------------
(* Clients: submit, cancel, reject.                                        *)

\* The seat row a remove or an edit was clicked on; auto rows offer no remove.
OfferedBy(seat, input) ==
    CASE input.type = "remove" ->
           \E g \in Grants(seat) : g.type # "auto" /\ Addressed(g, input.scope, input.site)
      [] input.type \in EditTypes ->
           \E g \in Grants(seat) : g.type = EditType(input.type) /\ g.scope = input.scope
      [] OTHER -> TRUE

\* The create rule: edit_auto never at stake scope.
CreateAllowed(input) == input.type = "edit_auto" => input.scope # Stake

Submit(r, input) ==
    /\ ~Exists(r)
    /\ CreateAllowed(input)
    /\ OfferedBy(seats[input.member], input)
    /\ requests' = [requests EXCEPT ![r] =
           [body |-> input, status |-> "pending", outcome |-> "none", note |-> {}]]
    /\ UNCHANGED <<seats, access, overCaps, deliveries>>

Cancel(r) ==
    /\ HasStatus(r, "pending")
    /\ requests' = [requests EXCEPT ![r].status = "cancelled"]
    /\ UNCHANGED <<seats, access, overCaps, deliveries>>

Reject(r) ==
    /\ HasStatus(r, "pending")
    /\ requests' = [requests EXCEPT ![r].status = "rejected"]
    /\ UNCHANGED <<seats, access, overCaps, deliveries>>

\* The roster's inline edit of the organisation of a stake-scope seat.
SetOrganization(m, org) ==
    /\ seats[m] # NoSeat
    /\ seats[m].scope = Stake
    /\ seats' = [seats EXCEPT ![m].org = org]
    /\ UNCHANGED <<requests, access, overCaps, deliveries>>

-----------------------------------------------------------------------------
(* A manager completes a request (markRequestComplete, one transaction).   *)

Completed(r, outcome, note) ==
    [requests EXCEPT ![r].status = "complete", ![r].outcome = outcome, ![r].note = note]

\* (mutation) the stake document is written only when a seat was created.
CompleteAddNoRecompute(r, note) ==
    /\ HasStatus(r, "pending")
    /\ Body(r).type \in AddTypes
    /\ LET m == Body(r).member IN
       seats' = [seats EXCEPT ![m] = IF @ = NoSeat THEN NewSeat(Body(r)) ELSE PlanAddMerge(@, Body(r))]
    /\ UNCHANGED overCaps
    /\ requests' = Completed(r, "none", note)
    /\ UNCHANGED <<access, deliveries>>

\* An add creates the member's seat or merges into it and writes the over-cap
\* snapshot, whether or not anything is over.
CompleteAdd(r, note) ==
    /\ HasStatus(r, "pending")
    /\ Body(r).type \in AddTypes
    /\ LET m == Body(r).member IN
       seats' = [seats EXCEPT ![m] = IF @ = NoSeat THEN NewSeat(Body(r)) ELSE PlanAddMerge(@, Body(r))]
    /\ overCaps' = ComputeOverCaps(seats')
    /\ requests' = Completed(r, "none", note)
    /\ UNCHANGED <<access, deliveries>>

\* An edit needs the seat and the slot it names; otherwise the call fails and
\* the request stays pending.
CompleteEdit(r, note) ==
    /\ HasStatus(r, "pending")
    /\ Body(r).type \in EditTypes
    /\ ~(Body(r).type = "edit_auto" /\ Body(r).scope = Stake)
    /\ LET m == Body(r).member IN
       /\ seats[m] # NoSeat
       /\ HasSlot(seats[m], Body(r).scope, EditType(Body(r).type))
       /\ seats' = [seats EXCEPT ![m] = PlanEditSeat(@, Body(r))]
    /\ requests' = Completed(r, "none", note)
    /\ UNCHANGED <<access, overCaps, deliveries>>

\* A remove only looks whether the seat is there (the R-1 race).
CompleteRemove(r, note) ==
    /\ HasStatus(r, "pending")
    /\ Body(r).type = "remove"
    /\ requests' = IF seats[Body(r).member] = NoSeat
                   THEN Completed(r, "noop_already_removed", note \cup {"r1"})
                   ELSE Completed(r, "none", note)
    /\ UNCHANGED <<seats, access, overCaps, deliveries>>

-----------------------------------------------------------------------------
(* The trigger on a completed remove (removeSeatOnRequestComplete).        *)

\* (mutation) the calling-derived access is reaped whatever grants remain.
ReapedAlways(m, scope, seat) == [access EXCEPT ![m].importer = @ \ {scope}]

\* The scope's calling-derived access goes with the last grant that held it.
Reaped(m, scope, seat) ==
    IF \E g \in Grants(seat) : g.scope = scope THEN access
    ELSE [access EXCEPT ![m].importer = @ \ {scope}]

\* (mutation) the trigger's message replaces a note that is already there.
ShiftedOverNote(r) ==
    requests' = [requests EXCEPT ![r].outcome = "noop_grant_shifted", ![r].note = {"shifted"}]

\* The grant a request names is no longer on the seat: say so, and keep a note.
Shifted(r) ==
    requests' = [requests EXCEPT ![r].outcome = "noop_grant_shifted",
                                 ![r].note = IF @ = {} THEN {"shifted"} ELSE @]

\* One delivery of the event of r's completion.
SeatTrigger(r) ==
    /\ HasStatus(r, "complete")
    /\ Body(r).type = "remove"
    /\ deliveries[r] < MaxDeliveries
    /\ deliveries' = [deliveries EXCEPT ![r] = @ + 1]
    /\ LET m    == Body(r).member
           plan == PlanRemove(seats[m], Body(r).scope, Body(r).site)
           next == ApplyRemove(seats[m], plan) IN
       IF seats[m] = NoSeat THEN UNCHANGED <<requests, seats, access, overCaps>>
       ELSE IF plan.kind = "no_match"
       THEN Shifted(r) /\ UNCHANGED <<seats, access, overCaps>>
       ELSE /\ seats' = [seats EXCEPT ![m] = next]
            /\ access' = IF plan.kind = "drop_duplicate" THEN Reaped(m, Body(r).scope, next) ELSE access
            /\ overCaps' = ComputeOverCaps([seats EXCEPT ![m] = ProjectedSeat(@, plan)])
            /\ UNCHANGED requests

-----------------------------------------------------------------------------
Notes == {{}, {"manager"}}

RequestNext(r) ==
    \/ \E input \in Inputs : Submit(r, input)
    \/ Cancel(r)
    \/ Reject(r)
    \/ \E note \in Notes : CompleteAdd(r, note) \/ CompleteEdit(r, note) \/ CompleteRemove(r, note)
    \/ SeatTrigger(r)

Next ==
    \/ \E r \in ReqIds : RequestNext(r)
    \/ \E m \in Members, org \in Orgs \cup {NoOrg} : SetOrganization(m, org)

Spec == Init /\ [][Next]_vars

-----------------------------------------------------------------------------
(* Properties.                                                             *)

Slot(g) == <<g.scope, g.type>>

SlotsDistinct(seat) ==
    LET all == <<Primary(seat)>> \o seat.dups IN
    \A i, j \in 1..Len(all) : i # j => Slot(all[i]) # Slot(all[j])

\* No seat holds two grants of the same (scope, type).  An edit names its slot
\* by that pair and an add merges into the first match, so a second grant of a
\* pair could be neither edited nor merged into (markRequestComplete.ts).
UniqueSlots == \A m \in Members : seats[m] # NoSeat => SlotsDistinct(seats[m])

\* duplicate_scopes lists the scopes of duplicate_grants[], in every state that
\* a bishopric's read rule can see (firestore.rules, seats read).
MirrorsAgree == \A m \in Members : seats[m] # NoSeat => seats[m].dupScopes = ScopesOf(seats[m].dups)

\* Does every grant on a ward of a foreign site carry that site?
Stamped(seat) ==
    \A g \in Grants(seat) :
        g.scope \in Wards /\ WardSite[g.scope] # Home => g.site = WardSite[g.scope]

\* Every grant on a ward whose building is on a foreign site carries that site,
\* also after promotions: an absent site would read as home (wardSites.ts).
ForeignGrantsStamped == \A m \in Members : Stamped(seats[m])

\* The seats a run starts from are sound: fixes and imports write one grant per
\* slot with its mirror, and the site backfill stamped the older documents.
ASSUME InitSeatsAssumption ==
    \A s \in InitSeats, m \in Members : s[m] # NoSeat =>
        SlotsDistinct(s[m]) /\ s[m].dupScopes = ScopesOf(s[m].dups) /\ Stamped(s[m])

\* What every reader of a seat relies on.
SeatsSound == TypeOK /\ UniqueSlots /\ MirrorsAgree /\ ForeignGrantsStamped

\* The stored over-cap snapshot is the one of the seats that are stored
\* (removeSeatOnRequestComplete.ts, step 5).
OverCapsReflectSeats == overCaps = ComputeOverCaps(seats)

Completes(r, types) ==
    HasStatus(r, "pending") /\ requests'[r].status = "complete" /\ Body(r).type \in types

\* Completing an add leaves the member a grant of the requested slot with every
\* requested building, and takes nothing from the grants that were there.
AddOnlyAdds(b) ==
    /\ \E g \in Grants(seats'[b.member]) :
          Slot(g) = <<b.scope, AddType(b.type)>> /\ b.buildings \subseteq g.buildings
    /\ \A g \in Grants(seats[b.member]) : \E h \in Grants(seats'[b.member]) :
          /\ Slot(h) = Slot(g) /\ h.site = g.site
          /\ g.buildings \subseteq h.buildings
          /\ g.org # NoOrg => h.org # NoOrg

\* Completing an edit changes the one slot it names and neither adds, drops nor
\* moves a grant.
EditChangesOneSlot(b) ==
    LET kept == {g \in Grants(seats[b.member]) : Slot(g) # <<b.scope, EditType(b.type)>>} IN
    /\ kept \subseteq Grants(seats'[b.member])
    /\ {<<Slot(g), g.site>> : g \in Grants(seats'[b.member])}
       = {<<Slot(g), g.site>> : g \in Grants(seats[b.member])}

\* A completion touches the slot of its request and no other grant
\* (markRequestComplete.ts, planAddMerge and planEditSeat).
CompletionsTouchTheirSlot ==
    [][\A r \in ReqIds :
          /\ Completes(r, AddTypes)  => AddOnlyAdds(Body(r))
          /\ Completes(r, EditTypes) => EditChangesOneSlot(Body(r))]_vars

Lost(m) == {g \in Grants(seats[m]) : \A h \in Grants(seats'[m]) : Slot(h) # Slot(g)}

\* Whatever the order of completions and deliveries, a grant disappears only in
\* a trigger run of a completed remove that names its scope and site, and one
\* run takes at most one grant.
OnlyAddressedGrantsGo ==
    [][\A m \in Members : Lost(m) # {} =>
          /\ Cardinality(Lost(m)) = 1
          /\ \E r \in ReqIds :
                /\ deliveries'[r] > deliveries[r]
                /\ Body(r).member = m
                /\ \A g \in Lost(m) : Addressed(g, Body(r).scope, Body(r).site)]_vars

\* Calling-derived access to a scope is reaped only when no grant of the
\* member's seat holds the scope any more.
AccessReapedWithLastGrant ==
    [][\A m \in Members : \A scope \in access[m].importer \ access'[m].importer :
          \A g \in Grants(seats'[m]) : g.scope # scope]_vars

\* Two managers, or a manager and the requester, never both win: only a pending
\* request changes its status, and what it was for stays.  And once it is
\* complete, what its completion note says is never taken back: the trigger
\* must not clobber a manager's prose (removeSeatOnRequestComplete.ts).
SettledStays ==
    [][\A r \in ReqIds : Exists(r) =>
          /\ requests'[r].body = requests[r].body
          /\ requests[r].status # "pending" => requests'[r].status = requests[r].status
          /\ HasStatus(r, "complete") => requests[r].note \subseteq requests'[r].note]_vars
=============================================================================
