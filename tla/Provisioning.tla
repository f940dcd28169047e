---------------------------- MODULE Provisioning ----------------------------
(***************************************************************************)
(* A request carried through to the doors: a desk with an open Kindoo tab  *)
(* reads the member's seat, works out what the member should hold on the   *)
(* request's site once the request is complete, looks the member up in     *)
(* Kindoo, drives Kindoo there call by call, and completes the request in  *)
(* SBA, whose seat write the extension has only predicted.  Calls fail,    *)
(* answers are lost, removes reach the seat later through their trigger,   *)
(* and requesters and managers cancel and reject meanwhile.                *)
(*                                                                         *)
(* An access rule is the building it backs, or one of the Strays that back *)
(* none, and opens its doors; rules may share doors.  Dates, names and     *)
(* notes are left out; a Kindoo description is the sequence of the scopes  *)
(* it names.                                                               *)
(***************************************************************************)
EXTENDS RequestLifecycle

CONSTANTS
    BuildingSite,   \* the Kindoo site of each building
    Unruled,        \* the buildings without a kindoo_rule
    Strays,         \* Kindoo rules that back no building
    Doors,
    DoorsOf,        \* the doors of each rule
    InitKindoo,     \* the rosters the run starts from
    MaxFaults       \* bound: calls that fail or whose answer is lost, and runs from stale cards

RealSites == {Home} \cup ForeignSites
Rules     == Buildings \cup Strays

\* An environment user: its rules by schedule, and the doors Church Access
\* Automation opens for it directly.
User == [temp : BOOLEAN, rules : SUBSET Rules, direct : SUBSET Doors, names : Seq(Scopes)]
NoUser == [absent |-> TRUE]

ASSUME ProvisioningAssumption ==
    /\ BuildingSite \in [Buildings -> RealSites]
    /\ Unruled \subseteq Buildings
    /\ Strays \cap Buildings = {}
    /\ DoorsOf \in [Rules -> SUBSET Doors]
    /\ InitKindoo \subseteq [Members -> [RealSites -> User \cup {NoUser}]]
    /\ IsFiniteSet(Rules)
    /\ MaxFaults \in Nat

\* No rule admits an add or an edit without a building (firestore.rules).
ASSUME BuildingsAssumption == \A input \in Inputs : input.type # "remove" => input.buildings # {}

\* A grant without a stamp, or one on the site of its scope: adds, fixes and
\* the backfill resolve the stamp from the scope.
Placed(g) == g.site # Unset => g.site = NormSite(SiteOf(g.scope))
ASSUME PlacesAssumption == \A s \in InitSeats, m \in Members : \A g \in Grants(s[m]) : Placed(g)

VARIABLES
    kindoo,     \* each site's environment user for a member
    desk,       \* the provisioning run of the desk
    past,       \* history: what a reader must know to judge a roster
    beside      \* history: has the shape BesideNow is about come up

pvars == <<vars, kindoo, desk, past, beside>>

Idle == [phase |-> "idle"]

-----------------------------------------------------------------------------
(* What the member should hold: the extension's copies of the planners.    *)

\* wardSiteId: stake and unknown wards are home.
RequestSite(req) == NormSite(SiteOf(req.scope))

GrantSite(grant) == IF grant.site # Unset THEN grant.site ELSE NormSite(SiteOf(grant.scope))

BuildingsAt(grants, site) == UNION {g.buildings : g \in {h \in grants : GrantSite(h) = site}}

CurrentSeatBuildings(seat, site) == BuildingsAt(Grants(seat), site)

BuildingsForRequest(req) ==
    IF req.buildings = {} /\ req.scope \in Wards THEN {WardBuilding[req.scope]} ELSE req.buildings

AddTarget(seat, req) == CurrentSeatBuildings(seat, RequestSite(req)) \cup BuildingsForRequest(req)

\* (mutation) an edit's buildings are taken for all the member's buildings.
EditTargetOfSlot(seat, req) == req.buildings

\* The edited slot's buildings are replaced, every other slot's stay; an edit
\* whose slot is gone only adds.
EditTarget(seat, req) ==
    LET site == RequestSite(req) type == EditType(req.type)
        i == IF seat = NoSeat THEN 0 ELSE SlotIndex(seat.dups, req.scope, type) IN
    IF seat # NoSeat /\ seat.scope = req.scope /\ seat.type = type
    THEN CurrentSeatBuildings([seat EXCEPT !.buildings = req.buildings], site)
    ELSE IF i > 0
    THEN CurrentSeatBuildings([seat EXCEPT !.dups[i].buildings = req.buildings], site)
    ELSE CurrentSeatBuildings(seat, site) \cup req.buildings

FirstOfScope(grants, scope) == SelectInSeq(grants, LAMBDA g : g.scope = scope)

DropFirst(grants, scope) ==
    LET i == FirstOfScope(grants, scope) IN
    IF i = 0 THEN grants ELSE RemoveAt(grants, i)

AllGrants(seat) == IF seat = NoSeat THEN <<>> ELSE <<Primary(seat)>> \o seat.dups

\* (mutation) every grant of the scope is taken for removed.
ComputePostRemovalBuildingsOfScope(seat, req) ==
    BuildingsAt({g \in Grants(seat) : g.scope # req.scope}, RequestSite(req))

\* The first grant of the scope goes, whatever its type; the rest on the site stay.
ComputePostRemovalBuildings(seat, req) ==
    BuildingsAt(ToSet(DropFirst(AllGrants(seat), req.scope)), RequestSite(req))

Target(seat, req) ==
    CASE req.type \in AddTypes  -> AddTarget(seat, req)
      [] req.type \in EditTypes -> EditTarget(seat, req)
      [] req.type = "remove"    -> ComputePostRemovalBuildings(seat, req)

\* Every building of a run must have its rule.
RidsForBuildings(buildings) == buildings \cap Unruled = {}

\* The scopes of the description: an add appends its slot, a remove drops the
\* first grant of its scope, and nothing left falls back to the request's own.
SynthesizeDescription(seat, req) ==
    LET now   == AllGrants(seat)
        slots == IF req.type \in AddTypes /\ ~(seat # NoSeat /\ HasSlot(seat, req.scope, AddType(req.type)))
                 THEN Append(now, [scope |-> req.scope])
                 ELSE IF req.type = "remove" THEN DropFirst(now, req.scope) ELSE now IN
    IF slots = <<>> THEN <<req.scope>> ELSE [i \in 1..Len(slots) |-> slots[i].scope]

-----------------------------------------------------------------------------
(* The calls a run makes.                                                  *)

Calls(kind, rules) == IF rules = {} THEN <<>> ELSE <<[kind |-> kind, rules |-> rules]>>

Revokes(rules) == SetToSeq({[kind |-> "revoke", rules |-> {rule}] : rule \in rules})

EditCall(user, temp, names) ==
    IF temp = user.temp /\ names = user.names THEN <<>>
    ELSE <<[kind |-> "edit", temp |-> temp, names |-> names]>>

\* Every door the user can open, whoever granted it.
GetUserDoorIds(user) == user.direct \cup UNION {DoorsOf[rule] : rule \in user.rules}

\* The buildings whose rules have doors, all of them among these.
DeriveEffectiveRuleIds(doors) ==
    {b \in Buildings \ Unruled : DoorsOf[b] # {} /\ DoorsOf[b] \subseteq doors}

\* What is taken for granted already - through a schedule the same run may
\* revoke, too - unless reading the doors failed.
DeriveDirectGrantRids(user, read) ==
    IF read /\ user # NoUser THEN DeriveEffectiveRuleIds(GetUserDoorIds(user)) ELSE {}

\* The buildings a user has in their own right: scheduled, or the church's.
Held(user) ==
    IF user = NoUser THEN {} ELSE (user.rules \cap Buildings) \cup DeriveEffectiveRuleIds(user.direct)

\* Those the user can open, through other schedules too.
Opens(user) ==
    IF user = NoUser THEN {} ELSE Held(user) \cup DeriveEffectiveRuleIds(GetUserDoorIds(user))

\* The rules to grant: not those scheduled, nor those whose doors are open already.
RidsToAdd(user, target, doors) == target \ (user.rules \cup doors)

\* (mutation) a user that is already there is taken to hold its rules.
AddCallsForInvited(req, user, target, names, doors) ==
    IF user = NoUser
    THEN <<[kind |-> "invite", temp |-> req.type = "add_temp", names |-> names]>> \o Calls("save", target)
    ELSE EditCall(user, req.type = "add_temp" /\ user.temp, names)

\* Invite and all rules, or what differs: a permanent user is never made
\* temporary, and what the church opens already is not granted again.
AddCalls(req, user, target, names, doors) ==
    IF user = NoUser
    THEN <<[kind |-> "invite", temp |-> req.type = "add_temp", names |-> names]>> \o Calls("save", target)
    ELSE EditCall(user, req.type = "add_temp" /\ user.temp, names)
         \o Calls("save", RidsToAdd(user, target, doors))

\* The rules first, grants before revokes, then the description.
EditCalls(req, user, target, names, doors) ==
    Calls("save", RidsToAdd(user, target, doors)) \o Revokes(user.rules \ target)
    \o EditCall(user, req.type = "edit_temp", names)

\* Revokes first, and of this site's buildings only; a member left with nothing
\* on the site is taken out of it.
RemoveCalls(req, user, target, names) ==
    LET here == {b \in Buildings \ Unruled : BuildingSite[b] = RequestSite(req)} IN
    IF user = NoUser THEN <<>>
    ELSE Revokes((user.rules \ target) \cap here) \o Calls("save", target \ user.rules)
         \o (IF target = {} THEN <<[kind |-> "wipe"]>> ELSE EditCall(user, user.temp, names))

(* What each call does to the user at Kindoo.  Saving merges into the     *)
(* schedules; only revoking narrows them.                                  *)

InviteUser(call) == [temp |-> call.temp, rules |-> {}, direct |-> {}, names |-> call.names]

SaveAccessRule(user, call) == [user EXCEPT !.rules = @ \cup call.rules]

RevokeUserFromAccessSchedule(user, call) == [user EXCEPT !.rules = @ \ call.rules]

EditUser(user, call) == [user EXCEPT !.temp = call.temp, !.names = call.names]

RevokeUser(user) == NoUser

Effect(user, call) ==
    CASE call.kind = "invite" -> InviteUser(call)
      [] call.kind = "save"   -> SaveAccessRule(user, call)
      [] call.kind = "revoke" -> RevokeUserFromAccessSchedule(user, call)
      [] call.kind = "edit"   -> EditUser(user, call)
      [] call.kind = "wipe"   -> RevokeUser(user)

-----------------------------------------------------------------------------
(* The desk.                                                               *)

\* A remove of the scope of an automatic primary: the trigger takes the manual
\* grant beside it, the extension the primary.
Beside(seat, req) ==
    /\ req.type = "remove"
    /\ seat # NoSeat
    /\ seat.scope = req.scope
    /\ PlanRemove(seat, req.scope, req.site).kind = "drop_duplicate"

\* A completed remove whose trigger has not run yet.
Awaited(r) == HasStatus(r, "complete") /\ Body(r).type = "remove" /\ deliveries[r] = 0
Undelivered(m) == \E r \in ReqIds : Awaited(r) /\ Body(r).member = m

\* Is it that shape that the desk's remove, or one whose trigger is to come, meets?
BesideNow ==
    \E r \in ReqIds :
        /\ Awaited(r) \/ (desk # Idle /\ desk.req = r)
        /\ Beside(seats[Body(r).member], Body(r))

Fault == past.faults < MaxFaults

\* "Provision & Complete", or the loop's run of a job: the request as it was
\* listed, the seat as it is now.  Only the loop reads the status again: a card
\* may be of a request settled since.  A building without a rule ends the run.
StartRun(r) ==
    /\ desk = Idle
    /\ Exists(r)
    /\ HasStatus(r, "pending") \/ Fault
    /\ LET req == Body(r) seat == seats[req.member] target == Target(seat, req) IN
       /\ RidsForBuildings(target)
       /\ desk' = [phase |-> "lookup", req |-> r, target |-> target,
                   names |-> SynthesizeDescription(seat, req)]
       /\ past' = [past EXCEPT !.lagged = @ \/ Undelivered(req.member),
                              !.faults = IF HasStatus(r, "pending") THEN @ ELSE @ + 1]
    /\ UNCHANGED <<vars, kindoo>>

\* History: buildings of the target that are not granted, for another schedule's
\* doors open them.
Lends(req, user, target, doors) ==
    {<<req.member, RequestSite(req), b>> : b \in (target \cap doors) \ Held(user)}

\* The lookup decides every call of the run.  An edit of a member Kindoo does
\* not know ends it.
LookupUser ==
    /\ desk.phase = "lookup"
    /\ LET req == Body(desk.req)
           user == kindoo[req.member][RequestSite(req)] IN
       \E known \in BOOLEAN :
           /\ ~known => past.faults < MaxFaults /\ user # NoUser /\ req.type # "remove"
           /\ LET doors == DeriveDirectGrantRids(user, known /\ req.type # "remove") IN
              /\ past' = [past EXCEPT !.faults = IF known THEN @ ELSE @ + 1,
                                     !.lent = @ \cup Lends(req, user, desk.target, doors)]
              /\ desk' = IF req.type \in EditTypes /\ user = NoUser THEN Idle
                         ELSE [phase |-> "writing", req |-> desk.req, todo |->
                               CASE req.type \in AddTypes ->
                                      AddCalls(req, user, desk.target, desk.names, doors)
                                 [] req.type \in EditTypes ->
                                      EditCalls(req, user, desk.target, desk.names, doors)
                                 [] req.type = "remove" -> RemoveCalls(req, user, desk.target, desk.names)]
    /\ UNCHANGED <<vars, kindoo>>

\* One call lands; the run goes on if its answer arrives.
KindooCall(answered) ==
    /\ desk.phase = "writing"
    /\ desk.todo # <<>>
    /\ answered \/ Fault
    /\ LET req == Body(desk.req) IN
       kindoo' = [kindoo EXCEPT ![req.member][RequestSite(req)] = Effect(@, Head(desk.todo))]
    /\ desk' = IF answered THEN [desk EXCEPT !.todo = Tail(@)] ELSE Idle
    /\ past' = [past EXCEPT !.tried = @ \cup {desk.req},
                           !.again = @ \/ HasStatus(desk.req, "complete"),
                           !.faults = IF answered THEN @ ELSE @ + 1]
    /\ UNCHANGED vars

\* A read or a call fails before it does anything, or the tab is closed: the run ends.
RunStops ==
    /\ desk.phase \in {"lookup", "writing"}
    /\ Fault
    /\ desk' = Idle
    /\ past' = [past EXCEPT !.faults = @ + 1]
    /\ UNCHANGED <<vars, kindoo>>

\* The callable would take the request.
Completable(r) ==
    /\ HasStatus(r, "pending")
    /\ Body(r).type \in EditTypes =>
           /\ seats[Body(r).member] # NoSeat
           /\ HasSlot(seats[Body(r).member], Body(r).scope, EditType(Body(r).type))

CompleteRequest(r) ==
    CompleteAdd(r, {"manager"}) \/ CompleteEdit(r, {"manager"}) \/ CompleteRemove(r, {"manager"})

\* markRequestComplete with the run's note.  Its answer may be lost; the card then
\* offers to repeat this call alone, as after a failure.
MarkComplete(answered) ==
    /\ desk.phase = "writing"
    /\ desk.todo = <<>>
    /\ answered \/ Fault
    /\ CompleteRequest(desk.req)
    /\ desk' = IF answered THEN Idle ELSE desk
    /\ past' = IF answered THEN past ELSE [past EXCEPT !.faults = @ + 1]
    /\ UNCHANGED kindoo

\* The callable refuses (the request was settled, or the slot it edits is
\* gone), or fails and the operator leaves the card: the run ends as it is.
MarkRefused ==
    /\ desk.phase = "writing"
    /\ desk.todo = <<>>
    /\ ~Completable(desk.req) \/ Fault
    /\ desk' = Idle
    /\ past' = IF Completable(desk.req) THEN [past EXCEPT !.faults = @ + 1] ELSE past
    /\ UNCHANGED <<vars, kindoo>>

Desk ==
    \/ \E r \in ReqIds : StartRun(r)
    \/ LookupUser
    \/ \E answered \in BOOLEAN : KindooCall(answered) \/ MarkComplete(answered)
    \/ RunStops
    \/ MarkRefused

Clients ==
    /\ \E r \in ReqIds :
           \/ \E input \in Inputs : Submit(r, input)
           \/ Cancel(r)
           \/ Reject(r)
           \/ SeatTrigger(r)
    /\ UNCHANGED <<kindoo, desk, past>>

\* Kindoo's user of a site opens what the seat grants there, and holds no rule
\* of another building.
InStep(seat, site, user) ==
    /\ CurrentSeatBuildings(seat, site) \subseteq Opens(user)
    /\ user # NoUser => user.rules \cap Buildings \subseteq CurrentSeatBuildings(seat, site)

\* Nothing has happened, and some of what opens is open through another schedule.
InitPast ==
    [tried |-> {}, lagged |-> FALSE, again |-> FALSE, faults |-> 0,
     lent |-> {t \in Members \X RealSites \X Buildings :
                 t[3] \in CurrentSeatBuildings(seats[t[1]], t[2]) \ Held(kindoo[t[1]][t[2]])}]

PInit ==
    /\ Init
    /\ kindoo \in InitKindoo
    /\ \A m \in Members, s \in RealSites : InStep(seats[m], s, kindoo[m][s])
    /\ desk = Idle
    /\ past = InitPast
    /\ beside = FALSE

PNext ==
    /\ Desk \/ Clients
    /\ beside' = (beside \/ BesideNow')

PSpec == PInit /\ [][PNext]_pvars

-----------------------------------------------------------------------------
(* Properties.                                                             *)

PTypeOK ==
    /\ TypeOK
    /\ kindoo \in [Members -> [RealSites -> User \cup {NoUser}]]
    /\ desk.phase \in {"idle", "lookup", "writing"}
    /\ past.tried \subseteq ReqIds /\ past.faults \in 0..MaxFaults
    /\ past.lent \subseteq Members \X RealSites \X Buildings

\* The seat once r is complete and its trigger has run.
SeatAfter(r) ==
    LET req == Body(r) seat == seats[req.member] IN
    CASE req.type \in AddTypes  -> IF seat = NoSeat THEN NewSeat(req) ELSE PlanAddMerge(seat, req)
      [] req.type \in EditTypes -> IF Completable(r) THEN PlanEditSeat(seat, req) ELSE seat
      [] req.type = "remove"    -> IF seat = NoSeat THEN NoSeat
                                   ELSE ApplyRemove(seat, PlanRemove(seat, req.scope, req.site))

Predicted(r) ==
    LET req == Body(r) IN
    Target(seats[req.member], req) = CurrentSeatBuildings(SeatAfter(r), RequestSite(req))

\* The extension's prediction of the seat's buildings on the request's site is
\* what the callable and the trigger make of them, in every state a request can
\* meet - but for the removes Beside is about, which the trigger plans another
\* way (provision.ts, "mirroring the backend's planEditSeat").
PredictionsHold ==
    \A r \in ReqIds : Completable(r) /\ ~Beside(seats[Body(r).member], Body(r)) => Predicted(r)

\* Nothing under way: no run, no trigger to come, every request Kindoo was
\* touched for is complete, and it was touched for none that was already.
Settled(m) ==
    /\ desk = Idle
    /\ ~past.again
    /\ ~Undelivered(m)
    /\ \A r \in past.tried : HasStatus(r, "complete")

\* Every building of the seat opens - but one that a run left to another schedule.
EntitledOpens ==
    ~beside => \A m \in Members, s \in RealSites : Settled(m) =>
        \A b \in CurrentSeatBuildings(seats[m], s) \ Opens(kindoo[m][s]) : <<m, s, b>> \in past.lent

\* No rule of a building is left that no grant of the seat names - unless a run
\* read the seat before the trigger of an earlier remove had changed it.
NothingLeftOver ==
    ~beside /\ ~past.lagged => \A m \in Members, s \in RealSites :
        Settled(m) /\ kindoo[m][s] # NoUser =>
            kindoo[m][s].rules \cap Buildings \subseteq CurrentSeatBuildings(seats[m], s)

\* Whatever order requests are provisioned and triggers delivered in, and
\* wherever runs broke off and were repeated, the member can open the buildings
\* of the grants of the seat, each on its site, and holds no rule of another
\* (and the variables keep their types).  Excepted is what provision.ts does not
\* grant since another schedule's doors open it: a later revoke may shut it.
DoorsMatchSeat == PTypeOK /\ EntitledOpens /\ NothingLeftOver

\* Has the run a grant of the building still to make, after this call?
StillGrants(b) == \E i \in 2..Len(desk.todo) : desk.todo[i].kind = "save" /\ b \in desk.todo[i].rules

\* At no call of a run does the member lose a building that a grant of the seat
\* still names once the run's request is complete - but for one left to a
\* schedule of other doors, as above, and for one that the run grants next, as a
\* remove does, which revokes first.
OnlyRevokesWhatGoes ==
    [][\A m \in Members, s \in RealSites :
          \A b \in Opens(kindoo[m][s]) \ Opens(kindoo'[m][s]) :
              \/ beside \/ ~Completable(desk.req)
              \/ b \notin CurrentSeatBuildings(SeatAfter(desk.req), s)
              \/ <<m, s, b>> \in past.lent
              \/ StillGrants(b)]_pvars

=============================================================================
