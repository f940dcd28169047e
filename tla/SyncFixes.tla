------------------------------ MODULE SyncFixes ------------------------------
(***************************************************************************)
(* Sync of one member: a panel per Kindoo site scans, shows the member's   *)
(* row and applies its fix through syncApplyFix, while Kindoo changes and  *)
(* requests add and remove grants.  Every fix is one transaction, but for  *)
(* `sba-only`, which chooses its branch from a read outside the            *)
(* transaction and deletes an emptied seat after it.                       *)
(***************************************************************************)
EXTENDS SyncDetector

CONSTANTS
    KindooUsers,        \* what a site may come to say of the member
    InitUsers,          \* what it says when the run starts
    InitSeats,          \* the seats the run starts from
    Requests,           \* the adds and removes other actors complete
    MaxKindooChanges,   \* bound: changes of the member in Kindoo
    MaxRequests         \* bound: requests completed

Request == [type : {"add_manual", "add_temp", "remove"}, scope : Scopes, site : Sites,
            buildings : SUBSET Buildings, org : Orgs \cup {NoOrg}, reason : SUBSET Callings]

ASSUME FixesAssumption ==
    /\ KindooUsers \in [KindooSites -> SUBSET (KindooUser \cup {NoUser})]
    /\ \A s \in KindooSites : InitUsers[s] \subseteq KindooUsers[s]
    /\ InitSeats \subseteq Seat \cup {NoSeat}
    /\ \A st \in InitSeats : st # NoSeat => st.dupScopes = ScopesOf(st.dups)
    /\ Requests \subseteq Request
    /\ MaxKindooChanges \in Nat /\ MaxRequests \in Nat

VARIABLES
    seat,       \* stakes/{sid}/seats/{member}
    access,     \* importer_callings of stakes/{sid}/access/{member}, per scope
    kindoo,     \* the member's Kindoo user, per site
    rows,       \* the row each site's panel shows
    removal,    \* the sba-only fix each panel has in flight
    changes,    \* changes in Kindoo so far
    served      \* requests completed so far

vars == <<seat, access, kindoo, rows, removal, changes, served>>

Idle == [stage |-> "idle"]

Init ==
    /\ seat \in InitSeats
    /\ access = [s \in Scopes |-> UNION {EarnsAccess(s, g.callings) :
                    g \in {h \in Grants(seat) : h.scope = s /\ h.type = "auto"}}]
    /\ kindoo \in {k \in [KindooSites -> UNION {InitUsers[s] : s \in KindooSites}] :
                      \A s \in KindooSites : k[s] \in InitUsers[s]}
    /\ rows = [s \in KindooSites |-> NoRow]
    /\ removal = [s \in KindooSites |-> Idle]
    /\ changes = 0
    /\ served = 0

-----------------------------------------------------------------------------
(* The slots of a seat.                                                    *)

Matches(grant, scope, site) == grant.scope = scope /\ grant.site \in {Unset, site}

Missing == -1

\* (mutation) the site of the row is not compared.
ResolveGrantSlotByScope(st, scope, site) ==
    LET i == SelectInSeq(st.dups, LAMBDA d : d.scope = scope) IN
    IF st.scope = scope THEN 0 ELSE IF i > 0 THEN i ELSE Missing

\* The grant a row names: the first of its scope whose stamp agrees or is absent.
ResolveGrantSlot(st, scope, site) ==
    LET i == SelectInSeq(st.dups, LAMBDA d : Matches(d, scope, site)) IN
    IF Matches(st, scope, site) THEN 0 ELSE IF i > 0 THEN i ELSE Missing

SeatOf(grant, dups) ==
    [scope |-> grant.scope, type |-> grant.type, site |-> grant.site,
     buildings |-> grant.buildings, org |-> grant.org, callings |-> grant.callings,
     dups |-> dups, dupScopes |-> ScopesOf(dups)]

\* (mutation) a patch always goes to the primary.
PatchPrimary(st, i, grant) == SeatOf(grant, st.dups)

PatchGrant(st, i, grant) ==
    IF i = 0 THEN SeatOf(grant, st.dups) ELSE WithDups(st, ReplaceAt(st.dups, i, grant))

\* Deleting a stamp: absent on the primary, null on a duplicate.
NoStamp(i) == IF i = 0 THEN Unset ELSE Home

HeldElsewhere(st, i, scope) == \E j \in (0..Len(st.dups)) \ {i} : GrantAt(st, j).scope = scope

WriteAccess(acc, scope, callings) == [acc EXCEPT ![scope] = callings]
ClearAccess(acc, scope) == WriteAccess(acc, scope, {})

Done(st, acc) == [ok |-> TRUE, seat |-> st, access |-> acc]
Refused       == [ok |-> FALSE]

-----------------------------------------------------------------------------
(* The fixes.                                                              *)

\* A grant that already reads as being on the site cannot have made the row.
SlotAlreadyOnSite(stamp, site) == site # Unset /\ stamp \in {Unset, site}

NewGrant(row, site) ==
    [scope |-> row.newScope, type |-> row.type, site |-> site, buildings |-> row.buildings,
     org |-> NoOrg, callings |-> row.callings]

SlotAt(st, scope, type) ==
    LET i == SlotIndex(st.dups, scope, type) IN
    IF st.scope = scope /\ st.type = type THEN 0 ELSE IF i > 0 THEN i ELSE Missing

\* A second site's grant joins the seat: the slot of its (scope, type) takes the
\* buildings and the site, or a duplicate is appended.  Access is not written.
MergeKindooOnly(st, acc, row, site) ==
    LET i == SlotAt(st, row.newScope, row.type)
        grant == GrantAt(st, i) IN
    IF i = Missing
    THEN Done(WithDups(st, Append(st.dups, NewGrant(row, site))), acc)
    ELSE IF SlotAlreadyOnSite(grant.site, site) THEN Refused
    ELSE Done(PatchGrant(st, i, [grant EXCEPT
                 !.buildings = @ \cup row.buildings,
                 !.site = IF site = Unset THEN @ ELSE IF site = Home THEN NoStamp(i) ELSE site]), acc)

\* The seat of a member who has none; an auto one earns access.
CreateSeat(acc, row, site) ==
    LET earned == EarnsAccess(row.newScope, row.callings) IN
    Done(SeatOf(NewGrant(row, IF site = Home THEN Unset ELSE site), <<>>),
         IF row.type = "auto" /\ earned # {} THEN WriteAccess(acc, row.newScope, earned) ELSE acc)

ApplyKindooOnly(st, acc, row) ==
    LET site == SiteOf(row.newScope) IN
    IF st = NoSeat THEN CreateSeat(acc, row, site)
    ELSE IF site \notin {Unset, row.site} THEN Refused
    ELSE MergeKindooOnly(st, acc, row, site)

ApplyCallingsMismatch(st, acc, i, row) ==
    LET grant == GrantAt(st, i) IN
    IF grant.type # "auto" THEN Refused
    ELSE Done(PatchGrant(st, i, [grant EXCEPT !.callings = row.callings]),
              WriteAccess(acc, grant.scope, EarnsAccess(grant.scope, row.callings)))

\* (mutation) the access of the scope the grant leaves is not given up.
MovedAccessKeepsOld(st, acc, i, row) ==
    LET earned == EarnsAccess(row.newScope, row.callings) IN
    IF earned # {} THEN WriteAccess(acc, row.newScope, earned) ELSE acc

\* Access follows an auto grant to its new scope: what no other grant holds of
\* the old one is given up, and Kindoo's callings earn the new one.
MovedAccess(st, acc, i, row) ==
    LET old    == GrantAt(st, i).scope
        kept   == IF HeldElsewhere(st, i, old) THEN acc ELSE ClearAccess(acc, old)
        earned == EarnsAccess(row.newScope, row.callings) IN
    IF earned # {} THEN WriteAccess(kept, row.newScope, earned) ELSE kept

ApplyScopeMismatch(st, acc, i, row) ==
    LET grant == GrantAt(st, i)
        site  == SiteOf(row.newScope) IN
    Done(PatchGrant(st, i, [grant EXCEPT
             !.scope = row.newScope,
             !.site  = IF row.newScope = Stake THEN NoStamp(i) ELSE IF site = Unset THEN @ ELSE site,
             !.org   = IF row.newScope = Stake THEN @ ELSE NoOrg]),
         IF grant.scope # row.newScope /\ row.callings # {} /\ grant.type = "auto"
         THEN MovedAccess(st, acc, i, row) ELSE acc)

\* Promoting to auto takes Kindoo's callings, else the reason that is there;
\* demoting gives up the scope's access when no other grant holds the scope.
ApplyTypeMismatch(st, acc, i, row) ==
    LET grant    == GrantAt(st, i)
        promoted == row.type = "auto" /\ grant.type # "auto"
        demoted  == row.type # "auto" /\ grant.type = "auto"
        callings == IF promoted /\ row.callings # {} THEN row.callings ELSE grant.callings
        earned   == EarnsAccess(grant.scope, callings) IN
    Done(PatchGrant(st, i, [grant EXCEPT !.type = row.type, !.callings = callings]),
         IF promoted /\ earned # {} THEN WriteAccess(acc, grant.scope, earned)
         ELSE IF demoted /\ ~HeldElsewhere(st, i, grant.scope) THEN ClearAccess(acc, grant.scope)
         ELSE acc)

\* A Description that names no unit makes the grant a stake one.  Moving the
\* primary replaces the stake's access; moving a duplicate adds to it.
ApplyKindooUnparseable(st, acc, i, row) ==
    LET grant  == GrantAt(st, i)
        earned == EarnsAccess(Stake, row.callings)
        merged == IF i = 0 THEN earned ELSE acc[Stake] \cup earned IN
    Done(PatchGrant(st, i, [grant EXCEPT !.scope = Stake, !.site = NoStamp(i), !.callings = row.callings]),
         IF grant.type = "auto" THEN WriteAccess(ClearAccess(acc, grant.scope), Stake, merged) ELSE acc)

ApplyBuildingsMismatch(st, acc, i, row) ==
    IF row.buildings = {} THEN Refused
    ELSE Done(PatchGrant(st, i, [GrantAt(st, i) EXCEPT !.buildings = row.buildings]), acc)

\* The transaction of every fix but sba-only, on the seat it reads.
ApplyFix(st, acc, row) ==
    LET i == IF st = NoSeat THEN Missing ELSE ResolveGrantSlot(st, row.scope, row.site) IN
    IF row.code = "kindoo-only" THEN ApplyKindooOnly(st, acc, row)
    ELSE IF i = Missing THEN Refused
    ELSE CASE row.code = "callings-mismatch"  -> ApplyCallingsMismatch(st, acc, i, row)
           [] row.code = "scope-mismatch"     -> ApplyScopeMismatch(st, acc, i, row)
           [] row.code = "type-mismatch"      -> ApplyTypeMismatch(st, acc, i, row)
           [] row.code = "kindoo-unparseable" -> ApplyKindooUnparseable(st, acc, i, row)
           [] row.code = "buildings-mismatch" -> ApplyBuildingsMismatch(st, acc, i, row)

-----------------------------------------------------------------------------
(* The panel of a site.                                                    *)

\* Run Sync: a fresh report replaces the one that is shown.
Scan(site, doorsRead) ==
    /\ removal[site] = Idle
    /\ rows' = [rows EXCEPT ![site] = Detect(seat, kindoo[site], site, doorsRead)]
    /\ UNCHANGED <<seat, access, kindoo, removal, changes, served>>

Shows(site, codes) == removal[site] = Idle /\ Fixable(rows[site]) /\ rows[site].code \in codes

\* The fix of a row; a refused one leaves the row with its error.
Fix(site) ==
    /\ Shows(site, {"kindoo-only", "callings-mismatch", "scope-mismatch", "type-mismatch",
                    "kindoo-unparseable", "buildings-mismatch"})
    /\ LET result == ApplyFix(seat, access, rows[site]) IN
       /\ result.ok
       /\ seat' = result.seat
       /\ access' = result.access
    /\ rows' = [rows EXCEPT ![site] = NoRow]
    /\ UNCHANGED <<kindoo, removal, changes, served>>

\* sba-only, outside any transaction: what to do is decided by this read.
StartRemoval(site) ==
    /\ Shows(site, {"sba-only"})
    /\ seat # NoSeat
    /\ LET i == ResolveGrantSlot(seat, rows[site].scope, site) IN
       /\ i # Missing
       /\ removal' = [removal EXCEPT ![site] =
              IF i > 0 THEN [stage |-> "drop", scope |-> seat.dups[i].scope, stamp |-> seat.dups[i].site]
              ELSE IF seat.dups = <<>> THEN [stage |-> "orphan"]
              ELSE [stage |-> "promote"]]
    /\ UNCHANGED <<seat, access, kindoo, rows, changes, served>>

At(site, stage) == removal[site].stage = stage

Dups(st) == IF st = NoSeat THEN <<>> ELSE st.dups

\* The duplicate with the scope and stamp the first read chose, or 0.
DupIndex(site) == SelectInSeq(Dups(seat), LAMBDA d :
    d.scope = removal[site].scope /\ d.site = removal[site].stamp)

Finish(site, row) ==
    /\ removal' = [removal EXCEPT ![site] = Idle]
    /\ rows' = [rows EXCEPT ![site] = row]

\* A branch whose transaction finds the seat changed: the row shows the error.
RemovalFails(site) ==
    /\ \/ At(site, "drop") /\ DupIndex(site) = 0
       \/ At(site, "orphan") /\ (seat = NoSeat \/ Dups(seat) # <<>>)
       \/ At(site, "promote") /\ Dups(seat) = <<>>
    /\ Finish(site, rows[site])
    /\ UNCHANGED <<seat, access, kindoo, changes, served>>

DropDuplicate(site) ==
    /\ At(site, "drop")
    /\ LET i == DupIndex(site) IN
       /\ i > 0
       /\ seat' = WithDups(seat, RemoveAt(seat.dups, i))
       /\ access' = IF HeldElsewhere(seat, i, seat.dups[i].scope) THEN access
                    ELSE ClearAccess(access, seat.dups[i].scope)
    /\ Finish(site, NoRow)
    /\ UNCHANGED <<kindoo, changes, served>>

\* The transaction of an orphan stamps the seat and reaps its access; the seat
\* goes in a write of its own.
ReapOrphan(site) ==
    /\ At(site, "orphan")
    /\ seat # NoSeat
    /\ seat.dups = <<>>
    /\ access' = ClearAccess(access, seat.scope)
    /\ removal' = [removal EXCEPT ![site].stage = "delete"]
    /\ UNCHANGED <<seat, kindoo, rows, changes, served>>

DeleteOrphan(site) ==
    /\ At(site, "delete")
    /\ seat' = NoSeat
    /\ Finish(site, NoRow)
    /\ UNCHANGED <<access, kindoo, changes, served>>

\* The first duplicate takes the primary's place; the old scope's access goes.
PromoteDuplicate(site) ==
    /\ At(site, "promote")
    /\ seat # NoSeat
    /\ seat.dups # <<>>
    /\ seat' = ApplyRemove(seat, Plan("promote", 1))
    /\ access' = ClearAccess(access, seat.scope)
    /\ Finish(site, NoRow)
    /\ UNCHANGED <<kindoo, changes, served>>

-----------------------------------------------------------------------------
(* The others.                                                             *)

\* A change in Kindoo: by the church's own sync or by hand.
KindooChanges(site, user) ==
    /\ changes < MaxKindooChanges
    /\ user # kindoo[site]
    /\ kindoo' = [kindoo EXCEPT ![site] = user]
    /\ changes' = changes + 1
    /\ UNCHANGED <<seat, access, rows, removal, served>>

\* A manager completes an add.
RequestAdds(req) ==
    /\ served < MaxRequests
    /\ req.type # "remove"
    /\ seat' = IF seat = NoSeat THEN NewSeat(req) ELSE PlanAddMerge(seat, req)
    /\ served' = served + 1
    /\ UNCHANGED <<access, kindoo, rows, removal, changes>>

\* The trigger of a completed remove: it reaps access on a dropped duplicate.
RequestRemoves(req) ==
    /\ served < MaxRequests
    /\ req.type = "remove"
    /\ seat # NoSeat
    /\ LET plan == PlanRemove(seat, req.scope, req.site)
           next == ApplyRemove(seat, plan) IN
       /\ seat' = next
       /\ access' = IF plan.kind = "drop_duplicate" /\ \A g \in Grants(next) : g.scope # req.scope
                    THEN ClearAccess(access, req.scope) ELSE access
    /\ served' = served + 1
    /\ UNCHANGED <<kindoo, rows, removal, changes>>

-----------------------------------------------------------------------------
PanelStep(site) ==
    \/ \E doorsRead \in BOOLEAN : Scan(site, doorsRead)
    \/ Fix(site)
    \/ StartRemoval(site)
    \/ RemovalFails(site)
    \/ DropDuplicate(site)
    \/ ReapOrphan(site)
    \/ DeleteOrphan(site)
    \/ PromoteDuplicate(site)

Next ==
    \/ \E site \in KindooSites : PanelStep(site) \/ \E user \in KindooUsers[site] : KindooChanges(site, user)
    \/ \E req \in Requests : RequestAdds(req) \/ RequestRemoves(req)

Spec == Init /\ [][Next]_vars

\* The manager keeps scanning, some scans read every door, and a row that can
\* be fixed is fixed; a call that started ends.
FairSpec ==
    /\ Spec
    /\ \A site \in KindooSites :
          /\ WF_vars(Scan(site, TRUE))
          /\ SF_vars(Fix(site))
          /\ SF_vars(StartRemoval(site))
          /\ WF_vars(RemovalFails(site) \/ DropDuplicate(site) \/ PromoteDuplicate(site))
          /\ WF_vars(ReapOrphan(site) \/ DeleteOrphan(site))

-----------------------------------------------------------------------------
(* Properties.                                                             *)

\* The multiset of a seat's grants, as a sequence in display order.
All(st) == IF st = NoSeat THEN <<>> ELSE <<Primary(st)>> \o st.dups

\* A fix, however stale its row, leaves every grant but one as it was and where
\* it was; the one it writes is of the row's scope or is appended
\* (resolveGrantSlot, "the SURFACED grant").
OnlySurfacedGrantWritten ==
    [][\A site \in KindooSites : Shows(site, {"kindoo-only", "callings-mismatch", "scope-mismatch",
                "type-mismatch", "kindoo-unparseable", "buildings-mismatch"})
            /\ rows'[site] = NoRow /\ removal'[site] = Idle /\ seat' # seat =>
          LET old == All(seat)  new == All(seat')
              changed == {i \in 1..Len(old) : i > Len(new) \/ new[i] # old[i]} IN
          /\ Len(new) >= Len(old)
          /\ Cardinality(changed) + (Len(new) - Len(old)) = 1
          /\ \A i \in changed : old[i].scope \in {rows[site].scope, rows[site].newScope}]_vars

Fresh(site) == \E doorsRead \in BOOLEAN : rows[site] = Detect(seat, kindoo[site], site, doorsRead)

\* The fix of a row that is still true heals it: the next scan of that site does
\* not report it again.  (A buildings row is compared with all grants of the site
\* and written to the first alone: it heals when there is only one.)
FixHeals ==
    [][\A site \in KindooSites :
          /\ Fix(site)
          /\ Fresh(site)
          /\ rows[site].code = "buildings-mismatch" => Cardinality(Contributors(seat, site)) = 1
          => \A doorsRead \in BOOLEAN : Detect(seat', kindoo[site], site, doorsRead) # rows[site]]_vars

\* App access to a scope is gained only while an auto grant of the seat holds
\* the scope, whatever the row and the merge it was applied to.
AccessEarned ==
    \A s \in Scopes : access'[s] \ access[s] # {} =>
        \E g \in Grants(seat') : g.scope = s /\ g.type = "auto"

AccessBacked == \A s \in Scopes : access[s] # {} => \E g \in Grants(seat) : g.scope = s

AccessEarnedByAuto ==
    \A s \in Scopes : access[s] # {} => \E g \in Grants(seat) : g.scope = s /\ g.type = "auto"

\* No fix strands access: while auto grants earn all there is, no step of a panel
\* but the late delete of an orphan (see OrphanHadNothingElse) leaves access to a
\* scope without a grant of the scope.
FixesStrandNoAccess ==
    AccessEarnedByAuto /\ served' = served /\ (\A site \in KindooSites : ~DeleteOrphan(site))
    => AccessBacked'

\* Calling-derived access is gained with an automatic grant and goes with the
\* last grant of its scope: "nothing can name that scope again once no grant
\* carries it" (removeSeatOnRequestComplete.ts).
AccessFollowsGrants == [][AccessEarned /\ FixesStrandNoAccess]_vars

\* A grant that a completed request adds while an orphan is being removed is not
\* removed with it: "a concurrent `markRequestComplete` between the outer read and
\* the write can't be silently clobbered" (applySbaOnlyRemove).
OrphanHadNothingElse ==
    [][\A site \in KindooSites : DeleteOrphan(site) => Dups(seat) = <<>>]_vars

\* Nothing to fix on a site, or only the buildings row of several grants.
Settled(site) ==
    LET row == Detect(seat, kindoo[site], site, TRUE) IN
    \/ ~Fixable(row)
    \/ row.code = "buildings-mismatch" /\ Cardinality(Contributors(seat, site)) > 1

\* Once Kindoo and the requests are quiet, scanning and fixing settles: the
\* fixes of one site do not keep undoing those of another.
FixesSettle == <>[](\A site \in KindooSites : Settled(site))
=============================================================================
