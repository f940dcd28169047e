----------------------------- MODULE StakeConfig -----------------------------
(***************************************************************************)
(* The configuration of one stake: buildings, wards, foreign Kindoo sites, *)
(* organizations and the home site's identity, as the Configuration page   *)
(* of the web app (features/manager/configuration/hooks.ts) and the        *)
(* extension's Configure wizard (background/data.ts) change it.            *)
(*                                                                         *)
(* Nothing checks references on the server: the page evaluates its guards  *)
(* on the snapshot it renders and writes afterwards, so every operation is *)
(* a Submit step that decides a write and a Commit step that applies it.   *)
(* A document id is the slug of the name at creation and never changes;    *)
(* a building's name does.  A Kindoo environment is its EID and its name.  *)
(***************************************************************************)
EXTENDS FiniteSets, Naturals

CONSTANTS Names,      \* building display names; the slug of a name is the name
          Wards, Sites, Orgs,
          Envs,       \* Kindoo environments
          Operators,  \* browser tabs on the Configuration page
          Tabs,       \* Kindoo tabs with the extension's panel
          HomeEids,   \* the home EIDs a run may start from
          FirstSites, \* the foreign sites a run may start from, none with an EID yet
          None,       \* absent document, null site, missing EID, rule or slug
          MaxEdits    \* bound: submissions and wizard runs in a behaviour

BuildingDoc == [name : Names, site : Sites \union {None}, rule : Envs \union {None}, moved : BOOLEAN]
WardDoc     == [id : Names \union {None}, name : Names]
SiteDoc     == [eid : Envs \union {None}, expects : Envs]

ASSUME StakeConfigAssumption ==
  /\ None \notin Names \union Sites \union Envs
  /\ None \notin BuildingDoc \union WardDoc \union SiteDoc
  /\ HomeEids \subseteq Envs \union {None}
  /\ FirstSites \subseteq SiteDoc \union {None}
  /\ \A site \in FirstSites \ {None} : site.eid = None

VARIABLES buildings,  \* [Names -> BuildingDoc or None], by slug
          wards,      \* [Wards -> WardDoc or None]
          sites,      \* [Sites -> SiteDoc or None]
          home,       \* the SiteDoc in the stake document
          orgs,       \* organizations that exist
          refs,       \* what seats and pending requests refer to
          web,        \* [Operators -> the write an operator is about to make]
          ext,        \* [Tabs -> the wizard or populate run of a Kindoo tab]
          overtaken,  \* history: an EID, a rule or a site was written after what the
                      \* write had been decided on had changed
          stale,      \* history: operators whose write was decided before the wards or
                      \* the names of the buildings changed
          behind,     \* history: such a write of a building or a ward was made
          edits

vars == <<buildings, wards, sites, home, orgs, refs, web, ext, overtaken, stale, behind, edits>>
docs == <<buildings, wards, sites, home, orgs>>

Idle == [do |-> "idle"]

Live(docsOf) == {d \in DOMAIN docsOf : docsOf[d] # None}

BuildingNamed(n) == {b \in Live(buildings) : buildings[b].name = n}

\* Id first, then the legacy name (resolveWardBuilding).
WardBuilding(w) ==
  IF wards[w] = None THEN {}
  ELSE IF wards[w].id \in Live(buildings) THEN {wards[w].id}
  ELSE BuildingNamed(wards[w].name)

EidOf(s) == IF s = None THEN home.eid ELSE sites[s].eid

ForeignEids == {sites[s].eid : s \in Live(sites)} \ {None}

BuildingsOf(s) == {b \in Live(buildings) : buildings[b].site = s}

RuledOf(s) == {b \in BuildingsOf(s) : buildings[b].rule # None /\ ~buildings[b].moved}

\* What decides which building a ward resolves to.
Bindings == <<wards, [b \in Live(buildings) |-> buildings[b].name]>>

-----------------------------------------------------------------------------

\* One building without a rule, one ward that carries the slug and, in older
\* stakes, one that knows its building by name only.
Init ==
  /\ \E first \in Names, slugged \in BOOLEAN :
       /\ buildings = [b \in Names |->
            IF b = first THEN [name |-> b, site |-> None, rule |-> None, moved |-> FALSE]
            ELSE None]
       /\ wards = [w \in Wards |->
            [id |-> IF slugged THEN first ELSE None, name |-> first]]
  /\ sites \in [Sites -> FirstSites]
  /\ home \in [eid : HomeEids, expects : Envs]
  /\ orgs = {}
  /\ refs = [names |-> {}, asked |-> {}, seated |-> {}]
  /\ web = [o \in Operators |-> Idle]
  /\ ext = [t \in Tabs |-> Idle]
  /\ overtaken = FALSE
  /\ stale = {}
  /\ behind = FALSE
  /\ edits = 0

Submit(o, write) ==
  /\ web[o] = Idle
  /\ edits < MaxEdits
  /\ edits' = edits + 1
  /\ web' = [web EXCEPT ![o] = write]
  /\ UNCHANGED <<docs, refs, ext, overtaken, stale, behind>>

\* The write is made, on documents that have taken their new values.
Done(o) ==
  /\ web' = [web EXCEPT ![o] = Idle]
  /\ stale' = (IF Bindings' = Bindings THEN stale ELSE {q \in Operators : web[q] # Idle}) \ {o}
  /\ behind' = (behind \/ (o \in stale /\ web[o].do \in {"building", "deleteBuilding", "ward"}))
  /\ UNCHANGED <<refs, ext, edits>>

-----------------------------------------------------------------------------
(* Buildings *)

\* MUTATION: the patch is sought by the slug alone.
WardRenamePatchesBySlug(b, name) ==
  {w \in Live(wards) : wards[w].id = b /\ wards[w].name # name}

\* The wards a rename rewrites: those that resolve to the building and hold
\* another name or no slug.  A missing slug is filled in, a present one kept.
WardRenamePatches(b, name) ==
  {w \in Live(wards) : /\ WardBuilding(w) = {b}
                       /\ (wards[w].name # name \/ wards[w].id = None)}

BuildingWrite(b, name, site, patched) ==
  [do |-> "building", id |-> b, name |-> name, site |-> site,
   patches |-> [w \in patched |-> IF wards[w].id = None THEN b ELSE None]]

AddBuilding(o, name, site) ==
  /\ BuildingNamed(name) = {}
  /\ site \in {None} \union Live(sites)
  /\ Submit(o, BuildingWrite(name, name, site, {}))

EditBuilding(o, b, name, site) ==
  /\ b \in Live(buildings)
  /\ site \in {None} \union Live(sites)
  /\ BuildingNamed(name) \subseteq {b}
  /\ \/ /\ name = buildings[b].name
        /\ Submit(o, BuildingWrite(b, name, site, {}))
     \/ /\ name # buildings[b].name
        /\ buildings[b].name \notin refs.names
        /\ Submit(o, BuildingWrite(b, name, site, WardRenamePatches(b, name)))

\* A merge into whatever is stored under the slug: a rule there survives.
CommitBuilding(o) ==
  LET write == web[o]
      old == buildings[write.id]
      PatchedWard(w) ==
        [id |-> IF write.patches[w] # None THEN write.patches[w]
                ELSE IF wards[w] = None THEN None ELSE wards[w].id,
         name |-> write.name]
  IN  /\ write.do = "building"
      /\ buildings' = [buildings EXCEPT ![write.id] =
           [name |-> write.name, site |-> write.site,
            rule |-> IF old = None THEN None ELSE old.rule,
            moved |-> IF old = None THEN FALSE ELSE old.moved \/ old.site # write.site]]
      /\ wards' = [w \in Wards |-> IF w \in DOMAIN write.patches THEN PatchedWard(w) ELSE wards[w]]
      /\ overtaken' = (overtaken \/ write.site \notin {None} \union Live(sites))
      /\ UNCHANGED <<sites, home, orgs>>
      /\ Done(o)

DeleteBuilding(o, b) ==
  /\ b \in Live(buildings)
  /\ \A w \in Live(wards) : wards[w].id # b /\ wards[w].name # buildings[b].name
  /\ Submit(o, [do |-> "deleteBuilding", id |-> b])

CommitDeleteBuilding(o) ==
  /\ web[o].do = "deleteBuilding"
  /\ buildings' = [buildings EXCEPT ![web[o].id] = None]
  /\ UNCHANGED <<wards, sites, home, orgs, overtaken>>
  /\ Done(o)

-----------------------------------------------------------------------------
(* Wards.  Their display names are taken as pairwise distinguishable. *)

SubmitWard(o, w, b) ==
  /\ b \in Live(buildings)
  /\ Submit(o, [do |-> "ward", id |-> w, create |-> wards[w] = None,
                building |-> [id |-> b, name |-> buildings[b].name]])

\* The transaction rejects a create whose id has been taken meanwhile.
CommitWard(o) ==
  LET write == web[o]
  IN  /\ write.do = "ward"
      /\ wards' = IF write.create /\ wards[write.id] # None THEN wards
                  ELSE [wards EXCEPT ![write.id] = write.building]
      /\ UNCHANGED <<buildings, sites, home, orgs, overtaken>>
      /\ Done(o)

DeleteWard(o, w) == w \in Live(wards) /\ Submit(o, [do |-> "deleteWard", id |-> w])

CommitDeleteWard(o) ==
  /\ web[o].do = "deleteWard"
  /\ wards' = [wards EXCEPT ![web[o].id] = None]
  /\ UNCHANGED <<buildings, sites, home, orgs, overtaken>>
  /\ Done(o)

-----------------------------------------------------------------------------
(* Foreign Kindoo sites and the home site *)

SubmitSite(o, s, e) ==
  Submit(o, [do |-> "site", id |-> s, create |-> sites[s] = None, expects |-> e])

\* A create must find nothing, an edit something; the EID is never touched.
CommitSite(o) ==
  LET write == web[o]
      old == sites[write.id]
  IN  /\ write.do = "site"
      /\ sites' = IF write.create # (old = None) THEN sites
                  ELSE [sites EXCEPT ![write.id] =
                    [eid |-> IF old = None THEN None ELSE old.eid,
                     expects |-> write.expects]]
      /\ UNCHANGED <<buildings, wards, home, orgs, overtaken>>
      /\ Done(o)

\* MUTATION: the guard runs on an empty snapshot.
DeleteSiteUnguarded(o, s) ==
  s \in Live(sites) /\ Submit(o, [do |-> "deleteSite", id |-> s, read |-> BuildingsOf(s)])

DeleteSite(o, s) ==
  /\ s \in Live(sites)
  /\ BuildingsOf(s) = {}
  /\ Submit(o, [do |-> "deleteSite", id |-> s, read |-> BuildingsOf(s)])

CommitDeleteSite(o) ==
  /\ web[o].do = "deleteSite"
  /\ sites' = [sites EXCEPT ![web[o].id] = None]
  /\ overtaken' = (overtaken \/ BuildingsOf(web[o].id) # web[o].read)
  /\ UNCHANGED <<buildings, wards, home, orgs>>
  /\ Done(o)

\* The manual form for the home EID: settable once, and not to a foreign EID.
MaySetHome(e) == home.eid = e \/ (home.eid = None /\ e \notin ForeignEids)

SubmitHome(o, e, expects) ==
  /\ MaySetHome(e)
  /\ Submit(o, [do |-> "home", eid |-> e, expects |-> expects, read |-> <<home, ForeignEids>>])

CommitHome(o) ==
  /\ web[o].do = "home"
  /\ home' = [eid |-> web[o].eid, expects |-> web[o].expects]
  /\ overtaken' = (overtaken \/ <<home, ForeignEids>> # web[o].read)
  /\ UNCHANGED <<buildings, wards, sites, orgs>>
  /\ Done(o)

-----------------------------------------------------------------------------
(* Organizations, deleted only while no seat names them *)

SubmitOrg(o, g) == g \notin orgs /\ Submit(o, [do |-> "org", id |-> g])

CommitOrg(o) ==
  /\ web[o].do = "org"
  /\ orgs' = orgs \union {web[o].id}
  /\ UNCHANGED <<buildings, wards, sites, home, overtaken>>
  /\ Done(o)

DeleteOrg(o, g) ==
  /\ g \in orgs \ refs.seated
  /\ Submit(o, [do |-> "deleteOrg", id |-> g])

CommitDeleteOrg(o) ==
  /\ web[o].do = "deleteOrg"
  /\ orgs' = orgs \ {web[o].id}
  /\ UNCHANGED <<buildings, wards, sites, home, overtaken>>
  /\ Done(o)

-----------------------------------------------------------------------------
(* The extension: the Configure wizard and the EID a provision records *)

\* Which site of the stake the Kindoo session stands for
\* (resolveActiveKindooSite): home by EID, foreign by EID, home by name when no
\* foreign site claims it, foreign by name.  {} is an unknown site.
ActiveSites(e) ==
  LET byEid == {s \in Live(sites) : sites[s].eid = e}
      byName == {s \in Live(sites) : sites[s].expects = e}
  IN  IF home.eid = e THEN {None}
      ELSE IF byEid # {} THEN byEid
      ELSE IF home.expects = e /\ byName = {} THEN {None}
      ELSE byName

Panel(t, run) ==
  /\ ext[t] = Idle
  /\ edits < MaxEdits
  /\ edits' = edits + 1
  /\ ext' = [ext EXCEPT ![t] = run]
  /\ UNCHANGED <<docs, refs, web, overtaken, stale, behind>>

OpenWizard(t, e) ==
  \E s \in ActiveSites(e) :
    Panel(t, [do |-> "wizard", site |-> s, eid |-> e, checked |-> FALSE,
              rows |-> BuildingsOf(s), read |-> RuledOf(s)])

\* A provision for a ward of a site without an EID (checkRequestSite's populate).
StartPopulate(t, s, e) ==
  /\ s \in Live(sites)
  /\ sites[s].eid = None
  /\ sites[s].expects = e
  /\ home.eid # e
  /\ \A other \in Live(sites) \ {s} : sites[other].eid # e
  /\ Panel(t, [do |-> "populate", site |-> s, eid |-> e, checked |-> FALSE,
               rows |-> {}, read |-> RuledOf(s)])

\* The guards of both writers, read before a write that is not a transaction.
MayWrite(site, eid) ==
  IF site = None THEN eid \notin ForeignEids
  ELSE /\ home.eid # eid
       /\ sites[site] # None => sites[site].eid \in {None, eid}

CheckWrite(t) ==
  /\ ext[t] # Idle
  /\ ~ext[t].checked
  /\ ext' = [ext EXCEPT ![t] =
       IF MayWrite(ext[t].site, ext[t].eid) THEN [@ EXCEPT !.checked = TRUE] ELSE Idle]
  /\ UNCHANGED <<docs, refs, web, overtaken, stale, behind, edits>>

\* MUTATION: a building that has a rule keeps it.
WithRulesWhereMissing(run) ==
  [b \in Names |->
    IF b \in run.rows /\ buildings[b].rule = None
    THEN [buildings[b] EXCEPT !.rule = run.eid] ELSE buildings[b]]

\* The rules of the batch, read from the environment the wizard ran in.
WithRules(run) ==
  [b \in Names |->
    IF b \in run.rows
    THEN [buildings[b] EXCEPT !.rule = run.eid, !.moved = run.site # buildings[b].site]
    ELSE buildings[b]]

\* One batch of updates: the EID and the rules of every listed building.  An
\* update of a document that is gone fails the whole batch.
CommitWrite(t) ==
  LET run == ext[t]
  IN  /\ run # Idle
      /\ run.checked
      /\ IF (run.site # None => run.site \in Live(sites)) /\ run.rows \subseteq Live(buildings)
         THEN /\ home' = IF run.site = None THEN [home EXCEPT !.eid = run.eid] ELSE home
              /\ sites' = IF run.site = None THEN sites
                          ELSE [sites EXCEPT ![run.site].eid = run.eid]
              /\ buildings' = WithRules(run)
              /\ overtaken' = \/ overtaken
                               \/ ~MayWrite(run.site, run.eid)
                               \/ ~(RuledOf(run.site) \subseteq run.read)
         ELSE UNCHANGED <<home, sites, buildings, overtaken>>
      /\ ext' = [ext EXCEPT ![t] = Idle]
      /\ UNCHANGED <<wards, orgs, refs, web, stale, behind, edits>>

-----------------------------------------------------------------------------
(* Seats and pending requests hold building names and organization ids *)

AskFor(n) ==
  /\ BuildingNamed(n) # {}
  /\ n \notin refs.names
  /\ refs' = [refs EXCEPT !.names = @ \union {n}]
  /\ UNCHANGED <<docs, web, ext, overtaken, stale, behind, edits>>

GiveUp(n) ==
  /\ n \in refs.names
  /\ refs' = [refs EXCEPT !.names = @ \ {n}]
  /\ UNCHANGED <<docs, web, ext, overtaken, stale, behind, edits>>

AskForOrg(g) ==
  /\ g \in orgs \ (refs.asked \union refs.seated)
  /\ refs' = [refs EXCEPT !.asked = @ \union {g}]
  /\ UNCHANGED <<docs, web, ext, overtaken, stale, behind, edits>>

\* Completion copies the request's organization without looking it up.
SeatOrg(g) ==
  /\ g \in refs.asked
  /\ refs' = [refs EXCEPT !.asked = @ \ {g}, !.seated = @ \union {g}]
  /\ UNCHANGED <<docs, web, ext, overtaken, stale, behind, edits>>

GiveUpOrg(g) ==
  /\ g \in refs.seated
  /\ refs' = [refs EXCEPT !.seated = @ \ {g}]
  /\ UNCHANGED <<docs, web, ext, overtaken, stale, behind, edits>>

-----------------------------------------------------------------------------

Next ==
  \/ \E o \in Operators :
       \/ \E n \in Names, s \in Sites \union {None} : AddBuilding(o, n, s)
       \/ \E b \in Names, n \in Names, s \in Sites \union {None} : EditBuilding(o, b, n, s)
       \/ \E b \in Names : DeleteBuilding(o, b)
       \/ \E w \in Wards, b \in Names : SubmitWard(o, w, b)
       \/ \E w \in Wards : DeleteWard(o, w)
       \/ \E s \in Sites, e \in Envs : SubmitSite(o, s, e)
       \/ \E s \in Sites : DeleteSite(o, s)
       \/ \E e \in Envs, n \in Envs : SubmitHome(o, e, n)
       \/ \E g \in Orgs : SubmitOrg(o, g) \/ DeleteOrg(o, g)
       \/ CommitBuilding(o) \/ CommitDeleteBuilding(o)
       \/ CommitWard(o) \/ CommitDeleteWard(o)
       \/ CommitSite(o) \/ CommitDeleteSite(o) \/ CommitHome(o)
       \/ CommitOrg(o) \/ CommitDeleteOrg(o)
  \/ \E t \in Tabs :
       \/ \E e \in Envs : OpenWizard(t, e)
       \/ \E s \in Sites, e \in Envs : StartPopulate(t, s, e)
       \/ CheckWrite(t)
       \/ CommitWrite(t)
  \/ \E n \in Names : AskFor(n) \/ GiveUp(n)
  \/ \E g \in Orgs : AskForOrg(g) \/ SeatOrg(g) \/ GiveUpOrg(g)

Spec == Init /\ [][Next]_vars

-----------------------------------------------------------------------------

\* A ward stays with the building it resolves to until somebody edits the ward:
\* no rename, creation, deletion or site edit moves it, whichever of the two
\* references it holds (hooks.ts wardRenamePatches, buildingDeleteBlocker), unless
\* the write of a building or a ward was overtaken by one that changed the wards
\* or the names it was decided on.
WardsStayBound ==
  [][ ~behind' => \A w \in Wards :
        (\A o \in Operators : ~(web[o].do \in {"ward", "deleteWard"} /\ web[o].id = w /\ web'[o] = Idle))
        /\ WardBuilding(w) # {}
        => WardBuilding(w)' = WardBuilding(w) ]_vars

\* Every building stands on a site that exists: the delete guard and the edit form
\* see snapshots, so unless a building came to the site between the guard and the
\* deletion, or the form's site went before its write (useDeleteKindooSite).
SitesExist ==
  ~overtaken => \A b \in Live(buildings) : buildings[b].site \in {None} \union Live(sites)

\* One Kindoo environment is never both the stake's home and one of its foreign
\* sites, unless a writer was overtaken between its guard and its write (the
\* collision guards of the three writers of an EID, none of them a transaction).
EidsDisjoint == overtaken \/ home.eid = None \/ home.eid \notin ForeignEids

\* "The two have never moved apart": the access rule of a building that was not
\* moved to another site belongs to the environment its site now points at.
RulesMoveWithEid ==
  ~overtaken => \A b \in Live(buildings) :
    buildings[b].rule # None /\ ~buildings[b].moved
    => /\ buildings[b].site \in {None} \union Live(sites)
       /\ buildings[b].rule = EidOf(buildings[b].site)

\* Whatever several operators and wizards write over each other, every building is
\* of a site that exists, every environment of one site, and every access rule of
\* the environment of its building's site, until one of those writes is made after
\* what it was decided on has changed: none is a transaction, and then a building
\* may be left on a site that is gone, or a rule of another environment.
SitesSound == SitesExist /\ EidsDisjoint /\ RulesMoveWithEid

=============================================================================
