# Stake Building Access: a verification development

TLA+ models of the access tracker (SBA): managers and requesters in the web app,
Cloud Functions callables and triggers, scheduled tasks, and the browser extension
that drives Kindoo from the manager's own tabs. TLC checks the models on small
instances. TLAPS proves the main properties of requests and seats, remote apply and
its refinement of an abstract job machine, provisioning, claims, configuration, the
active stake and the setup of a stake, the scheduler, the audit trail, the mails and
push tokens for every size of the system.
Paths below are relative to the repository; `A` stands for
`apps/web/src`, `E` for `extension/src`, `F` for `functions/src`, `P` for
`packages/shared/src`.

Contents: [inventory](#inventory) · [plan](#plan) · [modules and code](#modules-and-code) ·
[runs](#runs) · [fairness](#fairness) · [proofs](#proofs) · [findings](#findings) ·
[what is left out](#what-is-left-out).

## Inventory

| Component | State | Operations | Meets | What is hard |
|---|---|---|---|---|
| Requests (`A/features/requests`, `myRequests`, roster pages) | `stakes/{sid}/requests/{rid}` | the forms, submit, cancel, reject | completion, rules, rosters | pages, schemas and rules decide separately; a row shows one grant of several |
| Completion (`F/callable/markRequestComplete.ts`) | requests, seats, `last_over_caps_json` in one transaction | complete an add (create or merge), an edit, a remove | over-caps, remove trigger, remote apply | a request outlives the seat it was asked for |
| Remove trigger (`F/triggers/removeSeatOnRequestComplete.ts`, `lib/accessScopes.ts`) | seats, access, over-caps, request note | delete, promote, drop a duplicate, nothing | completion event | late and repeated deliveries |
| Over-caps (`F/lib/overCaps.ts`) | derived snapshot | recompute | all writers of seats, its mail | a snapshot of seats that are not the stored ones |
| Remote apply, phone (`A/features/manager/queue`) | jobs of a manager, the phone's snapshot | tap, pickup timeout | the loop, through the mailbox | a timer that races a claim |
| Remote apply, desktop (`E/content/remoteApply`, `E/background/data.ts`) | per tab: site, tick, gate, run | sweep, heartbeat, poll, expire, claim, run, report | sibling tabs, Kindoo, completion | crashes, lost answers, a moving site |
| Presence (`useRemoteApply.ts`, `remoteApplyPrefs.ts`, `data.ts`) | the profile's opt-in, its copies in tabs, two kinds of presence documents | toggle, heartbeat, opt-out | the phone's button | opt-out racing writes under way |
| Provisioning (`E/content/kindoo/provision.ts`, `applyRequest.ts`) | Kindoo users, rules, church doors | invite, edit, grant, revoke, predict the seat | the loop and the panel, the remove trigger | two programs computing one seat; broken-off runs |
| Sync (`E/content/kindoo/sync`, `F/callable/syncApplyFix.ts`) | seats, access | detect a discrepancy on a site, apply one of eight fixes | all writers of seats | one seat, a report per site, stale rows |
| Custom claims (`F/lib/applyClaims.ts`, `seedClaims.ts`, the claim triggers) | one claim block per account | merge a stake, bootstrap or superadmin part; seed all | rules, active stake | read, merge and write without a lock |
| Scheduled tasks (`F/scheduled`, `tasks`, the two services) | the schedule, the queue, date stamps | dispatch, stamp, run, mail | managers editing the schedule | at-least-once everything |
| Configuration (`A/features/manager/configuration`, `organizations`, `E/panel/ConfigurePanel.tsx`) | wards, buildings, sites, organisations, the home EID, rules of buildings | create, rename, move, delete | each other, seats | references checked outside the write |
| Bootstrap (`F/callable/createStake.ts`, `A/features/bootstrap`) | the stake, the admin's manager document, `setup_complete` | create, auto-add, complete, re-issue | claims, the active stake | a claim that arrives late or never |
| Active stake and gate (`A/lib/useActiveStake.ts`, `principal.ts`, `setupGate.ts`) | URL, session and local storage, a module slot, the token | commit, consume a link, switch, refresh | claims, other tabs | half-loaded principals |
| Panel shell (`E/panel/App.tsx`, `E/background`) | account, site, stake, configuration, queue | resolve, watch, pick, change, refuse | callables, `chrome.storage` | answers out of order |
| Web sign-in (`A/features/auth`, `A/routes/auth`) | links, the stash, the session, the panel's window | send, open, redeem, retry, connect | the panel | one-time links and failing networks |
| Notices (`F/triggers/auditTrigger.ts`, `notifyOn*`, `EmailService.ts`) | audit rows, mails | record, classify, announce | every write | at-least-once, unordered events |
| Push (`F/lib/push.ts`, `A/features/notifications`) | tokens by device | register, rotate, switch off, send, prune | the browser | pruning by device, not by token |
| Backfills, shared string and date helpers, read rules, presentation | – | – | – | see [what is left out](#what-is-left-out) |

What makes the components correct:

- *Seats*: one grant per (scope, type); adds only add; an edit changes the slot it
  names; a grant goes only by a completed remove that names it, or by a fix of a
  row that showed it; the mirror field and the site stamp follow every write;
  derived access goes with the last grant that earns it.
- *Requests*: settled once; what a note says stays; every button of a page leads to
  a write the rules admit, and changes the grant its row shows.
- *Remote apply*: one runner per job; a cancelled job was never provisioned; the
  right site, one invite; applied means done; every job settles. What the phone is
  offered comes to be what the tabs serve.
- *Provisioning and sync*: whatever broke off and was repeated, the doors of a
  member are those of the seat, and no call takes away a door the seat keeps, where
  no schedule to be revoked stood in for a rule; a fix heals its row; fixing site
  after site ends.
- *Claims*: where the triggers come to rest the claims are those of the documents;
  what an overlap spoils the next run heals.
- *Schedules*: an opt-out stays, no slot is lost, a repeated mail needs a failure.
- *Configuration*: references resolve and a ward stays with its building, until a
  write is made after what it was decided on has changed.
- *Stakes*: who chose a stake gets it; an admin gets through the wizard.
- *Panel and sign-in*: the panel comes to show the site it is on; a good link leads
  in; who manages is not turned away.
- *Notices*: one row for each write; a mail for each tip and outcome, and a second
  one only of an event that is delivered again.

## Plan

Built, in this order: the seat planners and the request life cycle; the
remote-apply loop and its proofs; the abstract job machine and the refinement;
the request forms; sync; claims; the scheduler; configuration; the active stake
and setup; provisioning; notices; the panel, sign-in, presence and push; their
proofs.

Left, most useful first: the temp windows of grants (a value per day in
`SeatGrants`, the 90-day rule and the expiry); which subscriptions a page opens
against the read rules (the cases found while reading are listed below); paging
through a site's users in `endpoints.ts`; the superadmin's and the managers' lists.

## Modules and code

Operators marked *(mutation)* are faulty variants of the definition next to them,
never used by the specifications: replacing the definition by its variant must
break the property the variant is written for. Every module that reads, decides
and writes in separate steps in the code does so in separate actions; a Firestore
transaction is one action; a call that throws before writing is a disabled action,
unless its failure is itself part of the protocol.

**`SeatGrants`** — the pure planners. A seat has the primary grant in its top-level
fields and a sequence `dups`; `dupScopes` is the mirror field the rules read.
`PlanAddMerge`, `NewSeat`, `PlanEditSeat`, `PlanRemove`, `ApplyRemove`,
`ProjectedSeat` and `ComputeOverCaps` are the functions of the same name (the seat
write of each plan is inline in the code). An absent site is `Unset`, a null one
`Home`.

**`RequestLifecycle`** (extends it) — requests, seats, access and the snapshot of
one stake. `CompleteAdd`, `CompleteEdit` and `CompleteRemove` are the branches of
the completion transaction; `SeatTrigger` is one delivery of a completion event,
`MaxDeliveries` bounds how often; `SetOrganization` is the roster's inline edit.
A remove is submitted for a row the seat offers at that moment: what makes it stale
is what happens after.

**`RequestForms`** (extends that) — pages over the same seats. `NewForms`,
`EditForms`, the grant-stake dialog and the four rosters' removals are what a
principal can press and send; `NewFormValid` and `EditFormValid` the schemas;
`CreateAdmitted` with `LimitedClauses` the create rule. Principals are a manager and
stake, ward and limited users.

**`JobLifecycle`** — the abstract mailbox: a job is queued, taken by one runner or
cancelled, worked for, settled. It is the firestore.rules transition table with
what a runner may promise. **`RemoteApply`** — the mailbox, phones, tabs and Kindoo:

| In the code | In the model |
|---|---|
| job document | `jobs[j]`, with `late` (older than the pickup window) and `age` (past the stranded thresholds of own and other sites) in place of timestamps |
| the phone's subscription | `seen[p]`, which job ids it has; statuses of known jobs are read from the mailbox, own writes show at once |
| one tick of the loop | `pc[t]`: idle → sift → claim → run → idle, one step per awaited call |
| `findQueuedRemoteApplyJobs` page, claimable list | `page`, `fresh` |
| `publishedBusyIds`, `lastRunningElsewhereIds`, `busyReadHolds` | `busy`, `last`, `stale` |
| `activeSite` against the site the session is really in | `active`, `at` |
| `applyRequest` called by the loop and by the panel | `run[<<t, "loop">>]`, `run[<<t, "panel">>]`: lookup, invite, rules, mark, then a result |
| firestore.rules on job updates | the status conjuncts of `Cancelled`, `Claim`, `Sweep`, `Report` |

Every call may fail, or succeed and lose its answer, and tabs may close at any
step; `MaxFaults` bounds how often per behaviour. `wrote`, `swept`, `began` and
`polled` are history variables no guard reads. The sweep is a real second writer of
running jobs: a run that outlasts the threshold can be swept, retried by the phone
and so invited twice. The code's comments accept this, and `InvitedOnce` allows one
more invite for each such sweep and for nothing else. Here a request is an add for
a member Kindoo does not know; `Provisioning` has the others.

**`Provisioning`** (extends `RequestLifecycle`) — one desk working through the
requests of a member: `StartRun` reads the seat and works out what the member should
hold, `LookupUser` reads the Kindoo user and plans the calls (`AddCalls`,
`EditCalls`, `RemoveCalls`), `KindooCall` makes one, with or without
its answer, `RunStops` breaks the run off anywhere, `MarkComplete` calls the
completion, the trigger follows in its own time. The loop finds its request pending;
the panel's card may be of one settled since, and such a run counts among the
`MaxFaults`. Each building has a rule, which opens the doors `DoorsOf` gives it; rules
may share doors, and `Strays` are rules that back no building and open doors too.
`direct` are the doors the church opened. An add or edit skips a building all of whose
doors the user can open (`DeriveDirectGrantRids`), through whatever schedule; `Opens`
is what counts as open afterwards. `names` are the scopes of the description.
History: `past.lent` has the buildings that a run did not grant because another
schedule opened them, `past.again` says that a completed request was provisioned
again.
`Predicted` compares `ComputePostRemovalBuildings` and `EditTarget` with what the
server writes. `past.lagged` and `beside` mark the two cases the disagreements
below describe, in which the code does leave doors that are not the seat's:
`beside` is set whenever the desk's remove, or one whose trigger is still awaited,
is for the scope of an automatic primary with a manual grant beside it, also when
the seat takes that shape only while the run or the trigger is under way. Buildings
and wards stay on their sites here; moving them is `StakeConfig`'s.

**`SyncDetector`** — `Detect(seat, user, site, doorsRead)`: segments of a
description, the one that counts on the site, the site's view of the seat
(`Contributors`, `SeatBlock`), and the row and payload of each discrepancy.
**`SyncFixes`** (extends it) — a manager scans either site, keeps the report while
Kindoo, requests and the other site's fixes go on, and applies any row of it.
`ApplyFix` is the callable: it searches the grant again and applies one of eight
fixes; the orphan removal is two committed writes (`ReapOrphan`, `DeleteOrphan`).

**`ClaimSync`** — one person's role documents in two stakes, the superadmin
document, the claim block, and every trigger run in steps: deliver (read the
documents), load the claims, write, revoke. Warm instances keep a list of stakes.
`SignUp` seeds and then writes the index (`WriteIndex`). **`StakeConfig`** — wards,
buildings, sites, organisations and the home EID. The page reads what it checks
(`Submit`) and writes later (`Commit…`); a wizard's save is `MayWrite`, `CheckWrite`
and two writes. Three history variables mark the writes made after what they had been
decided on changed: `overtaken` those of an EID, a rule or a site; `stale` has the
operators under whose open write the wards or the names of buildings have changed, and
`behind` says that such a write of a building or a ward was made.

**`ScheduledTasks`** — two overlapping dispatches: read, seed, enqueue, commit, each
may die; the queue deduplicates by hour; an attempt mails target by target and
stamps last. Time is the hour (`Tick`), `Cycle` hours to a day. Managers switch and
move rows, and operators remove them, meanwhile.

**`ActiveStake`** — a tab's tiers (link, session storage, local storage, default),
the module slot of a link, the effect that strips, uses, persists or reports a
stake, commits of React and the snapshots of principal they see; back button, link,
switch, remount, sign-out, token refresh. `choice` remembers what the person chose
last; `Repeats` is the link that the code takes for the one it has. **`StakeSetup`** (extends it) — the stake
and manager documents, the triggers with misses, the gate, and the wizard's steps.

**`Notices`** (extends `RequestLifecycle`) — the same actions, each a `Commit` with
its writer and the documents it stamps. `auditing` and `mailing` are the events not
handled yet: audit events are delivered until a row is written or Firestore refuses it
for good, mail events once, in any order, and either may come a second time. An audit
row is written over itself; a mail is sent again (`copy` tells the mails of one event
apart), and `repeated` has the events so delivered. A refused row is not written;
`dropped` has its write. `Classify`, `IsOutOfBandUpdate` and
`IsEmptyToNonEmptyTransition` are the triggers' conditions.

**`PanelShell`** — the account the service worker pushes, the site in the page, the
resolution of its stakes with its calls and stored choice (each call and storage
access is answered later, in any order), the configuration probe and the queue.
`resolveRunRef` is `run`. **`WebSignIn`** — the window the panel opens, the sign-in
page, links in the mail, the tab a link opens, the session they share.
**`Presence`** — the opt-in with its copies, heartbeats and the presence writes in
flight, which the phone reads as an offer for a site. **`PushTokens`** — a device's
token, the one registered, sends in flight and what they found.

**`MC*`** modules give the constants values. Where one of them composes modules
that share no state (`MCStakeDocs`, `MCKindooTab`), a variable `subject` says which
of them a behaviour is about: their state spaces add up and do not multiply, which
is sound because neither could see the other's steps. Modules that do share state
are composed by extension: `Provisioning`, `Notices`, `RequestForms` and
`SyncFixes` work on the seats of `RequestLifecycle` or its planners, `StakeSetup` on
the claims and tabs of `ActiveStake`.

## Runs

| Run | Instance | What it shows |
|---|---|---|
| `RL_grants` | 1 member, wards on two sites and an unknown scope, 4 requests, 2 deliveries of each completion | grants and access under every order of submission, settlement and delivery; what the pages then offer of the seat is admitted and means what its row shows |
| `NT_notices` | 3 members, 1 home ward, caps 1 and 2, 2 requests, backlog 1, 1 incident | the snapshot follows the seats; but for dropped rows every write has one row; a mail for each tip and outcome, and a second of one event only when it is delivered again |
| `RA_jobs` | 2 tabs, 1 phone, 2 jobs of one request, 1 fault | the status machine is a lock, `RemoteApply` implements `JobLifecycle`, the gate, one invite |
| `RA_site` | 1 tab that moves between 2 sites, 2 phones, 1 job, the panel's button in use, 2 faults; fair | the right site, applied means done, every job settles |
| `SF_fixes` | 1 member, 2 wards on 2 sites, 3 buildings, 1 change of Kindoo and 1 request meanwhile; fair | a fix writes the grant it was shown for, heals its row and keeps access with the grants; fixing ends |
| `SD_docs` | configuration: 2 operators, 2 Kindoo tabs, 2 names, a ward, a site, an organisation, 2 environments, 3 edits; claims: 2 stakes (one created later), 2 writes, 1 account, 1 fault | references resolve and wards stay bound until a write is made after its readings changed; claims converge and heal |
| `ST_schedule` | 2 dispatches, days of 2 hours, 2 queued tasks of a job, 2 attempts, 1 edit, 2 faults; fair | opt-outs, slots, repeats, and that reminders keep coming |
| `SS_setup` | 1 tab, 2 stakes of which one is new, 2 moves, 1 miss; fair | the stake a user chose, and the way through the wizard |
| `PV_provision` | 1 member with no seat, an automatic one or a stake grant beside a calling, 2 sites, 3 buildings, 4 doors of which two buildings share one and a stray rule opens another, 3 requests, 2 faults | doors and seat, predictions, no door lost on the way but by a schedule that stood in |
| `KT_tab` | panel: 2 accounts, 2 stakes, 2 sites, 2 events; sign-in: 2 addresses, 4 links, 2 slips, 1 drop; presence: 2 tabs, 2 sites, 2 toggles, 1 move; push: 1 device, 2 tokens; fair | the panel settles, links lead in, offers follow tabs, a registration that is pruned is dead or newer than the token sent to |
| `SF_v_delete`, `KT_v_role` | the instances of `SF_fixes` and, smaller, of `KT_tab` | the [findings](#findings): TLC finds each violated |

Type invariants are conjuncts of `Current`, `OptOutKept`, `StakeNotLost`,
`DoorsMatchSeat`, `SeatsSound` and `LinksLeadIn`, or proved (`RemoteApply`,
`Presence`, `StakeConfig`).

*Why these bounds suffice for what they are asked.* A wrong merge or removal needs
a seat with a primary and a duplicate and one operation whose address no longer
fits: three requests, of which one is overtaken by another; the fourth lets the
grant be added again, and a second delivery comes after it. A tip of the over-caps
needs a pool that one member fills and a second overflows; two requests tip it and
end the tip, the third member's seat being there from the start. In remote apply
the races are between a claim and one other writer of the same job (sibling,
phone, sweep), so two tabs and one job meet them all; the second job is the retry
after a failure. Two faults in `RA_site` are a lost terminal write and a failure of
whoever repairs it; its second phone sees the first one's job late. A sync row that another site undoes needs one
member with a grant on each of two sites; the change of Kindoo and the request make
reports stale. Two operators and two Kindoo tabs let any two configuration writers
meet on any pair of documents. Three edits are the two whose overlap breaks something
and the one that prepared it: a building added, a ward edit that names it and the
building's deletion; a wizard, an added building and a second wizard. The stake starts
with the home's environment known or with a site, which saves the edits that make
them; TLC meets each case that `overtaken` and `behind` record, and without the record
the property fails. Claims are spoilt by two
overlapping runs, which two writes make, and healed by a third. Two dispatches
overlap pairwise; two faults are one in the dispatcher and one in the task it
queued. Two moves are a link and a switch. Provisioning breaks off twice and is
repeated by a third request; Kindoo starts with nobody, a member whom the church lets
into one building beside the rule of another, or one let into the ward's building by a
church door and a stray rule together, wherever the doors are those of the seat: with
the last, an edit can skip the building and revoke the stray, which the properties
except. In the panel, two events (site switch, sign-out,
sign-in, role change) let two resolutions overlap. Presence needs an opt-out, an
opt-in and a move. Thresholds and timers may pass in any order that time allows,
since each is a step of its own.

Symmetry (of request ids, tabs and jobs, where every constant treats them alike) is
used in runs without liveness only. `RA_jobs`, `RA_site`, `ST_schedule` and
`SS_setup` check deadlock; the others turn the check off because a stake whose
requests, edits and events are used up has nothing left to do, as their cfg says.

## Fairness

- `RA_site` (`FairSpec`): for a tab in `StableTabs`, which is never closed, the
  steps of a tick and of a run are weakly fair, since the loop reschedules itself
  after every tick (`schedule`, also after a throw) and every awaited call returns
  or fails; time passes. `Sweep` is strongly fair because a tab sweeps only between
  ticks, so that polling disables it again and again although the sweep runs first
  in its turn. Nothing is assumed of the phone or of the manager.
- `SF_fixes`: a manager who keeps scanning each site and fixing what the report
  shows. `Fix` and `StartRemoval` are strongly fair: a report comes and goes with
  the fixes of the other site. Kindoo and the requests may change it as they like.
- `ST_schedule`: the scheduler fires every hour, an invocation and an attempt of the
  queue end in one way or another, hours pass. Faults are bounded.
- `SS_setup`: the background triggers are retried until they run, the page renders
  what it was told, tokens are refreshed, an admin signs in, and keeps at a wizard
  that is shown. Nobody must create a stake, follow a link, reload or sign out.
- `KT_tab`: pushes of the auth state and storage events land, the watcher polls,
  calls are answered, heartbeats fall due, writes end, documents grow stale; a
  manager who wants in does what the page he sees tells him to, with no more slips
  (`Smooth`). Closing a window or a tab is never assumed, nor excluded.

Each fault may happen only as often as its bound; a service that is unreachable for
ever settles nothing.

## Proofs

All for any values of the constants, from the named assumptions of the modules. The
assumptions say what the code says of the data: codes, scopes and tags do not
collide; a stake starts from seats that are sound (`InitSeatsAssumption`: importers,
fixes and the site backfill wrote them so); a backoff is no longer than the time
after which a mail counts as long ago; a document is not its absence. Where a
theorem has a hypothesis of its own (`ASSUME … PROVE`), TLC finds the property
violated without it, and the run's instance satisfies it. Every invariant below was
first checked by TLC on the run's instance or a larger one.

**`RequestLifecycle_proofs`.** `SeatsSound` is inductive as it stands, given the
assumption on the seats a run starts from. Each planner has its lemma: what an add
merges or appends, what an edit replaces, what a removal drops or promotes, each
keeping one grant per slot, the mirror field and the site stamps. They rest on
lemmas about `SelectInSeq`, `RemoveAt`, `ReplaceAt` and `Append`, since the code
finds a slot by its first match. From there `SeatsStaySound`,
`CompletionsStayInTheirSlot`, `OnlyAddressedGrantsDisappear` (a removal takes one
slot, because no two grants share one), `AccessGoesWithLastGrant` and
`SettledRequestsStay`. `OverCapsTrueAtHome` assumes a stake without foreign sites and
without scopes outside the catalogue: with either, the projection the trigger counts
may differ from the seat it stores, as the first of the disagreements below says.

**`RequestViews_proofs`** (extends it), the forms and rows of `RequestForms`: what the
pages offer, in every state rather than the settled ones. `DialogsAreAdmitted` goes form by form through the two tables.
`RowsStayTrue` needs of the seats only that they are sound: `IsRow` says that every
row with a Remove button is the primary or the first duplicate of its scope on its
site, which is the grant `PlanRemove` finds again (`RowTaken`); with one grant per
slot, removing or promoting it takes this slot and no other (`DropTakes`,
`PromoteTakes`).

**`RequestViews_proofs`**, the history of `Notices`. `NoticesRefine`: every step of
`Notices` is a step of `RequestLifecycle` or a stutter, so that what is proved there
holds here. The
history of writes is read off the rows, the events still to become rows and the writes
whose row was dropped (`Writes`), which no delivery, repetition or refusal changes
(`Logged`). By document
they form a chain: one write is the newest and left what the document is now, each
other has a next, and between two there is what the later one found (`Linked`).
`TrailStaysTrue` needs this and that events name their writer, for which a pending
request must be known to carry its clerk's name (`Named`): a manager's completion
would else look like a write of nobody. Where a row was dropped the trail has a gap,
which the property excepts and nothing else. `OneNoticePerTip`: each notice belongs to
a tip, each tip has its notice sent or outstanding, and pools that are over have
tipped since the last write that found them within (`Tipped`). `OutcomesAreAnnounced`:
a decided request has one verdict, on its way or sent, a pending one none
(`Announced`). Both allow a second mail of one event where the event was delivered
again, since nothing in the code prevents it.

**`RemoteApply_proofs`.**

- `TypeCorrect`, by `TypeInit`, `TypeMailbox`, `TypeTick`, `TypeRun`. One clause of
  `TypeOK` is more than typing: a job in a tab's page or list of fresh jobs has been
  queued once, from which the later proofs know that a claim never creates a job.
- `LockInvariant`: `Lock == RunHoldsItsJob /\ OneRunner /\ WroteForClaimed` is
  inductive. `OneRunner` alone is not: to see that a claim cannot make a second
  runner one needs that the job of the first is past `queued`, which is
  `RunHoldsItsJob`; and that this lasts needs that nobody moves a claimed job back.
  `WroteForClaimed` says that Kindoo writes were made for claimed jobs only.
  `RunsHoldTheirJobs`, `OneTabRuns`, `CancelledMeansUntouched` and
  `StatusesMoveForward` follow, and together are `LockHolds`: `Spec => []StatusIsLock`.
- `HonestInvariant`: `Honest` says for each step of a run what its outcome will
  vouch for: before an invite the recorded site is the request's, from the mark on
  the access is granted, a result of `applied` comes with a completed request. It is
  inductive given `TypeOK` and `Lock`. `AppliedMeansDone` and `InvitesOnRightSite`
  follow.
- `GateStaysShut` and `OneInvitation` assume one phone. With two, one request can
  have two live jobs, and the gate, kept by request, opens when the first ends (see
  the findings). With one, `Sighted` (its snapshot has every job) gives `OneLive`: no
  two live jobs of one request. `Covered` then says of each tab that what its poll
  found live is busy, or on the page it is still sifting. For the invitations,
  `Budgeted` adds to the invites made the runs about to make one: together one more
  at most than the jobs of the request a sweep took from a running tab, because a run
  outlives its job by a sweep only (`SweptOrRunning`). `OneInvitation` also assumes
  that nobody clicks in the panel (`Clickers = {}`): the panel holds no job, and
  nothing keeps it from inviting what a run is about to invite.

**`RemoteApply_proofs`**, the refinement: `LoopKeepsPromise` — `Spec` implements the
abstract specification under `Promised == INSTANCE JobLifecycle WITH …`, which maps the
mailbox, the runs and the history of Kindoo writes to the abstract job. Every step
of phones, ticks, runs and sweeps is a step of `JobLifecycle` or a stutter. Besides
`Lock` and `Honest` it needs `VouchedInvariant`: a run about to complete its request,
or to report `applied` or `partial`, has touched Kindoo for its own job.

**`Provisioning_proofs`** (extends `RequestLifecycle_proofs`). Assumed of the data:
an add or edit names a building (`BuildingsAssumption`: the rules admit no other),
and a grant that is stamped from the start is stamped with the site of its scope
(`PlacesAssumption`). `PredictionsStayTrue` has the invariant `Fits`: besides
`SeatsSound`, `Orderly` says that every stamped grant stays on the site of its scope
and that every request is `Listed`, a remove carrying a site that fits; `Running`
says that the desk works for a request that exists. `OrderlyPredicts` then compares
the planners of the two programs kind by kind: `AddPredicted` and `EditPredicted`
over the slot the request names, `RemovePredicted` by way of `RemoveTakesFirst`:
outside `Beside`, the grant `PlanRemove` finds is the first of its scope, which is
the one the extension drops, although the trigger promotes where the extension only
removes. `NothingWantedIsRevoked` must say of a run under way what its remaining
calls may take, while triggers change the seat it was planned from (`RunSound`): what
the run computed still covers what its request will leave (`LookupSpares`), and no
call left revokes anything of that (`WritingSpares`). It lasts because what a waiting
request wants only shrinks as removes are carried out (`WantedShrinks`; that an
edit's slot may go is why the property speaks of requests that can be completed), and
each plan of calls is gentle when it is made (`AddCallsAre`, `EditCallsAre`,
`RemoveCallsAre`). Excepted are what a run left to another schedule (`lent`) and what
it grants by a later call, as a remove does (`StillGrants`; the instance of
`PV_provision` has no need of this one, the proof has; `ShutIsGranted`). Once
`beside`, nothing is claimed.

**`Provisioning_proofs`**, doors. `DoorsMatchSeat` is two claims about a member for
whom nothing is under way: the doors of the grants open (`EntitledOpens`), and no rule
is held that no grant names (`NothingLeftOver`). Both must say what is true while much
is under way. `MembersKeepTheirDoors` proves the first for any number of deliveries.
Two things are excepted, because the code does shut doors there (see the findings):
buildings `lent` to another schedule, and members of whom a completed request was
provisioned again from a stale card (`again`). `Held` is what a member opens by the
rule of the building or by the church's doors alone; what other schedules open besides
is `lent`, and no revoke of another rule can shut what is held. The invariant is
`Steady`: what a grant names and the member neither holds nor was lent has an `Excuse`,
a completed remove still to be carried out, or a pending request
whose run broke off after revoking it (`Entitled`); what a run at work wants
is held, lent or among its remaining calls (`Covers`, `Due`); a run whose calls
are done has only the completion before it (`DoneAtDesk`). An excuse ends with its
remove or its repeated run, which is why the property speaks of members at rest.
`DoorsStayMatched` proves `DoorsMatchSeat` with the invariant `Matched`, which explains
the rules left over as well: a grant names each rule at Kindoo and no trigger to come will
take it (`Kept`), or a run began to grant it for a request still pending (`Begun`;
together `Leftover`). What makes this last: an edit or a remove has revoked, or is about
to revoke, every rule that is not wanted, as its run read the seat (`Exact`, `Narrow`);
the seat stays as it was read, since no remove of the member awaits its trigger
meanwhile, and at most one does at any time (`Serial`); and a completion or trigger leaves the
grants of other sites alone (`ElsewhereGrants`, `ElsewhereWanted`). It assumes what TLC
shows to be needed. `MaxDeliveries = 1`: a
completion delivered again takes a grant added since, whose doors then stay.
`SitesAgree`: a request's buildings are on the site of its scope, as the forms offer
them (`NewRequestForm.tsx:198`, `EditSeatDialog.tsx:186`), so are those of the seats
at the start, and no user begins with the rule of a building that has none; a remove
looks only at the ruled buildings of its own site and would leave others behind. The
instance of `PV_provision` satisfies both.

**`StakeDocs_proofs`**, claims. `ClaimsInv == ClaimTypes /\ Undisturbed /\ Revoking`.
While no run was overlapped, each part of the block (the roles of a stake, a
bootstrap marker, the superadmin flag) is right, or a run that holds the right value
is about to write it, or somebody has yet to read it: an event, a run before its
reading, or a seed (`RolesSound`, `FlagSound`). For markers, whose events carry the
value, `InOrder` says that what is out of date has been or will be superseded.
`ClaimsStayCurrent` follows where everything rests. `RunsHeal` needs types only.

**`StakeDocs_proofs`**, configuration, for any number of operators and Kindoo tabs.
`EnvironmentsStayDisjoint` holds until `overtaken`, which records the overlaps that
break it. `WardsStay` holds until `behind`: a building is deleted while the other
operator's ward edit that names it is on its way, and TLC shows the ward lost.
`References` adds to the references themselves that what an operator's guards
established still holds when he commits, unless he is `stale`; `BindingsKept` and
`ShapeKept` are the steps that make nobody so. `SitesStaySound` holds until
`overtaken`, which also records the deletion of a site that got a building since the
list was read, the edit of a building onto a site that has gone, and the write of a
wizard that does not know every rule of its site: without each of these, TLC finds the
property violated. Its `RulesKept` adds that a wizard's rows cover every
rule it has read of its site (`RowsCover`).

**`ScheduledTasks_proofs`**. `IInv == Types /\ Switches /\ StampsEnqueued /\ Room /\
TaskSound /\ Budget /\ Dates`. `Switches` is `OptOutKept` with what a missing row
means; `StampsEnqueued` gives `NoSlotIsLost`. `RepeatsCostFaults` needs accounts:
`Budget` counts for each target the mails made out of turn and the chances of
another (tasks that may still mail it, and the one this hour may add) against the
faults, and `Dates` says that a running date is no older than the mails it stands for.

**`StakeSetup_proofs`**. `IInv == Browser /\ Wizards`. `Wizards`: a manager claim
rests on a manager document, which no step of the setup deletes, so a click that saw
the claim still has it when it flips; hence `AdminNotStranded`. `Browser` says of each
tab, by the roles of its person (`HasRole`: a role beside the new stakes), what its
token can be (`TokenFits`) and where a link is kept (`LinkKept`): in the slot, and once
it was used also in the session with its provenance mark. That an effect which uses a
link persists it as well needs `Settling` to mean "claims not read" (`RoleSettles`),
which holds of whoever has a role; others have nothing but the stakes in setup, and
with one such stake there is nothing to lose it to (`Resolves`). `StakeStaysFound`
therefore assumes that at most one stake is in setup: with two, the property is false
of somebody with bootstrap claims only (see the findings). `ResolutionIs` says what
wins among the tiers, `LeastMember` that `Min` of natural numbers is one.

**`KindooTab_proofs`**. `PrunedIsDeadOrNewer`: `PushInv` says that a token found dead,
or overwritten, was issued once and is not the live one; that the browser never issues
a token twice makes it inductive (`GivenUpStaysDead`). A device's live token is the
last it was issued (`LiveIsLast`), so a working one that is pruned is newer than the
one sent to. That it is lost all the same the code does not prevent (see the findings). `PresenceTypeCorrect`: that a
write of a desktop entry always names its site is the part that is more than typing.

**`KindooTab_proofs`**, sync. `FixesInv` (`FixesStayTyped`): a row on screen, however
old, is `Sendable` for some Kindoo user of its site, that is, one that the detector
can make of him; the seat it meets may be any other. `FixWritesSurfacedGrant` and
`AccessIsEarned` therefore have no hypothesis. Each fix is first shown to be
`OneWritten`: one slot patched, or one grant appended, of a scope the row names
(`CallingsWritten`, `ScopeWritten`, …, `KindooOnlyWritten`); `OneChange` turns that
into the count the property makes of the changed positions, and `OnlyFixTakesRow` says
that no scan, change of Kindoo or request can pass for a fix. For access, `PatchFixes`
says of a patched grant that a scope gains access only for what the grant has become,
and that what it was takes its access along unless another automatic grant holds it.
`AccessStaysWithGrants` assumes that every segment that names a unit names a calling:
without one the property is false (see the findings).

`FixesHealTheirRows` proves `FixHeals`, which relates two programs: the detector's
choice of the grant that speaks for a seat, and the callable's search for it by scope
and stamp. `BlockFound` shows that they choose the same position in a seat that is
`Findable`: foreign stamps are those of the grant's ward, and beside an unstamped grant
of a foreign ward no grant of that ward is stamped as home. The theorem assumes this of
the seats a run starts from; TLC refutes `FixHeals` from a seat of the second kind (see
the findings). It lasts because fixes, removals and requests stamp what they
write as `Stamped` says, or leave scope and stamp alone (`Kin`, `AnyKin`). `RowSays`
is what each row claims of the grant that speaks (`DetectSays`), and the fix makes it
false of the grant that speaks afterwards, which is the same one (`Rewritten`,
`NewGrantLands`). A buildings row is of all grants of the site and its fix of one: the
property speaks of it where there is only one.

Only model-checked: every liveness property (`EveryJobSettles`, `FixesSettle`,
`ReminderComes`, `SetupComes`, `WizardFinishes`, `PanelSettles`, `LinksLeadIn`,
`OffersFollowTabs`), which the provers cannot reach under fairness. Every other
property of a passing run is a theorem.

## Findings

Two runs show the code do what its comments exclude.

- `SF_v_delete` — the orphan removal of a sync fix stamps the seat and reaps access
  in a transaction and deletes the seat in a second write that re-reads nothing
  (`F/callable/syncApplyFix.ts:1856`), while the header promises that a concurrent
  completion cannot be clobbered: a grant merged in between goes with the seat.
- `KT_v_role` — sign-out resets `notAuthorized` but keeps the stake and configuration
  of the account that left (`E/panel/App.tsx:371`): the first render for the next
  account asks the old stake's queue, is denied, and leaves a manager on "not
  authorised".

The following disagreements between code and documentation, or between two parts of
the code, were met while modelling and have no run of their own. Where a property
excludes one, its definition says so.

*Seats and requests.* The remove trigger computes the over-cap snapshot from a
projection that changes the scope only (`removeSeatOnRequestComplete.ts:164`,
`overCaps.ts:111`), which differs from the stored seats when a foreign ward or a
stake duplicate is involved. A second delivery of a completion event removes a grant
added again since (`:34`, "Idempotent"). A remove recorded as a no-op ("Seat already
removed", `markRequestComplete.ts:72`, `:613`) is still carried out by the trigger
when an add comes in between. A promoted ward grant keeps the organisation of the
stake grant it replaces (`:322`, against `markRequestComplete.ts:525`). `planRemove`
says auto primaries are never user-removable, and a remove whose manual target is
gone takes the auto primary of its scope and site. A second pending `edit_auto`
drops the buildings of the first. All Seats folds a manual duplicate under its auto
primary (`AllSeatsPage.tsx` ~366), whose Remove is then never offered.

*Remote apply.* When the read of the running jobs fails just after a sibling's claim,
the held request is released (`loop.ts:1029`, against `docs/spec.md:1115`). The gate
is kept by request id; with two phones one request can have two jobs, and the first
run's end opens the gate of the second (`loop.ts:1156`, comment at `:244`). A job
left out of the gate as expired can still be claimed by a sibling that read it in
time. `failed` ("nothing landed in Kindoo") is reported when only the answer of an
accepted invite is lost, `partial` when only the completion's answer is.

*Provisioning.* `provision.ts` (header `:26`, ~`:890`) mirrors `planRemove` but drops
the primary of a scope where the trigger drops a manual duplicate under an automatic
primary (excluded by `Beside`, and by `beside` also when the shape arises while the
run or the trigger is under way). A run that read the seat before an earlier remove's
trigger grants the removed doors again (`lagged`). An `edit_temp` addressed to a
duplicate makes a permanent member temporary in Kindoo, an `edit_manual` the
reverse. Edits revoke rules that back no building while removes keep them. A
cancelled request leaves what a run had done. A remove looks only at the buildings of
its site that have a rule: of a grant that names a building of another site, the door
there stays. A completion delivered twice to the remove trigger
(`removeSeatOnRequestComplete.ts:34`) takes a grant that was added in between, and the
rule of it stays at Kindoo; members keep their doors even so (the grant is gone too).
Two desks that work on one member may revoke each other's rules.
An edit takes a building for granted when the member can open its doors through any
schedule (`provision.ts:590`, `:1265`), and revokes in the same run every schedule it
does not want (`:1281`): where a rule that backs no building any more, as after a
remapping, opened them, the member stands before a locked door. The comments speak of
"Church Access Automation's direct door grants" (`:556`) and say that rules of an
untouched slot are "never in `ridsToRevoke`" (`:1156`), which is true of the rules and
not of the doors. The loop asks whether its request is still pending (`runner.ts:121`);
the panel's card does not (`RequestCard.tsx:184`, `applyRequest.ts:113`), and
provisions a completed request again before the completion refuses it, which takes from
Kindoo what was granted since. A remove revokes before it grants, so a building that
a promoted grant brings can be shut between the two.

*Sync.* A buildings row with several contributing grants never heals. The remove
trigger reaps access only when it drops a duplicate whose scope nothing else holds,
the fix that promotes one reaps a scope the promoted grant may hold. A segment whose
parentheses hold no calling (`( )`; `parser.ts`, `fix.ts:424`) gives a scope fix with
no callings, which moves an automatic grant and leaves the access to its old scope
behind (`syncApplyFix.ts:1098`). The server's search lets an unstamped grant match any
site (`syncApplyFix.ts:653`), the detector gives it the site of its ward: the promote
row of a home duplicate is written to an unstamped foreign primary of the same ward,
and stays.
`listAllEnvironmentUsers` (`endpoints.ts` ~623) pages over a changing list and may
miss a user, who then shows as orphan.

*Notices.* Rows of a deleted seat name its last writer (`systemActors.ts:11`). Rows
of a cancellation, of a manager's completion of his own request and of the trigger's
note are out of band by the heuristic. `writeEmailFailedAudit` calls its id
deterministic (`EmailService.ts` ~1503) and begins it with the time of the attempt.
Mails have no key at all: an event delivered again is mailed again
(`notifyOnOverCap.ts:60`, `notifyOnRequestWrite.ts:87`). An audit row that Firestore
refuses for good is dropped and only logged (`auditTrigger.ts:333`).
The over-cap mail reads the switch from its event, request mails read it live.

*Claims, stakes, configuration.* A building moved to another site keeps its
`kindoo_rule` (`hooks.ts` ~1063; the property speaks of buildings that were not
moved). A create that merges over a slug renames that building without the rename's
guard (`hooks.ts:590`). Organisations in pending requests do not block a delete
(accepted, `hooks.ts:1392`). Two writers of an EID whose checks overlap can collide,
and a home form can write back an EID a wizard replaced. The guard of a site's deletion
looks at a list read before (`hooks.ts:1198`): a building that a second manager moves
there meanwhile stays on a site that is gone, as does one whose edit was on its way. Of
two wizards open on one site the second leaves a rule of the old environment on a
building it does not list (all `overtaken`). A building deleted, or renamed, while
another manager's write that relies on it is on its way loses a ward (`behind`). Signing out
clears the stored stake (`useActiveStake.ts:553`, `:670`), against `docs/spec.md:50`.
A switch after a link was consumed loses to the module slot until the next
navigation, and a second link to the slot's stake after it is dropped there
(`:186`, "re-navigation … to the current stake", which it no longer is; excluded by
`Repeats`). A person with nothing but the bootstrap claims of two stakes who follows a
link to the second has it consumed (`:594`) and never persisted, so the next
navigation shows the first. A tab without session
value shows another tab's switch; a second identical link is not stripped by a
long-lived hook. The gate compares canonical, the rules raw addresses. A wizard can
be completed while another tab deletes its last ward.
`useDisablePushMutation` switches the category off for all devices, though its
comment says push still fires on others. A token found dead is deleted by device
(`push.ts:141`), so that one registered in its slot while the fan-out was under way goes
with it. Codes that a misconfigured sender gets for every token (`push.ts:53`) are taken
for dead tokens; the model assumes that they are.

*Panel.* A late answer of `refreshConfig` (`App.tsx:258`, no run token) leaves the
shell with one stake and another's configuration. A pick whose storage write returns
after a site switch shows the old site's stake for good (`App.tsx:318`; the comment
of `handleChangeStake` says nothing can race the watcher; excluded by `crossed`). A
denied configuration is sticky and the picker cannot be reached from it.
`usePendingRequests` has no guard against late answers. `StakePicker` says there is
no switcher, and the chevron is one.

*Web sign-in.* When the claims poll fails on the network after the link was redeemed
(`signIn.ts:207`), the retry card says the link is still valid (`email-link.tsx:146`);
the next attempt ends on the error card. With a second link sent to another address,
the first, still usable, ends on the error card too, because the stash is the
second's (excluded in `ErrorCardTrue`). A stale "Not you?" card signs out the session
another page has just made (counted as a slip).

*Read rules.* A superadmin whose active stake gives him no role lands on pages whose
subscriptions are denied; so does one with a bishopric only, sent to the ward
rosters; a bishopric of different wards in two stakes meets one denied subscription
when switching (`bishopric/RosterPage.tsx` ~58); and the duplicate warning of the
request form never comes for a bishopric when the member has no seat, the read of a
missing seat being denied.

## What is left out

- Clocks: only the thresholds the code compares against exist, and any of them may
  pass at any time. Temporary grants are a type of grant; their windows, expiry and
  the 90-day rule's arithmetic (beyond a flag of the form) are not modelled.
- Firestore itself: transactions are atomic steps, rules are guards. A transaction
  retried after contention is the same as one that ran later. Read-modify-write of
  `chrome.storage` is one step, when it lands.
- The read rules and the subscriptions of pages.
- The backfills, run once by hand. One of them, `backfillKindooSiteId.ts`, reads all
  seats and stamps them later; a seat promoted in between would get a wrong stamp.
- The text of mails, notes and descriptions beyond what a decision depends on; the
  mail on granted access.
- Configuration toggles, the lists of managers and of ignored wards: writes of one
  field each, with nothing to relate them to.
- In sign-in: the death of the service worker during the hand-off, expiry of links,
  the inside of Google's popup.
- Shared helpers on strings and dates (canonical addresses, slugs, expiry days), each
  a function with unit tests: a member, a building and a day are single values here.
- Layout and presentation of the user interface. Which buttons a page offers is
  modelled where it decides what can be written.
