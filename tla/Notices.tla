------------------------------- MODULE Notices -------------------------------
(***************************************************************************)
(* What a stake's writes set off besides the seat trigger: one audit row   *)
(* per changed document (auditTrigger, delivered until it succeeds), and   *)
(* the mails of notifyOnRequestWrite and notifyOnOverCap (delivered        *)
(* without retries, so a handler that fails is lost).  Both see only the   *)
(* before and after of their event, in any order, and may run twice.       *)
(***************************************************************************)
EXTENDS RequestLifecycle

CONSTANTS
    MaxBacklog,     \* bound: events outstanding when a commit comes
    MaxIncidents    \* bound: handlers and sends that fail, rows refused, second deliveries,
                    \* roster and Console edits and changes of the mail switch

ASSUME NoticesAssumption == MaxBacklog \in Nat /\ MaxIncidents \in Nat

VARIABLES
    clock,      \* commits so far: the time of the last one
    lastActor,  \* the lastActor field of every document
    mailOn,     \* stakes/{sid}.notifications_enabled
    auditing,   \* write events whose audit row is not acknowledged yet
    mailing,    \* write events the two mail triggers have not handled yet
    rows,       \* stakes/{sid}/auditLog
    mails,      \* mails sent, refused by the provider, or suppressed: one for each delivery
    dropped,    \* history: the writes whose audit row was dropped
    repeated,   \* history: the events a mail trigger was handed again
    incidents

noticeVars == <<clock, lastActor, mailOn, auditing, mailing, rows, mails, dropped, repeated, incidents>>
allVars == <<vars, noticeVars>>

Clerk == "clerk"
Manager == "manager"
RemoveTrigger == "RemoveTrigger"
OutOfBand == "OutOfBand"
Nobody == "nobody"

\* A document: its collection and its id.  Documents of two collections may
\* have one id (seats/{m} and access/{m}).
Doc(coll, id) == [coll |-> coll, id |-> id]
StakeDoc == Doc("stake", Stake)
Docs == {Doc("requests", r) : r \in ReqIds} \cup {Doc(coll, m) : coll \in {"seats", "access"}, m \in Members}
        \cup {StakeDoc}

\* The fields of a document that are not bookkeeping.
Image(d) ==
    CASE d.coll = "requests" -> requests[d.id]
      [] d.coll = "seats"    -> seats[d.id]
      [] d.coll = "access"   -> access[d.id]
      [] d.coll = "stake"    -> [pools |-> overCaps, mailOn |-> mailOn]

Absent(image) == image \in {NoRequest, NoSeat}

\* Requests have no last_modified_at; in-band writers stamp every other document.
Restamped(d, inBand) == inBand /\ d.coll # "requests"

Event(d, by, inBand) ==
    [at |-> clock', doc |-> d, before |-> Image(d), after |-> Image(d)', by |-> by,
     restamped |-> Restamped(d, inBand), actorBefore |-> lastActor[d], actorAfter |-> lastActor'[d]]

\* (mutation) the managers are not told of a cancellation.
ClassifyDecisions(e) ==
    IF Absent(e.before) THEN (IF e.after.status = "pending" THEN "newRequest" ELSE "none")
    ELSE IF e.before.status # "pending" THEN "none"
    ELSE CASE e.after.status = "complete" -> "completed"
           [] e.after.status = "rejected" -> "rejected"
           [] OTHER                       -> "none"

\* Which mail a request write is worth: a creation and the flips out of pending.
Classify(e) ==
    IF Absent(e.before) THEN (IF e.after.status = "pending" THEN "newRequest" ELSE "none")
    ELSE IF e.before.status # "pending" THEN "none"
    ELSE CASE e.after.status = "complete"  -> "completed"
           [] e.after.status = "rejected"  -> "rejected"
           [] e.after.status = "cancelled" -> "cancelled"
           [] OTHER                        -> "none"

\* (mutation) every write that flags a pool is worth a mail.
IsEmptyToNonEmptyTransitionOfAny(e) == e.after.pools # {} /\ e.after.pools # e.before.pools

IsEmptyToNonEmptyTransition(e) == e.before.pools = {} /\ e.after.pools # {}

MailKind(e) ==
    CASE e.doc = StakeDoc -> IF IsEmptyToNonEmptyTransition(e) THEN "overCap" ELSE "none"
      [] e.doc.coll = "requests" -> Classify(e)
      [] OTHER -> "none"

\* A commit by `by`, of which `stamped` documents carry his lastActor: every
\* document whose fields changed raises its events.  A rewrite that changes
\* bookkeeping only raises nothing any handler acts on (isNoOpUpdate), and the
\* mail triggers return at once from a write worth no mail.
Commit(by, stamped, inBand) ==
    LET changed == {d \in Docs : Image(d)' # Image(d)}
        raised  == {Event(d, by, inBand) : d \in changed} IN
    /\ Cardinality(auditing) + Cardinality(mailing) <= MaxBacklog
    /\ clock' = clock + 1
    /\ lastActor' = [d \in Docs |-> IF d \in changed \cap stamped THEN by ELSE lastActor[d]]
    /\ auditing' = auditing \cup raised
    /\ mailing' = mailing \cup {e \in raised : MailKind(e) # "none"}
    /\ UNCHANGED <<rows, mails, dropped, repeated>>

-----------------------------------------------------------------------------
(* The writers.                                                            *)

ByClerk(r) ==
    /\ (\E input \in Inputs : Submit(r, input)) \/ Cancel(r)
    /\ UNCHANGED <<mailOn, incidents>>
    /\ Commit(Clerk, Docs, TRUE)

ByManager(r) ==
    /\ \/ Reject(r)
       \/ CompleteAdd(r, {}) \/ CompleteEdit(r, {}) \/ CompleteRemove(r, {})
    /\ UNCHANGED <<mailOn, incidents>>
    /\ Commit(Manager, Docs, TRUE)

\* The seat trigger stamps what it writes, except the request whose grant it
\* did not find: that one keeps the manager's lastActor.
ByRemoveTrigger(r) ==
    /\ SeatTrigger(r)
    /\ UNCHANGED <<mailOn, incidents>>
    /\ Commit(RemoveTrigger, Docs \ {Doc("requests", r)}, TRUE)

Incident ==
    /\ incidents < MaxIncidents
    /\ incidents' = incidents + 1

\* The roster's edit of an organisation, or the same edit in the Firestore
\* Console, which stamps nothing.
EditsOrganization(m, org, inBand) ==
    /\ Incident
    /\ SetOrganization(m, org)
    /\ UNCHANGED mailOn
    /\ Commit(IF inBand THEN Manager ELSE OutOfBand, IF inBand THEN Docs ELSE {}, inBand)

\* The stake's mail switch (notifications_enabled).
SwitchesMail ==
    /\ Incident
    /\ mailOn' = ~mailOn
    /\ UNCHANGED vars
    /\ Commit(Manager, Docs, TRUE)

-----------------------------------------------------------------------------
(* The audit rows.                                                         *)

\* (mutation) last_modified_at is not compared.
IsOutOfBandUpdateByActor(e) == e.actorBefore = e.actorAfter

\* An update that touched neither lastActor nor last_modified_at.
IsOutOfBandUpdate(e) == e.actorBefore = e.actorAfter /\ ~e.restamped

\* A creation and an update name the new lastActor, a deletion the old one.
ResolveActor(e) ==
    IF ~Absent(e.before) /\ ~Absent(e.after) /\ IsOutOfBandUpdate(e) THEN OutOfBand
    ELSE IF Absent(e.after) THEN e.actorBefore ELSE e.actorAfter

ResolveRequestAction(e) ==
    IF Absent(e.before) THEN "create_request"
    ELSE CASE e.after.status = "complete"  -> "complete_request"
           [] e.after.status = "rejected"  -> "reject_request"
           [] e.after.status = "cancelled" -> "cancel_request"
           [] OTHER                        -> "submit_request"

ResolveAction(e) ==
    CASE e.doc.coll = "stake"    -> "update_stake"
      [] e.doc.coll = "requests" -> ResolveRequestAction(e)
      [] e.doc.coll = "seats"    -> IF Absent(e.before) THEN "create_seat"
                                    ELSE IF Absent(e.after) THEN "delete_seat" ELSE "update_seat"
      [] e.doc.coll = "access"   -> "update_access"

\* The time of the write, not of the delivery, and the document's full name.
AuditId(e) == <<e.at, e.doc.coll, e.doc.id>>

Row(e) == [id |-> AuditId(e), at |-> e.at, doc |-> e.doc, before |-> e.before, after |-> e.after,
           action |-> ResolveAction(e), actor |-> ResolveActor(e), by |-> e.by]

\* An event is acknowledged, or stays to be delivered again.
Acknowledged(queue, e, again) == IF again THEN queue ELSE queue \ {e}
IncidentIf(again) == IF again THEN Incident ELSE UNCHANGED incidents

\* One delivery writes the row (set, so that a row of the same id is replaced).
EmitAuditRow(e, again) ==
    /\ e \in auditing
    /\ IncidentIf(again)
    /\ rows' = {row \in rows : row.id # AuditId(e)} \cup {Row(e)}
    /\ auditing' = Acknowledged(auditing, e, again)
    /\ UNCHANGED <<vars, clock, lastActor, mailOn, mailing, mails, dropped, repeated>>

\* What an event or a row says of its write.
Write(x) == [at |-> x.at, doc |-> x.doc, before |-> x.before, after |-> x.after]

\* A row Firestore refuses, as it would at every delivery, is dropped and only
\* logged: the trail misses it.
RefuseRow(e) ==
    /\ Incident
    /\ e \in auditing
    /\ \A row \in rows : row.id # AuditId(e)
    /\ auditing' = auditing \ {e}
    /\ dropped' = dropped \cup {Write(e)}
    /\ UNCHANGED <<vars, clock, lastActor, mailOn, mailing, rows, mails, repeated>>

-----------------------------------------------------------------------------
(* The mails.                                                              *)

\* Is the stake's mail switched on?  The request trigger reads the stake when
\* it runs; the over-cap trigger asks the document of its event.
EmailsEnabled(e) == IF e.doc = StakeDoc THEN e.after.mailOn ELSE mailOn

\* The requester is told of a decision, the active managers of all else.
Audience(kind) == IF kind \in {"completed", "rejected"} THEN "requester" ELSE "managers"

\* The mails of one event: no key tells a second delivery that there is one.
MailsOf(e) == {mail \in mails : mail.at = e.at /\ mail.about = e.doc}

Recorded(e, result) ==
    mails' = mails \cup {[at |-> e.at, about |-> e.doc, kind |-> MailKind(e), to |-> Audience(MailKind(e)),
                         result |-> result, copy |-> Cardinality(MailsOf(e))]}

Handled(e, again) ==
    /\ e \in mailing
    /\ mailing' = Acknowledged(mailing, e, again)
    /\ repeated' = IF again THEN repeated \cup {[at |-> e.at, doc |-> e.doc]} ELSE repeated
    /\ UNCHANGED <<vars, clock, lastActor, mailOn, auditing, rows, dropped>>

\* The mail goes out, or is held back; the event may come again, and sends again.
SendOne(e, again) ==
    /\ IncidentIf(again)
    /\ Handled(e, again)
    /\ Recorded(e, IF EmailsEnabled(e) THEN "sent" ELSE "suppressed")

\* The provider refuses the mail, which is written to the audit log and not
\* tried again; or the handler fails, and is not run again.
MailFails(e, result) ==
    /\ Incident
    /\ Handled(e, FALSE)
    /\ result = "failed" => EmailsEnabled(e)
    /\ Recorded(e, result)

-----------------------------------------------------------------------------
NoticesInit ==
    /\ Init
    /\ clock = 0
    /\ lastActor = [d \in Docs |-> Nobody]
    /\ mailOn = TRUE
    /\ auditing = {} /\ mailing = {} /\ rows = {} /\ mails = {}
    /\ dropped = {} /\ repeated = {}
    /\ incidents = 0

NoticesNext ==
    \/ \E r \in ReqIds : ByClerk(r) \/ ByManager(r) \/ ByRemoveTrigger(r)
    \/ \E m \in Members, org \in Orgs \cup {NoOrg}, inBand \in BOOLEAN : EditsOrganization(m, org, inBand)
    \/ SwitchesMail
    \/ \E e \in auditing : (\E again \in BOOLEAN : EmitAuditRow(e, again)) \/ RefuseRow(e)
    \/ \E e \in mailing :
          \/ \E again \in BOOLEAN : SendOne(e, again)
          \/ \E result \in {"failed", "lost"} : MailFails(e, result)

NoticesSpec == NoticesInit /\ [][NoticesNext]_allVars

-----------------------------------------------------------------------------
(* Properties.                                                             *)

\* Every write there was: its row is written, still to be written, or dropped.
Writes == {Write(x) : x \in rows \cup auditing \cup dropped}
WritesOf(d) == {w \in Writes : w.doc = d}

AuditRowsOf(d) == {row \in rows : row.doc = d}
DroppedOf(d) == {w \in dropped : w.doc = d}

\* Once its events are acknowledged, a document's rows lead from each of its
\* values to the next, up to the one it has - but where a row was dropped: no
\* other write is missing, and a row delivered twice is one row
\* (auditTrigger.ts, "every retry overwrites the same row").
TrailComplete ==
    \A d \in Docs : (\A e \in auditing : e.doc # d) =>
        LET trail == AuditRowsOf(d)
            next(row) == {later \in trail : later.at > row.at
                             /\ \A other \in trail : other.at > row.at => other.at >= later.at} IN
        /\ trail = {} => lastActor[d] = Nobody \/ DroppedOf(d) # {}
        /\ \A row \in trail :
              IF next(row) = {}
              THEN row.after = Image(d) \/ \E w \in DroppedOf(d) : row.at < w.at
              ELSE \A later \in next(row) :
                      row.after = later.before \/ \E w \in DroppedOf(d) : row.at < w.at /\ w.at < later.at
        /\ \A row, other \in trail : row.at = other.at => row.id = other.id

\* A row names who made the write, and a write of the Console no one: two
\* writes of one manager in a row are not taken for the Console's
\* (auditTrigger.ts, resolveActor).  Left out are deletions and the request
\* writes of the one who wrote last, whose rows do not say.
RowsNameTheWriter ==
    \A row \in rows :
        /\ row.action \notin {"delete_seat", "cancel_request"}
        /\ row.doc.coll = "requests" => Absent(row.before) \/ row.before.status = "pending"
        => row.actor = row.by

\* The trail can be read back: it is complete but for the rows dropped and
\* logged, and says who wrote what.
TrailTrue == TrailComplete /\ RowsNameTheWriter

\* Two mails of one event, which a trigger was handed again: it sends again.
Again(mail, other) ==
    /\ mail.at = other.at /\ mail.about = other.about
    /\ [at |-> mail.at, doc |-> mail.about] \in repeated

\* Managers are told once each time the pools tip over their caps
\* (notifyOnOverCap.ts) - and once more for each time the event is delivered
\* again, nothing else: between the notices of two events the pools were all
\* within their caps, and when one is over and no handler outstanding, a notice
\* went out - or was held back or failed - since they last were.
OncePerTip ==
    LET notices == {mail \in mails : mail.kind = "overCap"}
        within(w) == w.after.pools = {} IN
    /\ \A n, later \in notices : n # later /\ n.at <= later.at =>
          \/ Again(n, later)
          \/ \E w \in WritesOf(StakeDoc) : within(w) /\ n.at < w.at /\ w.at < later.at
    /\ overCaps # {} /\ (\A e \in mailing : e.doc # StakeDoc) =>
          \A w \in WritesOf(StakeDoc) : w.before.pools = {} =>
             \E n \in notices : n.at >= w.at

Outcome(kind) ==
    CASE kind = "completed" -> "complete" [] kind = "rejected" -> "rejected" [] kind = "cancelled" -> "cancelled"

\* Of every request one outcome at most is announced, the one it has, and that
\* once, unless its event is delivered again; and one is announced, held back
\* or lost when its events are handled - whatever the seat trigger writes to the
\* request afterwards (notifyOnRequestWrite.ts).
OutcomeAnnounced ==
    \A r \in ReqIds :
        LET outcomes == {mail \in mails : mail.about = Doc("requests", r) /\ mail.kind # "newRequest"} IN
        /\ \A mail \in outcomes : HasStatus(r, Outcome(mail.kind))
        /\ \A mail, other \in outcomes : mail # other => Again(mail, other)
        /\ Exists(r) /\ requests[r].status # "pending" /\ (\A e \in mailing : e.doc # Doc("requests", r))
              => outcomes # {}

=============================================================================
