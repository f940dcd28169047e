------------------------------ MODULE ClaimSync ------------------------------
(***************************************************************************)
(* The custom claims of one user.  Role documents of several stakes, the   *)
(* superadmin list and the stake documents each have a trigger that reads  *)
(* the user's one claim block, merges its part and writes the whole block  *)
(* back without a lock; the first sign-in seeds the block from everything. *)
(* Every await of a trigger is a step, so triggers interleave anywhere.    *)
(***************************************************************************)
EXTENDS Integers, FiniteSets

CONSTANTS
    Stakes,         \* stake ids
    WardCodes,      \* ward codes
    FirstStakes,    \* the stakes that exist at the start
    AccessDocs,     \* access documents: sets of grants [scope, limited]
    MaxWrites,      \* bound: document writes
    MaxAccounts,    \* bound: times the user signs up
    MaxFaults       \* bound: failed calls and second deliveries

Grant == [scope : {"stake"} \cup WardCodes, limited : BOOLEAN]

ASSUME ClaimSyncAssumption ==
    /\ FirstStakes \subseteq Stakes /\ "super" \notin Stakes     \* the tag of the superadmin list
    /\ AccessDocs \subseteq SUBSET Grant
    /\ {} \in AccessDocs
    /\ MaxWrites \in Nat /\ MaxAccounts \in Nat /\ MaxFaults \in Nat

VARIABLES
    manager,    \* stakes/{sid}/kindooManagers/{user}, active
    access,     \* stakes/{sid}/access/{user}
    stakeDocs,  \* stakes/{sid}, as far as bootstrap goes
    superDoc,   \* platformSuperadmins/{user} exists
    uid,        \* the latest account of the user, 0 before the first
    alive,      \* that account has not been deleted
    index,      \* userIndex/{user}.uid, 0 when absent
    claims,     \* custom claims of the account
    revoked,    \* refresh tokens were revoked since the claims were last set
    cache,      \* the stake list of the instance that seeds
    events,     \* document writes whose trigger has not run
    runs,       \* trigger runs in progress
    newest,     \* the newest stake or superadmin event that was delivered, per document
    writes, faults,
    disturbed   \* history: runs overlapped or ran out of order, or a call failed

roleDocs    == <<manager, access, stakeDocs, superDoc>>
account == <<uid, alive, index>>
bounds  == <<writes, faults>>
claimVars == <<roleDocs, account, claims, revoked, cache, events, runs, newest, bounds, disturbed>>

NoStake  == [exists |-> FALSE]
StakeDoc == [exists : {TRUE}, designated : BOOLEAN, setup_complete : BOOLEAN]
Created(admin) == [exists |-> TRUE, designated |-> admin, setup_complete |-> FALSE]

Block == [manager : BOOLEAN, stake : BOOLEAN, wards : SUBSET WardCodes, limited : BOOLEAN, bootstrap : BOOLEAN]
Empty == [manager |-> FALSE, stake |-> FALSE, wards |-> {}, limited |-> FALSE, bootstrap |-> FALSE]

NoClaims == [set |-> FALSE, stakes |-> [s \in Stakes |-> Empty], superadmin |-> FALSE]

Cold == {"cold"}    \* no list cached yet

Existing == {s \in Stakes : stakeDocs[s].exists}

\* A stake document makes its designated admin's marker while setup lasts.
Eligible(s) == stakeDocs[s].exists /\ stakeDocs[s].designated /\ ~stakeDocs[s].setup_complete

\* What a stake's role documents say: one full grant anywhere is full access,
\* and a manager is never limited.
ComputeStakeClaims(s) ==
    [manager   |-> manager[s],
     stake     |-> \E g \in access[s] : g.scope = "stake",
     wards     |-> {g.scope : g \in {h \in access[s] : h.scope # "stake"}},
     limited   |-> access[s] # {} /\ (\A g \in access[s] : g.limited) /\ ~manager[s],
     bootstrap |-> FALSE]

\* What the claims should be, were they computed from all documents at once.
Derived ==
    [set |-> TRUE,
     stakes |-> [s \in Stakes |-> [ComputeStakeClaims(s) EXCEPT !.bootstrap = Eligible(s)]],
     superadmin |-> superDoc]

ClaimsInit ==
    /\ manager = [s \in Stakes |-> FALSE]
    /\ access = [s \in Stakes |-> {}]
    /\ \E admin \in [Stakes -> BOOLEAN] :
          stakeDocs = [s \in Stakes |-> IF s \in FirstStakes THEN Created(admin[s]) ELSE NoStake]
    /\ superDoc = FALSE
    /\ uid = 0 /\ alive = FALSE /\ index = 0
    /\ claims = NoClaims /\ revoked = TRUE
    /\ cache = Cold
    /\ events = {} /\ runs = {}
    /\ newest = [d \in Stakes \cup {"super"} |-> 0]
    /\ writes = 0 /\ faults = 0
    /\ disturbed = FALSE

-----------------------------------------------------------------------------
(* Document writes, each with its event.                                   *)

\* An event of a role document carries nothing; one of a stake or of the
\* superadmin list carries the flag it asks for.
Event(kind, doc, flag) == [kind |-> kind, doc |-> doc, flag |-> flag, n |-> writes + 1]

Write(emitted) ==
    /\ writes < MaxWrites
    /\ writes' = writes + 1
    /\ events' = events \cup emitted
    /\ UNCHANGED <<account, claims, revoked, cache, runs, newest, faults, disturbed>>

WriteManager(s) ==
    /\ stakeDocs[s].exists
    /\ manager' = [manager EXCEPT ![s] = ~@]
    /\ Write({Event("role", s, FALSE)})
    /\ UNCHANGED <<access, stakeDocs, superDoc>>

\* The same grants again are a touch of the document.
WriteAccess(s, grants) ==
    /\ stakeDocs[s].exists
    /\ access' = [access EXCEPT ![s] = grants]
    /\ Write({Event("role", s, FALSE)})
    /\ UNCHANGED <<manager, stakeDocs, superDoc>>

\* Created, touched, set up once, or pointed at another admin.  The trigger concerns
\* who is designated and who no longer is.
WriteStake(s, doc) ==
    LET before == stakeDocs[s].exists /\ stakeDocs[s].designated IN
    /\ doc.setup_complete => stakeDocs[s].exists
    /\ ~doc.setup_complete => stakeDocs[s] \notin [exists : {TRUE}, designated : BOOLEAN, setup_complete : {TRUE}]
    /\ stakeDocs' = [stakeDocs EXCEPT ![s] = doc]
    /\ Write(IF before \/ doc.designated
             THEN {Event("stake", s, doc.designated /\ ~doc.setup_complete)} ELSE {})
    /\ UNCHANGED <<manager, access, superDoc>>

WriteSuperadmin ==
    /\ superDoc' = ~superDoc
    /\ Write({Event("super", "super", ~superDoc)})
    /\ UNCHANGED <<manager, access, stakeDocs>>

-----------------------------------------------------------------------------
(* The account.                                                            *)

NewRun(kind, doc, flag, n, step, who) ==
    [kind |-> kind, doc |-> doc, flag |-> flag, n |-> n, step |-> step, uid |-> who,
     part |-> Empty, loaded |-> NoClaims]

\* First sign-in; the account starts without claims and its trigger runs.
SignUp ==
    /\ ~alive /\ uid < MaxAccounts
    /\ uid' = uid + 1 /\ alive' = TRUE
    /\ claims' = NoClaims /\ revoked' = TRUE
    /\ runs' = runs \cup {NewRun("seed", "user", FALSE, 0, "index", uid + 1)}
    /\ UNCHANGED <<roleDocs, index, cache, events, newest, bounds, disturbed>>

DeleteAccount ==
    /\ alive
    /\ alive' = FALSE
    /\ claims' = NoClaims /\ revoked' = TRUE
    /\ UNCHANGED <<roleDocs, uid, index, cache, events, runs, newest, bounds, disturbed>>

\* Another user's first sign-in warms the instance's stake list.
WarmUp ==
    /\ cache = Cold
    /\ cache' = Existing
    /\ UNCHANGED <<roleDocs, account, claims, revoked, events, runs, newest, bounds, disturbed>>

-----------------------------------------------------------------------------
(* Trigger runs.                                                           *)

\* Runs that have read something they will write from, and have not written.
Open == {r \in runs : r.step = "set" \/ (r.step = "load" /\ r.kind \in {"role", "seed"})}

Becomes(r, next) == runs' = (runs \ {r}) \cup {next}
Ends(r) == runs' = runs \ {r}

\* An event, or a run for it, that a newer one of its document has overtaken.
Late(e) == e.kind \in {"stake", "super"} /\ e.n < newest[e.doc]

\* An event starts its trigger: role and superadmin triggers look the uid up in
\* the index, the stake trigger asks Auth by email.
Deliver(e, again) ==
    LET found == IF e.kind = "stake" THEN (IF alive THEN uid ELSE 0) ELSE index IN
    /\ events' = IF again THEN events ELSE events \ {e}
    /\ faults' = IF again THEN faults + 1 ELSE faults
    /\ faults' <= MaxFaults
    /\ newest' = IF e.kind = "role" \/ Late(e) THEN newest ELSE [newest EXCEPT ![e.doc] = e.n]
    /\ disturbed' = (disturbed \/ Late(e))
    /\ runs' = IF found = 0 THEN runs
               ELSE runs \cup {NewRun(e.kind, e.doc, e.flag, e.n,
                                      IF e.kind = "role" THEN "compute" ELSE "load", found)}
    /\ UNCHANGED <<roleDocs, account, claims, revoked, cache, writes>>

\* The stakes a seed looks at: those its instance knows, and those that
\* designate the user now.
SeedStakes == (IF cache = Cold THEN Existing ELSE cache) \cup {s \in Stakes : Eligible(s)}

SeedClaims == [Derived EXCEPT !.stakes = [s \in Stakes |-> IF s \in SeedStakes THEN @[s] ELSE Empty]]

\* (mutation) the seed reads the role data before it writes the index.
WriteIndexLate(r) ==
    /\ r.kind = "seed" /\ r.step = "index"
    /\ index' = IF r.part = Empty THEN index ELSE r.uid
    /\ Becomes(r, IF r.part = Empty THEN [r EXCEPT !.part = SeedClaims] ELSE [r EXCEPT !.step = "load"])
    /\ UNCHANGED <<roleDocs, uid, alive, claims, revoked, cache, events, newest, bounds, disturbed>>

WriteIndex(r) ==
    /\ r.kind = "seed" /\ r.step = "index"
    /\ index' = r.uid
    /\ Becomes(r, [r EXCEPT !.step = "compute"])
    /\ disturbed' = (disturbed \/ r.uid < index)
    /\ UNCHANGED <<roleDocs, uid, alive, claims, revoked, cache, events, newest, bounds>>

\* What a run will write is read: a stake's role documents, or everything.
Compute(r) ==
    /\ r.step = "compute"
    /\ Becomes(r, [r EXCEPT !.step = "load",
                            !.part = IF r.kind = "role" THEN ComputeStakeClaims(r.doc) ELSE SeedClaims])
    /\ cache' = IF r.kind = "seed" /\ cache = Cold THEN Existing ELSE cache
    /\ disturbed' = (disturbed \/ Open # {} \/ (r.kind = "seed" /\ Existing \ SeedStakes # {}))
    /\ UNCHANGED <<roleDocs, account, claims, revoked, events, newest, bounds>>

\* The account's claims are read; a deleted account ends the run.
LoadExistingClaims(r) ==
    /\ r.step = "load"
    /\ IF alive /\ r.uid = uid THEN Becomes(r, [r EXCEPT !.step = "set", !.loaded = claims]) ELSE Ends(r)
    /\ disturbed' = (disturbed \/ Late(r) \/ Open \ {r} # {})
    /\ UNCHANGED <<roleDocs, account, claims, revoked, cache, events, newest, bounds>>

\* (mutation) the stake's block is rebuilt from role data alone.
MergeStakeFromScratch(old, s, part) == [old EXCEPT !.set = TRUE, !.stakes[s] = part]

\* A stake's roles are replaced; the marker of its bootstrap admin stays.
MergeStake(old, s, part) ==
    [old EXCEPT !.set = TRUE, !.stakes[s] = [part EXCEPT !.bootstrap = old.stakes[s].bootstrap]]

MergeBootstrap(old, s, flag) == [old EXCEPT !.set = TRUE, !.stakes[s].bootstrap = flag]

MergeSuperadmin(old, flag) == [old EXCEPT !.set = TRUE, !.superadmin = flag]

Merged(r) ==
    CASE r.kind = "role"  -> MergeStake(r.loaded, r.doc, r.part)
      [] r.kind = "stake" -> MergeBootstrap(r.loaded, r.doc, r.flag)
      [] r.kind = "super" -> MergeSuperadmin(r.loaded, r.flag)
      [] r.kind = "seed"  -> r.part

Reaches(r) == alive /\ r.uid = uid

\* The block is written unless it is what was read, and then the tokens revoked.
WriteClaims(r) ==
    /\ r.step = "set"
    /\ IF Reaches(r) /\ Merged(r) # r.loaded
       THEN claims' = Merged(r) /\ revoked' = FALSE /\ Becomes(r, [r EXCEPT !.step = "revoke"])
       ELSE UNCHANGED <<claims, revoked>> /\ Ends(r)
    /\ UNCHANGED <<roleDocs, account, cache, events, newest, bounds, disturbed>>

RevokeRefreshTokens(r) ==
    /\ r.step = "revoke"
    /\ Ends(r)
    /\ revoked' = (revoked \/ Reaches(r))
    /\ UNCHANGED <<roleDocs, account, claims, cache, events, newest, bounds, disturbed>>

\* A call throws: the run is over, and no retry is configured.
RunFails(r) ==
    /\ faults < MaxFaults
    /\ faults' = faults + 1
    /\ disturbed' = TRUE
    /\ Ends(r)
    /\ UNCHANGED <<roleDocs, account, claims, revoked, cache, events, newest, writes>>

-----------------------------------------------------------------------------
Writes ==
    \/ \E s \in Stakes : \/ WriteManager(s)
                         \/ \E grants \in AccessDocs : WriteAccess(s, grants)
                         \/ \E doc \in StakeDoc : WriteStake(s, doc)
    \/ WriteSuperadmin

RunNext(r) ==
    WriteIndex(r) \/ Compute(r) \/ LoadExistingClaims(r) \/ WriteClaims(r) \/ RevokeRefreshTokens(r) \/ RunFails(r)

ClaimsNext ==
    \/ Writes \/ SignUp \/ DeleteAccount \/ WarmUp
    \/ \E e \in events, again \in BOOLEAN : Deliver(e, again)
    \/ \E r \in runs : RunNext(r)

ClaimsSpec == ClaimsInit /\ [][ClaimsNext]_claimVars

-----------------------------------------------------------------------------
(* Properties.                                                             *)

TypeOK ==
    /\ manager \in [Stakes -> BOOLEAN] /\ access \in [Stakes -> AccessDocs]
    /\ stakeDocs \in [Stakes -> StakeDoc \cup {NoStake}] /\ superDoc \in BOOLEAN
    /\ uid \in 0..MaxAccounts /\ alive \in BOOLEAN /\ index \in 0..uid
    /\ claims \in [set : BOOLEAN, stakes : [Stakes -> Block], superadmin : BOOLEAN]
    /\ ~claims.set => claims = NoClaims
    /\ \A s \in Stakes : claims.stakes[s].limited => ~claims.stakes[s].manager

Quiet == events = {} /\ runs = {}

\* Runs that did not overlap leave the claims the documents call for, whatever
\* the order and number of the deliveries, also when documents were written
\* before, during and after the first sign-in (seedClaims.ts, "always derivable
\* from role data").
Converged == Quiet /\ alive /\ ~disturbed => claims = Derived

\* No claim change goes without a revocation after it, even when runs overlap,
\* unless a call failed (applyClaims.ts, writeClaims).
TokensRevoked == Quiet /\ alive /\ faults = 0 => revoked

\* Where the triggers leave a user: the claims the documents call for, and no
\* token that predates them (and the variables keep their types).
Current == TypeOK /\ Converged /\ TokensRevoked

\* The claims of which a document is the source, as far as they are wrong.
Wrong(c) ==
    {<<"role", s>> : s \in {t \in Stakes : [c.stakes[t] EXCEPT !.bootstrap = FALSE] # ComputeStakeClaims(t)}}
    \cup {<<"stake", s>> : s \in {t \in Stakes : c.stakes[t].bootstrap # Eligible(t)}}
    \cup {<<"super", "super">> : x \in {y \in {c.superadmin} : y # superDoc}}

UpToDate(r) ==
    CASE r.kind = "role"  -> r.part = ComputeStakeClaims(r.doc)
      [] r.kind = "stake" -> r.flag = Eligible(r.doc)
      [] r.kind = "super" -> r.flag = superDoc
      [] r.kind = "seed"  -> r.part = Derived

\* Whatever earlier overlaps and failures left wrong, a run that nobody overtakes
\* puts its own part right and spoils no other owner's part: "the very next write
\* to the doc ... fixes a stuck marker" (syncBootstrapClaims.ts).
RunHeals ==
    [][\A r \in runs : WriteClaims(r) /\ Reaches(r) /\ r.loaded = claims /\ UpToDate(r) =>
          Wrong(claims') \subseteq (IF r.kind = "seed" THEN {} ELSE Wrong(claims) \ {<<r.kind, r.doc>>})]_claimVars

=============================================================================
