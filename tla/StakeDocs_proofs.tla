-------------------------- MODULE StakeDocs_proofs --------------------------
(***************************************************************************)
(* What the documents of a stake come to, for any number of stakes, wards, *)
(* accounts, trigger runs and writes: the claims its role documents give a *)
(* user (ClaimSync), and the references of its configuration (StakeConfig).*)
(***************************************************************************)
EXTENDS ClaimSync, StakeConfig, TLAPS

-----------------------------------------------------------------------------
(* Claims: the invariant.                                                  *)

Roles == {b \in Block : b.limited => ~b.manager}
ClaimBlock == [set : BOOLEAN, stakes : [Stakes -> Roles], superadmin : BOOLEAN]
Docs == Stakes \cup {"super"}

EventType == [kind : {"role", "stake", "super"}, doc : Docs, flag : BOOLEAN, n : Nat]

RunType ==
    [kind : {"role", "stake", "super", "seed"}, doc : Docs \cup {"user"}, flag : BOOLEAN, n : Nat,
     step : {"index", "compute", "load", "set", "revoke"}, uid : Nat \ {0},
     part : Roles \cup ClaimBlock, loaded : ClaimBlock]

\* An event or a run of a stake document or of the superadmin list.
Flagged(x) == x.kind \in {"stake", "super"}

DocOfKind(x) ==
    /\ x.kind \in {"role", "stake"} => x.doc \in Stakes
    /\ x.kind = "super" => x.doc = "super"

\* What a run has read when it is about to write.
PartOfKind(r) ==
    /\ r.kind = "role" => r.step # "index" /\ r.part \in Roles /\ ~r.part.bootstrap
    /\ r.kind = "seed" /\ r.step \in {"load", "set"} => r.part \in ClaimBlock /\ r.part.set
    /\ Flagged(r) => r.step \notin {"index", "compute"} /\ r.n <= newest[r.doc]

ClaimTypes ==
    /\ manager \in [Stakes -> BOOLEAN] /\ access \in [Stakes -> AccessDocs]
    /\ stakeDocs \in [Stakes -> StakeDoc \cup {NoStake}] /\ superDoc \in BOOLEAN
    /\ uid \in 0..MaxAccounts /\ alive \in BOOLEAN /\ index \in 0..uid /\ (alive => uid # 0)
    /\ claims \in ClaimBlock /\ (~claims.set => claims = NoClaims)
    /\ newest \in [Docs -> 0..writes] /\ writes \in Nat /\ faults \in Nat
    /\ disturbed \in BOOLEAN /\ revoked \in BOOLEAN
    /\ events \subseteq EventType /\ \A e \in events : DocOfKind(e) /\ e.n <= writes
    /\ runs \subseteq RunType /\ \A r \in runs : DocOfKind(r) /\ PartOfKind(r) /\ r.uid <= uid
    /\ \A s \in Stakes : ~stakeDocs[s].exists => ~manager[s] /\ access[s] = {}
    /\ cache \in (SUBSET Stakes) \cup {Cold}

Mine(r) == r.uid = uid

\* A seed that will read everything.
Seeding == \E r \in runs : r.kind = "seed" /\ Mine(r) /\ r.step \in {"index", "compute"}

\* Runs that will write what they have read, to the account there is.
Held == {r \in Open : Mine(r)}

\* One run at a time is between its reading and its writing.
Serial ==
    /\ \A r, q \in Open : r = q
    /\ \A r \in Held : r.step = "set" /\ alive => r.loaded = claims

\* The index leads to the account, or its seed has yet to see to that.
Indexed == index = uid \/ \E r \in runs : r.kind = "seed" /\ Mine(r) /\ r.step = "index"

ClaimsSet == claims.set \/ \E r \in runs : r.kind = "seed" /\ Mine(r) /\ r.step # "revoke"

\* The roles a stake has in a block of claims.
RolesIn(b) == [b EXCEPT !.bootstrap = FALSE]

\* Somebody has yet to read the role documents of s.
RoleComing(s) ==
    \/ Seeding
    \/ \E e \in events : e.kind = "role" /\ e.doc = s
    \/ \E r \in runs : r.kind = "role" /\ r.doc = s /\ Mine(r) /\ r.step = "compute"

WritesRoles(r, s) == r.kind = "seed" \/ (r.kind = "role" /\ r.doc = s)
RolesOf(r, s) == IF r.kind = "seed" THEN RolesIn(r.part.stakes[s]) ELSE r.part

RolesSound(s) ==
    \/ RoleComing(s)
    \/ /\ \A r \in Held : WritesRoles(r, s) => RolesOf(r, s) = ComputeStakeClaims(s)
       /\ RolesIn(claims.stakes[s]) = ComputeStakeClaims(s) \/ \E r \in Held : WritesRoles(r, s)

\* The flag a stake document or the superadmin list asks for, and the one in force.
Asked(d) == IF d = "super" THEN superDoc ELSE Eligible(d)
FlagIn(c, d) == IF d = "super" THEN c.superadmin ELSE c.stakes[d].bootstrap

\* A run of d that a newer event supersedes, or that comes late.
Awaited(d, n) == \E e \in events : Flagged(e) /\ e.doc = d /\ e.n > n /\ e.n > newest[d] /\ e.flag = Asked(d)
InOrder(x) == x.flag = Asked(x.doc) \/ x.n < newest[x.doc] \/ Awaited(x.doc, x.n)

FlagComing(d) ==
    \/ Seeding
    \/ Awaited(d, 0)
    \/ \E r \in runs : Flagged(r) /\ r.doc = d /\ Mine(r) /\ r.step = "load" /\ r.n = newest[d] /\ r.flag = Asked(d)

WritesFlag(r, d) == r.kind = "seed" \/ (Flagged(r) /\ r.doc = d)
FlagBy(r, d) == IF r.kind = "seed" THEN FlagIn(r.part, d) ELSE r.flag

FlagSound(d) ==
    \/ FlagComing(d)
    \/ /\ \A r \in Held : WritesFlag(r, d) => FlagBy(r, d) = Asked(d)
       /\ FlagIn(claims, d) = Asked(d) \/ \E r \in Held : WritesFlag(r, d)

\* Events and runs of a document that have not been overtaken carry its flag.
Ordered ==
    /\ \A e \in events : Flagged(e) => InOrder(e)
    /\ \A r \in runs : Flagged(r) /\ r.step = "load" => InOrder(r)

\* What holds of an account while nothing has disturbed its runs.
OnCourse ==
    /\ Serial
    /\ Ordered
    /\ alive => /\ Indexed
                /\ ClaimsSet
                /\ \A s \in Stakes : RolesSound(s)
                /\ \A d \in Docs : FlagSound(d)

Undisturbed == ~disturbed => OnCourse

\* Claims that changed without a revocation have a run that will revoke.
Revoking == alive /\ faults = 0 /\ ~revoked => \E r \in runs : Mine(r) /\ r.step = "revoke"

ClaimsInv == ClaimTypes /\ Undisturbed /\ Revoking
-----------------------------------------------------------------------------
(* Claims: blocks and their parts.                                         *)

LEMMA Blocks ==
    /\ Empty \in Roles /\ NoClaims \in ClaimBlock /\ ~NoClaims.set
    /\ \A b \in Roles, f \in BOOLEAN : [b EXCEPT !.bootstrap = f] \in Roles
<1>1. Empty \in Roles BY DEF Empty, Roles, Block
<1>2. NoClaims \in ClaimBlock /\ ~NoClaims.set BY <1>1 DEF NoClaims, ClaimBlock
<1>3. ASSUME NEW b \in Roles, NEW f \in BOOLEAN PROVE [b EXCEPT !.bootstrap = f] \in Roles
  BY DEF Roles, Block
<1> QED BY <1>1, <1>2, <1>3

\* Fields of a block that was changed in its bootstrap marker.
LEMMA Marked ==
    ASSUME NEW b \in Roles, NEW f \in BOOLEAN
    PROVE  /\ [b EXCEPT !.bootstrap = f].bootstrap = f
           /\ RolesIn([b EXCEPT !.bootstrap = f]) = RolesIn(b)
           /\ ~b.bootstrap => RolesIn(b) = b
           /\ RolesIn(b) \in Roles
  BY DEF RolesIn, Roles, Block

LEMMA RoleTypes ==
    ASSUME ClaimTypes, NEW s \in Stakes
    PROVE  ComputeStakeClaims(s) \in Roles /\ ~ComputeStakeClaims(s).bootstrap /\ Eligible(s) \in BOOLEAN
<1>1. manager[s] \in BOOLEAN /\ access[s] \in SUBSET Grant BY ClaimSyncAssumption DEF ClaimTypes
<1> DEFINE codes == {g.scope : g \in {h \in access[s] : h.scope # "stake"}}
           stake == \E g \in access[s] : g.scope = "stake"
           limited == access[s] # {} /\ (\A g \in access[s] : g.limited) /\ ~manager[s]
<1>2. codes \in SUBSET WardCodes BY <1>1 DEF Grant
<1>3. stake \in BOOLEAN /\ limited \in BOOLEAN /\ (limited => ~manager[s]) OBVIOUS
<1>4. ComputeStakeClaims(s) =
        [manager |-> manager[s], stake |-> stake, wards |-> codes, limited |-> limited, bootstrap |-> FALSE]
  BY DEF ComputeStakeClaims
<1> HIDE DEF codes, stake, limited
<1>5. ComputeStakeClaims(s) \in Roles BY <1>1, <1>2, <1>3, <1>4 DEF Roles, Block
<1>6. Eligible(s) \in BOOLEAN
  <2>1. stakeDocs[s] \in StakeDoc \cup {NoStake} BY DEF ClaimTypes
  <2> QED BY <2>1 DEF Eligible, StakeDoc, NoStake
<1> QED BY <1>4, <1>5, <1>6

\* What a seed reads, and that it is right where nothing was left out.
LEMMA SeedReads ==
    ASSUME ClaimTypes
    PROVE  /\ SeedClaims \in ClaimBlock /\ SeedClaims.set
           /\ \A s \in Stakes : Existing \subseteq SeedStakes => RolesIn(SeedClaims.stakes[s]) = ComputeStakeClaims(s)
           /\ \A d \in Docs : Existing \subseteq SeedStakes => FlagIn(SeedClaims, d) = Asked(d)
<1>1. \A s \in Stakes : Derived.stakes[s] = [ComputeStakeClaims(s) EXCEPT !.bootstrap = Eligible(s)] BY DEF Derived
<1>2. Derived.set /\ Derived.superadmin = superDoc BY DEF Derived
<1>3. /\ SeedClaims.set /\ SeedClaims.superadmin = superDoc
      /\ SeedClaims.stakes = [s \in Stakes |-> IF s \in SeedStakes THEN Derived.stakes[s] ELSE Empty]
      /\ SeedClaims = [set |-> TRUE, stakes |-> SeedClaims.stakes, superadmin |-> superDoc]
  <2> DEFINE all == Derived.stakes
             stakes == [s \in Stakes |-> IF s \in SeedStakes THEN all[s] ELSE Empty]
  <2>1. Derived = [set |-> TRUE, stakes |-> all, superadmin |-> superDoc] BY DEF Derived
  <2>2. SeedClaims = [Derived EXCEPT !.stakes = stakes] BY DEF SeedClaims
  <2> HIDE DEF all, stakes
  <2>3. SeedClaims = [set |-> TRUE, stakes |-> stakes, superadmin |-> superDoc] BY <2>1, <2>2
  <2> QED BY <2>3 DEF stakes, all
<1>4. \A s \in Stakes : SeedClaims.stakes[s] = IF s \in SeedStakes THEN [ComputeStakeClaims(s) EXCEPT !.bootstrap = Eligible(s)] ELSE Empty
  BY <1>1, <1>3
<1>5. \A s \in Stakes : SeedClaims.stakes[s] \in Roles BY <1>4, RoleTypes, Blocks
<1>6. SeedClaims \in ClaimBlock
  <2>1. SeedClaims.stakes \in [Stakes -> Roles] BY <1>3, <1>5
  <2>2. superDoc \in BOOLEAN BY DEF ClaimTypes
  <2> QED BY <1>3, <2>1, <2>2 DEF ClaimBlock
<1>7. ASSUME NEW s \in Stakes, Existing \subseteq SeedStakes
      PROVE  RolesIn(SeedClaims.stakes[s]) = ComputeStakeClaims(s) /\ SeedClaims.stakes[s].bootstrap = Eligible(s)
  <2>1. CASE s \in SeedStakes
    <3> DEFINE b == ComputeStakeClaims(s)
               f == Eligible(s)
    <3>1. b \in Roles /\ ~b.bootstrap /\ f \in BOOLEAN BY RoleTypes
    <3>2. SeedClaims.stakes[s] = [b EXCEPT !.bootstrap = f] BY <1>4, <2>1
    <3> HIDE DEF b, f
    <3>3. SeedClaims.stakes[s].bootstrap = f /\ RolesIn(SeedClaims.stakes[s]) = b BY <3>1, <3>2, Marked
    <3> QED BY <3>3 DEF b, f
  <2>2. CASE s \notin SeedStakes
    <3>1. ~stakeDocs[s].exists BY <1>7, <2>2 DEF Existing
    <3>2. ~manager[s] /\ access[s] = {} /\ manager[s] \in BOOLEAN BY <3>1 DEF ClaimTypes
    <3>3. ComputeStakeClaims(s) = Empty BY <3>2 DEF ComputeStakeClaims, Empty
    <3>4. Eligible(s) = FALSE BY <3>1 DEF Eligible
    <3>5. RolesIn(Empty) = Empty /\ Empty.bootstrap = FALSE BY Blocks, Marked DEF Empty
    <3> QED BY <1>4, <2>2, <3>3, <3>4, <3>5
  <2> QED BY <2>1, <2>2
<1>8. ASSUME NEW d \in Docs, Existing \subseteq SeedStakes PROVE FlagIn(SeedClaims, d) = Asked(d)
  BY <1>3, <1>7, <1>8 DEF FlagIn, Asked, Docs
<1> QED BY <1>3, <1>6, <1>7, <1>8

\* A run writes its own part and keeps every other.
LEMMA MergedParts ==
    ASSUME NEW r \in RunType, DocOfKind(r), PartOfKind(r), r.step = "set"
    PROVE  /\ Merged(r) \in ClaimBlock /\ Merged(r).set
           /\ \A s \in Stakes : RolesIn(Merged(r).stakes[s]) =
                                  IF WritesRoles(r, s) THEN RolesOf(r, s) ELSE RolesIn(r.loaded.stakes[s])
           /\ \A d \in Docs : FlagIn(Merged(r), d) = IF WritesFlag(r, d) THEN FlagBy(r, d) ELSE FlagIn(r.loaded, d)
<1>0. /\ r.loaded \in ClaimBlock /\ r.flag \in BOOLEAN /\ r.kind \in {"role", "stake", "super", "seed"}
      /\ r.loaded.stakes \in [Stakes -> Roles] /\ r.loaded.superadmin \in BOOLEAN
      /\ \A s \in Stakes : r.loaded.stakes[s] \in Roles /\ r.loaded.stakes[s].bootstrap \in BOOLEAN
  <2>1. r.loaded \in ClaimBlock /\ r.flag \in BOOLEAN /\ r.kind \in {"role", "stake", "super", "seed"} BY DEF RunType
  <2>2. r.loaded.stakes \in [Stakes -> Roles] /\ r.loaded.superadmin \in BOOLEAN BY <2>1 DEF ClaimBlock
  <2> QED BY <2>1, <2>2 DEF Roles, Block
<1>1. CASE r.kind = "role"
  <2> DEFINE b == [r.part EXCEPT !.bootstrap = r.loaded.stakes[r.doc].bootstrap]
             m == [r.loaded EXCEPT !.set = TRUE, !.stakes[r.doc] = b]
  <2>1. r.doc \in Stakes /\ r.part \in Roles /\ ~r.part.bootstrap BY <1>1 DEF DocOfKind, PartOfKind
  <2>2. b \in Roles /\ b.bootstrap = r.loaded.stakes[r.doc].bootstrap /\ RolesIn(b) = r.part
    BY <1>0, <2>1, Blocks, Marked
  <2>3. Merged(r) = m BY <1>1 DEF Merged, MergeStake
  <2> HIDE DEF b
  <2>4. /\ m \in ClaimBlock /\ m.set /\ m.superadmin = r.loaded.superadmin
        /\ m.stakes = [r.loaded.stakes EXCEPT ![r.doc] = b]
    BY <1>0, <2>1, <2>2 DEF ClaimBlock
  <2> HIDE DEF m
  <2>5. \A s \in Stakes : m.stakes[s] = IF s = r.doc THEN b ELSE r.loaded.stakes[s] BY <1>0, <2>4
  <2> QED BY <1>1, <2>1, <2>2, <2>3, <2>4, <2>5 DEF WritesRoles, RolesOf, WritesFlag, FlagBy, FlagIn, Flagged, Docs
<1>2. CASE r.kind = "stake"
  <2> DEFINE b == [r.loaded.stakes[r.doc] EXCEPT !.bootstrap = r.flag]
             m == [r.loaded EXCEPT !.set = TRUE, !.stakes[r.doc].bootstrap = r.flag]
  <2>1. r.doc \in Stakes BY <1>2 DEF DocOfKind
  <2>2. b \in Roles /\ b.bootstrap = r.flag /\ RolesIn(b) = RolesIn(r.loaded.stakes[r.doc])
    BY <1>0, <2>1, Blocks, Marked
  <2>3. Merged(r) = m BY <1>2 DEF Merged, MergeBootstrap
  <2>4. m = [r.loaded EXCEPT !.set = TRUE, !.stakes[r.doc] = b] BY <1>0, <2>1 DEF ClaimBlock
  <2> HIDE DEF b, m
  <2>5. /\ m \in ClaimBlock /\ m.set /\ m.superadmin = r.loaded.superadmin
        /\ m.stakes = [r.loaded.stakes EXCEPT ![r.doc] = b]
    BY <1>0, <2>1, <2>2, <2>4 DEF ClaimBlock
  <2>6. \A s \in Stakes : m.stakes[s] = IF s = r.doc THEN b ELSE r.loaded.stakes[s] BY <1>0, <2>5
  <2>7. "super" \notin Stakes BY ClaimSyncAssumption
  <2> QED BY <1>2, <2>1, <2>2, <2>3, <2>5, <2>6, <2>7 DEF WritesRoles, RolesOf, WritesFlag, FlagBy, FlagIn, Flagged, Docs
<1>3. CASE r.kind = "super"
  <2> DEFINE m == [r.loaded EXCEPT !.set = TRUE, !.superadmin = r.flag]
  <2>1. r.doc = "super" BY <1>3 DEF DocOfKind
  <2>2. Merged(r) = m BY <1>3 DEF Merged, MergeSuperadmin
  <2>3. m \in ClaimBlock /\ m.set /\ m.superadmin = r.flag /\ m.stakes = r.loaded.stakes BY <1>0 DEF ClaimBlock
  <2> HIDE DEF m
  <2> QED BY <1>3, <2>1, <2>2, <2>3 DEF WritesRoles, RolesOf, WritesFlag, FlagBy, FlagIn, Flagged
<1>4. CASE r.kind = "seed"
  <2>1. Merged(r) = r.part /\ r.part \in ClaimBlock /\ r.part.set BY <1>4 DEF Merged, PartOfKind
  <2> QED BY <1>4, <2>1 DEF WritesRoles, RolesOf, WritesFlag, FlagBy
<1> QED BY <1>0, <1>1, <1>2, <1>3, <1>4
-----------------------------------------------------------------------------
(* Claims: types.                                                          *)

RunFits(r) == r \in RunType /\ DocOfKind(r) /\ PartOfKind(r) /\ r.uid <= uid

\* A run at its next step: also with what it read, or with the claims it loaded.
Stepped(r, x)   == [r EXCEPT !.step = x]
Reading(r, x, p) == [r EXCEPT !.step = x, !.part = p]
Loading(r, x, c) == [r EXCEPT !.step = x, !.loaded = c]

SameRun(v, r) == v.kind = r.kind /\ v.doc = r.doc /\ v.flag = r.flag /\ v.n = r.n /\ v.uid = r.uid

LEMMA RunChanged ==
    ASSUME NEW r \in RunType, NEW x \in {"index", "compute", "load", "set", "revoke"}
    PROVE  /\ LET v == Stepped(r, x) IN
              v \in RunType /\ SameRun(v, r) /\ v.step = x /\ v.part = r.part /\ v.loaded = r.loaded
           /\ \A p \in Roles \cup ClaimBlock : LET v == Reading(r, x, p) IN
              v \in RunType /\ SameRun(v, r) /\ v.step = x /\ v.part = p /\ v.loaded = r.loaded
           /\ \A c \in ClaimBlock : LET v == Loading(r, x, c) IN
              v \in RunType /\ SameRun(v, r) /\ v.step = x /\ v.part = r.part /\ v.loaded = c
<1> DEFINE R(y, q, d) == [kind |-> r.kind, doc |-> r.doc, flag |-> r.flag, n |-> r.n, step |-> y, uid |-> r.uid,
                          part |-> q, loaded |-> d]
<1>1. r = R(r.step, r.part, r.loaded) BY DEF RunType
<1>2. /\ r.kind \in {"role", "stake", "super", "seed"} /\ r.doc \in Docs \cup {"user"} /\ r.flag \in BOOLEAN
      /\ r.n \in Nat /\ r.uid \in Nat \ {0} /\ r.part \in Roles \cup ClaimBlock /\ r.loaded \in ClaimBlock
  BY DEF RunType
<1>3. /\ Stepped(r, x) = R(x, r.part, r.loaded)
      /\ \A p : Reading(r, x, p) = R(x, p, r.loaded)
      /\ \A c : Loading(r, x, c) = R(x, r.part, c)
  <2>1. [r EXCEPT !.step = x] = R(x, r.part, r.loaded) BY DEF RunType
  <2>2. ASSUME NEW p PROVE [r EXCEPT !.step = x, !.part = p] = R(x, p, r.loaded)
    <3>1. [r EXCEPT !.step = x, !.part = p] = [[r EXCEPT !.step = x] EXCEPT !.part = p] BY DEF RunType
    <3>2. [R(x, r.part, r.loaded) EXCEPT !.part = p] = R(x, p, r.loaded) OBVIOUS
    <3> HIDE DEF R
    <3> QED BY <2>1, <3>1, <3>2
  <2>3. ASSUME NEW c PROVE [r EXCEPT !.step = x, !.loaded = c] = R(x, r.part, c)
    <3>1. [r EXCEPT !.step = x, !.loaded = c] = [[r EXCEPT !.step = x] EXCEPT !.loaded = c] BY DEF RunType
    <3>2. [R(x, r.part, r.loaded) EXCEPT !.loaded = c] = R(x, r.part, c) OBVIOUS
    <3> HIDE DEF R
    <3> QED BY <2>1, <3>1, <3>2
  <2> QED BY <2>1, <2>2, <2>3 DEF Stepped, Reading, Loading
<1>4. \A q \in Roles \cup ClaimBlock, d \in ClaimBlock : R(x, q, d) \in RunType BY <1>2 DEF RunType
<1>5. \A q, d : LET v == R(x, q, d) IN
        /\ v.step = x /\ v.part = q /\ v.loaded = d
        /\ SameRun(v, r)
  BY DEF SameRun
<1> HIDE DEF R
<1> QED BY <1>2, <1>3, <1>4, <1>5

\* A run that goes on to its next step, or ends.
LEMMA RunsFit ==
    ASSUME ClaimTypes, NEW r \in runs, NEW v,
           UNCHANGED <<roleDocs, uid, alive, events, newest, writes>>,
           runs' = runs \ {r} \/ (runs' = (runs \ {r}) \cup {v} /\ RunFits(v)),
           index' \in 0..uid, claims' \in ClaimBlock, ~claims'.set => claims' = NoClaims,
           cache' \in (SUBSET Stakes) \cup {Cold}, faults' \in Nat, disturbed' \in BOOLEAN, revoked' \in BOOLEAN
    PROVE  ClaimTypes'
<1>1. runs' \subseteq RunType /\ \A q \in runs' : DocOfKind(q) /\ PartOfKind(q)' /\ q.uid <= uid
  BY DEF RunFits, ClaimTypes, PartOfKind
<1> QED BY <1>1 DEF ClaimTypes, roleDocs

LEMMA TypesOfRuns ==
    ASSUME ClaimTypes, NEW r \in runs, RunNext(r)
    PROVE  ClaimTypes'
<1>0. /\ RunFits(r) /\ r.uid \in Nat /\ r.n \in Nat /\ r.loaded \in ClaimBlock
      /\ r.step \in {"index", "compute", "load", "set", "revoke"} /\ r.kind \in {"role", "stake", "super", "seed"}
      /\ uid \in Nat /\ index \in 0..uid /\ claims \in ClaimBlock /\ (~claims.set => claims = NoClaims)
      /\ cache \in (SUBSET Stakes) \cup {Cold} /\ faults \in Nat /\ disturbed \in BOOLEAN /\ revoked \in BOOLEAN
      /\ alive \in BOOLEAN
  BY DEF ClaimTypes, RunFits, RunType
<1>1. CASE WriteIndex(r)
  <2>1. PICK v \in RunType : /\ v = Stepped(r, "compute") /\ v.step = "compute" /\ v.part = r.part
                             /\ SameRun(v, r)
    BY <1>0, RunChanged DEF RunFits
  <2>2. RunFits(v) BY <1>0, <1>1, <2>1 DEF RunFits, SameRun, DocOfKind, PartOfKind, Flagged, WriteIndex
  <2>3. runs' = (runs \ {r}) \cup {v} BY <1>1, <2>1 DEF WriteIndex, Becomes, Stepped
  <2> QED BY <1>0, <1>1, <2>2, <2>3, RunsFit DEF WriteIndex, RunFits, roleDocs, bounds
<1>2. CASE Compute(r)
  <2> DEFINE p == IF r.kind = "role" THEN ComputeStakeClaims(r.doc) ELSE SeedClaims
  <2>1. r.kind \in {"role", "seed"} BY <1>0, <1>2 DEF RunFits, PartOfKind, Flagged, Compute
  <2>2. p \in Roles \cup ClaimBlock /\ (r.kind = "role" => p \in Roles /\ ~p.bootstrap) /\ (r.kind = "seed" => p \in ClaimBlock /\ p.set)
    BY <1>0, <2>1, RoleTypes, SeedReads DEF RunFits, DocOfKind
  <2> HIDE DEF p
  <2>3. PICK v \in RunType : /\ v = Reading(r, "load", p) /\ v.step = "load" /\ v.part = p
                             /\ SameRun(v, r)
    <3>1. r \in RunType /\ p \in Roles \cup ClaimBlock BY <1>0, <2>2 DEF RunFits
    <3>2. ASSUME NEW q \in Roles \cup ClaimBlock
          PROVE  /\ Reading(r, "load", q) \in RunType /\ Reading(r, "load", q).step = "load"
                 /\ Reading(r, "load", q).part = q /\ SameRun(Reading(r, "load", q), r)
      BY <3>1, RunChanged
    <3> QED BY <3>1, <3>2
  <2>4. RunFits(v) BY <1>0, <1>2, <2>1, <2>2, <2>3 DEF RunFits, SameRun, DocOfKind, PartOfKind, Flagged, Compute
  <2>5. runs' = (runs \ {r}) \cup {v} BY <1>2, <2>3 DEF Compute, Becomes, p, Reading
  <2>6. cache' \in (SUBSET Stakes) \cup {Cold} BY <1>0, <1>2 DEF Compute, Existing
  <2>7. UNCHANGED <<roleDocs, uid, alive, index, claims, revoked, events, newest, writes, faults>>
    BY <1>2 DEF Compute, account, bounds
  <2>8. disturbed' \in BOOLEAN BY <1>2 DEF Compute
  <2> QED BY <1>0, <2>4, <2>5, <2>6, <2>7, <2>8, RunsFit
<1>3. CASE LoadExistingClaims(r)
  <2>1. PICK v \in RunType : /\ v = Loading(r, "set", claims) /\ v.step = "set" /\ v.part = r.part
                             /\ SameRun(v, r)
    BY <1>0, RunChanged DEF RunFits
  <2>2. RunFits(v) BY <1>0, <1>3, <2>1 DEF RunFits, SameRun, DocOfKind, PartOfKind, Flagged, LoadExistingClaims
  <2>3. runs' = (runs \ {r}) \cup {v} \/ runs' = runs \ {r} BY <1>3, <2>1 DEF LoadExistingClaims, Becomes, Ends, Loading
  <2>4. UNCHANGED <<roleDocs, uid, alive, index, claims, revoked, cache, events, newest, writes, faults>>
    BY <1>3 DEF LoadExistingClaims, account, bounds
  <2>5. disturbed' \in BOOLEAN BY <1>3 DEF LoadExistingClaims
  <2> QED BY <1>0, <2>2, <2>3, <2>4, <2>5, RunsFit
<1>4. CASE WriteClaims(r)
  <2>1. PICK v \in RunType : /\ v = Stepped(r, "revoke") /\ v.step = "revoke" /\ v.part = r.part
                             /\ SameRun(v, r)
    BY <1>0, RunChanged DEF RunFits
  <2>2. RunFits(v) BY <1>0, <1>4, <2>1 DEF RunFits, SameRun, DocOfKind, PartOfKind, Flagged, WriteClaims
  <2>3. Merged(r) \in ClaimBlock /\ Merged(r).set BY <1>0, <1>4, MergedParts DEF RunFits, WriteClaims
  <2>4. runs' = (runs \ {r}) \cup {v} \/ runs' = runs \ {r} BY <1>4, <2>1 DEF WriteClaims, Becomes, Ends, Stepped
  <2>5. /\ claims' \in ClaimBlock /\ (~claims'.set => claims' = NoClaims) /\ revoked' \in BOOLEAN
    BY <1>0, <1>4, <2>3 DEF WriteClaims
  <2>6. UNCHANGED <<roleDocs, uid, alive, index, cache, events, newest, writes, faults, disturbed>>
    BY <1>4 DEF WriteClaims, account, bounds
  <2> QED BY <1>0, <2>2, <2>4, <2>5, <2>6, RunsFit
<1>5. CASE RevokeRefreshTokens(r)
  <2>1. UNCHANGED <<roleDocs, uid, alive, index, claims, cache, events, newest, writes, faults, disturbed>> /\ runs' = runs \ {r}
    BY <1>5 DEF RevokeRefreshTokens, account, bounds, Ends
  <2>2. revoked' \in BOOLEAN BY <1>5 DEF RevokeRefreshTokens
  <2> QED BY <1>0, <2>1, <2>2, RunsFit
<1>6. CASE RunFails(r)
  <2>1. /\ UNCHANGED <<roleDocs, uid, alive, index, claims, revoked, cache, events, newest, writes>> /\ runs' = runs \ {r}
        /\ faults' \in Nat /\ disturbed' \in BOOLEAN
    BY <1>0, <1>6 DEF RunFails, account, Ends
  <2> QED BY <1>0, <2>1, RunsFit
<1> QED BY <1>1, <1>2, <1>3, <1>4, <1>5, <1>6 DEF RunNext

\* The event of a write.
LEMMA EventMade ==
    ASSUME ClaimTypes, NEW k \in {"role", "stake", "super"}, NEW d \in Docs, NEW f \in BOOLEAN,
           k # "super" => d \in Stakes, k = "super" => d = "super"
    PROVE  LET e == Event(k, d, f) IN
           e \in EventType /\ DocOfKind(e) /\ e.kind = k /\ e.doc = d /\ e.flag = f /\ e.n = writes + 1
<1>1. writes + 1 \in Nat BY DEF ClaimTypes
<1>2. Event(k, d, f) \in EventType BY <1>1 DEF Event, EventType
<1> QED BY <1>2 DEF Event, DocOfKind

\* A write of a document, which leaves everything else to the event's trigger.
LEMMA TypesOfWrite ==
    ASSUME ClaimTypes, NEW emitted, Write(emitted),
           \A e \in emitted : e \in EventType /\ DocOfKind(e) /\ e.n = writes + 1,
           manager' \in [Stakes -> BOOLEAN], access' \in [Stakes -> AccessDocs],
           stakeDocs' \in [Stakes -> StakeDoc \cup {NoStake}], superDoc' \in BOOLEAN,
           \A s \in Stakes : ~stakeDocs'[s].exists => ~manager'[s] /\ access'[s] = {}
    PROVE  ClaimTypes'
<1>0. writes \in Nat /\ newest \in [Docs -> 0..writes] /\ writes' = writes + 1 /\ newest' = newest BY DEF ClaimTypes, Write
<1>1. newest' \in [Docs -> 0..writes'] /\ writes' \in Nat
  <2>1. 0..writes \subseteq 0..writes' BY <1>0
  <2> QED BY <1>0, <2>1
<1>2. events' \subseteq EventType /\ \A e \in events' : DocOfKind(e) /\ e.n <= writes'
  <2>1. ASSUME NEW e \in events' PROVE e \in EventType /\ DocOfKind(e) /\ e.n <= writes'
    <3>1. CASE e \in events
      <4>1. e \in EventType /\ DocOfKind(e) /\ e.n <= writes BY <3>1 DEF ClaimTypes
      <4>2. e.n \in Nat BY <4>1 DEF EventType
      <4> QED BY <1>0, <4>1, <4>2
    <3>2. CASE e \in emitted BY <1>0, <3>2
    <3> QED BY <3>1, <3>2 DEF Write
  <2> QED BY <2>1
<1>3. runs' \subseteq RunType /\ \A r \in runs' : DocOfKind(r) /\ PartOfKind(r)' /\ r.uid <= uid'
  BY DEF ClaimTypes, Write, PartOfKind, account
<1> QED BY <1>1, <1>2, <1>3 DEF ClaimTypes, Write, account

LEMMA TypesOfWrites ==
    ASSUME ClaimTypes, Writes
    PROVE  ClaimTypes'
<1>0. /\ manager \in [Stakes -> BOOLEAN] /\ access \in [Stakes -> AccessDocs]
      /\ stakeDocs \in [Stakes -> StakeDoc \cup {NoStake}] /\ superDoc \in BOOLEAN
      /\ \A s \in Stakes : ~stakeDocs[s].exists => ~manager[s] /\ access[s] = {}
  BY DEF ClaimTypes
<1>1. ASSUME NEW s \in Stakes, WriteManager(s) PROVE ClaimTypes'
  <2>1. /\ manager' \in [Stakes -> BOOLEAN] /\ UNCHANGED <<access, stakeDocs, superDoc>> /\ stakeDocs[s].exists
        /\ \A t \in Stakes : t # s => manager'[t] = manager[t]
    BY <1>0, <1>1 DEF WriteManager
  <2>2. Write({Event("role", s, FALSE)}) BY <1>1 DEF WriteManager
  <2>3. LET e == Event("role", s, FALSE) IN e \in EventType /\ DocOfKind(e) /\ e.n = writes + 1 BY EventMade DEF Docs
  <2>4. \A e \in {Event("role", s, FALSE)} : e \in EventType /\ DocOfKind(e) /\ e.n = writes + 1 BY <2>3
  <2> QED BY <1>0, <2>1, <2>2, <2>4, TypesOfWrite
<1>2. ASSUME NEW s \in Stakes, NEW grants \in AccessDocs, WriteAccess(s, grants) PROVE ClaimTypes'
  <2>1. /\ access' \in [Stakes -> AccessDocs] /\ UNCHANGED <<manager, stakeDocs, superDoc>> /\ stakeDocs[s].exists
        /\ \A t \in Stakes : t # s => access'[t] = access[t]
    BY <1>0, <1>2 DEF WriteAccess
  <2>2. Write({Event("role", s, FALSE)}) BY <1>2 DEF WriteAccess
  <2>3. LET e == Event("role", s, FALSE) IN e \in EventType /\ DocOfKind(e) /\ e.n = writes + 1 BY EventMade DEF Docs
  <2>4. \A e \in {Event("role", s, FALSE)} : e \in EventType /\ DocOfKind(e) /\ e.n = writes + 1 BY <2>3
  <2> QED BY <1>0, <2>1, <2>2, <2>4, TypesOfWrite
<1>3. ASSUME NEW s \in Stakes, NEW doc \in StakeDoc, WriteStake(s, doc) PROVE ClaimTypes'
  <2>1. /\ stakeDocs' = [stakeDocs EXCEPT ![s] = doc] /\ UNCHANGED <<manager, access, superDoc>>
    BY <1>3 DEF WriteStake
  <2>2. doc.exists /\ doc.designated \in BOOLEAN /\ doc.setup_complete \in BOOLEAN BY DEF StakeDoc
  <2>3. \A t \in Stakes : ~stakeDocs'[t].exists => ~manager'[t] /\ access'[t] = {} BY <1>0, <2>1, <2>2
  <2>4. stakeDocs' \in [Stakes -> StakeDoc \cup {NoStake}] BY <1>0, <2>1
  <2> DEFINE f == doc.designated /\ ~doc.setup_complete
             ev == Event("stake", s, f)
             emitted == IF (stakeDocs[s].exists /\ stakeDocs[s].designated) \/ doc.designated THEN {ev} ELSE {}
  <2>5. Write(emitted) BY <1>3 DEF WriteStake
  <2>6. f \in BOOLEAN BY <2>2
  <2>7. ev \in EventType /\ DocOfKind(ev) /\ ev.n = writes + 1 BY <2>6, EventMade DEF Docs
  <2> HIDE DEF ev
  <2>8. \A e \in emitted : e \in EventType /\ DocOfKind(e) /\ e.n = writes + 1 BY <2>7
  <2> HIDE DEF emitted
  <2> QED BY <1>0, <2>1, <2>3, <2>4, <2>5, <2>8, TypesOfWrite
<1>4. CASE WriteSuperadmin
  <2>1. Write({Event("super", "super", ~superDoc)}) /\ superDoc' \in BOOLEAN /\ UNCHANGED <<manager, access, stakeDocs>>
    BY <1>0, <1>4 DEF WriteSuperadmin
  <2>2. LET e == Event("super", "super", ~superDoc) IN e \in EventType /\ DocOfKind(e) /\ e.n = writes + 1
    BY EventMade DEF Docs
  <2>3. \A e \in {Event("super", "super", ~superDoc)} : e \in EventType /\ DocOfKind(e) /\ e.n = writes + 1 BY <2>2
  <2> QED BY <1>0, <2>1, <2>3, TypesOfWrite
<1> QED BY <1>1, <1>2, <1>3, <1>4 DEF Writes

LEMMA TypesOfDelivery ==
    ASSUME ClaimTypes, NEW e \in events, NEW again \in BOOLEAN, Deliver(e, again)
    PROVE  ClaimTypes'
<1>0. /\ e \in EventType /\ DocOfKind(e) /\ e.n <= writes /\ e.n \in Nat /\ e.flag \in BOOLEAN
      /\ e.kind \in {"role", "stake", "super"} /\ e.doc \in Docs
      /\ newest \in [Docs -> 0..writes] /\ writes \in Nat /\ faults \in Nat /\ uid \in Nat /\ index \in 0..uid
      /\ alive \in BOOLEAN
  BY DEF ClaimTypes, EventType
<1>1. newest' \in [Docs -> 0..writes] /\ (Flagged(e) => e.n <= newest'[e.doc]) /\ \A d \in Docs : newest[d] <= newest'[d]
  <2>1. CASE newest' = newest /\ (e.kind = "role" \/ Late(e)) BY <1>0, <2>1 DEF Late, Flagged
  <2>2. CASE newest' = [newest EXCEPT ![e.doc] = e.n] /\ ~(e.kind = "role" \/ Late(e))
    <3>1. newest[e.doc] <= e.n /\ e.n \in 0..writes BY <1>0, <2>2 DEF Late
    <3>2. \A d \in Docs : newest[d] \in 0..writes /\ newest'[d] = IF d = e.doc THEN e.n ELSE newest[d] BY <1>0, <2>2
    <3>3. newest' \in [Docs -> 0..writes] BY <1>0, <2>2, <3>1
    <3> QED BY <1>0, <3>1, <3>2, <3>3
  <2> QED BY <2>1, <2>2 DEF Deliver
<1> DEFINE found == IF e.kind = "stake" THEN (IF alive THEN uid ELSE 0) ELSE index
           x == IF e.kind = "role" THEN "compute" ELSE "load"
<1>2. found \in 0..uid BY <1>0
<1>3. runs' \subseteq RunType /\ \A r \in runs' : DocOfKind(r) /\ PartOfKind(r)' /\ r.uid <= uid
  <2>1. ASSUME NEW r \in runs PROVE r \in RunType /\ DocOfKind(r) /\ PartOfKind(r)' /\ r.uid <= uid
    <3>1. r \in RunType /\ DocOfKind(r) /\ PartOfKind(r) /\ r.uid <= uid BY DEF ClaimTypes
    <3>2. Flagged(r) => r.doc \in Docs /\ r.n \in Nat /\ r.n <= newest[r.doc]
      BY <3>1 DEF PartOfKind, RunType, DocOfKind, Flagged, Docs
    <3>3. Flagged(r) => r.n <= newest'[r.doc] BY <1>0, <1>1, <3>2
    <3> QED BY <3>1, <3>3 DEF PartOfKind
  <2>2. CASE found = 0 BY <2>1, <2>2 DEF Deliver
  <2>3. CASE found # 0
    <3> DEFINE v == NewRun(e.kind, e.doc, e.flag, e.n, x, found)
    <3>1. runs' = runs \cup {v} BY <2>3 DEF Deliver
    <3>2. found \in Nat \ {0} /\ x \in {"index", "compute", "load", "set", "revoke"} BY <1>0, <1>2, <2>3
    <3> HIDE DEF x, found
    <3>3. /\ v \in RunType
          /\ v.kind = e.kind /\ v.doc = e.doc /\ v.flag = e.flag /\ v.n = e.n /\ v.step = x /\ v.uid = found /\ v.part = Empty
      <4>1. /\ e.kind \in {"role", "stake", "super", "seed"} /\ e.doc \in Docs \cup {"user"} /\ e.flag \in BOOLEAN
            /\ e.n \in Nat
        BY <1>0
      <4>2. Empty \in Roles /\ NoClaims \in ClaimBlock BY Blocks
      <4>3. v \in RunType BY <4>1, <4>2, <3>2 DEF NewRun, RunType
      <4> QED BY <4>3 DEF NewRun
    <3>4. Empty \in Roles /\ ~Empty.bootstrap BY Blocks DEF Empty
    <3> HIDE DEF v
    <3>5. PICK w : w = v OBVIOUS
    <3>6. DocOfKind(w) /\ PartOfKind(w)' /\ w.uid <= uid
      BY <1>0, <1>1, <1>2, <3>3, <3>4, <3>5 DEF DocOfKind, PartOfKind, Flagged, x
    <3> QED BY <2>1, <3>1, <3>3, <3>5, <3>6
  <2> QED BY <2>2, <2>3
<1>4. events' \subseteq events /\ faults' \in Nat /\ disturbed' \in BOOLEAN
  <2>1. events' \subseteq events /\ faults' \in Nat BY <1>0 DEF Deliver
  <2>2. disturbed' \in BOOLEAN BY DEF Deliver
  <2> QED BY <2>1, <2>2
<1>5. UNCHANGED <<roleDocs, account, claims, revoked, cache, writes>> BY DEF Deliver
<1> QED BY <1>1, <1>3, <1>4, <1>5 DEF ClaimTypes, roleDocs, account

LEMMA ClaimTypesNext ==
    ASSUME ClaimTypes, [ClaimsNext]_claimVars
    PROVE  ClaimTypes'
<1>0. /\ uid \in 0..MaxAccounts /\ index \in 0..uid /\ alive \in BOOLEAN /\ MaxAccounts \in Nat
      /\ runs \subseteq RunType /\ \A r \in runs : DocOfKind(r) /\ PartOfKind(r) /\ r.uid <= uid /\ r.uid \in Nat
  BY ClaimSyncAssumption DEF ClaimTypes, RunType
<1>1. CASE SignUp
  <2>1. uid' = uid + 1 /\ uid' \in 1..MaxAccounts /\ index' \in 0..uid' /\ alive' BY <1>0, <1>1 DEF SignUp
  <2> DEFINE v == NewRun("seed", "user", FALSE, 0, "index", uid + 1)
  <2>2. v \in RunType /\ v.kind = "seed" /\ v.doc = "user" /\ v.step = "index" /\ v.uid = uid + 1
    <3>1. uid + 1 \in Nat \ {0} BY <1>0
    <3>2. Empty \in Roles /\ NoClaims \in ClaimBlock BY Blocks
    <3>3. v \in RunType BY <3>1, <3>2 DEF NewRun, RunType
    <3> QED BY <3>3 DEF NewRun
  <2>3. DocOfKind(v) /\ PartOfKind(v) BY <2>2 DEF DocOfKind, PartOfKind, Flagged
  <2>4. runs' = runs \cup {v} BY <1>1, <2>2 DEF SignUp
  <2>5. UNCHANGED <<roleDocs, cache, events, newest, bounds, disturbed>> /\ claims' = NoClaims /\ revoked' = TRUE
    BY <1>1 DEF SignUp
  <2> HIDE DEF v
  <2>6. runs' \subseteq RunType /\ \A r \in runs' : DocOfKind(r) /\ PartOfKind(r)' /\ r.uid <= uid'
    <3>1. ASSUME NEW r \in runs' PROVE r \in RunType /\ DocOfKind(r) /\ PartOfKind(r) /\ r.uid <= uid'
      BY <1>0, <2>1, <2>2, <2>3, <2>4
    <3> QED BY <2>5, <3>1 DEF PartOfKind
  <2> QED BY <2>1, <2>5, <2>6, Blocks DEF ClaimTypes, roleDocs, bounds
<1>2. CASE DeleteAccount BY <1>2, Blocks DEF DeleteAccount, ClaimTypes, PartOfKind, roleDocs, bounds
<1>3. CASE WarmUp BY <1>3 DEF WarmUp, ClaimTypes, PartOfKind, roleDocs, account, bounds, Existing
<1>4. CASE UNCHANGED claimVars BY <1>4 DEF claimVars, ClaimTypes, PartOfKind, roleDocs, account, bounds
<1> QED BY <1>1, <1>2, <1>3, <1>4, TypesOfWrites, TypesOfDelivery, TypesOfRuns DEF ClaimsNext

LEMMA ClaimTypesInit ==
    ASSUME ClaimsInit
    PROVE  ClaimTypes
<1>1. ASSUME NEW s \in Stakes, NEW b \in BOOLEAN PROVE Created(b) \in StakeDoc BY DEF Created, StakeDoc
<1>2. stakeDocs \in [Stakes -> StakeDoc \cup {NoStake}] BY <1>1 DEF ClaimsInit
<1>3. newest \in [Docs -> 0..writes] /\ writes \in Nat BY DEF ClaimsInit, Docs
<1>4. uid \in 0..MaxAccounts /\ index \in 0..uid BY ClaimSyncAssumption DEF ClaimsInit
<1>5. manager \in [Stakes -> BOOLEAN] /\ access \in [Stakes -> AccessDocs] BY ClaimSyncAssumption DEF ClaimsInit
<1>6. \A s \in Stakes : ~manager[s] /\ access[s] = {} BY DEF ClaimsInit
<1>7. /\ superDoc \in BOOLEAN /\ alive = FALSE /\ claims = NoClaims /\ faults \in Nat /\ disturbed \in BOOLEAN
      /\ revoked \in BOOLEAN /\ events = {} /\ runs = {} /\ cache = Cold
  BY DEF ClaimsInit
<1>8. claims \in ClaimBlock /\ (~claims.set => claims = NoClaims) /\ (alive => uid # 0) BY <1>7, Blocks
<1>9. events \subseteq EventType /\ (\A e \in events : DocOfKind(e) /\ e.n <= writes) BY <1>7
<1>10. runs \subseteq RunType /\ (\A r \in runs : DocOfKind(r) /\ PartOfKind(r) /\ r.uid <= uid) BY <1>7
<1>11. alive \in BOOLEAN /\ cache \in (SUBSET Stakes) \cup {Cold} BY <1>7
<1> QED BY <1>2, <1>3, <1>4, <1>5, <1>6, <1>7, <1>8, <1>9, <1>10, <1>11 DEF ClaimTypes
-----------------------------------------------------------------------------
(* Claims: while nothing disturbs the runs.                                *)

LEMMA CourseInit ==
    ASSUME ClaimsInit
    PROVE  OnCourse
  BY DEF ClaimsInit, OnCourse, Serial, Ordered, Open, Held

\* A write that changes what the claims should be makes its event, the newest of
\* its document.
LEMMA CourseOfWrite ==
    ASSUME ClaimTypes, OnCourse, NEW emitted, Write(emitted),
           \A e \in emitted : /\ e \in EventType /\ DocOfKind(e) /\ e.n = writes + 1
                              /\ Flagged(e) => e.flag = Asked(e.doc)',
           \A s \in Stakes : ComputeStakeClaims(s)' = ComputeStakeClaims(s) \/ \E e \in emitted : e.kind = "role" /\ e.doc = s,
           \A d \in Docs : Asked(d)' = Asked(d) \/ \E e \in emitted : Flagged(e) /\ e.doc = d
    PROVE  OnCourse'
<1>0. /\ writes \in Nat /\ \A d \in Docs : newest[d] \in Nat /\ newest[d] <= writes
      /\ \A e \in events : e \in EventType /\ DocOfKind(e) /\ e.n \in Nat /\ e.n <= writes /\ (Flagged(e) => e.doc \in Docs)
      /\ \A r \in runs : Flagged(r) => r.doc \in Docs /\ r.n \in Nat /\ r.n <= newest[r.doc]
  <2>1. writes \in Nat /\ \A d \in Docs : newest[d] \in 0..writes BY DEF ClaimTypes
  <2>2. \A e \in events : e \in EventType /\ DocOfKind(e) /\ e.n \in Nat /\ e.n <= writes /\ (Flagged(e) => e.doc \in Docs)
    BY DEF ClaimTypes, EventType
  <2>3. \A r \in runs : Flagged(r) => r.doc \in Docs /\ r.n \in Nat /\ r.n <= newest[r.doc]
    BY DEF ClaimTypes, RunType, PartOfKind, DocOfKind, Flagged, Docs
  <2> QED BY <2>1, <2>2, <2>3
<1>1. /\ events' = events \cup emitted
      /\ UNCHANGED <<uid, alive, index, claims, runs, newest>>
  BY DEF Write, account
<1>2. Open' = Open /\ Held' = Held /\ Seeding' = Seeding BY <1>1 DEF Open, Held, Seeding, Mine
<1>3. ASSUME NEW d \in Docs, NEW n \in 0..writes, \E e \in emitted : Flagged(e) /\ e.doc = d PROVE Awaited(d, n)'
  <2>1. PICK e \in emitted : Flagged(e) /\ e.doc = d BY <1>3
  <2>2. e \in events' /\ e.n = writes + 1 /\ e.flag = Asked(d)' BY <1>1, <2>1
  <2>3. e.n > n /\ e.n > newest'[d] BY <1>0, <1>1, <2>2
  <2> QED BY <2>1, <2>2, <2>3 DEF Awaited
<1>4. ASSUME NEW d \in Docs, NEW n, Awaited(d, n), Asked(d)' = Asked(d) PROVE Awaited(d, n)'
  BY <1>1, <1>4 DEF Awaited
<1>5. Serial' BY <1>1, <1>2 DEF OnCourse, Serial
<1>6. Ordered'
  <2>1. ASSUME NEW x, Flagged(x), x.doc \in Docs, x.n \in 0..writes, InOrder(x) PROVE InOrder(x)'
    <3>1. CASE \E e \in emitted : Flagged(e) /\ e.doc = x.doc BY <1>3, <2>1, <3>1 DEF InOrder
    <3>2. CASE Asked(x.doc)' = Asked(x.doc) BY <1>1, <1>4, <2>1, <3>2 DEF InOrder
    <3> QED BY <2>1, <3>1, <3>2
  <2>2. \A e \in events : Flagged(e) => InOrder(e)' BY <1>0, <2>1 DEF OnCourse, Ordered
  <2>3. \A e \in emitted : Flagged(e) => InOrder(e)' BY DEF InOrder
  <2>4. \A r \in runs : Flagged(r) /\ r.step = "load" => InOrder(r)'
    <3>1. ASSUME NEW r \in runs, Flagged(r) PROVE r.n \in 0..writes /\ r.doc \in Docs BY <1>0, <3>1
    <3> QED BY <2>1, <3>1 DEF OnCourse, Ordered
  <2> QED BY <1>1, <2>2, <2>3, <2>4 DEF Ordered
<1>7. ASSUME alive PROVE Indexed' /\ ClaimsSet' BY <1>1, <1>7 DEF OnCourse, Indexed, ClaimsSet, Mine
<1>8. ASSUME alive, NEW s \in Stakes PROVE RolesSound(s)'
  <2>1. CASE \E e \in emitted : e.kind = "role" /\ e.doc = s BY <1>1, <2>1 DEF RolesSound, RoleComing
  <2>2. CASE ComputeStakeClaims(s)' = ComputeStakeClaims(s)
    <3>1. RoleComing(s) => RoleComing(s)' BY <1>1, <1>2 DEF RoleComing, Mine
    <3>2. RolesSound(s) BY <1>8 DEF OnCourse
    <3> QED BY <1>1, <1>2, <2>2, <3>1, <3>2 DEF RolesSound
  <2> QED BY <2>1, <2>2
<1>9. ASSUME alive, NEW d \in Docs PROVE FlagSound(d)'
  <2>1. CASE \E e \in emitted : Flagged(e) /\ e.doc = d
    <3>1. 0 \in 0..writes BY <1>0
    <3> QED BY <1>3, <2>1, <3>1 DEF FlagSound, FlagComing
  <2>2. CASE Asked(d)' = Asked(d)
    <3>1. FlagComing(d) => FlagComing(d)' BY <1>1, <1>2, <1>4, <2>2 DEF FlagComing, Mine
    <3>2. FlagSound(d) BY <1>9 DEF OnCourse
    <3> QED BY <1>1, <1>2, <2>2, <3>1, <3>2 DEF FlagSound
  <2> QED BY <2>1, <2>2
<1> QED BY <1>1, <1>5, <1>6, <1>7, <1>8, <1>9 DEF OnCourse

LEMMA CourseOfWrites ==
    ASSUME ClaimTypes, OnCourse, Writes
    PROVE  OnCourse'
<1>0. "super" \notin Stakes BY ClaimSyncAssumption
<1>00. /\ manager \in [Stakes -> BOOLEAN] /\ access \in [Stakes -> AccessDocs]
       /\ stakeDocs \in [Stakes -> StakeDoc \cup {NoStake}] /\ superDoc \in BOOLEAN
  BY DEF ClaimTypes
<1>1. ASSUME NEW s \in Stakes, UNCHANGED <<stakeDocs, superDoc>>, Write({Event("role", s, FALSE)}),
             \A t \in Stakes : t # s => manager'[t] = manager[t] /\ access'[t] = access[t]
      PROVE  OnCourse'
  <2> DEFINE e == Event("role", s, FALSE)
  <2>1. e \in EventType /\ DocOfKind(e) /\ e.n = writes + 1 /\ e.kind = "role" /\ e.doc = s
    <3>1. e \in EventType /\ DocOfKind(e) /\ e.n = writes + 1 BY EventMade DEF Docs
    <3> QED BY <3>1 DEF Event
  <2> HIDE DEF e
  <2>2. \A t \in Stakes : ComputeStakeClaims(t)' = ComputeStakeClaims(t) \/ \E x \in {e} : x.kind = "role" /\ x.doc = t
    BY <1>1, <2>1 DEF ComputeStakeClaims
  <2>3. \A d \in Docs : Asked(d)' = Asked(d) BY <1>1 DEF Asked, Eligible
  <2>4. Write({e}) BY <1>1 DEF e
  <2> QED BY <2>1, <2>2, <2>3, <2>4, CourseOfWrite DEF Flagged
<1>2. ASSUME NEW s \in Stakes, WriteManager(s) PROVE OnCourse' BY <1>00, <1>1, <1>2 DEF WriteManager
<1>3. ASSUME NEW s \in Stakes, NEW grants \in AccessDocs, WriteAccess(s, grants) PROVE OnCourse'
  BY <1>00, <1>1, <1>3 DEF WriteAccess
<1>4. ASSUME NEW s \in Stakes, NEW doc \in StakeDoc, WriteStake(s, doc) PROVE OnCourse'
  <2>1. stakeDocs' = [stakeDocs EXCEPT ![s] = doc] /\ UNCHANGED <<manager, access, superDoc>> BY <1>4 DEF WriteStake
  <2>2. doc.exists /\ doc.designated \in BOOLEAN /\ doc.setup_complete \in BOOLEAN BY DEF StakeDoc
  <2> DEFINE f == doc.designated /\ ~doc.setup_complete
             ev == Event("stake", s, f)
             before == stakeDocs[s].exists /\ stakeDocs[s].designated
             emitted == IF before \/ doc.designated THEN {ev} ELSE {}
  <2>3. Write(emitted) BY <1>4 DEF WriteStake
  <2>4. f \in BOOLEAN BY <2>2
  <2>5. /\ ev \in EventType /\ DocOfKind(ev) /\ ev.n = writes + 1 /\ ev.kind = "stake" /\ ev.doc = s /\ ev.flag = f
    <3>1. ev \in EventType /\ DocOfKind(ev) /\ ev.n = writes + 1 BY <2>4, EventMade DEF Docs
    <3> QED BY <3>1 DEF Event
  <2>6. /\ Asked(s)' = f
        /\ Asked(s) => before
        /\ \A d \in Docs : d # s => Asked(d)' = Asked(d)
    BY <1>0, <1>00, <2>1, <2>2 DEF Asked, Eligible, Docs
  <2>7. \A t \in Stakes : ComputeStakeClaims(t)' = ComputeStakeClaims(t) BY <2>1 DEF ComputeStakeClaims
  <2>8. Asked(s) \in BOOLEAN BY <1>0, RoleTypes DEF Asked
  <2>9. ~(before \/ doc.designated) => Asked(s)' = Asked(s) BY <2>6, <2>8
  <2> HIDE DEF ev, f
  <2>10. \A d \in Docs : Asked(d)' = Asked(d) \/ \E x \in emitted : Flagged(x) /\ x.doc = d
    BY <2>5, <2>6, <2>9 DEF Flagged
  <2>11. \A x \in emitted : /\ x \in EventType /\ DocOfKind(x) /\ x.n = writes + 1
                            /\ Flagged(x) => x.flag = Asked(x.doc)'
    BY <2>5, <2>6
  <2> HIDE DEF emitted
  <2> QED BY <2>3, <2>7, <2>10, <2>11, CourseOfWrite
<1>5. CASE WriteSuperadmin
  <2> DEFINE e == Event("super", "super", ~superDoc)
  <2>1. superDoc' = ~superDoc /\ UNCHANGED <<manager, access, stakeDocs>> /\ Write({e}) BY <1>5 DEF WriteSuperadmin
  <2>2. /\ e \in EventType /\ DocOfKind(e) /\ e.n = writes + 1 /\ e.kind = "super" /\ e.doc = "super" /\ e.flag = ~superDoc
    BY EventMade DEF Docs
  <2> HIDE DEF e
  <2>3. \A t \in Stakes : ComputeStakeClaims(t)' = ComputeStakeClaims(t) BY <2>1 DEF ComputeStakeClaims
  <2>4. \A d \in Docs : Asked(d)' = Asked(d) \/ d = "super" BY <2>1 DEF Asked, Eligible, Docs
  <2>5. Asked("super")' = ~superDoc BY <2>1 DEF Asked
  <2>6. \A d \in Docs : Asked(d)' = Asked(d) \/ \E x \in {e} : Flagged(x) /\ x.doc = d BY <2>2, <2>4 DEF Flagged
  <2>7. \A x \in {e} : x \in EventType /\ DocOfKind(x) /\ x.n = writes + 1 /\ (Flagged(x) => x.flag = Asked(x.doc)')
    BY <2>2, <2>5
  <2> QED BY <2>1, <2>3, <2>6, <2>7, CourseOfWrite
<1> QED BY <1>2, <1>3, <1>4, <1>5 DEF Writes

\* A new account's seed will read everything; no earlier run reaches the account.
LEMMA CourseOfSignUp ==
    ASSUME ClaimTypes, OnCourse, SignUp
    PROVE  OnCourse'
<1>0. uid \in Nat /\ \A r \in runs : r.uid \in Nat /\ r.uid <= uid BY DEF ClaimTypes, RunType
<1> DEFINE v == NewRun("seed", "user", FALSE, 0, "index", uid + 1)
<1>1. v.kind = "seed" /\ v.step = "index" /\ v.uid = uid + 1 BY DEF NewRun
<1>2. /\ runs' = runs \cup {v} /\ uid' = uid + 1 /\ UNCHANGED <<events, newest>> /\ v \in runs'
      /\ UNCHANGED <<manager, access, stakeDocs, superDoc>>
  BY DEF SignUp, roleDocs
<1> HIDE DEF v
<1>3. Open' = Open BY <1>1, <1>2 DEF Open
<1>4. Held' = {}
  <2>1. \A r \in Open : r \in runs BY DEF Open
  <2> QED BY <1>0, <1>2, <1>3, <2>1 DEF Held, Mine
<1>5. Serial' BY <1>3, <1>4 DEF OnCourse, Serial
<1>6. \A d \in Docs : Asked(d)' = Asked(d) BY <1>2 DEF Asked, Eligible
<1>7. Ordered'
  <2>1. \A x : Flagged(x) /\ x.doc \in Docs => InOrder(x)' = InOrder(x) BY <1>2, <1>6 DEF InOrder, Awaited
  <2>2. \A e \in events : Flagged(e) => e.doc \in Docs BY DEF ClaimTypes, EventType
  <2>3. \A r \in runs : Flagged(r) => r.doc \in Docs BY DEF ClaimTypes, DocOfKind, Flagged, Docs
  <2> QED BY <1>1, <1>2, <2>1, <2>2, <2>3 DEF OnCourse, Ordered, Flagged
<1>8. Seeding' /\ Indexed' /\ ClaimsSet' BY <1>1, <1>2 DEF Seeding, Indexed, ClaimsSet, Mine
<1>9. \A s \in Stakes : RolesSound(s)' BY <1>8 DEF RolesSound, RoleComing
<1>10. \A d \in Docs : FlagSound(d)' BY <1>8 DEF FlagSound, FlagComing
<1> QED BY <1>5, <1>7, <1>8, <1>9, <1>10 DEF OnCourse

LEMMA CourseOfDeletion ==
    ASSUME ClaimTypes, OnCourse, DeleteAccount
    PROVE  OnCourse'
<1>1. /\ ~alive' /\ UNCHANGED <<uid, events, newest, runs, manager, access, stakeDocs, superDoc>>
  BY DEF DeleteAccount, roleDocs
<1>2. Open' = Open /\ Held' = Held BY <1>1 DEF Open, Held, Mine
<1>3. Serial' BY <1>1, <1>2 DEF OnCourse, Serial
<1>4. \A d : Asked(d)' = Asked(d) BY <1>1 DEF Asked, Eligible
<1>5. Ordered' BY <1>1, <1>4 DEF OnCourse, Ordered, InOrder, Awaited
<1> QED BY <1>1, <1>3, <1>5 DEF OnCourse

\* Steps that leave the runs, the documents and the account alone.
LEMMA CourseOfStutter ==
    ASSUME OnCourse, UNCHANGED <<uid, alive, index, claims, events, newest, runs, manager, access, stakeDocs, superDoc>>
    PROVE  OnCourse'
<1>1. Open' = Open /\ Held' = Held /\ Seeding' = Seeding BY DEF Open, Held, Seeding, Mine
<1>2. \A d : Asked(d)' = Asked(d) BY DEF Asked, Eligible
<1>3. \A s : ComputeStakeClaims(s)' = ComputeStakeClaims(s) BY DEF ComputeStakeClaims
<1>4. \A d, n : Awaited(d, n)' = Awaited(d, n) BY <1>2 DEF Awaited
<1>5. Serial' BY <1>1 DEF OnCourse, Serial
<1>6. Ordered' BY <1>2, <1>4 DEF OnCourse, Ordered, InOrder
<1>7. ASSUME alive PROVE Indexed' /\ ClaimsSet' BY <1>7 DEF OnCourse, Indexed, ClaimsSet, Mine
<1>8. ASSUME alive, NEW s \in Stakes PROVE RolesSound(s)'
  <2>1. RoleComing(s)' = RoleComing(s) BY <1>1 DEF RoleComing, Mine
  <2> QED BY <1>1, <1>3, <1>8, <2>1 DEF OnCourse, RolesSound
<1>9. ASSUME alive, NEW d \in Docs PROVE FlagSound(d)'
  <2>1. FlagComing(d)' = FlagComing(d) BY <1>1, <1>2, <1>4 DEF FlagComing, Mine
  <2> QED BY <1>1, <1>2, <1>9, <2>1 DEF OnCourse, FlagSound
<1> QED BY <1>5, <1>6, <1>7, <1>8, <1>9 DEF OnCourse

\* A delivery in order either starts a run that will read, or finds the account's
\* seed before its reading; later events of the document stay ahead of it.
LEMMA CourseOfDelivery ==
    ASSUME ClaimTypes, OnCourse, NEW e \in events, NEW again \in BOOLEAN, Deliver(e, again), ~disturbed'
    PROVE  OnCourse'
<1> DEFINE found == IF e.kind = "stake" THEN (IF alive THEN uid ELSE 0) ELSE index
<1>0. /\ e \in EventType /\ DocOfKind(e) /\ e.n \in Nat /\ e.kind \in {"role", "stake", "super"} /\ e.doc \in Docs
      /\ \A x \in events : x \in EventType /\ x.n \in Nat /\ x.doc \in Docs
      /\ \A r \in runs : Flagged(r) => r.doc \in Docs /\ r.n \in Nat
      /\ newest \in [Docs -> Nat] /\ uid \in Nat /\ index \in Nat /\ (alive => uid # 0)
  BY DEF ClaimTypes, EventType, RunType, PartOfKind, DocOfKind, Flagged, Docs
<1>00. PICK v : v = NewRun(e.kind, e.doc, e.flag, e.n, IF e.kind = "role" THEN "compute" ELSE "load", found) OBVIOUS
<1>1. /\ UNCHANGED <<uid, alive, index, claims, manager, access, stakeDocs, superDoc>>
      /\ events \ {e} \subseteq events' /\ events' \subseteq events
      /\ runs \subseteq runs' /\ runs' \subseteq runs \cup {v}
      /\ found # 0 => v \in runs'
  BY <1>00 DEF Deliver, roleDocs, account
<1>2. /\ v.kind = e.kind /\ v.doc = e.doc /\ v.flag = e.flag /\ v.n = e.n /\ v.uid = found
      /\ (e.kind = "role" => v.step = "compute") /\ (e.kind # "role" => v.step = "load")
  BY <1>00 DEF NewRun
<1>3. ~Late(e) BY DEF Deliver
<1>4. IF Flagged(e) THEN newest' = [newest EXCEPT ![e.doc] = e.n] /\ newest[e.doc] <= e.n ELSE newest' = newest
  BY <1>0, <1>3 DEF Deliver, Late, Flagged
<1>5. \A d \in Docs : newest'[d] = IF Flagged(e) /\ d = e.doc THEN e.n ELSE newest[d] BY <1>0, <1>4
<1>6. Open' = Open /\ Held' = Held
  <2>1. Open' = Open BY <1>0, <1>1, <1>2 DEF Open
  <2> QED BY <1>1, <2>1 DEF Held, Mine
<1>7. \A d : Asked(d)' = Asked(d) BY <1>1 DEF Asked, Eligible
<1>8. \A s : ComputeStakeClaims(s)' = ComputeStakeClaims(s) BY <1>1 DEF ComputeStakeClaims
<1>9. Serial' BY <1>1, <1>6 DEF OnCourse, Serial
<1>10. ASSUME NEW d \in Docs, NEW n, Awaited(d, n), ~(Flagged(e) /\ e.doc = d) PROVE Awaited(d, n)'
  BY <1>0, <1>1, <1>5, <1>7, <1>10 DEF Awaited
<1>11. ASSUME NEW d \in Docs, NEW n \in Nat, Awaited(d, n), Flagged(e), e.doc = d PROVE n < e.n \/ Awaited(d, n)'
  <2>1. PICK x \in events : Flagged(x) /\ x.doc = d /\ x.n > n /\ x.n > newest[d] /\ x.flag = Asked(d) BY <1>11 DEF Awaited
  <2>2. CASE x.n > e.n
    <3>1. x \in events' BY <1>0, <1>1, <2>2
    <3>2. x.n > newest'[d] BY <1>5, <1>11, <2>2
    <3> QED BY <1>7, <2>1, <3>1, <3>2 DEF Awaited
  <2>3. CASE x.n <= e.n BY <1>0, <2>1, <2>3
  <2> QED BY <1>0, <2>2, <2>3
<1>12. ASSUME Flagged(e) PROVE e.flag = Asked(e.doc) \/ Awaited(e.doc, e.n)'
  <2>1. InOrder(e) BY <1>12 DEF OnCourse, Ordered
  <2>2. ~(e.n < newest[e.doc]) BY <1>0, <1>4, <1>12
  <2>3. ~(e.n < e.n) BY <1>0
  <2> QED BY <1>0, <1>11, <1>12, <2>1, <2>2, <2>3 DEF InOrder
<1>13. Ordered'
  <2>1. ASSUME NEW x, Flagged(x), x.doc \in Docs, x.n \in Nat, InOrder(x) PROVE InOrder(x)'
    <3>1. CASE Flagged(e) /\ e.doc = x.doc
      <4>1. newest[x.doc] <= newest'[x.doc] /\ newest'[x.doc] = e.n BY <1>4, <1>5, <2>1, <3>1
      <4>2. x.n < newest[x.doc] => x.n < newest'[x.doc] BY <1>0, <2>1, <3>1, <4>1
      <4> QED BY <1>7, <1>11, <2>1, <3>1, <4>1, <4>2 DEF InOrder
    <3>2. CASE ~(Flagged(e) /\ e.doc = x.doc) BY <1>5, <1>7, <1>10, <2>1, <3>2 DEF InOrder
    <3> QED BY <3>1, <3>2
  <2>2. \A x \in events' : Flagged(x) => InOrder(x)' BY <1>0, <1>1, <2>1 DEF OnCourse, Ordered
  <2>3. \A r \in runs : Flagged(r) /\ r.step = "load" => InOrder(r)' BY <1>0, <2>1 DEF OnCourse, Ordered
  <2>4. Flagged(v) => InOrder(v)' BY <1>2, <1>7, <1>12 DEF InOrder, Flagged
  <2> QED BY <1>1, <2>2, <2>3, <2>4 DEF Ordered
<1>14. Seeding => Seeding' BY <1>1 DEF Seeding, Mine
<1>15. ASSUME alive PROVE Indexed' /\ ClaimsSet' BY <1>1, <1>15 DEF OnCourse, Indexed, ClaimsSet, Mine
<1>16. ASSUME alive PROVE Seeding' \/ (found = uid /\ v \in runs' /\ v.uid = uid')
  <2>1. Indexed BY <1>16 DEF OnCourse
  <2>2. found = uid \/ Seeding BY <1>16, <2>1 DEF Indexed, Seeding
  <2> QED BY <1>0, <1>1, <1>2, <1>14, <1>16, <2>2
<1>17. ASSUME alive, NEW s \in Stakes PROVE RolesSound(s)'
  <2>1. CASE e.kind = "role" /\ e.doc = s
    BY <1>2, <1>16, <1>17, <2>1 DEF RolesSound, RoleComing, Mine
  <2>2. CASE ~(e.kind = "role" /\ e.doc = s)
    <3>1. RoleComing(s) => RoleComing(s)' BY <1>1, <1>14, <2>2 DEF RoleComing, Mine
    <3>2. RolesSound(s) BY <1>17 DEF OnCourse
    <3> QED BY <1>1, <1>6, <1>8, <3>1, <3>2 DEF RolesSound
  <2> QED BY <2>1, <2>2
<1>18. ASSUME alive, NEW d \in Docs PROVE FlagSound(d)'
  <2>1. CASE Flagged(e) /\ e.doc = d
    <3>1. CASE e.flag = Asked(d)
      <4>1. v.step = "load" /\ v.n = newest'[d] /\ v.flag = Asked(d)' /\ Flagged(v) /\ v.doc = d
        BY <1>2, <1>5, <1>7, <2>1, <3>1 DEF Flagged
      <4> QED BY <1>16, <1>18, <4>1 DEF FlagSound, FlagComing, Mine
    <3>2. CASE Awaited(d, e.n)'
      <4>1. Awaited(d, 0)'
        <5>1. PICK x \in events' : Flagged(x) /\ x.doc = d /\ x.n > e.n /\ x.n > newest'[d] /\ x.flag = Asked(d)'
          BY <3>2 DEF Awaited
        <5>2. x.n > 0 BY <1>0, <1>1, <5>1
        <5> QED BY <5>1, <5>2 DEF Awaited
      <4> QED BY <4>1 DEF FlagSound, FlagComing
    <3> QED BY <1>12, <2>1, <3>1, <3>2
  <2>2. CASE ~(Flagged(e) /\ e.doc = d)
    <3>1. FlagComing(d) => FlagComing(d)' BY <1>1, <1>5, <1>7, <1>10, <1>14, <2>2 DEF FlagComing, Mine
    <3>2. FlagSound(d) BY <1>18 DEF OnCourse
    <3> QED BY <1>1, <1>6, <1>7, <3>1, <3>2 DEF FlagSound
  <2> QED BY <2>1, <2>2
<1> QED BY <1>1, <1>9, <1>13, <1>15, <1>17, <1>18 DEF OnCourse

RunFacts(r) ==
    /\ r \in RunType /\ DocOfKind(r) /\ PartOfKind(r) /\ r.uid \in Nat /\ r.n \in Nat
    /\ r.kind \in {"role", "stake", "super", "seed"}

LEMMA Facts == ASSUME ClaimTypes PROVE \A r \in runs : RunFacts(r)
  BY DEF ClaimTypes, RunType, RunFacts

\* What a step of a run leaves alone while the documents and the events stay.
LEMMA CourseKept ==
    ASSUME ClaimTypes, UNCHANGED <<uid, alive, events, newest, roleDocs>>
    PROVE  /\ \A d : Asked(d)' = Asked(d)
           /\ \A s : ComputeStakeClaims(s)' = ComputeStakeClaims(s)
           /\ \A d, n : Awaited(d, n)' = Awaited(d, n)
           /\ \A x : InOrder(x)' = InOrder(x)
<1>1. \A d : Asked(d)' = Asked(d) BY DEF Asked, Eligible, roleDocs
<1>2. \A s : ComputeStakeClaims(s)' = ComputeStakeClaims(s) BY DEF ComputeStakeClaims, roleDocs
<1>3. \A d, n : Awaited(d, n)' = Awaited(d, n) BY <1>1 DEF Awaited
<1>4. \A x : InOrder(x)' = InOrder(x) BY <1>1, <1>3 DEF InOrder
<1> QED BY <1>1, <1>2, <1>3, <1>4

\* The index leads to the newest account that has got so far.
LEMMA CourseOfIndex ==
    ASSUME ClaimTypes, OnCourse, NEW r \in runs, WriteIndex(r), ~disturbed'
    PROVE  OnCourse'
<1>0. RunFacts(r) /\ index \in Nat /\ uid \in Nat /\ r.uid <= uid BY Facts DEF ClaimTypes
<1>1. /\ r.kind = "seed" /\ r.step = "index" /\ index' = r.uid /\ ~(r.uid < index)
      /\ UNCHANGED <<uid, alive, claims, events, newest, roleDocs>>
  BY DEF WriteIndex
<1>2. PICK v : v = Stepped(r, "compute") /\ v.step = "compute" /\ SameRun(v, r) BY <1>0, RunChanged DEF RunFacts
<1>3. runs' = (runs \ {r}) \cup {v} BY <1>2 DEF WriteIndex, Becomes, Stepped
<1>4. v.kind = "seed" /\ v.uid = r.uid BY <1>1, <1>2 DEF SameRun
<1>5. Open' = Open /\ Held' = Held
  <2>1. Open' = Open BY <1>1, <1>2, <1>3 DEF Open
  <2> QED BY <1>1, <2>1 DEF Held, Mine
<1>6. Serial' BY <1>1, <1>5 DEF OnCourse, Serial
<1>7. Ordered' BY <1>1, <1>3, <1>4, CourseKept DEF OnCourse, Ordered, Flagged
<1>8. ASSUME alive PROVE Indexed'
  <2>1. CASE Mine(r) BY <1>1, <2>1 DEF Indexed, Mine
  <2>2. CASE ~Mine(r)
    <3>1. index # uid BY <1>0, <1>1, <2>2 DEF Mine, RunFacts
    <3> QED BY <1>1, <1>3, <1>8, <2>2, <3>1 DEF OnCourse, Indexed, Mine
  <2> QED BY <2>1, <2>2
<1>9. ASSUME alive PROVE ClaimsSet' BY <1>1, <1>2, <1>3, <1>4, <1>9 DEF OnCourse, ClaimsSet, Mine
<1>10. Seeding => Seeding' BY <1>1, <1>2, <1>3, <1>4 DEF Seeding, Mine
<1>11. ASSUME alive, NEW s \in Stakes PROVE RolesSound(s)'
  <2>1. RoleComing(s) => RoleComing(s)' BY <1>1, <1>3, <1>10 DEF RoleComing, Mine
  <2> QED BY <1>1, <1>5, <1>11, <2>1, CourseKept DEF OnCourse, RolesSound
<1>12. ASSUME alive, NEW d \in Docs PROVE FlagSound(d)'
  <2>1. FlagComing(d) => FlagComing(d)' BY <1>1, <1>3, <1>10, CourseKept DEF FlagComing, Mine, Flagged
  <2> QED BY <1>1, <1>5, <1>12, <2>1, CourseKept DEF OnCourse, FlagSound
<1> QED BY <1>1, <1>6, <1>7, <1>8, <1>9, <1>11, <1>12 DEF OnCourse

\* A run reads alone, and so reads what it will write as it should be.
LEMMA CourseOfCompute ==
    ASSUME ClaimTypes, OnCourse, NEW r \in runs, Compute(r), ~disturbed'
    PROVE  OnCourse'
<1> DEFINE part == IF r.kind = "role" THEN ComputeStakeClaims(r.doc) ELSE SeedClaims
<1>0. RunFacts(r) BY Facts
<1>1. /\ r.step = "compute" /\ Open = {} /\ (r.kind = "seed" => Existing \subseteq SeedStakes)
      /\ UNCHANGED <<uid, alive, index, claims, events, newest, roleDocs>>
  BY DEF Compute, account
<1>2. r.kind \in {"role", "seed"} /\ (r.kind = "role" => r.doc \in Stakes)
  BY <1>0, <1>1 DEF RunFacts, PartOfKind, DocOfKind, Flagged
<1>3. part \in Roles \cup ClaimBlock BY <1>2, RoleTypes, SeedReads
<1> HIDE DEF part
<1>4. PICK v : v = Reading(r, "load", part) /\ v.step = "load" /\ v.part = part /\ SameRun(v, r)
  <2>1. ASSUME NEW q \in Roles \cup ClaimBlock
        PROVE  \E v : v = Reading(r, "load", q) /\ v.step = "load" /\ v.part = q /\ SameRun(v, r)
    BY <1>0, RunChanged DEF RunFacts
  <2> QED BY <1>3, <2>1
<1>5. runs' = (runs \ {r}) \cup {v} BY <1>4 DEF Compute, Becomes, Reading, part
<1>6. v.kind = r.kind /\ v.doc = r.doc /\ v.uid = r.uid BY <1>4 DEF SameRun
<1>7. Open' = {v} /\ Held = {}
  <2>1. \A q \in runs : q \notin Open BY <1>1
  <2>2. Open' = {v} BY <1>1, <1>2, <1>4, <1>5, <1>6, <2>1 DEF Open
  <2> QED BY <1>1, <2>2 DEF Held
<1>8. Held' = IF Mine(r) THEN {v} ELSE {} BY <1>1, <1>6, <1>7 DEF Held, Mine
<1>9. Serial' BY <1>4, <1>7, <1>8 DEF Serial
<1>10. Ordered' BY <1>1, <1>2, <1>5, <1>6, CourseKept DEF OnCourse, Ordered, Flagged
<1>11. ASSUME alive PROVE Indexed' /\ ClaimsSet'
  <2>1. Indexed' BY <1>1, <1>5, <1>11 DEF OnCourse, Indexed, Mine
  <2>2. ClaimsSet' BY <1>1, <1>4, <1>5, <1>6, <1>11 DEF OnCourse, ClaimsSet, Mine
  <2> QED BY <2>1, <2>2
<1>12. Seeding => Seeding' \/ (Mine(r) /\ r.kind = "seed") BY <1>1, <1>5 DEF Seeding, Mine
<1>13. ASSUME alive, NEW s \in Stakes PROVE RolesSound(s)'
  <2>1. CASE Mine(r) /\ WritesRoles(r, s)
    <3>1. RolesOf(v, s) = ComputeStakeClaims(s)
      <4>1. CASE r.kind = "role" BY <1>4, <1>6, <2>1, <4>1 DEF RolesOf, WritesRoles, part
      <4>2. CASE r.kind = "seed" BY <1>1, <1>4, <1>6, <4>2, SeedReads DEF RolesOf, part
      <4> QED BY <1>2, <4>1, <4>2
    <3>2. Held' = {v} /\ WritesRoles(v, s) BY <1>6, <1>8, <2>1 DEF WritesRoles
    <3> QED BY <1>1, <3>1, <3>2, CourseKept DEF RolesSound
  <2>2. CASE ~(Mine(r) /\ WritesRoles(r, s))
    <3>1. RoleComing(s) => RoleComing(s)' BY <1>1, <1>5, <1>12, <2>2 DEF RoleComing, Mine, WritesRoles
    <3>2. \A q \in Held' : ~WritesRoles(q, s) BY <1>6, <1>8, <2>2 DEF WritesRoles
    <3>3. RolesSound(s) BY <1>13 DEF OnCourse
    <3> QED BY <1>1, <1>7, <3>1, <3>2, <3>3, CourseKept DEF RolesSound
  <2> QED BY <2>1, <2>2
<1>14. ASSUME alive, NEW d \in Docs PROVE FlagSound(d)'
  <2>1. CASE Mine(r) /\ r.kind = "seed"
    <3>1. FlagBy(v, d) = Asked(d) BY <1>1, <1>4, <1>6, <2>1, SeedReads DEF FlagBy, part
    <3>2. Held' = {v} /\ WritesFlag(v, d) BY <1>6, <1>8, <2>1 DEF WritesFlag
    <3> QED BY <1>1, <3>1, <3>2, CourseKept DEF FlagSound
  <2>2. CASE ~(Mine(r) /\ r.kind = "seed")
    <3>1. FlagComing(d) => FlagComing(d)' BY <1>1, <1>5, <1>12, <2>2, CourseKept DEF FlagComing, Mine
    <3>2. \A q \in Held' : ~WritesFlag(q, d) BY <1>2, <1>6, <1>8, <2>2 DEF WritesFlag, Flagged
    <3>3. FlagSound(d) BY <1>14 DEF OnCourse
    <3> QED BY <1>1, <1>7, <3>1, <3>2, <3>3, CourseKept DEF FlagSound
  <2> QED BY <2>1, <2>2
<1> QED BY <1>1, <1>9, <1>10, <1>11, <1>13, <1>14 DEF OnCourse

\* A run ends without a word: it was not the account's, or it has nothing to say.
LEMMA CourseOfEnd ==
    ASSUME ClaimTypes, OnCourse, NEW r \in runs, runs' = runs \ {r}, alive => ~Mine(r) \/ r.step = "revoke",
           UNCHANGED <<uid, alive, index, claims, events, newest, roleDocs>>
    PROVE  OnCourse'
<1>1. Open' \subseteq Open /\ Held' \subseteq Held BY DEF Open, Held, Mine
<1>2. alive => Held' = Held BY DEF Held, Mine, Open
<1>3. Serial' BY <1>1 DEF OnCourse, Serial
<1>4. Ordered' BY CourseKept DEF OnCourse, Ordered
<1>5. ASSUME alive PROVE Indexed' /\ ClaimsSet' BY <1>5 DEF OnCourse, Indexed, ClaimsSet, Mine
<1>6. ASSUME alive PROVE Seeding => Seeding' BY <1>6 DEF Seeding, Mine
<1>7. ASSUME alive, NEW s \in Stakes PROVE RolesSound(s)'
  <2>1. RoleComing(s) => RoleComing(s)' BY <1>6, <1>7 DEF RoleComing, Mine
  <2> QED BY <1>2, <1>7, <2>1, CourseKept DEF OnCourse, RolesSound
<1>8. ASSUME alive, NEW d \in Docs PROVE FlagSound(d)'
  <2>1. FlagComing(d) => FlagComing(d)' BY <1>6, <1>8, CourseKept DEF FlagComing, Mine
  <2> QED BY <1>2, <1>8, <2>1, CourseKept DEF OnCourse, FlagSound
<1> QED BY <1>3, <1>4, <1>5, <1>7, <1>8 DEF OnCourse

\* A run that loads the claims is alone with them until it writes, and brings what
\* its document asks for, unless a later event does.
LEMMA CourseOfLoad ==
    ASSUME ClaimTypes, OnCourse, NEW r \in runs, LoadExistingClaims(r), ~disturbed'
    PROVE  OnCourse'
<1>0. RunFacts(r) /\ claims \in ClaimBlock BY Facts DEF ClaimTypes
<1>1. /\ r.step = "load" /\ ~Late(r) /\ Open \ {r} = {}
      /\ UNCHANGED <<uid, alive, index, claims, events, newest, roleDocs>>
  BY DEF LoadExistingClaims, account
<1>2. CASE ~(alive /\ r.uid = uid)
  <2>1. runs' = runs \ {r} BY <1>2 DEF LoadExistingClaims, Ends
  <2> QED BY <1>1, <1>2, <2>1, CourseOfEnd DEF Mine
<1>3. CASE alive /\ r.uid = uid
  <2>1. PICK v : v = Loading(r, "set", claims) /\ v.step = "set" /\ v.part = r.part /\ v.loaded = claims /\ SameRun(v, r)
    BY <1>0, RunChanged DEF RunFacts
  <2>2. runs' = (runs \ {r}) \cup {v} BY <1>3, <2>1 DEF LoadExistingClaims, Becomes, Loading
  <2>3. v.kind = r.kind /\ v.doc = r.doc /\ v.uid = r.uid /\ v.flag = r.flag /\ v.n = r.n BY <2>1 DEF SameRun
  <2>4. Open' = {v} /\ Held' = {v} /\ Held \subseteq {r} /\ (r.kind \in {"role", "seed"} => r \in Held)
    <3>1. Open' = {v} BY <1>1, <2>1, <2>2 DEF Open
    <3>2. Held' = {v} BY <1>1, <1>3, <2>3, <3>1 DEF Held, Mine
    <3> QED BY <1>1, <1>3, <3>1, <3>2 DEF Held, Mine, Open
  <2>5. Serial' BY <1>1, <2>1, <2>4 DEF Serial
  <2>6. Ordered' BY <1>1, <2>1, <2>2, CourseKept DEF OnCourse, Ordered
  <2>7. Indexed' /\ ClaimsSet'
    <3>1. Indexed' BY <1>1, <1>3, <2>2 DEF OnCourse, Indexed, Mine
    <3>2. ClaimsSet' BY <1>1, <1>3, <2>1, <2>2, <2>3 DEF OnCourse, ClaimsSet, Mine
    <3> QED BY <3>1, <3>2
  <2>8. Seeding => Seeding' BY <1>1, <2>2 DEF Seeding, Mine
  <2>9. ASSUME NEW s \in Stakes PROVE RolesSound(s)'
    <3>1. RoleComing(s) => RoleComing(s)' BY <1>1, <2>2, <2>8 DEF RoleComing, Mine
    <3>2. WritesRoles(v, s) = WritesRoles(r, s) /\ RolesOf(v, s) = RolesOf(r, s) BY <2>1, <2>3 DEF WritesRoles, RolesOf
    <3>3. WritesRoles(r, s) => r \in Held BY <2>4 DEF WritesRoles
    <3>4. RolesSound(s) BY <1>3 DEF OnCourse
    <3> QED BY <1>1, <2>4, <3>1, <3>2, <3>3, <3>4, CourseKept DEF RolesSound
  <2>10. ASSUME NEW d \in Docs PROVE FlagSound(d)'
    <3>1. WritesFlag(v, d) = WritesFlag(r, d) /\ FlagBy(v, d) = FlagBy(r, d)
      BY <2>1, <2>3 DEF WritesFlag, FlagBy, Flagged
    <3>2. CASE Flagged(r) /\ r.doc = d
      <4>1. r.n = newest[d]
        <5>1. newest[d] \in Nat BY DEF ClaimTypes
        <5> QED BY <1>0, <1>1, <3>2, <5>1 DEF RunFacts, PartOfKind, Late, Flagged
      <4>2. InOrder(r) BY <1>1, <3>2 DEF OnCourse, Ordered
      <4>3. ~(r.n < newest[d]) BY <1>0, <4>1 DEF RunFacts
      <4>4. CASE r.flag = Asked(d)
        <5>1. FlagBy(v, d) = Asked(d) /\ WritesFlag(v, d) BY <3>1, <3>2, <4>4 DEF FlagBy, WritesFlag, Flagged
        <5> QED BY <1>1, <2>4, <5>1, CourseKept DEF FlagSound
      <4>5. CASE Awaited(d, r.n)
        <5>1. \A e \in events : e.n \in Nat BY DEF ClaimTypes, EventType
        <5>2. Awaited(d, 0) BY <1>0, <4>5, <5>1 DEF Awaited, RunFacts
        <5> QED BY <1>1, <5>2, CourseKept DEF FlagSound, FlagComing
      <4> QED BY <3>2, <4>2, <4>3, <4>4, <4>5 DEF InOrder
    <3>3. CASE ~(Flagged(r) /\ r.doc = d)
      <4>1. FlagComing(d) => FlagComing(d)' BY <1>1, <2>2, <2>8, <3>3, CourseKept DEF FlagComing, Mine
      <4>2. WritesFlag(r, d) => r \in Held BY <2>4, <3>3 DEF WritesFlag
      <4>3. FlagSound(d) BY <1>3 DEF OnCourse
      <4> QED BY <1>1, <2>4, <3>1, <4>1, <4>2, <4>3, CourseKept DEF FlagSound
    <3> QED BY <3>2, <3>3
  <2> QED BY <1>1, <2>5, <2>6, <2>7, <2>9, <2>10 DEF OnCourse
<1> QED BY <1>2, <1>3

\* What is written are the claims as they are now, with the run's own part put right.
LEMMA CourseOfClaims ==
    ASSUME ClaimTypes, OnCourse, NEW r \in runs, WriteClaims(r)
    PROVE  OnCourse'
<1>0. RunFacts(r) /\ claims \in ClaimBlock BY Facts DEF ClaimTypes
<1>1. /\ r.step = "set" /\ r \in Open /\ Open = {r}
      /\ UNCHANGED <<uid, alive, index, events, newest, roleDocs>>
  <2>1. r.step = "set" /\ r \in Open BY DEF WriteClaims, Open
  <2> QED BY <2>1 DEF WriteClaims, OnCourse, Serial, account
<1>2. PICK v : v = Stepped(r, "revoke") /\ v.step = "revoke" /\ SameRun(v, r) BY <1>0, RunChanged DEF RunFacts
<1>3. v.kind = r.kind /\ v.uid = r.uid BY <1>2 DEF SameRun
<1>4. runs' = runs \ {r} \/ runs' = (runs \ {r}) \cup {v} BY <1>2 DEF WriteClaims, Becomes, Ends, Stepped
<1>5. Open' = {} /\ Held' = {} BY <1>1, <1>2, <1>4 DEF Open, Held
<1>6. Serial' BY <1>5 DEF Serial
<1>7. Ordered' BY <1>1, <1>2, <1>4, CourseKept DEF OnCourse, Ordered
<1>8. ASSUME alive, Mine(r)
      PROVE  claims' = Merged(r) /\ r.loaded = claims /\ Held = {r}
  <2>1. r \in Held /\ Held = {r} BY <1>1, <1>8 DEF Held
  <2>2. r.loaded = claims BY <1>1, <1>8, <2>1 DEF OnCourse, Serial
  <2> QED BY <1>8, <2>1, <2>2 DEF WriteClaims, Reaches, Mine
<1>9. ASSUME ~Mine(r) PROVE claims' = claims /\ Held = {} BY <1>1, <1>9 DEF WriteClaims, Reaches, Mine, Held
<1>10. /\ Merged(r).set
       /\ \A s \in Stakes : RolesIn(Merged(r).stakes[s]) =
                              IF WritesRoles(r, s) THEN RolesOf(r, s) ELSE RolesIn(r.loaded.stakes[s])
       /\ \A d \in Docs : FlagIn(Merged(r), d) = IF WritesFlag(r, d) THEN FlagBy(r, d) ELSE FlagIn(r.loaded, d)
  BY <1>0, <1>1, MergedParts DEF RunFacts
<1>11. ASSUME alive PROVE Indexed' /\ ClaimsSet'
  <2>1. Indexed' BY <1>1, <1>4, <1>11 DEF OnCourse, Indexed, Mine
  <2>2. CASE Mine(r)
    <3>1. claims' = Merged(r) BY <1>8, <1>11, <2>2
    <3>2. claims'.set BY <1>10, <3>1
    <3> QED BY <2>1, <3>2 DEF ClaimsSet
  <2>3. CASE ~Mine(r)
    <3>1. claims' = claims BY <1>9, <2>3
    <3>2. ClaimsSet BY <1>11 DEF OnCourse
    <3> QED BY <2>1, <1>1, <1>4, <2>3, <3>1, <3>2 DEF ClaimsSet, Mine
  <2> QED BY <2>1, <2>2, <2>3
<1>12. Seeding => Seeding' BY <1>1, <1>4 DEF Seeding, Mine
<1>13. ASSUME alive, NEW s \in Stakes PROVE RolesSound(s)'
  <2>1. RoleComing(s) => RoleComing(s)' BY <1>1, <1>4, <1>12 DEF RoleComing, Mine
  <2>2. RolesSound(s) BY <1>13 DEF OnCourse
  <2>3. CASE Mine(r) BY <1>1, <1>5, <1>8, <1>10, <1>13, <2>1, <2>2, <2>3, CourseKept DEF RolesSound
  <2>4. CASE ~Mine(r) BY <1>1, <1>5, <1>9, <2>1, <2>2, <2>4, CourseKept DEF RolesSound
  <2> QED BY <2>3, <2>4
<1>14. ASSUME alive, NEW d \in Docs PROVE FlagSound(d)'
  <2>1. FlagComing(d) => FlagComing(d)' BY <1>1, <1>4, <1>12, CourseKept DEF FlagComing, Mine
  <2>2. FlagSound(d) BY <1>14 DEF OnCourse
  <2>3. CASE Mine(r) BY <1>1, <1>5, <1>8, <1>10, <1>14, <2>1, <2>2, <2>3, CourseKept DEF FlagSound
  <2>4. CASE ~Mine(r) BY <1>1, <1>5, <1>9, <2>1, <2>2, <2>4, CourseKept DEF FlagSound
  <2> QED BY <2>3, <2>4
<1> QED BY <1>1, <1>6, <1>7, <1>11, <1>13, <1>14 DEF OnCourse

-----------------------------------------------------------------------------
(* Claims: the invariant holds, and what follows.                          *)

\* A failed call ends what the invariant says of the claims; nothing undoes it.
LEMMA UndisturbedNext ==
    ASSUME ClaimTypes, Undisturbed, [ClaimsNext]_claimVars
    PROVE  Undisturbed'
<1>1. disturbed => disturbed'
  BY DEF ClaimsNext, Writes, WriteManager, WriteAccess, WriteStake, WriteSuperadmin, Write, SignUp, DeleteAccount, WarmUp,
         Deliver, RunNext, WriteIndex, Compute, LoadExistingClaims, WriteClaims, RevokeRefreshTokens, RunFails, claimVars
<1> SUFFICES ASSUME ~disturbed' PROVE OnCourse' BY DEF Undisturbed
<1>2. OnCourse BY <1>1 DEF Undisturbed
<1>3. CASE Writes BY <1>2, <1>3, CourseOfWrites
<1>4. CASE SignUp BY <1>2, <1>4, CourseOfSignUp
<1>5. CASE DeleteAccount BY <1>2, <1>5, CourseOfDeletion
<1>6. CASE WarmUp BY <1>2, <1>6, CourseOfStutter DEF WarmUp, roleDocs, account
<1>7. CASE UNCHANGED claimVars BY <1>2, <1>7, CourseOfStutter DEF claimVars, roleDocs, account
<1>8. ASSUME NEW e \in events, NEW again \in BOOLEAN, Deliver(e, again) PROVE OnCourse' BY <1>2, <1>8, CourseOfDelivery
<1>9. ASSUME NEW r \in runs, RunNext(r) PROVE OnCourse'
  <2>1. CASE WriteIndex(r) BY <1>2, <2>1, CourseOfIndex
  <2>2. CASE Compute(r) BY <1>2, <2>2, CourseOfCompute
  <2>3. CASE LoadExistingClaims(r) BY <1>2, <2>3, CourseOfLoad
  <2>4. CASE WriteClaims(r) BY <1>2, <2>4, CourseOfClaims
  <2>5. CASE RevokeRefreshTokens(r)
    <3>1. /\ r.step = "revoke" /\ runs' = runs \ {r} /\ UNCHANGED <<uid, alive, index, claims, events, newest, roleDocs>>
      BY <2>5 DEF RevokeRefreshTokens, Ends, account
    <3> QED BY <1>2, <3>1, CourseOfEnd
  <2>6. CASE RunFails(r) BY <2>6 DEF RunFails
  <2> QED BY <1>9, <2>1, <2>2, <2>3, <2>4, <2>5, <2>6 DEF RunNext
<1> QED BY <1>3, <1>4, <1>5, <1>6, <1>7, <1>8, <1>9 DEF ClaimsNext

LEMMA RevokingNext ==
    ASSUME ClaimTypes, Revoking, [ClaimsNext]_claimVars
    PROVE  Revoking'
<1> SUFFICES ASSUME alive', faults' = 0, ~revoked' PROVE \E q \in runs' : q.uid = uid' /\ q.step = "revoke"
  BY DEF Revoking, Mine
<1>0. faults \in Nat BY DEF ClaimTypes
<1>1. CASE Writes
  <2>1. UNCHANGED <<uid, alive, revoked, runs, faults>>
    BY <1>1 DEF Writes, WriteManager, WriteAccess, WriteStake, WriteSuperadmin, Write, account
  <2> QED BY <2>1 DEF Revoking, Mine
<1>2. CASE SignUp \/ DeleteAccount BY <1>2 DEF SignUp, DeleteAccount
<1>3. CASE WarmUp BY <1>3 DEF WarmUp, Revoking, Mine, account, bounds
<1>4. CASE UNCHANGED claimVars BY <1>4 DEF claimVars, Revoking, Mine, account, bounds
<1>5. ASSUME NEW e \in events, NEW again \in BOOLEAN, Deliver(e, again)
      PROVE  \E q \in runs' : q.uid = uid' /\ q.step = "revoke"
  <2>1. UNCHANGED <<uid, alive, revoked>> /\ runs \subseteq runs' BY <1>5 DEF Deliver, account
  <2>2. faults = 0 BY <1>0, <1>5 DEF Deliver
  <2> QED BY <2>1, <2>2 DEF Revoking, Mine
<1>6. ASSUME NEW r \in runs, RunNext(r)
      PROVE  \E q \in runs' : q.uid = uid' /\ q.step = "revoke"
  <2>0. RunFacts(r) /\ claims \in ClaimBlock BY Facts DEF ClaimTypes
  <2>1. CASE WriteIndex(r) \/ Compute(r) \/ LoadExistingClaims(r)
    <3>1. r.step # "revoke" /\ UNCHANGED <<uid, alive, revoked, faults>> /\ runs \ {r} \subseteq runs'
      BY <2>1 DEF WriteIndex, Compute, LoadExistingClaims, Becomes, Ends, account, bounds
    <3> QED BY <3>1 DEF Revoking, Mine
  <2>2. CASE WriteClaims(r)
    <3>1. /\ r.step # "revoke" /\ UNCHANGED <<uid, alive, faults>> /\ runs \ {r} \subseteq runs'
          /\ UNCHANGED revoked \/ (r.uid = uid /\ [r EXCEPT !.step = "revoke"] \in runs')
      BY <2>2 DEF WriteClaims, Becomes, Ends, account, bounds, Reaches
    <3>2. CASE UNCHANGED revoked BY <3>1, <3>2 DEF Revoking, Mine
    <3>3. CASE r.uid = uid /\ [r EXCEPT !.step = "revoke"] \in runs'
      <4>1. PICK v : v = Stepped(r, "revoke") /\ v.step = "revoke" /\ SameRun(v, r) BY <2>0, RunChanged DEF RunFacts
      <4>2. v \in runs' /\ v.uid = uid' BY <3>1, <3>3, <4>1 DEF Stepped, SameRun
      <4> QED BY <4>1, <4>2
    <3> QED BY <3>1, <3>2, <3>3
  <2>3. CASE RevokeRefreshTokens(r)
    <3>1. /\ runs' = runs \ {r} /\ UNCHANGED <<uid, alive, faults>> /\ ~revoked /\ ~Reaches(r)
      BY <2>3 DEF RevokeRefreshTokens, Ends, account, bounds
    <3> QED BY <3>1 DEF Revoking, Mine, Reaches
  <2>4. CASE RunFails(r) BY <1>0, <2>4 DEF RunFails
  <2> QED BY <1>6, <2>1, <2>2, <2>3, <2>4 DEF RunNext
<1> QED BY <1>1, <1>2, <1>3, <1>4, <1>5, <1>6 DEF ClaimsNext

\* Two blocks of claims with the same roles, markers and superadmin flag are the same.
LEMMA SameClaims ==
    ASSUME NEW c \in ClaimBlock, NEW e \in ClaimBlock, c.set, e.set,
           \A s \in Stakes : RolesIn(c.stakes[s]) = RolesIn(e.stakes[s]),
           \A d \in Docs : FlagIn(c, d) = FlagIn(e, d)
    PROVE  c = e
<1>0. "super" \notin Stakes BY ClaimSyncAssumption
<1>1. /\ c.stakes \in [Stakes -> Roles] /\ e.stakes \in [Stakes -> Roles]
      /\ c = [set |-> c.set, stakes |-> c.stakes, superadmin |-> c.superadmin]
      /\ e = [set |-> e.set, stakes |-> e.stakes, superadmin |-> e.superadmin]
      /\ c.set \in BOOLEAN /\ e.set \in BOOLEAN
  BY DEF ClaimBlock
<1>2. c.superadmin = e.superadmin BY DEF FlagIn, Docs
<1>3. ASSUME NEW s \in Stakes PROVE c.stakes[s] = e.stakes[s]
  <2>1. c.stakes[s].bootstrap = e.stakes[s].bootstrap BY <1>0 DEF FlagIn, Docs
  <2>2. \A b \in Roles : b = [RolesIn(b) EXCEPT !.bootstrap = b.bootstrap] BY DEF RolesIn, Roles, Block
  <2>3. c.stakes[s] \in Roles /\ e.stakes[s] \in Roles /\ RolesIn(c.stakes[s]) = RolesIn(e.stakes[s]) BY <1>1
  <2>4. c.stakes[s] = [RolesIn(c.stakes[s]) EXCEPT !.bootstrap = c.stakes[s].bootstrap] BY <2>2, <2>3
  <2>5. e.stakes[s] = [RolesIn(e.stakes[s]) EXCEPT !.bootstrap = e.stakes[s].bootstrap] BY <2>2, <2>3
  <2> QED BY <2>1, <2>3, <2>4, <2>5
<1>4. c.stakes = e.stakes BY <1>1, <1>3
<1> QED BY <1>1, <1>2, <1>4

\* What the claims should be, in parts.
LEMMA DerivedParts ==
    ASSUME ClaimTypes
    PROVE  /\ Derived \in ClaimBlock /\ Derived.set
           /\ \A s \in Stakes : RolesIn(Derived.stakes[s]) = ComputeStakeClaims(s)
           /\ \A d \in Docs : FlagIn(Derived, d) = Asked(d)
<1>1. ASSUME NEW s \in Stakes
      PROVE  /\ Derived.stakes[s] \in Roles /\ Derived.stakes[s].bootstrap = Eligible(s)
             /\ RolesIn(Derived.stakes[s]) = ComputeStakeClaims(s)
  <2> DEFINE b == ComputeStakeClaims(s)
             f == Eligible(s)
  <2>1. b \in Roles /\ ~b.bootstrap /\ f \in BOOLEAN BY RoleTypes
  <2>2. Derived.stakes[s] = [b EXCEPT !.bootstrap = f] BY DEF Derived
  <2> HIDE DEF b, f
  <2>3. [b EXCEPT !.bootstrap = f] \in Roles BY <2>1, Blocks
  <2>4. Derived.stakes[s].bootstrap = f /\ RolesIn(Derived.stakes[s]) = b BY <2>1, <2>2, Marked
  <2> QED BY <2>2, <2>3, <2>4 DEF b, f
<1>2. superDoc \in BOOLEAN BY DEF ClaimTypes
<1>3. /\ Derived = [set |-> TRUE, stakes |-> Derived.stakes, superadmin |-> superDoc]
      /\ Derived.stakes \in [Stakes -> Roles]
  <2>1. Derived.stakes = [s \in Stakes |-> Derived.stakes[s]] BY DEF Derived
  <2>2. Derived.stakes \in [Stakes -> Roles] BY <1>1, <2>1
  <2> QED BY <2>2 DEF Derived
<1>4. Derived \in ClaimBlock /\ Derived.set /\ Derived.superadmin = superDoc
  <2>1. \A f \in [Stakes -> Roles] : [set |-> TRUE, stakes |-> f, superadmin |-> superDoc] \in ClaimBlock
    BY <1>2 DEF ClaimBlock
  <2>2. Derived \in ClaimBlock BY <1>3, <2>1, Zenon
  <2> QED BY <2>2 DEF Derived
<1> QED BY <1>1, <1>4 DEF FlagIn, Asked, Docs

LEMMA ClaimsInvInit == ASSUME ClaimsInit PROVE ClaimsInv
<1>1. Revoking BY DEF ClaimsInit, Revoking
<1> QED BY <1>1, ClaimTypesInit, CourseInit DEF ClaimsInv, Undisturbed

LEMMA ClaimsInvNext == ASSUME ClaimsInv, [ClaimsNext]_claimVars PROVE ClaimsInv'
  BY ClaimTypesNext, UndisturbedNext, RevokingNext DEF ClaimsInv

LEMMA CurrentFromInv == ASSUME ClaimsInv PROVE Current
<1>0. ClaimTypes BY DEF ClaimsInv
<1>1. TypeOK
  <2>1. claims \in [set : BOOLEAN, stakes : [Stakes -> Block], superadmin : BOOLEAN]
    BY <1>0 DEF ClaimTypes, ClaimBlock, Roles
  <2>2. \A s \in Stakes : claims.stakes[s] \in Roles BY <1>0 DEF ClaimTypes, ClaimBlock
  <2> QED BY <1>0, <2>1, <2>2 DEF ClaimTypes, TypeOK, Roles
<1>2. ASSUME Quiet, alive, ~disturbed PROVE claims = Derived
  <2>1. OnCourse BY <1>2 DEF ClaimsInv, Undisturbed
  <2>2. events = {} /\ runs = {} /\ Held = {} BY <1>2 DEF Quiet, Held, Open
  <2>3. claims.set /\ claims \in ClaimBlock BY <1>0, <1>2, <2>1, <2>2 DEF OnCourse, ClaimsSet, ClaimTypes
  <2>4. \A s \in Stakes : RolesIn(claims.stakes[s]) = ComputeStakeClaims(s)
    BY <1>2, <2>1, <2>2 DEF OnCourse, RolesSound, RoleComing, Seeding
  <2>5. \A d \in Docs : FlagIn(claims, d) = Asked(d)
    BY <1>2, <2>1, <2>2 DEF OnCourse, FlagSound, FlagComing, Seeding, Awaited
  <2> QED BY <1>0, <2>3, <2>4, <2>5, DerivedParts, SameClaims
<1>3. TokensRevoked BY DEF ClaimsInv, Revoking, TokensRevoked, Quiet
<1> QED BY <1>1, <1>2, <1>3 DEF Current, Converged

\* Wherever the triggers of one user come to rest undisturbed, the claims are the
\* ones the documents call for, and no token older than the claims is left unless
\* a call failed (syncAccessClaims, syncManagersClaims, syncBootstrapClaims,
\* syncSuperadminClaims, onAuthUserCreate).
THEOREM ClaimsStayCurrent == ClaimsSpec => []Current
<1>1. ClaimsInit => ClaimsInv BY ClaimsInvInit
<1>2. ClaimsInv /\ [ClaimsNext]_claimVars => ClaimsInv' BY ClaimsInvNext
<1>3. ClaimsInv => Current BY CurrentFromInv
<1> QED BY <1>1, <1>2, <1>3, PTL DEF ClaimsSpec
-----------------------------------------------------------------------------
(* Claims: a run puts its part right.                                      *)

LEMMA HealingStep ==
    ASSUME ClaimTypes, NEW r \in runs, WriteClaims(r), Reaches(r), r.loaded = claims, UpToDate(r)
    PROVE  Wrong(claims') \subseteq (IF r.kind = "seed" THEN {} ELSE Wrong(claims) \ {<<r.kind, r.doc>>})
<1>0. RunFacts(r) /\ r.step = "set" /\ "super" \notin Stakes BY Facts, ClaimSyncAssumption DEF WriteClaims
<1> DEFINE c == Merged(r)
<1>1. claims' = c BY DEF WriteClaims, Reaches
<1>2. /\ \A s \in Stakes : RolesIn(c.stakes[s]) = IF WritesRoles(r, s) THEN RolesOf(r, s) ELSE RolesIn(claims.stakes[s])
      /\ \A d \in Docs : FlagIn(c, d) = IF WritesFlag(r, d) THEN FlagBy(r, d) ELSE FlagIn(claims, d)
  BY <1>0, MergedParts DEF RunFacts
<1> HIDE DEF c
<1>3. ASSUME NEW s \in Stakes, RolesIn(c.stakes[s]) # ComputeStakeClaims(s)
      PROVE  r.kind # "seed" /\ RolesIn(claims.stakes[s]) # ComputeStakeClaims(s) /\ ~(r.kind = "role" /\ r.doc = s)
  <2>1. CASE r.kind = "seed"
    <3>1. RolesOf(r, s) = ComputeStakeClaims(s) BY <2>1, DerivedParts DEF RolesOf, UpToDate
    <3> QED BY <1>2, <1>3, <2>1, <3>1 DEF WritesRoles
  <2>2. CASE r.kind = "role" /\ r.doc = s
    <3>1. RolesOf(r, s) = ComputeStakeClaims(s) BY <2>2 DEF RolesOf, UpToDate
    <3> QED BY <1>2, <1>3, <2>2, <3>1 DEF WritesRoles
  <2> QED BY <1>2, <1>3, <2>1, <2>2 DEF WritesRoles
<1>4. ASSUME NEW d \in Docs, FlagIn(c, d) # Asked(d)
      PROVE  r.kind # "seed" /\ FlagIn(claims, d) # Asked(d) /\ ~(Flagged(r) /\ r.doc = d)
  <2>1. CASE r.kind = "seed"
    <3>1. FlagBy(r, d) = Asked(d) BY <2>1, DerivedParts DEF FlagBy, UpToDate
    <3> QED BY <1>2, <1>4, <2>1, <3>1 DEF WritesFlag
  <2>2. CASE Flagged(r) /\ r.doc = d
    <3>1. r.flag = Asked(d) BY <1>0, <2>2 DEF UpToDate, Asked, Flagged, RunFacts, DocOfKind
    <3>2. FlagBy(r, d) = Asked(d) BY <2>2, <3>1 DEF FlagBy, Flagged
    <3> QED BY <1>2, <1>4, <2>2, <3>2 DEF WritesFlag
  <2> QED BY <1>2, <1>4, <2>1, <2>2 DEF WritesFlag
<1>5. ASSUME NEW x \in Wrong(c) PROVE r.kind # "seed" /\ x \in Wrong(claims) \ {<<r.kind, r.doc>>}
  <2>1. CASE \E s \in Stakes : x = <<"role", s>> /\ RolesIn(c.stakes[s]) # ComputeStakeClaims(s)
    BY <1>3, <2>1 DEF Wrong, RolesIn
  <2>2. CASE \E s \in Stakes : x = <<"stake", s>> /\ c.stakes[s].bootstrap # Eligible(s)
    <3>1. PICK s \in Stakes : x = <<"stake", s>> /\ c.stakes[s].bootstrap # Eligible(s) BY <2>2
    <3>2. s \in Docs /\ FlagIn(c, s) # Asked(s) BY <1>0, <3>1 DEF FlagIn, Asked, Docs
    <3>3. claims.stakes[s].bootstrap # Eligible(s) BY <1>0, <1>4, <3>2 DEF FlagIn, Asked
    <3>4. r.kind # "seed" /\ ~(r.kind = "stake" /\ r.doc = s) BY <1>4, <3>2 DEF Flagged
    <3> QED BY <3>1, <3>3, <3>4 DEF Wrong
  <2>3. CASE x = <<"super", "super">> /\ c.superadmin # superDoc
    <3>1. FlagIn(c, "super") # Asked("super") BY <2>3 DEF FlagIn, Asked
    <3>2. claims.superadmin # superDoc BY <1>4, <3>1 DEF FlagIn, Asked, Docs
    <3>3. r.kind # "seed" /\ r.kind # "super" BY <1>0, <1>4, <3>1 DEF Flagged, Docs, RunFacts, DocOfKind
    <3> QED BY <2>3, <3>2, <3>3 DEF Wrong
  <2> QED BY <2>1, <2>2, <2>3 DEF Wrong, RolesIn
<1> QED BY <1>1, <1>5

\* Whatever went wrong before, a run that works from what its document says now
\* and from the claims as they are leaves its own part right and no other part
\* worse (applyClaims.ts, the merge functions; syncBootstrapClaims.ts).
THEOREM RunsHeal == ClaimsSpec => RunHeals
<1>1. ClaimsInit => ClaimTypes BY ClaimTypesInit
<1>2. ClaimTypes /\ [ClaimsNext]_claimVars => ClaimTypes' BY ClaimTypesNext
<1>3. ClaimTypes /\ [ClaimsNext]_claimVars =>
        [\A r \in runs : WriteClaims(r) /\ Reaches(r) /\ r.loaded = claims /\ UpToDate(r) =>
          Wrong(claims') \subseteq (IF r.kind = "seed" THEN {} ELSE Wrong(claims) \ {<<r.kind, r.doc>>})]_claimVars
  BY HealingStep
<1> QED BY <1>1, <1>2, <1>3, PTL DEF ClaimsSpec, RunHeals

-----------------------------------------------------------------------------
(* Configuration: the invariant.                                           *)

WizardRun == [do : {"wizard", "populate"}, site : Sites \cup {None}, eid : Envs, checked : BOOLEAN,
              rows : SUBSET Names, read : SUBSET Names]

\* The write an operator is about to make, as far as it was decided by what was
\* submitted; and the guards of the home form and of a site's deletion, on what
\* they had read.
WriteFits(w) ==
    /\ w.do = "building" => /\ w.id \in Names /\ w.name \in Names /\ w.site \in Sites \cup {None}
                            /\ DOMAIN w.patches \subseteq Wards
                            /\ \A x \in DOMAIN w.patches : w.patches[x] \in Names \cup {None}
    /\ w.do = "ward" => w.id \in Wards /\ w.building \in WardDoc
    /\ w.do = "site" => w.id \in Sites /\ w.expects \in Envs
    /\ w.do = "deleteSite" => w.read = {}
    /\ w.do = "home" => /\ w.eid \in Envs /\ w.expects \in Envs
                        /\ \E h, F : /\ w.read = <<h, F>>
                                     /\ h.eid = w.eid \/ (h.eid = None /\ w.eid \notin F)

ConfigTypes ==
    /\ buildings \in [Names -> BuildingDoc \cup {None}]
    /\ wards \in [Wards -> WardDoc \cup {None}]
    /\ sites \in [Sites -> SiteDoc \cup {None}]
    /\ home \in SiteDoc
    /\ ext \in [Tabs -> WizardRun \cup {Idle}]
    /\ overtaken \in BOOLEAN
    /\ DOMAIN web = Operators /\ \A o \in Operators : WriteFits(web[o])

NamesUnique == \A b, c \in Live(buildings) : buildings[b].name = buildings[c].name => b = c

\* A ward that knows its building by name only knows it by its first name.
WardsRefer ==
    \A w \in Live(wards) :
      IF wards[w].id = None
      THEN wards[w].name \in Live(buildings) /\ buildings[wards[w].name].name = wards[w].name
      ELSE wards[w].id \in Live(buildings)

\* What an operator's guards have established about wards and names holds.
StillAllowed(w) ==
    /\ w.do = "building" =>
         /\ BuildingNamed(w.name) \subseteq {w.id}
         /\ \A x \in DOMAIN w.patches : /\ x \in Live(wards) /\ WardBuilding(x) = {w.id}
                                        /\ w.patches[x] = IF wards[x].id = None THEN w.id ELSE None
         /\ \A x \in Live(wards) \ DOMAIN w.patches :
              wards[x].id = None /\ WardBuilding(x) = {w.id} => wards[x].name = w.name
    /\ w.do = "deleteBuilding" =>
         /\ w.id \in Live(buildings)
         /\ \A x \in Live(wards) : wards[x].id # w.id /\ wards[x].name # buildings[w.id].name
    /\ w.do = "ward" => w.building.id \in Live(buildings)

\* The wards are sound, and an operator's guards hold, as long as the wards and the
\* names they saw are those of now.
References ==
    ~behind => /\ NamesUnique
               /\ WardsRefer
               /\ \A o \in Operators \ stale : StillAllowed(web[o])

\* A run of the extension writes every rule that it had found on its site.
RowsCover(run) == run # Idle => run.read \subseteq run.rows

RulesKept == RulesMoveWithEid /\ SitesExist /\ (~overtaken => \A t \in Tabs : RowsCover(ext[t]))

-----------------------------------------------------------------------------
(* Configuration: what is submitted.                                       *)

LEMMA LiveDocs ==
    ASSUME ConfigTypes
    PROVE  /\ Live(buildings) = {b \in Names : buildings[b] # None} /\ \A b \in Live(buildings) : buildings[b] \in BuildingDoc
           /\ Live(wards) = {w \in Wards : wards[w] # None} /\ \A w \in Live(wards) : wards[w] \in WardDoc
           /\ Live(sites) = {s \in Sites : sites[s] # None} /\ \A s \in Live(sites) : sites[s] \in SiteDoc
<1>1. DOMAIN buildings = Names /\ \A b \in Names : buildings[b] \in BuildingDoc \cup {None} BY DEF ConfigTypes
<1>2. DOMAIN wards = Wards /\ \A w \in Wards : wards[w] \in WardDoc \cup {None} BY DEF ConfigTypes
<1>3. DOMAIN sites = Sites /\ \A s \in Sites : sites[s] \in SiteDoc \cup {None} BY DEF ConfigTypes
<1>4. Live(buildings) = {b \in Names : buildings[b] # None} BY <1>1 DEF Live
<1>5. Live(wards) = {w \in Wards : wards[w] # None} BY <1>2 DEF Live
<1>6. Live(sites) = {s \in Sites : sites[s] # None} BY <1>3 DEF Live
<1> QED BY <1>1, <1>2, <1>3, <1>4, <1>5, <1>6

Submits(o) ==
    \/ \E n \in Names, s \in Sites \union {None} : AddBuilding(o, n, s)
    \/ \E b \in Names, n \in Names, s \in Sites \union {None} : EditBuilding(o, b, n, s)
    \/ \E b \in Names : DeleteBuilding(o, b)
    \/ \E w \in Wards, b \in Names : SubmitWard(o, w, b)
    \/ \E w \in Wards : DeleteWard(o, w)
    \/ \E s \in Sites, e \in Envs : SubmitSite(o, s, e)
    \/ \E s \in Sites : DeleteSite(o, s)
    \/ \E e \in Envs, n \in Envs : SubmitHome(o, e, n)
    \/ \E g \in Orgs : SubmitOrg(o, g) \/ DeleteOrg(o, g)

Commits(o) ==
    \/ CommitBuilding(o) \/ CommitDeleteBuilding(o)
    \/ CommitWard(o) \/ CommitDeleteWard(o)
    \/ CommitSite(o) \/ CommitDeleteSite(o) \/ CommitHome(o)
    \/ CommitOrg(o) \/ CommitDeleteOrg(o)

\* A building write of the page is in shape, and takes no other building's name;
\* its patches are the wards it would otherwise lose.
LEMMA BuildingSubmitted ==
    ASSUME ConfigTypes, NEW b \in Names, NEW n \in Names, NEW s \in Sites \cup {None},
           BuildingNamed(n) \subseteq {b},
           NEW patched, patched \subseteq Live(wards), \A w \in patched : WardBuilding(w) = {b},
           WardsRefer => \A w \in Live(wards) \ patched : wards[w].id = None /\ WardBuilding(w) = {b} => wards[w].name = n
    PROVE  LET write == BuildingWrite(b, n, s, patched) IN WriteFits(write) /\ (WardsRefer => StillAllowed(write))
<1> DEFINE write == BuildingWrite(b, n, s, patched)
<1>1. /\ write.do = "building" /\ write.id = b /\ write.name = n /\ write.site = s /\ DOMAIN write.patches = patched
      /\ \A w \in patched : write.patches[w] = IF wards[w].id = None THEN b ELSE None
  BY DEF BuildingWrite
<1> HIDE DEF write
<1>2. patched \subseteq Wards BY LiveDocs
<1>3. WriteFits(write) BY <1>1, <1>2 DEF WriteFits
<1>4. WardsRefer => StillAllowed(write) BY <1>1 DEF StillAllowed
<1> QED BY <1>3, <1>4 DEF write

LEMMA Submitted ==
    ASSUME ConfigTypes, NEW o \in Operators, Submits(o)
    PROVE  \E write : Submit(o, write) /\ WriteFits(write) /\ (WardsRefer => StillAllowed(write))
<1>1. ASSUME NEW n \in Names, NEW s \in Sites \union {None}, AddBuilding(o, n, s)
      PROVE  \E write : Submit(o, write) /\ WriteFits(write) /\ (WardsRefer => StillAllowed(write))
  <2>1. Submit(o, BuildingWrite(n, n, s, {})) /\ BuildingNamed(n) = {}
    BY <1>1 DEF AddBuilding
  <2>2. ASSUME WardsRefer, NEW w \in Live(wards), wards[w].id = None, WardBuilding(w) = {n} PROVE wards[w].name = n
    <3>1. wards[w] # None /\ wards[w] \in WardDoc BY LiveDocs
    <3>2. None \notin Live(buildings) BY LiveDocs, StakeConfigAssumption
    <3>3. WardBuilding(w) = BuildingNamed(wards[w].name) BY <2>2, <3>1, <3>2 DEF WardBuilding
    <3>4. wards[w].name \in BuildingNamed(wards[w].name) BY <2>2 DEF WardsRefer, BuildingNamed
    <3> QED BY <2>2, <3>3, <3>4
  <2>3. LET write == BuildingWrite(n, n, s, {}) IN WriteFits(write) /\ (WardsRefer => StillAllowed(write))
    BY <2>1, <2>2, BuildingSubmitted
  <2> QED BY <2>1, <2>3
<1>2. ASSUME NEW b \in Names, NEW n \in Names, NEW s \in Sites \union {None}, EditBuilding(o, b, n, s)
      PROVE  \E write : Submit(o, write) /\ WriteFits(write) /\ (WardsRefer => StillAllowed(write))
  <2>1. b \in Live(buildings) /\ BuildingNamed(n) \subseteq {b} BY <1>2 DEF EditBuilding
  <2>2. CASE n = buildings[b].name /\ Submit(o, BuildingWrite(b, n, s, {}))
    <3>1. ASSUME NEW w \in Live(wards), wards[w].id = None, WardBuilding(w) = {b} PROVE wards[w].name = n
      <4>1. wards[w] # None BY LiveDocs
      <4>2. None \notin Live(buildings) BY LiveDocs, StakeConfigAssumption
      <4>3. b \in BuildingNamed(wards[w].name) BY <3>1, <4>1, <4>2 DEF WardBuilding
      <4> QED BY <2>2, <4>3 DEF BuildingNamed
    <3>2. LET write == BuildingWrite(b, n, s, {}) IN WriteFits(write) /\ (WardsRefer => StillAllowed(write))
      BY <2>1, <3>1, BuildingSubmitted
    <3> QED BY <2>2, <3>2
  <2>3. CASE Submit(o, BuildingWrite(b, n, s, WardRenamePatches(b, n)))
    <3> DEFINE patched == WardRenamePatches(b, n)
    <3>1. patched \subseteq Live(wards) /\ \A w \in patched : WardBuilding(w) = {b} BY DEF WardRenamePatches
    <3>2. \A w \in Live(wards) \ patched : ~(wards[w].id = None /\ WardBuilding(w) = {b}) BY DEF WardRenamePatches
    <3> HIDE DEF patched
    <3>3. LET write == BuildingWrite(b, n, s, patched) IN WriteFits(write) /\ (WardsRefer => StillAllowed(write))
      BY <2>1, <3>1, <3>2, BuildingSubmitted
    <3> QED BY <2>3, <3>3 DEF patched
  <2> QED BY <1>2, <2>2, <2>3 DEF EditBuilding
<1>3. ASSUME NEW b \in Names, DeleteBuilding(o, b)
      PROVE  \E write : Submit(o, write) /\ WriteFits(write) /\ (WardsRefer => StillAllowed(write))
  BY <1>3 DEF DeleteBuilding, WriteFits, StillAllowed
<1>4. ASSUME NEW w \in Wards, NEW b \in Names, SubmitWard(o, w, b)
      PROVE  \E write : Submit(o, write) /\ WriteFits(write) /\ (WardsRefer => StillAllowed(write))
  <2> DEFINE doc == [id |-> b, name |-> buildings[b].name]
             write == [do |-> "ward", id |-> w, create |-> wards[w] = None, building |-> doc]
  <2>1. b \in Live(buildings) /\ Submit(o, write) BY <1>4 DEF SubmitWard
  <2>2. buildings[b].name \in Names BY <2>1, LiveDocs DEF BuildingDoc
  <2>3. doc \in WardDoc BY <2>2 DEF WardDoc
  <2>4. write.do = "ward" /\ write.id = w /\ write.building = doc /\ doc.id = b OBVIOUS
  <2> HIDE DEF write, doc
  <2>5. WriteFits(write) /\ StillAllowed(write) BY <2>1, <2>3, <2>4 DEF WriteFits, StillAllowed
  <2> QED BY <2>1, <2>5
<1>5. ASSUME NEW w \in Wards, DeleteWard(o, w)
      PROVE  \E write : Submit(o, write) /\ WriteFits(write) /\ (WardsRefer => StillAllowed(write))
  BY <1>5 DEF DeleteWard, WriteFits, StillAllowed
<1>6. ASSUME NEW s \in Sites, NEW e \in Envs, SubmitSite(o, s, e)
      PROVE  \E write : Submit(o, write) /\ WriteFits(write) /\ (WardsRefer => StillAllowed(write))
  BY <1>6 DEF SubmitSite, WriteFits, StillAllowed
<1>7. ASSUME NEW s \in Sites, DeleteSite(o, s)
      PROVE  \E write : Submit(o, write) /\ WriteFits(write) /\ (WardsRefer => StillAllowed(write))
  BY <1>7 DEF DeleteSite, WriteFits, StillAllowed
<1>8. ASSUME NEW e \in Envs, NEW n \in Envs, SubmitHome(o, e, n)
      PROVE  \E write : Submit(o, write) /\ WriteFits(write) /\ (WardsRefer => StillAllowed(write))
  <2> DEFINE write == [do |-> "home", eid |-> e, expects |-> n, read |-> <<home, ForeignEids>>]
  <2>1. MaySetHome(e) /\ Submit(o, write) BY <1>8 DEF SubmitHome
  <2>2. write.do = "home" /\ write.eid = e /\ write.expects = n /\ write.read = <<home, ForeignEids>> OBVIOUS
  <2> HIDE DEF write
  <2>3. WriteFits(write) /\ StillAllowed(write) BY <2>1, <2>2 DEF WriteFits, StillAllowed, MaySetHome
  <2> QED BY <2>1, <2>3
<1>9. ASSUME NEW g \in Orgs, SubmitOrg(o, g) \/ DeleteOrg(o, g)
      PROVE  \E write : Submit(o, write) /\ WriteFits(write) /\ (WardsRefer => StillAllowed(write))
  BY <1>9 DEF SubmitOrg, DeleteOrg, WriteFits, StillAllowed
<1> QED BY <1>1, <1>2, <1>3, <1>4, <1>5, <1>6, <1>7, <1>8, <1>9 DEF Submits

-----------------------------------------------------------------------------
(* Configuration: types and environments.                                  *)

\* An operator's write is replaced, by the next one or by nothing.
LEMMA WebFits ==
    ASSUME ConfigTypes, NEW o \in Operators, NEW write, WriteFits(write), web' = [web EXCEPT ![o] = write]
    PROVE  /\ DOMAIN web' = Operators
           /\ \A q \in Operators : web'[q] = IF q = o THEN write ELSE web[q]
           /\ \A q \in Operators : WriteFits(web'[q])
<1>1. DOMAIN web = Operators BY DEF ConfigTypes
<1>2. DOMAIN web' = Operators /\ \A q \in Operators : web'[q] = IF q = o THEN write ELSE web[q] BY <1>1
<1> QED BY <1>2 DEF ConfigTypes

LEMMA IdleFits == WriteFits(Idle) /\ StillAllowed(Idle) /\ Idle.do = "idle"
  BY DEF WriteFits, StillAllowed, Idle

LEMMA TypesOfSubmission ==
    ASSUME ConfigTypes, NEW o \in Operators, NEW write, WriteFits(write), Submit(o, write)
    PROVE  ConfigTypes'
<1>1. web' = [web EXCEPT ![o] = write] /\ UNCHANGED <<buildings, wards, sites, home, ext, overtaken>> BY DEF Submit, docs
<1>2. DOMAIN web' = Operators /\ \A q \in Operators : WriteFits(web'[q]) BY <1>1, WebFits
<1> QED BY <1>1, <1>2 DEF ConfigTypes

\* A building after its write, and the wards its rename patches.
LEMMA Built ==
    ASSUME ConfigTypes, NEW o \in Operators, CommitBuilding(o)
    PROVE  LET write == web[o]
               old == buildings[write.id]
               new == buildings'[write.id] IN
           /\ write.id \in Names /\ DOMAIN write.patches \subseteq Wards
           /\ buildings' \in [Names -> BuildingDoc \cup {None}] /\ wards' \in [Wards -> WardDoc \cup {None}]
           /\ new \in BuildingDoc /\ new.name = write.name /\ new.site = write.site
           /\ new.rule = IF old = None THEN None ELSE old.rule
           /\ new.moved = IF old = None THEN FALSE ELSE old.moved \/ old.site # write.site
           /\ \A b \in Names \ {write.id} : buildings'[b] = buildings[b]
           /\ \A w \in DOMAIN write.patches :
                /\ wards'[w] \in WardDoc /\ wards'[w].name = write.name
                /\ wards'[w].id = IF write.patches[w] # None THEN write.patches[w]
                                  ELSE IF wards[w] = None THEN None ELSE wards[w].id
           /\ \A w \in Wards \ DOMAIN write.patches : wards'[w] = wards[w]
           /\ overtaken' = (overtaken \/ write.site \notin {None} \cup Live(sites))
           /\ UNCHANGED <<sites, home>>
<1> DEFINE write == web[o]
           old == buildings[write.id]
           doc == [name |-> write.name, site |-> write.site,
                   rule |-> IF old = None THEN None ELSE old.rule,
                   moved |-> IF old = None THEN FALSE ELSE old.moved \/ old.site # write.site]
           Patched(w) == [id |-> IF write.patches[w] # None THEN write.patches[w]
                                 ELSE IF wards[w] = None THEN None ELSE wards[w].id,
                          name |-> write.name]
<1>0. buildings \in [Names -> BuildingDoc \cup {None}] /\ wards \in [Wards -> WardDoc \cup {None}] BY DEF ConfigTypes
<1>1. /\ write.id \in Names /\ write.name \in Names /\ write.site \in Sites \cup {None} /\ DOMAIN write.patches \subseteq Wards
      /\ \A x \in DOMAIN write.patches : write.patches[x] \in Names \cup {None}
  BY DEF CommitBuilding, WriteFits, ConfigTypes
<1>2. buildings' = [buildings EXCEPT ![write.id] = doc]
      /\ wards' = [w \in Wards |-> IF w \in DOMAIN write.patches THEN Patched(w) ELSE wards[w]]
      /\ overtaken' = (overtaken \/ write.site \notin {None} \cup Live(sites))
      /\ UNCHANGED <<sites, home>>
  BY DEF CommitBuilding
<1> HIDE DEF write
<1>3. old = None \/ old \in BuildingDoc BY <1>0, <1>1
<1>4. old # None => old.rule \in Envs \cup {None} /\ old.moved \in BOOLEAN BY <1>3 DEF BuildingDoc
<1>5. doc \in BuildingDoc
  <2> HIDE DEF old
  <2>1. (IF old = None THEN None ELSE old.rule) \in Envs \cup {None} BY <1>4
  <2>2. (IF old = None THEN FALSE ELSE old.moved \/ old.site # write.site) \in BOOLEAN BY <1>4
  <2> QED BY <1>1, <2>1, <2>2 DEF BuildingDoc
<1>6. ASSUME NEW w \in DOMAIN write.patches PROVE Patched(w) \in WardDoc
  <2>1. wards[w] # None => wards[w].id \in Names \cup {None} BY <1>0, <1>1 DEF WardDoc
  <2> QED BY <1>1, <2>1 DEF WardDoc
<1>7. /\ doc.name = write.name /\ doc.site = write.site
      /\ doc.rule = (IF old = None THEN None ELSE old.rule)
      /\ doc.moved = (IF old = None THEN FALSE ELSE old.moved \/ old.site # write.site)
      /\ \A w : /\ Patched(w).name = write.name
                /\ Patched(w).id = IF write.patches[w] # None THEN write.patches[w]
                                   ELSE IF wards[w] = None THEN None ELSE wards[w].id
  OBVIOUS
<1> HIDE DEF doc, Patched
<1>8. /\ buildings' \in [Names -> BuildingDoc \cup {None}] /\ wards' \in [Wards -> WardDoc \cup {None}]
      /\ buildings'[write.id] = doc /\ \A b \in Names \ {write.id} : buildings'[b] = buildings[b]
      /\ \A w \in DOMAIN write.patches : wards'[w] = Patched(w)
      /\ \A w \in Wards \ DOMAIN write.patches : wards'[w] = wards[w]
  BY <1>0, <1>1, <1>2, <1>5, <1>6
<1> QED BY <1>1, <1>2, <1>5, <1>6, <1>7, <1>8 DEF write

LEMMA TypesOfCommit ==
    ASSUME ConfigTypes, NEW o \in Operators, Commits(o)
    PROVE  ConfigTypes'
<1> DEFINE write == web[o]
<1>0. WriteFits(write) BY DEF ConfigTypes
<1>1. Done(o)
  BY DEF Commits, CommitBuilding, CommitDeleteBuilding, CommitWard, CommitDeleteWard, CommitSite, CommitDeleteSite,
         CommitHome, CommitOrg, CommitDeleteOrg
<1>2. DOMAIN web' = Operators /\ (\A q \in Operators : WriteFits(web'[q])) /\ UNCHANGED ext
  BY <1>1, WebFits, IdleFits DEF Done
<1> SUFFICES /\ buildings' \in [Names -> BuildingDoc \cup {None}]
             /\ wards' \in [Wards -> WardDoc \cup {None}]
             /\ sites' \in [Sites -> SiteDoc \cup {None}]
             /\ home' \in SiteDoc
             /\ overtaken' \in BOOLEAN
  BY <1>2 DEF ConfigTypes
<1>3. /\ buildings \in [Names -> BuildingDoc \cup {None}] /\ wards \in [Wards -> WardDoc \cup {None}]
      /\ sites \in [Sites -> SiteDoc \cup {None}] /\ home \in SiteDoc /\ overtaken \in BOOLEAN
  BY DEF ConfigTypes
<1>4. CASE CommitBuilding(o) BY <1>3, <1>4, Built
<1>5. CASE CommitDeleteBuilding(o) BY <1>3, <1>5 DEF CommitDeleteBuilding
<1>6. CASE CommitWard(o)
  <2>1. write.id \in Wards /\ write.building \in WardDoc BY <1>0, <1>6 DEF CommitWard, WriteFits
  <2>2. wards' \in {wards, [wards EXCEPT ![write.id] = write.building]} /\ UNCHANGED <<buildings, sites, home, overtaken>>
    BY <1>6 DEF CommitWard
  <2> HIDE DEF write
  <2> QED BY <1>3, <2>1, <2>2
<1>7. CASE CommitDeleteWard(o) BY <1>3, <1>7 DEF CommitDeleteWard
<1>8. CASE CommitSite(o)
  <2> DEFINE old == sites[write.id]
             doc == [eid |-> IF old = None THEN None ELSE old.eid, expects |-> write.expects]
  <2>1. write.id \in Sites /\ write.expects \in Envs BY <1>0, <1>8 DEF CommitSite, WriteFits
  <2>2. sites' \in {sites, [sites EXCEPT ![write.id] = doc]} /\ UNCHANGED <<buildings, wards, home, overtaken>>
    BY <1>8 DEF CommitSite
  <2>3. old # None => old.eid \in Envs \cup {None} BY <1>3, <2>1 DEF SiteDoc
  <2>4. doc \in SiteDoc BY <2>1, <2>3 DEF SiteDoc
  <2> HIDE DEF write, doc
  <2> QED BY <1>3, <2>1, <2>2, <2>4
<1>9. CASE CommitDeleteSite(o) BY <1>3, <1>9 DEF CommitDeleteSite
<1>10. CASE CommitHome(o)
  <2>1. write.eid \in Envs /\ write.expects \in Envs BY <1>0, <1>10 DEF CommitHome, WriteFits
  <2>2. home' = [eid |-> write.eid, expects |-> write.expects] /\ overtaken' \in BOOLEAN /\ UNCHANGED <<buildings, wards, sites>>
    BY <1>3, <1>10 DEF CommitHome
  <2> HIDE DEF write
  <2> QED BY <1>3, <2>1, <2>2 DEF SiteDoc
<1>11. CASE CommitOrg(o) \/ CommitDeleteOrg(o) BY <1>3, <1>11 DEF CommitOrg, CommitDeleteOrg
<1> QED BY <1>4, <1>5, <1>6, <1>7, <1>8, <1>9, <1>10, <1>11 DEF Commits

\* The documents after a batch of the extension: other EIDs and rules.
LEMMA Batched ==
    ASSUME ConfigTypes, NEW t \in Tabs, CommitWrite(t)
    PROVE  LET run == ext[t]
               done == (run.site # None => run.site \in Live(sites)) /\ run.rows \subseteq Live(buildings) IN
           /\ run \in WizardRun /\ run.checked
           /\ ext' = [ext EXCEPT ![t] = Idle] /\ UNCHANGED <<wards, web, stale, behind>>
           /\ ~done => UNCHANGED <<home, sites, buildings, overtaken>>
           /\ done => /\ overtaken' = (overtaken \/ ~MayWrite(run.site, run.eid) \/ ~(RuledOf(run.site) \subseteq run.read))
                      /\ DOMAIN buildings' = Names
                      /\ \A b \in Names : buildings'[b] =
                           IF b \in run.rows THEN [name |-> buildings[b].name, site |-> buildings[b].site, rule |-> run.eid,
                                                   moved |-> run.site # buildings[b].site]
                           ELSE buildings[b]
                      /\ run.site = None => UNCHANGED sites /\ home' = [eid |-> run.eid, expects |-> home.expects]
                      /\ run.site # None => /\ UNCHANGED home /\ run.site \in Live(sites)
                                            /\ sites' = [sites EXCEPT ![run.site] =
                                                           [eid |-> run.eid, expects |-> sites[run.site].expects]]
<1> DEFINE run == ext[t]
           done == (run.site # None => run.site \in Live(sites)) /\ run.rows \subseteq Live(buildings)
<1>1. run \in WizardRun /\ run.checked
  <2>1. run \in WizardRun \cup {Idle} BY DEF ConfigTypes
  <2> QED BY <2>1 DEF CommitWrite
<1>2. ext' = [ext EXCEPT ![t] = Idle] /\ UNCHANGED <<wards, web, stale, behind>> BY DEF CommitWrite
<1>3. ~done => UNCHANGED <<home, sites, buildings, overtaken>> BY DEF CommitWrite
<1>4. ASSUME done
      PROVE  /\ overtaken' = (overtaken \/ ~MayWrite(run.site, run.eid) \/ ~(RuledOf(run.site) \subseteq run.read))
             /\ DOMAIN buildings' = Names
             /\ \A b \in Names : buildings'[b] =
                  IF b \in run.rows THEN [name |-> buildings[b].name, site |-> buildings[b].site, rule |-> run.eid,
                                          moved |-> run.site # buildings[b].site]
                  ELSE buildings[b]
             /\ run.site = None => UNCHANGED sites /\ home' = [eid |-> run.eid, expects |-> home.expects]
             /\ run.site # None => /\ UNCHANGED home /\ run.site \in Live(sites)
                                   /\ sites' = [sites EXCEPT ![run.site] =
                                                  [eid |-> run.eid, expects |-> sites[run.site].expects]]
  <2>1. /\ home' = IF run.site = None THEN [home EXCEPT !.eid = run.eid] ELSE home
        /\ sites' = IF run.site = None THEN sites ELSE [sites EXCEPT ![run.site].eid = run.eid]
        /\ buildings' = WithRules(run)
        /\ overtaken' = (overtaken \/ ~MayWrite(run.site, run.eid) \/ ~(RuledOf(run.site) \subseteq run.read))
    BY <1>4 DEF CommitWrite
  <2>2. \A h \in SiteDoc : \A e : [h EXCEPT !.eid = e] = [eid |-> e, expects |-> h.expects] BY DEF SiteDoc
  <2>3. home \in SiteDoc BY DEF ConfigTypes
  <2>4. run.site # None => run.site \in Live(sites) /\ sites[run.site] \in SiteDoc BY <1>4, LiveDocs
  <2>5. run.site # None => sites' = [sites EXCEPT ![run.site] = [sites[run.site] EXCEPT !.eid = run.eid]] BY <2>1
  <2>6. run.site # None => sites' = [sites EXCEPT ![run.site] = [eid |-> run.eid, expects |-> sites[run.site].expects]]
    BY <2>2, <2>4, <2>5
  <2>7. run.site = None => home' = [eid |-> run.eid, expects |-> home.expects] BY <2>1, <2>2, <2>3
  <2>8. \A b \in BuildingDoc : \A e, m : [b EXCEPT !.rule = e, !.moved = m] = [name |-> b.name, site |-> b.site, rule |-> e, moved |-> m]
    <3>1. ASSUME NEW b \in BuildingDoc, NEW e, NEW m
          PROVE  [b EXCEPT !.rule = e, !.moved = m] = [name |-> b.name, site |-> b.site, rule |-> e, moved |-> m]
      <4>1. [b EXCEPT !.rule = e, !.moved = m] = [[b EXCEPT !.rule = e] EXCEPT !.moved = m] BY DEF BuildingDoc
      <4>2. [b EXCEPT !.rule = e] = [name |-> b.name, site |-> b.site, rule |-> e, moved |-> b.moved] BY DEF BuildingDoc
      <4>3. [[name |-> b.name, site |-> b.site, rule |-> e, moved |-> b.moved] EXCEPT !.moved = m]
              = [name |-> b.name, site |-> b.site, rule |-> e, moved |-> m]
        OBVIOUS
      <4> QED BY <4>1, <4>2, <4>3, Zenon
    <3> QED BY <3>1
  <2>9. \A b \in run.rows : buildings[b] \in BuildingDoc BY <1>4, LiveDocs
  <2> HIDE DEF run
  <2>10. DOMAIN buildings' = Names
         /\ \A b \in Names : buildings'[b] =
              IF b \in run.rows THEN [buildings[b] EXCEPT !.rule = run.eid, !.moved = run.site # buildings[b].site] ELSE buildings[b]
    BY <2>1 DEF WithRules
  <2>11. \A b \in run.rows : [buildings[b] EXCEPT !.rule = run.eid, !.moved = run.site # buildings[b].site] =
           [name |-> buildings[b].name, site |-> buildings[b].site, rule |-> run.eid, moved |-> run.site # buildings[b].site]
    BY <2>8, <2>9
  <2> QED BY <2>1, <2>4, <2>6, <2>7, <2>10, <2>11
<1> QED BY <1>1, <1>2, <1>3, <1>4

LEMMA ConfigTypesNext ==
    ASSUME ConfigTypes, [Next]_vars
    PROVE  ConfigTypes'
<1>1. ASSUME NEW o \in Operators, Submits(o) PROVE ConfigTypes' BY <1>1, Submitted, TypesOfSubmission
<1>2. ASSUME NEW o \in Operators, Commits(o) PROVE ConfigTypes' BY <1>2, TypesOfCommit
<1>3. ASSUME UNCHANGED <<docs, web, overtaken>>, ext' \in [Tabs -> WizardRun \cup {Idle}] PROVE ConfigTypes'
  BY <1>3 DEF ConfigTypes, docs
<1>4. ext \in [Tabs -> WizardRun \cup {Idle}] BY DEF ConfigTypes
<1>5. ASSUME NEW t \in Tabs, NEW run \in WizardRun, Panel(t, run) PROVE ConfigTypes' BY <1>3, <1>4, <1>5 DEF Panel
<1>6. ASSUME NEW t \in Tabs, NEW e \in Envs, OpenWizard(t, e) PROVE ConfigTypes'
  <2>1. PICK s \in ActiveSites(e) : Panel(t, [do |-> "wizard", site |-> s, eid |-> e, checked |-> FALSE,
                                              rows |-> BuildingsOf(s), read |-> RuledOf(s)])
    BY <1>6 DEF OpenWizard
  <2>2. s \in Sites \cup {None} BY LiveDocs DEF ActiveSites
  <2>3. BuildingsOf(s) \in SUBSET Names /\ RuledOf(s) \in SUBSET Names BY LiveDocs DEF BuildingsOf, RuledOf
  <2>4. [do |-> "wizard", site |-> s, eid |-> e, checked |-> FALSE, rows |-> BuildingsOf(s), read |-> RuledOf(s)]
          \in WizardRun
    BY <2>2, <2>3 DEF WizardRun
  <2> QED BY <1>5, <2>1, <2>4
<1>7. ASSUME NEW t \in Tabs, NEW s \in Sites, NEW e \in Envs, StartPopulate(t, s, e) PROVE ConfigTypes'
  <2>1. [do |-> "populate", site |-> s, eid |-> e, checked |-> FALSE, rows |-> {}, read |-> RuledOf(s)] \in WizardRun
    BY LiveDocs DEF WizardRun, RuledOf, BuildingsOf
  <2> QED BY <1>5, <1>7, <2>1 DEF StartPopulate
<1>8. ASSUME NEW t \in Tabs, CheckWrite(t) PROVE ConfigTypes'
  <2>1. ext[t] \in WizardRun BY <1>4, <1>8 DEF CheckWrite
  <2>2. [ext[t] EXCEPT !.checked = TRUE] \in WizardRun BY <2>1 DEF WizardRun
  <2> QED BY <1>3, <1>4, <1>8, <2>2 DEF CheckWrite
<1>9. ASSUME NEW t \in Tabs, CommitWrite(t) PROVE ConfigTypes'
  <2> DEFINE run == ext[t]
             done == (run.site # None => run.site \in Live(sites)) /\ run.rows \subseteq Live(buildings)
  <2>1. ext' \in [Tabs -> WizardRun \cup {Idle}] /\ UNCHANGED <<wards, web>> /\ run \in WizardRun BY <1>4, <1>9, Batched
  <2>2. CASE ~done BY <1>9, <2>1, <2>2, Batched DEF ConfigTypes
  <2>3. CASE done
    <3>0. run.eid \in Envs /\ run.site \in Sites \cup {None} /\ run.rows \subseteq Names BY <2>1 DEF WizardRun
    <3>1. overtaken' \in BOOLEAN BY <1>9, <2>3, Batched DEF ConfigTypes
    <3>2. home' \in SiteDoc /\ sites' \in [Sites -> SiteDoc \cup {None}]
      <4>1. home \in SiteDoc /\ sites \in [Sites -> SiteDoc \cup {None}] BY DEF ConfigTypes
      <4>2. CASE run.site = None
        <5>1. home' = [eid |-> run.eid, expects |-> home.expects] /\ sites' = sites BY <1>9, <2>3, <4>2, Batched
        <5> QED BY <3>0, <4>1, <5>1 DEF SiteDoc
      <4>3. CASE run.site # None
        <5>1. /\ home' = home /\ run.site \in Live(sites)
              /\ sites' = [sites EXCEPT ![run.site] = [eid |-> run.eid, expects |-> sites[run.site].expects]]
          BY <1>9, <2>3, <4>3, Batched
        <5>2. sites[run.site] \in SiteDoc BY <5>1, LiveDocs
        <5>3. [eid |-> run.eid, expects |-> sites[run.site].expects] \in SiteDoc BY <3>0, <5>2 DEF SiteDoc
        <5> QED BY <4>1, <5>1, <5>3
      <4> QED BY <4>2, <4>3
    <3>3. buildings' \in [Names -> BuildingDoc \cup {None}]
      <4>1. ASSUME NEW b \in Names PROVE buildings'[b] \in BuildingDoc \cup {None}
        <5>1. CASE b \in run.rows
          <6>1. buildings[b] \in BuildingDoc BY <2>3, <5>1, LiveDocs
          <6>2. buildings'[b] = [name |-> buildings[b].name, site |-> buildings[b].site, rule |-> run.eid,
                                 moved |-> run.site # buildings[b].site]
            BY <1>9, <2>3, <5>1, Batched
          <6> QED BY <3>0, <6>1, <6>2 DEF BuildingDoc
        <5>2. CASE b \notin run.rows
          <6>1. buildings'[b] = buildings[b] BY <1>9, <2>3, <5>2, Batched
          <6> QED BY <6>1 DEF ConfigTypes
        <5> QED BY <5>1, <5>2
      <4>2. DOMAIN buildings' = Names BY <1>9, <2>3, Batched
      <4>3. buildings' = [b \in Names |-> buildings'[b]]
        <5>1. buildings' = WithRules(run) BY <1>9, <2>3 DEF CommitWrite
        <5> QED BY <5>1 DEF WithRules
      <4> QED BY <4>1, <4>3
    <3> QED BY <2>1, <3>1, <3>2, <3>3 DEF ConfigTypes
  <2> QED BY <2>2, <2>3
<1>10. ASSUME NEW n \in Names, AskFor(n) \/ GiveUp(n) PROVE ConfigTypes' BY <1>3, <1>4, <1>10 DEF AskFor, GiveUp
<1>11. ASSUME NEW g \in Orgs, AskForOrg(g) \/ SeatOrg(g) \/ GiveUpOrg(g) PROVE ConfigTypes'
  BY <1>3, <1>4, <1>11 DEF AskForOrg, SeatOrg, GiveUpOrg
<1>12. CASE UNCHANGED vars BY <1>3, <1>4, <1>12 DEF vars, docs
<1> QED BY <1>1, <1>2, <1>6, <1>7, <1>8, <1>9, <1>10, <1>11, <1>12 DEF Next, Submits, Commits

LEMMA ConfigTypesInit ==
    ASSUME Init
    PROVE  ConfigTypes
<1>1. PICK first \in Names, slugged \in BOOLEAN :
        /\ buildings = [b \in Names |->
             IF b = first THEN [name |-> b, site |-> None, rule |-> None, moved |-> FALSE] ELSE None]
        /\ wards = [w \in Wards |-> [id |-> IF slugged THEN first ELSE None, name |-> first]]
  BY DEF Init
<1>2. buildings \in [Names -> BuildingDoc \cup {None}] BY <1>1 DEF BuildingDoc
<1>3. wards \in [Wards -> WardDoc \cup {None}]
  <2>1. [id |-> IF slugged THEN first ELSE None, name |-> first] \in WardDoc BY DEF WardDoc
  <2> QED BY <1>1, <2>1
<1>4. sites \in [Sites -> SiteDoc \cup {None}] BY StakeConfigAssumption DEF Init
<1>5. home \in SiteDoc
  <2>1. home \in [eid : HomeEids, expects : Envs] BY DEF Init
  <2> QED BY <2>1, StakeConfigAssumption DEF SiteDoc
<1>6. ext \in [Tabs -> WizardRun \cup {Idle}] /\ overtaken \in BOOLEAN BY DEF Init
<1>7. DOMAIN web = Operators /\ \A o \in Operators : web[o] = Idle BY DEF Init
<1> QED BY <1>2, <1>3, <1>4, <1>5, <1>6, <1>7, IdleFits DEF ConfigTypes

\* The sites that a stake may start with have no environment yet.
LEMMA NoForeignEidsFirst ==
    ASSUME Init
    PROVE  ForeignEids = {}
<1>1. sites \in [Sites -> FirstSites] BY DEF Init
<1>2. \A s \in Sites : sites[s] = None \/ sites[s].eid = None BY <1>1, StakeConfigAssumption DEF SiteDoc
<1>3. DOMAIN sites = Sites BY <1>1
<1> QED BY <1>2, <1>3 DEF ForeignEids, Live

LEMMA EidsNext ==
    ASSUME ConfigTypes, EidsDisjoint, [Next]_vars
    PROVE  EidsDisjoint'
<1> SUFFICES ASSUME ~overtaken', home'.eid # None PROVE home'.eid \notin ForeignEids' BY DEF EidsDisjoint
<1>0. ConfigTypes' BY ConfigTypesNext
<1>00. home \in SiteDoc /\ ForeignEids = {sites[s].eid : s \in Live(sites)} \ {None} BY DEF ConfigTypes, ForeignEids
<1>1. ASSUME UNCHANGED <<home, sites>>, overtaken => overtaken' PROVE home'.eid \notin ForeignEids'
  BY <1>1 DEF EidsDisjoint, ForeignEids, Live
<1>2. ASSUME NEW o \in Operators, Submits(o) PROVE home'.eid \notin ForeignEids'
  <2>1. \E write : Submit(o, write) BY <1>2, Submitted
  <2> QED BY <1>1, <2>1 DEF Submit, docs
<1>3. ASSUME NEW o \in Operators, Commits(o) PROVE home'.eid \notin ForeignEids'
  <2>1. CASE CommitSite(o)
    <3> DEFINE write == web[o]
               doc == [eid |-> IF sites[write.id] = None THEN None ELSE sites[write.id].eid, expects |-> write.expects]
    <3>1. /\ write.id \in Sites /\ UNCHANGED <<home, overtaken>>
          /\ sites' \in {sites, [sites EXCEPT ![write.id] = doc]}
      BY <2>1 DEF CommitSite, ConfigTypes, WriteFits
    <3>2. doc.eid = (IF sites[write.id] = None THEN None ELSE sites[write.id].eid) OBVIOUS
    <3> HIDE DEF write, doc
    <3>3. DOMAIN sites = Sites /\ DOMAIN sites' = Sites BY <1>0 DEF ConfigTypes
    <3>4. ForeignEids' \subseteq ForeignEids
      <4>1. ASSUME NEW s \in Live(sites)', sites'[s].eid # None PROVE s \in Live(sites) /\ sites'[s].eid = sites[s].eid
        BY <3>1, <3>2, <3>3, <4>1 DEF Live
      <4> QED BY <4>1 DEF ForeignEids
    <3> QED BY <3>1, <3>4 DEF EidsDisjoint
  <2>2. CASE CommitDeleteSite(o)
    <3>1. UNCHANGED home /\ ~overtaken /\ sites' = [sites EXCEPT ![web[o].id] = None] BY <2>2 DEF CommitDeleteSite
    <3>2. \A s \in Live(sites)' : s \in Live(sites) /\ sites'[s] = sites[s] BY <3>1 DEF Live
    <3>3. ForeignEids' \subseteq ForeignEids BY <3>2 DEF ForeignEids
    <3> QED BY <3>1, <3>3 DEF EidsDisjoint
  <2>3. CASE CommitHome(o)
    <3>1. /\ home'.eid = web[o].eid /\ UNCHANGED sites /\ ~overtaken /\ web[o].read = <<home, ForeignEids>> /\ web[o].do = "home"
      BY <2>3 DEF CommitHome
    <3>2. PICK h, F : /\ web[o].read = <<h, F>>
                      /\ h.eid = web[o].eid \/ (h.eid = None /\ web[o].eid \notin F)
      BY <3>1 DEF ConfigTypes, WriteFits
    <3>3. h = home /\ F = ForeignEids BY <3>1, <3>2
    <3>4. ForeignEids' = ForeignEids BY <3>1 DEF ForeignEids, Live
    <3> QED BY <3>1, <3>2, <3>3, <3>4 DEF EidsDisjoint
  <2>4. CASE CommitBuilding(o) \/ CommitDeleteBuilding(o) BY <1>1, <2>4 DEF CommitBuilding, CommitDeleteBuilding
  <2>5. CASE CommitWard(o) \/ CommitDeleteWard(o) BY <1>1, <2>5 DEF CommitWard, CommitDeleteWard
  <2>6. CASE CommitOrg(o) \/ CommitDeleteOrg(o) BY <1>1, <2>6 DEF CommitOrg, CommitDeleteOrg
  <2> QED BY <1>3, <2>1, <2>2, <2>3, <2>4, <2>5, <2>6 DEF Commits
<1>4. ASSUME NEW t \in Tabs, CommitWrite(t) PROVE home'.eid \notin ForeignEids'
  <2> DEFINE run == ext[t]
             done == (run.site # None => run.site \in Live(sites)) /\ run.rows \subseteq Live(buildings)
  <2>1. CASE ~done BY <1>1, <1>4, <2>1, Batched
  <2>2. CASE done
    <3>1. MayWrite(run.site, run.eid) /\ ~overtaken BY <1>4, <2>2, Batched
    <3>2. CASE run.site = None
      <4>1. UNCHANGED sites /\ home' = [eid |-> run.eid, expects |-> home.expects] BY <1>4, <2>2, <3>2, Batched
      <4>2. ForeignEids' = ForeignEids BY <4>1 DEF ForeignEids, Live
      <4> QED BY <3>1, <3>2, <4>1, <4>2 DEF MayWrite
    <3>3. CASE run.site # None
      <4>1. /\ UNCHANGED home /\ run.site \in Live(sites)
            /\ sites' = [sites EXCEPT ![run.site] = [eid |-> run.eid, expects |-> sites[run.site].expects]]
        BY <1>4, <2>2, <3>3, Batched
      <4>2. home.eid # run.eid BY <3>1, <3>3 DEF MayWrite
      <4> HIDE DEF run
      <4>3. \A s \in Live(sites)' : s # run.site => s \in Live(sites) /\ sites'[s] = sites[s] BY <4>1 DEF Live
      <4>4. sites'[run.site].eid = run.eid BY <4>1 DEF Live
      <4>5. ForeignEids' \subseteq ForeignEids \cup {run.eid}
        <5>1. ASSUME NEW s \in Live(sites)', sites'[s].eid # None PROVE sites'[s].eid \in ForeignEids \cup {run.eid}
          BY <4>3, <4>4, <5>1 DEF ForeignEids
        <5> QED BY <5>1 DEF ForeignEids
      <4> QED BY <3>1, <4>1, <4>2, <4>5 DEF EidsDisjoint
    <3> QED BY <3>2, <3>3
  <2> QED BY <2>1, <2>2
<1>5. ASSUME NEW t \in Tabs, CheckWrite(t) \/ (\E e \in Envs : OpenWizard(t, e)) \/ (\E s \in Sites, e \in Envs : StartPopulate(t, s, e))
      PROVE  home'.eid \notin ForeignEids'
  BY <1>1, <1>5 DEF CheckWrite, OpenWizard, StartPopulate, Panel, docs
<1>6. ASSUME NEW n \in Names, AskFor(n) \/ GiveUp(n) PROVE home'.eid \notin ForeignEids' BY <1>1, <1>6 DEF AskFor, GiveUp, docs
<1>7. ASSUME NEW g \in Orgs, AskForOrg(g) \/ SeatOrg(g) \/ GiveUpOrg(g) PROVE home'.eid \notin ForeignEids'
  BY <1>1, <1>7 DEF AskForOrg, SeatOrg, GiveUpOrg, docs
<1>8. CASE UNCHANGED vars BY <1>1, <1>8 DEF vars
<1> QED BY <1>2, <1>3, <1>4, <1>5, <1>6, <1>7, <1>8 DEF Next, Submits, Commits

\* However many operators and Kindoo tabs write over each other, one Kindoo
\* environment is never both the home and a foreign site of a stake, except where
\* a writer's guard had become false before its write, which no transaction
\* prevents (hooks.ts, data.ts writeKindooConfig and recordKindooSiteEid).
THEOREM EnvironmentsStayDisjoint == Spec => []EidsDisjoint
<1>1. Init => ConfigTypes /\ EidsDisjoint
  BY ConfigTypesInit, NoForeignEidsFirst DEF EidsDisjoint
<1>2. ConfigTypes /\ EidsDisjoint /\ [Next]_vars => (ConfigTypes /\ EidsDisjoint)' BY ConfigTypesNext, EidsNext
<1> QED BY <1>1, <1>2, PTL DEF Spec

-----------------------------------------------------------------------------
(* Configuration: wards and the names of buildings.                        *)

\* The building a ward resolves to.
KeyOf(w) == IF wards[w].id = None THEN wards[w].name ELSE wards[w].id

LEMMA Resolves ==
    ASSUME ConfigTypes, NamesUnique, WardsRefer, NEW w \in Live(wards)
    PROVE  WardBuilding(w) = {KeyOf(w)}
<1>1. wards[w] # None /\ None \notin Live(buildings) BY LiveDocs, StakeConfigAssumption
<1>2. CASE wards[w].id = None
  <2>1. wards[w].name \in Live(buildings) /\ buildings[wards[w].name].name = wards[w].name BY <1>2 DEF WardsRefer
  <2>2. BuildingNamed(wards[w].name) = {wards[w].name} BY <2>1 DEF BuildingNamed, NamesUnique
  <2> QED BY <1>1, <1>2, <2>2 DEF WardBuilding, KeyOf
<1>3. CASE wards[w].id # None BY <1>1, <1>3 DEF WardBuilding, KeyOf, WardsRefer
<1> QED BY <1>2, <1>3

LEMMA ResolvesNext ==
    ASSUME ConfigTypes', NamesUnique', WardsRefer', NEW w \in Live(wards)'
    PROVE  WardBuilding(w)' = {KeyOf(w)'}
<1>1. wards'[w] # None /\ None \notin Live(buildings)'
  <2>1. DOMAIN wards' = Wards /\ DOMAIN buildings' = Names BY DEF ConfigTypes
  <2> QED BY <2>1, StakeConfigAssumption DEF Live
<1>2. CASE wards'[w].id = None
  <2>1. wards'[w].name \in Live(buildings)' /\ buildings'[wards'[w].name].name = wards'[w].name BY <1>2 DEF WardsRefer
  <2>2. {b \in Live(buildings)' : buildings'[b].name = wards'[w].name} = {wards'[w].name} BY <2>1 DEF NamesUnique
  <2>3. WardBuilding(w)' = {b \in Live(buildings)' : buildings'[b].name = wards'[w].name}
    BY <1>1, <1>2 DEF WardBuilding, BuildingNamed
  <2> QED BY <1>2, <2>2, <2>3 DEF KeyOf
<1>3. CASE wards'[w].id # None BY <1>1, <1>3 DEF WardBuilding, KeyOf, WardsRefer
<1> QED BY <1>2, <1>3

\* A ward keeps the building it resolves to.
Stays(w) == w \in Live(wards)' /\ KeyOf(w)' = KeyOf(w)

\* A step that leaves the wards and the names of the buildings alone.
LEMMA BindingsKept ==
    ASSUME Bindings' = Bindings
    PROVE  /\ UNCHANGED wards /\ Live(wards)' = Live(wards) /\ Live(buildings)' = Live(buildings)
           /\ \A b \in Live(buildings) : buildings'[b].name = buildings[b].name
<1> DEFINE names == [b \in Live(buildings) |-> buildings[b].name]
           newNames == [b \in Live(buildings)' |-> buildings'[b].name]
<1>1. wards' = wards /\ newNames = names BY DEF Bindings
<1>2. DOMAIN newNames = Live(buildings)' /\ DOMAIN names = Live(buildings) OBVIOUS
<1>3. \A b \in Live(buildings)' : newNames[b] = buildings'[b].name OBVIOUS
<1>4. \A b \in Live(buildings) : names[b] = buildings[b].name OBVIOUS
<1> HIDE DEF names, newNames
<1>5. Live(wards)' = Live(wards) BY <1>1 DEF Live
<1> QED BY <1>1, <1>2, <1>3, <1>4, <1>5

LEMMA ShapeKept ==
    ASSUME Bindings' = Bindings, NamesUnique, WardsRefer
    PROVE  /\ NamesUnique' /\ WardsRefer'
           /\ \A write : StillAllowed(write) => StillAllowed(write)'
           /\ \A w \in Live(wards) : Stays(w)
<1>1. /\ UNCHANGED wards /\ Live(wards)' = Live(wards) /\ Live(buildings)' = Live(buildings)
      /\ \A b \in Live(buildings) : buildings'[b].name = buildings[b].name
  BY BindingsKept
<1>2. NamesUnique' BY <1>1 DEF NamesUnique
<1>3. WardsRefer' BY <1>1 DEF WardsRefer
<1>4. \A n : BuildingNamed(n)' = BuildingNamed(n) BY <1>1 DEF BuildingNamed
<1>5. \A w : WardBuilding(w)' = WardBuilding(w) BY <1>1, <1>4 DEF WardBuilding
<1>6. ASSUME NEW write, StillAllowed(write) PROVE StillAllowed(write)' BY <1>1, <1>4, <1>5, <1>6 DEF StillAllowed
<1>7. \A w \in Live(wards) : Stays(w) BY <1>1 DEF Stays, KeyOf
<1> QED BY <1>2, <1>3, <1>6, <1>7

\* What a write leaves: sound references, and every ward it does not edit where it was.
RefsSound == NamesUnique /\ WardsRefer

LEMMA RefsOfBuilding ==
    ASSUME ConfigTypes, RefsSound, NEW o \in Operators, StillAllowed(web[o]), CommitBuilding(o)
    PROVE  RefsSound' /\ \A w \in Live(wards) : Stays(w)
<1> DEFINE write == web[o]
           b == write.id
<1>0. write.do = "building" BY DEF CommitBuilding
<1>1. /\ BuildingNamed(write.name) \subseteq {b}
      /\ \A x \in DOMAIN write.patches : /\ x \in Live(wards) /\ WardBuilding(x) = {b}
                                         /\ write.patches[x] = IF wards[x].id = None THEN b ELSE None
      /\ \A x \in Live(wards) \ DOMAIN write.patches :
           wards[x].id = None /\ WardBuilding(x) = {b} => wards[x].name = write.name
  BY <1>0 DEF StillAllowed
<1>2. /\ b \in Names /\ DOMAIN write.patches \subseteq Wards
      /\ buildings' \in [Names -> BuildingDoc \cup {None}] /\ wards' \in [Wards -> WardDoc \cup {None}]
      /\ buildings'[b] \in BuildingDoc /\ buildings'[b].name = write.name
      /\ \A c \in Names \ {b} : buildings'[c] = buildings[c]
      /\ \A w \in DOMAIN write.patches :
           /\ wards'[w] \in WardDoc
           /\ wards'[w].id = IF write.patches[w] # None THEN write.patches[w]
                             ELSE IF wards[w] = None THEN None ELSE wards[w].id
      /\ \A w \in Wards \ DOMAIN write.patches : wards'[w] = wards[w]
  BY Built
<1> HIDE DEF write
<1>3. b # None /\ None \notin BuildingDoc /\ None \notin WardDoc BY <1>2, StakeConfigAssumption
<1>4. Live(buildings)' = Live(buildings) \cup {b} BY <1>2, <1>3, LiveDocs DEF Live
<1>5. Live(wards)' = Live(wards) BY <1>1, <1>2, <1>3, LiveDocs DEF Live
<1>6. \A w \in Live(wards) : WardBuilding(w) = {KeyOf(w)} BY Resolves DEF RefsSound
<1>7. ASSUME NEW w \in DOMAIN write.patches PROVE wards'[w].id = b /\ KeyOf(w) = b
  <2>1. KeyOf(w) = b BY <1>1, <1>6
  <2>2. wards[w] # None BY <1>1, LiveDocs
  <2> QED BY <1>1, <1>2, <1>3, <2>1, <2>2 DEF KeyOf
<1>8. NamesUnique'
  <2>1. ASSUME NEW c \in Live(buildings)', c # b PROVE buildings'[c].name # write.name
    BY <1>1, <1>2, <1>4, <2>1, LiveDocs DEF BuildingNamed
  <2>2. \A c \in Live(buildings) \ {b} : buildings'[c] = buildings[c] BY <1>2, LiveDocs
  <2> QED BY <1>2, <1>4, <2>1, <2>2 DEF NamesUnique, RefsSound
<1>9. WardsRefer'
  <2>1. ASSUME NEW w \in Live(wards)
        PROVE  IF wards'[w].id = None
               THEN wards'[w].name \in Live(buildings)' /\ buildings'[wards'[w].name].name = wards'[w].name
               ELSE wards'[w].id \in Live(buildings)'
    <3>1. CASE w \in DOMAIN write.patches BY <1>3, <1>4, <1>7, <3>1
    <3>2. CASE w \notin DOMAIN write.patches
      <4>1. wards'[w] = wards[w] BY <1>2, <3>2, LiveDocs
      <4>2. CASE wards[w].id # None BY <1>4, <4>1, <4>2 DEF RefsSound, WardsRefer
      <4>3. CASE wards[w].id = None
        <5>1. wards[w].name \in Live(buildings) /\ buildings[wards[w].name].name = wards[w].name
          BY <4>3 DEF RefsSound, WardsRefer
        <5>2. CASE wards[w].name = b
          <6>1. wards[w].name = write.name BY <1>1, <1>6, <3>2, <4>3, <5>2 DEF KeyOf
          <6> QED BY <1>2, <1>4, <4>1, <4>3, <5>2, <6>1
        <5>3. CASE wards[w].name # b BY <1>2, <1>4, <4>1, <4>3, <5>1, <5>3, LiveDocs
        <5> QED BY <5>2, <5>3
      <4> QED BY <4>2, <4>3
    <3> QED BY <3>1, <3>2
  <2> QED BY <1>5, <2>1 DEF WardsRefer
<1>10. ASSUME NEW w \in Live(wards) PROVE Stays(w)
  <2>1. CASE w \in DOMAIN write.patches BY <1>3, <1>5, <1>7, <2>1 DEF Stays, KeyOf
  <2>2. CASE w \notin DOMAIN write.patches
    <3>1. wards'[w] = wards[w] BY <1>2, <2>2, LiveDocs
    <3> QED BY <1>5, <3>1 DEF Stays, KeyOf
  <2> QED BY <2>1, <2>2
<1> QED BY <1>8, <1>9, <1>10 DEF RefsSound

\* The other writes, each with what it may do to a ward's building.
LEMMA RefsOfCommit ==
    ASSUME ConfigTypes, RefsSound, NEW o \in Operators, StillAllowed(web[o]), Commits(o)
    PROVE  /\ RefsSound'
           /\ \A w \in Live(wards) : Stays(w) \/ (web[o].do \in {"ward", "deleteWard"} /\ web[o].id = w)
<1> DEFINE write == web[o]
<1>0. ConfigTypes' /\ NamesUnique /\ WardsRefer /\ StillAllowed(write) /\ WriteFits(write)
  BY TypesOfCommit DEF RefsSound, ConfigTypes
<1>00. DOMAIN buildings = Names /\ DOMAIN wards = Wards BY DEF ConfigTypes
<1>1. ASSUME UNCHANGED <<buildings, wards>> PROVE RefsSound' /\ \A w \in Live(wards) : Stays(w)
  <2>1. Live(buildings)' = Live(buildings) /\ Live(wards)' = Live(wards) BY <1>1 DEF Live
  <2>2. RefsSound' BY <1>0, <1>1, <2>1 DEF RefsSound, NamesUnique, WardsRefer
  <2> QED BY <1>1, <2>1, <2>2 DEF Stays, KeyOf
<1>2. CASE CommitBuilding(o) BY <1>2, RefsOfBuilding
<1>3. CASE CommitDeleteBuilding(o)
  <2>1. /\ write.do = "deleteBuilding" /\ buildings' = [buildings EXCEPT ![write.id] = None] /\ UNCHANGED wards
    BY <1>3 DEF CommitDeleteBuilding
  <2>2. /\ write.id \in Live(buildings)
        /\ \A x \in Live(wards) : wards[x].id # write.id /\ wards[x].name # buildings[write.id].name
    BY <1>0, <2>1 DEF StillAllowed
  <2> HIDE DEF write
  <2>3. Live(buildings)' = Live(buildings) \ {write.id} /\ Live(wards)' = Live(wards)
    BY <1>00, <2>1, <2>2 DEF Live
  <2>4. \A b \in Live(buildings)' : buildings'[b] = buildings[b] BY <1>00, <2>1, <2>3, LiveDocs
  <2>5. NamesUnique' BY <1>0, <2>3, <2>4 DEF NamesUnique
  <2>6. ASSUME NEW w \in Live(wards)
        PROVE  IF wards'[w].id = None
               THEN wards'[w].name \in Live(buildings)' /\ buildings'[wards'[w].name].name = wards'[w].name
               ELSE wards'[w].id \in Live(buildings)'
    <3>1. CASE wards[w].id = None
      <4>1. wards[w].name \in Live(buildings) /\ buildings[wards[w].name].name = wards[w].name BY <1>0, <3>1 DEF WardsRefer
      <4>2. wards[w].name # write.id BY <2>2, <4>1
      <4> QED BY <2>1, <2>3, <2>4, <3>1, <4>1, <4>2
    <3>2. CASE wards[w].id # None BY <1>0, <2>1, <2>2, <2>3, <3>2 DEF WardsRefer
    <3> QED BY <3>1, <3>2
  <2>7. WardsRefer' BY <2>3, <2>6 DEF WardsRefer
  <2> QED BY <2>1, <2>3, <2>5, <2>7 DEF RefsSound, Stays, KeyOf
<1>4. CASE CommitWard(o)
  <2>1. /\ write.do = "ward" /\ write.id \in Wards /\ write.building.id \in Live(buildings)
        /\ write.building \in WardDoc
        /\ wards' \in {wards, [wards EXCEPT ![write.id] = write.building]} /\ UNCHANGED buildings
    BY <1>0, <1>4 DEF CommitWard, StillAllowed, WriteFits
  <2> HIDE DEF write
  <2>2. None \notin Live(buildings) /\ write.building # None BY <2>1, LiveDocs, StakeConfigAssumption
  <2>3. /\ Live(buildings)' = Live(buildings)
        /\ Live(wards)' \subseteq Live(wards) \cup {write.id} /\ Live(wards) \subseteq Live(wards)'
        /\ \A w \in Live(wards)' : w # write.id => w \in Live(wards) /\ wards'[w] = wards[w]
        /\ wards'[write.id] \in {wards[write.id], write.building}
    BY <1>00, <2>1, <2>2 DEF Live
  <2>4. NamesUnique' BY <1>0, <2>1, <2>3 DEF NamesUnique
  <2>5. WardsRefer'
    <3>1. ASSUME NEW w \in Live(wards)', wards'[w] # write.building PROVE w \in Live(wards) /\ wards'[w] = wards[w]
      BY <1>00, <2>1, <3>1 DEF Live
    <3>2. ASSUME NEW w \in Live(wards)'
          PROVE  IF wards'[w].id = None
                 THEN wards'[w].name \in Live(buildings)' /\ buildings'[wards'[w].name].name = wards'[w].name
                 ELSE wards'[w].id \in Live(buildings)'
      <4>1. CASE wards'[w] = write.building BY <2>1, <2>2, <2>3, <4>1
      <4>2. CASE wards'[w] # write.building BY <1>0, <2>1, <2>3, <3>1, <4>2 DEF WardsRefer
      <4> QED BY <4>1, <4>2
    <3> QED BY <3>2 DEF WardsRefer
  <2>6. \A w \in Live(wards) : w # write.id => Stays(w) BY <2>3 DEF Stays, KeyOf
  <2> QED BY <2>1, <2>4, <2>5, <2>6 DEF RefsSound, write
<1>5. CASE CommitDeleteWard(o)
  <2>1. write.do = "deleteWard" /\ wards' = [wards EXCEPT ![write.id] = None] /\ UNCHANGED buildings
    BY <1>5 DEF CommitDeleteWard
  <2> HIDE DEF write
  <2>2. /\ Live(buildings)' = Live(buildings)
        /\ \A w \in Live(wards)' : w \in Live(wards) /\ wards'[w] = wards[w]
        /\ \A w \in Live(wards) : w # write.id => w \in Live(wards)' /\ wards'[w] = wards[w]
    BY <1>00, <2>1 DEF Live
  <2>3. NamesUnique' BY <1>0, <2>1, <2>2 DEF NamesUnique
  <2>4. WardsRefer' BY <1>0, <2>1, <2>2 DEF WardsRefer
  <2>5. \A w \in Live(wards) : w # write.id => Stays(w) BY <2>2 DEF Stays, KeyOf
  <2> QED BY <2>1, <2>3, <2>4, <2>5 DEF RefsSound, write
<1>6. CASE CommitSite(o) \/ CommitDeleteSite(o) \/ CommitHome(o)
  BY <1>1, <1>6 DEF CommitSite, CommitDeleteSite, CommitHome
<1>7. CASE CommitOrg(o) \/ CommitDeleteOrg(o) BY <1>1, <1>7 DEF CommitOrg, CommitDeleteOrg
<1> QED BY <1>2, <1>3, <1>4, <1>5, <1>6, <1>7 DEF Commits

\* An operator's guards hold until somebody else changes the wards or the names; the
\* extension changes rules and EIDs only.
LEMMA ReferencesNext ==
    ASSUME ConfigTypes, References, [Next]_vars, ~behind'
    PROVE  /\ References' /\ RefsSound /\ RefsSound'
           /\ \A w \in Live(wards) :
                \/ Stays(w)
                \/ \E o \in Operators : web[o].do \in {"ward", "deleteWard"} /\ web[o].id = w /\ web'[o] = Idle
<1> DEFINE Goal == /\ References' /\ RefsSound /\ RefsSound'
                   /\ \A w \in Live(wards) :
                        \/ Stays(w)
                        \/ \E o \in Operators : web[o].do \in {"ward", "deleteWard"} /\ web[o].id = w /\ web'[o] = Idle
<1>1. ASSUME Bindings' = Bindings, UNCHANGED <<behind, stale>>,
             \A q \in Operators \ stale : StillAllowed(web'[q]) \/ web'[q] = web[q]
      PROVE  Goal
  <2>1. NamesUnique /\ WardsRefer /\ \A q \in Operators \ stale : StillAllowed(web[q]) BY <1>1 DEF References
  <2>2. /\ NamesUnique' /\ WardsRefer' /\ \A write : StillAllowed(write) => StillAllowed(write)'
        /\ \A w \in Live(wards) : Stays(w)
    BY <1>1, <2>1, ShapeKept
  <2>3. ASSUME NEW q \in Operators \ stale' PROVE StillAllowed(web[q])'
    <3>1. PICK write : write = web'[q] OBVIOUS
    <3>2. StillAllowed(write) BY <1>1, <2>1, <2>3, <3>1
    <3>3. StillAllowed(write)' BY <2>2, <3>2
    <3> QED BY <3>1, <3>3
  <2> QED BY <2>1, <2>2, <2>3 DEF References, RefsSound
<1> HIDE DEF Goal
<1>2. ASSUME UNCHANGED <<buildings, wards, web, stale, behind>> PROVE Goal
  <2>1. Bindings' = Bindings BY <1>2 DEF Bindings, Live
  <2> QED BY <1>1, <1>2, <2>1
<1>3. ASSUME NEW o \in Operators, Submits(o) PROVE Goal
  <2>1. PICK write : Submit(o, write) /\ WriteFits(write) /\ (WardsRefer => StillAllowed(write)) BY <1>3, Submitted
  <2>2. web' = [web EXCEPT ![o] = write] /\ UNCHANGED <<buildings, wards, stale, behind>> BY <2>1 DEF Submit, docs
  <2>3. StillAllowed(write) BY <2>1, <2>2 DEF References
  <2>4. \A q \in Operators : web'[q] = IF q = o THEN write ELSE web[q] BY <2>1, <2>2, WebFits
  <2>5. Bindings' = Bindings BY <2>2 DEF Bindings, Live
  <2> QED BY <1>1, <2>2, <2>3, <2>4, <2>5
<1>4. ASSUME NEW o \in Operators, Commits(o) PROVE Goal
  <2>1. Done(o)
    BY <1>4 DEF Commits, CommitBuilding, CommitDeleteBuilding, CommitWard, CommitDeleteWard, CommitSite, CommitDeleteSite,
         CommitHome, CommitOrg, CommitDeleteOrg
  <2>2. \A q \in Operators : web'[q] = IF q = o THEN Idle ELSE web[q] BY <2>1, WebFits, IdleFits DEF Done
  <2>3. ~behind /\ (o \notin stale \/ web[o].do \notin {"building", "deleteBuilding", "ward"}) BY <2>1 DEF Done
  <2>4. RefsSound /\ \A q \in Operators \ stale : StillAllowed(web[q]) BY <2>3 DEF References, RefsSound
  <2>5. StillAllowed(web[o]) BY <2>3, <2>4 DEF StillAllowed
  <2>6. /\ RefsSound'
        /\ \A w \in Live(wards) : Stays(w) \/ (web[o].do \in {"ward", "deleteWard"} /\ web[o].id = w)
    BY <1>4, <2>4, <2>5, RefsOfCommit
  <2>7. ASSUME NEW q \in Operators \ stale' PROVE StillAllowed(web[q])'
    <3>1. CASE web'[q] = Idle BY <3>1 DEF StillAllowed, Idle
    <3>2. CASE web'[q] # Idle
      <4>1. q # o /\ web'[q] = web[q] BY <2>2, <3>2
      <4>2. Bindings' = Bindings /\ q \notin stale BY <2>1, <2>7, <3>2, <4>1 DEF Done
      <4>3. PICK write : write = web[q] OBVIOUS
      <4>4. StillAllowed(write) BY <2>4, <2>7, <4>2, <4>3
      <4>5. StillAllowed(write)' BY <2>4, <4>2, <4>4, ShapeKept DEF RefsSound
      <4> QED BY <4>1, <4>3, <4>5
    <3> QED BY <3>1, <3>2
  <2>8. References' BY <2>6, <2>7 DEF References, RefsSound
  <2> QED BY <2>2, <2>4, <2>6, <2>8 DEF Goal
<1>5. ASSUME NEW t \in Tabs, CommitWrite(t) PROVE Goal
  <2> DEFINE run == ext[t]
             done == (run.site # None => run.site \in Live(sites)) /\ run.rows \subseteq Live(buildings)
  <2>1. UNCHANGED <<wards, web, stale, behind>> BY <1>5, Batched
  <2>2. CASE ~done BY <1>2, <1>5, <2>1, <2>2, Batched
  <2>3. CASE done
    <3>1. /\ DOMAIN buildings' = Names /\ run \in WizardRun
          /\ \A b \in Names : buildings'[b] =
               IF b \in run.rows THEN [name |-> buildings[b].name, site |-> buildings[b].site, rule |-> run.eid,
                                       moved |-> run.site # buildings[b].site]
               ELSE buildings[b]
      BY <1>5, <2>3, Batched
    <3>2. run.eid \in Envs /\ run.rows \subseteq Names BY <3>1 DEF WizardRun
    <3>3. ASSUME NEW b \in run.rows PROVE buildings'[b] # None /\ buildings'[b].name = buildings[b].name
      <4>1. buildings[b] \in BuildingDoc BY <2>3, LiveDocs
      <4>2. buildings'[b] = [name |-> buildings[b].name, site |-> buildings[b].site, rule |-> run.eid,
                             moved |-> run.site # buildings[b].site]
        BY <3>1, <3>2
      <4>3. buildings'[b] \in BuildingDoc BY <3>2, <4>1, <4>2 DEF BuildingDoc
      <4> QED BY <4>2, <4>3, StakeConfigAssumption
    <3> HIDE DEF run
    <3>4. Live(buildings)' = Live(buildings) /\ \A b \in Live(buildings) : buildings'[b].name = buildings[b].name
      <4>1. DOMAIN buildings = Names BY DEF ConfigTypes
      <4>2. \A b \in Names \ run.rows : buildings'[b] = buildings[b] BY <3>1
      <4>3. run.rows \subseteq Live(buildings) BY <2>3 DEF run
      <4> QED BY <3>1, <3>3, <4>1, <4>2, <4>3 DEF Live
    <3>5. Bindings' = Bindings BY <2>1, <3>4 DEF Bindings
    <3> QED BY <1>1, <2>1, <3>5
  <2> QED BY <2>2, <2>3
<1>6. ASSUME NEW t \in Tabs, CheckWrite(t) \/ (\E e \in Envs : OpenWizard(t, e)) \/ (\E s \in Sites, e \in Envs : StartPopulate(t, s, e))
      PROVE  Goal
  BY <1>2, <1>6 DEF CheckWrite, OpenWizard, StartPopulate, Panel, docs
<1>7. ASSUME NEW n \in Names, AskFor(n) \/ GiveUp(n) PROVE Goal BY <1>2, <1>7 DEF AskFor, GiveUp, docs
<1>8. ASSUME NEW g \in Orgs, AskForOrg(g) \/ SeatOrg(g) \/ GiveUpOrg(g) PROVE Goal
  BY <1>2, <1>8 DEF AskForOrg, SeatOrg, GiveUpOrg, docs
<1>9. ASSUME UNCHANGED vars PROVE Goal BY <1>2, <1>9 DEF vars
<1>10. ASSUME \E o \in Operators : Submits(o) \/ Commits(o) PROVE Goal BY <1>3, <1>4, <1>10
<1>11. Goal BY <1>5, <1>6, <1>7, <1>8, <1>9, <1>10 DEF Next, Submits, Commits
<1> QED BY <1>11 DEF Goal

LEMMA ReferencesInit ==
    ASSUME Init
    PROVE  References
<1>1. PICK first \in Names, slugged \in BOOLEAN :
        /\ buildings = [b \in Names |->
             IF b = first THEN [name |-> b, site |-> None, rule |-> None, moved |-> FALSE] ELSE None]
        /\ wards = [w \in Wards |-> [id |-> IF slugged THEN first ELSE None, name |-> first]]
  BY DEF Init
<1>2. ConfigTypes BY ConfigTypesInit
<1>3. [name |-> first, site |-> None, rule |-> None, moved |-> FALSE] \in BuildingDoc BY DEF BuildingDoc
<1>4. buildings[first] = [name |-> first, site |-> None, rule |-> None, moved |-> FALSE] BY <1>1
<1>5. Live(buildings) = {first}
  <2>1. buildings[first] # None BY <1>3, <1>4, StakeConfigAssumption
  <2> QED BY <1>1, <1>2, <2>1, LiveDocs
<1>6. first # None BY StakeConfigAssumption
<1>7. NamesUnique BY <1>5 DEF NamesUnique
<1>8. WardsRefer
  <2>1. ASSUME NEW w \in Live(wards)
        PROVE  wards[w].name = first /\ wards[w].id \in {None, first}
    BY <1>1, <2>1 DEF Live
  <2> QED BY <1>4, <1>5, <1>6, <2>1 DEF WardsRefer
<1>9. \A o \in Operators : StillAllowed(web[o]) BY IdleFits DEF Init
<1> QED BY <1>7, <1>8, <1>9 DEF References

\* However many operators and Kindoo tabs there are, no rename, creation, deletion or
\* site edit of a building moves a ward to another one or loses it, until the write of
\* a building or a ward is made after the wards or the names it was decided on have
\* changed: the guards and the patches of a rename (hooks.ts wardRenamePatches,
\* buildingDeleteBlocker) cover a ward that holds the slug and one that holds the
\* first name alike.
THEOREM WardsStay == Spec => WardsStayBound
<1>1. Init => ConfigTypes /\ References BY ConfigTypesInit, ReferencesInit
<1>2. ConfigTypes /\ References /\ [Next]_vars => (ConfigTypes /\ References)'
  BY ConfigTypesNext, ReferencesNext DEF References
<1>3. ConfigTypes /\ References /\ [Next]_vars =>
        [~behind' => \A w \in Wards :
           (\A o \in Operators : ~(web[o].do \in {"ward", "deleteWard"} /\ web[o].id = w /\ web'[o] = Idle))
           /\ WardBuilding(w) # {}
           => WardBuilding(w)' = WardBuilding(w)]_vars
  <2> SUFFICES ASSUME ConfigTypes, References, [Next]_vars, ~behind', NEW w \in Wards, WardBuilding(w) # {},
                      \A o \in Operators : ~(web[o].do \in {"ward", "deleteWard"} /\ web[o].id = w /\ web'[o] = Idle)
               PROVE  WardBuilding(w)' = WardBuilding(w)
    OBVIOUS
  <2>1. w \in Live(wards) BY LiveDocs DEF WardBuilding
  <2>2. Stays(w) BY <2>1, ReferencesNext
  <2>3. WardBuilding(w) = {KeyOf(w)} BY <2>1, ReferencesNext, Resolves DEF RefsSound
  <2>4. ConfigTypes' /\ NamesUnique' /\ WardsRefer' BY ConfigTypesNext, ReferencesNext DEF RefsSound
  <2>5. WardBuilding(w)' = {KeyOf(w)'} BY <2>2, <2>4, ResolvesNext DEF Stays
  <2> QED BY <2>2, <2>3, <2>5 DEF Stays
<1> QED BY <1>1, <1>2, <1>3, PTL DEF Spec, WardsStayBound

-----------------------------------------------------------------------------
(* Configuration: sites and access rules.                                  *)

\* The EID of a site after a step.
NewEid(s) == IF s = None THEN home'.eid ELSE sites'[s].eid

\* Submissions, checks and openings leave every document alone.
LEMMA RulesLeft ==
    ASSUME UNCHANGED <<home, sites, buildings, overtaken>>, RulesMoveWithEid, SitesExist
    PROVE  RulesMoveWithEid' /\ SitesExist'
  BY DEF RulesMoveWithEid, SitesExist, EidOf, Live

LEMMA RulesOfBuilding ==
    ASSUME ConfigTypes, RulesKept, NEW o \in Operators, CommitBuilding(o)
    PROVE  RulesKept'
<1> DEFINE write == web[o]
           old == buildings[write.id]
<1>1. /\ write.id \in Names /\ UNCHANGED <<sites, home, ext>>
      /\ overtaken' = (overtaken \/ write.site \notin {None} \cup Live(sites))
      /\ buildings'[write.id].site = write.site
      /\ buildings'[write.id].rule = IF old = None THEN None ELSE old.rule
      /\ buildings'[write.id].moved = IF old = None THEN FALSE ELSE old.moved \/ old.site # write.site
      /\ \A b \in Names \ {write.id} : buildings'[b] = buildings[b]
      /\ DOMAIN buildings' = Names
  <2>1. UNCHANGED ext BY DEF CommitBuilding, Done
  <2> QED BY <2>1, Built
<1>2. DOMAIN buildings = Names BY DEF ConfigTypes
<1>3. ASSUME NEW b \in Live(buildings)', buildings'[b].rule # None, ~buildings'[b].moved
      PROVE  /\ b \in Live(buildings) /\ buildings'[b].site = buildings[b].site
             /\ buildings'[b].rule = buildings[b].rule /\ buildings[b].rule # None /\ ~buildings[b].moved
  <2>1. CASE b = write.id
    <3> HIDE DEF write
    <3> QED BY <1>1, <1>2, <1>3, <2>1 DEF Live
  <2>2. CASE b # write.id BY <1>1, <1>2, <1>3, <2>2 DEF Live
  <2> QED BY <2>1, <2>2
<1> HIDE DEF write, old
<1>4. RulesMoveWithEid'
  <2>1. Live(sites)' = Live(sites) /\ \A s : NewEid(s) = EidOf(s) BY <1>1 DEF Live, EidOf, NewEid
  <2> QED BY <1>1, <1>3, <2>1 DEF RulesKept, RulesMoveWithEid, EidOf, NewEid
<1>5. ASSUME ~overtaken', NEW b \in Live(buildings)' PROVE buildings'[b].site \in {None} \cup Live(sites)'
  <2>1. Live(sites)' = Live(sites) BY <1>1 DEF Live
  <2>2. CASE b = write.id BY <1>1, <1>5, <2>1, <2>2
  <2>3. CASE b # write.id
    <3>1. b \in Live(buildings) /\ buildings'[b] = buildings[b] BY <1>1, <1>2, <2>3 DEF Live
    <3> QED BY <1>1, <1>5, <2>1, <3>1 DEF RulesKept, SitesExist
  <2> QED BY <2>2, <2>3
<1>6. ~overtaken' => \A t \in Tabs : RowsCover(ext[t])' BY <1>1 DEF RulesKept, RowsCover
<1> QED BY <1>4, <1>5, <1>6 DEF RulesKept, SitesExist

\* A site keeps its EID as long as a building stands on it, and the home its own
\* once it has one.
LEMMA RulesOfCommit ==
    ASSUME ConfigTypes, RulesKept, NEW o \in Operators, Commits(o)
    PROVE  RulesKept'
<1> DEFINE write == web[o]
<1>0. WriteFits(write) BY DEF ConfigTypes
<1>1. UNCHANGED ext
  BY DEF Commits, CommitBuilding, CommitDeleteBuilding, CommitWard, CommitDeleteWard, CommitSite, CommitDeleteSite,
         CommitHome, CommitOrg, CommitDeleteOrg, Done
<1>2. ASSUME overtaken => overtaken', Live(buildings)' \subseteq Live(buildings),
             \A b \in Live(buildings)' : buildings'[b] = buildings[b],
             ~overtaken' => \A b \in Live(buildings) : buildings[b].site \in {None} \cup Live(sites)',
             ~overtaken' => \A b \in Live(buildings) :
               buildings[b].rule # None /\ ~buildings[b].moved => buildings[b].rule = NewEid(buildings[b].site)
      PROVE  RulesKept'
  <2>1. RulesMoveWithEid' BY <1>2 DEF RulesMoveWithEid, EidOf, NewEid
  <2>2. SitesExist' BY <1>2 DEF SitesExist
  <2>3. ~overtaken' => \A t \in Tabs : RowsCover(ext[t])' BY <1>1, <1>2 DEF RulesKept, RowsCover
  <2> QED BY <2>1, <2>2, <2>3 DEF RulesKept
<1>3. /\ ~overtaken => \A b \in Live(buildings) : buildings[b].site \in {None} \cup Live(sites)
      /\ ~overtaken => \A b \in Live(buildings) :
           buildings[b].rule # None /\ ~buildings[b].moved => buildings[b].rule = EidOf(buildings[b].site)
  BY DEF RulesKept, RulesMoveWithEid, SitesExist
<1>4. ASSUME UNCHANGED <<home, sites, overtaken>>, Live(buildings)' \subseteq Live(buildings),
             \A b \in Live(buildings)' : buildings'[b] = buildings[b]
      PROVE  RulesKept'
  <2>1. Live(sites)' = Live(sites) /\ \A s : NewEid(s) = EidOf(s) BY <1>4 DEF Live, EidOf, NewEid
  <2> QED BY <1>2, <1>3, <1>4, <2>1
<1>5. CASE CommitBuilding(o) BY <1>5, RulesOfBuilding
<1>6. CASE CommitDeleteBuilding(o)
  <2>1. buildings' = [buildings EXCEPT ![write.id] = None] /\ UNCHANGED <<home, sites, overtaken>> BY <1>6 DEF CommitDeleteBuilding
  <2> HIDE DEF write
  <2>2. \A b \in Live(buildings)' : b \in Live(buildings) /\ buildings'[b] = buildings[b] BY <2>1 DEF Live
  <2> QED BY <1>4, <2>1, <2>2
<1>7. CASE CommitWard(o) \/ CommitDeleteWard(o) BY <1>4, <1>7 DEF CommitWard, CommitDeleteWard, Live
<1>8. CASE CommitSite(o)
  <2> DEFINE old == sites[write.id]
             doc == [eid |-> IF old = None THEN None ELSE old.eid, expects |-> write.expects]
  <2>1. /\ write.id \in Sites /\ write.expects \in Envs /\ UNCHANGED <<buildings, wards, home, overtaken>>
        /\ sites' \in {sites, [sites EXCEPT ![write.id] = doc]}
    BY <1>0, <1>8 DEF CommitSite, WriteFits
  <2>2. doc \in SiteDoc
    <3>1. old # None => old.eid \in Envs \cup {None} BY <2>1 DEF ConfigTypes, SiteDoc
    <3> QED BY <2>1, <3>1 DEF SiteDoc
  <2>3. doc # None
    <3> HIDE DEF doc
    <3> QED BY <2>2, StakeConfigAssumption
  <2>4. old # None => doc.eid = old.eid OBVIOUS
  <2>5. DOMAIN sites = Sites BY DEF ConfigTypes
  <2>6. \A s \in Live(sites) : s \in Live(sites)' /\ sites'[s].eid = sites[s].eid
    <3> HIDE DEF write, doc
    <3> QED BY <2>1, <2>3, <2>4, <2>5 DEF Live
  <2>7. \A s \in {None} \cup Live(sites) : s \in {None} \cup Live(sites)' /\ NewEid(s) = EidOf(s) BY <2>1, <2>6 DEF EidOf, NewEid
  <2>8. Live(buildings)' = Live(buildings) BY <2>1 DEF Live
  <2> HIDE DEF write, doc, old
  <2> QED BY <1>2, <1>3, <2>1, <2>7, <2>8
<1>9. CASE CommitDeleteSite(o)
  <2>1. /\ write.do = "deleteSite" /\ sites' = [sites EXCEPT ![write.id] = None]
        /\ overtaken' = (overtaken \/ BuildingsOf(write.id) # write.read)
        /\ UNCHANGED <<buildings, wards, home>>
    BY <1>9 DEF CommitDeleteSite
  <2>2. ~overtaken' => \A b \in Live(buildings) : buildings[b].site # write.id
    BY <1>0, <2>1 DEF WriteFits, BuildingsOf
  <2> HIDE DEF write
  <2>3. \A s \in Live(sites) \ {write.id} : s \in Live(sites)' /\ sites'[s] = sites[s] BY <2>1 DEF Live
  <2>4. \A s \in ({None} \cup Live(sites)) \ {write.id} : s \in {None} \cup Live(sites)' /\ NewEid(s) = EidOf(s)
    <3>1. home' = home BY <2>1
    <3> QED BY <2>3, <3>1 DEF EidOf, NewEid
  <2>5. Live(buildings)' = Live(buildings) BY <2>1 DEF Live
  <2>6. overtaken => overtaken' BY <2>1
  <2> QED BY <1>2, <1>3, <2>1, <2>2, <2>4, <2>5, <2>6
<1>10. CASE CommitHome(o)
  <2>1. /\ write.do = "home" /\ home' = [eid |-> write.eid, expects |-> write.expects]
        /\ overtaken' = (overtaken \/ <<home, ForeignEids>> # write.read)
        /\ UNCHANGED <<buildings, wards, sites>>
    BY <1>10 DEF CommitHome
  <2>2. home'.eid = write.eid BY <2>1
  <2>3. ASSUME ~overtaken' PROVE home.eid \in {None, write.eid}
    <3>1. PICK h, F : write.read = <<h, F>> /\ (h.eid = write.eid \/ (h.eid = None /\ write.eid \notin F))
      BY <1>0, <2>1 DEF WriteFits
    <3>2. write.read = <<home, ForeignEids>> BY <2>1, <2>3
    <3>3. h = home BY <3>1, <3>2
    <3> QED BY <3>1, <3>3
  <2> HIDE DEF write
  <2>4. Live(sites)' = Live(sites) /\ Live(buildings)' = Live(buildings) BY <2>1 DEF Live
  <2>5. \A s : s # None \/ home.eid = write.eid => NewEid(s) = EidOf(s) BY <2>1, <2>2 DEF EidOf, NewEid
  <2>6. EidOf(None) = home.eid BY DEF EidOf
  <2>7. overtaken => overtaken' BY <2>1
  <2>8. ASSUME ~overtaken', NEW b \in Live(buildings), buildings[b].rule # None, ~buildings[b].moved
        PROVE  buildings[b].rule = NewEid(buildings[b].site)
    BY <1>3, <2>3, <2>5, <2>6, <2>7, <2>8
  <2> QED BY <1>2, <1>3, <2>1, <2>4, <2>7, <2>8
<1>11. CASE CommitOrg(o) \/ CommitDeleteOrg(o) BY <1>4, <1>11 DEF CommitOrg, CommitDeleteOrg
<1> QED BY <1>5, <1>6, <1>7, <1>8, <1>9, <1>10, <1>11 DEF Commits

\* The rows of a wizard are the buildings of its site; whatever joins the site later
\* comes without a rule or from another site, or another wizard has been there.
LEMMA RulesNext ==
    ASSUME ConfigTypes, RulesKept, [Next]_vars
    PROVE  RulesKept'
<1>0. ConfigTypes' BY ConfigTypesNext
<1>1. ASSUME UNCHANGED <<home, sites, buildings, overtaken>>,
             ~overtaken => \A t \in Tabs : RowsCover(ext'[t]) \/ ext'[t] = ext[t]
      PROVE  RulesKept'
  <2>1. RulesMoveWithEid' /\ SitesExist' BY <1>1, RulesLeft DEF RulesKept
  <2>2. ASSUME ~overtaken', NEW t \in Tabs PROVE RowsCover(ext[t])'
    <3>1. PICK run : run = ext'[t] OBVIOUS
    <3>2. RowsCover(run) BY <1>1, <2>2, <3>1 DEF RulesKept
    <3> QED BY <3>1, <3>2 DEF RowsCover
  <2> QED BY <2>1, <2>2 DEF RulesKept
<1>2. ASSUME NEW o \in Operators, Submits(o) PROVE RulesKept'
  <2>1. \E write : Submit(o, write) BY <1>2, Submitted
  <2> QED BY <1>1, <2>1 DEF Submit, docs
<1>3. ASSUME NEW o \in Operators, Commits(o) PROVE RulesKept' BY <1>3, RulesOfCommit
<1>4. ASSUME NEW t \in Tabs, NEW run, Panel(t, run), ~overtaken => RowsCover(run) PROVE RulesKept'
  <2>1. DOMAIN ext = Tabs BY DEF ConfigTypes
  <2>2. ext' = [ext EXCEPT ![t] = run] /\ UNCHANGED docs /\ UNCHANGED overtaken BY <1>4 DEF Panel
  <2>3. \A u \in Tabs : ext'[u] = IF u = t THEN run ELSE ext[u] BY <2>1, <2>2
  <2> QED BY <1>1, <1>4, <2>2, <2>3 DEF docs
<1>5. ASSUME NEW t \in Tabs, NEW e \in Envs, OpenWizard(t, e) PROVE RulesKept'
  <2>1. PICK s \in ActiveSites(e) : Panel(t, [do |-> "wizard", site |-> s, eid |-> e, checked |-> FALSE,
                                              rows |-> BuildingsOf(s), read |-> RuledOf(s)])
    BY <1>5 DEF OpenWizard
  <2>2. RuledOf(s) \subseteq BuildingsOf(s) BY DEF RuledOf
  <2>3. RowsCover([do |-> "wizard", site |-> s, eid |-> e, checked |-> FALSE,
                   rows |-> BuildingsOf(s), read |-> RuledOf(s)])
    BY <2>2 DEF RowsCover
  <2> QED BY <1>4, <2>1, <2>3
<1>6. ASSUME NEW t \in Tabs, NEW s \in Sites, NEW e \in Envs, StartPopulate(t, s, e) PROVE RulesKept'
  <2>1. s \in Live(sites) /\ sites[s].eid = None BY <1>6 DEF StartPopulate
  <2>2. EidOf(s) = None BY <2>1, LiveDocs, StakeConfigAssumption DEF EidOf
  <2>3. ~overtaken => RuledOf(s) = {}
    BY <2>2 DEF RulesKept, RulesMoveWithEid, RuledOf, BuildingsOf
  <2>4. ~overtaken => RowsCover([do |-> "populate", site |-> s, eid |-> e, checked |-> FALSE, rows |-> {}, read |-> RuledOf(s)])
    BY <2>3 DEF RowsCover
  <2> QED BY <1>4, <1>6, <2>4 DEF StartPopulate
<1>7. ASSUME NEW t \in Tabs, CheckWrite(t) PROVE RulesKept'
  <2>1. ext[t] \in WizardRun /\ DOMAIN ext = Tabs BY <1>7 DEF CheckWrite, ConfigTypes
  <2>2. PICK run : /\ run \in {Idle, [ext[t] EXCEPT !.checked = TRUE]}
                   /\ ext' = [ext EXCEPT ![t] = run]
    BY <1>7 DEF CheckWrite
  <2>3. run # Idle => run.read = ext[t].read /\ run.rows = ext[t].rows /\ ext[t] # Idle
    BY <1>7, <2>1, <2>2 DEF WizardRun, CheckWrite
  <2>4. ~overtaken => RowsCover(run) BY <2>3 DEF RulesKept, RowsCover
  <2>5. \A u \in Tabs : ext'[u] = IF u = t THEN run ELSE ext[u] BY <2>1, <2>2
  <2>6. UNCHANGED <<home, sites, buildings, overtaken>> BY <1>7 DEF CheckWrite, docs
  <2> QED BY <1>1, <2>4, <2>5, <2>6
<1>8. ASSUME NEW t \in Tabs, CommitWrite(t) PROVE RulesKept'
  <2> DEFINE run == ext[t]
             done == (run.site # None => run.site \in Live(sites)) /\ run.rows \subseteq Live(buildings)
  <2>1. DOMAIN ext = Tabs /\ ext' = [ext EXCEPT ![t] = Idle] /\ run \in WizardRun /\ run # Idle
    BY <1>8, Batched DEF ConfigTypes, CommitWrite
  <2>2. \A u \in Tabs : ext'[u] \in {Idle, ext[u]} BY <2>1
  <2>3. ~overtaken => \A u \in Tabs : RowsCover(ext[u])' BY <2>2 DEF RulesKept, RowsCover
  <2>4. CASE ~done
    <3>1. UNCHANGED <<home, sites, buildings, overtaken>> BY <1>8, <2>4, Batched
    <3>2. RowsCover(Idle) BY DEF RowsCover
    <3> QED BY <1>1, <2>2, <3>1, <3>2
  <2>5. CASE done
    <3>1. /\ overtaken' = (overtaken \/ ~MayWrite(run.site, run.eid) \/ ~(RuledOf(run.site) \subseteq run.read))
          /\ DOMAIN buildings' = Names
          /\ \A b \in Names : buildings'[b] =
               IF b \in run.rows THEN [name |-> buildings[b].name, site |-> buildings[b].site, rule |-> run.eid,
                                       moved |-> run.site # buildings[b].site]
               ELSE buildings[b]
          /\ run.site = None => UNCHANGED sites /\ home' = [eid |-> run.eid, expects |-> home.expects]
          /\ run.site # None => /\ UNCHANGED home /\ run.site \in Live(sites)
                                /\ sites' = [sites EXCEPT ![run.site] = [eid |-> run.eid, expects |-> sites[run.site].expects]]
      BY <1>8, <2>5, Batched
    <3>2. run.eid \in Envs /\ run.rows \subseteq Names /\ run.rows \subseteq Live(buildings) BY <2>1, <2>5 DEF WizardRun
    <3>3. DOMAIN buildings = Names /\ DOMAIN sites = Sites BY DEF ConfigTypes
    <3>4. /\ run.site \in {None} \cup Live(sites)' /\ NewEid(run.site) = run.eid
          /\ \A s \in ({None} \cup Live(sites)) \ {run.site} : s \in {None} \cup Live(sites)' /\ NewEid(s) = EidOf(s)
      <4>1. CASE run.site = None BY <3>1, <4>1 DEF EidOf, NewEid, Live
      <4>2. CASE run.site # None
        <5>1. sites[run.site] \in SiteDoc BY <3>1, <4>2, LiveDocs
        <5>2. [eid |-> run.eid, expects |-> sites[run.site].expects] \in SiteDoc BY <3>2, <5>1 DEF SiteDoc
        <5>3. [eid |-> run.eid, expects |-> sites[run.site].expects] # None BY <5>2, StakeConfigAssumption
        <5> HIDE DEF run
        <5> QED BY <3>1, <3>3, <4>2, <5>3 DEF EidOf, NewEid, Live
      <4> QED BY <4>1, <4>2
    <3>5. ASSUME ~overtaken', NEW b \in Live(buildings)', buildings'[b].rule # None, ~buildings'[b].moved
          PROVE  /\ buildings'[b].site \in {None} \cup Live(sites)'
                 /\ buildings'[b].rule = NewEid(buildings'[b].site)
      <4>1. b \in Names /\ ~overtaken BY <3>1, <3>5 DEF Live
      <4>2. CASE b \in run.rows
        <5>1. buildings'[b] = [name |-> buildings[b].name, site |-> buildings[b].site, rule |-> run.eid,
                               moved |-> run.site # buildings[b].site]
          BY <3>1, <4>1, <4>2
        <5>2. /\ buildings'[b].site = buildings[b].site /\ buildings'[b].rule = run.eid
              /\ buildings'[b].moved = (run.site # buildings[b].site)
          BY <5>1
        <5>3. run.site = buildings[b].site BY <3>5, <5>2
        <5> QED BY <3>4, <5>2, <5>3
      <4>3. CASE b \notin run.rows
        <5>1. buildings'[b] = buildings[b] BY <3>1, <4>1, <4>3
        <5>2. b \in Live(buildings) BY <3>3, <3>5, <4>1, <5>1 DEF Live
        <5>3. buildings[b].site # run.site
          <6>1. RuledOf(run.site) \subseteq run.read BY <3>1, <3>5
          <6>2. run.read \subseteq run.rows BY <2>1, <4>1 DEF RulesKept, RowsCover
          <6>3. b \notin RuledOf(run.site) BY <4>3, <6>1, <6>2
          <6>4. buildings[b].rule # None /\ ~buildings[b].moved BY <3>5, <5>1
          <6> HIDE DEF run
          <6> QED BY <5>2, <6>3, <6>4 DEF RuledOf, BuildingsOf
        <5>4. buildings[b].site \in {None} \cup Live(sites) /\ buildings[b].rule = EidOf(buildings[b].site)
          BY <3>5, <4>1, <5>1, <5>2 DEF RulesKept, RulesMoveWithEid
        <5> HIDE DEF run
        <5> QED BY <3>4, <5>1, <5>3, <5>4
      <4> QED BY <4>2, <4>3
    <3>6. RulesMoveWithEid' BY <3>5 DEF RulesMoveWithEid, EidOf, NewEid
    <3>7. SitesExist'
      <4>1. ASSUME ~overtaken', NEW b \in Live(buildings)' PROVE buildings'[b].site \in {None} \cup Live(sites)'
        <5>1. b \in Names /\ ~overtaken BY <3>1, <4>1 DEF Live
        <5>2. CASE b \in run.rows
          <6>1. buildings'[b].site = buildings[b].site /\ b \in Live(buildings) BY <3>1, <3>2, <5>1, <5>2
          <6> QED BY <3>4, <5>1, <6>1 DEF RulesKept, SitesExist
        <5>3. CASE b \notin run.rows
          <6>1. buildings'[b] = buildings[b] BY <3>1, <5>1, <5>3
          <6>2. b \in Live(buildings) BY <3>3, <4>1, <5>1, <6>1 DEF Live
          <6> QED BY <3>4, <5>1, <6>1, <6>2 DEF RulesKept, SitesExist
        <5> QED BY <5>2, <5>3
      <4> QED BY <4>1 DEF SitesExist
    <3>8. overtaken => overtaken' BY <3>1
    <3> QED BY <2>3, <3>6, <3>7, <3>8 DEF RulesKept
  <2> QED BY <2>4, <2>5
<1>9. ASSUME NEW n \in Names, AskFor(n) \/ GiveUp(n) PROVE RulesKept' BY <1>1, <1>9 DEF AskFor, GiveUp, docs
<1>10. ASSUME NEW g \in Orgs, AskForOrg(g) \/ SeatOrg(g) \/ GiveUpOrg(g) PROVE RulesKept'
  BY <1>1, <1>10 DEF AskForOrg, SeatOrg, GiveUpOrg, docs
<1>11. ASSUME UNCHANGED vars PROVE RulesKept' BY <1>1, <1>11 DEF vars
<1>12. CASE \E o \in Operators : Submits(o) \/ Commits(o) BY <1>2, <1>3, <1>12
<1> QED BY <1>5, <1>6, <1>7, <1>8, <1>9, <1>10, <1>11, <1>12 DEF Next, Submits, Commits

\* However many operators and Kindoo tabs there are, every building is of a site that
\* exists, every Kindoo environment of one site, and every access rule of the
\* environment of its building's site, until a write is made after what it was decided
\* on has changed (hooks.ts, data.ts writeKindooConfig: the page's guards and the
\* wizard's rows are snapshots, and no write of either is a transaction).
THEOREM SitesStaySound == Spec => []SitesSound
<1> DEFINE IInv == ConfigTypes /\ EidsDisjoint /\ RulesKept
<1>1. Init => IInv
  <2> SUFFICES ASSUME Init PROVE IInv OBVIOUS
  <2>1. ConfigTypes BY ConfigTypesInit
  <2>2. EidsDisjoint BY NoForeignEidsFirst DEF EidsDisjoint
  <2>3. \A b \in Live(buildings) : buildings[b].rule = None /\ buildings[b].site = None BY DEF Init, Live
  <2>4. \A t \in Tabs : ext[t] = Idle BY DEF Init
  <2>5. RulesKept BY <2>3, <2>4 DEF RulesKept, RulesMoveWithEid, SitesExist, RowsCover
  <2> QED BY <2>1, <2>2, <2>5
<1>2. IInv /\ [Next]_vars => IInv' BY ConfigTypesNext, EidsNext, RulesNext
<1>3. IInv => SitesSound BY DEF RulesKept, SitesSound
<1> QED BY <1>1, <1>2, <1>3, PTL DEF Spec

=============================================================================
