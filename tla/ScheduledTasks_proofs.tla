----------------------- MODULE ScheduledTasks_proofs -----------------------
(***************************************************************************)
(* A person's switch survives the dispatcher, no slot is passed by, and    *)
(* repeated mails are paid for with faults: for any number of overlapping  *)
(* invocations, queued tasks, attempts, edits and faults.                  *)
(***************************************************************************)
EXTENDS ScheduledTasks, FiniteSetTheorems, SequenceTheorems, WellFoundedInduction, TLAPS

-----------------------------------------------------------------------------
(* The invariant.                                                          *)

StampRow == [index : Nat, job : Jobs, due : 0..Cycle]

PassType ==
    [step : {"idle", "rows"}, tasks : Seq(Row), seeded : SUBSET Jobs, stamps : SUBSET StampRow, at : Nat \ {0}]

Task ==
    [job : Jobs, n : 1..MaxQueued, tries : Nat, step : {"waiting", "clear", "mail", "stamp"},
     todo : SUBSET Targets, landed : 0..1]

DateTypes ==
    /\ stamp \in [Jobs -> 0..Never] /\ mailed \in [Targets -> 0..Never]
    /\ \A j \in Jobs : stamp[j] \in 0..Backoff[j] \cup {Never}
    /\ \A t \in Targets : mailed[t] \in 0..Backoff[JobOf(t)] \cup {Never}

Situations == [overdue : BOOLEAN, managers : BOOLEAN, grants : SUBSET Scopes, bishoprics : SUBSET Wards]

Types ==
    /\ hour \in 0..(Cycle - 1) /\ fired \in BOOLEAN /\ ids \subseteq Jobs
    /\ tasks \in Seq(Row)
    /\ passes \in [Passes -> PassType]
    /\ work \subseteq Task /\ IsFiniteSet(work)
    /\ DateTypes
    /\ repeats \in [Targets -> Nat] /\ faults \in Nat
    /\ choice \in [Jobs -> {"on", "off", "default"}]
    /\ situation \in Situations

OneRow(rows) == \A i, k \in DOMAIN rows : rows[i].job = rows[k].job => i = k

\* A job has one row, whose switch is the decision; without one it is not on.
Switches ==
    /\ OneRow(tasks)
    /\ \A i \in DOMAIN tasks : tasks[i].enabled = (choice[tasks[i].job] = "on")
    /\ \A j \in Jobs : RowOf(j, tasks) = {} => choice[j] # "on"

\* An invocation means to stamp only what it has enqueued this hour.
StampsEnqueued ==
    \A p \in Passes :
        /\ \A s \in passes[p].stamps : s.job \in ids
        /\ passes[p].step = "idle" => passes[p].stamps = {}

WorkOf(j) == {w \in work : w.job = j}

\* There is room in the queue for the hour's task of a job.
Room == \A j \in Jobs : Cardinality(WorkOf(j)) + (IF j \in ids THEN 0 ELSE 1) <= MaxQueued

\* A task mails the targets of its job, and only the reminder clears its date.
TaskSound ==
    \A w \in work :
        /\ \A t \in w.todo : JobOf(t) = w.job
        /\ w.step = "clear" => w.job = "syncReminder"

\* A task that may still mail t, and one that is in the middle of it.
Awaits(w, t) == w.job = JobOf(t) /\ (w.step = "waiting" \/ (w.step = "mail" /\ t \in w.todo))
Pending(t) == {w \in work : Awaits(w, t)}
Mailing(t) == \E w \in work : Awaits(w, t) /\ w.step = "mail"

\* The task this hour may still add to them.
ToCome(t) == IF JobOf(t) \in ids THEN 0 ELSE 1
Chances(t) == Cardinality(Pending(t)) + ToCome(t)

Recent(t) == mailed[t] < Backoff[JobOf(t)]
Elapsed(t) == BackoffElapsed(JobOf(t))
\* A task that has mailed somebody and will stamp the job of t.
Stamper(t) == \E w \in work : w.job = JobOf(t) /\ w.step = "mail" /\ w.landed = 1

\* Every mail a target may still get out of turn is paid for by a fault.
Paid(t) ==
    /\ repeats[t] <= faults
    /\ repeats[t] + Chances(t) <= faults + 1
    /\ Recent(t) /\ (Elapsed(t) \/ Mailing(t)) => repeats[t] + Chances(t) <= faults
    /\ Recent(t) /\ Elapsed(t) /\ ~Stamper(t) => repeats[t] + 1 <= faults

Budget == \A t \in Targets : Paid(t)

\* A running date is no older than the mails it stands for; while a task mails, it
\* is of today.
Dates ==
    /\ \A t \in Targets : ~Elapsed(t) => stamp[JobOf(t)] <= mailed[t]
    /\ \A w \in work : w.step = "mail" /\ w.todo # {} /\ ~BackoffElapsed(w.job) => stamp[w.job] = 0

IInv == Types /\ Switches /\ StampsEnqueued /\ Room /\ TaskSound /\ Budget /\ Dates
-----------------------------------------------------------------------------
(* Sequences and finite sets.                                              *)

\* A set of naturals that is not empty has a least member.
LEMMA LeastOf == ASSUME NEW I, I \subseteq Nat, I # {} PROVE \E x \in I : \A y \in I : x <= y
<1> DEFINE R == OpToRel(<, Nat)
<1>1. \E x \in I : \A y \in I : ~(<<y, x>> \in R)
  BY NatLessThanWellFounded, WFMin
<1>2. ASSUME NEW x \in Nat, NEW y \in Nat, y < x PROVE <<y, x>> \in R
  <2>1. <<y, x>>[1] < <<y, x>>[2] BY <1>2
  <2> QED BY <2>1, Zenon DEF OpToRel
<1> HIDE DEF R
<1>3. PICK x \in I : \A y \in I : ~(<<y, x>> \in R) BY <1>1
<1>4. ASSUME NEW y \in I PROVE x <= y
  <2>1. x \in Nat /\ y \in Nat OBVIOUS
  <2>2. ~(y < x) BY <1>2, <1>3, <2>1
  <2> QED BY <2>1, <2>2
<1> QED BY <1>4

\* The search for the next due row stays within the rows, or ends after them.
LEMMA NextDueIn ==
    ASSUME NEW rows \in Seq(Row), NEW i \in 1..(Len(rows) + 1)
    PROVE  NextDue(rows, i) \in i..(Len(rows) + 1)
<1>1. Len(rows) \in Nat BY LenProperties
<1> DEFINE I == {k \in i..(Len(rows) + 1) : k <= Len(rows) => IsTaskDue(rows[k])}
<1>2. I \subseteq Nat /\ Len(rows) + 1 \in I BY <1>1
<1>3. PICK k \in I : \A l \in I : k <= l BY ONLY <1>2, LeastOf
<1>4. ASSUME NEW l \in i..(k - 1) PROVE ~IsTaskDue(rows[l])
  <2>1. l \in i..(Len(rows) + 1) /\ l < k BY <1>1, <1>3
  <2>2. l \notin I BY <1>3, <2>1, <1>1
  <2> QED BY <2>1, <2>2
<1>5. \E n \in i..(Len(rows) + 1) :
        /\ n <= Len(rows) => IsTaskDue(rows[n])
        /\ \A l \in i..(n - 1) : ~IsTaskDue(rows[l])
  BY <1>3, <1>4
<1> QED BY <1>5 DEF NextDue

\* SetToSeq lists a finite set, each member once.
LEMMA Listed ==
    ASSUME NEW S, IsFiniteSet(S)
    PROVE  LET s == SetToSeq(S) IN
           /\ s \in Seq(S)
           /\ \A i, k \in DOMAIN s : s[i] = s[k] => i = k
           /\ \A x \in S : \E i \in DOMAIN s : s[i] = x
<1> DEFINE n == Cardinality(S)
           s == SetToSeq(S)
<1>1. n \in Nat /\ ExistsBijection(1..n, S) BY FS_CardinalityType
<1>2. \E f \in [1..n -> S] : IsInjective(f)
  BY <1>1 DEF ExistsBijection, Bijection, Injection, IsInjective
<1>3. s \in [1..n -> S] /\ IsInjective(s) BY <1>2 DEF SetToSeq
<1>4. IsFiniteSet(1..n) /\ Cardinality(1..n) = n BY <1>1, FS_Interval
<1> HIDE DEF s, n
<1>5. s \in Injection(1..n, S) BY <1>3 DEF Injection, IsInjective
<1>6. s \in Surjection(1..n, S) BY ONLY <1>4, <1>5, FS_Injection, n = Cardinality(S), IsFiniteSet(S) DEF n
<1>7. \A x \in S : \E i \in 1..n : s[i] = x BY <1>6 DEF Surjection
<1>8. DOMAIN s = 1..n BY <1>3
<1>9. s \in Seq(S) BY <1>1, <1>3, SeqDef
<1>10. \A i, k \in DOMAIN s : s[i] = s[k] => i = k BY <1>3 DEF IsInjective
<1> QED BY <1>7, <1>8, <1>9, <1>10 DEF s

LEMMA Fewer ==
    ASSUME NEW P, IsFiniteSet(P), NEW Q, Q \subseteq P
    PROVE  IsFiniteSet(Q) /\ Cardinality(Q) \in Nat /\ Cardinality(P) \in Nat /\ Cardinality(Q) <= Cardinality(P)
  BY FS_Subset, FS_CardinalityType

LEMMA OneLess ==
    ASSUME NEW P, IsFiniteSet(P), NEW w \in P, NEW Q, Q \subseteq P \ {w}
    PROVE  Cardinality(Q) <= Cardinality(P) - 1
<1>1. IsFiniteSet(P \ {w}) /\ Cardinality(P \ {w}) = Cardinality(P) - 1
  BY FS_RemoveElement
<1> QED BY <1>1, FS_Subset

LEMMA OneMore ==
    ASSUME NEW P, IsFiniteSet(P), NEW v, NEW Q, Q \subseteq P \cup {v}
    PROVE  Cardinality(Q) <= Cardinality(P) + 1
<1>1. /\ IsFiniteSet(P \cup {v})
      /\ Cardinality(P \cup {v}) = IF v \in P THEN Cardinality(P) ELSE Cardinality(P) + 1
  BY FS_AddElement
<1>2. Cardinality(Q) <= Cardinality(P \cup {v}) /\ Cardinality(Q) \in Nat /\ Cardinality(P) \in Nat
  BY <1>1, FS_Subset, FS_CardinalityType
<1> QED BY <1>1, <1>2

LEMMA Exchanged ==
    ASSUME NEW P, IsFiniteSet(P), NEW w \in P, NEW v, NEW Q, Q \subseteq (P \ {w}) \cup {v}
    PROVE  Cardinality(Q) <= Cardinality(P)
<1>1. IsFiniteSet(P \ {w}) /\ Cardinality(P \ {w}) = Cardinality(P) - 1
  BY FS_RemoveElement
<1>2. Cardinality(Q) <= Cardinality(P \ {w}) + 1 BY <1>1, OneMore
<1>3. Cardinality(P) \in Nat BY FS_CardinalityType
<1> QED BY <1>1, <1>2, <1>3

LEMMA AtMostOne ==
    ASSUME NEW P, \A x, y \in P : x = y
    PROVE  Cardinality(P) <= 1
<1>1. CASE P = {} BY <1>1, FS_EmptySet
<1>2. CASE P # {}
  <2>1. PICK x \in P : TRUE BY <1>2
  <2>2. P = {x} BY <2>1
  <2>3. Cardinality(P) = 1 BY <2>2, FS_Singleton, Zenon
  <2> QED BY <2>3
<1> QED BY <1>1, <1>2
-----------------------------------------------------------------------------
(* Types.                                                                  *)

LEMMA HoursAhead ==
    ASSUME NEW j \in Jobs, hour \in 0..(Cycle - 1)
    PROVE  NextTriggerTime(j) \in 1..Cycle
<1>1. Cycle \in Nat \ {0} /\ Slot[j] \in 0..(Cycle - 1) BY ScheduledTasksAssumption
<1>2. Slot[j] - hour + Cycle - 1 \in Int BY <1>1
<1>3. \A x \in Int : x % Cycle \in 0..(Cycle - 1) BY <1>1
<1>4. (Slot[j] - hour + Cycle - 1) % Cycle \in 0..(Cycle - 1) BY <1>2, <1>3
<1> QED BY <1>1, <1>4 DEF NextTriggerTime

\* While a job's task of this hour is to come, a number is free for it.
LEMMA Queued ==
    ASSUME Types, Room, NEW j \in Jobs, j \notin ids
    PROVE  QueueItem(j) \in Task /\ QueueItem(j).job = j /\ QueueItem(j).step = "waiting" /\ QueueItem(j).todo = {}
<1> DEFINE W == WorkOf(j)
           f == [w \in W |-> w.n]
           T == {f[w] : w \in W}
<1>1. IsFiniteSet(W) /\ Cardinality(W) \in Nat
  <2>1. W \subseteq work BY DEF WorkOf
  <2> QED BY <2>1, Fewer DEF Types
<1>2. MaxQueued \in Nat BY ScheduledTasksAssumption
<1>3. Cardinality(W) < MaxQueued BY <1>1, <1>2 DEF Room
<1>4. IsFiniteSet(T) /\ Cardinality(T) <= Cardinality(W)
  <2>1. f \in Surjection(W, T) BY DEF Surjection
  <2> HIDE DEF f, T, W
  <2> QED BY <1>1, <2>1, FS_Surjection
<1>5. IsFiniteSet(1..MaxQueued) /\ Cardinality(1..MaxQueued) = MaxQueued BY <1>2, FS_Interval
<1>6. ~(1..MaxQueued \subseteq T)
  <2> HIDE DEF T, W
  <2>1. ASSUME 1..MaxQueued \subseteq T PROVE FALSE
    <3>1. Cardinality(1..MaxQueued) <= Cardinality(T) BY <1>4, <2>1, FS_Subset
    <3>2. Cardinality(T) \in Nat BY <1>4, FS_CardinalityType
    <3> QED BY <1>1, <1>2, <1>3, <1>4, <1>5, <3>1, <3>2
  <2> QED BY <2>1
<1>7. PICK n \in 1..MaxQueued : n \notin T BY <1>6
<1>8. [job |-> j, n |-> n] \notin {[job |-> w.job, n |-> w.n] : w \in work}
  <2>1. ASSUME NEW w \in work, [job |-> j, n |-> n] = [job |-> w.job, n |-> w.n] PROVE FALSE
    <3>1. w.job = j /\ w.n = n BY <2>1
    <3>2. w \in W BY <3>1 DEF WorkOf
    <3> QED BY <3>1, <3>2, <1>7
  <2> QED BY <2>1
<1> DEFINE c == CHOOSE k \in 1..MaxQueued : [job |-> j, n |-> k] \notin {[job |-> w.job, n |-> w.n] : w \in work}
<1>9. c \in 1..MaxQueued BY <1>8
<1>10. QueueItem(j) = [job |-> j, n |-> c, tries |-> 0, step |-> "waiting", todo |-> {}, landed |-> 0]
  BY DEF QueueItem
<1> HIDE DEF c
<1> QED BY <1>9, <1>10 DEF Task

\* The seeded rows: one for each job, switched off.
LEMMA Seeded ==
    ASSUME NEW js \in SUBSET Jobs, hour \in 0..(Cycle - 1)
    PROVE  /\ SeedRows(js) \in Seq(Row)
           /\ OneRow(SeedRows(js))
           /\ \A i \in DOMAIN SeedRows(js) :
                SeedRows(js)[i].job \in js /\ SeedRows(js)[i].enabled = FALSE /\ SeedRows(js)[i].due # Due
<1> DEFINE S == {[job |-> j, enabled |-> FALSE, due |-> NextTriggerTime(j)] : j \in js}
<1>1. S \subseteq Row
  <2>1. ASSUME NEW j \in js PROVE [job |-> j, enabled |-> FALSE, due |-> NextTriggerTime(j)] \in Row
    <3>1. NextTriggerTime(j) \in 1..Cycle BY HoursAhead
    <3> QED BY <3>1 DEF Row
  <2> QED BY <2>1
<1>2. \A x, y \in S : x.job = y.job => x = y
  <2>1. \A x \in S : x = [job |-> x.job, enabled |-> FALSE, due |-> NextTriggerTime(x.job)]
    OBVIOUS
  <2> HIDE DEF S
  <2> QED BY <2>1
<1>3. \A x \in S : x.job \in js /\ x.enabled = FALSE /\ x.due # Due
  <2>1. ASSUME NEW j \in js PROVE NextTriggerTime(j) # Due
    <3>1. NextTriggerTime(j) \in 1..Cycle BY HoursAhead
    <3> QED BY <3>1 DEF Due
  <2> QED BY <2>1
<1>4. IsFiniteSet(S)
  <2> DEFINE f == [j \in js |-> [job |-> j, enabled |-> FALSE, due |-> NextTriggerTime(j)]]
  <2>1. f \in Surjection(js, S) BY DEF Surjection
  <2>2. IsFiniteSet(js)
    <3>1. Jobs = {"syncReminder", "manualSeatReview"} BY DEF Jobs
    <3>2. IsFiniteSet({"syncReminder"}) BY FS_Singleton
    <3>3. IsFiniteSet({"syncReminder"} \cup {"manualSeatReview"}) BY <3>2, FS_AddElement
    <3>4. IsFiniteSet(Jobs) BY <3>1, <3>3
    <3> QED BY <3>4, FS_Subset
  <2> HIDE DEF f, S
  <2> QED BY <2>1, <2>2, FS_Surjection
<1> DEFINE s == SetToSeq(S)
<1>5. SeedRows(js) = s BY DEF SeedRows
<1> HIDE DEF S
<1>6. s \in Seq(S) /\ \A i, k \in DOMAIN s : s[i] = s[k] => i = k BY <1>4, Listed
<1> HIDE DEF s
<1>7. Len(s) \in Nat /\ s \in [1..Len(s) -> S] /\ DOMAIN s = 1..Len(s) BY <1>6, LenProperties
<1>8. s \in Seq(Row) BY <1>1, <1>7, SeqDef
<1> QED BY <1>2, <1>3, <1>5, <1>6, <1>7, <1>8 DEF OneRow
\* Stamping moves the date of rows whose job is stamped and nothing else.
LEMMA StampedRows ==
    ASSUME NEW rows \in Seq(Row), NEW stamps \in SUBSET StampRow
    PROVE  LET new == Stamped(rows, stamps) IN
           /\ new \in Seq(Row) /\ DOMAIN new = DOMAIN rows /\ Len(new) = Len(rows)
           /\ \A i \in DOMAIN rows : new[i].job = rows[i].job /\ new[i].enabled = rows[i].enabled
           /\ \A i \in DOMAIN rows : new[i].due # rows[i].due => \E s \in stamps : s.job = rows[i].job
<1> DEFINE new == Stamped(rows, stamps)
           Mine(i) == {s \in stamps : i \in IndexOfStampTarget(rows, s)}
<1>1. /\ Len(rows) \in Nat /\ DOMAIN rows = 1..Len(rows)
      /\ \A i \in DOMAIN rows : rows[i] \in Row
  BY LenProperties, ElementOfSeq
<1>2. /\ DOMAIN new = DOMAIN rows /\ new = [i \in DOMAIN rows |-> new[i]]
      /\ \A i \in DOMAIN rows : new[i] = IF Mine(i) = {} THEN rows[i]
                                         ELSE [rows[i] EXCEPT !.due = (CHOOSE s \in Mine(i) : TRUE).due]
  BY DEF Stamped
<1>3. ASSUME NEW i \in DOMAIN rows
      PROVE  /\ new[i] \in Row /\ new[i].job = rows[i].job /\ new[i].enabled = rows[i].enabled
             /\ new[i].due # rows[i].due => \E s \in stamps : s.job = rows[i].job
  <2>1. CASE Mine(i) = {} BY <1>1, <1>2, <2>1
  <2>2. CASE Mine(i) # {}
    <3> DEFINE s == CHOOSE x \in Mine(i) : TRUE
    <3>1. s \in stamps /\ i \in IndexOfStampTarget(rows, s) BY <2>2
    <3>2. new[i] = [rows[i] EXCEPT !.due = s.due] BY <1>2, <2>2
    <3> HIDE DEF s, new, Mine
    <3>3. s.job = rows[i].job
      <4>1. CASE s.index \in DOMAIN rows /\ rows[s.index].job = s.job
        BY <3>1, <4>1 DEF IndexOfStampTarget
      <4>2. CASE ~(s.index \in DOMAIN rows /\ rows[s.index].job = s.job)
        BY <3>1, <4>2 DEF IndexOfStampTarget, RowOf
      <4> QED BY <4>1, <4>2
    <3>4. s.due \in 0..Cycle BY <3>1 DEF StampRow
    <3> QED BY <1>1, <3>1, <3>2, <3>3, <3>4 DEF Row
  <2> QED BY <2>1, <2>2
<1> HIDE DEF new
<1>4. new \in [1..Len(rows) -> Row] BY <1>1, <1>2, <1>3
<1>5. new \in Seq(Row) /\ Len(new) = Len(rows) BY <1>1, <1>4, SeqDef, LenProperties
<1> QED BY <1>2, <1>3, <1>5 DEF new

\* The committed rows: the ones that stand, stamped, and a seed for each job
\* that has none.
LEMMA Committed ==
    ASSUME Types, NEW p \in Passes
    PROVE  LET js == {j \in passes[p].seeded : RowOf(j, tasks) = {}}
               new == Stamped(tasks, passes[p].stamps) \o SeedRows(js) IN
           /\ new \in Seq(Row)
           /\ OneRow(tasks) => OneRow(new)
           /\ DOMAIN tasks \subseteq DOMAIN new
           /\ \A i \in DOMAIN tasks :
                /\ new[i].job = tasks[i].job /\ new[i].enabled = tasks[i].enabled
                /\ new[i].due # tasks[i].due => \E s \in passes[p].stamps : s.job = tasks[i].job
           /\ \A i \in (DOMAIN new) \ DOMAIN tasks :
                new[i].job \in js /\ new[i].enabled = FALSE
<1> DEFINE js == {j \in passes[p].seeded : RowOf(j, tasks) = {}}
           a == Stamped(tasks, passes[p].stamps)
           b == SeedRows(js)
           new == a \o b
<1>0. passes[p] \in PassType /\ tasks \in Seq(Row) BY DEF Types
<1>1. passes[p].stamps \in SUBSET StampRow /\ passes[p].seeded \in SUBSET Jobs BY <1>0 DEF PassType
<1>2. /\ a \in Seq(Row) /\ DOMAIN a = DOMAIN tasks /\ Len(a) = Len(tasks)
      /\ \A i \in DOMAIN tasks : a[i].job = tasks[i].job /\ a[i].enabled = tasks[i].enabled
      /\ \A i \in DOMAIN tasks : a[i].due # tasks[i].due => \E s \in passes[p].stamps : s.job = tasks[i].job
  BY ONLY <1>0, <1>1, StampedRows
<1>3. js \in SUBSET Jobs BY <1>1
<1>4. hour \in 0..(Cycle - 1) BY DEF Types
<1> HIDE DEF js
<1>5. /\ b \in Seq(Row) /\ OneRow(b)
      /\ \A i \in DOMAIN b : b[i].job \in js /\ b[i].enabled = FALSE
  BY ONLY <1>3, <1>4, Seeded, ScheduledTasksAssumption
<1> HIDE DEF a, b
<1>6. /\ new \in Seq(Row) /\ Len(new) = Len(a) + Len(b)
      /\ \A i \in 1..(Len(a) + Len(b)) : new[i] = IF i <= Len(a) THEN a[i] ELSE b[i - Len(a)]
  BY <1>2, <1>5, ConcatProperties
<1>7. /\ Len(a) \in Nat /\ Len(b) \in Nat /\ DOMAIN a = 1..Len(a) /\ DOMAIN b = 1..Len(b)
      /\ DOMAIN new = 1..(Len(a) + Len(b))
  BY <1>2, <1>5, <1>6, LenProperties
<1> HIDE DEF new
<1>8. \A i \in DOMAIN tasks : i \in DOMAIN new /\ new[i] = a[i] BY <1>2, <1>6, <1>7
<1>9. \A i \in (DOMAIN new) \ DOMAIN tasks : i - Len(a) \in DOMAIN b /\ new[i] = b[i - Len(a)]
  BY <1>2, <1>6, <1>7
<1>10. \A j \in js : \A i \in DOMAIN tasks : tasks[i].job # j BY DEF js, RowOf
<1>11. ASSUME OneRow(tasks), NEW i \in DOMAIN new, NEW k \in DOMAIN new, new[i].job = new[k].job PROVE i = k
  <2>1. CASE i \in DOMAIN tasks /\ k \in DOMAIN tasks BY <1>2, <1>8, <1>11, <2>1 DEF OneRow
  <2>2. CASE i \in DOMAIN tasks /\ k \notin DOMAIN tasks BY <1>2, <1>5, <1>8, <1>9, <1>10, <1>11, <2>2
  <2>3. CASE i \notin DOMAIN tasks /\ k \in DOMAIN tasks BY <1>2, <1>5, <1>8, <1>9, <1>10, <1>11, <2>3
  <2>4. CASE i \notin DOMAIN tasks /\ k \notin DOMAIN tasks
    <3>1. b[i - Len(a)].job = b[k - Len(a)].job BY <1>9, <1>11, <2>4
    <3>2. i - Len(a) = k - Len(a) BY <1>5, <1>9, <2>4, <3>1 DEF OneRow
    <3> QED BY <1>7, <3>2
  <2> QED BY <2>1, <2>2, <2>3, <2>4
<1>12. OneRow(tasks) => OneRow(new) BY <1>11 DEF OneRow
<1>13. \A i \in DOMAIN tasks :
         /\ new[i].job = tasks[i].job /\ new[i].enabled = tasks[i].enabled
         /\ new[i].due # tasks[i].due => \E s \in passes[p].stamps : s.job = tasks[i].job
  BY <1>2, <1>8
<1>14. \A i \in (DOMAIN new) \ DOMAIN tasks : new[i].job \in js /\ new[i].enabled = FALSE
  BY <1>5, <1>9
<1> QED BY <1>6, <1>8, <1>12, <1>13, <1>14 DEF new, a, b, js
-----------------------------------------------------------------------------
(* Steps keep the types.                                                   *)

LEMMA Constants ==
    /\ Cycle \in Nat \ {0} /\ Slot \in [Jobs -> 0..(Cycle - 1)]
    /\ Backoff \in [Jobs -> 1..Never] /\ Never = 99
    /\ MaxQueued \in Nat \ {0} /\ MaxAttempts \in Nat \ {0}
    /\ Jobs = {"syncReminder", "manualSeatReview"}
    /\ \A t \in Targets : JobOf(t) \in Jobs
    /\ \A s \in Scopes : s \in Targets /\ JobOf(s) = "manualSeatReview"
    /\ "managers" \in Targets /\ JobOf("managers") = "syncReminder"
  BY ScheduledTasksAssumption DEF Never, Jobs, JobOf, Targets, Scopes

\* What the queue becomes when one of its tasks takes a step.
LEMMA WorkBecomes ==
    ASSUME Types, NEW w \in work, NEW v \in Task, Becomes(w, v)
    PROVE  work' \subseteq Task /\ IsFiniteSet(work')
<1>1. work' = (work \ {w}) \cup {v} BY DEF Becomes
<1>2. IsFiniteSet(work \ {w}) BY FS_RemoveElement DEF Types
<1>3. IsFiniteSet((work \ {w}) \cup {v}) BY <1>2, FS_AddElement
<1> QED BY <1>1, <1>3 DEF Types

\* One field of a task at a time.
LEMMA TaskFields ==
    ASSUME NEW w \in Task
    PROVE  /\ \A s \in {"waiting", "clear", "mail", "stamp"} : [w EXCEPT !.step = s] \in Task
           /\ [w EXCEPT !.tries = @ + 1] \in Task
           /\ \A t : [w EXCEPT !.todo = @ \ {t}] \in Task
           /\ [w EXCEPT !.todo = {}] \in Task
           /\ [w EXCEPT !.landed = 0] \in Task
           /\ [w EXCEPT !.landed = 1] \in Task
<1>1. \A s \in {"waiting", "clear", "mail", "stamp"} : [w EXCEPT !.step = s] \in Task BY DEF Task
<1>2. [w EXCEPT !.tries = @ + 1] \in Task BY DEF Task
<1>3. \A t : [w EXCEPT !.todo = @ \ {t}] \in Task BY DEF Task
<1>4. [w EXCEPT !.todo = {}] \in Task BY DEF Task
<1>5. [w EXCEPT !.landed = 0] \in Task BY DEF Task
<1>6. [w EXCEPT !.landed = 1] \in Task BY DEF Task
<1> QED BY <1>1, <1>2, <1>3, <1>4, <1>5, <1>6

LEMMA WorkDone ==
    ASSUME Types, NEW w \in work, Done(w)
    PROVE  work' \subseteq Task /\ IsFiniteSet(work')
  BY FS_RemoveElement DEF Types, Done

LEMMA TypesDispatch ==
    ASSUME Types, Room, NEW p \in Passes,
           ReadSchedule(p) \/ Proceed(p) \/ EnqueueFails(p) \/ PassDies(p)
    PROVE  Types'
<1> USE DEF Types
<1>0. passes[p] \in PassType OBVIOUS
<1>1. Idle \in PassType BY DEF Idle, PassType, EmptySeq
<1>2. ASSUME NEW pass \in PassType, passes' = [passes EXCEPT ![p] = pass] PROVE passes' \in [Passes -> PassType]
  BY <1>2
<1>3. ASSUME passes[p].step = "rows", passes[p].at <= Len(passes[p].tasks), NEW S \in SUBSET StampRow, Moves(p, S)
      PROVE  passes' \in [Passes -> PassType]
  <2> DEFINE rows == passes[p].tasks
             next == NextDue(rows, passes[p].at + 1)
  <2>1. rows \in Seq(Row) /\ passes[p].at \in Nat \ {0} BY <1>0 DEF PassType
  <2>2. Len(rows) \in Nat BY <2>1, LenProperties
  <2>3. passes[p].at + 1 \in 1..(Len(rows) + 1) BY <1>3, <2>1, <2>2
  <2> HIDE DEF rows
  <2>4. next \in (passes[p].at + 1)..(Len(rows) + 1) BY <2>1, <2>3, NextDueIn
  <2>5. next \in Nat \ {0} BY <2>1, <2>2, <2>4
  <2>6. passes' = [passes EXCEPT ![p].at = next, ![p].stamps = @ \cup S] BY <1>3 DEF Moves, rows
  <2> HIDE DEF next
  <2> QED BY <1>0, <1>3, <2>5, <2>6 DEF PassType
<1>4. ASSUME passes[p].step = "rows", passes[p].at <= Len(passes[p].tasks)
      PROVE  passes[p].tasks[passes[p].at].job \in Jobs
  <2>1. passes[p].tasks \in Seq(Row) /\ passes[p].at \in Nat \ {0} BY <1>0 DEF PassType
  <2>2. Len(passes[p].tasks) \in Nat BY <2>1, LenProperties
  <2>3. passes[p].at \in 1..Len(passes[p].tasks) BY <1>4, <2>1, <2>2
  <2>4. passes[p].tasks[passes[p].at] \in Row BY <2>1, <2>3, ElementOfSeq
  <2> QED BY <2>4 DEF Row
<1>5. CASE ReadSchedule(p)
  <2>1. Len(tasks) \in Nat BY LenProperties
  <2>2. NextDue(tasks, 1) \in 1..(Len(tasks) + 1) BY <2>1, NextDueIn
  <2>3. NextDue(tasks, 1) \in Nat \ {0} BY <2>1, <2>2
  <2> DEFINE pass == [step |-> "rows", tasks |-> tasks, seeded |-> {j \in Jobs : RowOf(j, tasks) = {}}, stamps |-> {},
                      at |-> NextDue(tasks, 1)]
  <2>4. pass \in PassType BY <2>3 DEF PassType
  <2>5. passes' = [passes EXCEPT ![p] = pass] BY <1>5 DEF ReadSchedule
  <2> HIDE DEF pass
  <2>6. passes' \in [Passes -> PassType] BY <2>4, <2>5
  <2> QED BY <1>5, <2>6 DEF ReadSchedule, Fault, doc, runner, DateTypes
<1>6. CASE Enqueue(p)
  <2> DEFINE i == passes[p].at
             j == passes[p].tasks[i].job
             S == {[index |-> i, job |-> j, due |-> NextTriggerTime(j)]}
  <2>1. j \in Jobs BY <1>4, <1>6 DEF Enqueue
  <2>2. NextTriggerTime(j) \in 1..Cycle BY <2>1, HoursAhead
  <2>3. i \in Nat BY <1>0 DEF PassType
  <2> HIDE DEF j
  <2>4. S \in SUBSET StampRow BY <2>1, <2>2, <2>3 DEF StampRow
  <2>5. Moves(p, S) BY <1>6 DEF Enqueue, j
  <2> HIDE DEF S
  <2>6. passes' \in [Passes -> PassType] BY <1>3, <1>6, <2>4, <2>5 DEF Enqueue
  <2>7. ids' \subseteq Jobs /\ work' \subseteq Task /\ IsFiniteSet(work')
    <3>1. CASE j \in ids BY <1>6, <3>1 DEF Enqueue, j
    <3>2. CASE j \notin ids
      <4>1. QueueItem(j) \in Task BY <2>1, <3>2, Queued DEF Types
      <4>2. ids' = ids \cup {j} /\ work' = work \cup {QueueItem(j)} BY <1>6, <3>2 DEF Enqueue, j
      <4> QED BY <2>1, <4>1, <4>2, FS_AddElement
    <3> QED BY <3>1, <3>2
  <2> QED BY <1>6, <2>6, <2>7 DEF Enqueue, doc, DateTypes
<1>7. CASE CommitScheduleChanges(p)
  <2>1. tasks' \in Seq(Row) BY <1>7, Committed DEF CommitScheduleChanges
  <2>2. passes' \in [Passes -> PassType] BY <1>1, <1>2, <1>7 DEF CommitScheduleChanges
  <2> QED BY <1>7, <2>1, <2>2 DEF CommitScheduleChanges, runner, DateTypes
<1>8. CASE EnqueueFails(p)
  <2>1. passes' \in [Passes -> PassType] BY <1>3, <1>8 DEF EnqueueFails
  <2> QED BY <1>8, <2>1 DEF EnqueueFails, Fault, doc, runner, DateTypes
<1>9. CASE PassDies(p)
  <2>1. passes' \in [Passes -> PassType] BY <1>1, <1>2, <1>9 DEF PassDies
  <2> QED BY <1>9, <2>1 DEF PassDies, Fault, doc, runner, DateTypes
<1> QED BY <1>5, <1>6, <1>7, <1>8, <1>9 DEF Proceed
LEMMA TypesRun ==
    ASSUME Types, NEW w \in work,
           Attempt(w) \/ (\E t \in Targets : MailFails(w, t)) \/ AttemptFails(w)
    PROVE  Types'
<1>0. /\ w \in Task /\ repeats \in [Targets -> Nat] /\ faults \in Nat /\ DateTypes
      /\ situation \in Situations
  BY DEF Types
<1>1. \A s \in {"waiting", "clear", "mail", "stamp"} : [w EXCEPT !.step = s] \in Task
  BY <1>0, TaskFields
<1>2. ASSUME NEW v \in Task, Becomes(w, v), UNCHANGED <<hour, doc, dispatcher, situation>>, DateTypes',
             repeats' \in [Targets -> Nat], faults' \in Nat
      PROVE  Types'
  <2>1. work' \subseteq Task /\ IsFiniteSet(work') BY <1>2, WorkBecomes
  <2> QED BY <1>2, <2>1 DEF Types, doc, dispatcher
<1>3. ASSUME Done(w), UNCHANGED <<hour, doc, dispatcher, situation, repeats>>, DateTypes', faults' \in Nat
      PROVE  Types'
  <2>1. work' \subseteq Task /\ IsFiniteSet(work') BY <1>3, WorkDone
  <2> QED BY <1>3, <2>1 DEF Types, doc, dispatcher
<1>4. UNCHANGED <<stamp, mailed>> => DateTypes' BY <1>0 DEF DateTypes
<1>5. CASE ReminderRests(w)
  BY <1>0, <1>1, <1>2, <1>3, <1>4, <1>5 DEF ReminderRests, HandlerUnchanged
<1>6. CASE ClearStamp(w)
  <2>1. /\ w.job \in Jobs /\ stamp' = [stamp EXCEPT ![w.job] = Never]
        /\ mailed' = [mailed EXCEPT !["managers"] = Never]
    BY <1>0, <1>6 DEF ClearStamp, Task
  <2>2. DateTypes' BY <1>0, <2>1, Constants DEF DateTypes
  <2> QED BY <1>0, <1>3, <1>6, <2>2 DEF ClearStamp, HandlerUnchanged
<1>7. CASE ReminderFires(w)
  <2>1. [w EXCEPT !.step = "mail", !.todo = {"managers"}] \in Task BY <1>0, Constants DEF Task
  <2> QED BY <1>0, <1>2, <1>4, <1>7, <2>1 DEF ReminderFires, HandlerUnchanged
<1>8. CASE ReviewRests(w)
  BY <1>0, <1>1, <1>2, <1>3, <1>4, <1>8 DEF ReviewRests, HandlerUnchanged
<1>9. CASE ReviewFires(w)
  <2>1. Reachable \subseteq Targets BY <1>0, Constants DEF Reachable, Situations
  <2>2. [w EXCEPT !.step = "mail", !.todo = Reachable] \in Task BY <1>0, <2>1 DEF Task
  <2> QED BY <1>0, <1>2, <1>3, <1>4, <1>9, <2>2 DEF ReviewFires, HandlerUnchanged
<1>10. ASSUME NEW t \in Targets, Mail(w, t) PROVE Types'
  <2> DEFINE v == [w EXCEPT !.todo = @ \ {t}, !.landed = 1]
  <2>1. v \in Task
    <3>1. PICK u \in Task : u = [w EXCEPT !.todo = @ \ {t}] BY <1>0, TaskFields
    <3>2. [u EXCEPT !.landed = 1] \in Task BY TaskFields
    <3> QED BY <3>1, <3>2
  <2>2. Becomes(w, v) BY <1>10 DEF Mail
  <2>3. repeats' \in [Targets -> Nat]
    <3>1. repeats' = [repeats EXCEPT ![t] = IF mailed[t] < Backoff[w.job] THEN @ + 1 ELSE @] BY <1>10 DEF Mail
    <3> QED BY <1>0, <3>1
  <2>4. mailed' = [mailed EXCEPT ![t] = 0] /\ stamp' = stamp BY <1>10 DEF Mail
  <2>5. DateTypes' BY <1>0, <2>4, Constants DEF DateTypes
  <2> HIDE DEF v
  <2> QED BY <1>0, <1>2, <1>10, <2>1, <2>2, <2>3, <2>5 DEF Mail, HandlerUnchanged
<1>11. CASE Stamp(w)
  <2>1. w.job \in Jobs BY <1>0 DEF Task
  <2>2. stamp' = stamp \/ stamp' = [stamp EXCEPT ![w.job] = 0] BY <1>11 DEF Stamp
  <2>3. mailed' = mailed BY <1>11 DEF Stamp
  <2>4. DateTypes' BY <1>0, <2>1, <2>2, <2>3, Constants DEF DateTypes
  <2> QED BY <1>0, <1>3, <1>11, <2>4 DEF Stamp, HandlerUnchanged
<1>12. ASSUME NEW t \in Targets, MailFails(w, t) PROVE Types'
  <2> DEFINE v == [w EXCEPT !.todo = @ \ {t}]
  <2>1. v \in Task BY <1>0 DEF Task
  <2>2. Becomes(w, v) BY <1>12 DEF MailFails
  <2> HIDE DEF v
  <2> QED BY <1>0, <1>2, <1>4, <1>12, <2>1, <2>2 DEF MailFails, Fault
<1>13. CASE AttemptFails(w)
  <2> DEFINE v == [w EXCEPT !.step = "waiting", !.tries = @ + 1, !.todo = {}, !.landed = 0]
  <2>1. v \in Task
    <3>1. PICK a \in Task : a = [w EXCEPT !.step = "waiting"] BY <1>0, TaskFields
    <3>2. PICK b \in Task : b = [a EXCEPT !.tries = @ + 1] BY TaskFields
    <3>3. PICK c \in Task : c = [b EXCEPT !.todo = {}] BY TaskFields
    <3>4. [c EXCEPT !.landed = 0] \in Task BY TaskFields
    <3>5. v = [c EXCEPT !.landed = 0] BY <3>1, <3>2, <3>3
    <3> QED BY <3>4, <3>5
  <2>2. Becomes(w, v) \/ Done(w) BY <1>13 DEF AttemptFails
  <2> HIDE DEF v
  <2> QED BY <1>0, <1>2, <1>3, <1>4, <1>13, <2>1, <2>2 DEF AttemptFails, Fault
<1> QED BY <1>5, <1>6, <1>7, <1>8, <1>9, <1>10, <1>11, <1>12, <1>13 DEF Attempt

LEMMA RemovedRow ==
    ASSUME NEW rows \in Seq(Row), NEW i \in 1..Len(rows)
    PROVE  LET new == RemoveAt(rows, i) IN
           /\ new \in Seq(Row)
           /\ Len(new) = Len(rows) - 1
           /\ \A k \in 1..(Len(rows) - 1) : new[k] = IF k < i THEN rows[k] ELSE rows[k + 1]
<1> DEFINE a == SubSeq(rows, 1, i - 1)
           b == SubSeq(rows, i + 1, Len(rows))
<1>1. Len(rows) \in Nat BY LenProperties
<1>2. \A k \in 1..Len(rows) : rows[k] \in Row BY ElementOfSeq
<1>3. a \in Seq(Row) /\ Len(a) = i - 1 /\ \A k \in 1..i - 1 : a[k] = rows[k]
  <2>1. a \in Seq(Row) /\ Len(a) = (IF 1 <= i - 1 THEN i - 1 - 1 + 1 ELSE 0)
        /\ \A k \in 1..(i - 1) - 1 + 1 : a[k] = rows[1 + k - 1]
    BY <1>1, <1>2, SubSeqProperties
  <2>2. \A k \in 1..i - 1 : k \in 1..(i - 1) - 1 + 1 /\ 1 + k - 1 = k BY <1>1
  <2> QED BY <2>1, <2>2
<1>4. b \in Seq(Row) /\ Len(b) = Len(rows) - i /\ \A k \in 1..Len(rows) - i : b[k] = rows[k + i]
  <2>1. b \in Seq(Row) /\ Len(b) = (IF i + 1 <= Len(rows) THEN Len(rows) - (i + 1) + 1 ELSE 0)
        /\ \A k \in 1..Len(rows) - (i + 1) + 1 : b[k] = rows[i + 1 + k - 1]
    BY <1>1, <1>2, SubSeqProperties
  <2>2. Len(b) = Len(rows) - i BY <2>1, <1>1
  <2>3. \A k \in 1..Len(rows) - i : k \in 1..Len(rows) - (i + 1) + 1 /\ i + 1 + k - 1 = k + i BY <1>1
  <2> QED BY <2>1, <2>2, <2>3
<1>5. RemoveAt(rows, i) = a \o b BY DEF RemoveAt
<1> HIDE DEF a, b
<1>6. /\ a \o b \in Seq(Row)
      /\ Len(a \o b) = Len(a) + Len(b)
      /\ \A k \in 1..Len(a) + Len(b) : (a \o b)[k] = IF k <= Len(a) THEN a[k] ELSE b[k - Len(a)]
  BY <1>3, <1>4, ConcatProperties
<1>7. ASSUME NEW k \in 1..(Len(rows) - 1) PROVE (a \o b)[k] = IF k < i THEN rows[k] ELSE rows[k + 1]
  <2>1. CASE k < i
    <3>1. k \in 1..i - 1 /\ k <= Len(a) /\ k \in 1..Len(a) + Len(b) BY <1>1, <1>3, <1>4, <2>1
    <3> QED BY <1>3, <1>6, <2>1, <3>1
  <2>2. CASE ~(k < i)
    <3>1. /\ k - Len(a) \in 1..Len(rows) - i /\ k - Len(a) + i = k + 1
          /\ ~(k <= Len(a)) /\ k \in 1..Len(a) + Len(b)
      BY <1>1, <1>3, <1>4, <2>2
    <3> QED BY <1>4, <1>6, <2>2, <3>1
  <2> QED BY <2>1, <2>2
<1>8. Len(a) + Len(b) = Len(rows) - 1 BY <1>1, <1>3, <1>4
<1> QED BY <1>5, <1>6, <1>7, <1>8

\* A row put in front.
LEMMA InsertedRow ==
    ASSUME NEW rows \in Seq(Row), NEW r \in Row
    PROVE  LET new == <<r>> \o rows IN
           /\ new \in Seq(Row) /\ DOMAIN new = 1..(Len(rows) + 1) /\ Len(rows) \in Nat
           /\ new[1] = r /\ \A i \in 2..(Len(rows) + 1) : i - 1 \in DOMAIN rows /\ new[i] = rows[i - 1]
<1> DEFINE a == <<r>>
<1>1. a \in Seq(Row) /\ Len(a) = 1 /\ a[1] = r OBVIOUS
<1>2. Len(rows) \in Nat /\ DOMAIN rows = 1..Len(rows) BY LenProperties
<1> HIDE DEF a
<1>3. /\ a \o rows \in Seq(Row) /\ Len(a \o rows) = Len(a) + Len(rows)
      /\ \A i \in 1..(Len(a) + Len(rows)) : (a \o rows)[i] = IF i <= Len(a) THEN a[i] ELSE rows[i - Len(a)]
  BY <1>1, ConcatProperties
<1>4. DOMAIN (a \o rows) = 1..(Len(rows) + 1) BY <1>1, <1>2, <1>3, LenProperties
<1> QED BY <1>1, <1>2, <1>3, <1>4 DEF a

\* Rewriting the rows one by one.
LEMMA MappedRows ==
    ASSUME NEW rows \in Seq(Row), NEW new, new = [i \in DOMAIN rows |-> new[i]], \A i \in DOMAIN rows : new[i] \in Row
    PROVE  new \in Seq(Row) /\ DOMAIN new = DOMAIN rows
<1>1. DOMAIN rows = 1..Len(rows) /\ Len(rows) \in Nat BY LenProperties
<1>2. new \in [1..Len(rows) -> Row] BY <1>1
<1> QED BY <1>1, <1>2, SeqDef

LEMMA TypesPeople ==
    ASSUME Types, People
    PROVE  Types'
<1>0. /\ tasks \in Seq(Row) /\ \A i \in DOMAIN tasks : tasks[i] \in Row
      /\ choice \in [Jobs -> {"on", "off", "default"}] /\ situation \in Situations
  BY ElementOfSeq DEF Types
<1>1. ASSUME tasks' \in Seq(Row), choice' \in [Jobs -> {"on", "off", "default"}],
             UNCHANGED <<hour, dispatcher, runner, faults>>, situation' \in Situations
      PROVE  Types'
  BY <1>1 DEF Types, DateTypes, dispatcher, runner
<1>2. ASSUME NEW j \in Jobs, NEW on \in BOOLEAN, SetScheduledJobEnabled(j, on) PROVE Types'
  <2> DEFINE new == [i \in DOMAIN tasks |-> IF tasks[i].job = j THEN [tasks[i] EXCEPT !.enabled = on] ELSE tasks[i]]
  <2>1. ASSUME NEW i \in DOMAIN tasks PROVE new[i] \in Row
    <3>1. new[i] = IF tasks[i].job = j THEN [tasks[i] EXCEPT !.enabled = on] ELSE tasks[i] OBVIOUS
    <3> HIDE DEF new
    <3> QED BY <1>0, <3>1 DEF Row
  <2>2. new = [i \in DOMAIN tasks |-> new[i]] OBVIOUS
  <2>3. tasks' = new BY <1>2 DEF SetScheduledJobEnabled
  <2> HIDE DEF new
  <2>4. new \in Seq(Row) BY <1>0, <2>1, <2>2, MappedRows
  <2> QED BY <1>0, <1>1, <1>2, <2>3, <2>4 DEF SetScheduledJobEnabled
<1>3. ASSUME NEW i \in DOMAIN tasks, RemoveRow(i) PROVE Types'
  <2>1. i \in 1..Len(tasks) BY <1>0, LenProperties
  <2>2. tasks' \in Seq(Row) BY <1>0, <1>3, <2>1, RemovedRow DEF RemoveRow
  <2> QED BY <1>0, <1>1, <1>3, <2>2 DEF RemoveRow
<1>4. ASSUME NEW j \in Jobs, InsertRow(j) PROVE Types'
  <2>1. [job |-> j, enabled |-> TRUE, due |-> Due] \in Row BY Constants DEF Row, Due
  <2>2. tasks' \in Seq(Row) BY <1>0, <1>4, <2>1, InsertedRow DEF InsertRow
  <2> QED BY <1>0, <1>1, <1>4, <2>2 DEF InsertRow
<1>5. ASSUME SituationChanges PROVE Types'
  <2>1. situation' \in Situations
    <3>1. \/ situation' = [situation EXCEPT !.overdue = ~@]
          \/ situation' = [situation EXCEPT !.managers = ~@]
          \/ \E s \in Scopes : situation' = [situation EXCEPT !.grants = IF s \in @ THEN @ \ {s} ELSE @ \cup {s}]
      BY <1>5 DEF SituationChanges
    <3>2. [situation EXCEPT !.overdue = ~@] \in Situations BY <1>0 DEF Situations
    <3>3. [situation EXCEPT !.managers = ~@] \in Situations BY <1>0 DEF Situations
    <3>4. \A s \in Scopes : [situation EXCEPT !.grants = IF s \in @ THEN @ \ {s} ELSE @ \cup {s}] \in Situations
      BY <1>0 DEF Situations
    <3> QED BY <3>1, <3>2, <3>3, <3>4
  <2>2. UNCHANGED <<hour, doc, dispatcher, runner, faults>> BY <1>5 DEF SituationChanges
  <2> QED BY <1>0, <1>1, <2>1, <2>2 DEF doc
<1> QED
  <2>1. \/ \E j \in Jobs, on \in BOOLEAN : SetScheduledJobEnabled(j, on)
        \/ \E i \in DOMAIN tasks : RemoveRow(i)
        \/ \E j \in Jobs : InsertRow(j)
        \/ SituationChanges
    BY DEF People
  <2> QED BY <1>2, <1>3, <1>4, <1>5, <2>1

\* A date grows older, and not past the backoff.
LEMMA Ageing ==
    ASSUME NEW b \in 1..Never, NEW d \in 0..b \cup {Never}
    PROVE  /\ Older(d, b) \in 0..b \cup {Never} /\ Older(d, b) \in 0..Never /\ d <= Older(d, b)
           /\ \A e \in 0..b \cup {Never} : d <= e => Older(d, b) <= Older(e, b)
           /\ d < b => Older(d, b) = d + 1
  BY DEF Older, Never

LEMMA TypesTick ==
    ASSUME Types, Tick
    PROVE  Types'
<1>0. tasks \in Seq(Row) /\ DateTypes /\ hour \in 0..(Cycle - 1) /\ faults \in Nat BY DEF Types
<1>1. hour' \in 0..(Cycle - 1)
  <2>1. \A x \in Int : x % Cycle \in 0..(Cycle - 1) BY Constants
  <2>2. hour' = (hour + 1) % Cycle BY DEF Tick
  <2>3. hour + 1 \in Int BY <1>0, Constants
  <2> QED BY <2>1, <2>2, <2>3
<1>2. tasks' \in Seq(Row)
  <2> DEFINE new == [i \in DOMAIN tasks |-> [tasks[i] EXCEPT !.due = IF @ = 0 THEN 0 ELSE @ - 1]]
  <2>1. \A i \in DOMAIN tasks : tasks[i] \in Row BY <1>0, ElementOfSeq
  <2>2. ASSUME NEW i \in DOMAIN tasks PROVE new[i] \in Row
    <3>1. new[i] = [tasks[i] EXCEPT !.due = IF @ = 0 THEN 0 ELSE @ - 1] OBVIOUS
    <3> HIDE DEF new
    <3> QED BY <2>1, <3>1, Constants DEF Row
  <2>3. new = [i \in DOMAIN tasks |-> new[i]] OBVIOUS
  <2>4. tasks' = new BY DEF Tick
  <2> HIDE DEF new
  <2> QED BY <1>0, <2>2, <2>3, <2>4, MappedRows
<1>3. DateTypes'
  <2>1. CASE hour' = 0
    <3>1. /\ stamp' = [j \in Jobs |-> Older(stamp[j], Backoff[j])]
          /\ mailed' = [t \in Targets |-> Older(mailed[t], Backoff[JobOf(t)])]
      BY <2>1 DEF Tick
    <3>2. \A j \in Jobs : Older(stamp[j], Backoff[j]) \in 0..Backoff[j] \cup {Never} /\ Older(stamp[j], Backoff[j]) \in 0..Never
      BY <1>0, Ageing, Constants DEF DateTypes
    <3>3. \A t \in Targets : /\ Older(mailed[t], Backoff[JobOf(t)]) \in 0..Backoff[JobOf(t)] \cup {Never}
                             /\ Older(mailed[t], Backoff[JobOf(t)]) \in 0..Never
      BY <1>0, Ageing, Constants DEF DateTypes
    <3> QED BY <3>1, <3>2, <3>3 DEF DateTypes
  <2>2. CASE hour' # 0 BY <1>0, <2>2 DEF Tick, DateTypes
  <2> QED BY <2>1, <2>2
<1>4. faults' \in Nat BY <1>0 DEF Tick, Fault
<1> QED BY <1>1, <1>2, <1>3, <1>4 DEF Tick, Types
LEMMA TypesNext == ASSUME Types, Room, [Next]_vars PROVE Types'
<1>1. CASE \E p \in Passes : ReadSchedule(p) \/ Proceed(p) \/ EnqueueFails(p) \/ PassDies(p)
  BY <1>1, TypesDispatch
<1>2. CASE \E w \in work : Attempt(w) \/ (\E t \in Targets : MailFails(w, t)) \/ AttemptFails(w)
  BY <1>2, TypesRun
<1>3. CASE People BY <1>3, TypesPeople
<1>4. CASE Tick BY <1>4, TypesTick
<1>5. CASE UNCHANGED vars
  BY <1>5 DEF vars, Types, DateTypes
<1> QED BY <1>1, <1>2, <1>3, <1>4, <1>5 DEF Next

-----------------------------------------------------------------------------
(* The rows, their switches, and the stamps meant for them.                *)

LEMMA RunLeavesRows ==
    ASSUME NEW w, Attempt(w) \/ (\E t \in Targets : MailFails(w, t)) \/ AttemptFails(w)
    PROVE  UNCHANGED <<tasks, choice, passes, ids, fired, hour>>
<1>1. HandlerUnchanged => UNCHANGED <<tasks, choice, passes, ids, fired, hour>>
  BY DEF HandlerUnchanged, doc, dispatcher
<1>2. Attempt(w) => HandlerUnchanged
  BY DEF Attempt, ReminderRests, ClearStamp, ReminderFires, ReviewRests, ReviewFires, Mail, Stamp
<1>3. (\E t \in Targets : MailFails(w, t)) \/ AttemptFails(w) => UNCHANGED <<tasks, choice, passes, ids, fired, hour>>
  BY DEF MailFails, AttemptFails, doc, dispatcher
<1> QED BY <1>1, <1>2, <1>3

LEMMA StampsNext == ASSUME Types, StampsEnqueued, [Next]_vars PROVE StampsEnqueued'
<1>0. passes \in [Passes -> PassType] BY DEF Types
<1>1. ASSUME NEW p \in Passes, ReadSchedule(p) \/ Proceed(p) \/ EnqueueFails(p) \/ PassDies(p)
      PROVE  StampsEnqueued'
  <2>1. CASE ReadSchedule(p)
    <3> DEFINE r == [step |-> "rows", tasks |-> tasks, seeded |-> {j \in Jobs : RowOf(j, tasks) = {}}, stamps |-> {},
                     at |-> NextDue(tasks, 1)]
    <3>1. ids' = ids /\ passes' = [passes EXCEPT ![p] = r] BY <2>1 DEF ReadSchedule
    <3>2. r.stamps = {} OBVIOUS
    <3> HIDE DEF r
    <3> QED BY <1>0, <3>1, <3>2 DEF StampsEnqueued
  <2>2. CASE Enqueue(p)
    <3> DEFINE j == passes[p].tasks[passes[p].at].job
           r == [index |-> passes[p].at, job |-> j, due |-> NextTriggerTime(j)]
           next == NextDue(passes[p].tasks, passes[p].at + 1)
    <3>1. passes' = [passes EXCEPT ![p].at = next, ![p].stamps = @ \cup {r}]
      BY <2>2 DEF Enqueue, Moves
    <3>2. j \in ids' /\ ids \subseteq ids' /\ passes[p].step = "rows" BY <2>2 DEF Enqueue
    <3>3. passes' = [passes EXCEPT ![p].at = next, ![p].stamps = @ \cup {r}] /\ r.job = j BY <3>1
    <3> HIDE DEF j, r, next
    <3>4. /\ passes'[p].stamps = passes[p].stamps \cup {r} /\ passes'[p].step = passes[p].step
          /\ \A q \in Passes \ {p} : passes'[q] = passes[q]
      BY <1>0, <3>3 DEF PassType
    <3> QED BY <3>2, <3>3, <3>4 DEF StampsEnqueued
  <2>3. CASE CommitScheduleChanges(p) \/ PassDies(p)
    <3>1. ids' = ids /\ passes' = [passes EXCEPT ![p] = Idle] BY <2>3 DEF CommitScheduleChanges, PassDies
    <3> QED BY <1>0, <3>1 DEF StampsEnqueued, Idle
  <2>4. CASE EnqueueFails(p)
    <3>1. ids' = ids /\ \E next : passes' = [passes EXCEPT ![p].at = next, ![p].stamps = @ \cup {}]
      BY <2>4 DEF EnqueueFails, Moves
    <3>2. passes'[p].stamps = passes[p].stamps /\ passes'[p].step = passes[p].step
      BY <1>0, <3>1 DEF PassType
    <3>3. \A q \in Passes \ {p} : passes'[q] = passes[q] BY <1>0, <3>1
    <3> QED BY <3>1, <3>2, <3>3 DEF StampsEnqueued
  <2> QED BY <1>1, <2>1, <2>2, <2>3, <2>4 DEF Proceed
<1>2. ASSUME NEW w \in work, Attempt(w) \/ (\E t \in Targets : MailFails(w, t)) \/ AttemptFails(w)
      PROVE  StampsEnqueued'
  <2>1. UNCHANGED <<passes, ids>> BY <1>2, RunLeavesRows
  <2> QED BY <2>1 DEF StampsEnqueued
<1>3. CASE People
  <2>1. UNCHANGED <<passes, ids>>
    BY <1>3 DEF People, SetScheduledJobEnabled, RemoveRow, InsertRow, SituationChanges, dispatcher
  <2> QED BY <2>1 DEF StampsEnqueued
<1>4. CASE Tick
  <2>1. (\A p \in Passes : passes[p].step = "idle") /\ passes' = passes BY <1>4 DEF Tick
  <2> QED BY <2>1 DEF StampsEnqueued
<1>5. CASE UNCHANGED vars BY <1>5 DEF vars, StampsEnqueued
<1> QED BY <1>1, <1>2, <1>3, <1>4, <1>5 DEF Next

LEMMA SwitchesNext == ASSUME Types, Switches, [Next]_vars PROVE Switches'
<1>0. /\ tasks \in Seq(Row) /\ DOMAIN tasks = 1..Len(tasks) /\ Len(tasks) \in Nat
      /\ \A i \in DOMAIN tasks : tasks[i] \in Row /\ tasks[i].job \in Jobs
      /\ choice \in [Jobs -> {"on", "off", "default"}]
  <2>1. tasks \in Seq(Row) /\ choice \in [Jobs -> {"on", "off", "default"}] BY DEF Types
  <2>2. DOMAIN tasks = 1..Len(tasks) /\ Len(tasks) \in Nat BY <2>1, LenProperties
  <2>3. \A i \in DOMAIN tasks : tasks[i] \in Row BY <2>1, <2>2, ElementOfSeq
  <2> QED BY <2>1, <2>2, <2>3 DEF Row
<1>1. UNCHANGED <<tasks, choice>> => Switches' BY DEF Switches, OneRow, RowOf
<1>2. ASSUME NEW p \in Passes, CommitScheduleChanges(p) PROVE Switches'
  <2>1. CASE UNCHANGED tasks BY <1>1, <1>2, <2>1 DEF CommitScheduleChanges
  <2>2. CASE tasks' # tasks
    <3> DEFINE js == {j \in passes[p].seeded : RowOf(j, tasks) = {}}
               new == Stamped(tasks, passes[p].stamps) \o SeedRows(js)
    <3>1. tasks' = new /\ choice' = choice BY <1>2, <2>2 DEF CommitScheduleChanges
    <3>2. /\ OneRow(tasks) => OneRow(new)
          /\ DOMAIN tasks \subseteq DOMAIN new
          /\ \A i \in DOMAIN tasks : new[i].job = tasks[i].job /\ new[i].enabled = tasks[i].enabled
          /\ \A i \in (DOMAIN new) \ DOMAIN tasks : new[i].job \in js /\ new[i].enabled = FALSE
      BY Committed
    <3>3. \A j \in js : j \in Jobs /\ RowOf(j, tasks) = {} BY DEF js, Types, PassType
    <3> HIDE DEF new, js
    <3>4. \A i \in DOMAIN new : new[i].enabled = (choice[new[i].job] = "on")
      BY <3>2, <3>3 DEF Switches
    <3>5. \A j \in Jobs : RowOf(j, new) = {} => RowOf(j, tasks) = {} BY <3>2 DEF RowOf
    <3> QED BY <3>1, <3>2, <3>4, <3>5 DEF Switches
  <2> QED BY <2>1, <2>2
<1>3. ASSUME NEW p \in Passes, ReadSchedule(p) \/ Proceed(p) \/ EnqueueFails(p) \/ PassDies(p)
      PROVE  Switches'
  BY <1>1, <1>2, <1>3 DEF ReadSchedule, Proceed, Enqueue, EnqueueFails, PassDies, doc
<1>4. ASSUME NEW w \in work, Attempt(w) \/ (\E t \in Targets : MailFails(w, t)) \/ AttemptFails(w)
      PROVE  Switches'
  BY <1>1, <1>4, RunLeavesRows
<1>5. ASSUME NEW j \in Jobs, NEW on \in BOOLEAN, SetScheduledJobEnabled(j, on) PROVE Switches'
  <2>1. /\ DOMAIN tasks' = DOMAIN tasks
        /\ \A i \in DOMAIN tasks : tasks'[i] = IF tasks[i].job = j THEN [tasks[i] EXCEPT !.enabled = on] ELSE tasks[i]
        /\ choice' = [choice EXCEPT ![j] = IF on THEN "on" ELSE "off"]
        /\ RowOf(j, tasks) # {}
    BY <1>5 DEF SetScheduledJobEnabled
  <2>2. \A i \in DOMAIN tasks :
          tasks'[i].job = tasks[i].job /\ tasks'[i].enabled = IF tasks[i].job = j THEN on ELSE tasks[i].enabled
    BY <1>0, <2>1 DEF Row
  <2>3. OneRow(tasks') BY <2>1, <2>2 DEF Switches, OneRow
  <2>4. \A k \in Jobs : RowOf(k, tasks') = RowOf(k, tasks) BY <2>1, <2>2 DEF RowOf
  <2>5. \A k \in Jobs : choice'[k] = IF k = j THEN IF on THEN "on" ELSE "off" ELSE choice[k] BY <1>0, <2>1
  <2>6. \A i \in DOMAIN tasks : tasks'[i].enabled = (choice'[tasks'[i].job] = "on")
    BY <1>0, <2>2, <2>5 DEF Switches
  <2>7. \A k \in Jobs : RowOf(k, tasks') = {} => choice'[k] # "on" BY <2>1, <2>4, <2>5 DEF Switches
  <2> QED BY <2>1, <2>3, <2>6, <2>7 DEF Switches
<1>6. ASSUME NEW i \in DOMAIN tasks, RemoveRow(i) PROVE Switches'
  <2>1. /\ tasks' \in Seq(Row) /\ Len(tasks') = Len(tasks) - 1
        /\ \A k \in 1..(Len(tasks) - 1) : tasks'[k] = IF k < i THEN tasks[k] ELSE tasks[k + 1]
    BY <1>0, <1>6, RemovedRow DEF RemoveRow
  <2>2. DOMAIN tasks' = 1..(Len(tasks) - 1) BY <1>0, <2>1, LenProperties
  <2>3. choice' = [choice EXCEPT ![tasks[i].job] = "default"] BY <1>6 DEF RemoveRow
  <2> DEFINE Old(k) == IF k < i THEN k ELSE k + 1
  <2>4. \A k \in DOMAIN tasks' : Old(k) \in (DOMAIN tasks) \ {i} /\ tasks'[k] = tasks[Old(k)]
    BY <1>0, <2>1, <2>2
  <2>5. \A k, l \in DOMAIN tasks' : Old(k) = Old(l) => k = l BY <2>2
  <2>6. \A n \in (DOMAIN tasks) \ {i} : \E k \in DOMAIN tasks' : Old(k) = n
    <3>1. ASSUME NEW n \in (DOMAIN tasks) \ {i} PROVE \E k \in DOMAIN tasks' : Old(k) = n
      <4>1. CASE n < i
        <5>1. n \in DOMAIN tasks' /\ Old(n) = n BY <1>0, <2>2, <4>1
        <5> QED BY <5>1
      <4>2. CASE ~(n < i)
        <5>1. n - 1 \in DOMAIN tasks' /\ Old(n - 1) = n BY <1>0, <2>2, <4>2
        <5> QED BY <5>1
      <4> QED BY <4>1, <4>2
    <3> QED BY <3>1
  <2> HIDE DEF Old
  <2>7. OneRow(tasks') BY <2>4, <2>5 DEF Switches, OneRow
  <2>8. \A k \in DOMAIN tasks' : tasks'[k].job # tasks[i].job BY <2>4 DEF Switches, OneRow
  <2>9. \A j \in Jobs : choice'[j] = IF j = tasks[i].job THEN "default" ELSE choice[j] BY <1>0, <2>3
  <2>10. \A k \in DOMAIN tasks' : tasks'[k].enabled = (choice'[tasks'[k].job] = "on")
    BY <1>0, <2>4, <2>8, <2>9 DEF Switches
  <2>11. ASSUME NEW j \in Jobs, RowOf(j, tasks') = {} PROVE choice'[j] # "on"
    <3>1. CASE j = tasks[i].job BY <2>9, <3>1
    <3>2. CASE j # tasks[i].job
      <4>1. RowOf(j, tasks) = {} BY <2>4, <2>6, <2>11, <3>2 DEF RowOf
      <4> QED BY <2>9, <3>2, <4>1 DEF Switches
    <3> QED BY <3>1, <3>2
  <2> QED BY <2>7, <2>10, <2>11 DEF Switches
<1>7. ASSUME NEW j \in Jobs, InsertRow(j) PROVE Switches'
  <2> DEFINE r == [job |-> j, enabled |-> TRUE, due |-> Due]
  <2>1. r \in Row /\ r.job = j /\ r.enabled = TRUE BY Constants DEF Row, Due
  <2>2. tasks' = <<r>> \o tasks /\ RowOf(j, tasks) = {} /\ choice' = [choice EXCEPT ![j] = "on"]
    BY <1>7 DEF InsertRow
  <2> HIDE DEF r
  <2>3. /\ DOMAIN tasks' = 1..(Len(tasks) + 1)
        /\ tasks'[1] = r /\ \A i \in 2..(Len(tasks) + 1) : i - 1 \in DOMAIN tasks /\ tasks'[i] = tasks[i - 1]
    BY <1>0, <2>1, <2>2, InsertedRow
  <2>4. \A i \in DOMAIN tasks' : i = 1 \/ i \in 2..(Len(tasks) + 1) BY <1>0, <2>3
  <2>5. \A i \in DOMAIN tasks : tasks[i].job # j BY <2>2 DEF RowOf
  <2>6. ASSUME NEW i \in DOMAIN tasks', NEW k \in DOMAIN tasks', tasks'[i].job = tasks'[k].job PROVE i = k
    <3>1. CASE i = 1 \/ k = 1 BY <2>1, <2>3, <2>4, <2>5, <2>6, <3>1
    <3>2. CASE i # 1 /\ k # 1
      <4>1. i \in 2..(Len(tasks) + 1) /\ k \in 2..(Len(tasks) + 1) BY <2>4, <3>2
      <4>2. i - 1 = k - 1 BY <2>3, <2>6, <4>1 DEF Switches, OneRow
      <4> QED BY <4>1, <4>2, <1>0
    <3> QED BY <3>1, <3>2
  <2>7. \A k \in Jobs : choice'[k] = IF k = j THEN "on" ELSE choice[k] BY <1>0, <2>2
  <2>8. ASSUME NEW i \in DOMAIN tasks' PROVE tasks'[i].enabled = (choice'[tasks'[i].job] = "on")
    <3>1. CASE i = 1 BY <2>1, <2>3, <2>7, <3>1
    <3>2. CASE i # 1
      <4>1. i - 1 \in DOMAIN tasks /\ tasks'[i] = tasks[i - 1] BY <2>3, <2>4, <3>2
      <4> QED BY <1>0, <2>5, <2>7, <4>1 DEF Switches
    <3> QED BY <3>1, <3>2
  <2>9. ASSUME NEW k \in Jobs, RowOf(k, tasks') = {} PROVE choice'[k] # "on"
    <3>1. \A i \in DOMAIN tasks' : tasks'[i].job # k BY <2>9 DEF RowOf
    <3>2. k # j BY <1>0, <2>1, <2>3, <3>1
    <3>3. ASSUME NEW i \in DOMAIN tasks PROVE tasks[i].job # k
      <4>1. i + 1 \in 2..(Len(tasks) + 1) /\ i + 1 \in DOMAIN tasks' /\ (i + 1) - 1 = i BY <1>0, <2>3
      <4>2. tasks'[i + 1] = tasks[(i + 1) - 1] BY <2>3, <4>1
      <4> QED BY <3>1, <4>1, <4>2
    <3>4. RowOf(k, tasks) = {} BY <3>3 DEF RowOf
    <3> QED BY <2>7, <3>2, <3>4 DEF Switches
  <2> QED BY <2>6, <2>8, <2>9 DEF Switches, OneRow
<1>8. CASE SituationChanges BY <1>1, <1>8 DEF SituationChanges, doc
<1>9. CASE People
  <2>1. \/ \E j \in Jobs, on \in BOOLEAN : SetScheduledJobEnabled(j, on)
        \/ \E i \in DOMAIN tasks : RemoveRow(i)
        \/ \E j \in Jobs : InsertRow(j)
        \/ SituationChanges
    BY <1>9 DEF People
  <2> QED BY <1>5, <1>6, <1>7, <1>8, <2>1
<1>10. CASE Tick
  <2>1. /\ DOMAIN tasks' = DOMAIN tasks /\ choice' = choice
        /\ \A i \in DOMAIN tasks : tasks'[i] = [tasks[i] EXCEPT !.due = IF @ = 0 THEN 0 ELSE @ - 1]
    BY <1>10 DEF Tick
  <2>2. \A i \in DOMAIN tasks : tasks'[i].job = tasks[i].job /\ tasks'[i].enabled = tasks[i].enabled
    BY <1>0, <2>1 DEF Row
  <2> QED BY <2>1, <2>2 DEF Switches, OneRow, RowOf
<1>11. CASE UNCHANGED vars BY <1>1, <1>11 DEF vars
<1> QED BY <1>3, <1>4, <1>9, <1>10, <1>11 DEF Next
-----------------------------------------------------------------------------
(* The queue has room, and its tasks mail the targets of their job.        *)

\* A task that takes a step is done, or goes on for its job.
LEMMA RunShape ==
    ASSUME Types, TaskSound, NEW w \in work,
           Attempt(w) \/ (\E t \in Targets : MailFails(w, t)) \/ AttemptFails(w)
    PROVE  \/ Done(w)
           \/ \E v : /\ Becomes(w, v)
                     /\ v.job = w.job
                     /\ \A t \in v.todo : JobOf(t) = w.job
                     /\ v.step = "clear" => w.job = "syncReminder"
<1>0. /\ w \in Task /\ \A t \in w.todo : JobOf(t) = w.job
      /\ w.step = "clear" => w.job = "syncReminder"
      /\ situation \in Situations
  BY DEF Types, TaskSound
<1> DEFINE On(v) == /\ Becomes(w, v)
                    /\ v.job = w.job
                    /\ \A t \in v.todo : JobOf(t) = w.job
                    /\ v.step = "clear" => w.job = "syncReminder"
<1>1. ASSUME NEW s \in {"clear", "mail", "stamp"}, s = "clear" => w.job = "syncReminder", Becomes(w, [w EXCEPT !.step = s])
      PROVE  On([w EXCEPT !.step = s])
  BY <1>0, <1>1 DEF Task
<1>2. CASE ReminderRests(w)
  <2>1. w.job = "syncReminder" /\ (Becomes(w, [w EXCEPT !.step = "clear"]) \/ Done(w))
    BY <1>2 DEF ReminderRests, Starts
  <2> QED BY <1>1, <2>1
<1>3. CASE ClearStamp(w) \/ Stamp(w) BY <1>3 DEF ClearStamp, Stamp
<1>4. CASE ReminderFires(w)
  <2>1. On([w EXCEPT !.step = "mail", !.todo = {"managers"}])
    BY <1>0, <1>4, Constants DEF ReminderFires, Starts, Task
  <2> QED BY <2>1
<1>5. CASE ReviewRests(w)
  <2>1. Done(w) \/ Becomes(w, [w EXCEPT !.step = "stamp"]) BY <1>5 DEF ReviewRests
  <2> QED BY <1>1, <2>1
<1>6. CASE ReviewFires(w)
  <2>1. w.job = "manualSeatReview" /\ (Done(w) \/ Becomes(w, [w EXCEPT !.step = "mail", !.todo = Reachable]))
    BY <1>6 DEF ReviewFires, Starts
  <2>2. \A t \in Reachable : JobOf(t) = "manualSeatReview" BY <1>0, Constants DEF Reachable, Situations
  <2> DEFINE v == [w EXCEPT !.step = "mail", !.todo = Reachable]
  <2>3. v.job = w.job /\ v.todo = Reachable /\ v.step = "mail" BY <1>0 DEF Task
  <2>4. Becomes(w, v) => On(v) BY <2>1, <2>2, <2>3
  <2> QED BY <2>1, <2>4
<1>7. ASSUME NEW t \in Targets, Mail(w, t) PROVE \E v : On(v)
  <2> DEFINE v == [w EXCEPT !.todo = @ \ {t}, !.landed = 1]
  <2>1. v.job = w.job /\ v.todo = w.todo \ {t} /\ v.step = w.step BY <1>0 DEF Task
  <2>2. Becomes(w, v) BY <1>7 DEF Mail
  <2> HIDE DEF v
  <2>3. On(v) BY <1>0, <2>1, <2>2
  <2> QED BY <2>3
<1>8. ASSUME NEW t \in Targets, MailFails(w, t) PROVE \E v : On(v)
  <2> DEFINE v == [w EXCEPT !.todo = @ \ {t}]
  <2>1. v.job = w.job /\ v.todo = w.todo \ {t} /\ v.step = w.step BY <1>0 DEF Task
  <2>2. Becomes(w, v) BY <1>8 DEF MailFails
  <2> HIDE DEF v
  <2>3. On(v) BY <1>0, <2>1, <2>2
  <2> QED BY <2>3
<1>9. CASE AttemptFails(w)
  <2> DEFINE v == [w EXCEPT !.step = "waiting", !.tries = @ + 1, !.todo = {}, !.landed = 0]
  <2>1. v.job = w.job /\ v.todo = {} /\ v.step = "waiting" BY <1>0 DEF Task
  <2>2. Becomes(w, v) \/ Done(w) BY <1>9 DEF AttemptFails
  <2> HIDE DEF v
  <2>3. Becomes(w, v) => On(v) BY <2>1
  <2> QED BY <2>2, <2>3
<1> QED BY <1>2, <1>3, <1>4, <1>5, <1>6, <1>7, <1>8, <1>9 DEF Attempt

LEMMA QueueFacts ==
    ASSUME Types
    PROVE  /\ \A j : IsFiniteSet(WorkOf(j)) /\ Cardinality(WorkOf(j)) \in Nat
           /\ \A t : IsFiniteSet(Pending(t)) /\ Cardinality(Pending(t)) \in Nat /\ Chances(t) \in Nat
<1>1. ASSUME NEW j PROVE IsFiniteSet(WorkOf(j)) /\ Cardinality(WorkOf(j)) \in Nat
  <2>1. WorkOf(j) \subseteq work BY DEF WorkOf
  <2> QED BY <2>1, Fewer DEF Types
<1>2. ASSUME NEW t PROVE IsFiniteSet(Pending(t)) /\ Cardinality(Pending(t)) \in Nat /\ Chances(t) \in Nat
  <2>1. Pending(t) \subseteq work BY DEF Pending
  <2>2. IsFiniteSet(Pending(t)) /\ Cardinality(Pending(t)) \in Nat BY <2>1, Fewer DEF Types
  <2> QED BY <2>2 DEF Chances, ToCome
<1> QED BY <1>1, <1>2

LEMMA QueueFactsNext ==
    ASSUME Types'
    PROVE  /\ \A j \in Jobs : Cardinality(WorkOf(j)') \in Nat
           /\ \A t \in Targets : Cardinality(Pending(t)') \in Nat /\ Chances(t)' \in Nat
<1>1. ASSUME NEW j \in Jobs PROVE Cardinality(WorkOf(j)') \in Nat
  <2>1. WorkOf(j)' \subseteq work' BY DEF WorkOf
  <2> QED BY <2>1, Fewer DEF Types
<1>2. ASSUME NEW t \in Targets PROVE Cardinality(Pending(t)') \in Nat /\ Chances(t)' \in Nat
  <2>1. Pending(t)' \subseteq work' BY DEF Pending
  <2>2. Cardinality(Pending(t)') \in Nat BY <2>1, Fewer DEF Types
  <2> QED BY <2>2 DEF Chances, ToCome
<1> QED BY <1>1, <1>2

LEMMA EnqueueShape ==
    ASSUME Types, Room, NEW p \in Passes, Enqueue(p)
    PROVE  \/ UNCHANGED <<ids, work>>
           \/ \E j \in Jobs \ ids : \E v :
                /\ ids' = ids \cup {j} /\ work' = work \cup {v}
                /\ v.job = j /\ v.step = "waiting" /\ v.todo = {}
<1> DEFINE j == passes[p].tasks[passes[p].at].job
<1>1. CASE j \in ids BY <1>1 DEF Enqueue
<1>2. CASE j \notin ids
  <2>1. ids' = ids \cup {j} /\ work' = work \cup {QueueItem(j)} BY <1>2 DEF Enqueue
  <2>2. j \in Jobs
    <3>1. passes[p] \in PassType BY DEF Types
    <3>2. passes[p].tasks \in Seq(Row) /\ passes[p].at \in Nat \ {0} BY <3>1 DEF PassType
    <3>3. Len(passes[p].tasks) \in Nat /\ passes[p].at <= Len(passes[p].tasks) BY <3>2, LenProperties DEF Enqueue
    <3>4. passes[p].tasks[passes[p].at] \in Row BY <3>2, <3>3, ElementOfSeq
    <3> QED BY <3>4 DEF Row
  <2> HIDE DEF j
  <2>3. QueueItem(j).job = j /\ QueueItem(j).step = "waiting" /\ QueueItem(j).todo = {} BY <1>2, <2>2, Queued
  <2> QED BY <1>2, <2>1, <2>2, <2>3
<1> QED BY <1>1, <1>2

\* Only an enqueueing invocation, a running task and the hour touch the queue.
LEMMA QueueSteps ==
    ASSUME [Next]_vars
    PROVE  \/ UNCHANGED <<ids, work, stamp, mailed, repeats>> /\ (faults' = faults \/ faults' = faults + 1)
           \/ \E p \in Passes : Enqueue(p)
           \/ \E w \in work : Attempt(w) \/ (\E t \in Targets : MailFails(w, t)) \/ AttemptFails(w)
           \/ Tick
<1> DEFINE Apart == UNCHANGED <<ids, work, stamp, mailed, repeats>> /\ (faults' = faults \/ faults' = faults + 1)
<1>1. ASSUME NEW p \in Passes, ReadSchedule(p) \/ CommitScheduleChanges(p) \/ EnqueueFails(p) \/ PassDies(p) PROVE Apart
  BY <1>1 DEF ReadSchedule, CommitScheduleChanges, EnqueueFails, PassDies, Fault, runner
<1>2. CASE People
  BY <1>2 DEF People, SetScheduledJobEnabled, RemoveRow, InsertRow, SituationChanges, dispatcher, runner
<1>3. CASE UNCHANGED vars BY <1>3 DEF vars
<1> QED BY <1>1, <1>2, <1>3 DEF Next, Proceed

LEMMA RoomNext == ASSUME Types, Room, TaskSound, [Next]_vars PROVE Room' /\ TaskSound'
<1>0. Types' BY TypesNext
<1>1. CASE UNCHANGED <<ids, work>> BY <1>1 DEF Room, TaskSound, WorkOf
<1>2. ASSUME NEW p \in Passes, Enqueue(p) PROVE Room' /\ TaskSound'
  <2>1. ASSUME NEW j \in Jobs \ ids, NEW v,
               ids' = ids \cup {j}, work' = work \cup {v}, v.job = j, v.step = "waiting", v.todo = {}
        PROVE  Room' /\ TaskSound'
    <3>1. TaskSound' BY <2>1 DEF TaskSound
    <3>2. ASSUME NEW k \in Jobs
          PROVE  Cardinality(WorkOf(k)') + (IF k \in ids' THEN 0 ELSE 1) <= MaxQueued
      <4>1. CASE k = j
        <5>1. WorkOf(k)' \subseteq WorkOf(k) \cup {v} BY <2>1 DEF WorkOf
        <5>2. Cardinality(WorkOf(k)') <= Cardinality(WorkOf(k)) + 1 BY <5>1, QueueFacts, OneMore
        <5>3. Cardinality(WorkOf(k)) + 1 <= MaxQueued BY <4>1 DEF Room
        <5> QED BY <2>1, <4>1, <5>2, <5>3, QueueFacts, QueueFactsNext, <1>0, Constants
      <4>2. CASE k # j
        <5>1. WorkOf(k)' = WorkOf(k) BY <2>1, <4>2 DEF WorkOf
        <5> QED BY <2>1, <4>2, <5>1 DEF Room
      <4> QED BY <4>1, <4>2
    <3> QED BY <3>1, <3>2 DEF Room
  <2> QED BY <1>1, <1>2, <2>1, EnqueueShape
<1>3. ASSUME NEW w \in work, Attempt(w) \/ (\E t \in Targets : MailFails(w, t)) \/ AttemptFails(w)
      PROVE  Room' /\ TaskSound'
  <2>0. ids' = ids BY <1>3, RunLeavesRows
  <2>1. CASE Done(w)
    <3>1. work' \subseteq work BY <2>1 DEF Done
    <3>2. ASSUME NEW k \in Jobs PROVE Cardinality(WorkOf(k)') <= Cardinality(WorkOf(k))
      <4>1. WorkOf(k)' \subseteq WorkOf(k) BY <3>1 DEF WorkOf
      <4> QED BY <4>1, QueueFacts, Fewer
    <3>3. Room' BY <2>0, <3>2, <1>0, QueueFacts, QueueFactsNext, Constants DEF Room
    <3> QED BY <3>1, <3>3 DEF TaskSound
  <2>2. ASSUME NEW v, Becomes(w, v), v.job = w.job, \A t \in v.todo : JobOf(t) = w.job,
               v.step = "clear" => w.job = "syncReminder"
        PROVE  Room' /\ TaskSound'
    <3>1. work' = (work \ {w}) \cup {v} BY <2>2 DEF Becomes
    <3>2. ASSUME NEW k \in Jobs PROVE Cardinality(WorkOf(k)') <= Cardinality(WorkOf(k))
      <4>1. CASE w.job = k
        <5>1. WorkOf(k)' \subseteq (WorkOf(k) \ {w}) \cup {v} /\ w \in WorkOf(k) BY <3>1, <4>1 DEF WorkOf
        <5> QED BY <5>1, QueueFacts, Exchanged
      <4>2. CASE w.job # k
        <5>1. WorkOf(k)' \subseteq WorkOf(k) BY <2>2, <3>1, <4>2 DEF WorkOf
        <5> QED BY <5>1, QueueFacts, Fewer
      <4> QED BY <4>1, <4>2
    <3>3. Room' BY <2>0, <3>2, <1>0, QueueFacts, QueueFactsNext, Constants DEF Room
    <3> QED BY <2>2, <3>1, <3>3 DEF TaskSound
  <2> QED BY <1>3, <2>1, <2>2, RunShape
<1>4. CASE Tick
  <2>1. work' = work /\ ids' = {} /\ \A j \in Jobs : Cardinality({w \in work : w.job = j}) < MaxQueued
    BY <1>4 DEF Tick
  <2>2. \A j \in Jobs : WorkOf(j)' = WorkOf(j) /\ Cardinality(WorkOf(j)) < MaxQueued
    BY <2>1 DEF WorkOf
  <2>3. Room' BY <2>1, <2>2, QueueFacts, Constants DEF Room
  <2> QED BY <2>1, <2>3 DEF TaskSound
<1> QED BY <1>1, <1>2, <1>3, <1>4, QueueSteps
-----------------------------------------------------------------------------
(* Dates.                                                                  *)

LEMMA TickKeepsDates ==
    ASSUME Types, Dates, Tick, NEW t \in Targets
    PROVE  /\ mailed[t] <= mailed'[t]
           /\ ~Elapsed(t)' => stamp[JobOf(t)] <= stamp'[JobOf(t)] /\ stamp'[JobOf(t)] <= mailed'[t] /\ ~Elapsed(t)
           /\ Elapsed(t)' /\ ~Elapsed(t) => ~Recent(t)'
           /\ Elapsed(t) => Elapsed(t)'
<1> DEFINE j == JobOf(t)
<1>0. /\ j \in Jobs /\ Backoff[j] \in 1..Never
      /\ stamp[j] \in 0..Backoff[j] \cup {Never} /\ mailed[t] \in 0..Backoff[j] \cup {Never}
      /\ stamp \in [Jobs -> 0..Never] /\ mailed \in [Targets -> 0..Never]
  BY Constants DEF Types, DateTypes
<1>1. /\ Elapsed(t) <=> stamp[j] >= Backoff[j]
      /\ Elapsed(t)' <=> stamp'[j] >= Backoff[j]
      /\ Recent(t)' <=> mailed'[t] < Backoff[j]
      /\ ~Elapsed(t) => stamp[j] <= mailed[t]
  BY DEF Elapsed, BackoffElapsed, Recent, Dates
<1>2. CASE hour' = 0
  <2>1. stamp'[j] = Older(stamp[j], Backoff[j]) /\ mailed'[t] = Older(mailed[t], Backoff[j])
    BY <1>0, <1>2 DEF Tick
  <2> HIDE DEF j
  <2>2. /\ stamp'[j] \in 0..Never /\ stamp[j] <= stamp'[j]
        /\ stamp[j] <= mailed[t] => stamp'[j] <= mailed'[t]
        /\ stamp[j] < Backoff[j] => stamp'[j] = stamp[j] + 1
        /\ mailed'[t] \in 0..Never /\ mailed[t] <= mailed'[t]
    BY <1>0, <2>1, Ageing
  <2>3. stamp[j] \in 0..Never /\ mailed[t] \in 0..Never /\ Backoff[j] \in 1..Never BY <1>0
  <2>4. /\ Elapsed(t) <=> stamp[j] >= Backoff[j]
        /\ Elapsed(t)' <=> stamp'[j] >= Backoff[j]
        /\ Recent(t)' <=> mailed'[t] < Backoff[j]
        /\ ~Elapsed(t) => stamp[j] <= mailed[t]
    BY <1>1 DEF j
  <2>5. Never = 99 BY DEF Never
  <2>6. ~(stamp[j] >= Backoff[j]) => stamp'[j] <= mailed'[t] /\ stamp'[j] <= Backoff[j]
    BY <2>2, <2>3, <2>4, <2>5
  <2>7. Elapsed(t) => Elapsed(t)'
    <3>1. stamp[j] >= Backoff[j] => stamp'[j] >= Backoff[j] BY <2>2, <2>3, <2>5
    <3> QED BY <2>4, <3>1
  <2>8. ~Elapsed(t)' => stamp[j] <= stamp'[j] /\ stamp'[j] <= mailed'[t] /\ ~Elapsed(t)
    <3>1. stamp[j] <= stamp'[j] BY <2>2
    <3>2. ~Elapsed(t) => stamp'[j] <= mailed'[t] BY <2>4, <2>6
    <3> QED BY <2>7, <3>1, <3>2
  <2>9. Elapsed(t)' /\ ~Elapsed(t) => ~Recent(t)'
    <3>1. ASSUME stamp'[j] >= Backoff[j], stamp'[j] <= mailed'[t] PROVE ~(mailed'[t] < Backoff[j])
      BY <2>2, <2>3, <3>1
    <3> QED BY <2>4, <2>6, <3>1
  <2> QED BY <2>2, <2>7, <2>8, <2>9 DEF j
<1>3. CASE hour' # 0
  <2>1. stamp' = stamp /\ mailed' = mailed BY <1>3 DEF Tick
  <2> QED BY <1>0, <1>1, <2>1, Constants
<1> QED BY <1>2, <1>3

LEMMA DatesNext == ASSUME Types, Room, TaskSound, Dates, [Next]_vars PROVE Dates'
<1>0. DateTypes /\ work \subseteq Task /\ \A t \in Targets : JobOf(t) \in Jobs BY Constants DEF Types
<1>1. ASSUME UNCHANGED <<stamp, mailed>>, work' = work PROVE Dates'
  BY <1>1 DEF Dates, Elapsed, BackoffElapsed
<1>2. ASSUME UNCHANGED <<stamp, mailed>>, NEW S, S \subseteq work, NEW v, work' = S \cup {v},
             v.step = "mail" /\ v.todo # {} /\ ~BackoffElapsed(v.job) => stamp[v.job] = 0
      PROVE  Dates'
  BY <1>2 DEF Dates, Elapsed, BackoffElapsed
<1>3. ASSUME UNCHANGED <<stamp, mailed>>, work' \subseteq work PROVE Dates'
  BY <1>3 DEF Dates, Elapsed, BackoffElapsed
<1>4. ASSUME NEW p \in Passes, Enqueue(p) PROVE Dates'
  <2>1. UNCHANGED <<stamp, mailed>> BY <1>4 DEF Enqueue
  <2>2. CASE UNCHANGED <<ids, work>> BY <1>1, <2>1, <2>2
  <2>3. ASSUME NEW v, work' = work \cup {v}, v.step = "waiting" PROVE Dates'
    BY <1>2, <2>1, <2>3
  <2> QED BY <1>4, <2>2, <2>3, EnqueueShape
<1>5. ASSUME NEW w \in work, Attempt(w) \/ (\E t \in Targets : MailFails(w, t)) \/ AttemptFails(w)
      PROVE  Dates'
  <2>0. w \in Task /\ w.job \in Jobs BY <1>0 DEF Task
  <2>1. ASSUME UNCHANGED <<stamp, mailed>>, Done(w) PROVE Dates' BY <1>3, <2>1 DEF Done
  <2>2. ASSUME UNCHANGED <<stamp, mailed>>, NEW v, Becomes(w, v),
               v.step = "mail" /\ v.todo # {} /\ ~BackoffElapsed(v.job) => stamp[v.job] = 0
        PROVE  Dates'
    BY <1>2, <2>2 DEF Becomes
  <2>3. \A s \in {"clear", "stamp"} : [w EXCEPT !.step = s].step # "mail" BY <2>0 DEF Task
  <2>4. CASE ReminderRests(w) BY <2>1, <2>2, <2>3, <1>5, <2>4 DEF ReminderRests
  <2>5. CASE ReviewRests(w) BY <2>1, <2>2, <2>3, <2>5 DEF ReviewRests
  <2>6. CASE ClearStamp(w)
    <3>1. /\ w.job = "syncReminder" /\ stamp' = [stamp EXCEPT !["syncReminder"] = Never]
          /\ mailed' = [mailed EXCEPT !["managers"] = Never] /\ work' \subseteq work
      BY <2>6 DEF ClearStamp, TaskSound, Done
    <3>2. stamp'["syncReminder"] >= Backoff["syncReminder"] BY <1>0, <3>1, Constants DEF DateTypes
    <3>3. \A j \in Jobs : j # "syncReminder" => stamp'[j] = stamp[j] BY <1>0, <3>1 DEF DateTypes
    <3>4. \A t \in Targets : JobOf(t) # "syncReminder" => mailed'[t] = mailed[t] /\ JobOf(t) \in Jobs
      BY <1>0, <3>1, Constants DEF DateTypes
    <3>5. \A t \in Targets : ~Elapsed(t)' => stamp'[JobOf(t)] <= mailed'[t]
      BY <3>2, <3>3, <3>4 DEF Elapsed, BackoffElapsed, Dates
    <3>6. \A u \in work : u.job \in Jobs BY <1>0 DEF Task
    <3>7. \A u \in work' : u.step = "mail" /\ u.todo # {} /\ ~BackoffElapsed(u.job)' => stamp'[u.job] = 0
      BY <3>1, <3>2, <3>3, <3>6 DEF BackoffElapsed, Dates
    <3> QED BY <3>5, <3>7 DEF Dates
  <2>7. CASE ReminderFires(w)
    <3> DEFINE v == [w EXCEPT !.step = "mail", !.todo = {"managers"}]
    <3>1. v.job = "syncReminder" /\ BackoffElapsed("syncReminder") BY <2>0, <2>7 DEF ReminderFires, Starts, Task
    <3>2. Becomes(w, v) /\ UNCHANGED <<stamp, mailed>> BY <2>7 DEF ReminderFires
    <3> QED BY <2>2, <3>1, <3>2
  <2>8. CASE ReviewFires(w)
    <3> DEFINE v == [w EXCEPT !.step = "mail", !.todo = Reachable]
    <3>1. v.job = w.job /\ BackoffElapsed(w.job) BY <2>0, <2>8 DEF ReviewFires, Task
    <3>2. (Done(w) \/ Becomes(w, v)) /\ UNCHANGED <<stamp, mailed>> BY <2>8 DEF ReviewFires
    <3> QED BY <2>1, <2>2, <3>1, <3>2
  <2>9. ASSUME NEW t \in Targets, Mail(w, t) PROVE Dates'
    <3> DEFINE v == [w EXCEPT !.todo = @ \ {t}, !.landed = 1]
    <3>1. v.job = w.job /\ w.step = "mail" /\ w.todo # {} /\ w.job = JobOf(t)
      BY <2>0, <2>9 DEF Mail, Task, TaskSound
    <3>2. work' = (work \ {w}) \cup {v} /\ stamp' = stamp /\ mailed' = [mailed EXCEPT ![t] = 0]
      BY <2>9 DEF Mail, Becomes
    <3> HIDE DEF v
    <3>3. ~BackoffElapsed(w.job) => stamp[w.job] = 0 BY <3>1 DEF Dates
    <3>4. \A u \in work' : u.step = "mail" /\ u.todo # {} /\ ~BackoffElapsed(u.job)' => stamp'[u.job] = 0
      BY <3>1, <3>2, <3>3 DEF Dates, BackoffElapsed
    <3>5. \A s \in Targets : mailed'[s] = IF s = t THEN 0 ELSE mailed[s] BY <1>0, <3>2 DEF DateTypes
    <3>6. \A s \in Targets : ~Elapsed(s)' => stamp'[JobOf(s)] <= mailed'[s]
      BY <3>1, <3>2, <3>3, <3>5 DEF Dates, BackoffElapsed, Elapsed
    <3> QED BY <3>4, <3>6 DEF Dates
  <2>10. CASE Stamp(w)
    <3>1. /\ stamp' = stamp \/ stamp' = [stamp EXCEPT ![w.job] = 0]
          /\ mailed' = mailed /\ work' \subseteq work
      BY <2>10 DEF Stamp, Done
    <3>2. \A j \in Jobs : stamp'[j] = stamp[j] \/ stamp'[j] = 0 BY <1>0, <3>1 DEF DateTypes
    <3>3. \A u \in work : u.job \in Jobs BY <1>0 DEF Task
    <3>4. \A u \in work' : u.step = "mail" /\ u.todo # {} /\ ~BackoffElapsed(u.job)' => stamp'[u.job] = 0
      BY <3>1, <3>2, <3>3 DEF BackoffElapsed, Dates
    <3>5. \A t \in Targets : mailed[t] \in 0..Never BY <1>0 DEF DateTypes
    <3>6. \A t \in Targets : ~Elapsed(t)' => stamp'[JobOf(t)] <= mailed'[t]
      BY <1>0, <3>1, <3>2, <3>5, Constants DEF Elapsed, BackoffElapsed, Dates
    <3> QED BY <3>4, <3>6 DEF Dates
  <2>11. ASSUME NEW t \in Targets, MailFails(w, t) PROVE Dates'
    <3> DEFINE v == [w EXCEPT !.todo = @ \ {t}]
    <3>1. v.job = w.job /\ w.step = "mail" /\ w.todo # {} BY <2>0, <2>11 DEF MailFails, Task
    <3>2. Becomes(w, v) /\ UNCHANGED <<stamp, mailed>> BY <2>11 DEF MailFails
    <3> HIDE DEF v
    <3>3. ~BackoffElapsed(v.job) => stamp[v.job] = 0 BY <3>1 DEF Dates
    <3> QED BY <2>2, <3>2, <3>3
  <2>12. CASE AttemptFails(w)
    <3> DEFINE v == [w EXCEPT !.step = "waiting", !.tries = @ + 1, !.todo = {}, !.landed = 0]
    <3>1. v.step = "waiting" BY <2>0 DEF Task
    <3>2. (Becomes(w, v) \/ Done(w)) /\ UNCHANGED <<stamp, mailed>> BY <2>12 DEF AttemptFails
    <3> HIDE DEF v
    <3> QED BY <2>1, <2>2, <3>1, <3>2
  <2> QED BY <1>5, <2>4, <2>5, <2>6, <2>7, <2>8, <2>9, <2>10, <2>11, <2>12 DEF Attempt
<1>6. CASE Tick
  <2>1. \A t \in Targets : ~Elapsed(t)' => stamp'[JobOf(t)] <= mailed'[t] BY <1>6, TickKeepsDates
  <2>2. work' = work /\ \A w \in work : w.step = "waiting" BY <1>6 DEF Tick
  <2> QED BY <2>1, <2>2 DEF Dates
<1>7. CASE UNCHANGED <<ids, work, stamp, mailed, repeats>> BY <1>1, <1>7
<1> QED BY <1>4, <1>5, <1>6, <1>7, QueueSteps
-----------------------------------------------------------------------------
(* Mails out of turn are paid for.                                         *)

\* How the tasks that may mail t change with one task.
LEMMA PendingDone ==
    ASSUME Types, Types', NEW w \in work, NEW t \in Targets, Done(w)
    PROVE  /\ Cardinality(Pending(t)') <= Cardinality(Pending(t)) - (IF Awaits(w, t) THEN 1 ELSE 0)
           /\ Mailing(t)' => Mailing(t)
<1>1. work' = work \ {w} BY DEF Done
<1>2. Pending(t)' \subseteq Pending(t) \ {w} BY <1>1 DEF Pending, Awaits
<1>3. CASE Awaits(w, t)
  <2>1. w \in Pending(t) BY <1>3 DEF Pending
  <2> QED BY <1>1, <1>2, <1>3, <2>1, QueueFacts, OneLess DEF Mailing, Awaits
<1>4. CASE ~Awaits(w, t)
  <2>1. Cardinality(Pending(t)') <= Cardinality(Pending(t)) BY <1>2, QueueFacts, Fewer
  <2> QED BY <1>1, <1>4, <2>1, QueueFacts, QueueFactsNext DEF Mailing, Awaits
<1> QED BY <1>3, <1>4

LEMMA PendingBecomes ==
    ASSUME Types, Types', NEW w \in work, NEW v, NEW t \in Targets, Becomes(w, v)
    PROVE  /\ Cardinality(Pending(t)') <= Cardinality(Pending(t)) - (IF Awaits(w, t) THEN 1 ELSE 0)
                                                                  + (IF Awaits(v, t) THEN 1 ELSE 0)
           /\ Mailing(t)' => Mailing(t) \/ (Awaits(v, t) /\ v.step = "mail")
<1>1. work' = (work \ {w}) \cup {v} BY DEF Becomes
<1>2. Pending(t)' \subseteq (Pending(t) \ {w}) \cup {v} BY <1>1 DEF Pending, Awaits
<1>3. ~Awaits(v, t) => Pending(t)' \subseteq Pending(t) \ {w} BY <1>1 DEF Pending, Awaits
<1>4. /\ Cardinality(Pending(t)) \in Nat /\ Cardinality(Pending(t)') \in Nat
      /\ IsFiniteSet(Pending(t))
  BY QueueFacts, QueueFactsNext
<1>5. Awaits(w, t) => w \in Pending(t) BY DEF Pending
<1>6. Mailing(t)' => Mailing(t) \/ (Awaits(v, t) /\ v.step = "mail") BY <1>1 DEF Mailing, Awaits
<1>7. CASE Awaits(w, t) /\ Awaits(v, t)
  <2>1. Cardinality(Pending(t)') <= Cardinality(Pending(t)) BY <1>2, <1>4, <1>5, <1>7, Exchanged
  <2> QED BY <1>4, <1>6, <1>7, <2>1
<1>8. CASE Awaits(w, t) /\ ~Awaits(v, t)
  <2>1. Cardinality(Pending(t)') <= Cardinality(Pending(t)) - 1 BY <1>3, <1>4, <1>5, <1>8, OneLess
  <2> QED BY <1>4, <1>6, <1>8, <2>1
<1>9. CASE ~Awaits(w, t) /\ Awaits(v, t)
  <2>1. Pending(t)' \subseteq Pending(t) \cup {v} BY <1>2
  <2>2. Cardinality(Pending(t)') <= Cardinality(Pending(t)) + 1 BY <1>4, <2>1, OneMore
  <2> QED BY <1>4, <1>6, <1>9, <2>2
<1>10. CASE ~Awaits(w, t) /\ ~Awaits(v, t)
  <2>1. Pending(t)' \subseteq Pending(t) BY <1>3, <1>10
  <2>2. Cardinality(Pending(t)') <= Cardinality(Pending(t)) BY <1>4, <2>1, Fewer
  <2> QED BY <1>4, <1>6, <1>10, <2>2
<1> QED BY <1>7, <1>8, <1>9, <1>10

\* A step after which t has no more chances, and nothing is newly to come.
LEMMA PaidStill ==
    ASSUME Types, Types', NEW t \in Targets, Paid(t),
           repeats'[t] = repeats[t], faults <= faults', Chances(t)' <= Chances(t),
           Recent(t)' => Recent(t),
           Recent(t)' /\ (Elapsed(t)' \/ Mailing(t)') => Elapsed(t) \/ Mailing(t),
           Recent(t)' /\ Elapsed(t)' /\ ~Stamper(t)' => faults < faults' \/ (Elapsed(t) /\ ~Stamper(t))
    PROVE  Paid(t)'
<1>1. /\ repeats[t] \in Nat /\ faults \in Nat /\ faults' \in Nat
      /\ Chances(t) \in Nat /\ Chances(t)' \in Nat
  BY QueueFacts, QueueFactsNext DEF Types
<1>2. repeats'[t] <= faults' BY <1>1 DEF Paid
<1>3. repeats'[t] + Chances(t)' <= faults' + 1 BY <1>1 DEF Paid
<1>4. ASSUME Recent(t)' /\ (Elapsed(t)' \/ Mailing(t)') PROVE repeats'[t] + Chances(t)' <= faults'
  BY <1>1, <1>4 DEF Paid
<1>5. ASSUME Recent(t)' /\ Elapsed(t)' /\ ~Stamper(t)' PROVE repeats'[t] + 1 <= faults'
  BY <1>1, <1>5 DEF Paid
<1> QED BY <1>2, <1>3, <1>4, <1>5 DEF Paid

\* A fault pays for one more chance.
LEMMA PaidByFault ==
    ASSUME Types, Types', NEW t \in Targets, Paid(t),
           repeats'[t] = repeats[t], faults' = faults + 1, Chances(t)' <= Chances(t) + 1,
           Recent(t)' => Recent(t),
           Recent(t)' /\ (Elapsed(t)' \/ Mailing(t)') => Elapsed(t) \/ Mailing(t)
    PROVE  Paid(t)'
<1>1. /\ repeats[t] \in Nat /\ faults \in Nat
      /\ Chances(t) \in Nat /\ Chances(t)' \in Nat
  BY QueueFacts, QueueFactsNext DEF Types
<1>2. repeats'[t] <= faults' BY <1>1 DEF Paid
<1>3. repeats'[t] + Chances(t)' <= faults' + 1 BY <1>1 DEF Paid
<1>4. ASSUME Recent(t)' /\ (Elapsed(t)' \/ Mailing(t)') PROVE repeats'[t] + Chances(t)' <= faults'
  BY <1>1, <1>4 DEF Paid
<1>5. repeats'[t] + 1 <= faults' BY <1>1 DEF Paid
<1> QED BY <1>2, <1>3, <1>4, <1>5 DEF Paid

LEMMA PaidEnqueue ==
    ASSUME Types, Types', Room, NEW p \in Passes, Enqueue(p), NEW t \in Targets, Paid(t)
    PROVE  Paid(t)'
<1>1. UNCHANGED <<stamp, mailed, repeats, faults>> BY DEF Enqueue
<1>2. faults \in Nat BY DEF Types
<1>3. UNCHANGED <<Recent(t), Elapsed(t)>> BY <1>1 DEF Recent, Elapsed, BackoffElapsed
<1>4. CASE UNCHANGED <<ids, work>>
  <2>1. UNCHANGED <<Chances(t), Mailing(t), Stamper(t)>>
    BY <1>4 DEF Chances, ToCome, Pending, Awaits, Mailing, Stamper
  <2> QED BY <1>1, <1>2, <1>3, <2>1, PaidStill, QueueFacts
<1>5. ASSUME NEW j \in Jobs \ ids, NEW v, ids' = ids \cup {j}, work' = work \cup {v},
             v.job = j, v.step = "waiting", v.todo = {}
      PROVE  Paid(t)'
  <2>1. (Mailing(t)' => Mailing(t)) /\ (Stamper(t) => Stamper(t)') BY <1>5 DEF Mailing, Awaits, Stamper
  <2>2. Chances(t)' <= Chances(t)
    <3>1. CASE JobOf(t) = j
      <4>1. Pending(t)' \subseteq Pending(t) \cup {v} BY <1>5 DEF Pending, Awaits
      <4>2. Cardinality(Pending(t)') <= Cardinality(Pending(t)) + 1 BY <4>1, QueueFacts, OneMore
      <4>3. ToCome(t) = 1 /\ ToCome(t)' = 0 BY <1>5, <3>1 DEF ToCome
      <4> QED BY <4>2, <4>3, QueueFacts, QueueFactsNext DEF Chances
    <3>2. CASE JobOf(t) # j
      <4>1. Pending(t)' = Pending(t) BY <1>5, <3>2 DEF Pending, Awaits
      <4>2. ToCome(t)' = ToCome(t) BY <1>5, <3>2 DEF ToCome
      <4> QED BY <4>1, <4>2, QueueFacts DEF Chances
    <3> QED BY <3>1, <3>2
  <2> QED BY <1>1, <1>2, <1>3, <2>1, <2>2, PaidStill
<1> QED BY <1>4, <1>5, EnqueueShape

LEMMA PaidTick ==
    ASSUME Types, Types', Dates, Tick, NEW t \in Targets, Paid(t)
    PROVE  Paid(t)'
<1>1. /\ work' = work /\ ids' = {} /\ repeats' = repeats
      /\ \A w \in work : w.step = "waiting"
  BY DEF Tick
<1>2. ~Mailing(t) /\ ~Mailing(t)' /\ ~Stamper(t) /\ ToCome(t)' = 1 /\ Pending(t)' = Pending(t)
  BY <1>1 DEF Mailing, Awaits, Stamper, ToCome, Pending
<1>3. Recent(t)' => Recent(t)
  <2>1. mailed[t] <= mailed'[t] BY TickKeepsDates
  <2>2. mailed[t] \in 0..Never /\ mailed'[t] \in 0..Never /\ Backoff[JobOf(t)] \in 1..Never
    BY Constants DEF Types, DateTypes
  <2> QED BY <2>1, <2>2 DEF Recent
<1>4. Recent(t)' /\ Elapsed(t)' => Elapsed(t) BY TickKeepsDates
<1>5. CASE work = {}
  <2>1. Pending(t) = {} BY <1>5 DEF Pending
  <2>2. Chances(t)' = 1 BY <1>2, <2>1, FS_EmptySet DEF Chances
  <2>3. faults' = faults /\ repeats[t] \in Nat /\ faults \in Nat BY <1>5 DEF Tick, Types
  <2> QED BY <1>1, <1>2, <1>3, <1>4, <2>2, <2>3 DEF Paid
<1>6. CASE work # {}
  <2>1. faults' = faults + 1 BY <1>6 DEF Tick, Fault
  <2>2. Chances(t)' <= Chances(t) + 1 BY <1>2, QueueFacts DEF Chances, ToCome
  <2> QED BY <1>1, <1>2, <1>3, <1>4, <2>1, <2>2, PaidByFault
<1> QED BY <1>5, <1>6

LEMMA PaidRun ==
    ASSUME Types, Types', TaskSound, NEW w \in work,
           Attempt(w) \/ (\E u \in Targets : MailFails(w, u)) \/ AttemptFails(w),
           NEW t \in Targets, Paid(t)
    PROVE  Paid(t)'
<1>0. /\ w \in Task /\ DateTypes /\ faults \in Nat /\ faults' \in Nat /\ JobOf(t) \in Jobs
      /\ Chances(t) \in Nat /\ Chances(t)' \in Nat /\ repeats \in [Targets -> Nat]
      /\ Cardinality(Pending(t)) \in Nat /\ Cardinality(Pending(t)') \in Nat
      /\ \A u \in w.todo : JobOf(u) = w.job
  BY QueueFacts, QueueFactsNext, Constants DEF Types, TaskSound
<1>1. ids' = ids BY RunLeavesRows
<1>2. Chances(t)' - Chances(t) = Cardinality(Pending(t)') - Cardinality(Pending(t)) /\ ToCome(t) \in Nat
  BY <1>0, <1>1 DEF Chances, ToCome
\* The task is over, or goes on without a new chance; dates and mails stay.
<1>3. ASSUME Done(w), UNCHANGED <<stamp, mailed, repeats>>, faults' = faults \/ faults' = faults + 1,
             faults' = faults => w.step # "mail" \/ w.landed # 1
      PROVE  Paid(t)'
  <2>1. Chances(t)' <= Chances(t) /\ (Mailing(t)' => Mailing(t)) BY <1>0, <1>2, <1>3, PendingDone
  <2>2. UNCHANGED <<Recent(t), Elapsed(t)>> BY <1>3 DEF Recent, Elapsed, BackoffElapsed
  <2>3. faults' = faults /\ Stamper(t) => Stamper(t)' BY <1>3 DEF Stamper, Done
  <2> QED BY <1>0, <1>3, <2>1, <2>2, <2>3, PaidStill
<1>4. ASSUME NEW v, Becomes(w, v), UNCHANGED <<stamp, mailed, repeats>>, faults' = faults,
             w.step = "waiting", w.job = v.job, v.step = "mail" => BackoffElapsed(v.job), v.step # "waiting"
      PROVE  Paid(t)'
  <2>1. UNCHANGED <<Recent(t), Elapsed(t)>> BY <1>4 DEF Recent, Elapsed, BackoffElapsed
  <2>2. Awaits(v, t) => Awaits(w, t) /\ Elapsed(t) BY <1>4 DEF Awaits, Elapsed
  <2>3. Chances(t)' <= Chances(t) /\ (Mailing(t)' => Mailing(t) \/ Elapsed(t))
    BY <1>0, <1>2, <1>4, <2>2, PendingBecomes
  <2>4. Stamper(t) => Stamper(t)' BY <1>4 DEF Stamper, Becomes
  <2> QED BY <1>0, <1>4, <2>1, <2>3, <2>4, PaidStill
<1>5. CASE ReminderRests(w)
  <2>1. /\ w.step = "waiting" /\ UNCHANGED <<stamp, mailed, repeats, faults>>
        /\ Done(w) \/ Becomes(w, [w EXCEPT !.step = "clear"])
    BY <1>5 DEF ReminderRests, Starts, HandlerUnchanged
  <2>2. [w EXCEPT !.step = "clear"].step = "clear" /\ [w EXCEPT !.step = "clear"].job = w.job BY <1>0 DEF Task
  <2> QED BY <1>3, <1>4, <2>1, <2>2
<1>6. CASE ReviewRests(w)
  <2>1. /\ w.step = "waiting" /\ UNCHANGED <<stamp, mailed, repeats, faults>>
        /\ Done(w) \/ Becomes(w, [w EXCEPT !.step = "stamp"])
    BY <1>6 DEF ReviewRests, Starts, HandlerUnchanged
  <2>2. [w EXCEPT !.step = "stamp"].step = "stamp" /\ [w EXCEPT !.step = "stamp"].job = w.job BY <1>0 DEF Task
  <2> QED BY <1>3, <1>4, <2>1, <2>2
<1>7. CASE ReminderFires(w)
  <2> DEFINE v == [w EXCEPT !.step = "mail", !.todo = {"managers"}]
  <2>1. v.step = "mail" /\ v.job = w.job BY <1>0 DEF Task
  <2>2. /\ w.step = "waiting" /\ UNCHANGED <<stamp, mailed, repeats, faults>>
        /\ Becomes(w, v) /\ BackoffElapsed(w.job)
    BY <1>7 DEF ReminderFires, Starts, HandlerUnchanged
  <2> HIDE DEF v
  <2> QED BY <1>4, <2>1, <2>2
<1>8. CASE ReviewFires(w)
  <2> DEFINE v == [w EXCEPT !.step = "mail", !.todo = Reachable]
  <2>1. v.step = "mail" /\ v.job = w.job BY <1>0 DEF Task
  <2>2. /\ w.step = "waiting" /\ UNCHANGED <<stamp, mailed, repeats, faults>>
        /\ Done(w) \/ (Becomes(w, v) /\ BackoffElapsed(w.job))
    BY <1>8 DEF ReviewFires, Starts, HandlerUnchanged
  <2> HIDE DEF v
  <2> QED BY <1>3, <1>4, <2>1, <2>2
<1>9. CASE ClearStamp(w)
  <2>1. /\ w.step = "clear" /\ w.job = "syncReminder" /\ Done(w) /\ UNCHANGED <<repeats, faults>>
        /\ stamp' = [stamp EXCEPT !["syncReminder"] = Never] /\ mailed' = [mailed EXCEPT !["managers"] = Never]
    BY <1>9 DEF ClearStamp, HandlerUnchanged, TaskSound
  <2>2. Chances(t)' <= Chances(t) /\ (Mailing(t)' => Mailing(t)) BY <1>0, <1>2, <2>1, PendingDone
  <2>3. CASE t = "managers"
    <3>1. ~Recent(t)' BY <1>0, <2>1, <2>3, Constants DEF DateTypes, Recent
    <3> QED BY <1>0, <2>1, <2>2, <3>1, PaidStill
  <2>4. CASE t # "managers"
    <3>1. mailed'[t] = mailed[t] /\ stamp'[JobOf(t)] = stamp[JobOf(t)]
      BY <1>0, <2>1, <2>4 DEF DateTypes, JobOf
    <3>2. UNCHANGED <<Recent(t), Elapsed(t)>> BY <3>1 DEF Recent, Elapsed, BackoffElapsed
    <3>3. Stamper(t) => Stamper(t)' BY <2>1 DEF Stamper, Done
    <3> QED BY <1>0, <2>1, <2>2, <3>2, <3>3, PaidStill
  <2> QED BY <2>3, <2>4
<1>10. ASSUME NEW u \in Targets, Mail(w, u) PROVE Paid(t)'
  <2> DEFINE v == [w EXCEPT !.todo = @ \ {u}, !.landed = 1]
  <2>1. v.step = "mail" /\ v.job = w.job /\ v.todo = w.todo \ {u} /\ v.landed = 1
    BY <1>0, <1>10 DEF Mail, Task
  <2>2. /\ w.step = "mail" /\ u \in w.todo /\ w.job = JobOf(u)
        /\ Becomes(w, v) /\ UNCHANGED <<stamp, faults>> /\ mailed' = [mailed EXCEPT ![u] = 0]
        /\ repeats' = [repeats EXCEPT ![u] = IF mailed[u] < Backoff[w.job] THEN @ + 1 ELSE @]
    BY <1>0, <1>10 DEF Mail, HandlerUnchanged
  <2> HIDE DEF v
  <2>3. Elapsed(t)' <=> Elapsed(t) BY <2>2 DEF Elapsed, BackoffElapsed
  <2>4. w.job = JobOf(t) => Stamper(t)' BY <2>1, <2>2 DEF Stamper, Becomes
  <2>5. CASE t = u
    <3>1. Awaits(w, t) /\ ~Awaits(v, t) /\ Mailing(t) BY <2>1, <2>2, <2>5 DEF Awaits, Mailing
    <3>2. Chances(t)' <= Chances(t) - 1 BY <1>0, <1>2, <2>2, <3>1, PendingBecomes
    <3>3. repeats'[t] = IF Recent(t) THEN repeats[t] + 1 ELSE repeats[t] BY <1>0, <2>2, <2>5 DEF Recent
    <3>4. repeats[t] \in Nat BY <1>0
    <3>5. repeats'[t] + Chances(t)' <= faults'
      <4>1. CASE Recent(t)
        <5>1. repeats[t] + Chances(t) <= faults BY <3>1, <4>1 DEF Paid
        <5> QED BY <1>0, <2>2, <3>2, <3>3, <3>4, <4>1, <5>1
      <4>2. CASE ~Recent(t)
        <5>1. repeats[t] + Chances(t) <= faults + 1 BY DEF Paid
        <5> QED BY <1>0, <2>2, <3>2, <3>3, <3>4, <4>2, <5>1
      <4> QED BY <4>1, <4>2
    <3>6. repeats'[t] \in Nat BY <3>3, <3>4
    <3>7. repeats'[t] <= faults' /\ repeats'[t] + Chances(t)' <= faults' + 1 BY <1>0, <3>5, <3>6
    <3> QED BY <2>2, <2>4, <2>5, <3>5, <3>7 DEF Paid
  <2>6. CASE t # u
    <3>1. Awaits(v, t) => Awaits(w, t) /\ Mailing(t) BY <2>1, <2>2 DEF Awaits, Mailing
    <3>2. Chances(t)' <= Chances(t) /\ (Mailing(t)' => Mailing(t)) BY <1>0, <1>2, <2>2, <3>1, PendingBecomes
    <3>3. mailed'[t] = mailed[t] /\ repeats'[t] = repeats[t] BY <1>0, <2>2, <2>6 DEF DateTypes
    <3>4. Recent(t)' <=> Recent(t) BY <3>3 DEF Recent
    <3>5. Stamper(t) => Stamper(t)'
      <4>1. CASE w.job = JobOf(t) BY <2>4, <4>1
      <4>2. CASE w.job # JobOf(t) BY <2>2, <4>2 DEF Stamper, Becomes
      <4> QED BY <4>1, <4>2
    <3> QED BY <1>0, <2>2, <2>3, <3>2, <3>3, <3>4, <3>5, PaidStill
  <2> QED BY <2>5, <2>6
<1>11. CASE Stamp(w)
  <2>1. /\ ~Awaits(w, t) \/ w.step # "waiting"
        /\ Done(w) /\ UNCHANGED <<mailed, repeats, faults>>
        /\ \/ stamp' = stamp /\ w.landed = 0
           \/ stamp' = [stamp EXCEPT ![w.job] = 0]
    BY <1>11 DEF Stamp, HandlerUnchanged
  <2>2. Chances(t)' <= Chances(t) /\ (Mailing(t)' => Mailing(t)) BY <1>0, <1>2, <2>1, PendingDone
  <2>3. CASE stamp' = stamp /\ w.landed = 0
    BY <1>3, <2>1, <2>3
  <2>4. CASE stamp' = [stamp EXCEPT ![w.job] = 0] /\ w.job = JobOf(t)
    <3>1. stamp'[JobOf(t)] = 0 BY <1>0, <2>4 DEF DateTypes
    <3>2. ~Elapsed(t)' BY <1>0, <3>1, Constants DEF Elapsed, BackoffElapsed
    <3>3. Recent(t)' <=> Recent(t) BY <2>1 DEF Recent
    <3> QED BY <1>0, <2>1, <2>2, <3>2, <3>3, PaidStill
  <2>5. CASE stamp' = [stamp EXCEPT ![w.job] = 0] /\ w.job # JobOf(t)
    <3>1. stamp'[JobOf(t)] = stamp[JobOf(t)] BY <1>0, <2>5 DEF DateTypes
    <3>2. UNCHANGED <<Recent(t), Elapsed(t)>> BY <2>1, <3>1 DEF Recent, Elapsed, BackoffElapsed
    <3>3. Stamper(t) => Stamper(t)' BY <2>1, <2>5 DEF Stamper, Done
    <3> QED BY <1>0, <2>1, <2>2, <3>2, <3>3, PaidStill
  <2> QED BY <2>1, <2>3, <2>4, <2>5
<1>12. ASSUME NEW u \in Targets, MailFails(w, u) PROVE Paid(t)'
  <2> DEFINE v == [w EXCEPT !.todo = @ \ {u}]
  <2>1. v.step = w.step /\ v.job = w.job /\ v.todo = w.todo \ {u} BY <1>0 DEF Task
  <2>2. /\ w.step = "mail" /\ Becomes(w, v) /\ UNCHANGED <<stamp, mailed, repeats>> /\ faults' = faults + 1
    BY <1>12 DEF MailFails, Fault
  <2> HIDE DEF v
  <2>3. Awaits(v, t) => Awaits(w, t) /\ Mailing(t) BY <2>1, <2>2 DEF Awaits, Mailing
  <2>4. Chances(t)' <= Chances(t) /\ (Mailing(t)' => Mailing(t)) BY <1>0, <1>2, <2>2, <2>3, PendingBecomes
  <2>5. UNCHANGED <<Recent(t), Elapsed(t)>> BY <2>2 DEF Recent, Elapsed, BackoffElapsed
  <2> QED BY <1>0, <2>2, <2>4, <2>5, PaidStill
<1>13. CASE AttemptFails(w)
  <2> DEFINE v == [w EXCEPT !.step = "waiting", !.tries = @ + 1, !.todo = {}, !.landed = 0]
  <2>1. v.step = "waiting" BY <1>0 DEF Task
  <2>2. (Becomes(w, v) \/ Done(w)) /\ UNCHANGED <<stamp, mailed, repeats>> /\ faults' = faults + 1
    BY <1>13 DEF AttemptFails, Fault
  <2> HIDE DEF v
  <2>3. CASE Done(w) BY <1>0, <1>3, <2>2, <2>3
  <2>4. CASE Becomes(w, v)
    <3>0. /\ Cardinality(Pending(t)') <= Cardinality(Pending(t)) - (IF Awaits(w, t) THEN 1 ELSE 0)
                                                                + (IF Awaits(v, t) THEN 1 ELSE 0)
          /\ Mailing(t)' => Mailing(t) \/ (Awaits(v, t) /\ v.step = "mail")
      BY <2>4, PendingBecomes
    <3>1. Chances(t)' <= Chances(t) + 1 /\ (Mailing(t)' => Mailing(t))
      BY <1>0, <1>2, <2>1, <3>0
    <3>2. UNCHANGED <<Recent(t), Elapsed(t)>> BY <2>2 DEF Recent, Elapsed, BackoffElapsed
    <3> QED BY <2>2, <3>1, <3>2, PaidByFault
  <2> QED BY <2>2, <2>3, <2>4
<1> QED
  BY <1>5, <1>6, <1>7, <1>8, <1>9, <1>10, <1>11, <1>12, <1>13 DEF Attempt

LEMMA BudgetNext ==
    ASSUME Types, Types', Room, TaskSound, Dates, Budget, [Next]_vars
    PROVE  Budget'
<1> SUFFICES ASSUME NEW t \in Targets PROVE Paid(t)'
  BY DEF Budget
<1>0. Paid(t) BY DEF Budget
<1>1. CASE UNCHANGED <<ids, work, stamp, mailed, repeats>> /\ (faults' = faults \/ faults' = faults + 1)
  <2>1. UNCHANGED <<Recent(t), Elapsed(t), Mailing(t), Stamper(t), Chances(t)>>
    BY <1>1 DEF Recent, Elapsed, BackoffElapsed, Mailing, Awaits, Stamper, Chances, ToCome, Pending
  <2>2. faults \in Nat /\ Chances(t) \in Nat BY QueueFacts DEF Types
  <2> QED BY <1>0, <1>1, <2>1, <2>2, PaidStill
<1>2. CASE \E p \in Passes : Enqueue(p) BY <1>0, <1>2, PaidEnqueue
<1>3. CASE \E w \in work : Attempt(w) \/ (\E u \in Targets : MailFails(w, u)) \/ AttemptFails(w)
  BY <1>0, <1>3, PaidRun
<1>4. CASE Tick BY <1>0, <1>4, PaidTick
<1> QED BY <1>1, <1>2, <1>3, <1>4, QueueSteps
-----------------------------------------------------------------------------
(* The theorems.                                                           *)

LEMMA InitIInv == Init => IInv
<1> SUFFICES ASSUME Init PROVE IInv
  OBVIOUS
<1>1. work = {} /\ ids = {} /\ passes = [p \in Passes |-> Idle] BY DEF Init
<1> DEFINE Given == {[job |-> j, enabled |-> TRUE, due |-> Due] : j \in Jobs}
<1>2. IsFiniteSet(Given)
  <2>1. Given = {[job |-> "syncReminder", enabled |-> TRUE, due |-> Due], [job |-> "manualSeatReview", enabled |-> TRUE, due |-> Due]}
    BY Constants
  <2>2. ASSUME NEW a, NEW b PROVE IsFiniteSet({a, b})
    <3>1. IsFiniteSet({a}) BY FS_Singleton
    <3>2. IsFiniteSet({a} \cup {b}) BY <3>1, FS_AddElement
    <3>3. {a, b} = {a} \cup {b} OBVIOUS
    <3> QED BY <3>2, <3>3
  <2> QED BY <2>1, <2>2
<1>3. /\ \A r \in Given : r \in Row /\ r.enabled = TRUE
      /\ \A q, r \in Given : q.job = r.job => q = r
      /\ \A j \in Jobs : \E r \in Given : r.job = j
  <2>1. \A r \in Given : r \in Row /\ r.enabled = TRUE
    <3>1. 0 \in 0..Cycle BY Constants
    <3>2. \A j \in Jobs : [job |-> j, enabled |-> TRUE, due |-> Due] \in Row BY <3>1 DEF Row, Due
    <3> QED BY <3>2
  <2>2. \A r \in Given : r = [job |-> r.job, enabled |-> TRUE, due |-> Due] OBVIOUS
  <2>3. \A j \in Jobs : [job |-> j, enabled |-> TRUE, due |-> Due] \in Given OBVIOUS
  <2> HIDE DEF Given
  <2> QED BY <2>1, <2>2, <2>3
<1>4. \/ tasks = SetToSeq(Given) /\ choice = [j \in Jobs |-> "on"]
      \/ tasks = <<>> /\ choice = [j \in Jobs |-> "default"]
  BY DEF Init
<1> HIDE DEF Given
<1>5. tasks \in Seq(Row) /\ choice \in [Jobs -> {"on", "off", "default"}] /\ Switches
  <2>1. CASE tasks = SetToSeq(Given) /\ choice = [j \in Jobs |-> "on"]
    <3>1. /\ tasks \in Seq(Given)
          /\ \A i, k \in DOMAIN tasks : tasks[i] = tasks[k] => i = k
          /\ \A r \in Given : \E i \in DOMAIN tasks : tasks[i] = r
      BY <1>2, <2>1, Listed
    <3>2. /\ Len(tasks) \in Nat /\ DOMAIN tasks = 1..Len(tasks) /\ tasks \in [1..Len(tasks) -> Given]
      BY <3>1, LenProperties
    <3>3. \A i \in DOMAIN tasks : tasks[i] \in Given BY <3>2
    <3>4. tasks \in Seq(Row) BY <1>3, <3>2, SeqDef
    <3>5. OneRow(tasks) BY <1>3, <3>1, <3>3 DEF OneRow
    <3>6. \A j \in Jobs : RowOf(j, tasks) # {} BY <1>3, <3>1 DEF RowOf
    <3>7. \A i \in DOMAIN tasks : tasks[i].enabled = (choice[tasks[i].job] = "on")
      BY <1>3, <2>1, <3>3 DEF Row
    <3> QED BY <2>1, <3>4, <3>5, <3>6, <3>7 DEF Switches
  <2>2. CASE tasks = <<>> /\ choice = [j \in Jobs |-> "default"]
    <3>1. tasks \in Seq(Row) /\ DOMAIN tasks = {} BY <2>2, EmptySeq
    <3> QED BY <2>2, <3>1 DEF Switches, OneRow
  <2> QED BY <1>4, <2>1, <2>2
<1>6. IsFiniteSet({}) /\ Cardinality({}) = 0 BY FS_EmptySet
<1>7. Types
  <2>1. DateTypes BY Constants DEF Init, DateTypes
  <2>2. Idle \in PassType BY EmptySeq DEF Idle, PassType
  <2>3. hour \in 0..(Cycle - 1) BY Constants DEF Init
  <2>4. situation \in Situations /\ fired \in BOOLEAN /\ repeats \in [Targets -> Nat] /\ faults \in Nat
    BY DEF Init, Situations
  <2> QED BY <1>1, <1>5, <1>6, <2>1, <2>2, <2>3, <2>4 DEF Types
<1>8. StampsEnqueued BY <1>1 DEF StampsEnqueued, Idle
<1>9. Room
  <2>1. \A j \in Jobs : WorkOf(j) = {} BY <1>1 DEF WorkOf
  <2> QED BY <1>1, <1>6, <2>1, Constants DEF Room
<1>10. TaskSound BY <1>1 DEF TaskSound
<1>11. \A t \in Targets : stamp[JobOf(t)] = Never /\ mailed[t] = Never /\ repeats[t] = 0 /\ faults = 0
  BY Constants DEF Init
<1>12. Budget
  <2>1. ASSUME NEW t \in Targets PROVE Paid(t)
    <3>1. Pending(t) = {} BY <1>1 DEF Pending
    <3>2. Chances(t) = 1 BY <1>1, <1>6, <3>1 DEF Chances, ToCome
    <3>3. ~Recent(t) BY <1>11, Constants DEF Recent
    <3> QED BY <1>11, <3>2, <3>3 DEF Paid
  <2> QED BY <2>1 DEF Budget
<1>13. Dates BY <1>1, <1>11, Constants DEF Dates
<1> QED BY <1>5, <1>7, <1>8, <1>9, <1>10, <1>12, <1>13 DEF IInv

LEMMA IInvHolds == Spec => []IInv
<1>1. IInv /\ [Next]_vars => IInv'
  <2> SUFFICES ASSUME IInv, [Next]_vars PROVE IInv'
    OBVIOUS
  <2>1. Types' BY TypesNext DEF IInv
  <2>2. Switches' BY SwitchesNext DEF IInv
  <2>3. StampsEnqueued' BY StampsNext DEF IInv
  <2>4. Room' /\ TaskSound' BY RoomNext DEF IInv
  <2>5. Dates' BY DatesNext DEF IInv
  <2>6. Budget' BY <2>1, BudgetNext DEF IInv
  <2> QED BY <2>1, <2>2, <2>3, <2>4, <2>5, <2>6 DEF IInv
<1> QED BY <1>1, InitIInv, PTL DEF Spec

\* However the dispatcher's invocations, operators' edits and managers' switches
\* interleave, a job has one row at most and its switch is the last decision about
\* it (commitScheduleChanges of dispatchScheduledTasks.ts re-reads the rows).
THEOREM OptOutIsKept == Spec => []OptOutKept
<1>1. IInv => OptOutKept
  <2> SUFFICES ASSUME IInv PROVE OptOutKept
    OBVIOUS
  <2>1. TypeOK
    <3>1. \A p \in Passes : passes[p] \in PassType BY DEF IInv, Types
    <3>2. \A w \in work : w \in Task BY DEF IInv, Types
    <3>3. \A p \in Passes : passes[p].step \in {"idle", "rows"} /\ passes[p].seeded \subseteq Jobs
      BY <3>1 DEF PassType
    <3>4. \A w \in work : w.job \in Jobs /\ w.n \in 1..MaxQueued /\ w.todo \subseteq Targets
      BY <3>2 DEF Task
    <3> QED BY <3>3, <3>4 DEF IInv, Types, DateTypes, TypeOK
  <2>2. ASSUME NEW j \in Jobs
        PROVE  /\ Cardinality(RowOf(j, tasks)) <= 1
               /\ \A i \in RowOf(j, tasks) : tasks[i].enabled = (choice[j] = "on")
    <3>1. \A i, k \in RowOf(j, tasks) : i = k BY DEF RowOf, IInv, Switches, OneRow
    <3>2. Cardinality(RowOf(j, tasks)) <= 1 BY ONLY <3>1, AtMostOne
    <3> QED BY <3>2 DEF RowOf, IInv, Switches
  <2> QED BY <2>1, <2>2 DEF OptOutKept
<1> QED BY <1>1, IInvHolds, PTL

\* No retry, crash or double invocation mails a target twice within the backoff
\* more often than something has failed (the date stamps of SyncReminderService.ts
\* and ManualSeatReviewService.ts).
THEOREM RepeatsArePaidFor == Spec => []RepeatsCostFaults
<1>1. IInv => RepeatsCostFaults BY DEF IInv, Budget, Paid, RepeatsCostFaults
<1> QED BY <1>1, IInvHolds, PTL

\* A step that moves a due row on finds the job's task of this hour enqueued.
LEMMA DueMovesOn ==
    ASSUME IInv, [Next]_vars, NEW j \in Jobs,
           NEW i \in RowOf(j, tasks), IsTaskDue(tasks[i]), NEW k \in RowOf(j, tasks'), tasks'[k].due > Due
    PROVE  j \in ids
<1>0. /\ tasks \in Seq(Row) /\ OneRow(tasks) /\ OneRow(tasks')
      /\ i \in DOMAIN tasks /\ tasks[i].job = j /\ k \in DOMAIN tasks' /\ tasks'[k].job = j
  <2>1. Switches' BY SwitchesNext DEF IInv
  <2> QED BY <2>1 DEF RowOf, IInv, Types, Switches
<1>1. tasks[i].due = 0 /\ tasks'[k].due # 0 BY DEF IsTaskDue, Due
<1>2. ASSUME tasks' = tasks PROVE FALSE BY <1>0, <1>1, <1>2 DEF OneRow
<1>3. ASSUME NEW p \in Passes, CommitScheduleChanges(p) PROVE j \in ids
  <2> DEFINE new == Stamped(tasks, passes[p].stamps)
                    \o SeedRows({n \in passes[p].seeded : RowOf(n, tasks) = {}})
  <2>1. tasks' = new BY <1>2, <1>3 DEF CommitScheduleChanges
  <2>2. /\ DOMAIN tasks \subseteq DOMAIN new
        /\ new[i].job = tasks[i].job
        /\ new[i].due # tasks[i].due => \E s \in passes[p].stamps : s.job = tasks[i].job
    BY <1>0, Committed DEF IInv
  <2> HIDE DEF new
  <2>3. k = i BY <1>0, <2>1, <2>2 DEF OneRow
  <2> QED BY <1>0, <1>1, <2>1, <2>2, <2>3 DEF IInv, StampsEnqueued
<1>4. ASSUME NEW p \in Passes, ReadSchedule(p) \/ Proceed(p) \/ EnqueueFails(p) \/ PassDies(p) PROVE j \in ids
  BY <1>2, <1>3, <1>4 DEF ReadSchedule, Proceed, Enqueue, EnqueueFails, PassDies, doc
<1>5. ASSUME NEW w \in work, Attempt(w) \/ (\E t \in Targets : MailFails(w, t)) \/ AttemptFails(w) PROVE FALSE
  BY <1>2, <1>5, RunLeavesRows
<1>6. ASSUME NEW n \in Jobs, NEW on \in BOOLEAN, SetScheduledJobEnabled(n, on) PROVE FALSE
  <2>1. /\ DOMAIN tasks' = DOMAIN tasks
        /\ tasks'[i] = IF tasks[i].job = n THEN [tasks[i] EXCEPT !.enabled = on] ELSE tasks[i]
        /\ tasks[i] \in Row
    BY <1>0, <1>6, ElementOfSeq, LenProperties DEF SetScheduledJobEnabled
  <2>2. tasks'[i].job = tasks[i].job /\ tasks'[i].due = tasks[i].due BY <2>1 DEF Row
  <2>3. k = i BY <1>0, <2>1, <2>2 DEF OneRow
  <2> QED BY <1>1, <2>2, <2>3
<1>7. ASSUME NEW n \in DOMAIN tasks, RemoveRow(n) PROVE FALSE
  <2>1. n \in 1..Len(tasks) /\ DOMAIN tasks = 1..Len(tasks) /\ Len(tasks) \in Nat BY <1>0, LenProperties
  <2>2. /\ tasks' \in Seq(Row) /\ Len(tasks') = Len(tasks) - 1
        /\ \A m \in 1..(Len(tasks) - 1) : tasks'[m] = IF m < n THEN tasks[m] ELSE tasks[m + 1]
    BY <1>0, <1>7, <2>1, RemovedRow DEF RemoveRow
  <2>3. k \in 1..(Len(tasks) - 1) BY <1>0, <2>2, LenProperties
  <2>4. \E m \in DOMAIN tasks : tasks'[k] = tasks[m]
    <3>1. CASE k < n
      <4>1. k \in DOMAIN tasks /\ tasks'[k] = tasks[k] BY <2>1, <2>2, <2>3, <3>1
      <4> QED BY <4>1
    <3>2. CASE ~(k < n)
      <4>1. k + 1 \in DOMAIN tasks /\ tasks'[k] = tasks[k + 1] BY <2>1, <2>2, <2>3, <3>2
      <4> QED BY <4>1
    <3> QED BY <3>1, <3>2
  <2> QED BY <1>0, <1>1, <2>4 DEF OneRow
<1>8. ASSUME NEW n \in Jobs, InsertRow(n) PROVE FALSE
  <2> DEFINE r == [job |-> n, enabled |-> TRUE, due |-> Due]
  <2>1. r \in Row /\ r.due = 0 BY Constants DEF Row, Due
  <2>2. tasks' = <<r>> \o tasks BY <1>8 DEF InsertRow
  <2> HIDE DEF r
  <2>3. /\ DOMAIN tasks' = 1..(Len(tasks) + 1) /\ Len(tasks) \in Nat
        /\ tasks'[1] = r /\ \A m \in 2..(Len(tasks) + 1) : m - 1 \in DOMAIN tasks /\ tasks'[m] = tasks[m - 1]
    BY <1>0, <2>1, <2>2, InsertedRow
  <2>4. k # 1 BY <1>1, <2>1, <2>3
  <2>5. k \in 2..(Len(tasks) + 1) BY <1>0, <2>3, <2>4
  <2>6. k - 1 \in DOMAIN tasks /\ tasks'[k] = tasks[k - 1] BY <2>3, <2>5
  <2> QED BY <1>0, <1>1, <2>6 DEF OneRow
<1>9. CASE SituationChanges BY <1>2, <1>9 DEF SituationChanges, doc
<1>10. CASE People
  <2>1. \/ \E n \in Jobs, on \in BOOLEAN : SetScheduledJobEnabled(n, on)
        \/ \E n \in DOMAIN tasks : RemoveRow(n)
        \/ \E n \in Jobs : InsertRow(n)
        \/ SituationChanges
    BY <1>10 DEF People
  <2> QED BY <1>6, <1>7, <1>8, <1>9, <2>1
<1>11. CASE Tick
  <2>1. /\ DOMAIN tasks' = DOMAIN tasks
        /\ tasks'[i] = [tasks[i] EXCEPT !.due = IF @ = 0 THEN 0 ELSE @ - 1]
        /\ tasks[i] \in Row
    BY <1>0, <1>11, ElementOfSeq, LenProperties DEF Tick
  <2>2. tasks'[i].job = tasks[i].job /\ tasks'[i].due = 0 BY <1>1, <2>1 DEF Row
  <2>3. k = i BY <1>0, <2>1, <2>2 DEF OneRow
  <2> QED BY <1>1, <2>2, <2>3
<1>12. CASE UNCHANGED vars BY <1>2, <1>12 DEF vars
<1> QED BY <1>4, <1>5, <1>10, <1>11, <1>12 DEF Next

\* A commit moves a due, enabled row on only when the task of this hour has been
\* enqueued: no crash, failed call or overlap loses a slot ("stamp AFTER the
\* enqueue" of dispatchScheduledTasks.ts).
THEOREM NoSlotIsLost == Spec => SlotNotLost
<1> DEFINE Body == \A j \in Jobs :
                     (\E i \in RowOf(j, tasks) : IsTaskDue(tasks[i])) /\ (\E k \in RowOf(j, tasks') : tasks'[k].due > Due)
                     => j \in ids
<1>1. IInv /\ [Next]_vars => [Body]_vars
  <2> SUFFICES ASSUME IInv, [Next]_vars PROVE Body
    OBVIOUS
  <2> QED BY DueMovesOn
<1> QED BY <1>1, IInvHolds, PTL DEF Spec, SlotNotLost

=============================================================================
