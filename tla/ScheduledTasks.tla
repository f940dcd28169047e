--------------------------- MODULE ScheduledTasks ---------------------------
(***************************************************************************)
(* The scheduled mails of one stake: an hourly dispatcher that seeds,      *)
(* enqueues and stamps the rows of stakeSchedules/{stakeId}, the Cloud     *)
(* Tasks queue it fills, and the two handlers the queue runs, each with    *)
(* its own date stamp.  Managers and operators change the rows meanwhile;  *)
(* dispatchers fail, overlap and stop halfway, handlers are retried.       *)
(* Time goes by hours, relative to now; Cycle of them make a day and the   *)
(* distance between two slots of a job.                                    *)
(***************************************************************************)
EXTENDS Integers, Sequences, FiniteSets, SequencesExt

CONSTANTS
    Passes,         \* invocations of the dispatcher that may overlap
    Cycle,          \* hours between two slots of a job
    Slot,           \* the hour of each job's slot
    Backoff,        \* days between two mails of a job
    Wards,          \* scopes of a review beside the stake
    MaxQueued,      \* bound: queued tasks of one job
    MaxAttempts,    \* attempts of a task
    MaxEdits,       \* bound: changes by people
    MaxFaults       \* bound: crashes, failed calls, double invocations, delays

Jobs == {"syncReminder", "manualSeatReview"}
Scopes == {"stake"} \cup Wards
\* Who a job mails: the managers at once, or each scope for itself.
Targets == {"managers"} \cup Scopes
JobOf(t) == IF t = "managers" THEN "syncReminder" ELSE "manualSeatReview"

Never == 99     \* days: no stamp, or one of long ago
Due == 0        \* the row's next_trigger_time has come, or is missing

ASSUME ScheduledTasksAssumption ==
    /\ Cycle \in Nat \ {0} /\ Slot \in [Jobs -> 0..(Cycle - 1)]
    /\ Backoff \in [Jobs -> 1..Never]    \* 3 and 75 days in the code
    /\ "managers" \notin Wards
    /\ MaxQueued \in Nat \ {0} /\ MaxAttempts \in Nat \ {0} /\ MaxEdits \in Nat /\ MaxFaults \in Nat

VARIABLES
    hour,       \* of the day
    tasks,      \* stakeSchedules/{stakeId}.tasks
    passes,     \* dispatcher invocations
    fired,      \* the scheduler has fired this hour
    ids,        \* jobs whose task id of this hour is taken
    work,       \* tasks in the queue, waiting or being run
    stamp,      \* days since the date stamp of each job; Never without one
    situation,  \* what the handlers read of the stake
    edits, faults,
    mailed,     \* history: days since each target was mailed
    repeats,    \* history: mails a target got within the backoff of the one before
    choice      \* history: the last decision about a job's row

vars == <<hour, tasks, passes, fired, ids, work, stamp, situation, edits, faults, mailed, repeats, choice>>
doc == <<tasks, choice>>
runner == <<work, stamp, mailed, repeats>>
dispatcher == <<passes, fired, ids>>

Row == [job : Jobs, enabled : BOOLEAN, due : 0..Cycle]
Idle == [step |-> "idle", tasks |-> <<>>, seeded |-> {}, stamps |-> {}, at |-> 1]

\* Hours until the next slot after now; the one just reached is over.
NextTriggerTime(j) == ((Slot[j] - hour + Cycle - 1) % Cycle) + 1

RowOf(j, rows) == {i \in DOMAIN rows : rows[i].job = j}

Init ==
    /\ hour = 0
    /\ \E on \in BOOLEAN :        \* a new stake, or one with both jobs switched on
          /\ tasks = IF on THEN SetToSeq({[job |-> j, enabled |-> TRUE, due |-> Due] : j \in Jobs}) ELSE <<>>
          /\ choice = [j \in Jobs |-> IF on THEN "on" ELSE "default"]
    /\ passes = [p \in Passes |-> Idle] /\ fired = FALSE /\ ids = {}
    /\ work = {} /\ stamp = [j \in Jobs |-> Never]
    /\ situation \in [overdue : BOOLEAN, managers : BOOLEAN, grants : SUBSET Scopes, bishoprics : SUBSET Wards]
    /\ edits = 0 /\ faults = 0
    /\ mailed = [t \in Targets |-> Never] /\ repeats = [t \in Targets |-> 0]

-----------------------------------------------------------------------------
(* The dispatcher.                                                         *)

IsTaskDue(row) == row.enabled /\ row.due = Due

\* The next due row from i on; rows that are not due are passed over.
NextDue(rows, i) ==
    CHOOSE k \in i..(Len(rows) + 1) :
        /\ k <= Len(rows) => IsTaskDue(rows[k])
        /\ \A l \in i..(k - 1) : ~IsTaskDue(rows[l])

Fault == faults < MaxFaults /\ faults' = faults + 1

\* The hour's invocation, or a second one of the same hour.
ReadSchedule(p) ==
    /\ passes[p].step = "idle"
    /\ IF fired THEN Fault ELSE UNCHANGED faults
    /\ fired' = TRUE
    /\ LET missing == {j \in Jobs : RowOf(j, tasks) = {}} IN
       passes' = [passes EXCEPT ![p] = [step |-> "rows", tasks |-> tasks, seeded |-> missing, stamps |-> {},
                                        at |-> NextDue(tasks, 1)]]
    /\ UNCHANGED <<hour, doc, ids, runner, situation, edits>>

Moves(p, stamps) ==
    passes' = [passes EXCEPT ![p].at = NextDue(passes[p].tasks, @ + 1), ![p].stamps = @ \cup stamps]

QueueItem(j) == [job |-> j, n |-> CHOOSE n \in 1..MaxQueued : [job |-> j, n |-> n] \notin {[job |-> w.job, n |-> w.n] : w \in work},
                 tries |-> 0, step |-> "waiting", todo |-> {}, landed |-> 0]

\* The id names the job and the hour; one that is taken counts as enqueued.
Enqueue(p) ==
    LET i == passes[p].at
        j == passes[p].tasks[i].job IN
    /\ passes[p].step = "rows" /\ i <= Len(passes[p].tasks)
    /\ IF j \in ids THEN UNCHANGED <<ids, work>>
       ELSE ids' = ids \cup {j} /\ work' = work \cup {QueueItem(j)}
    /\ Moves(p, {[index |-> i, job |-> j, due |-> NextTriggerTime(j)]})
    /\ UNCHANGED <<hour, doc, fired, stamp, situation, edits, faults, mailed, repeats>>

\* (mutation) a row is stamped although its enqueue failed.
EnqueueFailsStamped(p) ==
    LET i == passes[p].at IN
    /\ passes[p].step = "rows" /\ i <= Len(passes[p].tasks)
    /\ Fault
    /\ Moves(p, {[index |-> i, job |-> passes[p].tasks[i].job, due |-> NextTriggerTime(passes[p].tasks[i].job)]})
    /\ UNCHANGED <<hour, doc, fired, ids, runner, situation, edits>>

\* The row stays due for the next hour.
EnqueueFails(p) ==
    /\ passes[p].step = "rows" /\ passes[p].at <= Len(passes[p].tasks)
    /\ Fault
    /\ Moves(p, {})
    /\ UNCHANGED <<hour, doc, fired, ids, runner, situation, edits>>

IndexOfStampTarget(current, s) ==
    IF s.index \in DOMAIN current /\ current[s.index].job = s.job THEN {s.index} ELSE RowOf(s.job, current)

Stamped(current, stamps) ==
    [i \in DOMAIN current |->
        LET mine == {s \in stamps : i \in IndexOfStampTarget(current, s)} IN
        IF mine = {} THEN current[i] ELSE [current[i] EXCEPT !.due = (CHOOSE s \in mine : TRUE).due]]

\* The jobs' defaults are off.
SeedRows(js) == SetToSeq({[job |-> j, enabled |-> FALSE, due |-> NextTriggerTime(j)] : j \in js})

\* (mutation) the array that was read is stamped and written back.
CommitScheduleChangesBlind(p) ==
    /\ passes[p].step = "rows" /\ passes[p].at > Len(passes[p].tasks)
    /\ IF passes[p].stamps = {} /\ passes[p].seeded = {} THEN UNCHANGED tasks
       ELSE tasks' = Stamped(passes[p].tasks, passes[p].stamps) \o SeedRows(passes[p].seeded)
    /\ passes' = [passes EXCEPT ![p] = Idle]
    /\ UNCHANGED <<hour, choice, fired, ids, runner, situation, edits, faults>>

\* Stamps go to the rows as they stand now, seeds to jobs that still have none.
CommitScheduleChanges(p) ==
    /\ passes[p].step = "rows" /\ passes[p].at > Len(passes[p].tasks)
    /\ IF passes[p].stamps = {} /\ passes[p].seeded = {} THEN UNCHANGED tasks
       ELSE tasks' = Stamped(tasks, passes[p].stamps)
                     \o SeedRows({j \in passes[p].seeded : RowOf(j, tasks) = {}})
    /\ passes' = [passes EXCEPT ![p] = Idle]
    /\ UNCHANGED <<hour, choice, fired, ids, runner, situation, edits, faults>>

\* The invocation dies, or its transaction loses every attempt.
PassDies(p) ==
    /\ passes[p].step # "idle"
    /\ Fault
    /\ passes' = [passes EXCEPT ![p] = Idle]
    /\ UNCHANGED <<hour, doc, fired, ids, runner, situation, edits>>

-----------------------------------------------------------------------------
(* The handlers.                                                           *)

Becomes(w, next) == work' = (work \ {w}) \cup {next}
Done(w) == work' = work \ {w}
Starts(w, j) == w.step = "waiting" /\ w.job = j

\* (mutation) every day is a day to mail.
BackoffElapsedDaily(j) == TRUE

BackoffElapsed(j) == stamp[j] >= Backoff[j]

HandlerUnchanged == UNCHANGED <<hour, doc, dispatcher, situation, edits, faults>>

\* (mutation) a reminder held back renews its date.
ReminderRestsRenewing(w) ==
    /\ Starts(w, "syncReminder")
    /\ \/ ~situation.overdue /\ stamp["syncReminder"] # Never /\ Becomes(w, [w EXCEPT !.step = "clear"])
       \/ ~situation.overdue /\ stamp["syncReminder"] = Never /\ Done(w)
       \/ situation.overdue /\ ~BackoffElapsed("syncReminder") /\ Becomes(w, [w EXCEPT !.step = "stamp"])
       \/ situation.overdue /\ BackoffElapsed("syncReminder") /\ ~situation.managers /\ Done(w)
    /\ HandlerUnchanged /\ UNCHANGED <<stamp, mailed, repeats>>

\* The reminder has nothing to say, said it lately, or has nobody to say it to.
ReminderRests(w) ==
    /\ Starts(w, "syncReminder")
    /\ \/ ~situation.overdue /\ stamp["syncReminder"] # Never /\ Becomes(w, [w EXCEPT !.step = "clear"])
       \/ ~situation.overdue /\ stamp["syncReminder"] = Never /\ Done(w)
       \/ situation.overdue /\ (~BackoffElapsed("syncReminder") \/ ~situation.managers) /\ Done(w)
    /\ HandlerUnchanged /\ UNCHANGED <<stamp, mailed, repeats>>

\* The next occurrence is a fresh one.
ClearStamp(w) ==
    /\ w.step = "clear"
    /\ stamp' = [stamp EXCEPT ![w.job] = Never]
    /\ mailed' = [mailed EXCEPT !["managers"] = Never]
    /\ Done(w)
    /\ HandlerUnchanged /\ UNCHANGED repeats

ReminderFires(w) ==
    /\ Starts(w, "syncReminder")
    /\ situation.overdue /\ BackoffElapsed("syncReminder") /\ situation.managers
    /\ Becomes(w, [w EXCEPT !.step = "mail", !.todo = {"managers"}])
    /\ HandlerUnchanged /\ UNCHANGED <<stamp, mailed, repeats>>

\* A review of nothing takes its turn all the same.
ReviewRests(w) ==
    /\ Starts(w, "manualSeatReview")
    /\ \/ ~BackoffElapsed(w.job) /\ Done(w)
       \/ BackoffElapsed(w.job) /\ situation.grants = {} /\ Becomes(w, [w EXCEPT !.step = "stamp"])
    /\ HandlerUnchanged /\ UNCHANGED <<stamp, mailed, repeats>>

Reachable == {s \in situation.grants : IF s = "stake" THEN situation.managers ELSE s \in situation.bishoprics}

ReviewFires(w) ==
    /\ Starts(w, "manualSeatReview")
    /\ BackoffElapsed(w.job) /\ situation.grants # {}
    /\ IF Reachable = {} THEN Done(w) ELSE Becomes(w, [w EXCEPT !.step = "mail", !.todo = Reachable])
    /\ HandlerUnchanged /\ UNCHANGED <<stamp, mailed, repeats>>

Mail(w, t) ==
    /\ w.step = "mail" /\ t \in w.todo
    /\ mailed' = [mailed EXCEPT ![t] = 0]
    /\ repeats' = [repeats EXCEPT ![t] = IF mailed[t] < Backoff[w.job] THEN @ + 1 ELSE @]
    /\ Becomes(w, [w EXCEPT !.todo = @ \ {t}, !.landed = 1])
    /\ HandlerUnchanged /\ UNCHANGED stamp

\* A mail that fails is recorded and swallowed.
MailFails(w, t) ==
    /\ w.step = "mail" /\ t \in w.todo
    /\ Fault
    /\ Becomes(w, [w EXCEPT !.todo = @ \ {t}])
    /\ UNCHANGED <<hour, doc, dispatcher, stamp, situation, edits, mailed, repeats>>

\* A reminder is stamped in any case; a review only if some mail landed.
Stamp(w) ==
    /\ w.step = "stamp" \/ (w.step = "mail" /\ w.todo = {})
    /\ Done(w)
    /\ stamp' = IF w.step = "mail" /\ w.job = "manualSeatReview" /\ w.landed = 0
                THEN stamp ELSE [stamp EXCEPT ![w.job] = 0]
    /\ HandlerUnchanged /\ UNCHANGED <<mailed, repeats>>

\* An attempt throws or times out; the queue tries again, a few times.
AttemptFails(w) ==
    /\ Fault
    /\ IF w.tries + 1 < MaxAttempts
       THEN Becomes(w, [w EXCEPT !.step = "waiting", !.tries = @ + 1, !.todo = {}, !.landed = 0])
       ELSE Done(w)
    /\ UNCHANGED <<hour, doc, dispatcher, stamp, situation, edits, mailed, repeats>>

-----------------------------------------------------------------------------
(* People and time.                                                        *)

Edit == edits < MaxEdits /\ edits' = edits + 1

\* The configuration page; it needs a row and changes nothing else.
SetScheduledJobEnabled(j, on) ==
    /\ Edit
    /\ RowOf(j, tasks) # {}
    /\ tasks' = [i \in DOMAIN tasks |-> IF tasks[i].job = j THEN [tasks[i] EXCEPT !.enabled = on] ELSE tasks[i]]
    /\ choice' = [choice EXCEPT ![j] = IF on THEN "on" ELSE "off"]
    /\ UNCHANGED <<hour, dispatcher, runner, situation, faults>>

\* An operator edits the document by hand.
RemoveRow(i) ==
    /\ Edit
    /\ tasks' = RemoveAt(tasks, i)
    /\ choice' = [choice EXCEPT ![tasks[i].job] = "default"]
    /\ UNCHANGED <<hour, dispatcher, runner, situation, faults>>

InsertRow(j) ==
    /\ Edit
    /\ RowOf(j, tasks) = {}
    /\ tasks' = <<[job |-> j, enabled |-> TRUE, due |-> Due]>> \o tasks
    /\ choice' = [choice EXCEPT ![j] = "on"]
    /\ UNCHANGED <<hour, dispatcher, runner, situation, faults>>

\* The roster, the managers and the bishoprics change.
SituationChanges ==
    /\ Edit
    /\ \/ situation' = [situation EXCEPT !.overdue = ~@]
       \/ situation' = [situation EXCEPT !.managers = ~@]
       \/ \E s \in Scopes : situation' = [situation EXCEPT !.grants = IF s \in @ THEN @ \ {s} ELSE @ \cup {s}]
    /\ UNCHANGED <<hour, doc, dispatcher, runner, faults>>

Older(days, backoff) == IF days = Never THEN Never ELSE IF days < backoff THEN days + 1 ELSE backoff

\* Invocations and attempts are over within the hour; that a queued task waits
\* longer is a fault.  (A job's jitter holds a task back for a fixed time and so
\* keeps two tasks of the job apart; it is left out.)
Tick ==
    /\ fired
    /\ \A p \in Passes : passes[p].step = "idle"
    /\ \A w \in work : w.step = "waiting"
    /\ \A j \in Jobs : Cardinality({w \in work : w.job = j}) < MaxQueued
    /\ hour' = (hour + 1) % Cycle
    /\ fired' = FALSE /\ ids' = {}
    /\ tasks' = [i \in DOMAIN tasks |-> [tasks[i] EXCEPT !.due = IF @ = 0 THEN 0 ELSE @ - 1]]
    /\ IF hour' = 0
       THEN /\ stamp' = [j \in Jobs |-> Older(stamp[j], Backoff[j])]
            /\ mailed' = [t \in Targets |-> Older(mailed[t], Backoff[JobOf(t)])]
       ELSE UNCHANGED <<stamp, mailed>>
    /\ IF work = {} THEN UNCHANGED faults ELSE Fault
    /\ UNCHANGED <<passes, work, situation, edits, repeats, choice>>

-----------------------------------------------------------------------------
Proceed(p) == Enqueue(p) \/ CommitScheduleChanges(p)

Attempt(w) ==
    \/ ReminderRests(w) \/ ClearStamp(w) \/ ReminderFires(w) \/ ReviewRests(w) \/ ReviewFires(w)
    \/ (\E t \in Targets : Mail(w, t)) \/ Stamp(w)

People ==
    \/ \E j \in Jobs, on \in BOOLEAN : SetScheduledJobEnabled(j, on)
    \/ \E i \in DOMAIN tasks : RemoveRow(i)
    \/ \E j \in Jobs : InsertRow(j)
    \/ SituationChanges

Next ==
    \/ \E p \in Passes : ReadSchedule(p) \/ Proceed(p) \/ EnqueueFails(p) \/ PassDies(p)
    \/ \E w \in work : Attempt(w) \/ (\E t \in Targets : MailFails(w, t)) \/ AttemptFails(w)
    \/ People
    \/ Tick

Spec == Init /\ [][Next]_vars

\* The scheduler fires every hour, an invocation and the queue's tasks proceed,
\* and time passes.  People and faults are under no obligation.
Fairness ==
    /\ WF_vars(~fired /\ \E p \in Passes : ReadSchedule(p))
    /\ \A p \in Passes : WF_vars(Proceed(p))
    /\ WF_vars(\E w \in work : Attempt(w))
    /\ WF_vars(Tick)

FairSpec == Spec /\ Fairness

-----------------------------------------------------------------------------
(* Properties.                                                             *)

TypeOK ==
    /\ hour \in 0..(Cycle - 1) /\ fired \in BOOLEAN /\ ids \subseteq Jobs
    /\ tasks \in Seq(Row)
    /\ \A p \in Passes : passes[p].step \in {"idle", "rows"} /\ passes[p].seeded \subseteq Jobs
    /\ \A w \in work : w.job \in Jobs /\ w.n \in 1..MaxQueued /\ w.todo \subseteq Targets
    /\ \A j \in Jobs : stamp[j] \in 0..Backoff[j] \cup {Never}

\* Whatever invocations overlap with a person's change, a job has one row at most
\* and its switch is the last decision about it (dispatchScheduledTasks.ts, "a
\* concurrent enabled, schedule or row removal survives"; and the variables keep
\* their types).
OptOutKept ==
    TypeOK /\ \A j \in Jobs :
        /\ Cardinality(RowOf(j, tasks)) <= 1
        /\ \A i \in RowOf(j, tasks) : tasks[i].enabled = (choice[j] = "on")

\* A due slot is never passed by without its task: when the commit of an invocation
\* moves a due, enabled row on, the task of this hour has been enqueued, so no
\* crash or failed call loses a fire (dispatchScheduledTasks.ts, "Stamp AFTER the
\* enqueue").
SlotNotLost ==
    [][\A j \in Jobs :
          (\E i \in RowOf(j, tasks) : IsTaskDue(tasks[i])) /\ (\E k \in RowOf(j, tasks') : tasks'[k].due > Due)
          => j \in ids]_vars

\* A target is mailed twice within the backoff only if something failed, and once
\* for each failure at most: retries, crashes and double invocations do not add up.
RepeatsCostFaults == \A t \in Targets : repeats[t] <= faults

Wanted(j) == IF j = "syncReminder" THEN situation.overdue /\ situation.managers ELSE Reachable # {}

\* A job that stays switched on and has something to say to somebody keeps mailing,
\* whatever failed before.
ReminderComes ==
    \A j \in Jobs :
        <>[]((\E i \in RowOf(j, tasks) : tasks[i].enabled) /\ Wanted(j))
        => []<>(\E t \in Targets : JobOf(t) = j /\ mailed[t] = 0)
=============================================================================
