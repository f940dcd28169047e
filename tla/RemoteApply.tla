----------------------------- MODULE RemoteApply -----------------------------
(***************************************************************************)
(* Remote apply: a manager's phones queue jobs in one Firestore mailbox,   *)
(* and the Kindoo tabs of the manager's desktop poll it, claim a job of    *)
(* the site they are in, provision it in Kindoo and report back.  The      *)
(* desktop's own button runs the same provisioning without a job.          *)
(*                                                                         *)
(* A tab runs one tick of its loop at a time; what it awaits (reads and    *)
(* writes of the mailbox, Kindoo calls, the completion callable) are the   *)
(* steps here, so everything another actor does may fall between them.     *)
(* Clocks appear only through the thresholds the code compares against.    *)
(***************************************************************************)
EXTENDS Integers, FiniteSets

CONSTANTS
    Tabs,           \* Kindoo tabs with the extension's content script
    Phones,         \* devices showing the manager's queue
    Jobs,           \* job document ids
    Requests,       \* pending add requests of members not yet in Kindoo
    Sites,          \* site keys of the stake
    SiteOf,         \* the site a request must be provisioned on
    HomeTab,        \* the site each tab opens on
    None,           \* no request, no job, no resolved site
    Clickers,       \* tabs whose manager uses the desktop's own button
    StableTabs,     \* tabs that are never closed
    MaxFaults       \* bound: lost writes and answers, failed calls, closed tabs

ASSUME RemoteApplyAssumption ==
    /\ SiteOf \in [Requests -> Sites]
    /\ HomeTab \in [Tabs -> Sites]
    /\ None \notin Requests \cup Jobs \cup Sites
    /\ Clickers \subseteq Tabs
    /\ StableTabs \subseteq Tabs
    /\ MaxFaults \in Nat

VARIABLES
    jobs,       \* remoteApply/{manager}/jobs/{jobId}
    seen,       \* the jobs in each phone's snapshot of the mailbox
    reqs,       \* status of each request in SBA
    invites,    \* Kindoo invites of the request's member, per site
    granted,    \* requests whose access rules are in Kindoo
    at,         \* the Kindoo site a tab is showing
    active,     \* the site its loop resolved last (activeSite)
    pc,         \* where a tab's tick is
    page,       \* queued jobs it read and has not looked at yet
    fresh,      \* those it found within the pickup window
    job,        \* the job it claims or runs
    busy,       \* request ids its own buttons are gated on (publishedBusyIds)
    last,       \* lastRunningElsewhereIds
    stale,      \* its last complete poll is older than REMOTE_APPLY_BUSY_HOLD_MS
    cards,      \* the requests on its queue panel
    run,        \* the provisioning in progress of each runner
    faults,     \* faults so far
    wrote,      \* history: jobs whose run made a Kindoo write
    swept,      \* history: jobs a sweep finalised while a tab was running them
    began,      \* history: jobs that were live when a tab's poll began
    polled      \* history: of those, the ones live when it completed

mailbox == <<jobs, seen>>
kindoo  == <<invites, granted>>
gate    == <<busy, last, stale, polled>>
tick    == <<active, pc, page, fresh, job, began>>
history == <<wrote, swept>>
vars == <<mailbox, reqs, kindoo, at, tick, gate, cards, run, faults, history>>

LiveStatuses     == {"queued", "running"}
Outcomes         == {"applied", "partial", "failed"}
TerminalStatuses == Outcomes \cup {"cancelled"}

\* `late`: past the pickup window while queued.  `age`: past the stranded
\* threshold (1) and past the one for another site's jobs (2) since the claim.
Job == [request : Requests \cup {None}, late : BOOLEAN, age : 0..2,
        status : LiveStatuses \cup TerminalStatuses \cup {"none"}]
NoJob == [request |-> None, status |-> "none", late |-> FALSE, age |-> 0]

\* Both callers of applyRequest: the loop with a job, the panel without one.
Runners == Tabs \X {"loop", "panel"}
Run == {r \in [step : {"idle", "pending", "lookup", "invite", "rules", "mark", "finish", "dialog"},
               request : Requests \cup {None}, site : Sites \cup {None},
               result : Outcomes \cup {"none"}] :
            /\ r.step # "idle" => r.request \in Requests
            /\ r.step = "finish" => r.result \in Outcomes}
NewRun(step, r) == [step |-> step, request |-> r, site |-> None, result |-> "none"]
NoRun == NewRun("idle", None)

Status(j)  == jobs[j].status
Live       == {j \in Jobs : Status(j) \in LiveStatuses}
Running    == {j \in Jobs : Status(j) = "running"}
RequestsOf(js) == {jobs[j].request : j \in js}
JobsOf(r)  == {j \in Jobs : jobs[j].request = r}

\* A job's document gets another status.
SetStatus(j, status) ==
    jobs' = [jobs EXCEPT ![j] = [request |-> @.request, status |-> status, late |-> @.late, age |-> @.age]]

CanServe(t, j) == active[t] = SiteOf[jobs[j].request]

\* One more fault, of the bounded number a behaviour may have.
Fault == faults < MaxFaults /\ faults' = faults + 1

TypeOK ==
    /\ jobs \in [Jobs -> Job]
    /\ \A j \in Jobs : Status(j) # "none" => jobs[j].request \in Requests
    /\ seen \in [Phones -> SUBSET Jobs]
    /\ reqs \in [Requests -> {"pending", "complete", "closed"}]
    /\ invites \in [Requests \X Sites -> Nat]
    /\ granted \subseteq Requests
    /\ at \in [Tabs -> Sites]
    /\ active \in [Tabs -> Sites \cup {None}]
    /\ pc \in [Tabs -> {"idle", "sift", "claim", "run", "closed"}]
    /\ page \in [Tabs -> SUBSET Jobs] /\ fresh \in [Tabs -> SUBSET Jobs]
    /\ \A t \in Tabs : \A j \in page[t] \cup fresh[t] : Status(j) # "none"
    /\ job \in [Tabs -> Jobs \cup {None}]
    /\ busy \in [Tabs -> SUBSET Requests] /\ last \in [Tabs -> SUBSET Requests]
    /\ stale \in [Tabs -> BOOLEAN] /\ cards \in [Tabs -> SUBSET Requests]
    /\ run \in [Runners -> Run]
    /\ faults \in 0..MaxFaults
    /\ wrote \subseteq Jobs \cup {None} /\ swept \subseteq Jobs
    /\ began \in [Tabs -> SUBSET Jobs] /\ polled \in [Tabs -> SUBSET Jobs]

Init ==
    /\ jobs = [j \in Jobs |-> NoJob]
    /\ seen = [p \in Phones |-> {}]
    /\ reqs = [r \in Requests |-> "pending"]
    /\ invites = [rs \in Requests \X Sites |-> 0]
    /\ granted = {}
    /\ at = HomeTab
    /\ active = [t \in Tabs |-> None]
    /\ pc = [t \in Tabs |-> "idle"]
    /\ page = [t \in Tabs |-> {}]
    /\ fresh = [t \in Tabs |-> {}]
    /\ job = [t \in Tabs |-> None]
    /\ busy = [t \in Tabs |-> {}]
    /\ last = [t \in Tabs |-> {}]
    /\ stale = [t \in Tabs |-> TRUE]
    /\ cards = [t \in Tabs |-> Requests]
    /\ run = [a \in Runners |-> NoRun]
    /\ faults = 0
    /\ wrote = {}
    /\ swept = {}
    /\ began = [t \in Tabs |-> {}]
    /\ polled = [t \in Tabs |-> {}]

-----------------------------------------------------------------------------
(* The phone.                                                              *)

\* The more conclusive status speaks for a request with several jobs: what was
\* written in Kindoo is never displaced by a sibling that failed.
StatusRank == [applied |-> 5, partial |-> 4, running |-> 3, queued |-> 2,
               failed |-> 1, cancelled |-> 1]

SpeaksFor(p, r, j) ==
    /\ j \in seen[p] \cap JobsOf(r)
    /\ \A k \in seen[p] \cap JobsOf(r) : StatusRank[Status(k)] <= StatusRank[Status(j)]

\* (mutation) the button is offered whatever jobs the request has.
TapUnguarded(p, r, j) ==
    /\ reqs[r] = "pending"
    /\ jobs[j] = NoJob
    /\ jobs' = [jobs EXCEPT ![j] = [request |-> r, status |-> "queued", late |-> FALSE, age |-> 0]]
    /\ seen' = [seen EXCEPT ![p] = @ \cup {j}]
    /\ UNCHANGED <<reqs, kindoo, at, tick, gate, cards, run, faults, history>>

\* "Apply via extension": offered while the request's row shows no job, or one
\* that failed or was cancelled.  The phone sees its own writes at once.
Tap(p, r, j) ==
    /\ reqs[r] = "pending"
    /\ jobs[j] = NoJob
    /\ \A k \in Jobs : SpeaksFor(p, r, k) => Status(k) \in {"failed", "cancelled"}
    /\ jobs' = [jobs EXCEPT ![j] = [request |-> r, status |-> "queued", late |-> FALSE, age |-> 0]]
    /\ seen' = [seen EXCEPT ![p] = @ \cup {j}]
    /\ UNCHANGED <<reqs, kindoo, at, tick, gate, cards, run, faults, history>>

\* The phone's subscription catches up with the mailbox.
Snapshot(p) ==
    /\ seen' = [seen EXCEPT ![p] = {j \in Jobs : jobs[j] # NoJob}]
    /\ seen' # seen
    /\ UNCHANGED <<jobs, reqs, kindoo, at, tick, gate, cards, run, faults, history>>

\* queued -> cancelled: the rules pin the status before the write.
Cancelled(j) == SetStatus(j, "cancelled")

\* The phone's pickup timer, armed for the job its row shows.
PhoneTimeout(p, j) ==
    /\ SpeaksFor(p, jobs[j].request, j)
    /\ Status(j) = "queued" /\ jobs[j].late
    /\ Cancelled(j)
    /\ UNCHANGED <<seen, reqs, kindoo, at, tick, gate, cards, run, faults, history>>

-----------------------------------------------------------------------------
(* Time, the web app's other users, and the operator's navigation.         *)

\* The pickup window of a queued job passes.
Late(j) ==
    /\ Status(j) = "queued" /\ ~jobs[j].late
    /\ jobs' = [jobs EXCEPT ![j] = [request |-> @.request, status |-> @.status, late |-> TRUE, age |-> @.age]]
    /\ UNCHANGED <<seen, reqs, kindoo, at, tick, gate, cards, run, faults, history>>

\* A running job passes the next stranded threshold.
Age(j) ==
    /\ Status(j) = "running" /\ jobs[j].age < 2
    /\ jobs' = [jobs EXCEPT ![j] = [request |-> @.request, status |-> @.status, late |-> @.late, age |-> @.age + 1]]
    /\ UNCHANGED <<seen, reqs, kindoo, at, tick, gate, cards, run, faults, history>>

\* The request is rejected, cancelled or completed on the web.
Close(r) ==
    /\ reqs[r] = "pending"
    /\ reqs' = [reqs EXCEPT ![r] = "closed"]
    /\ UNCHANGED <<mailbox, kindoo, at, tick, gate, cards, run, faults, history>>

\* Kindoo is a single-page app: a tab changes sites without a reload.
Navigate(t, s) ==
    /\ pc[t] # "closed" /\ at[t] # s
    /\ at' = [at EXCEPT ![t] = s]
    /\ UNCHANGED <<mailbox, reqs, kindoo, tick, gate, cards, run, faults, history>>

-----------------------------------------------------------------------------
(* The tick of a tab: sweep, heartbeat, poll, claim.                       *)

\* A job is finalised as stranded, at the threshold of the site the loop
\* resolved last.  (A tick's own runs end before its next sweep.)
Sweep(t, j) ==
    /\ pc[t] = "idle"
    /\ Status(j) = "running"
    /\ jobs[j].age >= (IF CanServe(t, j) THEN 1 ELSE 2)
    /\ SetStatus(j, "failed")
    /\ swept' = IF \E u \in Tabs : pc[u] = "run" /\ job[u] = j THEN swept \cup {j} ELSE swept
    /\ UNCHANGED <<seen, reqs, kindoo, at, tick, gate, cards, run, faults, wrote>>

\* REMOTE_APPLY_BUSY_HOLD_MS passes since a tab's last complete poll.
HoldLapses(t) ==
    /\ ~stale[t]
    /\ stale' = [stale EXCEPT ![t] = TRUE]
    /\ UNCHANGED <<mailbox, reqs, kindoo, at, tick, busy, last, polled, cards, run, faults, history>>

\* A tick that could not look leaves the published set standing, or drops it
\* once the hold has lapsed.
Held(t) ==
    /\ busy' = IF stale[t] THEN [busy EXCEPT ![t] = {}] ELSE busy
    /\ polled' = IF stale[t] THEN [polled EXCEPT ![t] = {}] ELSE polled
    /\ UNCHANGED <<last, stale>>

\* The tick ends and forgets what it had read.
EndTick(t) ==
    /\ pc' = [pc EXCEPT ![t] = "idle"]
    /\ page' = [page EXCEPT ![t] = {}]
    /\ fresh' = [fresh EXCEPT ![t] = {}]
    /\ began' = [began EXCEPT ![t] = {}]

\* No session, a failed heartbeat or a failed read of the queued page.
TickBlind(t) ==
    /\ pc[t] = "idle"
    /\ Fault
    /\ Held(t)
    /\ active' \in {active, [active EXCEPT ![t] = None]}
    /\ UNCHANGED <<mailbox, reqs, kindoo, at, pc, page, fresh, job, began, cards, run, history>>

\* The heartbeat resolves the tab's site and the poll reads the queued page.
BeginPoll(t) ==
    /\ pc[t] = "idle"
    /\ pc' = [pc EXCEPT ![t] = "sift"]
    /\ active' = [active EXCEPT ![t] = at[t]]
    /\ page' = [page EXCEPT ![t] = {j \in Jobs : Status(j) = "queued"}]
    /\ began' = [began EXCEPT ![t] = Live]
    /\ UNCHANGED <<mailbox, reqs, kindoo, at, fresh, job, gate, cards, run, faults, history>>

\* (mutation) a job past its pickup window is skipped, not cancelled.
SiftSkips(t, j) ==
    /\ pc[t] = "sift" /\ j \in page[t]
    /\ page' = [page EXCEPT ![t] = @ \ {j}]
    /\ fresh' = [fresh EXCEPT ![t] = IF jobs[j].late THEN @ ELSE @ \cup {j}]
    /\ UNCHANGED <<mailbox, reqs, kindoo, at, active, pc, job, began, gate, cards, run, faults, history>>

\* A job of the page past its pickup window is cancelled, if it is still
\* queued and the write is not lost; the others are kept.
Sift(t, j) ==
    /\ pc[t] = "sift" /\ j \in page[t]
    /\ page' = [page EXCEPT ![t] = @ \ {j}]
    /\ IF jobs[j].late
       THEN /\ UNCHANGED fresh
            /\ \/ Status(j) = "queued" /\ Cancelled(j) /\ UNCHANGED faults
               \/ Status(j) # "queued" /\ UNCHANGED <<jobs, faults>>
               \/ Fault /\ UNCHANGED jobs
       ELSE /\ fresh' = [fresh EXCEPT ![t] = @ \cup {j}]
            /\ UNCHANGED <<jobs, faults>>
    /\ UNCHANGED <<seen, reqs, kindoo, at, active, pc, job, began, gate, cards, run, history>>

\* What both reads of a poll have in hand becomes the published set.
Publish(t, running) ==
    /\ pc' = [pc EXCEPT ![t] = "claim"]
    /\ last' = [last EXCEPT ![t] = running]
    /\ busy' = [busy EXCEPT ![t] = RequestsOf(fresh[t]) \cup running]

\* The page is through; the running jobs are read and the gate published.
ReadRunning(t) ==
    /\ pc[t] = "sift" /\ page[t] = {}
    /\ Publish(t, RequestsOf(Running))
    /\ stale' = [stale EXCEPT ![t] = FALSE]
    /\ polled' = [polled EXCEPT ![t] = began[t] \cap Live]
    /\ UNCHANGED <<mailbox, reqs, kindoo, at, active, page, fresh, job, began, cards, run, faults, history>>

\* The read fails: the running half of the answer before stands in for it,
\* until the hold has lapsed.
ReadRunningFails(t) ==
    /\ pc[t] = "sift" /\ page[t] = {}
    /\ Fault
    /\ Publish(t, IF stale[t] THEN {} ELSE last[t])
    /\ polled' = [polled EXCEPT ![t] = {}]
    /\ UNCHANGED <<mailbox, reqs, kindoo, at, active, page, fresh, job, began, stale, cards, run, history>>

Claimable(t) == {j \in fresh[t] : CanServe(t, j)}

\* Nothing to claim: the tick is over.
EndPoll(t) ==
    /\ pc[t] = "claim" /\ Claimable(t) = {}
    /\ EndTick(t)
    /\ UNCHANGED <<mailbox, reqs, kindoo, at, active, job, gate, cards, run, faults, history>>

\* The tick that won j starts to run it.
Start(t, j) ==
    /\ pc' = [pc EXCEPT ![t] = "run"]
    /\ fresh' = [fresh EXCEPT ![t] = {}]
    /\ job' = [job EXCEPT ![t] = j]
    /\ run' = [run EXCEPT ![<<t, "loop">>] = NewRun("pending", jobs[j].request)]
    /\ UNCHANGED <<page, began>>

\* (mutation) a claim does not depend on the status before it.
ClaimBlind(t, j) ==
    /\ pc[t] = "claim" /\ j \in Claimable(t)
    /\ SetStatus(j, "running") /\ Start(t, j)
    /\ UNCHANGED <<seen, reqs, kindoo, at, active, gate, cards, faults, history>>

\* (mutation) the claimed request leaves the published set at the claim.
ClaimDropsBusy(t, j) ==
    /\ pc[t] = "claim" /\ j \in Claimable(t)
    /\ \/ /\ Status(j) = "queued" /\ Start(t, j)
          /\ SetStatus(j, "running")
          /\ busy' = [busy EXCEPT ![t] = @ \ {jobs[j].request}]
       \/ Status(j) # "queued" /\ EndTick(t) /\ UNCHANGED <<jobs, job, run, busy>>
    /\ UNCHANGED <<seen, reqs, kindoo, at, active, last, stale, polled, cards, faults, history>>

\* One job the tab can serve is claimed, if it is still queued.  (The code takes
\* the oldest; which one that is, is left open.)
Claim(t, j) ==
    /\ pc[t] = "claim" /\ j \in Claimable(t)
    /\ \/ Status(j) = "queued" /\ SetStatus(j, "running") /\ Start(t, j)
       \/ Status(j) # "queued" /\ EndTick(t) /\ UNCHANGED <<jobs, job, run>>
    /\ UNCHANGED <<seen, reqs, kindoo, at, active, gate, cards, faults, history>>

\* The claim is lost, or lands and its answer is lost: the tick throws.
ClaimFails(t, j) ==
    /\ pc[t] = "claim" /\ j \in Claimable(t)
    /\ Fault
    /\ \/ UNCHANGED jobs
       \/ Status(j) = "queued" /\ SetStatus(j, "running")
    /\ Held(t)
    /\ EndTick(t)
    /\ UNCHANGED <<seen, reqs, kindoo, at, active, job, cards, run, history>>

-----------------------------------------------------------------------------
(* Provisioning (applyRequest), by the loop or by the panel's button.      *)

Advance(a, step, site, result) ==
    run' = [run EXCEPT ![a] = [step |-> step, request |-> @.request, site |-> site, result |-> result]]

\* The loop goes on to report; the panel shows an error, or a dialog that
\* takes the card with it, and that on `partial` offers to mark again.
Result(a, result) ==
    \/ /\ a[2] = "loop"
       /\ Advance(a, "finish", run[a].site, result)
       /\ UNCHANGED cards
    \/ /\ a[2] = "panel"
       /\ IF result = "partial" THEN Advance(a, "dialog", run[a].site, "none")
                               ELSE run' = [run EXCEPT ![a] = NoRun]
       /\ cards' = IF result = "failed" THEN cards ELSE [cards EXCEPT ![a[1]] = @ \ {run[a].request}]
Wrote(a) == wrote' = IF a[2] = "loop" THEN wrote \cup {job[a[1]]} ELSE wrote

\* One step of a run: on to the next one, or to a result.
Step(a, step) == Advance(a, step, run[a].site, "none") /\ UNCHANGED <<cards, faults>>
Ends(a, result) == Result(a, result) /\ UNCHANGED faults
Fails(a, result) == Result(a, result) /\ Fault

\* The loop re-reads the pending requests before anything else.
CheckPending(t) ==
    LET a == <<t, "loop">> IN
    /\ run[a].step = "pending"
    /\ \/ reqs[run[a].request] = "pending" /\ Step(a, "lookup")
       \/ reqs[run[a].request] # "pending" /\ Ends(a, "failed")
       \/ Fails(a, "failed")
    /\ UNCHANGED <<mailbox, reqs, kindoo, at, tick, gate, history>>

\* The desktop's own button, on a card that may be older than the request's
\* end.  It is gated on the busy set and on the job this tab is running.
Click(t, r) ==
    LET a == <<t, "panel">> IN
    /\ t \in Clickers /\ pc[t] # "closed"
    /\ r \in cards[t] /\ run[a] = NoRun
    /\ r \notin busy[t] /\ r # run[<<t, "loop">>].request
    /\ run' = [run EXCEPT ![a] = NewRun("lookup", r)]
    /\ UNCHANGED <<mailbox, reqs, kindoo, at, tick, gate, cards, faults, history>>

\* The panel's queue is fetched again.
Refresh(t) ==
    /\ t \in Clickers /\ pc[t] # "closed"
    /\ cards' = [cards EXCEPT ![t] = {r \in Requests : reqs[r] = "pending"}]
    /\ cards' # cards
    /\ UNCHANGED <<mailbox, reqs, kindoo, at, tick, gate, run, faults, history>>

\* The member is looked up in the site the session is in.
LookedUp(a) ==
    LET slot == <<run[a].request, at[a[1]]>> IN
    Advance(a, IF invites[slot] = 0 THEN "invite" ELSE "rules", at[a[1]], "none")

\* (mutation) the site of the session is not compared to the request's.
LookupAnySite(a) ==
    /\ run[a].step = "lookup"
    /\ LookedUp(a)
    /\ UNCHANGED <<mailbox, reqs, kindoo, at, tick, gate, cards, faults, history>>

\* The session is read, its site compared to the request's, and the member
\* looked up in Kindoo.
Lookup(a) ==
    /\ run[a].step = "lookup"
    /\ \/ at[a[1]] = SiteOf[run[a].request] /\ LookedUp(a) /\ UNCHANGED <<cards, faults>>
       \/ at[a[1]] # SiteOf[run[a].request] /\ Ends(a, "failed")
       \/ Fails(a, "failed")
    /\ UNCHANGED <<mailbox, reqs, kindoo, at, tick, gate, history>>

\* A member Kindoo did not have is invited; the call or its answer may be lost.
Invite(a) ==
    LET slot == <<run[a].request, run[a].site>> IN
    /\ run[a].step = "invite"
    /\ \/ /\ invites' = [invites EXCEPT ![slot] = @ + 1] /\ Wrote(a)
          /\ Step(a, "rules") \/ Fails(a, "failed")
       \/ Fails(a, "failed") /\ UNCHANGED <<invites, wrote>>
    /\ UNCHANGED <<mailbox, reqs, granted, at, tick, gate, swept>>

\* The access rules (and the user's settings) are brought up to date.
Rules(a) ==
    /\ run[a].step = "rules"
    /\ \/ /\ granted' = granted \cup {run[a].request} /\ Wrote(a)
          /\ Step(a, "mark") \/ Fails(a, "failed")
       \/ Fails(a, "failed") /\ UNCHANGED <<granted, wrote>>
    /\ UNCHANGED <<mailbox, reqs, invites, at, tick, gate, swept>>

\* (mutation) an error of the callable is taken for success.
MarkTrusting(a) ==
    /\ run[a].step = "mark"
    /\ \/ /\ reqs[run[a].request] = "pending"
          /\ reqs' = [reqs EXCEPT ![run[a].request] = "complete"]
       \/ reqs[run[a].request] # "pending" /\ UNCHANGED reqs
    /\ Ends(a, "applied")
    /\ UNCHANGED <<mailbox, kindoo, at, tick, gate, history>>

\* markRequestComplete: it fails on a request that is no longer pending, and
\* the call or its answer may be lost.
Mark(a) ==
    /\ run[a].step = "mark"
    /\ \/ /\ reqs[run[a].request] = "pending"
          /\ reqs' = [reqs EXCEPT ![run[a].request] = "complete"]
          /\ Ends(a, "applied") \/ Fails(a, "partial")
       \/ reqs[run[a].request] # "pending" /\ Ends(a, "partial") /\ UNCHANGED reqs
       \/ Fails(a, "partial") /\ UNCHANGED reqs
    /\ UNCHANGED <<mailbox, kindoo, at, tick, gate, history>>

\* The dialog of a `partial` result retries the SBA half, or is dismissed.
RetryMark(t) ==
    LET a == <<t, "panel">> IN
    /\ run[a].step = "dialog"
    /\ Advance(a, "mark", run[a].site, "none") \/ run' = [run EXCEPT ![a] = NoRun]
    /\ UNCHANGED <<mailbox, reqs, kindoo, at, tick, gate, cards, faults, history>>

\* (mutation) the outcome is written whatever became of the job.
ReportBlind(t) == SetStatus(job[t], run[<<t, "loop">>].result)

Report(t) ==
    /\ Status(job[t]) = "running"
    /\ SetStatus(job[t], run[<<t, "loop">>].result)

\* The terminal write of a run: it needs the job to be running still, and
\* releases the request's button once it is known to have landed.  All its
\* attempts may be lost, or only the answer.
Finish(t) ==
    /\ run[<<t, "loop">>].step = "finish"
    /\ \/ /\ Report(t)
          /\ busy' = [busy EXCEPT ![t] = @ \ {run[<<t, "loop">>].request}]
          /\ UNCHANGED <<last, stale, polled, faults>>
       \/ Status(job[t]) # "running" /\ Held(t) /\ UNCHANGED <<jobs, faults>>
       \/ Fault /\ Held(t) /\ (Report(t) \/ UNCHANGED jobs)
    /\ EndTick(t)
    /\ job' = [job EXCEPT ![t] = None]
    /\ run' = [run EXCEPT ![<<t, "loop">>] = NoRun]
    /\ UNCHANGED <<seen, reqs, kindoo, at, active, cards, history>>

-----------------------------------------------------------------------------
(* Tabs close and open.                                                    *)

CloseTab(t) ==
    /\ pc[t] # "closed" /\ t \notin StableTabs
    /\ Fault
    /\ pc' = [pc EXCEPT ![t] = "closed"]
    /\ active' = [active EXCEPT ![t] = None]
    /\ page' = [page EXCEPT ![t] = {}]
    /\ fresh' = [fresh EXCEPT ![t] = {}]
    /\ began' = [began EXCEPT ![t] = {}]
    /\ job' = [job EXCEPT ![t] = None]
    /\ busy' = [busy EXCEPT ![t] = {}]
    /\ last' = [last EXCEPT ![t] = {}]
    /\ stale' = [stale EXCEPT ![t] = TRUE]
    /\ polled' = [polled EXCEPT ![t] = {}]
    /\ run' = [a \in Runners |-> IF a[1] = t THEN NoRun ELSE run[a]]
    /\ UNCHANGED <<mailbox, reqs, kindoo, at, cards, history>>

OpenTab(t) ==
    /\ pc[t] = "closed"
    /\ pc' = [pc EXCEPT ![t] = "idle"]
    /\ cards' = [cards EXCEPT ![t] = {r \in Requests : reqs[r] = "pending"}]
    /\ UNCHANGED <<mailbox, reqs, kindoo, at, active, page, fresh, job, began, gate, run, faults, history>>

-----------------------------------------------------------------------------
PhoneNext ==
    \E p \in Phones :
        \/ \E r \in Requests, j \in Jobs : Tap(p, r, j)
        \/ Snapshot(p)
        \/ \E j \in Jobs : PhoneTimeout(p, j)

TickNext(t) ==
    \/ BeginPoll(t) \/ ReadRunning(t) \/ ReadRunningFails(t) \/ EndPoll(t) \/ TickBlind(t)
    \/ \E j \in Jobs : Sweep(t, j) \/ Sift(t, j) \/ Claim(t, j) \/ ClaimFails(t, j)

Apply(a) == Lookup(a) \/ Invite(a) \/ Rules(a) \/ Mark(a)

RunNext(t) == CheckPending(t) \/ Apply(<<t, "loop">>) \/ Finish(t)

PanelNext(t) ==
    \/ \E r \in Requests : Click(t, r)
    \/ Refresh(t) \/ Apply(<<t, "panel">>) \/ RetryMark(t)

World ==
    \/ \E j \in Jobs : Late(j) \/ Age(j)
    \/ \E r \in Requests : Close(r)
    \/ \E t \in Tabs : (\E s \in Sites : Navigate(t, s)) \/ HoldLapses(t) \/ CloseTab(t) \/ OpenTab(t)

Next == PhoneNext \/ World \/ \E t \in Tabs : TickNext(t) \/ RunNext(t) \/ PanelNext(t)

Spec == Init /\ [][Next]_vars

\* A tab that stays open goes on ticking (`schedule`), its awaits settle, and
\* time passes.
Fairness ==
    /\ \A j \in Jobs : WF_vars(Late(j)) /\ WF_vars(Age(j))
    /\ \A t \in StableTabs :
          /\ WF_vars(BeginPoll(t)) /\ WF_vars(ReadRunning(t)) /\ WF_vars(EndPoll(t))
          /\ WF_vars(\E j \in Jobs : Sift(t, j))
          /\ WF_vars(\E j \in Jobs : Claim(t, j))
          /\ SF_vars(\E j \in Jobs : Sweep(t, j))
          /\ WF_vars(RunNext(t))

FairSpec == Spec /\ Fairness

-----------------------------------------------------------------------------
(* Properties.                                                             *)

\* The status of a job moves from queued to running or cancelled, from running
\* to a reported outcome, and then never again; nor do the fields the phone
\* wrote: tabs, phones and sweeps race on the status (firestore.rules, jobs).
JobsMoveForward ==
    [][\A j \in Jobs : jobs[j] # NoJob /\ jobs'[j] # jobs[j] =>
          /\ jobs'[j].request = jobs[j].request
          /\ \/ Status(j) = "queued"  /\ jobs'[j].status \in {"queued", "running", "cancelled"}
             \/ Status(j) = "running" /\ jobs'[j].status \in {"running"} \cup Outcomes]_vars

\* A job is run by one tab, whatever the order in which tabs read, claim,
\* sweep, close and reopen (firestore.rules, "the status transitions ARE the
\* lock").
OneRunner == \A t, u \in Tabs : pc[t] = "run" /\ pc[u] = "run" /\ job[t] = job[u] => t = u

\* What a run in progress rests on: its tab claimed the job, and nobody cancels
\* or requeues the job or changes its request while it runs, although phones,
\* siblings and sweeps all write it (loop.ts `pollOnce`).
RunHoldsItsJob ==
    \A t \in Tabs :
        /\ pc[t] = "run" <=> run[<<t, "loop">>].step # "idle"
        /\ pc[t] = "run" =>
              /\ job[t] \in Jobs /\ Status(job[t]) \in {"running"} \cup Outcomes
              /\ run[<<t, "loop">>].request = jobs[job[t]].request

\* A cancelled job has not been provisioned: the phone says "Your desktop
\* didn't pick this up" and offers it again.
CancelledUntouched == \A j \in wrote : Status(j) # "cancelled"

\* The status is the lock of a job, for all who write it at once: one tab runs
\* it, nobody takes it from that tab, and a cancelled job was never begun.
StatusIsLock == TypeOK /\ RunHoldsItsJob /\ OneRunner /\ CancelledUntouched

\* A job the phone shows as applied granted the access and closed the request.
AppliedIsDone ==
    \A j \in Jobs : Status(j) = "applied" =>
        jobs[j].request \in granted /\ reqs[jobs[j].request] = "complete"

\* A member is invited only on the site of the request, though the operator
\* changes sites between the poll, the claim and the run (applyRequest.ts).
RightSiteOnly == \A r \in Requests, s \in Sites : s # SiteOf[r] => invites[<<r, s>>] = 0

\* The mailbox as a phone sees it: which tab runs a job, and nothing else of it.
Promised == INSTANCE JobLifecycle WITH
    status  <- [j \in Jobs |-> Status(j)],
    request <- [j \in Jobs |-> jobs[j].request],
    holds   <- [t \in Tabs |-> IF pc[t] = "run" THEN job[t] ELSE None],
    worked  <- wrote

\* With all its polls, sweeps, faults and closed tabs the loop keeps the
\* mailbox's promise: one attempt per job by the tab that claimed it, and no
\* `applied` or `partial` without work in Kindoo (module JobLifecycle).
KeepsPromise == Promised!Spec

\* Every job that was live throughout a tab's last complete poll still holds
\* that tab's button while it is live: claims by siblings, a run of its own
\* and a report that did not land do not release it (docs/spec.md, remote
\* apply: the gate covers every job of the mailbox).  It holds while one phone
\* queues; two phones may queue one request twice, and a run of the one job
\* releases the other's gate.
GateCoversPoll ==
    \A t \in Tabs : \A j \in polled[t] :
        Status(j) \in LiveStatuses /\ ~jobs[j].late =>
            jobs[j].request \in busy[t] \cup {run[<<t, "loop">>].request}

\* From the phone alone a member is invited once, across sibling tabs, retries,
\* closed tabs and lost answers; each invite more takes a run so slow that a
\* sweep gave its job up while it was going on (loop.ts: "re-applying blind ...
\* burns a second Kindoo licence").
InvitedOnce ==
    \A r \in Requests, s \in Sites : invites[<<r, s>>] <= 1 + Cardinality(swept \cap JobsOf(r))

\* While one tab stays open, every job the phone has sent reaches an outcome:
\* nobody waits for ever on a queued or a running one.
EveryJobSettles == \A j \in Jobs : Status(j) \in LiveStatuses ~> Status(j) \in TerminalStatuses
=============================================================================
